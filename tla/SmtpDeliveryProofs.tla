------------------------- MODULE SmtpDeliveryProofs -------------------------
(***************************************************************************)
(* Proofs about SmtpDelivery, for any clients, directories and operators:  *)
(* a 250 is earned, what was judged spam does not leave the server, nobody *)
(* relays who has not earned it, and no recipient behind a 250 is          *)
(* forgotten.  These need nothing of what routing finds, so they hold      *)
(* however aliases expand.  Then the routing of Routing itself: expansion  *)
(* finds what paths in the alias graph lead to, for every directory; and   *)
(* the routes it returns fit the hand-offs, so every variable keeps its    *)
(* type.                                                                   *)
(***************************************************************************)
EXTENDS SmtpDelivery, FiniteSetTheorems, WellFoundedInduction, TLAPS

-----------------------------------------------------------------------------
(* The invariant. *)

\* A DeliveryOutcome and a transaction, by their fields.
IsOutcome(o) ==
    o \in [delivered : {o.delivered}, forwarded : {o.forwarded}, rejected : {o.rejected},
           accepted : {o.accepted}, error : {o.error}]

IsTx(t) ==
    /\ t \in [envelope : {t.envelope}, stage : {t.stage}, try : {t.try}, offered : {t.offered},
              rcpts : {t.rcpts}, spam : {t.spam}, plan : {t.plan}, steps : {t.steps},
              boxes : {t.boxes}, groups : {t.groups}, outcome : {t.outcome},
              answer : {t.answer}]
    /\ IsOutcome(t.outcome)
    /\ t.spam \in BOOLEAN

Gains(o) == o.delivered \cup o.forwarded \cup o.accepted

\* What a transaction of m claims is backed by the copies and the rows there are,
\* and it sends nothing out itself if it is spam.
Backed(m, t, copies, rows) ==
    /\ IsTx(t)
    /\ t.outcome.delivered # {} => \E c \in copies : c.mail = m /\ c.try = t.try
    /\ t.outcome.forwarded # {} => \E q \in rows : q.mail = m /\ q.try = t.try
    /\ t.answer = 250 => Gains(t.outcome) # {}
    /\ t.spam => "outbound" \notin t.steps

Inv ==
    /\ tx = [m \in Mails |-> tx[m]]
    /\ \A m \in Mails : Backed(m, tx[m], inbox, queue)
    /\ SpamStaysHome

\* Nothing is claimed before the first attempt, nor at the start of another.
LEMMA FreshIsBacked ==
    ASSUME NEW m, NEW copies, NEW rows, NEW envelope, NEW stage, NEW try
    PROVE  /\ Backed(m, NoTx, copies, rows)
           /\ Backed(m, [NoTx EXCEPT !.envelope = envelope, !.stage = stage, !.try = try],
                     copies, rows)
  <1> DEFINE t == [NoTx EXCEPT !.envelope = envelope, !.stage = stage, !.try = try]
  <1>1. IsTx(NoTx)
    BY DEF IsTx, IsOutcome, NoTx, NoOutcome
  <1>2. /\ NoTx.outcome = NoOutcome /\ NoTx.answer = 0 /\ NoTx.steps = {}
        /\ NoOutcome.delivered = {} /\ NoOutcome.forwarded = {}
    BY DEF NoTx, NoOutcome
  <1>3. /\ IsTx(t) /\ t.outcome = NoTx.outcome /\ t.answer = NoTx.answer
        /\ t.steps = NoTx.steps
    BY <1>1 DEF IsTx
  <1> QED BY <1>1, <1>2, <1>3 DEF Backed

\* The answer 250 is given for a gain, and only without an error.
LEMMA SuccessNeedsAGain ==
    ASSUME NEW o, 250 \in smtp_response(o)
    PROVE  Gains(o) # {}
  BY DEF smtp_response, smtp_code, Gains

\* One transaction's step: it is backed afterwards, copies and rows only grow,
\* and no new row is spam.
LEMMA OneTransaction ==
    ASSUME Inv, NEW m \in Mails, NEW t, tx' = [tx EXCEPT ![m] = t],
           Backed(m, t, inbox', queue'), inbox \subseteq inbox', queue \subseteq queue',
           \A q \in queue' \ queue : ~q.spam
    PROVE  Inv'
  <1>1. /\ tx = [k \in Mails |-> tx[k]]
        /\ \A k \in Mails : Backed(k, tx[k], inbox, queue)
        /\ \A q \in queue : ~q.spam
    BY DEF Inv, SpamStaysHome
  <1>2. /\ tx' = [k \in Mails |-> tx'[k]] /\ tx'[m] = t
        /\ \A k \in Mails \ {m} : tx'[k] = tx[k]
    BY <1>1
  <1>3. ASSUME NEW k \in Mails \ {m}
        PROVE  Backed(k, tx'[k], inbox', queue')
    <2>1. Backed(k, tx[k], inbox, queue)
      BY <1>1
    <2>2. Backed(k, tx[k], inbox', queue')
      BY <2>1 DEF Backed
    <2> QED BY <1>2, <2>2
  <1>4. \A q \in queue' : ~q.spam
    BY <1>1
  <1> QED BY <1>2, <1>3, <1>4 DEF Inv, SpamStaysHome

\* The end of a transaction, with the answer its outcome gives.
LEMMA Closes ==
    ASSUME Inv, NEW m \in Mails, NEW t, Closed(m, t), Backed(m, t, inbox', queue'),
           inbox \subseteq inbox', queue \subseteq queue', \A q \in queue' \ queue : ~q.spam
    PROVE  Inv'
  <1>1. PICK code \in smtp_response(t.outcome) :
          tx' = [tx EXCEPT ![m] = [t EXCEPT !.stage = "closed", !.answer = code,
                                            !.steps = {}, !.groups = {}]]
    BY DEF Closed
  <1> DEFINE u == [t EXCEPT !.stage = "closed", !.answer = code, !.steps = {}, !.groups = {}]
  <1>2. code = 250 => Gains(t.outcome) # {}
    BY SuccessNeedsAGain
  <1>3. /\ u.outcome = t.outcome /\ u.answer = code /\ u.steps = {} /\ u.try = t.try
        /\ IsTx(u)
    BY DEF Backed, IsTx
  <1>4. Backed(m, u, inbox', queue')
    BY <1>2, <1>3 DEF Backed
  <1> HIDE DEF u
  <1> QED BY <1>1, <1>4, OneTransaction DEF u

\* The way on through deliver().
LEMMA Proceeds ==
    ASSUME Inv, NEW m \in Mails, NEW t, Proceed(m, t), Backed(m, t, inbox', queue'),
           inbox \subseteq inbox', queue \subseteq queue', \A q \in queue' \ queue : ~q.spam
    PROVE  Inv'
  <1>1. CASE Closed(m, t)
    BY <1>1, Closes
  <1>2. ASSUME NEW stage, NEW groups,
               tx' = [tx EXCEPT ![m] = [t EXCEPT !.stage = stage, !.groups = groups]]
        PROVE  Inv'
    <2> DEFINE u == [t EXCEPT !.stage = stage, !.groups = groups]
    <2>1. /\ IsTx(u) /\ u.outcome = t.outcome /\ u.try = t.try /\ u.answer = t.answer
          /\ u.spam = t.spam /\ u.steps = t.steps
      BY DEF Backed, IsTx
    <2>2. Backed(m, u, inbox', queue')
      BY <2>1 DEF Backed
    <2> HIDE DEF u
    <2> QED BY <1>2, <2>2, OneTransaction DEF u
  <1>3. CASE tx' = [tx EXCEPT ![m] = [t EXCEPT !.stage = "handoff"]]
    <2>1. [t EXCEPT !.stage = "handoff"] = [t EXCEPT !.stage = "handoff", !.groups = t.groups]
      BY DEF Backed, IsTx
    <2> QED BY <1>2, <1>3, <2>1
  <1> QED BY <1>1, <1>2, <1>3 DEF Proceed

\* deliver() raised.
LEMMA Aborts ==
    ASSUME Inv, NEW m \in Mails, Aborted(m), UNCHANGED <<inbox, queue>>
    PROVE  Inv'
  <1> DEFINE t == [tx[m] EXCEPT !.outcome.error = "temporary"]
  <1>1. Backed(m, tx[m], inbox, queue)
    BY DEF Inv
  <1>2. /\ IsTx(t) /\ t.try = tx[m].try /\ t.answer = tx[m].answer /\ t.spam = tx[m].spam
        /\ t.steps = tx[m].steps /\ t.outcome.delivered = tx[m].outcome.delivered
        /\ t.outcome.forwarded = tx[m].outcome.forwarded
        /\ t.outcome.accepted = tx[m].outcome.accepted
    BY <1>1 DEF Backed, IsTx, IsOutcome
  <1>3. Backed(m, t, inbox', queue')
    BY <1>1, <1>2 DEF Backed, Gains
  <1>4. Closed(m, t)
    BY DEF Aborted
  <1> HIDE DEF t
  <1> QED BY <1>3, <1>4, Closes

-----------------------------------------------------------------------------
(* The steps. *)

\* What a step changes of a transaction besides its claims keeps it backed.
LEMMA StaysBacked ==
    ASSUME NEW m, NEW t, NEW u, NEW copies, NEW rows, Backed(m, t, copies, rows), IsTx(u),
           u.outcome = t.outcome, u.try = t.try, u.answer = t.answer,
           u.spam => "outbound" \notin u.steps
    PROVE  Backed(m, u, copies, rows)
  BY DEF Backed

\* The envelope, and the decision to go on with it.
LEMMA EnvelopeSteps ==
    ASSUME Inv, NEW m \in Mails,
           \/ Connect(m) \/ Retry(m) \/ handle_DATA(m) \/ may_send(m) \/ record_bounces(m)
           \/ \E r \in Addresses : handle_RCPT(m, r) \/ RcptError(m, r)
    PROVE  Inv'
  <1>1. /\ UNCHANGED <<inbox, queue>>
        /\ Backed(m, tx[m], inbox, queue) /\ tx = [k \in Mails |-> tx[k]]
    BY DEF Inv, Connect, Retry, handle_DATA, may_send, record_bounces, handle_RCPT, RcptError
  <1>2. ASSUME NEW t, tx' = [tx EXCEPT ![m] = t], Backed(m, t, inbox, queue)
        PROVE  Inv'
    BY <1>1, <1>2, OneTransaction
  <1>3. CASE Connect(m) \/ Retry(m)
    <2>1. PICK envelope, try :
            tx' = [tx EXCEPT ![m] = [NoTx EXCEPT !.envelope = envelope, !.stage = "rcpt",
                                                 !.try = try]]
      BY <1>3 DEF Connect, Retry
    <2> DEFINE t == [NoTx EXCEPT !.envelope = envelope, !.stage = "rcpt", !.try = try]
    <2>2. Backed(m, t, inbox, queue)
      BY FreshIsBacked
    <2> HIDE DEF t
    <2> QED BY <1>2, <2>1, <2>2 DEF t
  <1>4. ASSUME NEW stage, tx' = [tx EXCEPT ![m].stage = stage]
        PROVE  Inv'
    <2> DEFINE t == [tx[m] EXCEPT !.stage = stage]
    <2>1. /\ IsTx(t) /\ t.outcome = tx[m].outcome /\ t.try = tx[m].try
          /\ t.answer = tx[m].answer /\ t.spam = tx[m].spam /\ t.steps = tx[m].steps
      BY <1>1 DEF Backed, IsTx
    <2>2. Backed(m, t, inbox, queue)
      BY <1>1, <2>1, StaysBacked DEF Backed
    <2>3. tx' = [tx EXCEPT ![m] = t]
      BY <1>1, <1>4
    <2> HIDE DEF t
    <2> QED BY <1>2, <2>2, <2>3
  <1>5. ASSUME NEW offered, NEW rcpts,
               tx' = [tx EXCEPT ![m].offered = offered, ![m].rcpts = rcpts]
        PROVE  Inv'
    <2> DEFINE t == [tx[m] EXCEPT !.offered = offered, !.rcpts = rcpts]
    <2>1. /\ IsTx(t) /\ t.outcome = tx[m].outcome /\ t.try = tx[m].try
          /\ t.answer = tx[m].answer /\ t.spam = tx[m].spam /\ t.steps = tx[m].steps
      BY <1>1 DEF Backed, IsTx
    <2>2. Backed(m, t, inbox, queue)
      BY <1>1, <2>1, StaysBacked DEF Backed
    <2>3. tx' = [tx EXCEPT ![m] = t]
      BY <1>1, <1>5
    <2> HIDE DEF t
    <2> QED BY <1>2, <2>2, <2>3
  <1>6. CASE handle_DATA(m)
    <2>1. CASE Closed(m, tx[m])
      BY <1>1, <2>1, Closes
    <2> QED BY <1>4, <1>6, <2>1 DEF handle_DATA
  <1>7. CASE may_send(m)
    <2> DEFINE t == [tx[m] EXCEPT !.outcome.error = "permanent"]
    <2>1. CASE Closed(m, t)
      <3>1. /\ IsTx(t) /\ t.try = tx[m].try /\ t.answer = tx[m].answer
            /\ t.spam = tx[m].spam /\ t.steps = tx[m].steps
            /\ t.outcome.delivered = tx[m].outcome.delivered
            /\ t.outcome.forwarded = tx[m].outcome.forwarded
            /\ t.outcome.accepted = tx[m].outcome.accepted
        BY <1>1 DEF Backed, IsTx, IsOutcome
      <3>2. Backed(m, t, inbox', queue')
        BY <1>1, <3>1 DEF Backed, Gains
      <3> HIDE DEF t
      <3> QED BY <1>1, <2>1, <3>2, Closes
    <2> QED BY <1>4, <1>7, <2>1 DEF may_send
  <1>8. CASE record_bounces(m)
    BY <1>4, <1>8 DEF record_bounces
  <1>9. ASSUME NEW r \in Addresses, handle_RCPT(m, r)
        PROVE  Inv'
    BY <1>5, <1>9 DEF handle_RCPT
  <1>10. ASSUME NEW r \in Addresses, RcptError(m, r)
         PROVE  Inv'
    <2>1. tx' = [tx EXCEPT ![m].offered = tx[m].offered \cup {r}]
      BY <1>1, <1>10 DEF RcptError
    <2>2. [tx[m] EXCEPT !.offered = tx[m].offered \cup {r}]
            = [tx[m] EXCEPT !.offered = tx[m].offered \cup {r}, !.rcpts = tx[m].rcpts]
      BY <1>1 DEF Backed, IsTx
    <2>3. tx' = [tx EXCEPT ![m].offered = tx[m].offered \cup {r}, ![m].rcpts = tx[m].rcpts]
      BY <1>1, <2>1, <2>2
    <2> QED BY <1>5, <2>3
  <1> QED BY <1>3, <1>6, <1>7, <1>8, <1>9, <1>10, ZenonT(40)

\* Routing: only a client that logged in sends out itself, and it is not judged.
LEMMA RoutingSteps ==
    ASSUME Inv, NEW m \in Mails, MailLoop(m) \/ route_all(m)
    PROVE  Inv'
  <1>1. /\ UNCHANGED <<inbox, queue>>
        /\ Backed(m, tx[m], inbox, queue) /\ tx = [k \in Mails |-> tx[k]]
    BY DEF Inv, MailLoop, route_all
  <1>2. CASE MailLoop(m)
    <2> DEFINE t == [tx[m] EXCEPT !.outcome.error = "permanent"]
    <2>1. /\ IsTx(t) /\ t.try = tx[m].try /\ t.answer = tx[m].answer
          /\ t.spam = tx[m].spam /\ t.steps = tx[m].steps
          /\ t.outcome.delivered = tx[m].outcome.delivered
          /\ t.outcome.forwarded = tx[m].outcome.forwarded
          /\ t.outcome.accepted = tx[m].outcome.accepted
      BY <1>1 DEF Backed, IsTx, IsOutcome
    <2>2. Backed(m, t, inbox', queue')
      BY <1>1, <2>1 DEF Backed, Gains
    <2>3. Closed(m, t)
      BY <1>2 DEF MailLoop
    <2> HIDE DEF t
    <2> QED BY <1>1, <2>2, <2>3, Closes
  <1>3. CASE route_all(m)
    <2> DEFINE R == {route(directory, r) : r \in tx[m].rcpts}
               out == Outbound(m, R)
               rejected == {r.reason : r \in {q \in R \ out : q.disposition = "reject"}}
               boxes == {r.recipient : r \in {q \in R : q.disposition \in {"local", "bridge"}}}
               steps == (IF out # {} THEN {"outbound"} ELSE {})
                            \cup (IF Forwarding(R) # {} THEN {"forward"} ELSE {})
                            \cup (IF Replying(R) # {} THEN {"reply"} ELSE {})
    <2>1. PICK verdict \in IF Submitted(m) THEN {FALSE} ELSE BOOLEAN :
            Proceed(m, [tx[m] EXCEPT !.plan = R, !.spam = verdict, !.outcome.rejected = rejected,
                                     !.boxes = boxes, !.steps = steps])
      BY <1>3 DEF route_all
    <2>2. verdict => "outbound" \notin steps
      <3>1. out # {} => Submitted(m)
        BY DEF Outbound
      <3> QED BY <3>1
    <2>3. verdict \in BOOLEAN
      OBVIOUS
    <2> HIDE DEF R, out, rejected, boxes, steps
    <2> DEFINE t == [tx[m] EXCEPT !.plan = R, !.spam = verdict, !.outcome.rejected = rejected,
                                  !.boxes = boxes, !.steps = steps]
    <2>4. /\ IsTx(t) /\ t.try = tx[m].try /\ t.answer = tx[m].answer
          /\ t.spam = verdict /\ t.steps = steps
          /\ t.outcome.delivered = tx[m].outcome.delivered
          /\ t.outcome.forwarded = tx[m].outcome.forwarded
          /\ t.outcome.accepted = tx[m].outcome.accepted
      BY <1>1, <2>3 DEF Backed, IsTx, IsOutcome
    <2>5. Backed(m, t, inbox', queue')
      BY <1>1, <2>2, <2>4 DEF Backed, Gains
    <2>6. Proceed(m, t)
      BY <2>1
    <2> HIDE DEF t
    <2> QED BY <1>1, <2>5, <2>6, Proceeds, ZenonT(40)
  <1> QED BY <1>2, <1>3

\* Submitted mail for elsewhere.
LEMMA OutboundStep ==
    ASSUME Inv, NEW m \in Mails, enqueue_outbound(m)
    PROVE  Inv'
  <1>1. /\ inbox' = inbox
        /\ Backed(m, tx[m], inbox, queue) /\ tx = [k \in Mails |-> tx[k]]
    BY DEF Inv, enqueue_outbound
  <1>2. "outbound" \in tx[m].steps /\ tx[m].spam = FALSE
    BY <1>1 DEF enqueue_outbound, Backed, IsTx
  <1> DEFINE to == {r.recipient : r \in Outbound(m, tx[m].plan)}
             row == Row(m, "submission", tx[m].envelope.from, to, tx[m].envelope.from)
  <1>3. CASE directory.hosted
    <2> DEFINE t == [tx[m] EXCEPT !.steps = @ \ {"outbound"}, !.outcome.forwarded = @ \cup to]
    <2>1. queue' = queue \cup {row} /\ Proceed(m, t)
      BY <1>3 DEF enqueue_outbound
    <2>2. row.mail = m /\ row.try = tx[m].try /\ ~row.spam
      BY <1>2 DEF Row
    <2> HIDE DEF to, row
    <2>3. /\ IsTx(t) /\ t.try = tx[m].try /\ t.answer = tx[m].answer /\ t.spam = tx[m].spam
          /\ t.outcome.delivered = tx[m].outcome.delivered
          /\ t.outcome.forwarded = tx[m].outcome.forwarded \cup to
          /\ t.outcome.accepted = tx[m].outcome.accepted
      BY <1>1 DEF Backed, IsTx, IsOutcome
    <2> HIDE DEF t
    <2>4. Backed(m, t, inbox', queue')
      BY <1>1, <1>2, <2>1, <2>2, <2>3 DEF Backed, Gains
    <2>5. queue \subseteq queue' /\ \A q \in queue' \ queue : ~q.spam
      BY <2>1, <2>2
    <2> QED BY <1>1, <2>1, <2>4, <2>5, Proceeds
  <1>4. CASE ~directory.hosted
    <2> DEFINE t == [tx[m] EXCEPT !.steps = @ \ {"outbound"}, !.outcome.error = "permanent"]
    <2>1. queue' = queue /\ Proceed(m, t)
      BY <1>4 DEF enqueue_outbound
    <2>2. /\ IsTx(t) /\ t.try = tx[m].try /\ t.answer = tx[m].answer /\ t.spam = tx[m].spam
          /\ t.outcome.delivered = tx[m].outcome.delivered
          /\ t.outcome.forwarded = tx[m].outcome.forwarded
          /\ t.outcome.accepted = tx[m].outcome.accepted
      BY <1>1 DEF Backed, IsTx, IsOutcome
    <2> HIDE DEF t
    <2>3. Backed(m, t, inbox', queue')
      BY <1>1, <1>2, <2>1, <2>2 DEF Backed, Gains
    <2> QED BY <1>1, <2>1, <2>3, Proceeds
  <1> QED BY <1>3, <1>4

\* Copies of aliases: none leaves the server if it is spam.
LEMMA ForwardStep ==
    ASSUME Inv, NEW m \in Mails, forward(m)
    PROVE  Inv'
  <1>1. /\ inbox' = inbox
        /\ Backed(m, tx[m], inbox, queue) /\ tx = [k \in Mails |-> tx[k]]
    BY ZenonT(40) DEF Inv, forward
  <1>2. "outbound" \notin tx[m].steps
    BY DEF forward
  <1> DEFINE F == Forwarding(tx[m].plan)
             leaving == {r \in F : Leaving(tx[m], r) # {}}
             free == {k \in Tokens : directory.token[k] = NoToken}
  <1>3. leaving # {} => tx[m].spam = FALSE
    BY <1>1 DEF Leaving, Backed, IsTx
  <1>4. CASE Aborted(m) /\ queue' = queue
    BY <1>1, <1>4, Aborts
  <1>5. CASE ~(Aborted(m) /\ queue' = queue)
    <2>1. PICK token \in [leaving -> free] :
            /\ queue' = queue \cup {Row(m, "forward", r.recipient, Leaving(tx[m], r), token[r]) :
                                        r \in leaving}
            /\ Proceed(m, [tx[m] EXCEPT
                    !.steps = @ \ {"forward"},
                    !.outcome.forwarded = @ \cup UNION {Leaving(tx[m], r) : r \in leaving},
                    !.boxes = @ \cup {a \in UNION {r.to : r \in F} : IsLocal(directory, a)}])
      BY <1>5 DEF forward
    <2> DEFINE rows == {Row(m, "forward", r.recipient, Leaving(tx[m], r), token[r]) :
                            r \in leaving}
               copied == UNION {Leaving(tx[m], r) : r \in leaving}
               mine == {a \in UNION {r.to : r \in F} : IsLocal(directory, a)}
    <2>2. \A q \in rows : q.mail = m /\ q.try = tx[m].try /\ ~q.spam
      BY <1>3 DEF Row
    <2>3. copied # {} => rows # {}
      OBVIOUS
    <2>4. queue' = queue \cup rows
      BY <2>1
    <2> HIDE DEF rows, copied, mine
    <2> DEFINE t == [tx[m] EXCEPT !.steps = @ \ {"forward"},
                                  !.outcome.forwarded = @ \cup copied, !.boxes = @ \cup mine]
    <2>5. Proceed(m, t)
      BY <2>1 DEF copied, mine
    <2>6. /\ IsTx(t) /\ t.try = tx[m].try /\ t.answer = tx[m].answer /\ t.spam = tx[m].spam
          /\ t.outcome.delivered = tx[m].outcome.delivered
          /\ t.outcome.forwarded = tx[m].outcome.forwarded \cup copied
          /\ t.outcome.accepted = tx[m].outcome.accepted
          /\ t.steps \subseteq tx[m].steps
      BY <1>1 DEF Backed, IsTx, IsOutcome
    <2> HIDE DEF t
    <2>7. Backed(m, t, inbox', queue')
      BY <1>1, <1>2, <2>2, <2>3, <2>4, <2>6 DEF Backed, Gains
    <2>8. queue \subseteq queue' /\ \A q \in queue' \ queue : ~q.spam
      BY <2>2, <2>4
    <2> QED BY <1>1, <2>5, <2>7, <2>8, Proceeds, ZenonT(40)
  <1> QED BY <1>4, <1>5

\* Answers through reply routes: none is relayed if it is spam.
LEMMA ReplyStep ==
    ASSUME Inv, NEW m \in Mails, relay_replies(m)
    PROVE  Inv'
  <1>1. /\ inbox' = inbox
        /\ Backed(m, tx[m], inbox, queue) /\ tx = [k \in Mails |-> tx[k]]
    BY DEF Inv, relay_replies
  <1> DEFINE R == Replying(tx[m].plan)
             bridged == {r \in R : r.reply.kind = "bridge"}
             null == tx[m].envelope.from = NullSender
             answered == {r \in bridged : ~null /\ accepts_reply_from(r.reply, tx[m].envelope)}
             relayed == IF tx[m].spam THEN {} ELSE answered
             kept == IF null THEN bridged ELSE answered \ relayed
  <1>2. CASE Aborted(m) /\ queue' = queue
    BY <1>1, <1>2, Aborts
  <1>3. CASE ~(Aborted(m) /\ queue' = queue)
    <2> DEFINE rows == {Row(m, "reply", r.recipient, {r.reply.original_from},
                            r.reply.local_address) : r \in relayed}
               told == {r.reply.original_from : r \in relayed}
               mine == {r.reply.local_address : r \in kept}
               dropped == {r.recipient : r \in IF null THEN R \ bridged ELSE {}}
               denied == {"no_such" : r \in IF null THEN {} ELSE R \ answered}
               t == [tx[m] EXCEPT !.steps = {}, !.boxes = @ \cup mine,
                                  !.outcome.forwarded = @ \cup told,
                                  !.outcome.accepted = @ \cup dropped,
                                  !.outcome.rejected = @ \cup denied]
    <2>1. queue' = queue \cup rows /\ Proceed(m, t)
      BY <1>3 DEF relay_replies
    <2>2. relayed # {} => tx[m].spam = FALSE
      BY <1>1 DEF Backed, IsTx
    <2>3. \A q \in rows : q.mail = m /\ q.try = tx[m].try /\ ~q.spam
      BY <2>2 DEF Row
    <2>4. told # {} => rows # {}
      OBVIOUS
    <2> HIDE DEF rows, told, mine, dropped, denied
    <2>5. /\ IsTx(t) /\ t.try = tx[m].try /\ t.answer = tx[m].answer /\ t.steps = {}
          /\ t.outcome.delivered = tx[m].outcome.delivered
          /\ t.outcome.forwarded = tx[m].outcome.forwarded \cup told
          /\ t.outcome.accepted = tx[m].outcome.accepted \cup dropped
      BY <1>1 DEF Backed, IsTx, IsOutcome
    <2> HIDE DEF t
    <2>6. Backed(m, t, inbox', queue')
      BY <1>1, <2>1, <2>3, <2>4, <2>5 DEF Backed, Gains
    <2>7. queue \subseteq queue' /\ \A q \in queue' \ queue : ~q.spam
      BY <2>1, <2>3
    <2> QED BY <1>1, <2>1, <2>6, <2>7, Proceeds
  <1> QED BY <1>2, <1>3

\* The hand-off to Dovecot, and what fails.
LEMMA StoreSteps ==
    ASSUME Inv, NEW m \in Mails, lmtp_deliver(m) \/ LmtpError(m) \/ DatabaseError(m)
    PROVE  Inv'
  <1>1. /\ queue' = queue
        /\ Backed(m, tx[m], inbox, queue) /\ tx = [k \in Mails |-> tx[k]]
    BY DEF Inv, lmtp_deliver, LmtpError, DatabaseError
  <1>2. CASE lmtp_deliver(m)
    <2>1. PICK g \in tx[m].groups : \E ok \in SUBSET g :
            LET t == [tx[m] EXCEPT !.groups = @ \ {g}, !.outcome.delivered = @ \cup ok]
            IN  /\ inbox' = inbox \cup Copies(m, ok)
                /\ IF t.groups = {} THEN Closed(m, t) ELSE tx' = [tx EXCEPT ![m] = t]
      BY <1>2 DEF lmtp_deliver
    <2>2. PICK ok \in SUBSET g :
            LET t == [tx[m] EXCEPT !.groups = @ \ {g}, !.outcome.delivered = @ \cup ok]
            IN  /\ inbox' = inbox \cup Copies(m, ok)
                /\ IF t.groups = {} THEN Closed(m, t) ELSE tx' = [tx EXCEPT ![m] = t]
      BY <2>1
    <2> DEFINE t == [tx[m] EXCEPT !.groups = @ \ {g}, !.outcome.delivered = @ \cup ok]
    <2>3. /\ inbox' = inbox \cup Copies(m, ok)
          /\ Closed(m, t) \/ tx' = [tx EXCEPT ![m] = t]
      BY <2>2
    <2>4. /\ IsTx(t) /\ t.try = tx[m].try /\ t.answer = tx[m].answer
          /\ t.spam = tx[m].spam /\ t.steps = tx[m].steps
          /\ t.outcome.delivered = tx[m].outcome.delivered \cup ok
          /\ t.outcome.forwarded = tx[m].outcome.forwarded
          /\ t.outcome.accepted = tx[m].outcome.accepted
      BY <1>1 DEF Backed, IsTx, IsOutcome
    <2> HIDE DEF t
    <2>5. ASSUME NEW b \in ok
          PROVE  \E c \in Copies(m, ok) : c.mail = m /\ c.try = tx[m].try
      <3> DEFINE c == [mail |-> m, try |-> tx[m].try, box |-> b]
      <3>1. c \in Copies(m, ok)
        BY DEF Copies
      <3>2. c.mail = m /\ c.try = tx[m].try
        OBVIOUS
      <3> HIDE DEF c
      <3> QED BY <3>1, <3>2
    <2>6. Backed(m, t, inbox', queue')
      BY <1>1, <2>3, <2>4, <2>5 DEF Backed, Gains
    <2> QED BY <1>1, <2>3, <2>6, Closes, OneTransaction
  <1>3. CASE LmtpError(m)
    <2> DEFINE t == [tx[m] EXCEPT !.outcome.error =
                        IF @ = "permanent" THEN "permanent" ELSE "temporary"]
    <2>1. Closed(m, t) /\ inbox \subseteq inbox'
      BY <1>3 DEF LmtpError
    <2>2. /\ IsTx(t) /\ t.try = tx[m].try /\ t.answer = tx[m].answer
          /\ t.spam = tx[m].spam /\ t.steps = tx[m].steps
          /\ t.outcome.delivered = tx[m].outcome.delivered
          /\ t.outcome.forwarded = tx[m].outcome.forwarded
          /\ t.outcome.accepted = tx[m].outcome.accepted
      BY <1>1 DEF Backed, IsTx, IsOutcome
    <2> HIDE DEF t
    <2>3. Backed(m, t, inbox', queue')
      BY <1>1, <2>1, <2>2 DEF Backed, Gains
    <2> QED BY <1>1, <2>1, <2>3, Closes
  <1>4. CASE DatabaseError(m)
    BY <1>4, Aborts DEF DatabaseError
  <1> QED BY <1>2, <1>3, <1>4

-----------------------------------------------------------------------------
(* The theorems. *)

LEMMA InitInv == Init => Inv
  <1> SUFFICES ASSUME Init
               PROVE  Inv
    OBVIOUS
  <1>1. tx = [m \in Mails |-> NoTx] /\ queue = {}
    BY DEF Init
  <1>2. \A m \in Mails : Backed(m, NoTx, inbox, queue)
    BY FreshIsBacked
  <1> QED BY <1>1, <1>2 DEF Inv, SpamStaysHome

LEMMA NextInv == Inv /\ [Next]_vars => Inv'
  <1> SUFFICES ASSUME Inv, [Next]_vars
               PROVE  Inv'
    OBVIOUS
  <1>1. CASE UNCHANGED <<tx, inbox, queue>>
    BY <1>1 DEF Inv, SpamStaysHome
  <1>2. CASE UNCHANGED vars
    BY <1>1, <1>2 DEF vars
  <1>3. CASE OperatorStep
    <2>1. ASSUME NEW a, NEW x, EditAccount(a, x) \/ EditAlias(a, x)
          PROVE  Inv'
      BY <1>1, <2>1 DEF EditAccount, EditAlias
    <2>2. ASSUME NEW a, unsuppress(a) \/ Expire(a)
          PROVE  Inv'
      BY <1>1, <2>2 DEF unsuppress, Expire
    <2>3. CASE DeleteDomain
      BY <1>1, <2>3 DEF DeleteDomain
    <2> QED BY <1>3, <2>1, <2>2, <2>3 DEF OperatorStep
  <1>4. ASSUME NEW m \in Mails, Step(m)
        PROVE  Inv'
    BY <1>4, EnvelopeSteps, RoutingSteps, OutboundStep, ForwardStep, ReplyStep, StoreSteps DEF Step
  <1>5. ASSUME NEW m \in Mails, Fault(m)
        PROVE  Inv'
    BY <1>5, EnvelopeSteps, StoreSteps DEF Fault
  <1> QED BY <1>2, <1>3, <1>4, <1>5 DEF Next

LEMMA Invariant == Spec => []Inv
  BY InitInv, NextInv, PTL DEF Spec

\* Whatever was judged spam is in no row of the queue: no forward, no bridge and
\* no reply carries it off the server (smtp.py, _forward and _relay_replies).
THEOREM SpamIsNotForwarded == Spec => []SpamStaysHome
  <1>1. Inv => SpamStaysHome
    BY DEF Inv
  <1> QED BY <1>1, Invariant, PTL

\* Nobody is told 250 for a message of which nothing was delivered, queued or
\* taken as the bounce of a forward (DeliveryOutcome.smtp_response).
THEOREM SuccessIsReal == Spec => []SuccessIsEarned
  <1>1. Inv => SuccessIsEarned
    <2> SUFFICES ASSUME Inv, NEW m \in Mails, Final(m), tx[m].answer = 250
                 PROVE  Took(m) # {} \/ Sent(m) # {} \/ tx[m].outcome.accepted # {}
      BY DEF SuccessIsEarned
    <2>1. Backed(m, tx[m], inbox, queue)
      BY DEF Inv
    <2> QED BY <2>1 DEF Backed, Gains, Took, Sent
  <1> QED BY <1>1, Invariant, PTL

-----------------------------------------------------------------------------
(* The way on, by what it leaves of a transaction.                         *)

\* u is t but for its stage, what is still to do, and the answer.
SameDelivery(t, u) ==
    /\ u.envelope = t.envelope /\ u.try = t.try /\ u.spam = t.spam
    /\ u.offered = t.offered /\ u.rcpts = t.rcpts
    /\ u.plan = t.plan /\ u.boxes = t.boxes /\ u.outcome = t.outcome

Ended(t, u) ==
    /\ SameDelivery(t, u) /\ u.stage = "closed" /\ u.steps = {} /\ u.groups = {}
    /\ u.answer \in smtp_response(t.outcome)

\* Ended, on its way to the next hand-off, or to Dovecot.
WentOn(t, u) ==
    \/ t.steps = {} /\ t.boxes = {} /\ Ended(t, u)
    \/ /\ SameDelivery(t, u) /\ u.stage = "handoff" /\ u.steps = t.steps
       /\ u.groups = t.groups /\ u.answer = t.answer
    \/ /\ SameDelivery(t, u) /\ u.stage = "store" /\ u.steps = {} /\ t.steps = {}
       /\ u.groups = spam_groups(t) /\ u.answer = t.answer

LEMMA WayOut ==
    ASSUME NEW m \in Mails, NEW t, IsTx(t), Closed(m, t)
    PROVE  \E u : tx' = [tx EXCEPT ![m] = u] /\ Ended(t, u)
  <1>1. PICK code \in smtp_response(t.outcome) :
          tx' = [tx EXCEPT ![m] = [t EXCEPT !.stage = "closed", !.answer = code,
                                            !.steps = {}, !.groups = {}]]
    BY DEF Closed
  <1> DEFINE u == [t EXCEPT !.stage = "closed", !.answer = code, !.steps = {}, !.groups = {}]
  <1>2. /\ SameDelivery(t, u) /\ u.stage = "closed" /\ u.steps = {} /\ u.groups = {}
        /\ u.answer = code
    BY DEF IsTx, SameDelivery
  <1> HIDE DEF u
  <1>3. Ended(t, u)
    BY <1>2 DEF Ended
  <1> QED BY <1>1, <1>3 DEF u

LEMMA WayOn ==
    ASSUME NEW m \in Mails, NEW t, IsTx(t), Proceed(m, t)
    PROVE  \E u : tx' = [tx EXCEPT ![m] = u] /\ WentOn(t, u)
  <1>1. CASE t.steps # {}
    <2> DEFINE u == [t EXCEPT !.stage = "handoff"]
    <2>1. tx' = [tx EXCEPT ![m] = u]
      BY <1>1 DEF Proceed
    <2>2. /\ SameDelivery(t, u) /\ u.stage = "handoff" /\ u.steps = t.steps
          /\ u.groups = t.groups /\ u.answer = t.answer
      BY DEF IsTx, SameDelivery
    <2> HIDE DEF u
    <2> QED BY <2>1, <2>2 DEF WentOn
  <1>2. CASE t.steps = {} /\ t.boxes = {}
    BY <1>2, WayOut DEF Proceed, WentOn
  <1>3. CASE t.steps = {} /\ t.boxes # {}
    <2> DEFINE u == [t EXCEPT !.stage = "store", !.groups = spam_groups(t)]
    <2>1. tx' = [tx EXCEPT ![m] = u]
      BY <1>3 DEF Proceed
    <2>2. /\ SameDelivery(t, u) /\ u.stage = "store" /\ u.steps = t.steps
          /\ u.groups = spam_groups(t) /\ u.answer = t.answer
      BY DEF IsTx, SameDelivery
    <2> HIDE DEF u
    <2> QED BY <1>3, <2>1, <2>2 DEF WentOn
  <1> QED BY <1>1, <1>2, <1>3

-----------------------------------------------------------------------------
(* Whom a row is for.                                                      *)

\* The route of token k is what a forward that is queued made of it.
Sourced(k, reply, rows, txs) ==
    \E p \in rows :
        /\ p.via = "forward" /\ p.envelope_from = k /\ p.to = reply.to
        /\ txs[p.mail].envelope.header = reply.original_from

\* Row q answers a forward, and comes from where that went.
Answers(q, rows, txs) ==
    \E p \in rows :
        /\ p.via = "forward" /\ p.envelope_from = q.source
        /\ {txs[q.mail].envelope.from, txs[q.mail].envelope.header} \cap p.to # {}
        /\ q.to = {txs[p.mail].envelope.header}

LoggedIn(envelope) == envelope # NoEnvelope /\ envelope.login # NoLogin

Earned(q, rows, txs) ==
    \/ LoggedIn(txs[q.mail].envelope)
    \/ q.via = "forward"
    \/ q.via = "reply" /\ Answers(q, rows, txs)

\* A transaction sends out itself only for one who logged in, and replies only
\* through routes that were made for a forward.
Lawful(t, rows, txs) ==
    /\ "outbound" \in t.steps => LoggedIn(t.envelope)
    /\ \A r \in t.plan : r.disposition = "reply" => Sourced(r.recipient, r.reply, rows, txs)

RelayInv ==
    /\ \A q \in queue : q.mail \in Mails /\ tx[q.mail].stage # "new"
    /\ \A q \in queue : Earned(q, queue, tx)
    /\ \A k \in Tokens :
        directory.token[k] # NoToken => Sourced(k, directory.token[k], queue, tx)
    /\ \A m \in Mails : Lawful(tx[m], queue, tx)

\* What holds of the rows goes on holding as rows are added, while the envelopes of
\* those there are stay what they were.
LEMMA EarnedStays ==
    ASSUME NEW rows, NEW txs, NEW more, NEW txs2, rows \subseteq more,
           \A p \in rows : txs2[p.mail].envelope = txs[p.mail].envelope
    PROVE  /\ \A k, reply : Sourced(k, reply, rows, txs) => Sourced(k, reply, more, txs2)
           /\ \A q \in rows : Earned(q, rows, txs) => Earned(q, more, txs2)
  <1>1. ASSUME NEW k, NEW reply, Sourced(k, reply, rows, txs)
        PROVE  Sourced(k, reply, more, txs2)
    BY <1>1 DEF Sourced
  <1>2. ASSUME NEW q \in rows, Answers(q, rows, txs)
        PROVE  Answers(q, more, txs2)
    BY <1>2 DEF Answers
  <1>3. ASSUME NEW q \in rows, Earned(q, rows, txs)
        PROVE  Earned(q, more, txs2)
    BY <1>2, <1>3 DEF Earned
  <1> QED BY <1>1, <1>3

\* One transaction's step.
LEMMA OneLawful ==
    ASSUME Inv, RelayInv, NEW m \in Mails, NEW u, tx' = [tx EXCEPT ![m] = u],
           u.stage # "new", tx[m].stage # "new" => u.envelope = tx[m].envelope,
           Lawful(u, queue, tx), queue \subseteq queue',
           \A q \in queue' \ queue :
               q.mail = m /\ tx[m].stage # "new" /\ Earned(q, queue, tx),
           \A k \in Tokens : directory'.token[k] # NoToken =>
               \/ directory.token[k] # NoToken /\ directory'.token[k] = directory.token[k]
               \/ Sourced(k, directory'.token[k], queue', tx)
    PROVE  RelayInv'
  <1>1. /\ tx = [k \in Mails |-> tx[k]]
        /\ tx' = [k \in Mails |-> tx'[k]] /\ tx'[m] = u
        /\ \A k \in Mails \ {m} : tx'[k] = tx[k]
    BY DEF Inv
  <1>2. /\ \A q \in queue : q.mail \in Mails /\ tx[q.mail].stage # "new"
        /\ \A q \in queue : Earned(q, queue, tx)
        /\ \A k \in Tokens :
            directory.token[k] # NoToken => Sourced(k, directory.token[k], queue, tx)
        /\ \A k \in Mails : Lawful(tx[k], queue, tx)
    BY DEF RelayInv
  <1>3. \A q \in queue' : q.mail \in Mails /\ tx[q.mail].stage # "new"
    BY <1>2
  <1>4. \A q \in queue' : /\ tx'[q.mail].envelope = tx[q.mail].envelope
                          /\ tx'[q.mail].stage # "new"
    BY <1>1, <1>3
  <1>5. \A q \in queue' : Earned(q, queue, tx)
    BY <1>2
  <1>6. \A q \in queue' : Earned(q, queue', tx')
    <2> SUFFICES ASSUME NEW q \in queue'
                 PROVE  Earned(q, queue', tx')
      OBVIOUS
    <2>1. Answers(q, queue, tx) => Answers(q, queue', tx')
      BY <1>4 DEF Answers
    <2> QED BY <1>4, <1>5, <2>1 DEF Earned
  <1>7. \A k, reply : /\ Sourced(k, reply, queue, tx) => Sourced(k, reply, queue', tx')
                      /\ Sourced(k, reply, queue', tx) => Sourced(k, reply, queue', tx')
    BY <1>4 DEF Sourced
  <1>8. \A k \in Tokens :
          directory'.token[k] # NoToken => Sourced(k, directory'.token[k], queue', tx')
    BY <1>2, <1>7
  <1>9. \A k \in Mails : Lawful(tx'[k], queue', tx')
    BY <1>1, <1>2, <1>7 DEF Lawful
  <1> QED BY <1>3, <1>4, <1>6, <1>8, <1>9 DEF RelayInv

\* A step that leaves the database alone, or only adds to the suppression list.
LEMMA LawfulMove ==
    ASSUME Inv, RelayInv, NEW m \in Mails, NEW u, tx' = [tx EXCEPT ![m] = u],
           u.stage # "new", tx[m].stage # "new" => u.envelope = tx[m].envelope,
           Lawful(u, queue, tx), queue' = queue, directory'.token = directory.token
    PROVE  RelayInv'
  BY OneLawful

\* deliver() raised, or there was nothing to do.
LEMMA LawfulEnd ==
    ASSUME Inv, RelayInv, NEW m \in Mails, tx[m].stage # "new", NEW t, IsTx(t), Closed(m, t),
           t.envelope = tx[m].envelope, t.plan = tx[m].plan, queue' = queue,
           directory'.token = directory.token
    PROVE  RelayInv'
  <1>1. PICK u : tx' = [tx EXCEPT ![m] = u] /\ Ended(t, u)
    BY WayOut
  <1>2. Lawful(tx[m], queue, tx)
    BY DEF RelayInv
  <1>3. Lawful(u, queue, tx)
    BY <1>1, <1>2 DEF Lawful, Ended, SameDelivery
  <1>4. u.stage # "new" /\ u.envelope = tx[m].envelope
    BY <1>1 DEF Ended, SameDelivery
  <1> QED BY <1>1, <1>3, <1>4, LawfulMove

LEMMA LawfulAbort ==
    ASSUME Inv, RelayInv, NEW m \in Mails, tx[m].stage # "new", Aborted(m), queue' = queue,
           directory'.token = directory.token
    PROVE  RelayInv'
  <1> DEFINE t == [tx[m] EXCEPT !.outcome.error = "temporary"]
  <1>1. IsTx(tx[m])
    BY DEF Inv, Backed
  <1>2. IsTx(t) /\ t.envelope = tx[m].envelope /\ t.plan = tx[m].plan
    BY <1>1 DEF IsTx, IsOutcome
  <1>3. Closed(m, t)
    BY DEF Aborted
  <1> HIDE DEF t
  <1> QED BY <1>2, <1>3, LawfulEnd

\* The envelope: it is the client's choice, and stays what it was.
LEMMA EnvelopeIsLawful ==
    ASSUME Inv, RelayInv, NEW m \in Mails,
           \/ Connect(m) \/ Retry(m) \/ handle_DATA(m) \/ may_send(m) \/ record_bounces(m)
           \/ \E r \in Addresses : handle_RCPT(m, r) \/ RcptError(m, r)
    PROVE  RelayInv'
  <1>1. /\ queue' = queue /\ directory'.token = directory.token
        /\ IsTx(tx[m]) /\ tx = [k \in Mails |-> tx[k]] /\ Lawful(tx[m], queue, tx)
    <2>1. directory' = directory \/ record_bounces(m)
      BY DEF Connect, Retry, handle_DATA, may_send, handle_RCPT, RcptError
    <2>2. directory'.token = directory.token
      <3>1. CASE record_bounces(m)
        <4>1. PICK s : directory' = [directory EXCEPT !.suppressed = s]
          BY <3>1 DEF record_bounces
        <4> QED BY <4>1
      <3> QED BY <2>1, <3>1
    <2> QED BY <2>2, ZenonT(40) DEF Inv, Backed, RelayInv, Connect, Retry, handle_DATA, may_send,
                        record_bounces, handle_RCPT, RcptError
  <1>2. CASE Connect(m) \/ Retry(m)
    <2>1. PICK envelope, try :
            /\ tx' = [tx EXCEPT ![m] = [NoTx EXCEPT !.envelope = envelope, !.stage = "rcpt",
                                                    !.try = try]]
            /\ tx[m].stage # "new" => envelope = tx[m].envelope
      <3>1. CASE Connect(m)
        <4>1. PICK e : tx' = [tx EXCEPT ![m] = [NoTx EXCEPT !.envelope = e, !.stage = "rcpt",
                                                            !.try = 1]]
          BY <3>1 DEF Connect
        <4>2. tx[m].stage = "new"
          BY <3>1 DEF Connect
        <4> QED BY <4>1, <4>2
      <3>2. CASE Retry(m)
        <4>1. tx' = [tx EXCEPT ![m] = [NoTx EXCEPT !.envelope = tx[m].envelope,
                                                   !.stage = "rcpt", !.try = tx[m].try + 1]]
          BY <3>2 DEF Retry
        <4> QED BY <4>1
      <3> QED BY <1>2, <3>1, <3>2
    <2> DEFINE u == [NoTx EXCEPT !.envelope = envelope, !.stage = "rcpt", !.try = try]
    <2>2. u.envelope = envelope /\ u.stage = "rcpt" /\ u.steps = {} /\ u.plan = {}
      BY DEF NoTx
    <2>3. Lawful(u, queue, tx)
      BY <2>2 DEF Lawful
    <2> HIDE DEF u
    <2>4. tx' = [tx EXCEPT ![m] = u]
      BY <2>1 DEF u
    <2> QED BY <1>1, <2>1, <2>2, <2>3, <2>4, LawfulMove
  <1>3. ASSUME NEW stage, tx' = [tx EXCEPT ![m].stage = stage],
               stage # "new"
        PROVE  RelayInv'
    <2> DEFINE u == [tx[m] EXCEPT !.stage = stage]
    <2>1. /\ u.envelope = tx[m].envelope /\ u.stage = stage /\ u.steps = tx[m].steps
          /\ u.plan = tx[m].plan
      BY <1>1 DEF IsTx
    <2>2. Lawful(u, queue, tx)
      BY <1>1, <2>1 DEF Lawful
    <2>3. tx' = [tx EXCEPT ![m] = u]
      BY <1>1, <1>3
    <2> HIDE DEF u
    <2> QED BY <1>1, <1>3, <2>1, <2>2, <2>3, LawfulMove
  <1>4. ASSUME NEW offered, NEW rcpts, tx[m].stage # "new",
               tx' = [tx EXCEPT ![m].offered = offered, ![m].rcpts = rcpts]
        PROVE  RelayInv'
    <2> DEFINE u == [tx[m] EXCEPT !.offered = offered, !.rcpts = rcpts]
    <2>1. /\ u.envelope = tx[m].envelope /\ u.stage = tx[m].stage /\ u.steps = tx[m].steps
          /\ u.plan = tx[m].plan
      BY <1>1 DEF IsTx
    <2>2. Lawful(u, queue, tx)
      BY <1>1, <2>1 DEF Lawful
    <2>3. tx' = [tx EXCEPT ![m] = u]
      BY <1>1, <1>4
    <2> HIDE DEF u
    <2> QED BY <1>1, <1>4, <2>1, <2>2, <2>3, LawfulMove
  <1>5. ASSUME NEW r, handle_RCPT(m, r) \/ RcptError(m, r)
        PROVE  RelayInv'
    <2>1. tx[m].stage # "new"
      BY <1>5 DEF handle_RCPT, RcptError
    <2>2. CASE handle_RCPT(m, r)
      BY <1>4, <2>1, <2>2 DEF handle_RCPT
    <2>3. CASE RcptError(m, r)
      <3>1. tx' = [tx EXCEPT ![m].offered = tx[m].offered \cup {r}, ![m].rcpts = tx[m].rcpts]
        BY <1>1, <2>3 DEF RcptError, IsTx
      <3> QED BY <1>4, <2>1, <3>1
    <2> QED BY <1>5, <2>2, <2>3
  <1>6. CASE handle_DATA(m)
    <2>1. tx[m].stage # "new"
      BY <1>6 DEF handle_DATA
    <2>2. CASE Closed(m, tx[m])
      BY <1>1, <2>1, <2>2, LawfulEnd
    <2>3. PICK stage \in {"may_send", "bounce", "route"} :
            Closed(m, tx[m]) \/ tx' = [tx EXCEPT ![m].stage = stage]
      BY <1>6 DEF handle_DATA
    <2> QED BY <1>3, <2>2, <2>3
  <1>7. CASE may_send(m)
    <2> DEFINE t == [tx[m] EXCEPT !.outcome.error = "permanent"]
    <2>1. tx[m].stage # "new" /\ (tx' = [tx EXCEPT ![m].stage = "route"] \/ Closed(m, t))
      BY <1>7 DEF may_send
    <2>2. IsTx(t) /\ t.envelope = tx[m].envelope /\ t.plan = tx[m].plan
      BY <1>1 DEF IsTx, IsOutcome
    <2> HIDE DEF t
    <2> QED BY <1>1, <1>3, <2>1, <2>2, LawfulEnd
  <1>8. CASE record_bounces(m)
    BY <1>3, <1>8 DEF record_bounces
  <1> QED BY <1>2, <1>5, <1>6, <1>7, <1>8, ZenonT(40)

\* Routing finds only reply routes that were made for a forward.
LEMMA RoutingIsLawful ==
    ASSUME Inv, RelayInv, NEW m \in Mails, MailLoop(m) \/ route_all(m)
    PROVE  RelayInv'
  <1>1. /\ queue' = queue /\ directory' = directory
        /\ IsTx(tx[m]) /\ tx[m].stage # "new"
    BY DEF Inv, Backed, MailLoop, route_all
  <1>2. CASE MailLoop(m)
    <2> DEFINE t == [tx[m] EXCEPT !.outcome.error = "permanent"]
    <2>1. IsTx(t) /\ t.envelope = tx[m].envelope /\ t.plan = tx[m].plan
      BY <1>1 DEF IsTx, IsOutcome
    <2>2. Closed(m, t)
      BY <1>2 DEF MailLoop
    <2> HIDE DEF t
    <2> QED BY <1>1, <2>1, <2>2, LawfulEnd
  <1>3. CASE route_all(m)
    <2> DEFINE R == {route(directory, r) : r \in tx[m].rcpts}
    <2> DEFINE out == Outbound(m, R)
               rejected == {r.reason : r \in {q \in R \ out : q.disposition = "reject"}}
               boxes == {r.recipient : r \in {q \in R : q.disposition \in {"local", "bridge"}}}
               steps == (IF out # {} THEN {"outbound"} ELSE {})
                            \cup (IF Forwarding(R) # {} THEN {"forward"} ELSE {})
                            \cup (IF Replying(R) # {} THEN {"reply"} ELSE {})
    <2>1. PICK verdict \in IF Submitted(m) THEN {FALSE} ELSE BOOLEAN :
            Proceed(m, [tx[m] EXCEPT !.plan = R, !.spam = verdict, !.outcome.rejected = rejected,
                                     !.boxes = boxes, !.steps = steps])
      BY <1>3 DEF route_all
    <2>8. verdict \in BOOLEAN
      OBVIOUS
    <2>9. "outbound" \in steps => Submitted(m)
      <3>1. out # {} => Submitted(m)
        BY DEF Outbound
      <3> QED BY <3>1
    <2> HIDE DEF out, rejected, boxes, steps
    <2>2. ASSUME NEW r \in R, r.disposition = "reply"
          PROVE  Sourced(r.recipient, r.reply, queue, tx)
      <3>1. PICK a \in tx[m].rcpts : r = route(directory, a)
        OBVIOUS
      <3>2. /\ IsLiveToken(directory, a)
            /\ r = [RouteTo(a, "reply", {}) EXCEPT !.reply = directory.token[a]]
        BY <2>2, <3>1 DEF route, RouteAccount, RouteAlias, Reject, RouteTo
      <3>3. r.recipient = a /\ r.reply = directory.token[a]
        BY <3>2 DEF RouteTo
      <3> QED BY <3>2, <3>3 DEF IsLiveToken, RelayInv
    <2> HIDE DEF R
    <2> DEFINE t == [tx[m] EXCEPT !.plan = R, !.spam = verdict,
                           !.outcome.rejected = rejected, !.boxes = boxes, !.steps = steps]
    <2>3. IsTx(t) /\ t.envelope = tx[m].envelope /\ t.plan = R /\ t.steps = steps
      BY <1>1, <2>8 DEF IsTx, IsOutcome
    <2>4. Proceed(m, t)
      BY <2>1
    <2> HIDE DEF t
    <2>5. PICK u : tx' = [tx EXCEPT ![m] = u] /\ WentOn(t, u)
      BY <2>3, <2>4, WayOn
    <2>6. /\ u.stage # "new" /\ u.envelope = tx[m].envelope /\ u.plan = R
          /\ u.steps \subseteq steps
      BY <2>3, <2>5 DEF WentOn, Ended, SameDelivery
    <2>7. Lawful(u, queue, tx)
      BY <2>9, <2>2, <2>6 DEF Lawful, LoggedIn, Submitted
    <2> QED BY <1>1, <2>5, <2>6, <2>7, LawfulMove
  <1> QED BY <1>2, <1>3

\* Only one who logged in has rows of his own.
LEMMA OutboundIsLawful ==
    ASSUME Inv, RelayInv, NEW m \in Mails, enqueue_outbound(m)
    PROVE  RelayInv'
  <1>1. /\ directory' = directory /\ IsTx(tx[m]) /\ tx[m].stage # "new"
        /\ "outbound" \in tx[m].steps /\ Lawful(tx[m], queue, tx)
    BY DEF Inv, Backed, RelayInv, enqueue_outbound
  <1> DEFINE to == {r.recipient : r \in Outbound(m, tx[m].plan)}
             row == Row(m, "submission", tx[m].envelope.from, to, tx[m].envelope.from)
  <1>2. row.mail = m /\ Earned(row, queue, tx)
    BY <1>1 DEF Row, Lawful, Earned
  <1>3. queue' = queue \/ queue' = queue \cup {row}
    BY DEF enqueue_outbound
  <1>4. PICK t : /\ Proceed(m, t) /\ IsTx(t) /\ t.envelope = tx[m].envelope
                 /\ t.plan = tx[m].plan /\ t.steps \subseteq tx[m].steps
    <2>1. CASE directory.hosted
      <3> DEFINE t == [tx[m] EXCEPT !.steps = @ \ {"outbound"}, !.outcome.forwarded = @ \cup to]
      <3>1. Proceed(m, t)
        BY <2>1 DEF enqueue_outbound
      <3> HIDE DEF to
      <3>2. /\ IsTx(t) /\ t.envelope = tx[m].envelope /\ t.plan = tx[m].plan
            /\ t.steps \subseteq tx[m].steps
        BY <1>1 DEF IsTx, IsOutcome
      <3> HIDE DEF t
      <3> QED BY <3>1, <3>2
    <2>2. CASE ~directory.hosted
      <3> DEFINE t == [tx[m] EXCEPT !.steps = @ \ {"outbound"}, !.outcome.error = "permanent"]
      <3>1. Proceed(m, t)
        BY <2>2 DEF enqueue_outbound
      <3>2. /\ IsTx(t) /\ t.envelope = tx[m].envelope /\ t.plan = tx[m].plan
            /\ t.steps \subseteq tx[m].steps
        BY <1>1 DEF IsTx, IsOutcome
      <3> HIDE DEF t
      <3> QED BY <3>1, <3>2
    <2> QED BY <2>1, <2>2
  <1> HIDE DEF row, to
  <1>5. PICK u : tx' = [tx EXCEPT ![m] = u] /\ WentOn(t, u)
    BY <1>4, WayOn
  <1>6. /\ u.stage # "new" /\ u.envelope = tx[m].envelope /\ u.plan = tx[m].plan
        /\ u.steps \subseteq tx[m].steps
    BY <1>4, <1>5 DEF WentOn, Ended, SameDelivery
  <1>7. Lawful(u, queue, tx)
    BY <1>1, <1>6 DEF Lawful
  <1>8. /\ queue \subseteq queue'
        /\ \A q \in queue' \ queue : q.mail = m /\ Earned(q, queue, tx)
    BY <1>2, <1>3
  <1> QED BY <1>1, <1>5, <1>6, <1>7, <1>8, OneLawful

\* A forward makes its reply routes in the transaction that queues its copies.
LEMMA ForwardIsLawful ==
    ASSUME Inv, RelayInv, NEW m \in Mails, forward(m)
    PROVE  RelayInv'
  <1>1. IsTx(tx[m]) /\ tx[m].stage # "new" /\ Lawful(tx[m], queue, tx)
    BY DEF Inv, Backed, RelayInv, forward
  <1> DEFINE F == Forwarding(tx[m].plan)
             leaving == {r \in F : Leaving(tx[m], r) # {}}
             free == {k \in Tokens : directory.token[k] = NoToken}
  <1>2. CASE Aborted(m) /\ queue' = queue /\ directory' = directory
    BY <1>1, <1>2, LawfulAbort
  <1>3. CASE ~(Aborted(m) /\ queue' = queue /\ directory' = directory)
    <2>1. PICK token \in [leaving -> free] :
            /\ directory' = [directory EXCEPT !.token =
                    [k \in Tokens |->
                        IF \E r \in leaving : token[r] = k
                        THEN ReplyRoute(tx[m], CHOOSE r \in leaving : token[r] = k)
                        ELSE @[k]]]
            /\ queue' = queue \cup {Row(m, "forward", r.recipient, Leaving(tx[m], r), token[r]) :
                                        r \in leaving}
            /\ Proceed(m, [tx[m] EXCEPT
                    !.steps = @ \ {"forward"},
                    !.outcome.forwarded = @ \cup UNION {Leaving(tx[m], r) : r \in leaving},
                    !.boxes = @ \cup {a \in UNION {r.to : r \in F} : IsLocal(directory, a)}])
      BY <1>3 DEF forward
    <2> DEFINE rows == {Row(m, "forward", r.recipient, Leaving(tx[m], r), token[r]) :
                            r \in leaving}
               copied == UNION {Leaving(tx[m], r) : r \in leaving}
               mine == {a \in UNION {r.to : r \in F} : IsLocal(directory, a)}
    <2>2. \A q \in rows : q.mail = m /\ Earned(q, queue, tx)
      BY DEF Row, Earned
    <2>3. ASSUME NEW k \in Tokens, directory'.token[k] # NoToken
          PROVE  \/ directory.token[k] # NoToken /\ directory'.token[k] = directory.token[k]
                 \/ Sourced(k, directory'.token[k], queue', tx)
      <3>1. directory'.token[k] = IF \E r \in leaving : token[r] = k
                                  THEN ReplyRoute(tx[m], CHOOSE r \in leaving : token[r] = k)
                                  ELSE directory.token[k]
        BY <2>1
      <3>2. CASE \E r \in leaving : token[r] = k
        <4>1. PICK r \in leaving :
                token[r] = k /\ directory'.token[k] = ReplyRoute(tx[m], r)
          BY <3>1, <3>2
        <4> DEFINE q == Row(m, "forward", r.recipient, Leaving(tx[m], r), token[r])
        <4>2. q \in queue'
          BY <2>1
        <4>3. /\ q.via = "forward" /\ q.envelope_from = k /\ q.to = Leaving(tx[m], r)
              /\ q.mail = m
          BY <4>1 DEF Row
        <4>4. /\ directory'.token[k].to = Leaving(tx[m], r)
              /\ directory'.token[k].original_from = tx[m].envelope.header
          BY <4>1 DEF ReplyRoute
        <4> HIDE DEF q
        <4> QED BY <4>2, <4>3, <4>4 DEF Sourced
      <3> QED BY <2>3, <3>1, <3>2
    <2>4. queue' = queue \cup rows
      BY <2>1
    <2> HIDE DEF rows, copied, mine
    <2> DEFINE t == [tx[m] EXCEPT !.steps = @ \ {"forward"},
                                  !.outcome.forwarded = @ \cup copied, !.boxes = @ \cup mine]
    <2>5. Proceed(m, t)
      BY <2>1 DEF copied, mine
    <2>6. /\ IsTx(t) /\ t.envelope = tx[m].envelope /\ t.plan = tx[m].plan
          /\ t.steps \subseteq tx[m].steps
      BY <1>1 DEF IsTx, IsOutcome
    <2> HIDE DEF t
    <2>7. PICK u : tx' = [tx EXCEPT ![m] = u] /\ WentOn(t, u)
      BY <2>5, <2>6, WayOn
    <2>8. /\ u.stage # "new" /\ u.envelope = tx[m].envelope /\ u.plan = tx[m].plan
          /\ u.steps \subseteq tx[m].steps
      BY <2>6, <2>7 DEF WentOn, Ended, SameDelivery
    <2>9. Lawful(u, queue, tx)
      BY <1>1, <2>8 DEF Lawful
    <2> QED BY <1>1, <2>2, <2>3, <2>4, <2>7, <2>8, <2>9, OneLawful
  <1> QED BY <1>2, <1>3

\* An answer is relayed only from where the forward went.
LEMMA ReplyIsLawful ==
    ASSUME Inv, RelayInv, NEW m \in Mails, relay_replies(m)
    PROVE  RelayInv'
  <1>1. /\ IsTx(tx[m]) /\ tx[m].stage # "new" /\ Lawful(tx[m], queue, tx)
        /\ directory' = directory
    BY DEF Inv, Backed, RelayInv, relay_replies
  <1> DEFINE R == Replying(tx[m].plan)
             bridged == {r \in R : r.reply.kind = "bridge"}
             null == tx[m].envelope.from = NullSender
             answered == {r \in bridged : ~null /\ accepts_reply_from(r.reply, tx[m].envelope)}
             relayed == IF tx[m].spam THEN {} ELSE answered
             kept == IF null THEN bridged ELSE answered \ relayed
  <1>2. CASE Aborted(m) /\ queue' = queue
    BY <1>1, <1>2, LawfulAbort
  <1>3. CASE ~(Aborted(m) /\ queue' = queue)
    <2> DEFINE rows == {Row(m, "reply", r.recipient, {r.reply.original_from},
                            r.reply.local_address) : r \in relayed}
               told == {r.reply.original_from : r \in relayed}
               mine == {r.reply.local_address : r \in kept}
               dropped == {r.recipient : r \in IF null THEN R \ bridged ELSE {}}
               denied == {"no_such" : r \in IF null THEN {} ELSE R \ answered}
               t == [tx[m] EXCEPT !.steps = {}, !.boxes = @ \cup mine,
                                  !.outcome.forwarded = @ \cup told,
                                  !.outcome.accepted = @ \cup dropped,
                                  !.outcome.rejected = @ \cup denied]
    <2>1. queue' = queue \cup rows /\ Proceed(m, t)
      BY <1>3 DEF relay_replies
    <2>2. ASSUME NEW q \in rows
          PROVE  q.mail = m /\ Earned(q, queue, tx)
      <3>1. PICK r \in relayed : q = Row(m, "reply", r.recipient, {r.reply.original_from},
                                         r.reply.local_address)
        OBVIOUS
      <3>2. /\ r \in tx[m].plan /\ r.disposition = "reply"
            /\ accepts_reply_from(r.reply, tx[m].envelope)
        BY DEF Replying
      <3>3. Sourced(r.recipient, r.reply, queue, tx)
        BY <1>1, <3>2 DEF Lawful
      <3>4. /\ q.mail = m /\ q.via = "reply" /\ q.source = r.recipient
            /\ q.to = {r.reply.original_from}
        BY <3>1 DEF Row
      <3>5. Answers(q, queue, tx)
        BY <3>2, <3>3, <3>4 DEF Sourced, Answers, accepts_reply_from
      <3> QED BY <3>4, <3>5 DEF Earned
    <2> HIDE DEF rows, told, mine, dropped, denied
    <2>3. /\ IsTx(t) /\ t.envelope = tx[m].envelope /\ t.plan = tx[m].plan /\ t.steps = {}
      BY <1>1 DEF IsTx, IsOutcome
    <2> HIDE DEF t
    <2>4. PICK u : tx' = [tx EXCEPT ![m] = u] /\ WentOn(t, u)
      BY <2>1, <2>3, WayOn
    <2>5. /\ u.stage # "new" /\ u.envelope = tx[m].envelope /\ u.plan = tx[m].plan
          /\ u.steps = {}
      BY <2>3, <2>4 DEF WentOn, Ended, SameDelivery
    <2>6. Lawful(u, queue, tx)
      BY <1>1, <2>5 DEF Lawful
    <2> QED BY <1>1, <2>1, <2>2, <2>4, <2>5, <2>6, OneLawful
  <1> QED BY <1>2, <1>3

\* The hand-off to Dovecot, and what fails.
LEMMA StoreIsLawful ==
    ASSUME Inv, RelayInv, NEW m \in Mails, lmtp_deliver(m) \/ LmtpError(m) \/ DatabaseError(m)
    PROVE  RelayInv'
  <1>1. /\ queue' = queue /\ directory' = directory /\ tx[m].stage # "new"
        /\ IsTx(tx[m]) /\ Lawful(tx[m], queue, tx)
    BY DEF Inv, Backed, RelayInv, lmtp_deliver, LmtpError, DatabaseError
  <1>2. CASE lmtp_deliver(m)
    <2>1. PICK g \in tx[m].groups : \E ok \in SUBSET g :
            LET t == [tx[m] EXCEPT !.groups = @ \ {g}, !.outcome.delivered = @ \cup ok]
            IN  IF t.groups = {} THEN Closed(m, t) ELSE tx' = [tx EXCEPT ![m] = t]
      BY <1>2 DEF lmtp_deliver
    <2>2. PICK ok \in SUBSET g :
            LET t == [tx[m] EXCEPT !.groups = @ \ {g}, !.outcome.delivered = @ \cup ok]
            IN  IF t.groups = {} THEN Closed(m, t) ELSE tx' = [tx EXCEPT ![m] = t]
      BY <2>1
    <2> DEFINE t == [tx[m] EXCEPT !.groups = @ \ {g}, !.outcome.delivered = @ \cup ok]
    <2>3. Closed(m, t) \/ tx' = [tx EXCEPT ![m] = t]
      BY <2>2
    <2>4. /\ IsTx(t) /\ t.envelope = tx[m].envelope /\ t.plan = tx[m].plan
          /\ t.steps = tx[m].steps /\ t.stage = tx[m].stage
      BY <1>1 DEF IsTx, IsOutcome
    <2> HIDE DEF t
    <2>5. Lawful(t, queue, tx)
      BY <1>1, <2>4 DEF Lawful
    <2> QED BY <1>1, <2>3, <2>4, <2>5, LawfulEnd, LawfulMove
  <1>3. CASE LmtpError(m)
    <2> DEFINE t == [tx[m] EXCEPT !.outcome.error =
                        IF @ = "permanent" THEN "permanent" ELSE "temporary"]
    <2>1. Closed(m, t)
      BY <1>3 DEF LmtpError
    <2>2. IsTx(t) /\ t.envelope = tx[m].envelope /\ t.plan = tx[m].plan
      BY <1>1 DEF IsTx, IsOutcome
    <2> HIDE DEF t
    <2> QED BY <1>1, <2>1, <2>2, LawfulEnd
  <1>4. CASE DatabaseError(m)
    BY <1>1, <1>4, LawfulAbort DEF DatabaseError
  <1> QED BY <1>2, <1>3, <1>4

LEMMA InitRelay == Init => RelayInv
  <1> SUFFICES ASSUME Init
               PROVE  RelayInv
    OBVIOUS
  <1>1. /\ tx = [m \in Mails |-> NoTx] /\ queue = {}
        /\ \A k \in Tokens : directory.token[k] = NoToken
    BY DeliveryAssumption DEF Init, DeliveryAssumption
  <1>2. NoTx.steps = {} /\ NoTx.plan = {}
    BY DEF NoTx
  <1> QED BY <1>1, <1>2 DEF RelayInv, Lawful

LEMMA NextRelay == Inv /\ RelayInv /\ [Next]_vars => RelayInv'
  <1> SUFFICES ASSUME Inv, RelayInv, [Next]_vars
               PROVE  RelayInv'
    OBVIOUS
  <1>1. ASSUME UNCHANGED <<tx, queue>>,
               \A k \in Tokens : directory'.token[k] # NoToken =>
                   /\ directory.token[k] # NoToken
                   /\ directory'.token[k].to = directory.token[k].to
                   /\ directory'.token[k].original_from = directory.token[k].original_from
        PROVE  RelayInv'
    BY <1>1 DEF RelayInv, Sourced
  <1>2. CASE UNCHANGED vars
    BY <1>1, <1>2 DEF vars
  <1>3. CASE OperatorStep
    <2>1. ASSUME NEW a, NEW x, EditAccount(a, x)
          PROVE  RelayInv'
      BY <1>1, <2>1 DEF EditAccount
    <2>2. ASSUME NEW a, NEW x, EditAlias(a, x)
          PROVE  RelayInv'
      BY <1>1, <2>2 DEF EditAlias
    <2>3. CASE DeleteDomain
      BY <1>1, <2>3 DEF DeleteDomain
    <2>4. ASSUME NEW a, unsuppress(a)
          PROVE  RelayInv'
      BY <1>1, <2>4 DEF unsuppress
    <2>5. ASSUME NEW a \in Tokens, Expire(a)
          PROVE  RelayInv'
      <3>1. /\ directory' = [directory EXCEPT !.token[a].expired = TRUE]
            /\ directory.token[a] # NoToken /\ UNCHANGED <<tx, queue>>
        BY <2>5 DEF Expire
      <3>2. ASSUME NEW k \in Tokens \ {a}
            PROVE  directory'.token[k] = directory.token[k]
        BY <3>1
      <3>3. /\ directory'.token[a].to = directory.token[a].to
            /\ directory'.token[a].original_from = directory.token[a].original_from
        BY <3>1
      <3> QED BY <1>1, <3>1, <3>2, <3>3
    <2> QED BY <1>3, <2>1, <2>2, <2>3, <2>4, <2>5 DEF OperatorStep
  <1>4. ASSUME NEW m \in Mails, Step(m)
        PROVE  RelayInv'
    BY <1>4, EnvelopeIsLawful, RoutingIsLawful, OutboundIsLawful, ForwardIsLawful, ReplyIsLawful,
       StoreIsLawful DEF Step
  <1>5. ASSUME NEW m \in Mails, Fault(m)
        PROVE  RelayInv'
    BY <1>5, EnvelopeIsLawful, StoreIsLawful DEF Fault
  <1> QED BY <1>2, <1>3, <1>4, <1>5 DEF Next

LEMMA RelayInvariant == Spec => [](Inv /\ RelayInv)
  <1>1. Init => Inv /\ RelayInv
    BY InitInv, InitRelay
  <1>2. (Inv /\ RelayInv) /\ [Next]_vars => (Inv /\ RelayInv)'
    BY NextInv, NextRelay
  <1> QED BY <1>1, <1>2, PTL DEF Spec

\* The server is no open relay: what a client that did not log in has queued is the
\* copy of an alias, or the answer to such a copy from where it was sent
\* (smtp.py, _relay_replies; ReplyRoute.accepts_reply_from).
THEOREM NoOpenRelay == Spec => []RelayIsEarned
  <1>1. RelayInv => RelayIsEarned
    BY DEF RelayInv, RelayIsEarned, Earned, Answers, LoggedIn, Submitted
  <1> QED BY <1>1, RelayInvariant, PTL

-----------------------------------------------------------------------------
(* What becomes of each recipient.                                         *)

NoError(o) == o.error \notin {"temporary", "permanent"}

OfferedTo(m, t, a, copies) == [mail |-> m, try |-> t.try, box |-> a] \in copies

QueuedFor(m, t, a, rows) == \E q \in rows : q.mail = m /\ q.try = t.try /\ a \in q.to

\* What route r asks for has been done, or is a step or a mailbox still to come.
\* Mailboxes are dealt with at the end, so theirs is to be among the boxes.
InHand(m, t, r, rows, d) ==
    /\ r.disposition \in {"local", "bridge"} => r.recipient \in t.boxes
    /\ \/ "forward" \in t.steps
       \/ \A a \in r.to :
            a \in t.boxes \/ QueuedFor(m, t, a, rows) \/ (t.spam /\ ~IsLocal(d, a))
    /\ r.disposition = "reply" =>
        \/ "reply" \in t.steps
        \/ r.reply.local_address \in t.boxes \/ QueuedFor(m, t, r.reply.original_from, rows)
        \/ r.recipient \in t.outcome.accepted \/ "no_such" \in t.outcome.rejected
    /\ r.disposition = "reject" =>
        \/ "outbound" \in t.steps /\ r.reason = "not_local"
        \/ r.reason \in t.outcome.rejected \/ QueuedFor(m, t, r.recipient, rows)

\* A transaction that met no error keeps every route in hand, and every mailbox
\* in a group to come until it has been offered.
Dealt(m, t, copies, rows, d) ==
    /\ t.stage \in {"new", "rcpt", "may_send", "bounce", "route"} => t.plan = {} /\ t.boxes = {}
    /\ t.stage \in {"store", "closed"} => t.steps = {}
    /\ t.stage = "closed" => t.groups = {} /\ (t.answer = 250 => NoError(t.outcome))
    /\ NoError(t.outcome) =>
        /\ \A r \in t.plan : InHand(m, t, r, rows, d)
        /\ t.stage \in {"store", "closed"} =>
            \A a \in t.boxes : a \in UNION t.groups \/ OfferedTo(m, t, a, copies)

DealtInv == \A m \in Mails : Dealt(m, tx[m], inbox \cup refused, queue, directory)

\* It stays so as copies and rows are added and the domain perhaps deleted.
LEMMA DealtStays ==
    ASSUME NEW m, NEW t, NEW copies, NEW more, NEW rows, NEW others, NEW d, NEW e,
           Dealt(m, t, copies, rows, d), copies \subseteq more, rows \subseteq others,
           e.hosted => d.hosted
    PROVE  Dealt(m, t, more, others, e)
  <1>1. \A a : /\ QueuedFor(m, t, a, rows) => QueuedFor(m, t, a, others)
               /\ OfferedTo(m, t, a, copies) => OfferedTo(m, t, a, more)
               /\ ~IsLocal(d, a) => ~IsLocal(e, a)
    BY DEF QueuedFor, OfferedTo, IsLocal
  <1>2. \A r : InHand(m, t, r, rows, d) => InHand(m, t, r, others, e)
    BY <1>1 DEF InHand
  <1> QED BY <1>1, <1>2 DEF Dealt

\* One transaction's step.
LEMMA OneDealt ==
    ASSUME Inv, DealtInv, NEW m \in Mails, NEW u, tx' = [tx EXCEPT ![m] = u],
           Dealt(m, u, inbox' \cup refused', queue', directory'),
           inbox \subseteq inbox', refused \subseteq refused', queue \subseteq queue',
           directory'.hosted => directory.hosted
    PROVE  DealtInv'
  <1>1. /\ tx' = [k \in Mails |-> tx'[k]] /\ tx'[m] = u
        /\ \A k \in Mails \ {m} : tx'[k] = tx[k]
    BY DEF Inv
  <1>2. ASSUME NEW k \in Mails \ {m}
        PROVE  Dealt(k, tx'[k], inbox' \cup refused', queue', directory')
    <2>1. Dealt(k, tx[k], inbox \cup refused, queue, directory)
      BY DEF DealtInv
    <2>2. Dealt(k, tx[k], inbox' \cup refused', queue', directory')
      BY <2>1, DealtStays
    <2> QED BY <1>1, <2>2
  <1> QED BY <1>1, <1>2 DEF DealtInv

\* 250 is the answer to an outcome without an error only.
LEMMA SuccessIsErrorless ==
    ASSUME NEW o, 250 \in smtp_response(o)
    PROVE  NoError(o)
  BY DEF smtp_response, NoError

\* The groups are the mailboxes.
LEMMA GroupsAreTheBoxes ==
    ASSUME NEW t
    PROVE  UNION spam_groups(t) = t.boxes
  BY DEF spam_groups

\* What a route still asks for does not depend on the stage.
LEMMA InHandStays ==
    ASSUME NEW m, NEW t, NEW u, NEW r, NEW rows, NEW d, InHand(m, t, r, rows, d),
           u.try = t.try, u.spam = t.spam, u.boxes = t.boxes, u.outcome = t.outcome,
           u.steps = t.steps
    PROVE  InHand(m, u, r, rows, d)
  BY DEF InHand, QueuedFor

\* At the end, where there is nothing left to do or an error was met.
LEMMA DealtEnd ==
    ASSUME Inv, DealtInv, NEW m \in Mails, NEW t, IsTx(t), Closed(m, t),
           NoError(t.outcome) =>
               /\ t.steps = {} /\ \A r \in t.plan : InHand(m, t, r, queue', directory')
               /\ \A a \in t.boxes : OfferedTo(m, t, a, inbox' \cup refused'),
           inbox \subseteq inbox', refused \subseteq refused', queue \subseteq queue',
           directory'.hosted => directory.hosted
    PROVE  DealtInv'
  <1>1. PICK u : tx' = [tx EXCEPT ![m] = u] /\ Ended(t, u)
    BY WayOut
  <1>2. /\ u.try = t.try /\ u.spam = t.spam /\ u.boxes = t.boxes /\ u.outcome = t.outcome
        /\ u.plan = t.plan /\ u.steps = {} /\ u.groups = {} /\ u.stage = "closed"
        /\ u.answer \in smtp_response(t.outcome)
    BY <1>1 DEF Ended, SameDelivery
  <1>3. u.answer = 250 => NoError(u.outcome)
    BY <1>2, SuccessIsErrorless
  <1>4. NoError(u.outcome) =>
          /\ \A r \in u.plan : InHand(m, u, r, queue', directory')
          /\ \A a \in u.boxes : OfferedTo(m, u, a, inbox' \cup refused')
    BY <1>2, InHandStays DEF OfferedTo
  <1>5. Dealt(m, u, inbox' \cup refused', queue', directory')
    BY <1>2, <1>3, <1>4 DEF Dealt
  <1> QED BY <1>1, <1>5, OneDealt

\* The way on through deliver().
LEMMA DealtOn ==
    ASSUME Inv, DealtInv, NEW m \in Mails, NEW t, IsTx(t), Proceed(m, t),
           NoError(t.outcome) => \A r \in t.plan : InHand(m, t, r, queue', directory'),
           UNCHANGED <<inbox, refused>>, queue \subseteq queue',
           directory'.hosted => directory.hosted
    PROVE  DealtInv'
  <1>1. PICK u : tx' = [tx EXCEPT ![m] = u] /\ WentOn(t, u)
    BY WayOn
  <1>2. /\ u.try = t.try /\ u.spam = t.spam /\ u.boxes = t.boxes /\ u.outcome = t.outcome
        /\ u.plan = t.plan /\ u.steps = t.steps
    BY <1>1 DEF WentOn, Ended, SameDelivery
  <1>3. NoError(u.outcome) => \A r \in u.plan : InHand(m, u, r, queue', directory')
    BY <1>2, InHandStays
  <1>4. CASE u.stage = "handoff"
    <2>1. Dealt(m, u, inbox' \cup refused', queue', directory')
      BY <1>3, <1>4 DEF Dealt
    <2> QED BY <1>1, <2>1, OneDealt
  <1>5. CASE u.stage = "store" /\ u.steps = {} /\ u.groups = spam_groups(t)
    <2>1. UNION u.groups = u.boxes
      BY <1>2, <1>5, GroupsAreTheBoxes
    <2>2. Dealt(m, u, inbox' \cup refused', queue', directory')
      BY <1>3, <1>5, <2>1 DEF Dealt
    <2> QED BY <1>1, <2>2, OneDealt
  <1>6. CASE t.steps = {} /\ t.boxes = {} /\ Ended(t, u)
    <2>1. /\ u.stage = "closed" /\ u.steps = {} /\ u.groups = {} /\ u.boxes = {}
          /\ u.answer \in smtp_response(u.outcome)
      BY <1>2, <1>6 DEF Ended
    <2>2. Dealt(m, u, inbox' \cup refused', queue', directory')
      BY <1>3, <2>1, SuccessIsErrorless DEF Dealt
    <2> QED BY <1>1, <2>2, OneDealt
  <1> QED BY <1>1, <1>4, <1>5, <1>6 DEF WentOn

LEMMA DealtAbort ==
    ASSUME Inv, DealtInv, NEW m \in Mails, Aborted(m), UNCHANGED <<inbox, refused, queue>>,
           directory'.hosted => directory.hosted
    PROVE  DealtInv'
  <1> DEFINE t == [tx[m] EXCEPT !.outcome.error = "temporary"]
  <1>1. IsTx(tx[m])
    BY DEF Inv, Backed
  <1>2. IsTx(t)
    BY <1>1 DEF IsTx, IsOutcome
  <1>3. t.outcome.error = "temporary"
    BY <1>1 DEF IsTx, IsOutcome
  <1>4. ~NoError(t.outcome)
    BY <1>3 DEF NoError
  <1>5. Closed(m, t)
    BY ZenonT(40) DEF Aborted
  <1> HIDE DEF t
  <1> QED BY <1>2, <1>4, <1>5, DealtEnd

\* Before routing there is nothing to deal with.
LEMMA EnvelopeIsDealt ==
    ASSUME Inv, DealtInv, NEW m \in Mails,
           \/ Connect(m) \/ Retry(m) \/ handle_DATA(m) \/ may_send(m) \/ record_bounces(m)
           \/ \E r \in Addresses : handle_RCPT(m, r) \/ RcptError(m, r)
    PROVE  DealtInv'
  <1>1. /\ UNCHANGED <<inbox, refused, queue>>
        /\ directory'.hosted => directory.hosted
        /\ IsTx(tx[m]) /\ tx = [k \in Mails |-> tx[k]]
    <2>1. directory' = directory \/ record_bounces(m)
      BY DEF Connect, Retry, handle_DATA, may_send, handle_RCPT, RcptError
    <2>2. CASE record_bounces(m)
      <3>1. PICK s : directory' = [directory EXCEPT !.suppressed = s]
        BY <2>2 DEF record_bounces
      <3>2. directory'.hosted = directory.hosted
        BY <3>1
      <3> QED BY <2>2, <3>2 DEF record_bounces, Inv, Backed
    <2> QED BY <2>1, <2>2 DEF Inv, Backed, Connect, Retry, handle_DATA, may_send,
                              handle_RCPT, RcptError
  <1>2. ASSUME NEW u, tx' = [tx EXCEPT ![m] = u], u.plan = {}, u.boxes = {},
               u.stage \in {"rcpt", "may_send", "bounce", "route"}
        PROVE  DealtInv'
    <2>1. Dealt(m, u, inbox' \cup refused', queue', directory')
      BY <1>2 DEF Dealt
    <2> QED BY <1>1, <1>2, <2>1, OneDealt
  <1>3. CASE Connect(m) \/ Retry(m)
    <2>1. PICK envelope, try :
            tx' = [tx EXCEPT ![m] = [NoTx EXCEPT !.envelope = envelope, !.stage = "rcpt",
                                                 !.try = try]]
      BY <1>3 DEF Connect, Retry
    <2> DEFINE u == [NoTx EXCEPT !.envelope = envelope, !.stage = "rcpt", !.try = try]
    <2>2. u.plan = {} /\ u.boxes = {} /\ u.stage = "rcpt"
      BY DEF NoTx
    <2> HIDE DEF u
    <2> QED BY <1>2, <2>1, <2>2 DEF u
  <1>4. ASSUME tx[m].stage \in {"rcpt", "may_send", "bounce", "route"}
        PROVE  tx[m].plan = {} /\ tx[m].boxes = {}
    BY <1>4 DEF DealtInv, Dealt
  <1>5. ASSUME NEW stage \in {"may_send", "bounce", "route"}, tx' = [tx EXCEPT ![m].stage = stage],
               tx[m].stage \in {"rcpt", "may_send", "bounce", "route"}
        PROVE  DealtInv'
    <2> DEFINE u == [tx[m] EXCEPT !.stage = stage]
    <2>1. u.plan = tx[m].plan /\ u.boxes = tx[m].boxes /\ u.stage = stage
      BY <1>1 DEF IsTx
    <2>2. tx' = [tx EXCEPT ![m] = u]
      BY <1>1, <1>5
    <2> HIDE DEF u
    <2> QED BY <1>2, <1>4, <1>5, <2>1, <2>2
  <1>6. ASSUME NEW offered, NEW rcpts, tx[m].stage = "rcpt",
               tx' = [tx EXCEPT ![m].offered = offered, ![m].rcpts = rcpts]
        PROVE  DealtInv'
    <2> DEFINE u == [tx[m] EXCEPT !.offered = offered, !.rcpts = rcpts]
    <2>1. u.plan = tx[m].plan /\ u.boxes = tx[m].boxes /\ u.stage = tx[m].stage
      BY <1>1 DEF IsTx
    <2>2. tx' = [tx EXCEPT ![m] = u]
      BY <1>1, <1>6
    <2> HIDE DEF u
    <2> QED BY <1>2, <1>4, <1>6, <2>1, <2>2
  <1>7. ASSUME NEW r, handle_RCPT(m, r) \/ RcptError(m, r)
        PROVE  DealtInv'
    <2>1. tx[m].stage = "rcpt"
      BY <1>7 DEF handle_RCPT, RcptError
    <2>2. CASE handle_RCPT(m, r)
      BY <1>6, <2>1, <2>2 DEF handle_RCPT
    <2>3. CASE RcptError(m, r)
      <3>1. tx' = [tx EXCEPT ![m].offered = tx[m].offered \cup {r}, ![m].rcpts = tx[m].rcpts]
        BY <1>1, <2>3 DEF RcptError, IsTx
      <3> QED BY <1>6, <2>1, <3>1
    <2> QED BY <1>7, <2>2, <2>3
  <1>8. ASSUME NEW t, Closed(m, t), IsTx(t), NoError(t.outcome) => t = tx[m],
               tx[m].stage \in {"rcpt", "may_send", "bounce", "route"}
        PROVE  DealtInv'
    <2>1. PICK u : tx' = [tx EXCEPT ![m] = u] /\ Ended(t, u)
      BY <1>8, WayOut
    <2>2. /\ u.plan = t.plan /\ u.boxes = t.boxes /\ u.stage = "closed" /\ u.steps = {}
          /\ u.groups = {} /\ u.outcome = t.outcome /\ u.answer \in smtp_response(t.outcome)
      BY <2>1 DEF Ended, SameDelivery
    <2>3. u.answer = 250 => NoError(u.outcome)
      BY <2>2, SuccessIsErrorless
    <2>4. NoError(u.outcome) => u.plan = {} /\ u.boxes = {}
      BY <1>4, <1>8, <2>2
    <2>5. Dealt(m, u, inbox' \cup refused', queue', directory')
      BY <2>2, <2>3, <2>4 DEF Dealt
    <2> QED BY <1>1, <2>1, <2>5, OneDealt
  <1>9. CASE handle_DATA(m)
    <2>1. tx[m].stage = "rcpt"
      BY <1>9 DEF handle_DATA
    <2>2. CASE Closed(m, tx[m])
      BY <1>1, <1>8, <2>1, <2>2
    <2>3. PICK stage \in {"may_send", "bounce", "route"} :
            Closed(m, tx[m]) \/ tx' = [tx EXCEPT ![m].stage = stage]
      BY <1>9 DEF handle_DATA
    <2> QED BY <1>5, <2>1, <2>2, <2>3
  <1>10. CASE may_send(m)
    <2> DEFINE t == [tx[m] EXCEPT !.outcome.error = "permanent"]
    <2>1. /\ tx[m].stage = "may_send"
          /\ tx' = [tx EXCEPT ![m].stage = "route"] \/ Closed(m, t)
      BY <1>10 DEF may_send
    <2>2. IsTx(t) /\ ~NoError(t.outcome)
      BY <1>1 DEF IsTx, IsOutcome, NoError
    <2> HIDE DEF t
    <2> QED BY <1>5, <1>8, <2>1, <2>2
  <1>11. CASE record_bounces(m)
    BY <1>5, <1>11 DEF record_bounces
  <1> QED BY <1>3, <1>7, <1>9, <1>10, <1>11

\* Routing puts every route in hand.
LEMMA RoutingIsDealt ==
    ASSUME Inv, DealtInv, NEW m \in Mails, MailLoop(m) \/ route_all(m)
    PROVE  DealtInv'
  <1>1. /\ UNCHANGED <<inbox, refused, queue, directory>> /\ IsTx(tx[m])
    BY DEF Inv, Backed, MailLoop, route_all
  <1>2. CASE MailLoop(m)
    <2> DEFINE t == [tx[m] EXCEPT !.outcome.error = "permanent"]
    <2>1. IsTx(t) /\ ~NoError(t.outcome)
      BY <1>1 DEF IsTx, IsOutcome, NoError
    <2>2. Closed(m, t)
      BY <1>2 DEF MailLoop
    <2> HIDE DEF t
    <2> QED BY <1>1, <2>1, <2>2, DealtEnd
  <1>3. CASE route_all(m)
    <2> DEFINE R == {route(directory, r) : r \in tx[m].rcpts}
               out == Outbound(m, R)
               rejected == {r.reason : r \in {q \in R \ out : q.disposition = "reject"}}
               boxes == {r.recipient : r \in {q \in R : q.disposition \in {"local", "bridge"}}}
               steps == (IF out # {} THEN {"outbound"} ELSE {})
                            \cup (IF Forwarding(R) # {} THEN {"forward"} ELSE {})
                            \cup (IF Replying(R) # {} THEN {"reply"} ELSE {})
    <2>1. PICK verdict \in IF Submitted(m) THEN {FALSE} ELSE BOOLEAN :
            Proceed(m, [tx[m] EXCEPT !.plan = R, !.spam = verdict, !.outcome.rejected = rejected,
                                     !.boxes = boxes, !.steps = steps])
      BY <1>3 DEF route_all
    <2>2. verdict \in BOOLEAN
      OBVIOUS
    <2>3. ASSUME NEW r \in R
          PROVE  /\ r.disposition \in {"local", "bridge"} => r.recipient \in boxes
                 /\ "forward" \in steps \/ r.to = {}
                 /\ r.disposition = "reply" => "reply" \in steps
                 /\ r.disposition = "reject" =>
                     ("outbound" \in steps /\ r.reason = "not_local") \/ r.reason \in rejected
      <3>1. r \in out => r.reason = "not_local"
        BY DEF Outbound
      <3> HIDE DEF R
      <3> QED BY <3>1 DEF Forwarding, Replying
    <2> HIDE DEF R, out, rejected, boxes, steps
    <2> DEFINE t == [tx[m] EXCEPT !.plan = R, !.spam = verdict, !.outcome.rejected = rejected,
                                  !.boxes = boxes, !.steps = steps]
    <2>4. /\ IsTx(t) /\ t.plan = R /\ t.boxes = boxes /\ t.steps = steps
          /\ t.outcome.rejected = rejected
      BY <1>1, <2>2 DEF IsTx, IsOutcome
    <2>5. Proceed(m, t)
      BY <2>1
    <2> HIDE DEF t
    <2>6. \A r \in t.plan : InHand(m, t, r, queue', directory')
      BY <2>3, <2>4 DEF InHand
    <2> QED BY <1>1, <2>4, <2>5, <2>6, DealtOn
  <1> QED BY <1>2, <1>3

\* Queueing what a submitting user sends elsewhere deals with those routes.
LEMMA OutboundIsDealt ==
    ASSUME Inv, RelayInv, DealtInv, NEW m \in Mails, enqueue_outbound(m)
    PROVE  DealtInv'
  <1>1. /\ UNCHANGED <<inbox, refused, directory>> /\ IsTx(tx[m])
        /\ tx[m].stage = "handoff" /\ "outbound" \in tx[m].steps
        /\ Dealt(m, tx[m], inbox \cup refused, queue, directory)
    BY DEF Inv, Backed, DealtInv, enqueue_outbound
  <1>2. Submitted(m)
    BY <1>1 DEF RelayInv, Lawful, LoggedIn, Submitted
  <1> DEFINE to == {r.recipient : r \in Outbound(m, tx[m].plan)}
             row == Row(m, "submission", tx[m].envelope.from, to, tx[m].envelope.from)
  <1>3. CASE directory.hosted
    <2> DEFINE t == [tx[m] EXCEPT !.steps = @ \ {"outbound"}, !.outcome.forwarded = @ \cup to]
    <2>1. queue' = queue \cup {row} /\ Proceed(m, t)
      BY <1>3 DEF enqueue_outbound
    <2>2. row.mail = m /\ row.try = tx[m].try /\ row.to = to
      BY DEF Row
    <2>3. ASSUME NEW r \in tx[m].plan, r.reason = "not_local"
          PROVE  r.recipient \in to
      BY <1>2, <2>3 DEF Outbound
    <2> HIDE DEF to, row
    <2>4. /\ IsTx(t) /\ t.plan = tx[m].plan /\ t.try = tx[m].try /\ t.spam = tx[m].spam
          /\ t.boxes = tx[m].boxes /\ t.steps = tx[m].steps \ {"outbound"}
          /\ t.outcome.error = tx[m].outcome.error
          /\ t.outcome.accepted = tx[m].outcome.accepted
          /\ t.outcome.rejected = tx[m].outcome.rejected
      BY <1>1 DEF IsTx, IsOutcome
    <2> HIDE DEF t
    <2>5. ASSUME NEW r \in t.plan, NoError(t.outcome)
          PROVE  InHand(m, t, r, queue', directory')
      <3>1. InHand(m, tx[m], r, queue, directory)
        BY <1>1, <2>4, <2>5 DEF Dealt, NoError
      <3>2. \A a : /\ QueuedFor(m, tx[m], a, queue) => QueuedFor(m, t, a, queue')
                   /\ a \in to => QueuedFor(m, t, a, queue')
        BY <2>1, <2>2, <2>4 DEF QueuedFor
      <3>3. r.reason = "not_local" => QueuedFor(m, t, r.recipient, queue')
        BY <2>3, <2>4, <3>2
      <3> QED BY <1>1, <2>4, <3>1, <3>2, <3>3 DEF InHand
    <2> QED BY <1>1, <2>1, <2>4, <2>5, DealtOn
  <1>4. CASE ~directory.hosted
    <2> DEFINE t == [tx[m] EXCEPT !.steps = @ \ {"outbound"}, !.outcome.error = "permanent"]
    <2>1. queue' = queue /\ Proceed(m, t)
      BY <1>4 DEF enqueue_outbound
    <2>2. IsTx(t) /\ ~NoError(t.outcome)
      BY <1>1 DEF IsTx, IsOutcome, NoError
    <2> HIDE DEF t
    <2> QED BY <1>1, <2>1, <2>2, DealtOn
  <1> QED BY <1>3, <1>4

\* A forward queues what leaves the server, and passes the rest to the boxes, unless it
\* is spam.
LEMMA ForwardIsDealt ==
    ASSUME Inv, DealtInv, NEW m \in Mails, forward(m)
    PROVE  DealtInv'
  <1>1. /\ UNCHANGED <<inbox, refused>> /\ IsTx(tx[m])
        /\ "outbound" \notin tx[m].steps
        /\ Dealt(m, tx[m], inbox \cup refused, queue, directory)
    BY DEF Inv, Backed, DealtInv, forward
  <1> DEFINE F == Forwarding(tx[m].plan)
             leaving == {r \in F : Leaving(tx[m], r) # {}}
             free == {k \in Tokens : directory.token[k] = NoToken}
  <1>2. CASE Aborted(m) /\ queue' = queue /\ directory' = directory
    BY <1>1, <1>2, DealtAbort
  <1>3. CASE ~(Aborted(m) /\ queue' = queue /\ directory' = directory)
    <2>1. PICK token \in [leaving -> free] :
            /\ directory' = [directory EXCEPT !.token =
                    [k \in Tokens |->
                        IF \E r \in leaving : token[r] = k
                        THEN ReplyRoute(tx[m], CHOOSE r \in leaving : token[r] = k)
                        ELSE @[k]]]
            /\ queue' = queue \cup {Row(m, "forward", r.recipient, Leaving(tx[m], r), token[r]) :
                                        r \in leaving}
            /\ Proceed(m, [tx[m] EXCEPT
                    !.steps = @ \ {"forward"},
                    !.outcome.forwarded = @ \cup UNION {Leaving(tx[m], r) : r \in leaving},
                    !.boxes = @ \cup {a \in UNION {r.to : r \in F} : IsLocal(directory, a)}])
      BY <1>3 DEF forward
    <2> DEFINE rows == {Row(m, "forward", r.recipient, Leaving(tx[m], r), token[r]) :
                            r \in leaving}
               copied == UNION {Leaving(tx[m], r) : r \in leaving}
               mine == {a \in UNION {r.to : r \in F} : IsLocal(directory, a)}
    <2>2. directory'.hosted = directory.hosted
      <3>1. PICK tokens : directory' = [directory EXCEPT !.token = tokens]
        BY <2>1
      <3> QED BY <3>1
    <2>3. ASSUME NEW r \in tx[m].plan, NEW a \in r.to
          PROVE  \/ a \in mine
                 \/ \E q \in rows : q.mail = m /\ q.try = tx[m].try /\ a \in q.to
                 \/ tx[m].spam /\ ~IsLocal(directory, a)
      <3>1. r \in F
        BY DEF Forwarding
      <3>2. CASE IsLocal(directory, a)
        BY <3>1, <3>2
      <3>3. CASE ~IsLocal(directory, a) /\ ~tx[m].spam
        <4>1. a \in Leaving(tx[m], r)
          BY <3>3 DEF Leaving
        <4> DEFINE q == Row(m, "forward", r.recipient, Leaving(tx[m], r), token[r])
        <4>2. q \in rows
          BY <3>1, <4>1
        <4>3. q.mail = m /\ q.try = tx[m].try /\ a \in q.to
          BY <4>1 DEF Row
        <4> HIDE DEF q, rows
        <4> QED BY <4>2, <4>3
      <3> QED BY <3>2, <3>3
    <2>4. queue' = queue \cup rows
      BY <2>1
    <2> HIDE DEF rows, copied, mine
    <2> DEFINE t == [tx[m] EXCEPT !.steps = @ \ {"forward"},
                                  !.outcome.forwarded = @ \cup copied, !.boxes = @ \cup mine]
    <2>5. Proceed(m, t)
      BY <2>1 DEF copied, mine
    <2>6. /\ IsTx(t) /\ t.plan = tx[m].plan /\ t.try = tx[m].try /\ t.spam = tx[m].spam
          /\ t.boxes = tx[m].boxes \cup mine /\ t.steps = tx[m].steps \ {"forward"}
          /\ t.outcome.error = tx[m].outcome.error
          /\ t.outcome.accepted = tx[m].outcome.accepted
          /\ t.outcome.rejected = tx[m].outcome.rejected
      BY <1>1 DEF IsTx, IsOutcome
    <2> HIDE DEF t
    <2>7. ASSUME NEW r \in t.plan, NoError(t.outcome)
          PROVE  InHand(m, t, r, queue', directory')
      <3>1. InHand(m, tx[m], r, queue, directory)
        BY <1>1, <2>6, <2>7 DEF Dealt, NoError
      <3>2. \A a : QueuedFor(m, tx[m], a, queue) => QueuedFor(m, t, a, queue')
        BY <2>4, <2>6 DEF QueuedFor
      <3>3. \A a : IsLocal(directory, a) <=> IsLocal(directory', a)
        BY <2>2 DEF IsLocal
      <3>4. ASSUME NEW a \in r.to
            PROVE  \/ a \in t.boxes \/ QueuedFor(m, t, a, queue')
                   \/ (t.spam /\ ~IsLocal(directory', a))
        <4>1. CASE \E q \in rows : q.mail = m /\ q.try = tx[m].try /\ a \in q.to
          BY <2>4, <2>6, <4>1 DEF QueuedFor
        <4> QED BY <2>3, <2>6, <3>3, <4>1
      <3> QED BY <1>1, <2>6, <3>1, <3>2, <3>4 DEF InHand
    <2> QED BY <1>1, <2>2, <2>4, <2>5, <2>6, <2>7, DealtOn
  <1> QED BY <1>2, <1>3

\* Every reply is relayed, kept, taken or refused.
LEMMA ReplyIsDealt ==
    ASSUME Inv, DealtInv, NEW m \in Mails, relay_replies(m)
    PROVE  DealtInv'
  <1>1. /\ UNCHANGED <<inbox, refused, directory>> /\ IsTx(tx[m]) /\ tx[m].steps = {"reply"}
        /\ Dealt(m, tx[m], inbox \cup refused, queue, directory)
    BY DEF Inv, Backed, DealtInv, relay_replies
  <1> DEFINE R == Replying(tx[m].plan)
             bridged == {r \in R : r.reply.kind = "bridge"}
             null == tx[m].envelope.from = NullSender
             answered == {r \in bridged : ~null /\ accepts_reply_from(r.reply, tx[m].envelope)}
             relayed == IF tx[m].spam THEN {} ELSE answered
             kept == IF null THEN bridged ELSE answered \ relayed
  <1>2. CASE Aborted(m) /\ queue' = queue
    BY <1>1, <1>2, DealtAbort
  <1>3. CASE ~(Aborted(m) /\ queue' = queue)
    <2> DEFINE rows == {Row(m, "reply", r.recipient, {r.reply.original_from},
                            r.reply.local_address) : r \in relayed}
               told == {r.reply.original_from : r \in relayed}
               mine == {r.reply.local_address : r \in kept}
               dropped == {r.recipient : r \in IF null THEN R \ bridged ELSE {}}
               denied == {"no_such" : r \in IF null THEN {} ELSE R \ answered}
               t == [tx[m] EXCEPT !.steps = {}, !.boxes = @ \cup mine,
                                  !.outcome.forwarded = @ \cup told,
                                  !.outcome.accepted = @ \cup dropped,
                                  !.outcome.rejected = @ \cup denied]
    <2>1. queue' = queue \cup rows /\ Proceed(m, t)
      BY <1>3 DEF relay_replies
    <2>2. ASSUME NEW r \in tx[m].plan, r.disposition = "reply"
          PROVE  \/ r.reply.local_address \in mine
                 \/ \E q \in rows : /\ q.mail = m /\ q.try = tx[m].try
                                    /\ r.reply.original_from \in q.to
                 \/ r.recipient \in dropped \/ "no_such" \in denied
      <3>1. r \in R
        BY <2>2 DEF Replying
      <3>2. CASE r \in relayed
        <4> DEFINE q == Row(m, "reply", r.recipient, {r.reply.original_from},
                            r.reply.local_address)
        <4>1. q \in rows
          BY <3>2
        <4>2. q.mail = m /\ q.try = tx[m].try /\ r.reply.original_from \in q.to
          BY DEF Row
        <4> HIDE DEF q, rows
        <4> QED BY <4>1, <4>2
      <3>3. CASE r \in kept
        BY <3>3
      <3>4. CASE r \notin kept /\ r \notin relayed
        <4>1. (null /\ r \in R \ bridged) \/ (~null /\ r \in R \ answered)
          BY <3>1, <3>4
        <4> HIDE DEF R, bridged, null, answered
        <4> QED BY <4>1
      <3> QED BY <3>2, <3>3, <3>4
    <2> HIDE DEF rows, told, mine, dropped, denied
    <2>3. /\ IsTx(t) /\ t.plan = tx[m].plan /\ t.try = tx[m].try /\ t.spam = tx[m].spam
          /\ t.boxes = tx[m].boxes \cup mine /\ t.steps = {}
          /\ t.outcome.error = tx[m].outcome.error
          /\ t.outcome.accepted = tx[m].outcome.accepted \cup dropped
          /\ t.outcome.rejected = tx[m].outcome.rejected \cup denied
      BY <1>1 DEF IsTx, IsOutcome
    <2> HIDE DEF t
    <2>4. ASSUME NEW r \in t.plan, NoError(t.outcome)
          PROVE  InHand(m, t, r, queue', directory')
      <3>1. InHand(m, tx[m], r, queue, directory)
        BY <1>1, <2>3, <2>4 DEF Dealt, NoError
      <3>2. \A a : QueuedFor(m, tx[m], a, queue) => QueuedFor(m, t, a, queue')
        BY <2>1, <2>3 DEF QueuedFor
      <3>3. r.disposition = "reply" =>
              \/ r.reply.local_address \in t.boxes \/ QueuedFor(m, t, r.reply.original_from, queue')
              \/ r.recipient \in t.outcome.accepted \/ "no_such" \in t.outcome.rejected
        BY <2>1, <2>2, <2>3 DEF QueuedFor
      <3> HIDE DEF R, bridged, null, answered, relayed, kept
      <3> QED BY <1>1, <2>3, <3>1, <3>2, <3>3 DEF InHand
    <2> QED BY <1>1, <2>1, <2>3, <2>4, DealtOn
  <1> QED BY <1>2, <1>3

\* The hand-off to Dovecot offers every mailbox, or ends in an error.
LEMMA StoreIsDealt ==
    ASSUME Inv, DealtInv, NEW m \in Mails, lmtp_deliver(m) \/ LmtpError(m) \/ DatabaseError(m)
    PROVE  DealtInv'
  <1>1. /\ UNCHANGED <<queue, directory>> /\ IsTx(tx[m])
        /\ Dealt(m, tx[m], inbox \cup refused, queue, directory)
    BY DEF Inv, Backed, DealtInv, lmtp_deliver, LmtpError, DatabaseError
  <1>2. CASE lmtp_deliver(m)
    <2>1. PICK g \in tx[m].groups : \E ok \in SUBSET g :
            LET t == [tx[m] EXCEPT !.groups = @ \ {g}, !.outcome.delivered = @ \cup ok]
            IN  /\ inbox' = inbox \cup Copies(m, ok)
                /\ refused' = refused \cup Copies(m, g \ ok)
                /\ IF t.groups = {} THEN Closed(m, t) ELSE tx' = [tx EXCEPT ![m] = t]
      BY <1>2 DEF lmtp_deliver
    <2>2. PICK ok \in SUBSET g :
            LET t == [tx[m] EXCEPT !.groups = @ \ {g}, !.outcome.delivered = @ \cup ok]
            IN  /\ inbox' = inbox \cup Copies(m, ok)
                /\ refused' = refused \cup Copies(m, g \ ok)
                /\ IF t.groups = {} THEN Closed(m, t) ELSE tx' = [tx EXCEPT ![m] = t]
      BY <2>1
    <2> DEFINE t == [tx[m] EXCEPT !.groups = @ \ {g}, !.outcome.delivered = @ \cup ok]
    <2>3. /\ inbox' = inbox \cup Copies(m, ok) /\ refused' = refused \cup Copies(m, g \ ok)
          /\ (t.groups = {} /\ Closed(m, t)) \/ tx' = [tx EXCEPT ![m] = t]
      BY <2>2
    <2>4. /\ IsTx(t) /\ t.plan = tx[m].plan /\ t.try = tx[m].try /\ t.spam = tx[m].spam
          /\ t.boxes = tx[m].boxes /\ t.steps = tx[m].steps /\ t.stage = tx[m].stage
          /\ t.groups = tx[m].groups \ {g}
          /\ t.outcome.error = tx[m].outcome.error
          /\ t.outcome.accepted = tx[m].outcome.accepted
          /\ t.outcome.rejected = tx[m].outcome.rejected
      BY <1>1 DEF IsTx, IsOutcome
    <2> HIDE DEF t
    <2>5. tx[m].stage = "store" /\ tx[m].steps = {}
      BY <1>1, <1>2 DEF lmtp_deliver, Dealt
    <2>6. \A a \in g : OfferedTo(m, t, a, inbox' \cup refused')
      BY <2>3, <2>4 DEF OfferedTo, Copies
    <2>7. \A a : OfferedTo(m, tx[m], a, inbox \cup refused) =>
                  OfferedTo(m, t, a, inbox' \cup refused')
      BY <2>3, <2>4 DEF OfferedTo
    <2>8. NoError(t.outcome) =>
            \A a \in t.boxes : a \in UNION t.groups \/ OfferedTo(m, t, a, inbox' \cup refused')
      BY <1>1, <2>4, <2>5, <2>6, <2>7 DEF Dealt, NoError
    <2>9. ASSUME NEW r \in t.plan, NoError(t.outcome)
          PROVE  InHand(m, t, r, queue', directory')
      <3>1. InHand(m, tx[m], r, queue, directory)
        BY <1>1, <2>4, <2>9 DEF Dealt, NoError
      <3> QED BY <1>1, <2>4, <3>1 DEF InHand, QueuedFor
    <2>10. CASE t.groups = {} /\ Closed(m, t)
      <3>1. NoError(t.outcome) =>
              \A a \in t.boxes : OfferedTo(m, t, a, inbox' \cup refused')
        BY <2>8, <2>10
      <3>2. inbox \subseteq inbox' /\ refused \subseteq refused'
        BY <2>3
      <3> QED BY <1>1, <2>4, <2>5, <2>9, <2>10, <3>1, <3>2, DealtEnd
    <2>11. CASE tx' = [tx EXCEPT ![m] = t]
      <3>1. Dealt(m, t, inbox' \cup refused', queue', directory')
        BY <2>4, <2>5, <2>8, <2>9 DEF Dealt
      <3>2. inbox \subseteq inbox' /\ refused \subseteq refused'
        BY <2>3
      <3> QED BY <1>1, <2>11, <3>1, <3>2, OneDealt
    <2> QED BY <2>3, <2>10, <2>11
  <1>3. CASE LmtpError(m)
    <2> DEFINE t == [tx[m] EXCEPT !.outcome.error =
                        IF @ = "permanent" THEN "permanent" ELSE "temporary"]
    <2>1. Closed(m, t) /\ inbox \subseteq inbox' /\ refused' = refused
      BY <1>3 DEF LmtpError
    <2>2. IsTx(t) /\ ~NoError(t.outcome)
      BY <1>1 DEF IsTx, IsOutcome, NoError
    <2> HIDE DEF t
    <2> QED BY <1>1, <2>1, <2>2, DealtEnd
  <1>4. CASE DatabaseError(m)
    BY <1>1, <1>4, DealtAbort DEF DatabaseError
  <1> QED BY <1>2, <1>3, <1>4

LEMMA InitDealt == Init => DealtInv
  <1> SUFFICES ASSUME Init
               PROVE  DealtInv
    OBVIOUS
  <1>1. tx = [m \in Mails |-> NoTx]
    BY DEF Init
  <1>2. NoTx.steps = {} /\ NoTx.plan = {} /\ NoTx.boxes = {} /\ NoTx.stage = "new"
    BY DEF NoTx
  <1> QED BY <1>1, <1>2 DEF DealtInv, Dealt

LEMMA NextDealt == Inv /\ RelayInv /\ DealtInv /\ [Next]_vars => DealtInv'
  <1> SUFFICES ASSUME Inv, RelayInv, DealtInv, [Next]_vars
               PROVE  DealtInv'
    OBVIOUS
  <1>1. ASSUME UNCHANGED <<tx, inbox, refused, queue>>, directory'.hosted => directory.hosted
        PROVE  DealtInv'
    <2>1. ASSUME NEW m \in Mails
          PROVE  Dealt(m, tx'[m], inbox' \cup refused', queue', directory')
      <3>1. Dealt(m, tx[m], inbox \cup refused, queue, directory)
        BY DEF DealtInv
      <3>2. Dealt(m, tx[m], inbox \cup refused, queue, directory')
        BY <1>1, <3>1, DealtStays
      <3> QED BY <1>1, <3>2
    <2> QED BY <2>1 DEF DealtInv
  <1>2. CASE UNCHANGED vars
    BY <1>1, <1>2 DEF vars
  <1>3. CASE OperatorStep
    <2>1. ASSUME NEW a, NEW x, EditAccount(a, x)
          PROVE  DealtInv'
      BY <1>1, <2>1 DEF EditAccount
    <2>2. ASSUME NEW a, NEW x, EditAlias(a, x)
          PROVE  DealtInv'
      BY <1>1, <2>2 DEF EditAlias
    <2>3. CASE DeleteDomain
      BY <1>1, <2>3 DEF DeleteDomain
    <2>4. ASSUME NEW a, unsuppress(a)
          PROVE  DealtInv'
      BY <1>1, <2>4 DEF unsuppress
    <2>5. ASSUME NEW a \in Tokens, Expire(a)
          PROVE  DealtInv'
      BY <1>1, <2>5 DEF Expire
    <2> QED BY <1>3, <2>1, <2>2, <2>3, <2>4, <2>5 DEF OperatorStep
  <1>4. ASSUME NEW m \in Mails, Step(m)
        PROVE  DealtInv'
    BY <1>4, EnvelopeIsDealt, RoutingIsDealt, OutboundIsDealt, ForwardIsDealt, ReplyIsDealt,
       StoreIsDealt DEF Step
  <1>5. ASSUME NEW m \in Mails, Fault(m)
        PROVE  DealtInv'
    BY <1>5, EnvelopeIsDealt, StoreIsDealt DEF Fault
  <1> QED BY <1>2, <1>3, <1>4, <1>5 DEF Next

\* Behind a 250 every recipient was dealt with as its route said: a mailbox offered the
\* message, a copy queued or withheld as spam, a reply relayed, kept, taken or refused, a
\* refusal counted (deliver(), _forward, _relay_replies, _store).
THEOREM NobodyIsForgotten == Spec => []EveryRecipientIsAccountedFor
  <1>1. DealtInv => EveryRecipientIsAccountedFor
    <2> SUFFICES ASSUME DealtInv, NEW m \in Mails, Final(m), tx[m].answer = 250,
                        NEW r \in tx[m].plan
                 PROVE  LET t == tx[m]
                            Offered(a) == [mail |-> m, try |-> t.try, box |-> a]
                                            \in inbox \cup refused
                            Queued(a) == \E q \in Sent(m) : a \in q.to
                            Withheld(a) == t.spam /\ ~IsLocal(directory, a)
                        IN  /\ r.disposition \in {"local", "bridge"} => Offered(r.recipient)
                            /\ \A a \in r.to : Offered(a) \/ Queued(a) \/ Withheld(a)
                            /\ r.disposition = "reply" =>
                                \/ Offered(r.reply.local_address)
                                \/ Queued(r.reply.original_from)
                                \/ r.recipient \in t.outcome.accepted
                                \/ "no_such" \in t.outcome.rejected
                            /\ r.disposition = "reject" =>
                                r.reason \in t.outcome.rejected \/ Queued(r.recipient)
      BY DEF EveryRecipientIsAccountedFor
    <2>1. /\ tx[m].steps = {} /\ InHand(m, tx[m], r, queue, directory)
          /\ \A a \in tx[m].boxes : OfferedTo(m, tx[m], a, inbox \cup refused)
      BY DEF DealtInv, Dealt, Final
    <2>2. \A a : QueuedFor(m, tx[m], a, queue) <=> \E q \in Sent(m) : a \in q.to
      BY DEF QueuedFor, Sent
    <2> QED BY <2>1, <2>2 DEF InHand, OfferedTo
  <1>2. Init => Inv /\ RelayInv /\ DealtInv
    BY InitInv, InitRelay, InitDealt
  <1>3. (Inv /\ RelayInv /\ DealtInv) /\ [Next]_vars => (Inv /\ RelayInv /\ DealtInv)'
    BY NextInv, NextRelay, NextDealt
  <1> QED BY <1>1, <1>2, <1>3, PTL DEF Spec

-----------------------------------------------------------------------------
(* Induction, and the recursive definitions of Routing.                    *)

\* Induction for a set of numbers: what is not in it has a least element.
LEMMA Induction ==
    ASSUME NEW S, 0 \in S, \A n \in Nat : n \in S => n + 1 \in S
    PROVE  Nat \subseteq S
  <1> SUFFICES ASSUME NEW k \in Nat, k \notin S
               PROVE  FALSE
    OBVIOUS
  <1> DEFINE upTo == {1..n : n \in Nat \ S}
  <1>1. upTo \subseteq FiniteSubsetsOf(Nat)
    <2> SUFFICES ASSUME NEW n \in Nat
                 PROVE  1..n \in FiniteSubsetsOf(Nat)
      OBVIOUS
    <2>1. IsFiniteSet(1..n)
      BY FS_Interval
    <2> QED BY <2>1 DEF FiniteSubsetsOf
  <1>2. upTo # {}
    OBVIOUS
  <1>3. IsWellFoundedOn(StrictSubsetOrdering(Nat), FiniteSubsetsOf(Nat))
    BY FS_StrictSubsetOrderingWellFounded
  <1> HIDE DEF upTo
  <1>4. PICK x \in upTo : \A y \in upTo : <<y, x>> \notin StrictSubsetOrdering(Nat)
    BY <1>1, <1>2, <1>3, WFMin
  <1>5. PICK n \in Nat \ S : x = 1..n
    BY <1>4 DEF upTo
  <1>6. n # 0
    OBVIOUS
  <1>7. n - 1 \in Nat /\ n - 1 \notin S
    <2>1. n - 1 \in Nat /\ n = (n - 1) + 1
      BY <1>6
    <2> QED BY <2>1
  <1>8. 1..(n - 1) \in upTo
    BY <1>7 DEF upTo
  <1>9. <<1..(n - 1), 1..n>> \in StrictSubsetOrdering(Nat)
    <2>1. 1..(n - 1) \subseteq 1..n /\ n \in 1..n /\ n \notin 1..(n - 1)
      BY <1>6
    <2> QED BY <2>1, SMT DEF StrictSubsetOrdering
  <1> QED BY <1>4, <1>5, <1>8, <1>9

\* The destinations of an alias that b finds under the path seen.
FollowIn(d, below, seen, b) ==
    IF b \in seen THEN {LOOP}
    ELSE IF ~IsLocal(d, b) \/ HasAccount(d, b) THEN {b}
    ELSE IF HasAlias(d, b) THEN below[seen \cup {b}][d.alias[b].to]
    ELSE {}

Level(d, below) ==
    [seen \in SUBSET Mailboxes |->
        [to \in SUBSET Addresses |-> UNION {FollowIn(d, below, seen, b) : b \in to}]]

Deepest == [seen \in SUBSET Mailboxes |-> [to \in SUBSET Addresses |-> {LOOP}]]

IsExpansion(d, E) ==
    /\ E[MaxDepth] = Deepest
    /\ \A depth \in 0..MaxDepth - 1 : E[depth] = Level(d, E[depth + 1])

LEMMA ExpansionExists ==
    ASSUME NEW d
    PROVE  \E E : DOMAIN E = 0..MaxDepth /\ IsExpansion(d, E)
  <1> USE RoutingAssumption DEF RoutingAssumption
  <1> DEFINE From(E, k) == /\ DOMAIN E = 0..MaxDepth /\ E[MaxDepth] = Deepest
                           /\ \A depth \in k..MaxDepth - 1 : E[depth] = Level(d, E[depth + 1])
             S == {n \in Nat : n <= MaxDepth => \E E : From(E, MaxDepth - n)}
  <1> HIDE DEF Deepest, Level
  <1>1. 0 \in S
    <2> DEFINE E == [depth \in 0..MaxDepth |-> Deepest]
    <2>1. From(E, MaxDepth)
      OBVIOUS
    <2> QED BY <2>1
  <1>2. ASSUME NEW n \in Nat, n \in S
        PROVE  n + 1 \in S
    <2> SUFFICES ASSUME n + 1 <= MaxDepth
                 PROVE  \E E : From(E, MaxDepth - (n + 1))
      OBVIOUS
    <2> DEFINE k == MaxDepth - (n + 1)
    <2>1. k \in 0..MaxDepth - 1 /\ MaxDepth - n = k + 1
      OBVIOUS
    <2>2. PICK E : From(E, k + 1)
      BY <1>2, <2>1
    <2> HIDE DEF k
    <2> DEFINE G == [depth \in 0..MaxDepth |-> IF depth = k THEN Level(d, E[k + 1]) ELSE E[depth]]
    <2>3. DOMAIN G = 0..MaxDepth /\ G[MaxDepth] = Deepest
      BY <2>1, <2>2
    <2>4. ASSUME NEW depth \in k..MaxDepth - 1
          PROVE  G[depth] = Level(d, G[depth + 1])
      <3>1. depth \in 0..MaxDepth /\ depth + 1 \in 0..MaxDepth /\ depth + 1 # k
        BY <2>1
      <3>2. G[depth + 1] = E[depth + 1]
        BY <3>1
      <3>3. CASE depth = k
        BY <3>1, <3>2, <3>3
      <3>4. CASE depth # k
        <4>1. depth \in (k + 1)..MaxDepth - 1
          BY <2>1, <3>4
        <4>2. G[depth] = E[depth]
          BY <3>1, <3>4
        <4> QED BY <2>2, <3>2, <4>1, <4>2
      <3> QED BY <3>3, <3>4
    <2> HIDE DEF G
    <2>5. From(G, k)
      BY <2>3, <2>4
    <2> QED BY <2>5 DEF k
  <1>3. MaxDepth \in S
    BY <1>1, <1>2, Induction
  <1>4. PICK E : From(E, 0)
    BY <1>3
  <1> QED BY <1>4 DEF IsExpansion

LEMMA ExpansionIsDefined ==
    ASSUME NEW d
    PROVE  IsExpansion(d, expansion(d))
  <1> USE RoutingAssumption DEF RoutingAssumption
  <1>1. PICK E : DOMAIN E = 0..MaxDepth /\ IsExpansion(d, E)
    BY ExpansionExists
  <1> DEFINE Good(f) == f = [depth \in 0..MaxDepth |->
            [seen \in SUBSET Mailboxes |-> [to \in SUBSET Addresses |->
                IF depth = MaxDepth THEN {LOOP}
                ELSE UNION {FollowIn(d, f[depth + 1], seen, b) : b \in to}]]]
  <1>2. \E f : Good(f)
    <2> DEFINE f == [depth \in 0..MaxDepth |-> E[depth]]
    <2>1. ASSUME NEW depth \in 0..MaxDepth
          PROVE  f[depth] = [seen \in SUBSET Mailboxes |-> [to \in SUBSET Addresses |->
                                IF depth = MaxDepth THEN {LOOP}
                                ELSE UNION {FollowIn(d, f[depth + 1], seen, b) : b \in to}]]
      <3>1. CASE depth = MaxDepth
        <4>1. f[depth] = Deepest
          BY <1>1, <3>1 DEF IsExpansion
        <4> QED BY <3>1, <4>1 DEF Deepest
      <3>2. CASE depth # MaxDepth
        <4>1. depth \in 0..MaxDepth - 1 /\ depth + 1 \in 0..MaxDepth
          BY <3>2
        <4>2. f[depth] = Level(d, f[depth + 1])
          BY <1>1, <4>1 DEF IsExpansion
        <4> QED BY <3>2, <4>2 DEF Level
      <3> QED BY <3>1, <3>2
    <2>2. f = [depth \in 0..MaxDepth |-> f[depth]]
      OBVIOUS
    <2> HIDE DEF f
    <2>3. Good(f)
      BY <2>1, <2>2
    <2> QED BY <2>3
  <1>3. expansion(d) = CHOOSE f : Good(f)
    BY DEF expansion, FollowIn
  <1> HIDE DEF Good
  <1>4. Good(expansion(d))
    BY <1>2, <1>3
  <1> DEFINE X == expansion(d)
  <1>5. ASSUME NEW depth \in 0..MaxDepth
        PROVE  X[depth] = [seen \in SUBSET Mailboxes |-> [to \in SUBSET Addresses |->
                              IF depth = MaxDepth THEN {LOOP}
                              ELSE UNION {FollowIn(d, X[depth + 1], seen, b) : b \in to}]]
    BY <1>4 DEF Good
  <1> HIDE DEF X
  <1>6. X[MaxDepth] = Deepest
    <2>1. X[MaxDepth] = [seen \in SUBSET Mailboxes |-> [to \in SUBSET Addresses |->
                            IF MaxDepth = MaxDepth THEN {LOOP}
                            ELSE UNION {FollowIn(d, X[MaxDepth + 1], seen, b) : b \in to}]]
      <3>1. MaxDepth \in 0..MaxDepth
        OBVIOUS
      <3> QED BY <1>5, <3>1
    <2>2. [seen \in SUBSET Mailboxes |-> [to \in SUBSET Addresses |->
              IF MaxDepth = MaxDepth THEN {LOOP}
              ELSE UNION {FollowIn(d, X[MaxDepth + 1], seen, b) : b \in to}]] = Deepest
      BY DEF Deepest
    <2> QED BY <2>1, <2>2
  <1>7. ASSUME NEW depth \in 0..MaxDepth - 1
        PROVE  X[depth] = Level(d, X[depth + 1])
    <2>1. depth \in 0..MaxDepth /\ depth # MaxDepth
      OBVIOUS
    <2>2. X[depth] = [seen \in SUBSET Mailboxes |-> [to \in SUBSET Addresses |->
                         IF depth = MaxDepth THEN {LOOP}
                         ELSE UNION {FollowIn(d, X[depth + 1], seen, b) : b \in to}]]
      BY <1>5, <2>1
    <2>3. [seen \in SUBSET Mailboxes |-> [to \in SUBSET Addresses |->
              IF depth = MaxDepth THEN {LOOP}
              ELSE UNION {FollowIn(d, X[depth + 1], seen, b) : b \in to}]]
          = Level(d, X[depth + 1])
      BY <2>1 DEF Level
    <2> QED BY <2>2, <2>3
  <1> QED BY <1>6, <1>7 DEF IsExpansion, X

-----------------------------------------------------------------------------
(* Chains of aliases.                                                      *)

\* c is a chain of n hops, from one of the destinations, through aliases that are
\* followed.
Chain(d, c, n, to) ==
    /\ c \in [0..n -> Addresses] /\ c[0] \in to
    /\ \A i \in 0..n - 1 : c[i] \in Followed(d) /\ c[i + 1] \in d.alias[c[i]].to

WellFormed(d) == d.alias \in [Mailboxes -> Alias \cup {NoAlias}]

LEMMA FollowedIsAnAlias ==
    ASSUME NEW d, WellFormed(d), NEW b, b \in Followed(d) \/ HasAlias(d, b)
    PROVE  b \in Mailboxes /\ d.alias[b].to \in SUBSET Addresses
  BY DEF WellFormed, Followed, HasAlias, Alias

\* A chain of one address.
LEMMA ChainOfOne ==
    ASSUME NEW d, NEW to \in SUBSET Addresses, NEW b \in to
    PROVE  Chain(d, [i \in 0..0 |-> b], 0, to) /\ [i \in 0..0 |-> b][0] = b
  BY DEF Chain

\* A chain is its first address and a chain from there.
LEMMA ChainTail ==
    ASSUME NEW d, NEW to, NEW n \in Nat \ {0}, NEW c, Chain(d, c, n, to)
    PROVE  /\ c[0] \in to /\ c[0] \in Followed(d)
           /\ \E e : Chain(d, e, n - 1, d.alias[c[0]].to) /\ e[n - 1] = c[n]
  <1> DEFINE e == [i \in 0..n - 1 |-> c[i + 1]]
  <1>1. /\ c \in [0..n -> Addresses] /\ c[0] \in to
        /\ \A i \in 0..n - 1 : c[i] \in Followed(d) /\ c[i + 1] \in d.alias[c[i]].to
    BY DEF Chain
  <1>2. e \in [0..n - 1 -> Addresses] /\ e[0] = c[1] /\ e[n - 1] = c[n]
    BY <1>1
  <1>3. c[0] \in Followed(d) /\ c[1] \in d.alias[c[0]].to
    <2>1. 0 \in 0..n - 1 /\ 0 + 1 = 1
      OBVIOUS
    <2> QED BY <1>1, <2>1
  <1>4. ASSUME NEW i \in 0..(n - 1) - 1
        PROVE  e[i] \in Followed(d) /\ e[i + 1] \in d.alias[e[i]].to
    <2>1. i + 1 \in 0..n - 1 /\ e[i] = c[i + 1] /\ e[i + 1] = c[(i + 1) + 1]
      OBVIOUS
    <2> QED BY <1>1, <2>1
  <1> HIDE DEF e
  <1>5. Chain(d, e, n - 1, d.alias[c[0]].to)
    BY <1>2, <1>3, <1>4 DEF Chain
  <1> QED BY <1>1, <1>2, <1>3, <1>5 DEF e

LEMMA ChainCons ==
    ASSUME NEW d, NEW to, NEW b \in to, b \in Followed(d), b \in Addresses,
           NEW n \in Nat, NEW e, Chain(d, e, n, d.alias[b].to)
    PROVE  \E c : Chain(d, c, n + 1, to) /\ c[n + 1] = e[n]
  <1> DEFINE c == [i \in 0..n + 1 |-> IF i = 0 THEN b ELSE e[i - 1]]
  <1>1. /\ e \in [0..n -> Addresses] /\ e[0] \in d.alias[b].to
        /\ \A i \in 0..n - 1 : e[i] \in Followed(d) /\ e[i + 1] \in d.alias[e[i]].to
    BY DEF Chain
  <1>2. c \in [0..n + 1 -> Addresses] /\ c[0] = b /\ c[n + 1] = e[n]
    BY <1>1
  <1>3. ASSUME NEW i \in 0..(n + 1) - 1
        PROVE  c[i] \in Followed(d) /\ c[i + 1] \in d.alias[c[i]].to
    <2>1. c[i + 1] = e[i] /\ (i # 0 => c[i] = e[i - 1])
      OBVIOUS
    <2>2. CASE i = 0
      BY <1>1, <1>2, <2>1, <2>2
    <2>3. CASE i # 0
      <3>1. i - 1 \in 0..n - 1 /\ (i - 1) + 1 = i
        BY <2>3
      <3> QED BY <1>1, <2>1, <2>3, <3>1
    <2> QED BY <2>2, <2>3
  <1> HIDE DEF c
  <1>4. Chain(d, c, n + 1, to)
    BY <1>2, <1>3 DEF Chain
  <1> QED BY <1>2, <1>4

\* A chain goes on from its last address.
LEMMA ChainSnoc ==
    ASSUME NEW d, NEW to, NEW n \in Nat, NEW c, Chain(d, c, n, to), c[n] \in Followed(d),
           NEW b \in Addresses, b \in d.alias[c[n]].to
    PROVE  \E e : Chain(d, e, n + 1, to) /\ e[n + 1] = b /\ \A i \in 0..n : e[i] = c[i]
  <1> DEFINE e == [i \in 0..n + 1 |-> IF i = n + 1 THEN b ELSE c[i]]
  <1>1. /\ c \in [0..n -> Addresses] /\ c[0] \in to
        /\ \A i \in 0..n - 1 : c[i] \in Followed(d) /\ c[i + 1] \in d.alias[c[i]].to
    BY DEF Chain
  <1>2. /\ e \in [0..n + 1 -> Addresses] /\ e[0] = c[0] /\ e[n + 1] = b
        /\ \A i \in 0..n : e[i] = c[i]
    BY <1>1
  <1>3. ASSUME NEW i \in 0..(n + 1) - 1
        PROVE  e[i] \in Followed(d) /\ e[i + 1] \in d.alias[e[i]].to
    <2>1. CASE i = n
      BY <1>2, <2>1
    <2>2. CASE i # n
      <3>1. i \in 0..n - 1 /\ i \in 0..n /\ i + 1 \in 0..n
        BY <2>2
      <3> QED BY <1>1, <1>2, <3>1
    <2> QED BY <2>1, <2>2
  <1> HIDE DEF e
  <1>4. Chain(d, e, n + 1, to)
    BY <1>1, <1>2, <1>3 DEF Chain
  <1> QED BY <1>2, <1>4

\* The beginning of a chain.
LEMMA ChainPrefix ==
    ASSUME NEW d, NEW to, NEW n \in Nat, NEW c, Chain(d, c, n, to), NEW k \in 0..n
    PROVE  LET e == [i \in 0..k |-> c[i]]
           IN  Chain(d, e, k, to) /\ e[k] = c[k]
  BY DEF Chain

\* A chain that comes back to an address of its own can be as long as one likes.
LEMMA CyclesAreEndless ==
    ASSUME NEW d, WellFormed(d), NEW to, NEW n \in Nat, NEW c, Chain(d, c, n, to),
           NEW first \in 0..n - 1, c[n] = c[first], NEW length \in Nat, length >= first
    PROVE  \E e : Chain(d, e, length, to) /\ e[length] \in Followed(d)
  <1>1. /\ c \in [0..n -> Addresses]
        /\ \A i \in 0..n - 1 : c[i] \in Followed(d) /\ c[i + 1] \in d.alias[c[i]].to
    BY DEF Chain
  <1> DEFINE At(k) == \E e : /\ Chain(d, e, first + k, to)
                             /\ \E i \in first..n - 1 : e[first + k] = c[i]
             S == {k \in Nat : At(k)}
  <1>2. 0 \in S
    <2> DEFINE e == [i \in 0..first |-> c[i]]
    <2>1. Chain(d, e, first, to) /\ e[first] = c[first]
      BY ChainPrefix
    <2> HIDE DEF e
    <2> QED BY <2>1
  <1>3. ASSUME NEW k \in Nat, k \in S
        PROVE  k + 1 \in S
    <2>1. PICK e : Chain(d, e, first + k, to) /\ \E i \in first..n - 1 : e[first + k] = c[i]
      BY <1>3
    <2>2. PICK i \in first..n - 1 : e[first + k] = c[i]
      BY <2>1
    <2>3. PICK j \in first..n - 1 : c[i + 1] = c[j]
      <3>1. CASE i + 1 = n
        BY <3>1
      <3>2. CASE i + 1 # n
        BY <3>2
      <3> QED BY <3>1, <3>2
    <2>4. i \in 0..n - 1 /\ j \in 0..n
      OBVIOUS
    <2>5. e[first + k] \in Followed(d) /\ c[j] \in d.alias[e[first + k]].to /\ c[j] \in Addresses
      BY <1>1, <2>2, <2>3, <2>4
    <2>6. PICK h \in Nat : h = first + k
      OBVIOUS
    <2>7. PICK g : /\ Chain(d, g, h + 1, to) /\ g[h + 1] = c[j]
                   /\ \A l \in 0..h : g[l] = e[l]
      <3>1. Chain(d, e, h, to) /\ e[h] \in Followed(d) /\ c[j] \in d.alias[e[h]].to
        BY <2>1, <2>5, <2>6
      <3>2. c[j] \in Addresses
        BY <2>5
      <3> HIDE DEF At, S
      <3> QED BY <3>1, <3>2, ChainSnoc
    <2>8. h + 1 = first + (k + 1)
      BY <2>6
    <2> QED BY <2>7, <2>8
  <1>4. length - first \in S
    <2>1. length - first \in Nat
      OBVIOUS
    <2> HIDE DEF S
    <2> QED BY <1>2, <1>3, <2>1, Induction
  <1>5. PICK e : /\ Chain(d, e, first + (length - first), to)
                 /\ \E i \in first..n - 1 : e[first + (length - first)] = c[i]
    BY <1>4
  <1>6. first + (length - first) = length
    OBVIOUS
  <1>7. PICK i \in first..n - 1 : e[length] = c[i]
    BY <1>5, <1>6
  <1>8. i \in 0..n - 1
    OBVIOUS
  <1> QED BY <1>1, <1>5, <1>6, <1>7, <1>8

\* Where chains of n hops end.
Ends(d, n, to) == {x \in Addresses : \E c : Chain(d, c, n, to) /\ c[n] = x}

LEMMA EndsAreHops ==
    ASSUME NEW d, WellFormed(d), NEW to \in SUBSET Addresses
    PROVE  /\ Ends(d, 0, to) = to
           /\ \A n \in Nat : Ends(d, n + 1, to) =
                  UNION {d.alias[b].to : b \in Ends(d, n, to) \cap Followed(d)}
  <1>1. Ends(d, 0, to) = to
    <2>1. ASSUME NEW x \in Ends(d, 0, to)
          PROVE  x \in to
      BY DEF Ends, Chain
    <2>2. ASSUME NEW x \in to
          PROVE  x \in Ends(d, 0, to)
      <3> DEFINE c == [i \in 0..0 |-> x]
      <3>1. Chain(d, c, 0, to) /\ c[0] = x
        BY ChainOfOne
      <3> HIDE DEF c
      <3> QED BY <3>1 DEF Ends
    <2> QED BY <2>1, <2>2
  <1>2. ASSUME NEW n \in Nat
        PROVE  Ends(d, n + 1, to) = UNION {d.alias[b].to : b \in Ends(d, n, to) \cap Followed(d)}
    <2>1. ASSUME NEW x \in Ends(d, n + 1, to)
          PROVE  \E b \in Ends(d, n, to) \cap Followed(d) : x \in d.alias[b].to
      <3>1. PICK c : Chain(d, c, n + 1, to) /\ c[n + 1] = x
        BY DEF Ends
      <3>2. n \in 0..n + 1 /\ n \in 0..(n + 1) - 1
        OBVIOUS
      <3>3. c[n] \in Followed(d) /\ x \in d.alias[c[n]].to /\ c[n] \in Addresses
        BY <3>1, <3>2 DEF Chain
      <3> DEFINE e == [i \in 0..n |-> c[i]]
      <3>4. Chain(d, e, n, to) /\ e[n] = c[n]
        BY <3>1, <3>2, ChainPrefix
      <3> HIDE DEF e
      <3>5. c[n] \in Ends(d, n, to)
        BY <3>3, <3>4 DEF Ends
      <3> QED BY <3>3, <3>5
    <2>2. ASSUME NEW b \in Ends(d, n, to) \cap Followed(d), NEW x \in d.alias[b].to
          PROVE  x \in Ends(d, n + 1, to)
      <3>1. PICK c : Chain(d, c, n, to) /\ c[n] = b
        BY DEF Ends
      <3>2. x \in Addresses
        BY FollowedIsAnAlias
      <3>3. PICK e : Chain(d, e, n + 1, to) /\ e[n + 1] = x
        BY <3>1, <3>2, ChainSnoc
      <3> QED BY <3>2, <3>3 DEF Ends
    <2> QED BY <2>1, <2>2
  <1> QED BY <1>1, <1>2

LEMMA HopsAreChains ==
    ASSUME NEW d, WellFormed(d), NEW a, HasAlias(d, a), NEW n \in 0..MaxDepth
    PROVE  Hops(d, a)[n] = Ends(d, n, d.alias[a].to)
  <1> USE RoutingAssumption DEF RoutingAssumption
  <1>1. d.alias[a].to \in SUBSET Addresses
    BY FollowedIsAnAlias
  <1> DEFINE to == d.alias[a].to
             Good(f) == f = [k \in 0..MaxDepth |->
                IF k = 0 THEN to
                ELSE UNION {d.alias[b].to : b \in f[k - 1] \cap Followed(d)}]
  <1>9. /\ WellFormed(d) /\ to \in SUBSET Addresses
        /\ Ends(d, 0, to) = to
        /\ \A k \in Nat : Ends(d, k + 1, to) =
               UNION {d.alias[b].to : b \in Ends(d, k, to) \cap Followed(d)}
    <2> HIDE DEF to
    <2>1. to \in SUBSET Addresses
      BY <1>1 DEF to
    <2> QED BY <2>1, EndsAreHops
  <1>2. \E f : Good(f)
    <2> DEFINE f == [k \in 0..MaxDepth |-> Ends(d, k, to)]
    <2>1. ASSUME NEW k \in 0..MaxDepth
          PROVE  f[k] = IF k = 0 THEN to
                        ELSE UNION {d.alias[b].to : b \in f[k - 1] \cap Followed(d)}
      <3>1. CASE k = 0
        BY <1>9, <3>1
      <3>2. CASE k # 0
        <4>1. k - 1 \in Nat /\ k - 1 \in 0..MaxDepth /\ (k - 1) + 1 = k
          BY <3>2
        <4> HIDE DEF to
        <4>2. Ends(d, (k - 1) + 1, to) =
                UNION {d.alias[b].to : b \in Ends(d, k - 1, to) \cap Followed(d)}
          BY <1>9, <4>1
        <4> QED BY <3>2, <4>1, <4>2
      <3> QED BY <3>1, <3>2
    <2>2. f = [k \in 0..MaxDepth |-> f[k]]
      OBVIOUS
    <2> HIDE DEF f, to
    <2>3. Good(f)
      BY <2>1, <2>2
    <2> QED BY <2>3
  <1>3. Hops(d, a) = CHOOSE f : Good(f)
    BY DEF Hops
  <1> HIDE DEF Good
  <1>4. Good(Hops(d, a))
    BY <1>2, <1>3
  <1> DEFINE H == Hops(d, a)
  <1>5. ASSUME NEW k \in 0..MaxDepth
        PROVE  H[k] = IF k = 0 THEN to
                      ELSE UNION {d.alias[b].to : b \in H[k - 1] \cap Followed(d)}
    BY <1>4 DEF Good
  <1> HIDE DEF H
  <1> DEFINE S == {k \in Nat : k <= MaxDepth => H[k] = Ends(d, k, to)}
  <1>6. 0 \in S
    <2>1. 0 \in 0..MaxDepth
      OBVIOUS
    <2> HIDE DEF to
    <2>2. H[0] = to
      BY <1>5, <2>1
    <2> QED BY <1>9, <2>2
  <1>7. ASSUME NEW k \in Nat, k \in S
        PROVE  k + 1 \in S
    <2> SUFFICES ASSUME k + 1 <= MaxDepth
                 PROVE  H[k + 1] = Ends(d, k + 1, to)
      OBVIOUS
    <2>1. k + 1 \in 0..MaxDepth /\ k + 1 # 0 /\ (k + 1) - 1 = k
      OBVIOUS
    <2>2. H[k] = Ends(d, k, to)
      BY <1>7
    <2> HIDE DEF to, S
    <2>3. H[k + 1] = UNION {d.alias[b].to : b \in H[k] \cap Followed(d)}
      BY <1>5, <2>1
    <2> QED BY <1>9, <2>2, <2>3
  <1>8. n \in S
    <2> HIDE DEF S
    <2> QED BY <1>6, <1>7, Induction
  <1> QED BY <1>8 DEF H

-----------------------------------------------------------------------------
(* Expansion is reachability.                                              *)

\* What one level of the expansion finds.
LEMMA LevelFinds ==
    ASSUME NEW d, NEW E, IsExpansion(d, E), NEW depth \in 0..MaxDepth,
           NEW seen \in SUBSET Mailboxes, NEW to \in SUBSET Addresses
    PROVE  /\ depth = MaxDepth => E[depth][seen][to] = {LOOP}
           /\ depth # MaxDepth =>
               \A x : x \in E[depth][seen][to] <=>
                          \E b \in to : x \in FollowIn(d, E[depth + 1], seen, b)
  <1> USE RoutingAssumption DEF RoutingAssumption
  <1>1. CASE depth = MaxDepth
    BY <1>1 DEF IsExpansion, Deepest
  <1>2. CASE depth # MaxDepth
    <2>1. depth \in 0..MaxDepth - 1
      BY <1>2
    <2>2. E[depth] = Level(d, E[depth + 1])
      BY <2>1 DEF IsExpansion
    <2>3. Level(d, E[depth + 1])[seen][to] =
            UNION {FollowIn(d, E[depth + 1], seen, b) : b \in to}
      BY DEF Level
    <2> QED BY <1>2, <2>2, <2>3
  <1> QED BY <1>1, <1>2

\* A chain that is too long, or leads back onto the path.
Lost(d, c, n, seen, to, depth) ==
    /\ Chain(d, c, n, to)
    /\ \/ depth + n < MaxDepth /\ c[n] \in seen
       \/ depth + n = MaxDepth - 1 /\ c[n] \in Followed(d)

\* A loop is found where there is one.
LEMMA LoopsAreFound ==
    ASSUME NEW d, WellFormed(d), NEW E, IsExpansion(d, E)
    PROVE  \A depth \in 0..MaxDepth : \A seen \in SUBSET Mailboxes, to \in SUBSET Addresses :
              \A n \in Nat : \A c : Lost(d, c, n, seen, to, depth) => LOOP \in E[depth][seen][to]
  <1> USE RoutingAssumption DEF RoutingAssumption
  <1> DEFINE Found(depth) ==
                 \A seen \in SUBSET Mailboxes, to \in SUBSET Addresses :
                    \A n \in Nat : \A c : Lost(d, c, n, seen, to, depth) =>
                        LOOP \in E[depth][seen][to]
             S == {k \in Nat : k <= MaxDepth => Found(MaxDepth - k)}
  <1>1. 0 \in S
    <2>1. ASSUME NEW seen \in SUBSET Mailboxes, NEW to \in SUBSET Addresses
          PROVE  LOOP \in E[MaxDepth][seen][to]
      <3> HIDE DEF S, Found
      <3>1. MaxDepth \in 0..MaxDepth
        OBVIOUS
      <3> QED BY <3>1, LevelFinds
    <2> QED BY <2>1
  <1>2. ASSUME NEW k \in Nat, k \in S, k + 1 <= MaxDepth,
               NEW depth \in 0..MaxDepth, depth = MaxDepth - (k + 1),
               NEW seen \in SUBSET Mailboxes, NEW to \in SUBSET Addresses,
               NEW n \in Nat, NEW c, Lost(d, c, n, seen, to, depth)
        PROVE  LOOP \in E[depth][seen][to]
    <2>1. depth + 1 \in 0..MaxDepth /\ depth # MaxDepth /\ depth + 1 = MaxDepth - k
      BY <1>2
    <2>2. Found(depth + 1)
      BY <1>2, <2>1
    <2>3. /\ Chain(d, c, n, to) /\ c[0] \in to
          /\ \/ depth + n < MaxDepth /\ c[n] \in seen
             \/ depth + n = MaxDepth - 1 /\ c[n] \in Followed(d)
      BY <1>2 DEF Lost, Chain
    <2> HIDE DEF S, Found
    <2>4. \A x : x \in E[depth][seen][to] <=>
                    \E b \in to : x \in FollowIn(d, E[depth + 1], seen, b)
      BY <2>1, LevelFinds
    <2>5. SUFFICES LOOP \in FollowIn(d, E[depth + 1], seen, c[0])
      BY <2>3, <2>4
    <2>6. CASE c[0] \in seen
      BY <2>6 DEF FollowIn
    <2>7. CASE c[0] \notin seen
      <3>1. c[0] \in Followed(d)
        <4>1. CASE n = 0
          BY <2>3, <2>7, <4>1
        <4>2. CASE n # 0
          BY <2>3, <4>2, ChainTail
        <4> QED BY <4>1, <4>2
      <3> DEFINE b == c[0]
                 seen2 == seen \cup {b}
                 to2 == d.alias[b].to
      <3>2. seen2 \in SUBSET Mailboxes /\ to2 \in SUBSET Addresses
        BY <3>1, FollowedIsAnAlias
      <3>3. LOOP \in E[depth + 1][seen2][to2]
        <4>1. CASE n = 0
          <5>1. depth + 1 = MaxDepth
            BY <2>3, <2>7, <4>1
          <5> HIDE DEF seen2, to2
          <5>2. E[depth + 1][seen2][to2] = {LOOP}
            BY <2>1, <3>2, <5>1, LevelFinds
          <5> QED BY <5>2
        <4>2. CASE n # 0
          <5>1. PICK e : Chain(d, e, n - 1, to2) /\ e[n - 1] = c[n]
            <6>1. n \in Nat \ {0} /\ Chain(d, c, n, to)
              BY <2>3, <4>2
            <6> QED BY <6>1, ChainTail
          <5> HIDE DEF seen2, to2
          <5>2. /\ n - 1 \in Nat
                /\ depth + n < MaxDepth => (depth + 1) + (n - 1) < MaxDepth
                /\ depth + n = MaxDepth - 1 => (depth + 1) + (n - 1) = MaxDepth - 1
            BY <4>2
          <5>3. seen \subseteq seen2
            BY DEF seen2
          <5>4. Lost(d, e, n - 1, seen2, to2, depth + 1)
            BY <2>3, <5>1, <5>2, <5>3 DEF Lost
          <5> QED BY <2>2, <3>2, <5>2, <5>4 DEF Found
        <4> QED BY <4>1, <4>2
      <3>4. FollowIn(d, E[depth + 1], seen, b) = E[depth + 1][seen2][to2]
        BY <2>7, <3>1 DEF FollowIn, Followed
      <3> QED BY <3>3, <3>4
    <2> QED BY <2>6, <2>7
  <1>3. ASSUME NEW k \in Nat, k \in S
        PROVE  k + 1 \in S
    <2> SUFFICES ASSUME k + 1 <= MaxDepth
                 PROVE  Found(MaxDepth - (k + 1))
      OBVIOUS
    <2>1. PICK depth \in 0..MaxDepth : depth = MaxDepth - (k + 1)
      OBVIOUS
    <2>2. Found(depth)
      BY <1>2, <1>3, <2>1
    <2> QED BY <2>1, <2>2
  <1>4. ASSUME NEW depth \in 0..MaxDepth
        PROVE  Found(depth)
    <2>1. MaxDepth - depth \in Nat /\ MaxDepth - (MaxDepth - depth) = depth
          /\ MaxDepth - depth <= MaxDepth
      OBVIOUS
    <2>2. MaxDepth - depth \in S
      <3> HIDE DEF S
      <3> QED BY <1>1, <1>3, <2>1, Induction
    <2> QED BY <2>1, <2>2
  <1> QED BY <1>4

\* Expansion has come from a along the aliases p to the destinations to.
OnPath(d, a, p, depth, seen, to) ==
    /\ p \in [0..depth - 1 -> Followed(d)]
    /\ depth # 0 => p[0] \in d.alias[a].to
    /\ \A i \in 0..depth - 2 : p[i + 1] \in d.alias[p[i]].to
    /\ to = IF depth = 0 THEN d.alias[a].to ELSE d.alias[p[depth - 1]].to
    /\ seen = {a} \cup {p[i] : i \in 0..depth - 1}

LEMMA PathIsAChain ==
    ASSUME NEW d, WellFormed(d), NEW a, HasAlias(d, a), NEW depth \in Nat, NEW p, NEW seen, NEW to,
           OnPath(d, a, p, depth, seen, to), NEW b \in to
    PROVE  \E q : /\ Chain(d, q, depth, d.alias[a].to) /\ q[depth] = b
                  /\ \A i \in 0..depth - 1 : q[i] = p[i]
                  /\ b \in Followed(d) =>
                       OnPath(d, a, q, depth + 1, seen \cup {b}, d.alias[b].to)
  <1> DEFINE q == [i \in 0..depth |-> IF i = depth THEN b ELSE p[i]]
  <1>1. /\ p \in [0..depth - 1 -> Followed(d)]
        /\ depth # 0 => p[0] \in d.alias[a].to
        /\ \A i \in 0..depth - 2 : p[i + 1] \in d.alias[p[i]].to
        /\ to = IF depth = 0 THEN d.alias[a].to ELSE d.alias[p[depth - 1]].to
        /\ seen = {a} \cup {p[i] : i \in 0..depth - 1}
    BY DEF OnPath
  <1>2. Followed(d) \subseteq Mailboxes /\ a \in Mailboxes /\ Mailboxes \subseteq Addresses
    BY FollowedIsAnAlias DEF Followed, Addresses, Local
  <1>3. to \in SUBSET Addresses
    <2>1. CASE depth = 0
      BY <1>1, <2>1, FollowedIsAnAlias
    <2>2. CASE depth # 0
      <3>1. p[depth - 1] \in Followed(d)
        BY <1>1, <2>2
      <3> QED BY <1>1, <2>2, <3>1, FollowedIsAnAlias
    <2> QED BY <2>1, <2>2
  <1>5. /\ q \in [0..depth -> Addresses] /\ q[depth] = b
        /\ \A i \in 0..depth - 1 : q[i] = p[i]
    BY <1>1, <1>2, <1>3
  <1>6. q[0] \in d.alias[a].to
    BY <1>1, <1>5
  <1>7. ASSUME NEW i \in 0..depth - 1
        PROVE  q[i] \in Followed(d) /\ q[i + 1] \in d.alias[q[i]].to
    <2>1. q[i] = p[i] /\ p[i] \in Followed(d) /\ depth # 0
      BY <1>1, <1>5
    <2>2. CASE i = depth - 1
      <3>1. i + 1 = depth
        BY <2>2
      <3> QED BY <1>1, <1>5, <2>1, <2>2, <3>1
    <2>3. CASE i # depth - 1
      <3>1. i \in 0..depth - 2 /\ i + 1 \in 0..depth - 1
        BY <2>3
      <3> QED BY <1>1, <1>5, <2>1, <3>1
    <2> QED BY <2>2, <2>3
  <1> HIDE DEF q
  <1>8. Chain(d, q, depth, d.alias[a].to)
    BY <1>5, <1>6, <1>7 DEF Chain
  <1>9. ASSUME b \in Followed(d)
        PROVE  OnPath(d, a, q, depth + 1, seen \cup {b}, d.alias[b].to)
    <2>1. (depth + 1) - 1 = depth /\ (depth + 1) - 2 = depth - 1 /\ depth + 1 # 0
      OBVIOUS
    <2>2. q \in [0..depth -> Followed(d)]
      <3>1. \A i \in 0..depth : q[i] \in Followed(d)
        <4>1. \A i \in 0..depth : i = depth \/ i \in 0..depth - 1
          OBVIOUS
        <4> QED BY <1>5, <1>7, <1>9, <4>1
      <3> QED BY <1>5, <3>1
    <2>3. seen \cup {b} = {a} \cup {q[i] : i \in 0..depth}
      <3>1. \A i : i \in 0..depth <=> i = depth \/ i \in 0..depth - 1
        OBVIOUS
      <3> QED BY <1>1, <1>5, <3>1
    <2> QED BY <1>5, <1>6, <1>7, <2>1, <2>2, <2>3 DEF OnPath
  <1> QED BY <1>5, <1>8, <1>9

\* No chain from a is too long, and none leads back to a.
NoLoop(d, a) ==
    /\ \A c : Chain(d, c, MaxDepth - 1, d.alias[a].to) => c[MaxDepth - 1] \notin Followed(d)
    /\ \A n \in 0..MaxDepth - 1 : \A c : Chain(d, c, n, d.alias[a].to) => c[n] # a

\* Without a loop expansion never comes back onto its path, nor too deep.
LEMMA NeverBack ==
    ASSUME NEW d, WellFormed(d), NEW a, HasAlias(d, a), NoLoop(d, a),
           NEW depth \in 0..MaxDepth - 1, NEW p, NEW seen, NEW to,
           OnPath(d, a, p, depth, seen, to), NEW b \in to
    PROVE  /\ b \notin seen
           /\ depth = MaxDepth - 1 => b \notin Followed(d)
  <1> USE RoutingAssumption DEF RoutingAssumption
  <1>1. depth \in Nat
    OBVIOUS
  <1>2. PICK q : /\ Chain(d, q, depth, d.alias[a].to) /\ q[depth] = b
                 /\ \A i \in 0..depth - 1 : q[i] = p[i]
    <2>1. PICK q : /\ Chain(d, q, depth, d.alias[a].to) /\ q[depth] = b
                   /\ \A i \in 0..depth - 1 : q[i] = p[i]
                   /\ b \in Followed(d) =>
                        OnPath(d, a, q, depth + 1, seen \cup {b}, d.alias[b].to)
      BY <1>1, PathIsAChain
    <2> QED BY <2>1
  <1>3. depth = MaxDepth - 1 => b \notin Followed(d)
    BY <1>2 DEF NoLoop
  <1>4. b # a
    BY <1>2 DEF NoLoop
  <1>5. ASSUME NEW i \in 0..depth - 1, b = p[i]
        PROVE  FALSE
    <2>1. q[depth] = q[i]
      BY <1>2, <1>5
    <2>2. MaxDepth - 1 \in Nat /\ MaxDepth - 1 >= i
      OBVIOUS
    <2>3. PICK e : Chain(d, e, MaxDepth - 1, d.alias[a].to) /\ e[MaxDepth - 1] \in Followed(d)
      BY <1>1, <1>2, <2>1, <2>2, CyclesAreEndless
    <2> QED BY <2>3 DEF NoLoop
  <1> QED BY <1>3, <1>4, <1>5 DEF OnPath

\* Addresses expansion stops at, within the depth that is left.
Reached(d, to, depth) ==
    {x \in Addresses :
        /\ ~IsLocal(d, x) \/ HasAccount(d, x)
        /\ \E n \in Nat : depth + n < MaxDepth /\ \E c : Chain(d, c, n, to) /\ c[n] = x}

ExpandsFrom(d, E, a, depth) ==
    \A p, seen, to : OnPath(d, a, p, depth, seen, to) =>
        \A x : x \in E[depth][seen][to] <=> x \in Reached(d, to, depth)

LEMMA OneLevel ==
    ASSUME NEW d, WellFormed(d), NEW E, IsExpansion(d, E), NEW a, HasAlias(d, a), NoLoop(d, a),
           NEW depth \in 0..MaxDepth - 1,
           depth # MaxDepth - 1 => ExpandsFrom(d, E, a, depth + 1)
    PROVE  ExpandsFrom(d, E, a, depth)
  <1> USE RoutingAssumption DEF RoutingAssumption
  <1> SUFFICES ASSUME NEW p, NEW seen, NEW to, OnPath(d, a, p, depth, seen, to), NEW x
               PROVE  x \in E[depth][seen][to] <=> x \in Reached(d, to, depth)
    BY DEF ExpandsFrom
  <1>1. /\ depth \in Nat /\ depth # MaxDepth /\ depth \in 0..MaxDepth
        /\ depth # MaxDepth - 1 => depth + 1 \in 0..MaxDepth - 1
    OBVIOUS
  <1>2. seen \in SUBSET Mailboxes /\ to \in SUBSET Addresses
    <2>1. Followed(d) \subseteq Mailboxes /\ a \in Mailboxes
      BY FollowedIsAnAlias DEF Followed
    <2>2. CASE depth = 0
      BY <2>1, <2>2, FollowedIsAnAlias DEF OnPath
    <2>3. CASE depth # 0
      <3>1. p[depth - 1] \in Followed(d)
        BY <1>1, <2>3 DEF OnPath
      <3>2. d.alias[p[depth - 1]].to \in SUBSET Addresses
        BY <3>1, FollowedIsAnAlias
      <3> QED BY <2>1, <2>3, <3>2 DEF OnPath
    <2> QED BY <2>2, <2>3
  <1>3. x \in E[depth][seen][to] <=> \E b \in to : x \in FollowIn(d, E[depth + 1], seen, b)
    BY <1>1, <1>2, LevelFinds
  <1>4. ASSUME NEW b \in to
        PROVE  b \notin seen /\ (depth = MaxDepth - 1 => b \notin Followed(d))
    BY NeverBack
  <1>5. ASSUME NEW b \in to, b \in Followed(d)
        PROVE  x \in FollowIn(d, E[depth + 1], seen, b)
                 <=> x \in Reached(d, d.alias[b].to, depth + 1)
    <2>1. PICK q : OnPath(d, a, q, depth + 1, seen \cup {b}, d.alias[b].to)
      BY <1>1, <1>5, PathIsAChain
    <2>2. ExpandsFrom(d, E, a, depth + 1)
      BY <1>4, <1>5
    <2>3. FollowIn(d, E[depth + 1], seen, b) = E[depth + 1][seen \cup {b}][d.alias[b].to]
      BY <1>4, <1>5 DEF FollowIn, Followed
    <2> QED BY <2>1, <2>2, <2>3 DEF ExpandsFrom
  <1>6. ASSUME NEW b \in to, x \in FollowIn(d, E[depth + 1], seen, b)
        PROVE  x \in Reached(d, to, depth)
    <2>1. CASE b \in Followed(d)
      <3>1. x \in Reached(d, d.alias[b].to, depth + 1)
        BY <1>5, <1>6, <2>1
      <3>2. PICK n \in Nat : /\ (depth + 1) + n < MaxDepth
                             /\ \E c : Chain(d, c, n, d.alias[b].to) /\ c[n] = x
        BY <3>1 DEF Reached
      <3>3. PICK e : Chain(d, e, n, d.alias[b].to) /\ e[n] = x
        BY <3>2
      <3>4. b \in Addresses
        BY <1>2
      <3>5. PICK c : Chain(d, c, n + 1, to) /\ c[n + 1] = x
        BY <2>1, <3>3, <3>4, ChainCons
      <3>6. n + 1 \in Nat /\ depth + (n + 1) < MaxDepth
        BY <1>1, <3>2
      <3> QED BY <3>1, <3>5, <3>6 DEF Reached
    <2>2. CASE b \notin Followed(d)
      <3>1. x = b /\ (~IsLocal(d, x) \/ HasAccount(d, x))
        BY <1>4, <1>6, <2>2 DEF FollowIn, Followed, HasAlias
      <3> DEFINE c == [i \in 0..0 |-> b]
      <3>2. Chain(d, c, 0, to) /\ c[0] = b
        BY <1>2, ChainOfOne
      <3> HIDE DEF c
      <3>3. 0 \in Nat /\ depth + 0 < MaxDepth
        OBVIOUS
      <3> QED BY <1>2, <3>1, <3>2, <3>3 DEF Reached
    <2> QED BY <2>1, <2>2
  <1>7. ASSUME x \in Reached(d, to, depth)
        PROVE  \E b \in to : x \in FollowIn(d, E[depth + 1], seen, b)
    <2>1. PICK n \in Nat : depth + n < MaxDepth /\ \E c : Chain(d, c, n, to) /\ c[n] = x
      BY <1>7 DEF Reached
    <2>2. PICK c : Chain(d, c, n, to) /\ c[n] = x
      BY <2>1
    <2>3. x \in Addresses /\ (~IsLocal(d, x) \/ HasAccount(d, x))
      BY <1>7 DEF Reached
    <2>4. CASE n = 0
      <3>1. x \in to
        BY <2>2, <2>4 DEF Chain
      <3>2. x \in FollowIn(d, E[depth + 1], seen, x)
        BY <1>4, <2>3, <3>1 DEF FollowIn
      <3> QED BY <3>1, <3>2
    <2>5. CASE n # 0
      <3> DEFINE b == c[0]
      <3>1. n \in Nat \ {0}
        BY <2>5
      <3>2. /\ b \in to /\ b \in Followed(d)
            /\ \E e : Chain(d, e, n - 1, d.alias[b].to) /\ e[n - 1] = x
        BY <2>2, <3>1, ChainTail
      <3> HIDE DEF b
      <3>3. n - 1 \in Nat /\ (depth + 1) + (n - 1) < MaxDepth
        BY <1>1, <2>1, <3>1
      <3>4. x \in Reached(d, d.alias[b].to, depth + 1)
        BY <2>3, <3>2, <3>3 DEF Reached
      <3> QED BY <1>5, <3>2, <3>4
    <2> QED BY <2>4, <2>5
  <1> QED BY <1>3, <1>6, <1>7

LEMMA ExpansionReaches ==
    ASSUME NEW d, WellFormed(d), NEW a, HasAlias(d, a), NoLoop(d, a)
    PROVE  \A x : x \in expand(d, a) <=> x \in Reached(d, d.alias[a].to, 0)
  <1> USE RoutingAssumption DEF RoutingAssumption
  <1> DEFINE E == expansion(d)
             S == {k \in Nat : k <= MaxDepth - 1 => ExpandsFrom(d, E, a, (MaxDepth - 1) - k)}
  <1>1. IsExpansion(d, E)
    BY ExpansionIsDefined
  <1> HIDE DEF E
  <1>2. 0 \in S
    <2>1. MaxDepth - 1 \in 0..MaxDepth - 1 /\ (MaxDepth - 1) - 0 = MaxDepth - 1
      OBVIOUS
    <2>2. ExpandsFrom(d, E, a, MaxDepth - 1)
      BY <1>1, <2>1, OneLevel
    <2> QED BY <2>1, <2>2
  <1>3. ASSUME NEW k \in Nat, k \in S
        PROVE  k + 1 \in S
    <2> SUFFICES ASSUME k + 1 <= MaxDepth - 1
                 PROVE  ExpandsFrom(d, E, a, (MaxDepth - 1) - (k + 1))
      OBVIOUS
    <2>1. PICK depth \in 0..MaxDepth - 1 : /\ depth = (MaxDepth - 1) - (k + 1)
                                           /\ depth + 1 = (MaxDepth - 1) - k
      OBVIOUS
    <2>2. ExpandsFrom(d, E, a, depth + 1)
      BY <1>3, <2>1
    <2> HIDE DEF S
    <2>3. ExpandsFrom(d, E, a, depth)
      BY <1>1, <2>2, OneLevel
    <2> QED BY <2>1, <2>3
  <1>4. MaxDepth - 1 \in S
    <2>1. MaxDepth - 1 \in Nat
      OBVIOUS
    <2> HIDE DEF S
    <2> QED BY <1>2, <1>3, <2>1, Induction
  <1>5. ExpandsFrom(d, E, a, 0)
    BY <1>4
  <1> DEFINE p == [i \in 0..0 - 1 |-> a]
  <1>6. OnPath(d, a, p, 0, {a}, d.alias[a].to)
    BY DEF OnPath
  <1> HIDE DEF p
  <1> QED BY <1>5, <1>6 DEF ExpandsFrom, expand, expand_from, E

\* Routing.ExpandsToReachable, in every directory and for every depth.
LEMMA ExpansionIsReachability ==
    ASSUME NEW d, WellFormed(d)
    PROVE  ExpandsToReachable(d)
  <1> USE RoutingAssumption DEF RoutingAssumption
  <1> SUFFICES ASSUME d.hosted, NEW a \in Mailboxes, HasAlias(d, a)
               PROVE  IF Loops(d, a) THEN LOOP \in expand(d, a)
                      ELSE expand(d, a) = Terminals(d, a)
    BY DEF ExpandsToReachable
  <1> DEFINE to == d.alias[a].to
  <1>1. to \in SUBSET Addresses
    BY FollowedIsAnAlias
  <1>2. \A n \in 0..MaxDepth : \A x : x \in Hops(d, a)[n] <=>
            x \in Addresses /\ \E c : Chain(d, c, n, to) /\ c[n] = x
    BY HopsAreChains DEF Ends
  <1>3. MaxDepth - 1 \in 0..MaxDepth /\ \A n \in 0..MaxDepth - 1 : n \in 0..MaxDepth /\ n \in Nat
    OBVIOUS
  <1> HIDE DEF to
  <1>4. CASE Loops(d, a)
    <2>1. \E n \in 0..MaxDepth - 1 : \E c : Lost(d, c, n, {a}, to, 0)
      <3>1. CASE Hops(d, a)[MaxDepth - 1] \cap Followed(d) # {}
        <4>1. PICK x \in Followed(d) : \E c : Chain(d, c, MaxDepth - 1, to) /\ c[MaxDepth - 1] = x
          BY <1>2, <1>3, <3>1
        <4>2. PICK c : Chain(d, c, MaxDepth - 1, to) /\ c[MaxDepth - 1] = x
          BY <4>1
        <4>3. Lost(d, c, MaxDepth - 1, {a}, to, 0)
          BY <4>2 DEF Lost
        <4> QED BY <4>3
      <3>2. CASE \E n \in 0..MaxDepth - 1 : a \in Hops(d, a)[n]
        <4>1. PICK n \in 0..MaxDepth - 1 : \E c : Chain(d, c, n, to) /\ c[n] = a
          BY <1>2, <1>3, <3>2
        <4>2. PICK c : Chain(d, c, n, to) /\ c[n] = a
          BY <4>1
        <4>3. Lost(d, c, n, {a}, to, 0)
          BY <4>2 DEF Lost
        <4> QED BY <4>3
      <3> QED BY <1>4, <3>1, <3>2 DEF Loops
    <2>2. 0 \in 0..MaxDepth /\ {a} \in SUBSET Mailboxes
      OBVIOUS
    <2> DEFINE E == expansion(d)
    <2>3. IsExpansion(d, E)
      BY ExpansionIsDefined
    <2> HIDE DEF E
    <2>4. LOOP \in E[0][{a}][to]
      BY <1>1, <1>3, <2>1, <2>2, <2>3, LoopsAreFound
    <2> QED BY <1>4, <2>4 DEF expand, expand_from, E, to
  <1>5. CASE ~Loops(d, a)
    <2>1. NoLoop(d, a)
      <3>1. ASSUME NEW c, Chain(d, c, MaxDepth - 1, to)
            PROVE  c[MaxDepth - 1] \notin Followed(d)
        <4>1. c[MaxDepth - 1] \in Addresses
          BY <3>1 DEF Chain
        <4> QED BY <1>2, <1>3, <1>5, <3>1, <4>1 DEF Loops
      <3>2. ASSUME NEW n \in 0..MaxDepth - 1, NEW c, Chain(d, c, n, to)
            PROVE  c[n] # a
        <4>1. a \in Addresses
          BY DEF Addresses, Local
        <4> QED BY <1>2, <1>3, <1>5, <3>2, <4>1 DEF Loops
      <3> QED BY <3>1, <3>2 DEF NoLoop, to
    <2>2. \A x : x \in expand(d, a) <=> x \in Reached(d, to, 0)
      BY <2>1, ExpansionReaches DEF to
    <2>3. \A x : x \in Reached(d, to, 0) <=> x \in Terminals(d, a)
      <3>1. \A n : n \in Nat /\ 0 + n < MaxDepth <=> n \in 0..MaxDepth - 1
        OBVIOUS
      <3> QED BY <1>2, <1>3, <3>1 DEF Reached, Terminals
    <2> QED BY <1>5, <2>2, <2>3
  <1> QED BY <1>4, <1>5

-----------------------------------------------------------------------------
(* Types.  Routing looks at the directory once, and the route it returns   *)
(* has to fit the hand-offs that follow, whatever the directory becomes.   *)

Destinations == Mailboxes \cup Remote

\* Aliases lead to mailboxes, to remote addresses, or into a loop: never to the
\* address of a token.
LEMMA ExpansionIsTyped ==
    ASSUME NEW d, WellFormed(d), d.hosted
    PROVE  \A depth \in 0..MaxDepth : \A seen \in SUBSET Mailboxes : \A to \in SUBSET Addresses :
               expansion(d)[depth][seen][to] \subseteq Destinations \cup {LOOP}
  <1> USE RoutingAssumption DEF RoutingAssumption
  <1> DEFINE E == expansion(d)
             Fine(depth) == \A seen \in SUBSET Mailboxes : \A to \in SUBSET Addresses :
                                E[depth][seen][to] \subseteq Destinations \cup {LOOP}
             S == {n \in Nat : n <= MaxDepth => Fine(MaxDepth - n)}
  <1>1. IsExpansion(d, E)
    BY ExpansionIsDefined
  <1> HIDE DEF E
  <1>2. 0 \in S
    BY <1>1 DEF IsExpansion, Deepest
  <1>3. ASSUME NEW n \in Nat, n \in S
        PROVE  n + 1 \in S
    <2> SUFFICES ASSUME n + 1 <= MaxDepth
                 PROVE  Fine(MaxDepth - (n + 1))
      OBVIOUS
    <2>1. PICK depth \in 0..MaxDepth - 1 : /\ depth = MaxDepth - (n + 1)
                                           /\ depth + 1 = MaxDepth - n
      OBVIOUS
    <2>2. Fine(depth + 1)
      BY <1>3, <2>1
    <2>3. E[depth] = Level(d, E[depth + 1])
      BY <1>1 DEF IsExpansion
    <2>4. ASSUME NEW seen \in SUBSET Mailboxes, NEW to \in SUBSET Addresses, NEW b \in to
          PROVE  FollowIn(d, E[depth + 1], seen, b) \subseteq Destinations \cup {LOOP}
      <3>1. CASE b \notin seen /\ (~IsLocal(d, b) \/ HasAccount(d, b))
        BY <3>1 DEF FollowIn, IsLocal, HasAccount, Addresses, Local, Destinations
      <3>2. CASE b \notin seen /\ ~(~IsLocal(d, b) \/ HasAccount(d, b)) /\ HasAlias(d, b)
        <4>1. b \in Mailboxes /\ d.alias[b].to \in SUBSET Addresses
          BY <3>2, FollowedIsAnAlias
        <4>2. seen \cup {b} \in SUBSET Mailboxes
          BY <4>1
        <4> QED BY <2>2, <3>2, <4>1, <4>2 DEF FollowIn
      <3> QED BY <3>1, <3>2 DEF FollowIn
    <2>5. ASSUME NEW seen \in SUBSET Mailboxes, NEW to \in SUBSET Addresses
          PROVE  E[depth][seen][to] \subseteq Destinations \cup {LOOP}
      <3>1. E[depth][seen][to] = UNION {FollowIn(d, E[depth + 1], seen, b) : b \in to}
        BY <2>3 DEF Level
      <3> QED BY <2>4, <3>1
    <2> QED BY <2>1, <2>5
  <1>4. \A n \in Nat : n \in S
    <2> HIDE DEF S
    <2> QED BY <1>2, <1>3, Induction
  <1> SUFFICES ASSUME NEW depth \in 0..MaxDepth
               PROVE  Fine(depth)
    BY DEF E
  <1>5. MaxDepth - depth \in Nat /\ MaxDepth - depth <= MaxDepth
        /\ MaxDepth - (MaxDepth - depth) = depth
    OBVIOUS
  <1> QED BY <1>4, <1>5

\* A route that the hand-offs can follow.
WellRouted(r) ==
    /\ r \in Routes
    /\ r.to \subseteq Destinations
    /\ r.disposition \in {"local", "bridge"} \/ r.to # {} => r.recipient \in Mailboxes
    /\ r.disposition = "reject" => r.reason \in Reasons
    /\ r.disposition = "reply" => r.reply \in ReplyRoutes

LEMMA RoutesAreTyped ==
    ASSUME NEW d \in Directory, NEW a \in Addresses
    PROVE  WellRouted(route(d, a))
  <1> USE RoutingAssumption DEF RoutingAssumption
  <1>1. /\ WellFormed(d)
        /\ d.account \in [Mailboxes -> {"none", "open", "disabled", "blocked", "muted"}]
        /\ d.token \in [Tokens -> ReplyRoutes \cup {NoToken}]
    BY DEF Directory, WellFormed
  <1>2. ASSUME NEW reason \in Reasons
        PROVE  WellRouted(Reject(a, reason))
    BY DEF WellRouted, Reject, Routes
  <1>3. ASSUME NEW disposition \in {"local", "forward", "bridge"}, NEW to \in SUBSET Destinations,
               a \in Mailboxes
        PROVE  WellRouted(RouteTo(a, disposition, to))
    <2>1. to \in SUBSET Addresses
      BY DEF Destinations, Addresses, Local
    <2> QED BY <1>3, <2>1 DEF WellRouted, RouteTo, Routes
  <1>4. ASSUME d.hosted, HasAlias(d, a), LOOP \notin expand(d, a)
        PROVE  expand(d, a) \in SUBSET Destinations
    <2>1. a \in Mailboxes /\ d.alias[a].to \in SUBSET Addresses
      BY <1>1, <1>4, FollowedIsAnAlias
    <2>2. 0 \in 0..MaxDepth /\ {a} \in SUBSET Mailboxes
      BY <2>1
    <2>3. expand(d, a) \subseteq Destinations \cup {LOOP}
      BY <1>1, <1>4, <2>1, <2>2, ExpansionIsTyped DEF expand, expand_from
    <2> QED BY <1>4, <2>3
  <1>5. ASSUME d.hosted, HasAccount(d, a)
        PROVE  WellRouted(RouteAccount(d, a))
    <2> DEFINE bridged == HasAlias(d, a) /\ d.alias[a].type = "bridge"
               to == IF bridged THEN expand(d, a) ELSE {}
    <2>1. a \in Mailboxes
      BY <1>5 DEF HasAccount
    <2>2. LOOP \notin to => to \in SUBSET Destinations
      BY <1>4, <1>5
    <2>3. RouteAccount(d, a) = IF d.account[a] \in {"disabled", "blocked"}
                               THEN Reject(a, d.account[a])
                               ELSE IF LOOP \in to THEN Reject(a, "loop")
                               ELSE IF to # {} THEN RouteTo(a, "bridge", to)
                               ELSE RouteTo(a, "local", {})
      BY DEF RouteAccount
    <2> HIDE DEF to
    <2>4. "loop" \in Reasons /\ "disabled" \in Reasons /\ "blocked" \in Reasons
      BY DEF Reasons
    <2> QED BY <1>2, <1>3, <2>1, <2>2, <2>3, <2>4
  <1>6. ASSUME d.hosted, HasAlias(d, a)
        PROVE  WellRouted(RouteAlias(d, a))
    <2>1. a \in Mailboxes /\ "loop" \in Reasons /\ "no_such" \in Reasons
      BY <1>6 DEF HasAlias, Reasons
    <2>2. LOOP \notin expand(d, a) => expand(d, a) \in SUBSET Destinations
      BY <1>4, <1>6
    <2> DEFINE to == expand(d, a)
    <2>3. RouteAlias(d, a) = IF LOOP \in to THEN Reject(a, "loop")
                             ELSE IF to = {} THEN Reject(a, "no_such")
                             ELSE RouteTo(a, "forward", to)
      BY DEF RouteAlias
    <2> HIDE DEF to
    <2> QED BY <1>2, <1>3, <2>1, <2>2, <2>3 DEF to
  <1>7. ASSUME IsLiveToken(d, a)
        PROVE  WellRouted([RouteTo(a, "reply", {}) EXCEPT !.reply = d.token[a]])
    <2>1. d.token[a] \in ReplyRoutes
      BY <1>1, <1>7 DEF IsLiveToken
    <2> QED BY <2>1 DEF WellRouted, RouteTo, Routes
  <1>8. "suppressed" \in Reasons /\ "not_local" \in Reasons /\ "no_such" \in Reasons
    BY DEF Reasons
  <1>9. IsLocal(d, a) => d.hosted
    BY DEF IsLocal
  <1> QED BY <1>2, <1>5, <1>6, <1>7, <1>8, <1>9 DEF route

\* What of a plan the client sends elsewhere itself.
Elsewhere(t) == {r \in t.plan : LoggedIn(t.envelope) /\ r.reason = "not_local"}

Typed(m, t) ==
    /\ t.envelope \in Envelopes[m] \cup {NoEnvelope}
    /\ t.stage # "new" => t.envelope \in Envelopes[m]
    /\ t.stage \in {"new", "rcpt", "may_send", "bounce", "route", "handoff", "store", "closed"}
    /\ t.try \in 0..MaxTries[m]
    /\ t.rcpts \subseteq t.offered /\ t.offered \subseteq Addresses
    /\ IsFiniteSet(t.rcpts) /\ Cardinality(t.rcpts) <= MaxRecipients
    /\ t.spam \in BOOLEAN
    /\ \A r \in t.plan : WellRouted(r)
    /\ t.steps \subseteq {"outbound", "forward", "reply"}
    /\ "outbound" \in t.steps => Elsewhere(t) # {}
    /\ t.boxes \subseteq Mailboxes /\ t.groups \subseteq SUBSET Mailboxes
    /\ t.outcome.rejected \subseteq Reasons
    /\ t.answer \in {0, 250, 451, 550, 554}

Stored ==
    /\ directory \in Directory
    /\ inbox \subseteq Copy /\ refused \subseteq Copy
    /\ queue \subseteq QueueRow
    /\ ops \in 0..MaxOps /\ faults \in 0..MaxFaults

TypeInv == Stored /\ \A m \in Mails : Typed(m, tx[m])

\* One transaction's step.
LEMMA OneTyped ==
    ASSUME Inv, TypeInv, NEW m \in Mails, NEW u, tx' = [tx EXCEPT ![m] = u], Typed(m, u),
           Stored'
    PROVE  TypeInv'
  <1>1. tx = [k \in Mails |-> tx[k]]
    BY DEF Inv
  <1>2. tx'[m] = u /\ \A k \in Mails \ {m} : tx'[k] = tx[k]
    BY <1>1
  <1> QED BY <1>2 DEF TypeInv, Typed, Elsewhere

\* The end of a transaction, with an answer of the protocol.
LEMMA TypedEnd ==
    ASSUME Inv, TypeInv, NEW m \in Mails, NEW t, IsTx(t), Typed(m, t), t.stage # "new",
           Closed(m, t), Stored'
    PROVE  TypeInv'
  <1>1. PICK u : tx' = [tx EXCEPT ![m] = u] /\ Ended(t, u)
    BY WayOut
  <1>2. smtp_response(t.outcome) \subseteq {250, 451, 550, 554}
    BY DEF smtp_response, smtp_code
  <1>3. Typed(m, u)
    BY <1>1, <1>2 DEF Typed, Ended, SameDelivery
  <1> QED BY <1>1, <1>3, OneTyped

\* The way on through deliver().
LEMMA TypedOn ==
    ASSUME Inv, TypeInv, NEW m \in Mails, NEW t, IsTx(t), Typed(m, t), t.stage # "new",
           Proceed(m, t), Stored'
    PROVE  TypeInv'
  <1>1. PICK u : tx' = [tx EXCEPT ![m] = u] /\ WentOn(t, u)
    BY WayOn
  <1>2. CASE Ended(t, u)
    <2>1. smtp_response(t.outcome) \subseteq {250, 451, 550, 554}
      BY DEF smtp_response, smtp_code
    <2>2. Typed(m, u)
      BY <1>2, <2>1 DEF Typed, Ended, SameDelivery
    <2> QED BY <1>1, <2>2, OneTyped
  <1>3. CASE ~Ended(t, u)
    <2>1. spam_groups(t) \subseteq SUBSET t.boxes
      BY DEF spam_groups
    <2>2. Typed(m, u)
      BY <1>1, <1>3, <2>1 DEF Typed, WentOn, SameDelivery, Elsewhere
    <2> QED BY <1>1, <2>2, OneTyped
  <1> QED BY <1>2, <1>3

\* u is t but for what its outcome says.
SameButOutcome(t, u) ==
    /\ u.envelope = t.envelope /\ u.stage = t.stage /\ u.try = t.try
    /\ u.offered = t.offered /\ u.rcpts = t.rcpts /\ u.spam = t.spam /\ u.plan = t.plan
    /\ u.steps = t.steps /\ u.boxes = t.boxes /\ u.groups = t.groups /\ u.answer = t.answer

\* u is t but for a hand-off that was made.
SameButSteps(t, u) ==
    /\ u.envelope = t.envelope /\ u.stage = t.stage /\ u.try = t.try
    /\ u.offered = t.offered /\ u.rcpts = t.rcpts /\ u.spam = t.spam /\ u.plan = t.plan
    /\ u.groups = t.groups /\ u.answer = t.answer

\* deliver() raised.
LEMMA TypedAbort ==
    ASSUME Inv, TypeInv, NEW m \in Mails, tx[m].stage # "new", Aborted(m), Stored'
    PROVE  TypeInv'
  <1> DEFINE t == [tx[m] EXCEPT !.outcome.error = "temporary"]
  <1>1. IsTx(tx[m]) /\ Typed(m, tx[m])
    BY DEF Inv, Backed, TypeInv
  <1>2. /\ IsTx(t) /\ SameButOutcome(tx[m], t)
        /\ t.outcome.rejected = tx[m].outcome.rejected
    BY <1>1 DEF IsTx, IsOutcome, SameButOutcome
  <1>3. Closed(m, t)
    BY DEF Aborted
  <1> HIDE DEF t
  <1>4. Typed(m, t) /\ t.stage # "new"
    BY <1>1, <1>2 DEF Typed, SameButOutcome, Elsewhere
  <1> QED BY <1>2, <1>3, <1>4, TypedEnd

\* The envelope.
LEMMA EnvelopeIsTyped ==
    ASSUME Inv, TypeInv, NEW m \in Mails,
           \/ Connect(m) \/ Retry(m) \/ handle_DATA(m) \/ may_send(m) \/ record_bounces(m)
           \/ \E r \in Addresses : handle_RCPT(m, r) \/ RcptError(m, r)
    PROVE  TypeInv'
  <1>1. /\ IsTx(tx[m]) /\ Typed(m, tx[m]) /\ tx = [k \in Mails |-> tx[k]]
        /\ Stored
    BY DEF Inv, Backed, TypeInv
  <1>2. ASSUME NEW stage \in {"may_send", "bounce", "route"}, tx[m].stage # "new",
               tx' = [tx EXCEPT ![m].stage = stage], Stored'
        PROVE  TypeInv'
    <2> DEFINE t == [tx[m] EXCEPT !.stage = stage]
    <2>1. t.stage = stage /\ t.steps = tx[m].steps /\ SameDelivery(tx[m], t)
          /\ t.groups = tx[m].groups /\ t.answer = tx[m].answer
      BY <1>1 DEF IsTx, SameDelivery
    <2>2. tx' = [tx EXCEPT ![m] = t]
      BY <1>1, <1>2
    <2> HIDE DEF t
    <2>3. Typed(m, t)
      BY <1>1, <1>2, <2>1 DEF Typed, SameDelivery, Elsewhere
    <2> QED BY <1>2, <2>2, <2>3, OneTyped
  <1>3. ASSUME NEW r \in Addresses, NEW rcpts, tx[m].stage = "rcpt",
               \/ rcpts = tx[m].rcpts
               \/ rcpts = tx[m].rcpts \cup {r} /\ ~Full(tx[m].rcpts),
               tx' = [tx EXCEPT ![m].offered = tx[m].offered \cup {r}, ![m].rcpts = rcpts],
               Stored'
        PROVE  TypeInv'
    <2> DEFINE t == [tx[m] EXCEPT !.offered = tx[m].offered \cup {r}, !.rcpts = rcpts]
    <2>1. /\ t.offered = tx[m].offered \cup {r} /\ t.rcpts = rcpts
          /\ t.stage = tx[m].stage /\ t.envelope = tx[m].envelope /\ t.try = tx[m].try
          /\ t.spam = tx[m].spam /\ t.plan = tx[m].plan /\ t.steps = tx[m].steps
          /\ t.boxes = tx[m].boxes /\ t.groups = tx[m].groups /\ t.outcome = tx[m].outcome
          /\ t.answer = tx[m].answer
      BY <1>1 DEF IsTx
    <2>2. tx' = [tx EXCEPT ![m] = t]
      BY <1>1, <1>3
    <2>3. IsFiniteSet(rcpts) /\ Cardinality(rcpts) <= MaxRecipients
      <3>1. IsFiniteSet(tx[m].rcpts) /\ Cardinality(tx[m].rcpts) <= MaxRecipients
        BY <1>1 DEF Typed
      <3>2. MaxRecipients \in Nat /\ Cardinality(tx[m].rcpts) \in Nat
        BY <3>1, DeliveryAssumption, FS_CardinalityType DEF DeliveryAssumption
      <3>3. CASE rcpts # tx[m].rcpts
        <4> DEFINE before == tx[m].rcpts
        <4>1. rcpts = before \cup {r} /\ ~Full(before) /\ r \notin before
          BY <1>3, <3>3
        <4> HIDE DEF before
        <4>2. /\ IsFiniteSet(before \cup {r})
              /\ Cardinality(before \cup {r}) = Cardinality(before) + 1
          BY <3>1, <4>1, FS_AddElement DEF before
        <4>3. Cardinality(before) < MaxRecipients
          BY <3>2, <4>1, DeliveryAssumption DEF before, Full, DeliveryAssumption
        <4> QED BY <3>2, <4>1, <4>2, <4>3 DEF before
      <3> QED BY <3>1, <3>3
    <2>4. rcpts \subseteq tx[m].offered \cup {r} /\ tx[m].offered \cup {r} \subseteq Addresses
      BY <1>1, <1>3 DEF Typed
    <2> HIDE DEF t
    <2>5. Typed(m, t)
      BY <1>1, <1>3, <2>1, <2>3, <2>4 DEF Typed, Elsewhere
    <2> QED BY <1>3, <2>2, <2>5, OneTyped
  <1>4. ASSUME NEW e \in Envelopes[m], NEW try \in 0..MaxTries[m],
               tx' = [tx EXCEPT ![m] = [NoTx EXCEPT !.envelope = e, !.stage = "rcpt",
                                                    !.try = try]],
               Stored'
        PROVE  TypeInv'
    <2> DEFINE t == [NoTx EXCEPT !.envelope = e, !.stage = "rcpt", !.try = try]
    <2>1. /\ t.envelope = e /\ t.stage = "rcpt" /\ t.try = try
          /\ t.offered = {} /\ t.rcpts = {} /\ t.spam = FALSE /\ t.plan = {} /\ t.steps = {}
          /\ t.boxes = {} /\ t.groups = {} /\ t.outcome.rejected = {} /\ t.answer = 0
      BY DEF NoTx, NoOutcome
    <2>2. IsFiniteSet({}) /\ Cardinality({}) <= MaxRecipients
      BY FS_EmptySet, DeliveryAssumption DEF DeliveryAssumption
    <2>3. tx' = [tx EXCEPT ![m] = t]
      BY <1>4
    <2> HIDE DEF t
    <2>4. Typed(m, t)
      BY <2>1, <2>2 DEF Typed
    <2> QED BY <1>4, <2>3, <2>4, OneTyped
  <1>5. MaxTries[m] \in Nat \ {0}
    BY DeliveryAssumption DEF DeliveryAssumption
  <1>6. CASE Connect(m)
    <2>1. Stored'
      BY <1>1, <1>6 DEF Connect, Stored
    <2>2. 1 \in 0..MaxTries[m]
      BY <1>5
    <2> QED BY <1>4, <1>6, <2>1, <2>2 DEF Connect
  <1>7. CASE Retry(m)
    <2>1. Stored'
      BY <1>1, <1>7 DEF Retry, Stored
    <2>2. tx[m].envelope \in Envelopes[m] /\ tx[m].try \in 0..MaxTries[m]
      BY <1>1, <1>7 DEF Retry, Typed
    <2>3. tx[m].try + 1 \in 0..MaxTries[m]
      BY <1>5, <1>7, <2>2 DEF Retry
    <2>4. tx' = [tx EXCEPT ![m] = [NoTx EXCEPT !.envelope = tx[m].envelope, !.stage = "rcpt",
                                               !.try = tx[m].try + 1]]
      BY <1>7 DEF Retry
    <2> DEFINE e == tx[m].envelope
               try == tx[m].try + 1
    <2>5. /\ e \in Envelopes[m] /\ try \in 0..MaxTries[m]
          /\ tx' = [tx EXCEPT ![m] = [NoTx EXCEPT !.envelope = e, !.stage = "rcpt", !.try = try]]
      BY <2>2, <2>3, <2>4
    <2> HIDE DEF e, try
    <2> QED BY <1>4, <2>1, <2>5
  <1>8. CASE handle_DATA(m)
    <2>1. Stored' /\ tx[m].stage # "new"
      BY <1>1, <1>8 DEF handle_DATA, Stored
    <2>2. CASE Closed(m, tx[m])
      BY <1>1, <2>1, <2>2, TypedEnd
    <2> QED BY <1>2, <1>8, <2>1, <2>2 DEF handle_DATA
  <1>9. CASE may_send(m)
    <2> DEFINE t == [tx[m] EXCEPT !.outcome.error = "permanent"]
    <2>1. Stored' /\ tx[m].stage # "new"
      BY <1>1, <1>9 DEF may_send, Stored
    <2>2. CASE Closed(m, t)
      <3>1. /\ IsTx(t) /\ SameButOutcome(tx[m], t)
            /\ t.outcome.rejected = tx[m].outcome.rejected
        BY <1>1 DEF IsTx, IsOutcome, SameButOutcome
      <3> HIDE DEF t
      <3>2. Typed(m, t) /\ t.stage # "new"
        BY <1>1, <2>1, <3>1 DEF Typed, SameButOutcome, Elsewhere
      <3> QED BY <2>1, <2>2, <3>1, <3>2, TypedEnd
    <2> QED BY <1>2, <1>9, <2>1, <2>2 DEF may_send
  <1>10. CASE record_bounces(m)
    <2>1. tx[m].stage = "bounce" /\ tx' = [tx EXCEPT ![m].stage = "route"]
      BY <1>10 DEF record_bounces
    <2>2. tx[m].envelope.reports \subseteq Addresses
      <3>1. tx[m].envelope \in Envelope
        BY <1>1, <2>1, DeliveryAssumption DEF Typed, DeliveryAssumption
      <3> QED BY <3>1 DEF Envelope
    <2>3. Stored'
      <3>1. directory' = [directory EXCEPT !.suppressed = @ \cup tx[m].envelope.reports]
        BY <1>10 DEF record_bounces
      <3>2. directory' \in Directory
        BY <1>1, <2>2, <3>1 DEF Stored, Directory
      <3> QED BY <1>1, <1>10, <3>2 DEF Stored, record_bounces
    <2> QED BY <1>2, <2>1, <2>3
  <1>11. ASSUME NEW r \in Addresses, handle_RCPT(m, r)
         PROVE  TypeInv'
    <2>1. Stored'
      BY <1>1, <1>11 DEF handle_RCPT, Stored
    <2> DEFINE taken == Submitted(m) \/ route(directory, r).disposition # "reject"
               rcpts == IF taken /\ ~Full(tx[m].rcpts) THEN tx[m].rcpts \cup {r}
                        ELSE tx[m].rcpts
    <2>2. /\ tx[m].stage = "rcpt"
          /\ tx' = [tx EXCEPT ![m].offered = tx[m].offered \cup {r}, ![m].rcpts = rcpts]
      BY <1>1, <1>11 DEF handle_RCPT
    <2>3. \/ rcpts = tx[m].rcpts
          \/ rcpts = tx[m].rcpts \cup {r} /\ ~Full(tx[m].rcpts)
      OBVIOUS
    <2> HIDE DEF rcpts
    <2> QED BY <1>3, <2>1, <2>2, <2>3
  <1>12. ASSUME NEW r \in Addresses, RcptError(m, r)
         PROVE  TypeInv'
    <2>1. Stored'
      <3>1. faults < MaxFaults /\ faults' = faults + 1 /\ faults \in Nat /\ MaxFaults \in Nat
        BY <1>1, <1>12, DeliveryAssumption DEF RcptError, Stored, DeliveryAssumption
      <3> QED BY <1>1, <1>12, <3>1 DEF RcptError, Stored
    <2>2. tx[m].stage = "rcpt" /\ tx' = [tx EXCEPT ![m].offered = tx[m].offered \cup {r}]
      BY <1>1, <1>12 DEF RcptError
    <2>3. [tx[m] EXCEPT !.offered = tx[m].offered \cup {r}]
            = [tx[m] EXCEPT !.offered = tx[m].offered \cup {r}, !.rcpts = tx[m].rcpts]
      BY <1>1 DEF IsTx
    <2>4. tx' = [tx EXCEPT ![m].offered = tx[m].offered \cup {r}, ![m].rcpts = tx[m].rcpts]
      BY <1>1, <2>2, <2>3
    <2> QED BY <1>3, <2>1, <2>2, <2>4
  <1> QED BY <1>6, <1>7, <1>8, <1>9, <1>10, <1>11, <1>12

\* Routing.
LEMMA RoutingIsTyped ==
    ASSUME Inv, TypeInv, NEW m \in Mails, MailLoop(m) \/ route_all(m)
    PROVE  TypeInv'
  <1>1. /\ IsTx(tx[m]) /\ Typed(m, tx[m]) /\ Stored' /\ tx[m].stage = "route"
    BY DEF Inv, Backed, TypeInv, MailLoop, route_all, Stored
  <1>2. CASE MailLoop(m)
    <2> DEFINE t == [tx[m] EXCEPT !.outcome.error = "permanent"]
    <2>1. /\ IsTx(t) /\ SameButOutcome(tx[m], t)
          /\ t.outcome.rejected = tx[m].outcome.rejected
      BY <1>1 DEF IsTx, IsOutcome, SameButOutcome
    <2>2. Closed(m, t)
      BY <1>2 DEF MailLoop
    <2> HIDE DEF t
    <2>3. Typed(m, t) /\ t.stage # "new"
      BY <1>1, <2>1 DEF Typed, SameButOutcome, Elsewhere
    <2> QED BY <1>1, <2>1, <2>2, <2>3, TypedEnd
  <1>3. CASE route_all(m)
    <2> DEFINE R == {route(directory, r) : r \in tx[m].rcpts}
               out == Outbound(m, R)
               rejected == {r.reason : r \in {q \in R \ out : q.disposition = "reject"}}
               boxes == {r.recipient : r \in {q \in R : q.disposition \in {"local", "bridge"}}}
               steps == (IF out # {} THEN {"outbound"} ELSE {})
                            \cup (IF Forwarding(R) # {} THEN {"forward"} ELSE {})
                            \cup (IF Replying(R) # {} THEN {"reply"} ELSE {})
    <2>1. PICK verdict \in IF Submitted(m) THEN {FALSE} ELSE BOOLEAN :
            Proceed(m, [tx[m] EXCEPT !.plan = R, !.spam = verdict, !.outcome.rejected = rejected,
                                     !.boxes = boxes, !.steps = steps])
      BY <1>3 DEF route_all
    <2>2. \A r \in R : WellRouted(r)
      <3>1. directory \in Directory /\ tx[m].rcpts \subseteq Addresses
        BY <1>1 DEF TypeInv, Stored, Typed
      <3> QED BY <3>1, RoutesAreTyped
    <2>3. verdict \in BOOLEAN
      OBVIOUS
    <2>4. rejected \subseteq Reasons /\ boxes \subseteq Mailboxes
      <3> HIDE DEF R, out
      <3> QED BY <2>2 DEF WellRouted
    <2>5. /\ steps \subseteq {"outbound", "forward", "reply"}
          /\ "outbound" \in steps => out # {}
      OBVIOUS
    <2>6. out = {r \in R : LoggedIn(tx[m].envelope) /\ r.reason = "not_local"}
      BY DEF Outbound, Submitted, LoggedIn
    <2> HIDE DEF R, out, rejected, boxes, steps
    <2> DEFINE t == [tx[m] EXCEPT !.plan = R, !.spam = verdict, !.outcome.rejected = rejected,
                                  !.boxes = boxes, !.steps = steps]
    <2>7. /\ IsTx(t) /\ t.envelope = tx[m].envelope /\ t.stage = tx[m].stage
          /\ t.try = tx[m].try /\ t.offered = tx[m].offered /\ t.rcpts = tx[m].rcpts
          /\ t.spam = verdict /\ t.plan = R /\ t.steps = steps /\ t.boxes = boxes
          /\ t.groups = tx[m].groups /\ t.outcome.rejected = rejected
          /\ t.answer = tx[m].answer
      BY <1>1, <2>3 DEF IsTx, IsOutcome
    <2>8. Proceed(m, t)
      BY <2>1
    <2> HIDE DEF t
    <2>9. Elsewhere(t) = out
      BY <2>6, <2>7 DEF Elsewhere
    <2>10. Typed(m, t) /\ t.stage # "new"
      BY <1>1, <2>2, <2>3, <2>4, <2>5, <2>7, <2>9 DEF Typed
    <2> QED BY <1>1, <2>7, <2>8, <2>10, TypedOn
  <1> QED BY <1>2, <1>3

\* Submitted mail for elsewhere: a row has somebody to go to.
LEMMA OutboundIsTyped ==
    ASSUME Inv, TypeInv, NEW m \in Mails, enqueue_outbound(m)
    PROVE  TypeInv'
  <1>1. /\ IsTx(tx[m]) /\ Typed(m, tx[m]) /\ Stored /\ tx[m].stage = "handoff"
        /\ "outbound" \in tx[m].steps
    BY DEF Inv, Backed, TypeInv, enqueue_outbound
  <1> DEFINE to == {r.recipient : r \in Outbound(m, tx[m].plan)}
             from == tx[m].envelope.from
  <1>2. to # {} /\ to \subseteq Addresses
    <2>1. Outbound(m, tx[m].plan) = Elsewhere(tx[m])
      BY DEF Outbound, Elsewhere, Submitted, LoggedIn
    <2>2. \A r \in tx[m].plan : r.recipient \in Addresses
      BY <1>1 DEF Typed, WellRouted, Routes
    <2>3. Elsewhere(tx[m]) # {} /\ Elsewhere(tx[m]) \subseteq tx[m].plan
      BY <1>1 DEF Typed, Elsewhere
    <2> QED BY <2>1, <2>2, <2>3
  <1>3. from \in Addresses \cup {NullSender}
    <2>1. tx[m].envelope \in Envelope
      BY <1>1, DeliveryAssumption DEF Typed, DeliveryAssumption
    <2> QED BY <2>1 DEF Envelope
  <1>4. CASE directory.hosted
    <2> DEFINE t == [tx[m] EXCEPT !.steps = @ \ {"outbound"}, !.outcome.forwarded = @ \cup to]
               row == Row(m, "submission", from, to, from)
    <2>1. queue' = queue \cup {row} /\ Proceed(m, t)
      BY <1>4 DEF enqueue_outbound
    <2> HIDE DEF to
    <2>2. row \in QueueRow
      <3>1. tx[m].try \in Nat /\ tx[m].spam \in BOOLEAN
        BY <1>1, DeliveryAssumption DEF Typed, DeliveryAssumption
      <3>2. to \in (SUBSET (Addresses \cup {NullSender})) \ {{}}
        BY <1>2
      <3> HIDE DEF from
      <3> QED BY <1>3, <3>1, <3>2 DEF Row, QueueRow
    <2> HIDE DEF row
    <2>3. /\ IsTx(t) /\ SameButSteps(tx[m], t) /\ t.boxes = tx[m].boxes
          /\ t.steps = tx[m].steps \ {"outbound"}
          /\ t.outcome.rejected = tx[m].outcome.rejected
      BY <1>1 DEF IsTx, IsOutcome, SameButSteps
    <2> HIDE DEF t
    <2>4. Typed(m, t) /\ t.stage # "new"
      BY <1>1, <2>3 DEF Typed, SameButSteps, Elsewhere
    <2>5. Stored'
      BY <1>1, <2>1, <2>2 DEF Stored, enqueue_outbound
    <2> QED BY <2>1, <2>3, <2>4, <2>5, TypedOn
  <1>5. CASE ~directory.hosted
    <2> DEFINE t == [tx[m] EXCEPT !.steps = @ \ {"outbound"}, !.outcome.error = "permanent"]
    <2>1. queue' = queue /\ Proceed(m, t)
      BY <1>5 DEF enqueue_outbound
    <2>2. /\ IsTx(t) /\ SameButSteps(tx[m], t) /\ t.boxes = tx[m].boxes
          /\ t.steps = tx[m].steps \ {"outbound"}
          /\ t.outcome.rejected = tx[m].outcome.rejected
      BY <1>1 DEF IsTx, IsOutcome, SameButSteps
    <2> HIDE DEF t
    <2>3. Typed(m, t) /\ t.stage # "new"
      BY <1>1, <2>2 DEF Typed, SameButSteps, Elsewhere
    <2>4. Stored'
      BY <1>1, <2>1 DEF Stored, enqueue_outbound
    <2> QED BY <2>1, <2>2, <2>3, <2>4, TypedOn
  <1> QED BY <1>4, <1>5

\* Copies of aliases: what of them stays goes to mailboxes, and each that leaves
\* has a reply route of its own.
LEMMA ForwardIsTyped ==
    ASSUME Inv, TypeInv, NEW m \in Mails, forward(m)
    PROVE  TypeInv'
  <1> USE RoutingAssumption DEF RoutingAssumption
  <1>1. /\ IsTx(tx[m]) /\ Typed(m, tx[m]) /\ Stored /\ tx[m].stage = "handoff"
        /\ "outbound" \notin tx[m].steps
    BY DEF Inv, Backed, TypeInv, forward
  <1> DEFINE F == Forwarding(tx[m].plan)
             leaving == {r \in F : Leaving(tx[m], r) # {}}
             free == {k \in Tokens : directory.token[k] = NoToken}
  <1>2. CASE Aborted(m) /\ UNCHANGED <<directory, queue>>
    <2>1. Stored'
      BY <1>1, <1>2 DEF Stored, forward
    <2> QED BY <1>1, <1>2, <2>1, TypedAbort, ZenonT(40)
  <1>3. CASE ~(Aborted(m) /\ UNCHANGED <<directory, queue>>)
    <2> DEFINE Token(token) ==
                 [k \in Tokens |->
                    IF \E r \in leaving : token[r] = k
                    THEN ReplyRoute(tx[m], CHOOSE r \in leaving : token[r] = k)
                    ELSE directory.token[k]]
               rows(token) == {Row(m, "forward", r.recipient, Leaving(tx[m], r), token[r]) :
                                   r \in leaving}
               copied == UNION {Leaving(tx[m], r) : r \in leaving}
               mine == {a \in UNION {r.to : r \in F} : IsLocal(directory, a)}
    <2>1. PICK token \in [leaving -> free] :
            /\ directory' = [directory EXCEPT !.token = Token(token)]
            /\ queue' = queue \cup rows(token)
            /\ Proceed(m, [tx[m] EXCEPT !.steps = @ \ {"forward"},
                                        !.outcome.forwarded = @ \cup copied,
                                        !.boxes = @ \cup mine])
      <3>1. directory \in Directory
        BY <1>1 DEF Stored
      <3>2. DOMAIN directory.token = Tokens
        BY <3>1 DEF Directory
      <3>3. PICK token \in [leaving -> free] :
              /\ directory' = [directory EXCEPT !.token =
                    [k \in Tokens |->
                        IF \E r \in leaving : token[r] = k
                        THEN ReplyRoute(tx[m], CHOOSE r \in leaving : token[r] = k)
                        ELSE directory.token[k]]]
              /\ queue' = queue \cup rows(token)
              /\ Proceed(m, [tx[m] EXCEPT !.steps = @ \ {"forward"},
                                          !.outcome.forwarded = @ \cup copied,
                                          !.boxes = @ \cup mine])
        BY <1>3, <3>1 DEF forward, Directory
      <3> QED BY <3>3
    <2>2. \A r \in F : WellRouted(r) /\ r.to # {} /\ r.recipient \in Mailboxes
      BY <1>1 DEF Typed, Forwarding, WellRouted
    <2>3. \A r \in F : Leaving(tx[m], r) \subseteq Addresses
      BY <2>2 DEF WellRouted, Leaving, Destinations, Addresses, Local
    <2>4. mine \subseteq Mailboxes
      BY <2>2 DEF WellRouted, Destinations, IsLocal, Local
    <2>5. tx[m].envelope \in Envelope
      BY <1>1, DeliveryAssumption DEF Typed, DeliveryAssumption
    <2> HIDE DEF F, copied, mine
    <2>6. \A r \in leaving : ReplyRoute(tx[m], r) \in ReplyRoutes
      <3>1. tx[m].envelope.header \in Addresses
        BY <2>5 DEF Envelope
      <3>2. \A r \in leaving : r.recipient \in Mailboxes /\ Leaving(tx[m], r) \in SUBSET Addresses
        BY <2>2, <2>3
      <3> HIDE DEF leaving
      <3> QED BY <3>1, <3>2 DEF ReplyRoute, ReplyRoutes
    <2>7. Token(token) \in [Tokens -> ReplyRoutes \cup {NoToken}]
      <3>1. directory.token \in [Tokens -> ReplyRoutes \cup {NoToken}]
        BY <1>1 DEF Stored, Directory
      <3> HIDE DEF leaving
      <3>2. ASSUME NEW k \in Tokens, \E r \in leaving : token[r] = k
            PROVE  ReplyRoute(tx[m], CHOOSE r \in leaving : token[r] = k) \in ReplyRoutes
        BY <2>6, <3>2
      <3> QED BY <3>1, <3>2
    <2>8. rows(token) \subseteq QueueRow
      <3> SUFFICES ASSUME NEW r \in leaving
                   PROVE  Row(m, "forward", r.recipient, Leaving(tx[m], r), token[r])
                              \in QueueRow
        OBVIOUS
      <3>1. tx[m].try \in Nat /\ tx[m].spam \in BOOLEAN
        BY <1>1, DeliveryAssumption DEF Typed, DeliveryAssumption
      <3>2. Leaving(tx[m], r) \in (SUBSET (Addresses \cup {NullSender})) \ {{}}
        BY <2>3
      <3>3. r.recipient \in Addresses /\ token[r] \in Addresses
        BY <2>2 DEF Addresses, Local
      <3> DEFINE to == Leaving(tx[m], r)
                 k == token[r]
                 source == r.recipient
                 try == tx[m].try
                 spam == tx[m].spam
      <3>4. /\ try \in Nat /\ spam \in BOOLEAN /\ source \in Addresses /\ k \in Addresses
            /\ to \in (SUBSET (Addresses \cup {NullSender})) \ {{}}
        BY <3>1, <3>2, <3>3
      <3> DEFINE row == [mail |-> m, try |-> try, via |-> "forward", source |-> source,
                         to |-> to, envelope_from |-> k, spam |-> spam]
      <3>5. Row(m, "forward", source, to, k) = row
        BY Zenon DEF Row
      <3> HIDE DEF to, k, source, try, spam
      <3>6. row \in QueueRow
        BY ONLY <3>4, m \in Mails DEF QueueRow
      <3> HIDE DEF row
      <3>7. Row(m, "forward", source, to, k) \in QueueRow
        BY ONLY <3>5, <3>6
      <3> QED BY <3>7 DEF to, k, source
    <2> HIDE DEF leaving, free
    <2>9. Stored'
      <3>1. directory' \in Directory
        BY <1>1, <2>1, <2>7 DEF Stored, Directory
      <3> QED BY <1>1, <2>1, <2>8, <3>1 DEF Stored, forward
    <2> DEFINE t == [tx[m] EXCEPT !.steps = @ \ {"forward"},
                                  !.outcome.forwarded = @ \cup copied, !.boxes = @ \cup mine]
    <2>10. Proceed(m, t)
      BY <2>1
    <2>11. /\ IsTx(t) /\ SameButSteps(tx[m], t) /\ t.boxes = tx[m].boxes \cup mine
           /\ t.steps = tx[m].steps \ {"forward"}
           /\ t.outcome.rejected = tx[m].outcome.rejected
      BY <1>1 DEF IsTx, IsOutcome, SameButSteps
    <2> HIDE DEF t
    <2>12. Typed(m, t) /\ t.stage # "new"
      BY <1>1, <2>4, <2>11 DEF Typed, SameButSteps, Elsewhere
    <2> QED BY <2>9, <2>10, <2>11, <2>12, TypedOn, ZenonT(40)
  <1> QED BY <1>2, <1>3

\* Answers through reply routes.
LEMMA ReplyIsTyped ==
    ASSUME Inv, TypeInv, NEW m \in Mails, relay_replies(m)
    PROVE  TypeInv'
  <1>1. /\ IsTx(tx[m]) /\ Typed(m, tx[m]) /\ Stored /\ tx[m].stage = "handoff"
    BY DEF Inv, Backed, TypeInv, relay_replies
  <1> DEFINE R == Replying(tx[m].plan)
             bridged == {r \in R : r.reply.kind = "bridge"}
             null == tx[m].envelope.from = NullSender
             answered == {r \in bridged : ~null /\ accepts_reply_from(r.reply, tx[m].envelope)}
             relayed == IF tx[m].spam THEN {} ELSE answered
             kept == IF null THEN bridged ELSE answered \ relayed
  <1>2. CASE Aborted(m) /\ queue' = queue
    <2>1. Stored'
      BY <1>1, <1>2 DEF Stored, relay_replies
    <2> QED BY <1>1, <1>2, <2>1, TypedAbort
  <1>3. CASE ~(Aborted(m) /\ queue' = queue)
    <2> DEFINE rows == {Row(m, "reply", r.recipient, {r.reply.original_from},
                            r.reply.local_address) : r \in relayed}
               told == {r.reply.original_from : r \in relayed}
               mine == {r.reply.local_address : r \in kept}
               dropped == {r.recipient : r \in IF null THEN R \ bridged ELSE {}}
               denied == {"no_such" : r \in IF null THEN {} ELSE R \ answered}
               t == [tx[m] EXCEPT !.steps = {}, !.boxes = @ \cup mine,
                                  !.outcome.forwarded = @ \cup told,
                                  !.outcome.accepted = @ \cup dropped,
                                  !.outcome.rejected = @ \cup denied]
    <2>1. queue' = queue \cup rows /\ Proceed(m, t)
      BY <1>3 DEF relay_replies
    <2>2. \A r \in R : r.recipient \in Addresses /\ r.reply \in ReplyRoutes
      BY <1>1 DEF Typed, WellRouted, Replying, Routes
    <2>3. relayed \subseteq R /\ kept \subseteq R
      OBVIOUS
    <2> HIDE DEF R, relayed, kept
    <2>4. mine \subseteq Mailboxes
      BY <2>2, <2>3 DEF ReplyRoutes
    <2>5. denied \subseteq Reasons
      BY DEF Reasons
    <2>6. rows \subseteq QueueRow
      <3> SUFFICES ASSUME NEW r \in relayed
                   PROVE  Row(m, "reply", r.recipient, {r.reply.original_from},
                              r.reply.local_address) \in QueueRow
        OBVIOUS
      <3>1. tx[m].try \in Nat /\ tx[m].spam \in BOOLEAN
        BY <1>1, DeliveryAssumption DEF Typed, DeliveryAssumption
      <3>2. /\ r.reply.original_from \in Addresses \cup {NullSender}
            /\ r.reply.local_address \in Addresses
        BY <2>2, <2>3 DEF ReplyRoutes, Addresses, Local
      <3>3. r.recipient \in Addresses
        BY <2>2, <2>3
      <3> DEFINE to == {r.reply.original_from}
                 from == r.reply.local_address
                 source == r.recipient
      <3>4. to \in (SUBSET (Addresses \cup {NullSender})) \ {{}}
        BY <3>2
      <3> HIDE DEF to, from, source
      <3>5. Row(m, "reply", source, to, from) \in QueueRow
        BY <3>1, <3>2, <3>3, <3>4 DEF Row, QueueRow, from, source
      <3> QED BY <3>5 DEF to, from, source
    <2> HIDE DEF rows, told, mine, dropped, denied
    <2>7. /\ IsTx(t) /\ SameButSteps(tx[m], t) /\ t.boxes = tx[m].boxes \cup mine
          /\ t.steps = {} /\ t.outcome.rejected = tx[m].outcome.rejected \cup denied
      BY <1>1 DEF IsTx, IsOutcome, SameButSteps
    <2> HIDE DEF t
    <2>8. Typed(m, t) /\ t.stage # "new"
      BY <1>1, <2>4, <2>5, <2>7 DEF Typed, SameButSteps, Elsewhere
    <2>9. Stored'
      BY <1>1, <2>1, <2>6 DEF Stored, relay_replies
    <2> QED BY <2>1, <2>7, <2>8, <2>9, TypedOn
  <1> QED BY <1>2, <1>3

\* The hand-off to Dovecot, and what fails.
LEMMA StoreIsTyped ==
    ASSUME Inv, TypeInv, NEW m \in Mails, lmtp_deliver(m) \/ LmtpError(m) \/ DatabaseError(m)
    PROVE  TypeInv'
  <1>1. /\ IsTx(tx[m]) /\ Typed(m, tx[m]) /\ Stored /\ tx[m].stage # "new"
    BY DEF Inv, Backed, TypeInv, lmtp_deliver, LmtpError, DatabaseError
  <1>2. ASSUME NEW g \in tx[m].groups, NEW B \in SUBSET g
        PROVE  Copies(m, B) \subseteq Copy
    <2>1. B \subseteq Mailboxes /\ tx[m].try \in Nat
      BY <1>1, DeliveryAssumption DEF Typed, DeliveryAssumption
    <2> QED BY <2>1 DEF Copies, Copy
  <1>3. CASE lmtp_deliver(m)
    <2>1. PICK g \in tx[m].groups : \E ok \in SUBSET g :
            LET t == [tx[m] EXCEPT !.groups = @ \ {g}, !.outcome.delivered = @ \cup ok]
            IN  /\ inbox' = inbox \cup Copies(m, ok)
                /\ refused' = refused \cup Copies(m, g \ ok)
                /\ IF t.groups = {} THEN Closed(m, t) ELSE tx' = [tx EXCEPT ![m] = t]
      BY <1>3 DEF lmtp_deliver
    <2>2. PICK ok \in SUBSET g :
            LET t == [tx[m] EXCEPT !.groups = @ \ {g}, !.outcome.delivered = @ \cup ok]
            IN  /\ inbox' = inbox \cup Copies(m, ok)
                /\ refused' = refused \cup Copies(m, g \ ok)
                /\ IF t.groups = {} THEN Closed(m, t) ELSE tx' = [tx EXCEPT ![m] = t]
      BY <2>1
    <2> DEFINE t == [tx[m] EXCEPT !.groups = @ \ {g}, !.outcome.delivered = @ \cup ok]
    <2>3. /\ inbox' = inbox \cup Copies(m, ok) /\ refused' = refused \cup Copies(m, g \ ok)
          /\ Closed(m, t) \/ tx' = [tx EXCEPT ![m] = t]
      BY <2>2
    <2>4. /\ IsTx(t)
          /\ t.envelope = tx[m].envelope /\ t.stage = tx[m].stage /\ t.try = tx[m].try
          /\ t.offered = tx[m].offered /\ t.rcpts = tx[m].rcpts /\ t.spam = tx[m].spam
          /\ t.plan = tx[m].plan /\ t.steps = tx[m].steps /\ t.boxes = tx[m].boxes
          /\ t.groups = tx[m].groups \ {g} /\ t.answer = tx[m].answer
          /\ t.outcome.rejected = tx[m].outcome.rejected
      BY <1>1 DEF IsTx, IsOutcome, SameButSteps
    <2> HIDE DEF t
    <2>5. Typed(m, t) /\ t.stage # "new"
      BY <1>1, <2>4 DEF Typed, Elsewhere
    <2>6. Copies(m, ok) \subseteq Copy /\ Copies(m, g \ ok) \subseteq Copy
      BY <1>2
    <2>7. Stored'
      BY <1>1, <1>3, <2>3, <2>6 DEF Stored, lmtp_deliver
    <2> QED BY <2>3, <2>4, <2>5, <2>7, OneTyped, TypedEnd
  <1>4. CASE LmtpError(m)
    <2> DEFINE t == [tx[m] EXCEPT !.outcome.error =
                        IF @ = "permanent" THEN "permanent" ELSE "temporary"]
    <2>1. Closed(m, t)
      BY <1>4 DEF LmtpError
    <2>2. /\ IsTx(t) /\ SameButOutcome(tx[m], t)
          /\ t.outcome.rejected = tx[m].outcome.rejected
      BY <1>1 DEF IsTx, IsOutcome, SameButOutcome
    <2> HIDE DEF t
    <2>3. Typed(m, t) /\ t.stage # "new"
      BY <1>1, <2>2 DEF Typed, SameButOutcome, Elsewhere
    <2>4. PICK g \in tx[m].groups : \E got \in SUBSET g : inbox' = inbox \cup Copies(m, got)
      BY <1>4 DEF LmtpError
    <2>5. PICK got \in SUBSET g : inbox' = inbox \cup Copies(m, got)
      BY <2>4
    <2>6. Copies(m, got) \subseteq Copy
      BY <1>2
    <2>7. Stored'
      BY <1>1, <1>4, <2>5, <2>6 DEF Stored, LmtpError
    <2> QED BY <2>1, <2>2, <2>3, <2>7, TypedEnd
  <1>5. CASE DatabaseError(m)
    <2>1. faults < MaxFaults /\ faults' = faults + 1 /\ faults \in Nat /\ MaxFaults \in Nat
      BY <1>1, <1>5, DeliveryAssumption DEF DatabaseError, Stored, DeliveryAssumption
    <2>2. Stored'
      BY <1>1, <1>5, <2>1 DEF DatabaseError, Stored
    <2> QED BY <1>1, <1>5, <2>2, TypedAbort DEF DatabaseError
  <1> QED BY <1>3, <1>4, <1>5

\* The operator leaves a directory.
LEMMA OperatorIsTyped ==
    ASSUME TypeInv, OperatorStep
    PROVE  TypeInv'
  <1>1. Stored /\ directory \in Directory
    BY DEF TypeInv, Stored
  <1>2. Operator => ops' \in 0..MaxOps
    <2>1. ops \in Nat /\ MaxOps \in Nat
      BY <1>1, DeliveryAssumption DEF Stored, DeliveryAssumption
    <2> QED BY <2>1 DEF Operator
  <1>3. ASSUME directory' \in Directory, ops' \in 0..MaxOps,
               UNCHANGED <<tx, inbox, refused, queue, faults>>
        PROVE  TypeInv'
    BY <1>1, <1>3 DEF TypeInv, Stored, Typed, Elsewhere
  <1>4. ASSUME NEW e \in AccountEdits, EditAccount(e[1], e[2])
        PROVE  TypeInv'
    <2>1. e[1] \in Mailboxes /\ e[2] \in {"none", "open", "disabled", "blocked", "muted"}
      BY DeliveryAssumption DEF DeliveryAssumption
    <2>2. directory' \in Directory
      BY <1>1, <1>4, <2>1 DEF EditAccount, Directory
    <2> QED BY <1>2, <1>3, <1>4, <2>2 DEF EditAccount
  <1>5. ASSUME NEW e \in AliasEdits, EditAlias(e[1], e[2])
        PROVE  TypeInv'
    <2>1. e[1] \in Mailboxes /\ e[2] \in Alias \cup {NoAlias}
      BY DeliveryAssumption DEF DeliveryAssumption
    <2>2. directory' \in Directory
      BY <1>1, <1>5, <2>1 DEF EditAlias, Directory
    <2> QED BY <1>2, <1>3, <1>5, <2>2 DEF EditAlias
  <1>6. CASE DeleteDomain
    <2>1. directory' \in Directory /\ ops' \in 0..MaxOps
      BY <1>1, <1>6 DEF DeleteDomain, Directory, Stored
    <2> QED BY <1>3, <1>6, <2>1 DEF DeleteDomain
  <1>7. ASSUME NEW a \in Addresses, unsuppress(a)
        PROVE  TypeInv'
    <2>1. directory' \in Directory
      BY <1>1, <1>7 DEF unsuppress, Directory
    <2> QED BY <1>2, <1>3, <1>7, <2>1 DEF unsuppress
  <1>8. ASSUME NEW k \in Tokens, Expire(k)
        PROVE  TypeInv'
    <2>1. directory.token[k] \in ReplyRoutes
      BY <1>1, <1>8 DEF Directory, Expire
    <2>2. [directory.token[k] EXCEPT !.expired = TRUE] \in ReplyRoutes
      BY <2>1 DEF ReplyRoutes
    <2>3. directory' = [directory EXCEPT !.token =
                            [@ EXCEPT ![k] = [directory.token[k] EXCEPT !.expired = TRUE]]]
      BY <1>1, <1>8 DEF Expire, Directory
    <2>4. directory' \in Directory
      BY <1>1, <2>2, <2>3 DEF Directory
    <2> QED BY <1>2, <1>3, <1>8, <2>4 DEF Expire
  <1> QED BY <1>4, <1>5, <1>6, <1>7, <1>8 DEF OperatorStep

LEMMA InitTypes == Init => TypeInv
  <1> SUFFICES ASSUME Init
               PROVE  TypeInv
    OBVIOUS
  <1>1. Stored
    BY DeliveryAssumption DEF Init, Stored, DeliveryAssumption
  <1>2. /\ NoTx.envelope = NoEnvelope /\ NoTx.stage = "new" /\ NoTx.try = 0
        /\ NoTx.offered = {} /\ NoTx.rcpts = {} /\ NoTx.spam = FALSE /\ NoTx.plan = {}
        /\ NoTx.steps = {} /\ NoTx.boxes = {} /\ NoTx.groups = {}
        /\ NoTx.outcome.rejected = {} /\ NoTx.answer = 0
    BY DEF NoTx, NoOutcome
  <1>3. /\ IsFiniteSet({}) /\ Cardinality({}) <= MaxRecipients
        /\ \A m \in Mails : 0 \in 0..MaxTries[m]
    BY FS_EmptySet, DeliveryAssumption DEF DeliveryAssumption
  <1>4. \A m \in Mails : Typed(m, NoTx)
    BY <1>2, <1>3 DEF Typed
  <1> QED BY <1>1, <1>4 DEF Init, TypeInv

LEMMA NextTypes == Inv /\ TypeInv /\ [Next]_vars => TypeInv'
  <1> SUFFICES ASSUME Inv, TypeInv, [Next]_vars
               PROVE  TypeInv'
    OBVIOUS
  <1>1. CASE UNCHANGED vars
    BY <1>1 DEF vars, TypeInv, Stored, Typed, Elsewhere
  <1>2. CASE OperatorStep
    BY <1>2, OperatorIsTyped
  <1>3. ASSUME NEW m \in Mails, Step(m) \/ Fault(m)
        PROVE  TypeInv'
    BY <1>3, EnvelopeIsTyped, RoutingIsTyped, OutboundIsTyped, ForwardIsTyped, ReplyIsTyped,
       StoreIsTyped DEF Step, Fault
  <1> QED BY <1>1, <1>2, <1>3 DEF Next

LEMMA TypeInvariant == Spec => []TypeInv
  <1>1. Init => Inv /\ TypeInv
    BY InitInv, InitTypes
  <1>2. (Inv /\ TypeInv) /\ [Next]_vars => (Inv /\ TypeInv)'
    BY NextInv, NextTypes
  <1> QED BY <1>1, <1>2, PTL DEF Spec

\* Every variable keeps its type.  For routes that is more than a record of the
\* right fields: LOOP reaches no queue, only mailboxes are offered to Dovecot
\* (never the address of a token, though those are local), an expired or changed
\* token is still a reply route, and no row is without a recipient.
THEOREM TypesAreKept == Spec => []TypeOK
  <1>1. TypeInv => TypeOK
    BY DEF TypeInv, Stored, Typed, TypeOK, WellRouted
  <1> QED BY <1>1, TypeInvariant, PTL

\* RoutingIsReachability (Router._expand): however deep aliases may nest and
\* whatever the operator makes of them, a loop is reported where there is one and
\* only there, and mail reaches exactly the accounts and remote addresses that the
\* aliases lead to.
THEOREM ExpansionIsRight == Spec => []RoutingIsReachability
  <1>1. TypeInv => RoutingIsReachability
    <2>1. TypeInv => WellFormed(directory)
      BY DEF TypeInv, Stored, Directory, WellFormed
    <2> QED BY <2>1, ExpansionIsReachability DEF RoutingIsReachability
  <1> QED BY <1>1, TypeInvariant, PTL

=============================================================================
