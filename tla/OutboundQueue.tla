--------------------------- MODULE OutboundQueue ---------------------------
(***************************************************************************)
(* The outbound mail queue (mail/queue.py), the Sender tasks that drain it *)
(* (mail/sender.py), their shutdown (server.py) and the operator's queue   *)
(* commands (cli/operations.py).                                           *)
(*                                                                         *)
(* One database transaction is one action.  Queue.claim is the exception:  *)
(* its SELECT and its conditional UPDATEs are two actions, because another *)
(* sender's transaction may commit between them.                           *)
(***************************************************************************)
EXTENDS Integers, FiniteSets, Sequences

CONSTANTS
    Messages,          \* queue ids
    Senders,           \* Sender tasks on one database
    Recipients,        \* envelope recipients
    Groups,            \* Groups[m]: recipients of m by domain, in to_addrs order
    MaxAttempts,       \* DEFAULT_MAX_ATTEMPTS
    Delays,            \* RETRY_DELAYS, in clock ticks
    BatchLimit,        \* drain_once's limit
    MaxMx,             \* bound: MX hosts of a recipient domain
    Failures,          \* how a remote server or the network may fail a send
    PartialAcceptance, \* whether a remote may accept some recipients of several
    DomainModes,       \* how the sending domain may be configured at the start
    RetryTargets,      \* statuses the operator aims `queue retry <id>` at
    PurgeTargets,      \* statuses the operator aims `queue purge` at
    MaxOps,            \* bound: operator commands
    MaxFaults,         \* bound: crashes, cancelled tasks, database errors
    MaxLag,            \* bound: how long overdue a row is remembered to be
    NoMessage

\* Mutant: deferred rows are left out of the claim's WHERE.
Claimable_mut == {"pending"}

Claimable == {"pending", "deferred"}
Rows      == {"pending", "sending", "sent", "failed", "deferred"}
Statuses  == Rows \cup {"absent", "purged"}

\* A failed send: what the remote said (0: it said nothing), whether the
\* exception raised for it has a `code`, whether the remote took the mail.
Failure == [says : Nat, carried : BOOLEAN, taken : BOOLEAN]

ASSUME QueueAssumption ==
    /\ NoMessage \notin Messages
    /\ Groups \in [Messages -> Seq(SUBSET Recipients)]
    /\ \A m \in Messages : Len(Groups[m]) > 0
    /\ MaxAttempts \in Nat \ {0}
    /\ BatchLimit \in Nat \ {0}
    /\ Delays \in Seq(Nat) /\ Len(Delays) > 0
    /\ MaxMx \in Nat /\ MaxOps \in Nat /\ MaxFaults \in Nat /\ MaxLag \in Nat
    /\ Failures \subseteq Failure
    /\ PartialAcceptance \in BOOLEAN
    /\ DomainModes \subseteq {"direct", "relay"}
    /\ RetryTargets \subseteq Rows
    /\ PurgeTargets \subseteq Rows

VARIABLES
    status,    \* email_queue.status; "absent" before enqueue, "purged" after delete
    attempts,  \* email_queue.attempts
    dueIn,     \* email_queue.next_retry, relative to the clock
    domain,    \* the sending domain: "direct", "relay" or "deleted"
    stage,     \* where each sender is in run / drain_once / send
    stopping,  \* Sender._stopping
    found,     \* ids the claim's SELECT returned
    batch,     \* claimed messages not yet marked
    current,   \* the message being attempted
    leg,       \* which recipient domain of it
    hosts,     \* MX hosts of that domain not yet tried
    code,      \* the SendResult: OK, or the code of the failure
    copies,    \* history: copies each recipient got of each message
    verdict,   \* history: the worst said of a recipient, since the operator's last retry
    ops,       \* operator commands so far
    faults     \* crashes, cancellations and database errors so far

rowVars    == <<status, attempts, dueIn>>
claimVars  == <<found, batch>>
sendVars   == <<current, leg, hosts, code>>
history    == <<copies, verdict>>
budgets    == <<ops, faults>>
vars == <<rowVars, domain, stage, stopping, claimVars, sendVars, history, budgets>>

OK        == 0       \* SendResult.ok
Transient == 451     \* TRANSIENT_CODE
CopyBound == 2       \* bound: copies are counted as none, one, several

Sending == {"batch", "relaying", "resolving", "connecting", "marking"}
Attempting == Sending \ {"batch"}
Stages == Sending \cup {"idle", "claiming", "down"}

\* "refused": a host said 5xx, and the sender went on to the next host or was told
\* by an exception without a code.  "never": the 5xx is what the attempt came to.
Verdicts == {"none", "later", "refused", "never"}

-----------------------------------------------------------------------------
(* Pure helpers of queue.py and sender.py. *)

\* Mutant: a 5xx is retried too.
classify_failure_mut(c) == IF c \in 400..599 THEN "deferred" ELSE "failed"

classify_failure(c) == IF c \in 400..499 THEN "deferred" ELSE "failed"

next_retry_at(n) ==
    LET index == IF n < 1 THEN 1 ELSE IF n > Len(Delays) THEN Len(Delays) ELSE n
    IN  Delays[index]

\* Mutant: a reply below 400 passes for success.
CodeFrom_mut(f) ==
    IF f.carried THEN IF f.says < 400 THEN OK ELSE f.says ELSE Transient

CodeFrom(f) == IF f.carried /\ f.says \in 200..599 THEN f.says ELSE Transient

\* Mutants: the last attempt is counted one too late; running out of attempts
\* writes no status.
FailureOutcome_mut(n, c) ==
    IF classify_failure(c) = "deferred" /\ n > MaxAttempts
    THEN "failed" ELSE classify_failure(c)
FailureOutcome(n, c) ==
    IF classify_failure(c) = "deferred" /\ n >= MaxAttempts
    THEN "failed" ELSE classify_failure(c)

Due == {m \in Messages : status[m] \in Claimable /\ dueIn[m] <= 0}

\* What ORDER BY next_retry LIMIT n may return: the n longest overdue rows.
OldestDue(S) ==
    /\ Cardinality(S) <= BatchLimit
    /\ S # Due => Cardinality(S) = BatchLimit
    /\ \A m \in S, n \in Due \ S : dueIn[m] <= dueIn[n]

AllRecipients(m) == UNION {Groups[m][i] : i \in 1..Len(Groups[m])}

\* The recipients at the domain in hand.  _send_direct passes over a recipient without
\* an "@" and fails a row with no other by a 550.  Router.route and Router._expand let none
\* through: only the reply relayed to a message that named no sender can be such a row,
\* and it is left out.
Group(s) == Groups[current[s]][leg[s]]

\* The recipients a remote that answers 250 really took, of those offered.
Accepted(R) == IF PartialAcceptance THEN SUBSET R \ {{}} ELSE {R}

Copied(m, R) ==
    [copies EXCEPT ![m] = [r \in Recipients |->
        IF r \in R /\ @[r] < CopyBound THEN @[r] + 1 ELSE @[r]]]

\* What a failed send that decides its attempt says of the recipients.
Word(f) ==
    IF f.says \notin 500..599 THEN "later"
    ELSE IF CodeFrom(f) = f.says THEN "never" ELSE "refused"

\* The same of the host a sender is connected to: the last one decides.
HostWord(s, f) == IF hosts[s] > 1 /\ Word(f) = "never" THEN "refused" ELSE Word(f)

Worst(v, w) ==
    IF "never" \in {v, w} THEN "never" ELSE IF "refused" \in {v, w} THEN "refused" ELSE w

Said(m, R, word) ==
    [verdict EXCEPT ![m] = [r \in Recipients |->
        IF r \in R THEN Worst(@[r], word) ELSE @[r]]]

-----------------------------------------------------------------------------
Init ==
    /\ status = [m \in Messages |-> "absent"]
    /\ attempts = [m \in Messages |-> 0]
    /\ dueIn = [m \in Messages |-> 0]
    /\ domain \in DomainModes
    /\ stage = [s \in Senders |-> "idle"]
    /\ stopping = [s \in Senders |-> FALSE]
    /\ found = [s \in Senders |-> {}]
    /\ batch = [s \in Senders |-> {}]
    /\ current = [s \in Senders |-> NoMessage]
    /\ leg = [s \in Senders |-> 1]
    /\ hosts = [s \in Senders |-> 0]
    /\ code = [s \in Senders |-> OK]
    /\ copies = [m \in Messages |-> [r \in Recipients |-> 0]]
    /\ verdict = [m \in Messages |-> [r \in Recipients |-> "none"]]
    /\ ops = 0
    /\ faults = 0

\* Queue.enqueue.
enqueue(m) ==
    /\ status[m] = "absent"
    /\ status' = [status EXCEPT ![m] = "pending"]
    /\ attempts' = [attempts EXCEPT ![m] = 0]
    /\ dueIn' = [dueIn EXCEPT ![m] = 0]
    /\ UNCHANGED <<domain, stage, stopping, claimVars, sendVars, history, budgets>>

\* The clock. Only rows waiting to be claimed are compared with it.
Tick ==
    /\ \E m \in Messages : status[m] \in Claimable /\ dueIn[m] > -MaxLag
    /\ dueIn' = [m \in Messages |->
            IF status[m] \in Claimable /\ dueIn[m] > -MaxLag
            THEN dueIn[m] - 1 ELSE dueIn[m]]
    /\ UNCHANGED <<status, attempts, domain, stage, stopping, claimVars, sendVars,
                   history, budgets>>

-----------------------------------------------------------------------------
(* One iteration of Sender.run. *)

\* Queue.claim, the SELECT. With nothing due the sender sleeps instead.
ClaimSelect(s) ==
    /\ stage[s] = "idle" /\ ~stopping[s]
    /\ Due # {}
    /\ \E S \in SUBSET Due : OldestDue(S) /\ found' = [found EXCEPT ![s] = S]
    /\ stage' = [stage EXCEPT ![s] = "claiming"]
    /\ UNCHANGED <<rowVars, domain, stopping, batch, sendVars, history, budgets>>

\* Queue.claim, the UPDATEs and the commit: each row found is taken if it is
\* still pending or deferred.  next_retry is not looked at again.
\* Mutant: the UPDATE does not repeat the condition of the SELECT.
Claimed_mut(s) == found[s]
Claimed(s) == {m \in found[s] : status[m] \in Claimable}

ClaimUpdate(s) ==
    /\ stage[s] = "claiming"
    /\ status' = [m \in Messages |-> IF m \in Claimed(s) THEN "sending" ELSE status[m]]
    /\ batch' = [batch EXCEPT ![s] = Claimed(s)]
    /\ found' = [found EXCEPT ![s] = {}]
    /\ stage' = [stage EXCEPT ![s] = IF Claimed(s) = {} THEN "idle" ELSE "batch"]
    /\ UNCHANGED <<attempts, dueIn, domain, stopping, sendVars, history, budgets>>

\* Sender.send up to the choice of a route: a deleted domain is permanent.
StartAttempt(s) ==
    /\ stage[s] = "batch"
    /\ \E m \in batch[s] : current' = [current EXCEPT ![s] = m]
    /\ leg' = [leg EXCEPT ![s] = 1]
    /\ code' = [code EXCEPT ![s] = IF domain = "deleted" THEN 550 ELSE OK]
    /\ stage' = [stage EXCEPT ![s] =
            CASE domain = "deleted" -> "marking"
              [] domain = "relay"   -> "relaying"
              [] domain = "direct"  -> "resolving"]
    /\ UNCHANGED <<rowVars, domain, stopping, claimVars, hosts, history, budgets>>

\* Sender._send_via_relay: one connection for every recipient.
RelayAccepts(s) ==
    /\ stage[s] = "relaying"
    /\ \E R \in Accepted(AllRecipients(current[s])) :
            copies' = Copied(current[s], R)
    /\ code' = [code EXCEPT ![s] = OK]
    /\ stage' = [stage EXCEPT ![s] = "marking"]
    /\ UNCHANGED <<rowVars, domain, stopping, claimVars, current, leg, hosts, verdict,
                   budgets>>

RelayFails(s) ==
    /\ stage[s] = "relaying"
    /\ \E f \in Failures :
        LET R == AllRecipients(current[s])
        IN  /\ copies' = Copied(current[s], IF f.taken THEN R ELSE {})
            /\ verdict' = Said(current[s], R, Word(f))
            /\ code' = [code EXCEPT ![s] = CodeFrom(f)]
    /\ stage' = [stage EXCEPT ![s] = "marking"]
    /\ UNCHANGED <<rowVars, domain, stopping, claimVars, current, leg, hosts, budgets>>

\* Mutant: a domain with no MX is skipped.
LookupMx_mut(s) ==
    /\ stage[s] = "resolving"
    /\ \E n \in 0..MaxMx :
        /\ hosts' = [hosts EXCEPT ![s] = n]
        /\ stage' = [stage EXCEPT ![s] = IF n = 0 THEN "marking" ELSE "connecting"]
        /\ code' = [code EXCEPT ![s] = OK]
    /\ UNCHANGED <<rowVars, domain, stopping, claimVars, current, leg, history, budgets>>

\* Sender._mx_hosts for the next recipient domain; no host is transient.
LookupMx(s) ==
    /\ stage[s] = "resolving"
    /\ \E n \in 0..MaxMx :
        /\ hosts' = [hosts EXCEPT ![s] = n]
        /\ stage' = [stage EXCEPT ![s] = IF n = 0 THEN "marking" ELSE "connecting"]
        /\ code' = [code EXCEPT ![s] = IF n = 0 THEN Transient ELSE OK]
        /\ verdict' = IF n = 0 THEN Said(current[s], Group(s), "later") ELSE verdict
    /\ UNCHANGED <<rowVars, domain, stopping, claimVars, current, leg, copies, budgets>>

\* Sender._send_direct, the next MX host accepts: on to the next domain.
HostAccepts(s) ==
    /\ stage[s] = "connecting"
    /\ \E R \in Accepted(Group(s)) : copies' = Copied(current[s], R)
    /\ hosts' = [hosts EXCEPT ![s] = 0]
    /\ IF leg[s] < Len(Groups[current[s]])
       THEN /\ leg' = [leg EXCEPT ![s] = @ + 1]
            /\ stage' = [stage EXCEPT ![s] = "resolving"]
       ELSE /\ stage' = [stage EXCEPT ![s] = "marking"]
            /\ UNCHANGED leg
    /\ code' = [code EXCEPT ![s] = OK]
    /\ UNCHANGED <<rowVars, domain, stopping, claimVars, current, verdict, budgets>>

\* The next MX host fails: try the one after it, whatever the failure was;
\* after the last one the whole message fails, with that host's code.
HostFails(s) ==
    /\ stage[s] = "connecting"
    /\ \E f \in Failures :
        /\ copies' = Copied(current[s], IF f.taken THEN Group(s) ELSE {})
        /\ verdict' = Said(current[s], Group(s), HostWord(s, f))
        /\ code' = [code EXCEPT ![s] = IF hosts[s] > 1 THEN OK ELSE CodeFrom(f)]
    /\ hosts' = [hosts EXCEPT ![s] = @ - 1]
    /\ stage' = [stage EXCEPT ![s] = IF hosts[s] > 1 THEN "connecting" ELSE "marking"]
    /\ UNCHANGED <<rowVars, domain, stopping, claimVars, current, leg, budgets>>

\* The end of _attempt: back to the rest of the batch.
Marked(s) ==
    /\ batch' = [batch EXCEPT ![s] = @ \ {current[s]}]
    /\ stage' = [stage EXCEPT ![s] = IF batch[s] = {current[s]} THEN "idle" ELSE "batch"]
    /\ current' = [current EXCEPT ![s] = NoMessage]
    /\ leg' = [leg EXCEPT ![s] = 1]
    /\ hosts' = [hosts EXCEPT ![s] = 0]
    /\ code' = [code EXCEPT ![s] = OK]

\* An exception leaves _attempt and drain_once: run() logs it and starts over,
\* and the rest of the batch stays "sending".
BatchLost(s) ==
    /\ batch' = [batch EXCEPT ![s] = {}]
    /\ found' = [found EXCEPT ![s] = {}]
    /\ current' = [current EXCEPT ![s] = NoMessage]
    /\ leg' = [leg EXCEPT ![s] = 1]
    /\ hosts' = [hosts EXCEPT ![s] = 0]
    /\ code' = [code EXCEPT ![s] = OK]

\* Queue.mark_sent: unconditional, and no error if the row is gone.
mark_sent(s) ==
    /\ stage[s] = "marking" /\ code[s] = OK
    /\ status' = [status EXCEPT ![current[s]] = IF @ = "purged" THEN @ ELSE "sent"]
    /\ Marked(s)
    /\ UNCHANGED <<attempts, dueIn, domain, stopping, found, history, budgets>>

\* Queue.mark_failed.
mark_failed(s) ==
    LET m == current[s]
        n == attempts[m] + 1
    IN  /\ stage[s] = "marking" /\ code[s] # OK
        /\ status[m] # "purged"
        /\ status' = [status EXCEPT ![m] = FailureOutcome(n, code[s])]
        /\ attempts' = [attempts EXCEPT ![m] = n]
        /\ dueIn' = [dueIn EXCEPT ![m] = next_retry_at(n)]
        /\ Marked(s)
        /\ UNCHANGED <<domain, stopping, found, history, budgets>>

\* Queue.mark_failed of a row that has been deleted raises LookupError.
MarkFailedMissing(s) ==
    /\ stage[s] = "marking" /\ code[s] # OK
    /\ status[current[s]] = "purged"
    /\ BatchLost(s)
    /\ stage' = [stage EXCEPT ![s] = "idle"]
    /\ UNCHANGED <<rowVars, domain, stopping, history, budgets>>

-----------------------------------------------------------------------------
(* Failures of the process around a sender, and its shutdown. *)

\* The database fails a transaction of claim, of send or of _attempt: it rolls
\* back and the exception reaches run().
DatabaseError(s) ==
    /\ faults < MaxFaults /\ faults' = faults + 1
    /\ stage[s] \in {"claiming", "batch", "marking"}
    /\ BatchLost(s)
    /\ stage' = [stage EXCEPT ![s] = "idle"]
    /\ UNCHANGED <<rowVars, domain, stopping, history, ops>>

\* Sender.stop, from Server.stop.
Stop(s) ==
    /\ faults < MaxFaults /\ faults' = faults + 1
    /\ stage[s] # "down" /\ ~stopping[s]
    /\ stopping' = [stopping EXCEPT ![s] = TRUE]
    /\ UNCHANGED <<rowVars, domain, stage, claimVars, sendVars, history, ops>>

\* run() sees the stop between two batches.
Exit(s) ==
    /\ stage[s] = "idle" /\ stopping[s]
    /\ stage' = [stage EXCEPT ![s] = "down"]
    /\ UNCHANGED <<rowVars, domain, stopping, claimVars, sendVars, history, budgets>>

\* The grace period ends and Server.stop cancels the task, or the process dies.
Killed(s) ==
    /\ BatchLost(s)
    /\ stage' = [stage EXCEPT ![s] = "down"]
    /\ UNCHANGED <<rowVars, domain, stopping, history, ops>>

Cancel(s) ==
    /\ stopping[s] /\ stage[s] \notin {"idle", "down"}
    /\ Killed(s)
    /\ UNCHANGED faults

Crash(s) ==
    /\ faults < MaxFaults /\ faults' = faults + 1
    /\ stage[s] # "down"
    /\ Killed(s)

\* Mutant: every row a dead sender left "sending" goes back in the queue.
Restart_mut(s) ==
    /\ stage[s] = "down"
    /\ stage' = [stage EXCEPT ![s] = "idle"]
    /\ stopping' = [stopping EXCEPT ![s] = FALSE]
    /\ status' = [m \in Messages |-> IF status[m] = "sending" THEN "pending" ELSE status[m]]
    /\ UNCHANGED <<attempts, dueIn, domain, claimVars, sendVars, history, budgets>>

\* The service starts again, with a new Sender.
Restart(s) ==
    /\ stage[s] = "down"
    /\ stage' = [stage EXCEPT ![s] = "idle"]
    /\ stopping' = [stopping EXCEPT ![s] = FALSE]
    /\ UNCHANGED <<rowVars, domain, claimVars, sendVars, history, budgets>>

-----------------------------------------------------------------------------
(* The operator: `lightr queue retry`, `lightr queue purge`, the sending     *)
(* domain's relay switched on or off, or the domain deleted.                 *)

Operator == ops < MaxOps /\ ops' = ops + 1

\* Queue.retry_now of each row in S.  A retry is the operator overruling what
\* the remote said, so the history of what it said starts again.
retry_now(S) ==
    /\ status' = [m \in Messages |-> IF m \in S THEN "pending" ELSE status[m]]
    /\ dueIn' = [m \in Messages |-> IF m \in S THEN 0 ELSE dueIn[m]]
    /\ verdict' = [m \in Messages |->
            IF m \in S THEN [r \in Recipients |-> "none"] ELSE verdict[m]]
    /\ UNCHANGED <<attempts, domain, stage, stopping, claimVars, sendVars, copies, faults>>

RetryOne(m) == Operator /\ status[m] \in RetryTargets /\ retry_now({m})

RetryFailed ==
    LET Failed == {m \in Messages : status[m] = "failed"}
    IN  Operator /\ Failed # {} /\ retry_now(Failed)

\* Queue.purge: the rows with one status, of which any may be old enough.
purge(st) ==
    /\ Operator /\ st \in PurgeTargets
    /\ \E S \in SUBSET {m \in Messages : status[m] = st} \ {{}} :
        status' = [m \in Messages |-> IF m \in S THEN "purged" ELSE status[m]]
    /\ UNCHANGED <<attempts, dueIn, domain, stage, stopping, claimVars, sendVars,
                   history, faults>>

SwitchRelay ==
    /\ Operator /\ domain # "deleted"
    /\ domain' = IF domain = "direct" THEN "relay" ELSE "direct"
    /\ UNCHANGED <<rowVars, stage, stopping, claimVars, sendVars, history, faults>>

DeleteDomain ==
    /\ Operator /\ domain # "deleted"
    /\ domain' = "deleted"
    /\ UNCHANGED <<rowVars, stage, stopping, claimVars, sendVars, history, faults>>

-----------------------------------------------------------------------------
SenderStep(s) ==
    \/ ClaimSelect(s) \/ ClaimUpdate(s) \/ StartAttempt(s)
    \/ RelayAccepts(s) \/ RelayFails(s)
    \/ LookupMx(s) \/ HostAccepts(s) \/ HostFails(s)
    \/ mark_sent(s) \/ mark_failed(s) \/ MarkFailedMissing(s)
    \/ Exit(s) \/ Restart(s)

FaultStep(s) == DatabaseError(s) \/ Stop(s) \/ Cancel(s) \/ Crash(s)

OperatorStep ==
    \/ \E m \in Messages : RetryOne(m)
    \/ RetryFailed
    \/ \E st \in Rows : purge(st)
    \/ SwitchRelay \/ DeleteDomain

Next ==
    \/ \E m \in Messages : enqueue(m)
    \/ Tick
    \/ \E s \in Senders : SenderStep(s) \/ FaultStep(s)
    \/ OperatorStep

Spec == Init /\ [][Next]_vars

\* run() loops for the life of the server, every await in it has a timeout, and
\* the service is restarted on failure; the clock advances.  Nothing is assumed
\* of clients, of the operator or of what a remote answers.
FairSpec == Spec /\ WF_vars(Tick) /\ \A s \in Senders : WF_vars(SenderStep(s))

-----------------------------------------------------------------------------
(* Properties. *)

\* Every variable keeps its type; a sender between attempts has no message.
TypeOK ==
    /\ status \in [Messages -> Statuses]
    /\ attempts \in [Messages -> Nat]
    /\ dueIn \in [Messages -> Int]
    /\ domain \in {"direct", "relay", "deleted"}
    /\ stage \in [Senders -> Stages]
    /\ stopping \in [Senders -> BOOLEAN]
    /\ found \in [Senders -> SUBSET Messages]
    /\ batch \in [Senders -> SUBSET Messages]
    /\ current \in [Senders -> Messages \cup {NoMessage}]
    /\ \A s \in Senders : stage[s] \in Attempting => current[s] \in batch[s]
    /\ leg \in [Senders -> Nat \ {0}]
    /\ hosts \in [Senders -> Int]
    /\ code \in [Senders -> Nat]
    /\ copies \in [Messages -> [Recipients -> 0..CopyBound]]
    /\ verdict \in [Messages -> [Recipients -> Verdicts]]
    /\ ops \in Nat /\ faults \in Nat

\* queue.py, "Claiming a row before sending it is what makes that true when
\* more than one sender runs": no message is in the hands of two senders, and
\* nothing but its holder moves a held row on.
ClaimIsExclusive ==
    /\ \A s, t \in Senders : s # t => batch[s] \cap batch[t] = {}
    /\ \A s \in Senders : \A m \in batch[s] : status[m] \in {"sending", "purged"}

\* queue.py, "a failed send is retried instead of lost": a row marked
\* "sending" is in the batch of a sender that will record how it went.
\* With a database error or a crash the code does not keep this (README, section 6).
SendingIsHeld ==
    \A m \in Messages : status[m] = "sending" => \E s \in Senders : m \in batch[s]

\* queue.py, "A message is never delivered twice": to no recipient, whatever
\* the retries, the crashes and the operator's commands.
NeverDeliveredTwice ==
    \A m \in Messages, r \in Recipients : copies[m][r] <= 1

\* A row says "sent" only if every recipient of the message has a copy.
SentMeansDelivered ==
    \A m \in Messages : status[m] = "sent" =>
        \A r \in AllRecipients(m) : copies[m][r] >= 1

\* Whether a message is being offered to somebody of whom a remote has said `word`.
Offered(s, word) ==
    \/ stage[s] = "connecting" /\ \E r \in Group(s) : verdict[current[s]][r] = word
    \/ /\ stage[s] = "relaying"
       /\ \E r \in AllRecipients(current[s]) : verdict[current[s]][r] = word

\* queue.py, "A permanent failure must not be retried": when a 5xx is what an
\* attempt came to, no sender offers the message to that recipient again, whoever
\* else had the row in hand, unless the operator asked.  It says nothing of a 5xx
\* the sender does not go by (PermanentIsHeeded).
PermanentIsNotRetried == \A s \in Senders : ~Offered(s, "never")

\* The same of every 5xx, "the remote server saying never" (queue.py:11).
\* The code does not keep this (README, section 6).
PermanentIsHeeded == \A s \in Senders : ~Offered(s, "never") /\ ~Offered(s, "refused")

\* RETRY_DELAYS and max_attempts: a message is given up after MaxAttempts
\* failures; each `queue retry` buys it at most one more attempt.
RetriesAreBounded ==
    \A m \in Messages :
        /\ attempts[m] <= MaxAttempts + ops
        /\ status[m] = "deferred" => attempts[m] < MaxAttempts

\* No late answer of a sender rewrites the end of a message: only the operator
\* takes a row out of "sent" or "failed".
SettledIsFinal ==
    [][\A m \in Messages :
        status[m] \in {"sent", "failed"} /\ status'[m] # status[m] => ops' = ops + 1]_vars

\* Every message queued is sent or given up in the end.
EventuallySettled ==
    \A m \in Messages :
        status[m] = "pending" ~> status[m] \in {"sent", "failed", "purged"}

\* The abstract view of the queue: what its owner knows of each message.
Fate == [m \in Messages |->
            IF status[m] \in {"pending", "sending", "deferred"}
            THEN "accepted" ELSE status[m]]

Outbox == INSTANCE MailOutbox WITH
            Envelope <- [m \in Messages |-> AllRecipients(m)], fate <- Fate

\* The queue keeps the promise of MailOutbox: everyone once and "sent", or
\* nobody and "failed", through every retry, crash and operator command.
KeepsThePromise == Outbox!Spec

=============================================================================
