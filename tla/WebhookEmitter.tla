--------------------------- MODULE WebhookEmitter ---------------------------
(***************************************************************************)
(* Webhook events: the background emitter each SMTP handler owns           *)
(* (webhooks/emitter.py), what one delivery does and records               *)
(* (webhooks/delivery.py), the operator's commands on hooks, and the drain *)
(* at shutdown (server.py).                                                *)
(*                                                                         *)
(* An action is what one task does between two awaits, or one database     *)
(* transaction.  A payload, its signature and the vetting of the URL are   *)
(* left out; the secret a delivery is signed with is kept, as the number   *)
(* of the rotation that made it.                                           *)
(***************************************************************************)
EXTENDS Integers, FiniteSets, Sequences

CONSTANTS
    Events,         \* mail transactions, each emitting one event
    Hooks,          \* webhook ids
    Emitters,       \* the handlers of :25 and :587 have one each
    Owner,          \* Owner[e]: the emitter e is fired on
    Configured,     \* how the hooks may be configured at the start
    Subscribed,     \* Subscribed[h]: the events hook h wants while active
    MaxConcurrent,  \* MAX_CONCURRENT
    Answers,        \* how a delivery may turn out
    MaxOps,         \* bound: operator commands
    MaxRotations,   \* bound: rotations of one secret
    MaxFaults       \* bound: database errors and crashes

AllAnswers == {"accepted", "refused", "broken", "raised"}

ASSUME EmitterAssumption ==
    /\ IsFiniteSet(Events) /\ IsFiniteSet(Hooks)
    /\ "none" \notin Emitters /\ "ping" \notin Events
    /\ Owner \in [Events -> Emitters]
    /\ Subscribed \in [Hooks -> SUBSET Events]
    /\ Configured \subseteq [Hooks -> {"none", "active", "disabled"}]
    /\ MaxConcurrent \in Nat \ {0}
    /\ Answers \subseteq AllAnswers
    /\ MaxOps \in Nat /\ MaxRotations \in Nat /\ MaxFaults \in Nat

VARIABLES
    hook,      \* webhooks.active; "none" before create, "deleted" after delete
    secret,    \* webhooks.secret: how often it was rotated
    failures,  \* webhooks.failure_count
    log,       \* webhook_events of each hook, in the order they were written
    task,      \* each event's _emit task
    job,       \* each event's _deliver_one for each hook
    answer,    \* the Attempt a job or a ping has in hand
    signing,   \* the secret in the Webhook a job holds
    permits,   \* each emitter's semaphore
    ping,      \* the webhook test of each hook: "idle", "posting", "recording"
    phase,     \* Server: "up", "closing", "draining", "down"
    draining,  \* the emitter drain() is waiting on, or none
    drained,   \* emitters whose drain() has begun
    waited,    \* the tasks drain() took its snapshot of
    received,  \* history: what receivers got
    excused,   \* history: events a crash, a deadline or lateness may cost
    ops, faults

tables  == <<hook, secret, failures, log>>
work    == <<task, job, answer, signing, permits>>
server  == <<phase, draining, drained, waited>>
history == <<received, excused>>
budgets == <<ops, faults>>
vars == <<tables, work, ping, server, history, budgets>>

NoEmitter == "none"

JobStages == {"none", "waiting", "posting", "recording", "logged", "unlogged", "lost"}
Settled   == {"none", "logged", "unlogged", "lost"}

\* The events and the webhook test that may write to a hook's log.
Sources == Events \cup {"ping"}

Exists(h) == hook[h] \in {"active", "disabled"}

Unfinished(e) ==
    \/ task[e] = "loading"
    \/ task[e] = "delivering" /\ \E h \in Hooks : job[e][h] \notin Settled

Posting(x) == {p \in Events \X Hooks : Owner[p[1]] = x /\ job[p[1]][p[2]] = "posting"}

\* Attempt.retryable decides between the two ways a row can fail.
Status(a) == CASE a = "accepted" -> "delivered"
               [] a = "broken"   -> "deferred"
               [] a = "refused"  -> "failed"

-----------------------------------------------------------------------------
Init ==
    /\ hook \in Configured
    /\ secret = [h \in Hooks |-> 0]
    /\ failures = [h \in Hooks |-> 0]
    /\ log = [h \in Hooks |-> <<>>]
    /\ task = [e \in Events |-> "none"]
    /\ job = [e \in Events |-> [h \in Hooks |-> "none"]]
    /\ answer = [e \in Sources |-> [h \in Hooks |-> "none"]]
    /\ signing = [e \in Events |-> [h \in Hooks |-> 0]]
    /\ permits = [x \in Emitters |-> MaxConcurrent]
    /\ ping = [h \in Hooks |-> "idle"]
    /\ phase = "up"
    /\ draining = NoEmitter
    /\ drained = {}
    /\ waited = {}
    /\ received = {}
    /\ excused = {}
    /\ ops = 0 /\ faults = 0

-----------------------------------------------------------------------------
(* Emitter. *)

\* Emitter.emit, from a mail transaction. A session that outlives the close of
\* its listener may still call it, even after drain() took its snapshot.
emit(e) ==
    /\ task[e] = "none" /\ phase # "down"
    /\ task' = [task EXCEPT ![e] = "loading"]
    /\ excused' = IF Owner[e] \in drained THEN excused \cup {e} ELSE excused
    /\ UNCHANGED <<tables, job, answer, signing, permits, ping, server, received,
                   budgets>>

\* WebhookRepo.list_for and Webhook.wants.
Wanting(e) == {h \in Hooks : hook[h] = "active" /\ e \in Subscribed[h]}

\* The first half of _emit: the hooks are read once.
LoadHooks(e) ==
    /\ task[e] = "loading"
    /\ task' = [task EXCEPT ![e] = "delivering"]
    /\ job' = [job EXCEPT ![e] = [h \in Hooks |->
            IF h \in Wanting(e) THEN "waiting" ELSE "none"]]
    /\ signing' = [signing EXCEPT ![e] = [h \in Hooks |->
            IF h \in Wanting(e) THEN secret[h] ELSE 0]]
    /\ UNCHANGED <<tables, answer, permits, ping, server, history, budgets>>

\* The hooks cannot be read: the event is given up, with a line in the log.
LoadFails(e) ==
    /\ faults < MaxFaults /\ faults' = faults + 1
    /\ task[e] = "loading"
    /\ task' = [task EXCEPT ![e] = "delivering"]
    /\ UNCHANGED <<tables, job, answer, signing, permits, ping, server, history, ops>>

\* Mutant: the semaphore is not taken.
Acquire_mut(e, h) ==
    /\ job[e][h] = "waiting"
    /\ job' = [job EXCEPT ![e][h] = "posting"]
    /\ UNCHANGED <<tables, task, answer, signing, permits, ping, server, history,
                   budgets>>

\* _deliver_one takes a permit and begins the POST.
Acquire(e, h) ==
    /\ job[e][h] = "waiting"
    /\ permits[Owner[e]] > 0
    /\ permits' = [permits EXCEPT ![Owner[e]] = @ - 1]
    /\ job' = [job EXCEPT ![e][h] = "posting"]
    /\ UNCHANGED <<tables, task, answer, signing, ping, server, history, budgets>>

\* Mutant: the permit is not given back.
Post_mut(e, h) ==
    /\ job[e][h] = "posting"
    /\ job' = [job EXCEPT ![e][h] = "recording"]
    /\ \E a \in Answers \ {"raised"} : answer' = [answer EXCEPT ![e][h] = a]
    /\ UNCHANGED <<tables, task, signing, permits, ping, server, history, budgets>>

\* WebhookDeliverer.deliver returns: 2xx, a refusal (4xx, 3xx or a URL that is
\* not allowed), or 5xx, 429 and silence.  An answer that does not come back
\* may have been given.  Whatever vet() raises besides SSRFError passes through
\* the gather unseen, and nothing is recorded.
Post(e, h) ==
    /\ job[e][h] = "posting"
    /\ permits' = [permits EXCEPT ![Owner[e]] = @ + 1]
    /\ \E a \in Answers :
        /\ answer' = [answer EXCEPT ![e][h] = a]
        /\ job' = [job EXCEPT ![e][h] = IF a = "raised" THEN "unlogged" ELSE "recording"]
        /\ \/ a \in {"accepted", "refused", "broken"} /\ received' = received \cup {<<e, h>>}
           \/ a \in {"refused", "broken", "raised"} /\ UNCHANGED received
    /\ UNCHANGED <<tables, task, signing, ping, server, excused, budgets>>

\* Mutants: a disabled hook is not written to; a success keeps the count.
CanRecord_mut(h) == hook[h] = "active"
FailuresAfter_mut(h, a) == IF a = "accepted" THEN failures[h] ELSE failures[h] + 1

\* webhook_events.webhook_id is a foreign key.
CanRecord(h) == Exists(h)

FailuresAfter(h, a) == IF a = "accepted" THEN 0 ELSE failures[h] + 1

\* WebhookRepo.record: the row and the counter, in one transaction.
record(e, h) ==
    /\ log' = [log EXCEPT ![h] = Append(@, [event |-> e, status |-> Status(answer[e][h])])]
    /\ failures' = [failures EXCEPT ![h] = FailuresAfter(h, answer[e][h])]
    /\ UNCHANGED <<hook, secret>>

\* The second half of _deliver_one. A hook deleted meanwhile cannot be logged.
Record(e, h) ==
    /\ job[e][h] = "recording"
    /\ IF CanRecord(h)
       THEN record(e, h) /\ job' = [job EXCEPT ![e][h] = "logged"]
       ELSE UNCHANGED tables /\ job' = [job EXCEPT ![e][h] = "unlogged"]
    /\ answer' = [answer EXCEPT ![e][h] = "none"]
    /\ UNCHANGED <<task, signing, permits, ping, server, history, budgets>>

\* The database refuses the record: logged, and the delivery is forgotten.
RecordFails(e, h) ==
    /\ faults < MaxFaults /\ faults' = faults + 1
    /\ job[e][h] = "recording"
    /\ job' = [job EXCEPT ![e][h] = "unlogged"]
    /\ answer' = [answer EXCEPT ![e][h] = "none"]
    /\ excused' = excused \cup {e}
    /\ UNCHANGED <<tables, task, signing, permits, ping, server, received, ops>>

-----------------------------------------------------------------------------
(* The operator, over the CLI or the HTTP API. *)

Operator == ops < MaxOps /\ ops' = ops + 1

\* WebhookRepo.create.
create(h) ==
    /\ Operator /\ hook[h] = "none"
    /\ hook' = [hook EXCEPT ![h] = "active"]
    /\ UNCHANGED <<secret, failures, log, work, ping, server, history, faults>>

\* WebhookRepo.update of active.
enable(h) ==
    /\ Operator /\ hook[h] = "disabled"
    /\ hook' = [hook EXCEPT ![h] = "active"]
    /\ UNCHANGED <<secret, failures, log, work, ping, server, history, faults>>

disable(h) ==
    /\ Operator /\ hook[h] = "active"
    /\ hook' = [hook EXCEPT ![h] = "disabled"]
    /\ UNCHANGED <<secret, failures, log, work, ping, server, history, faults>>

rotate_secret(h) ==
    /\ Operator /\ Exists(h) /\ secret[h] < MaxRotations
    /\ secret' = [secret EXCEPT ![h] = @ + 1]
    /\ UNCHANGED <<hook, failures, log, work, ping, server, history, faults>>

\* WebhookRepo.delete: the log, then the hook, in one transaction.
delete(h) ==
    /\ Operator /\ Exists(h)
    /\ hook' = [hook EXCEPT ![h] = "deleted"]
    /\ log' = [log EXCEPT ![h] = <<>>]
    /\ UNCHANGED <<secret, failures, work, ping, server, history, faults>>

\* test_webhook: the same delivery inside the request's transaction, with no
\* permit and no look at `active`.
StartPing(h) ==
    /\ Operator /\ Exists(h) /\ ping[h] = "idle" /\ phase # "down"
    /\ ping' = [ping EXCEPT ![h] = "posting"]
    /\ UNCHANGED <<tables, work, server, history, faults>>

PingAnswered(h) ==
    /\ ping[h] = "posting"
    /\ \E a \in Answers :
        /\ answer' = [answer EXCEPT !["ping"][h] = a]
        /\ ping' = [ping EXCEPT ![h] = IF a = "raised" THEN "idle" ELSE "recording"]
    /\ UNCHANGED <<tables, task, job, signing, permits, server, history, budgets>>

RecordPing(h) ==
    /\ ping[h] = "recording"
    /\ IF CanRecord(h) THEN record("ping", h) ELSE UNCHANGED tables
    /\ ping' = [ping EXCEPT ![h] = "idle"]
    /\ answer' = [answer EXCEPT !["ping"][h] = "none"]
    /\ UNCHANGED <<task, job, signing, permits, server, history, budgets>>

-----------------------------------------------------------------------------
(* Server.stop, a crash and the next start. *)

\* The listeners close, and their sessions are waited for a few seconds.
Stop ==
    /\ phase = "up"
    /\ phase' = "closing"
    /\ UNCHANGED <<tables, work, ping, draining, drained, waited, history, budgets>>

\* Mutant: only deliveries already posting are waited for.
InFlight_mut(x) ==
    {e \in Events : Owner[e] = x /\ \E h \in Hooks : job[e][h] = "posting"}

\* Emitter._tasks.
InFlight(x) == {e \in Events : Owner[e] = x /\ Unfinished(e)}

\* Emitter.drain, of one emitter after the other.
StartDrain(x) ==
    /\ phase \in {"closing", "draining"} /\ draining = NoEmitter
    /\ x \notin drained
    /\ phase' = "draining"
    /\ drained' = drained \cup {x}
    /\ draining' = x
    /\ waited' = InFlight(x)
    /\ UNCHANGED <<tables, work, ping, history, budgets>>

\* Its tasks are done, or its time is up.
EndDrain ==
    /\ draining # NoEmitter
    /\ excused' = excused \cup {e \in waited : Unfinished(e)}
    /\ draining' = NoEmitter
    /\ waited' = {}
    /\ UNCHANGED <<tables, work, ping, phase, drained, received, budgets>>

\* The process ends: its tasks and the semaphores end with it.
Die ==
    /\ phase' = "down" /\ draining' = NoEmitter /\ drained' = {} /\ waited' = {}
    /\ task' = [e \in Events |-> IF Unfinished(e) THEN "lost" ELSE task[e]]
    /\ job' = [e \in Events |-> [h \in Hooks |->
            IF job[e][h] \in Settled THEN job[e][h] ELSE "lost"]]
    /\ answer' = [e \in Sources |-> [h \in Hooks |-> "none"]]
    /\ permits' = [x \in Emitters |-> MaxConcurrent]
    /\ ping' = [h \in Hooks |-> "idle"]
    /\ UNCHANGED <<tables, signing, received>>

Exit ==
    /\ phase = "draining" /\ draining = NoEmitter /\ drained = Emitters
    /\ Die
    /\ UNCHANGED <<excused, budgets>>

Crash ==
    /\ faults < MaxFaults /\ faults' = faults + 1
    /\ phase # "down"
    /\ Die
    /\ excused' = excused \cup {e \in Events : Unfinished(e)}
    /\ UNCHANGED ops

Restart ==
    /\ phase = "down"
    /\ phase' = "up"
    /\ UNCHANGED <<tables, work, ping, draining, drained, waited, history, budgets>>

-----------------------------------------------------------------------------
Deliver(e, h) == Acquire(e, h) \/ Post(e, h) \/ Record(e, h)

OperatorStep(h) ==
    \/ create(h) \/ enable(h) \/ disable(h) \/ rotate_secret(h) \/ delete(h)
    \/ StartPing(h)

PingStep(h) == PingAnswered(h) \/ RecordPing(h)

ServerStep ==
    \/ Stop \/ (\E x \in Emitters : StartDrain(x)) \/ EndDrain \/ Exit \/ Crash \/ Restart

Next ==
    \/ \E e \in Events : emit(e) \/ LoadHooks(e) \/ LoadFails(e)
    \/ \E e \in Events, h \in Hooks : Deliver(e, h) \/ RecordFails(e, h)
    \/ \E h \in Hooks : OperatorStep(h) \/ PingStep(h)
    \/ ServerStep

Spec == Init /\ [][Next]_vars

\* The event loop runs every task that can run; each await of a POST has a
\* timeout.
FairSpec ==
    /\ Spec
    /\ \A e \in Events : WF_vars(LoadHooks(e))
    /\ \A e \in Events, h \in Hooks :
        WF_vars(Acquire(e, h)) /\ WF_vars(Post(e, h)) /\ WF_vars(Record(e, h))

-----------------------------------------------------------------------------
(* Properties. *)

\* Every variable keeps its type.
TypeOK ==
    /\ hook \in [Hooks -> {"none", "active", "disabled", "deleted"}]
    /\ secret \in [Hooks -> 0..MaxRotations]
    /\ failures \in [Hooks -> Nat]
    /\ log \in [Hooks -> Seq([event : Sources, status : {"delivered", "deferred", "failed"}])]
    /\ task \in [Events -> {"none", "loading", "delivering", "lost"}]
    /\ job \in [Events -> [Hooks -> JobStages]]
    /\ answer \in [Sources -> [Hooks -> AllAnswers \cup {"none"}]]
    /\ \A e \in Events, h \in Hooks :
        job[e][h] = "recording" => answer[e][h] \in AllAnswers \ {"raised"}
    /\ \A h \in Hooks :
        ping[h] = "recording" => answer["ping"][h] \in AllAnswers \ {"raised"}
    /\ signing \in [Events -> [Hooks -> 0..MaxRotations]]
    /\ permits \in [Emitters -> 0..MaxConcurrent]
    /\ ping \in [Hooks -> {"idle", "posting", "recording"}]
    /\ phase \in {"up", "closing", "draining", "down"}
    /\ draining \in Emitters \cup {NoEmitter}
    /\ drained \subseteq Emitters
    /\ waited \subseteq Events
    /\ received \subseteq Events \X Hooks
    /\ excused \subseteq Events
    /\ ops \in Nat /\ faults \in Nat

\* emitter.py, "a burst of mail to a slow endpoint would open an unbounded
\* number of connections": an emitter posts at most MAX_CONCURRENT at a time,
\* and no answer, exception or restart loses or forges a permit.
ConnectionsAreCapped ==
    \A x \in Emitters : permits[x] + Cardinality(Posting(x)) = MaxConcurrent

\* failure_count is the number of failures since the last success in the log,
\* however deliveries and tests of the same hook interleave.
FailureCountMatchesLog ==
    \A h \in Hooks : Exists(h) =>
        LET Streak == {i \in 1..Len(log[h]) :
                \A j \in i..Len(log[h]) : log[h][j].status # "delivered"}
        IN  failures[h] = Cardinality(Streak)

\* "Did they get it?": what a receiver got is in the log of its hook once the
\* delivery is over, unless the hook is gone or the process or database failed.
ReceivedIsLogged ==
    \A e \in Events, h \in Hooks :
        /\ <<e, h>> \in received /\ job[e][h] \in Settled
        /\ Exists(h) /\ e \notin excused
        => \E i \in 1..Len(log[h]) : log[h][i].event = e

\* server.py, "dropping them here would silently lose events on every
\* restart": an event emitted before the drain of its emitter began is lost only
\* to a crash or to the drain's deadline.
CleanStopLosesNothing == \A e \in Events : task[e] = "lost" => e \in excused

\* A delivery is over in the end: none waits for a permit for ever.
EventuallyOver ==
    \A e \in Events : task[e] = "loading" ~> ~Unfinished(e)

\* delivery.py, "a failed delivery should be retried rather than lost": a
\* deferred row does not stay the last word on its event.
\* The code does not keep this (README, section 6).
DeferredIsRetried ==
    \A h \in Hooks, e \in Events :
        (\E i \in 1..Len(log[h]) : log[h][i] = [event |-> e, status |-> "deferred"])
        ~> \/ ~Exists(h)
           \/ \E i \in 1..Len(log[h]) :
                log[h][i].event = e /\ log[h][i].status \in {"delivered", "failed"}

=============================================================================
