------------------------ MODULE WebhookEmitterProofs ------------------------
(***************************************************************************)
(* Proofs about WebhookEmitter, for any number of events, hooks, emitters, *)
(* permits, commands and faults: the cap on connections, the agreement of  *)
(* the log with the failure counter, with what receivers got, and what a   *)
(* stop may cost.                                                          *)
(***************************************************************************)
EXTENDS WebhookEmitter, FiniteSetTheorems, TLAPS

-----------------------------------------------------------------------------
(* Permits. *)

\* One delivery goes from one stage to another; the others stay where they are.
Moves(e, h, stage) == job' = [job EXCEPT ![e][h] = stage]

LEMMA OneJob ==
    ASSUME NEW e \in Events, NEW h \in Hooks, NEW stage \in JobStages, Moves(e, h, stage),
           job \in [Events -> [Hooks -> JobStages]]
    PROVE  /\ job' \in [Events -> [Hooks -> JobStages]]
           /\ job'[e][h] = stage
           /\ \A f \in Events, k \in Hooks : f # e \/ k # h => job'[f][k] = job[f][k]
  BY DEF Moves

\* Those that are posting are finitely many.
LEMMA PostingFinite ==
    ASSUME NEW x
    PROVE  /\ IsFiniteSet(Posting(x)) /\ Cardinality(Posting(x)) \in Nat
           /\ \A e \in Events, h \in Hooks :
                <<e, h>> \in Posting(x) <=> Owner[e] = x /\ job[e][h] = "posting"
  <1>1. IsFiniteSet(Events \X Hooks)
    BY EmitterAssumption, FS_Product
  <1>2. Posting(x) \subseteq Events \X Hooks
    BY DEF Posting
  <1>3. IsFiniteSet(Posting(x))
    BY <1>1, <1>2, FS_Subset
  <1>4. \A e \in Events, h \in Hooks :
          <<e, h>> \in Posting(x) <=> Owner[e] = x /\ job[e][h] = "posting"
    BY DEF Posting
  <1> QED BY <1>3, <1>4, FS_CardinalityType

\* Deliveries that neither begin nor end a POST leave the cap alone.
LEMMA SamePosting ==
    ASSUME \A e \in Events, h \in Hooks : job'[e][h] = "posting" <=> job[e][h] = "posting",
           permits' = permits, ConnectionsAreCapped
    PROVE  ConnectionsAreCapped'
  <1>1. \A x : Posting(x)' = Posting(x)
    BY DEF Posting
  <1> QED BY <1>1 DEF ConnectionsAreCapped

\* A POST begins with a permit of its emitter.
LEMMA PostingBegins ==
    ASSUME NEW e \in Events, NEW h \in Hooks, Moves(e, h, "posting"), job[e][h] # "posting",
           permits' = [permits EXCEPT ![Owner[e]] = @ - 1],
           job \in [Events -> [Hooks -> JobStages]],
           permits \in [Emitters -> 0..MaxConcurrent], ConnectionsAreCapped
    PROVE  ConnectionsAreCapped'
  <1> SUFFICES ASSUME NEW x \in Emitters
               PROVE  permits'[x] + Cardinality(Posting(x)') = MaxConcurrent
    BY DEF ConnectionsAreCapped
  <1>1. permits[x] + Cardinality(Posting(x)) = MaxConcurrent
    BY DEF ConnectionsAreCapped
  <1>2. /\ job'[e][h] = "posting"
        /\ \A f \in Events, k \in Hooks : f # e \/ k # h => job'[f][k] = job[f][k]
    BY OneJob DEF JobStages
  <1>3. CASE x = Owner[e]
    <2>1. Posting(x)' = Posting(x) \cup {<<e, h>>}
      BY <1>2, <1>3 DEF Posting
    <2>2. <<e, h>> \notin Posting(x)
      BY PostingFinite
    <2>3. Cardinality(Posting(x) \cup {<<e, h>>}) = Cardinality(Posting(x)) + 1
      BY <2>2, PostingFinite, FS_AddElement
    <2> QED BY <1>1, <1>3, <2>1, <2>3, PostingFinite, EmitterAssumption
  <1>4. CASE x # Owner[e]
    <2>1. Posting(x)' = Posting(x)
      BY <1>2, <1>4 DEF Posting
    <2> QED BY <1>1, <1>4, <2>1
  <1> QED BY <1>3, <1>4

\* The end of a POST gives the permit back, whatever the answer.
LEMMA PostingEnds ==
    ASSUME NEW e \in Events, NEW h \in Hooks, NEW stage \in JobStages \ {"posting"},
           Moves(e, h, stage), job[e][h] = "posting",
           permits' = [permits EXCEPT ![Owner[e]] = @ + 1],
           job \in [Events -> [Hooks -> JobStages]],
           permits \in [Emitters -> 0..MaxConcurrent], ConnectionsAreCapped
    PROVE  ConnectionsAreCapped' /\ permits' \in [Emitters -> 0..MaxConcurrent]
  <1>1. \A x \in Emitters : permits[x] + Cardinality(Posting(x)) = MaxConcurrent
    BY DEF ConnectionsAreCapped
  <1>2. /\ job'[e][h] # "posting"
        /\ \A f \in Events, k \in Hooks : f # e \/ k # h => job'[f][k] = job[f][k]
    BY OneJob
  <1>3. ASSUME NEW x \in Emitters
        PROVE  permits'[x] + Cardinality(Posting(x)') = MaxConcurrent
    <2>1. CASE x = Owner[e]
      <3>1. Posting(x)' = Posting(x) \ {<<e, h>>}
        BY <1>2, <2>1 DEF Posting
      <3>2. <<e, h>> \in Posting(x)
        BY <2>1, PostingFinite
      <3>3. Cardinality(Posting(x) \ {<<e, h>>}) = Cardinality(Posting(x)) - 1
        BY <3>2, PostingFinite, FS_RemoveElement
      <3> QED BY <1>1, <2>1, <3>1, <3>3, PostingFinite, EmitterAssumption
    <2>2. CASE x # Owner[e]
      <3>1. Posting(x)' = Posting(x)
        BY <1>2, <2>2 DEF Posting
      <3> QED BY <1>1, <2>2, <3>1
    <2> QED BY <2>1, <2>2
  <1>4. permits[Owner[e]] + 1 \in 0..MaxConcurrent
    <2>1. Owner[e] \in Emitters
      BY EmitterAssumption
    <2>2. <<e, h>> \in Posting(Owner[e])
      BY PostingFinite
    <2>3. Cardinality(Posting(Owner[e])) \in Nat /\ Cardinality(Posting(Owner[e])) # 0
      BY <2>2, PostingFinite, FS_EmptySet
    <2> QED BY <1>1, <2>1, <2>3, EmitterAssumption
  <1>5. permits' \in [Emitters -> 0..MaxConcurrent]
    BY <1>4
  <1> QED BY <1>3, <1>5 DEF ConnectionsAreCapped

-----------------------------------------------------------------------------
(* Types, and the cap. *)

Entries == [event : Sources, status : {"delivered", "deferred", "failed"}]

\* TypeOK, by the action that disturbs it.
TablesTyped ==
    /\ hook \in [Hooks -> {"none", "active", "disabled", "deleted"}]
    /\ secret \in [Hooks -> 0..MaxRotations]
    /\ failures \in [Hooks -> Nat]
    /\ log \in [Hooks -> Seq(Entries)]

AnswersTyped ==
    /\ answer \in [Sources -> [Hooks -> AllAnswers \cup {"none"}]]
    /\ \A e \in Events, h \in Hooks :
        job[e][h] = "recording" => answer[e][h] \in AllAnswers \ {"raised"}
    /\ \A h \in Hooks :
        ping[h] = "recording" => answer["ping"][h] \in AllAnswers \ {"raised"}

WorkTyped ==
    /\ task \in [Events -> {"none", "loading", "delivering", "lost"}]
    /\ job \in [Events -> [Hooks -> JobStages]]
    /\ signing \in [Events -> [Hooks -> 0..MaxRotations]]
    /\ permits \in [Emitters -> 0..MaxConcurrent]
    /\ ping \in [Hooks -> {"idle", "posting", "recording"}]

ServerTyped ==
    /\ phase \in {"up", "closing", "draining", "down"}
    /\ draining \in Emitters \cup {NoEmitter}
    /\ drained \subseteq Emitters
    /\ waited \subseteq Events
    /\ received \subseteq Events \X Hooks
    /\ excused \subseteq Events
    /\ ops \in Nat /\ faults \in Nat

Typed == TablesTyped /\ AnswersTyped /\ WorkTyped /\ ServerTyped

LEMMA TypeParts == TypeOK <=> Typed
  <1>1. TypeOK => TablesTyped /\ AnswersTyped
    BY DEF TypeOK, TablesTyped, AnswersTyped, Entries
  <1>2. TypeOK => WorkTyped /\ ServerTyped
    BY DEF TypeOK, WorkTyped, ServerTyped
  <1>3. Typed => TypeOK
    BY DEF Typed, TypeOK, TablesTyped, AnswersTyped, WorkTyped, ServerTyped, Entries
  <1> QED BY <1>1, <1>2, <1>3 DEF Typed

\* WebhookRepo.record writes an entry.
LEMMA RecordType ==
    ASSUME TablesTyped, NEW e \in Sources, NEW h \in Hooks, record(e, h),
           answer[e][h] \in AllAnswers \ {"raised"}
    PROVE  /\ TablesTyped' /\ hook' = hook /\ secret' = secret
           /\ log'[h] = Append(log[h], [event |-> e, status |-> Status(answer[e][h])])
           /\ Status(answer[e][h]) \in {"delivered", "deferred", "failed"}
           /\ \A k \in Hooks \ {h} : log'[k] = log[k] /\ failures'[k] = failures[k]
           /\ failures'[h] = FailuresAfter(h, answer[e][h])
  <1>1. Status(answer[e][h]) \in {"delivered", "deferred", "failed"}
    BY DEF Status, AllAnswers
  <1> DEFINE entry == [event |-> e, status |-> Status(answer[e][h])]
  <1>2. entry \in Entries
    BY <1>1 DEF Entries
  <1>3. log \in [Hooks -> Seq(Entries)] /\ failures \in [Hooks -> Nat]
    BY DEF TablesTyped
  <1>4. /\ log' = [log EXCEPT ![h] = Append(@, entry)]
        /\ failures' = [failures EXCEPT ![h] = FailuresAfter(h, answer[e][h])]
        /\ hook' = hook /\ secret' = secret
    BY DEF record
  <1> HIDE DEF entry
  <1>5. log[h] \in Seq(Entries) /\ Append(log[h], entry) \in Seq(Entries)
    BY <1>2, <1>3
  <1>6. FailuresAfter(h, answer[e][h]) \in Nat
    BY <1>3 DEF FailuresAfter
  <1>7. log' \in [Hooks -> Seq(Entries)] /\ failures' \in [Hooks -> Nat]
    BY <1>3, <1>4, <1>5, <1>6
  <1>8. TablesTyped'
    BY <1>4, <1>7 DEF TablesTyped
  <1> QED BY <1>1, <1>3, <1>4, <1>8 DEF entry

\* A delivery belongs to an event whose hooks have been read.
Begun ==
    \A e \in Events, h \in Hooks :
        /\ job[e][h] # "none" => task[e] \in {"delivering", "lost"}
        /\ job[e][h] \notin Settled => task[e] = "delivering"

Capped == Typed /\ Begun /\ ConnectionsAreCapped

LEMMA EmittingCapped ==
    ASSUME Capped, NEW e \in Events, emit(e) \/ LoadHooks(e) \/ LoadFails(e)
    PROVE  Capped'
  <1>1. /\ TablesTyped /\ AnswersTyped /\ WorkTyped /\ ServerTyped
        /\ Begun /\ ConnectionsAreCapped
        /\ task \in [Events -> {"none", "loading", "delivering", "lost"}]
        /\ job \in [Events -> [Hooks -> JobStages]]
    BY DEF Capped, Typed, WorkTyped
  <1>2. UNCHANGED <<hook, secret, failures, log, answer, ping, permits, phase, draining,
                    drained, waited, received, ops>>
    BY DEF emit, LoadHooks, LoadFails, tables, server, history, budgets
  <1>3. TablesTyped'
    BY <1>1, <1>2 DEF TablesTyped
  <1>4. ServerTyped'
    BY <1>1, <1>2 DEF emit, LoadHooks, LoadFails, history, budgets, ServerTyped
  <1>5. task[e] \in {"none", "loading"} /\ \A h \in Hooks : job[e][h] = "none"
    BY <1>1 DEF emit, LoadHooks, LoadFails, Begun
  <1>6. /\ task' \in [Events -> {"none", "loading", "delivering", "lost"}]
        /\ \A f \in Events \ {e} : task'[f] = task[f]
        /\ (task'[e] = "loading" /\ job' = job) \/ task'[e] = "delivering"
    BY <1>1 DEF emit, LoadHooks, LoadFails
  <1>7. /\ job' \in [Events -> [Hooks -> JobStages]]
        /\ \A f \in Events \ {e} : job'[f] = job[f]
        /\ \A h \in Hooks : job'[e][h] \in {"waiting", "none"}
        /\ signing' \in [Events -> [Hooks -> 0..MaxRotations]]
    <2>1. CASE job' = job /\ signing' = signing
      BY <1>1, <1>5, <2>1 DEF WorkTyped
    <2>2. CASE LoadHooks(e)
      <3>1. [h \in Hooks |-> IF h \in Wanting(e) THEN "waiting" ELSE "none"] \in [Hooks -> JobStages]
        BY DEF JobStages
      <3>2. [h \in Hooks |-> IF h \in Wanting(e) THEN secret[h] ELSE 0] \in [Hooks -> 0..MaxRotations]
        BY <1>1, EmitterAssumption DEF TablesTyped
      <3> QED BY <1>1, <2>2, <3>1, <3>2 DEF LoadHooks, WorkTyped
    <2> QED BY <2>1, <2>2 DEF emit, LoadFails
  <1>8. WorkTyped'
    BY <1>1, <1>2, <1>6, <1>7 DEF WorkTyped
  <1>9. AnswersTyped'
    BY <1>1, <1>2, <1>7 DEF AnswersTyped
  <1>10. Begun'
    <2> SUFFICES ASSUME NEW f \in Events, NEW h \in Hooks
                 PROVE  /\ job'[f][h] # "none" => task'[f] \in {"delivering", "lost"}
                        /\ job'[f][h] \notin Settled => task'[f] = "delivering"
      BY DEF Begun
    <2>1. CASE f = e
      BY <1>5, <1>6, <1>7, <2>1 DEF Settled
    <2>2. CASE f # e
      BY <1>1, <1>6, <1>7, <2>2 DEF Begun
    <2> QED BY <2>1, <2>2
  <1>11. ConnectionsAreCapped'
    <2>1. \A f \in Events, h \in Hooks : job'[f][h] = "posting" <=> job[f][h] = "posting"
      BY <1>5, <1>7
    <2> QED BY <1>1, <1>2, <2>1, SamePosting
  <1> QED BY <1>3, <1>4, <1>8, <1>9, <1>10, <1>11 DEF Capped, Typed

\* What a step of one delivery changes.
LEMMA DeliveringMoves ==
    ASSUME Capped, NEW e \in Events, NEW h \in Hooks, Deliver(e, h) \/ RecordFails(e, h)
    PROVE  \E stage \in JobStages, a \in AllAnswers \cup {"none"} :
            /\ Moves(e, h, stage)
            /\ answer' = [answer EXCEPT ![e][h] = a]
            /\ stage = "recording" => a \in AllAnswers \ {"raised"}
  <1>1. CASE Acquire(e, h)
    <2>1. answer \in [Sources -> [Hooks -> AllAnswers \cup {"none"}]] /\ e \in Sources
      BY DEF Capped, Typed, AnswersTyped, Sources
    <2>2. answer' = [answer EXCEPT ![e][h] = answer[e][h]]
      BY <1>1, <2>1 DEF Acquire
    <2>3. Moves(e, h, "posting") /\ "posting" \in JobStages
      BY <1>1 DEF Acquire, Moves, JobStages
    <2> QED BY <2>1, <2>2, <2>3
  <1>2. CASE Post(e, h)
    <2>1. PICK a \in Answers :
            /\ answer' = [answer EXCEPT ![e][h] = a]
            /\ job' = [job EXCEPT ![e][h] = IF a = "raised" THEN "unlogged" ELSE "recording"]
      BY <1>2 DEF Post
    <2>2. a \in AllAnswers
      BY EmitterAssumption
    <2>3. CASE a = "raised"
      <3>1. Moves(e, h, "unlogged") /\ "unlogged" \in JobStages
        BY <2>1, <2>3 DEF Moves, JobStages
      <3> QED BY <2>1, <2>2, <3>1
    <2>4. CASE a # "raised"
      <3>1. Moves(e, h, "recording") /\ "recording" \in JobStages
        BY <2>1, <2>4 DEF Moves, JobStages
      <3> QED BY <2>1, <2>2, <2>4, <3>1
    <2> QED BY <2>3, <2>4
  <1>3. CASE Record(e, h) \/ RecordFails(e, h)
    <2>1. PICK stage \in {"logged", "unlogged"} : Moves(e, h, stage)
      BY <1>3 DEF Record, RecordFails, Moves
    <2>2. stage \in JobStages /\ stage # "recording"
      BY DEF JobStages
    <2>3. answer' = [answer EXCEPT ![e][h] = "none"]
      BY <1>3 DEF Record, RecordFails
    <2> QED BY <2>1, <2>2, <2>3
  <1> QED BY <1>1, <1>2, <1>3 DEF Deliver

LEMMA DeliveringCapped ==
    ASSUME Capped, NEW e \in Events, NEW h \in Hooks, Deliver(e, h) \/ RecordFails(e, h)
    PROVE  Capped'
  <1>1. /\ TablesTyped /\ AnswersTyped /\ WorkTyped /\ ServerTyped
        /\ Begun /\ ConnectionsAreCapped
        /\ job \in [Events -> [Hooks -> JobStages]]
        /\ permits \in [Emitters -> 0..MaxConcurrent] /\ Owner[e] \in Emitters
        /\ answer \in [Sources -> [Hooks -> AllAnswers \cup {"none"}]]
        /\ e \in Sources /\ e # "ping" /\ "ping" \in Sources
    BY EmitterAssumption DEF Capped, Typed, WorkTyped, AnswersTyped, Sources
  <1>2. PICK stage \in JobStages, a \in AllAnswers \cup {"none"} :
            /\ Moves(e, h, stage)
            /\ answer' = [answer EXCEPT ![e][h] = a]
            /\ stage = "recording" => a \in AllAnswers \ {"raised"}
    BY DeliveringMoves
  <1>3. /\ job' \in [Events -> [Hooks -> JobStages]] /\ job'[e][h] = stage
        /\ \A f \in Events, k \in Hooks : f # e \/ k # h => job'[f][k] = job[f][k]
    BY <1>1, <1>2 DEF Moves
  <1>4. /\ answer' \in [Sources -> [Hooks -> AllAnswers \cup {"none"}]]
        /\ answer'[e][h] = a /\ answer'["ping"] = answer["ping"]
    BY <1>1, <1>2
  <1>5. \A f \in Events, k \in Hooks : f # e \/ k # h => answer'[f][k] = answer[f][k]
    BY <1>1, <1>2 DEF Sources
  <1>6. /\ job[e][h] \in {"waiting", "posting", "recording"} /\ job[e][h] \notin Settled
        /\ UNCHANGED <<task, signing, ping, phase, draining, drained, waited, ops>>
    BY DEF Deliver, Acquire, Post, Record, RecordFails, Settled, server, history, budgets
  <1>7. AnswersTyped'
    <2>1. \A f \in Events, k \in Hooks :
            job'[f][k] = "recording" => answer'[f][k] \in AllAnswers \ {"raised"}
      <3> SUFFICES ASSUME NEW f \in Events, NEW k \in Hooks, job'[f][k] = "recording"
                   PROVE  answer'[f][k] \in AllAnswers \ {"raised"}
        OBVIOUS
      <3>1. CASE f = e /\ k = h
        BY <1>2, <1>3, <1>4, <3>1
      <3>2. CASE f # e \/ k # h
        BY <1>1, <1>3, <1>5, <3>2 DEF AnswersTyped
      <3> QED BY <3>1, <3>2
    <2> QED BY <1>1, <1>4, <1>6, <2>1 DEF AnswersTyped
  <1>8. Begun'
    <2> SUFFICES ASSUME NEW f \in Events, NEW k \in Hooks
                 PROVE  /\ job'[f][k] # "none" => task'[f] \in {"delivering", "lost"}
                        /\ job'[f][k] \notin Settled => task'[f] = "delivering"
      BY DEF Begun
    <2>1. CASE f = e /\ k = h
      BY <1>1, <1>6, <2>1 DEF Begun
    <2>2. CASE f # e \/ k # h
      BY <1>1, <1>3, <1>6, <2>2 DEF Begun
    <2> QED BY <2>1, <2>2
  <1>9. TablesTyped'
    <2>1. CASE UNCHANGED tables
      BY <1>1, <2>1 DEF TablesTyped, tables
    <2>2. CASE job[e][h] = "recording" /\ record(e, h)
      BY <1>1, <2>2, RecordType DEF AnswersTyped
    <2> QED BY <2>1, <2>2 DEF Deliver, Acquire, Post, Record, RecordFails
  <1>10. ServerTyped'
    <2>1. received' \subseteq received \cup {<<e, h>>} /\ excused' \subseteq excused \cup {e}
      BY DEF Deliver, Acquire, Post, Record, RecordFails, history
    <2>2. faults' = faults \/ faults' = faults + 1
      BY DEF Deliver, Acquire, Post, Record, RecordFails, budgets
    <2> QED BY <1>1, <1>6, <2>1, <2>2 DEF ServerTyped
  <1>11. ConnectionsAreCapped' /\ permits' \in [Emitters -> 0..MaxConcurrent]
    <2>1. CASE Acquire(e, h)
      <3>1. Moves(e, h, "posting") /\ job[e][h] # "posting"
        BY <2>1 DEF Acquire, Moves
      <3>2. permits[Owner[e]] > 0 /\ permits' = [permits EXCEPT ![Owner[e]] = @ - 1]
        BY <2>1 DEF Acquire
      <3>3. ConnectionsAreCapped'
        BY <1>1, <3>1, <3>2, PostingBegins
      <3>4. permits[Owner[e]] - 1 \in 0..MaxConcurrent
        BY <1>1, <3>2, EmitterAssumption
      <3>5. permits' \in [Emitters -> 0..MaxConcurrent]
        BY <1>1, <3>2, <3>4
      <3> QED BY <3>3, <3>5
    <2>2. CASE Post(e, h)
      <3>1. job[e][h] = "posting" /\ permits' = [permits EXCEPT ![Owner[e]] = @ + 1]
        BY <2>2 DEF Post
      <3>2. job'[e][h] # "posting"
        BY <1>1, <2>2 DEF Post
      <3>3. stage \in JobStages \ {"posting"}
        BY <1>3, <3>2
      <3> QED BY <1>1, <1>2, <3>1, <3>3, PostingEnds
    <2>3. CASE Record(e, h) \/ RecordFails(e, h)
      <3>1. permits' = permits /\ job[e][h] = "recording"
        BY <2>3 DEF Record, RecordFails
      <3>2. job'[e][h] # "posting"
        BY <1>1, <2>3 DEF Record, RecordFails
      <3>3. \A f \in Events, k \in Hooks : job'[f][k] = "posting" <=> job[f][k] = "posting"
        BY <1>3, <3>1, <3>2
      <3> QED BY <1>1, <3>1, <3>3, SamePosting
    <2> QED BY <2>1, <2>2, <2>3 DEF Deliver
  <1>12. WorkTyped'
    BY <1>1, <1>3, <1>6, <1>11 DEF WorkTyped
  <1> QED BY <1>7, <1>8, <1>9, <1>10, <1>11, <1>12 DEF Capped, Typed

LEMMA OperatorCapped ==
    ASSUME Capped, NEW h \in Hooks, OperatorStep(h) \/ PingStep(h)
    PROVE  Capped'
  <1>1. /\ TablesTyped /\ AnswersTyped /\ WorkTyped /\ ServerTyped
        /\ Begun /\ ConnectionsAreCapped
        /\ answer \in [Sources -> [Hooks -> AllAnswers \cup {"none"}]]
        /\ "ping" \in Sources /\ \A e \in Events : e # "ping" /\ e \in Sources
    BY EmitterAssumption DEF Capped, Typed, AnswersTyped, Sources
  <1>2. UNCHANGED <<task, job, signing, permits, server, history>>
    BY DEF OperatorStep, create, enable, disable, rotate_secret, delete, StartPing, PingStep,
           PingAnswered, RecordPing, work
  <1>3. ConnectionsAreCapped' /\ Begun'
    BY <1>1, <1>2, SamePosting DEF Begun
  <1>4. ops' \in Nat /\ faults' \in Nat
    BY <1>1 DEF OperatorStep, create, enable, disable, rotate_secret, delete, StartPing,
           PingStep, PingAnswered, RecordPing, Operator, budgets, ServerTyped
  <1>5. ServerTyped'
    BY <1>1, <1>2, <1>4 DEF ServerTyped, server, history
  <1>6. TablesTyped'
    <2>1. CASE OperatorStep(h)
      <3>1. CASE UNCHANGED tables
        BY <1>1, <3>1 DEF TablesTyped, tables
      <3>2. CASE create(h) \/ enable(h) \/ disable(h)
        BY <1>1, <3>2 DEF create, enable, disable, TablesTyped
      <3>3. CASE rotate_secret(h)
        BY <1>1, <3>3, EmitterAssumption DEF rotate_secret, TablesTyped
      <3>4. CASE delete(h)
        BY <1>1, <3>4 DEF delete, TablesTyped
      <3> QED BY <2>1, <3>1, <3>2, <3>3, <3>4 DEF OperatorStep, StartPing
    <2>2. CASE UNCHANGED tables
      BY <1>1, <2>2 DEF TablesTyped, tables
    <2>3. CASE ping[h] = "recording" /\ record("ping", h)
      BY <1>1, <2>3, RecordType DEF AnswersTyped
    <2> QED BY <2>1, <2>2, <2>3 DEF PingStep, PingAnswered, RecordPing
  <1>7. WorkTyped' /\ \A k \in Hooks \ {h} : ping'[k] = ping[k]
    <2>1. /\ ping' \in [Hooks -> {"idle", "posting", "recording"}]
          /\ \A k \in Hooks \ {h} : ping'[k] = ping[k]
      BY <1>1 DEF OperatorStep, create, enable, disable, rotate_secret, delete, StartPing,
             PingStep, PingAnswered, RecordPing, WorkTyped
    <2> QED BY <1>1, <1>2, <2>1 DEF WorkTyped
  <1>8. PICK a \in AllAnswers \cup {"none"} :
            /\ answer' = [answer EXCEPT !["ping"][h] = a]
            /\ ping'[h] = "recording" => a \in AllAnswers \ {"raised"}
    <2>1. CASE OperatorStep(h)
      <3>1. answer' = answer /\ (ping'[h] = "recording" => ping[h] = "recording")
        BY <1>1, <2>1 DEF OperatorStep, create, enable, disable, rotate_secret, delete,
               StartPing, work, WorkTyped
      <3>2. answer' = [answer EXCEPT !["ping"][h] = answer["ping"][h]]
        BY <1>1, <3>1
      <3>3. answer["ping"][h] \in AllAnswers \cup {"none"}
        BY <1>1
      <3>4. ping'[h] = "recording" => answer["ping"][h] \in AllAnswers \ {"raised"}
        BY <1>1, <3>1 DEF AnswersTyped
      <3> QED BY <3>2, <3>3, <3>4
    <2>2. CASE PingAnswered(h)
      <3>1. PICK a \in Answers :
                /\ answer' = [answer EXCEPT !["ping"][h] = a]
                /\ ping' = [ping EXCEPT ![h] = IF a = "raised" THEN "idle" ELSE "recording"]
        BY <2>2 DEF PingAnswered
      <3>2. a \in AllAnswers /\ (ping'[h] = "recording" => a # "raised")
        BY <1>1, <3>1, EmitterAssumption DEF WorkTyped
      <3> QED BY <3>1, <3>2
    <2>3. CASE RecordPing(h)
      BY <1>1, <2>3 DEF RecordPing, WorkTyped
    <2> QED BY <2>1, <2>2, <2>3 DEF PingStep
  <1>9. AnswersTyped'
    <2>1. /\ answer' \in [Sources -> [Hooks -> AllAnswers \cup {"none"}]]
          /\ answer'["ping"][h] = a
          /\ \A k \in Hooks \ {h} : answer'["ping"][k] = answer["ping"][k]
          /\ \A e \in Events : answer'[e] = answer[e]
      BY <1>1, <1>8
    <2> QED BY <1>1, <1>2, <1>7, <1>8, <2>1 DEF AnswersTyped
  <1> QED BY <1>3, <1>5, <1>6, <1>7, <1>9 DEF Capped, Typed

LEMMA ServerCapped ==
    ASSUME Capped, ServerStep
    PROVE  Capped'
  <1>1. /\ TablesTyped /\ AnswersTyped /\ WorkTyped /\ ServerTyped
        /\ Begun /\ ConnectionsAreCapped
    BY DEF Capped, Typed
  <1>2. UNCHANGED tables /\ TablesTyped'
    BY <1>1 DEF ServerStep, Stop, StartDrain, EndDrain, Exit, Crash, Restart, Die, tables,
           TablesTyped
  <1>3. CASE UNCHANGED work /\ UNCHANGED ping
    <2>1. AnswersTyped' /\ WorkTyped' /\ Begun'
      BY <1>1, <1>3 DEF work, AnswersTyped, WorkTyped, Begun
    <2>2. ConnectionsAreCapped'
      BY <1>1, <1>3, SamePosting DEF work
    <2>3. ServerTyped'
      <3>1. CASE Stop \/ Restart
        BY <1>1, <3>1 DEF Stop, Restart, history, budgets, ServerTyped
      <3>2. CASE \E x \in Emitters : StartDrain(x)
        BY <1>1, <3>2 DEF StartDrain, InFlight, history, budgets, ServerTyped
      <3>3. CASE EndDrain
        BY <1>1, <3>3 DEF EndDrain, budgets, ServerTyped
      <3>4. CASE Exit \/ Crash
        BY <1>1, <3>4 DEF Exit, Crash, Die, budgets, ServerTyped
      <3> QED BY <3>1, <3>2, <3>3, <3>4 DEF ServerStep
    <2> QED BY <1>2, <2>1, <2>2, <2>3 DEF Capped, Typed
  <1>4. CASE Exit \/ Crash
    <2>1. Die
      BY <1>4 DEF Exit, Crash
    <2>2. ServerTyped'
      BY <1>1, <1>4 DEF Exit, Crash, Die, budgets, ServerTyped
    <2>3. \A e \in Events, h \in Hooks : job'[e][h] \in Settled /\ job'[e][h] \in JobStages
      BY <1>1, <2>1 DEF Die, WorkTyped, Settled, JobStages
    <2>4. /\ job' \in [Events -> [Hooks -> JobStages]]
          /\ task' \in [Events -> {"none", "loading", "delivering", "lost"}]
          /\ permits' \in [Emitters -> 0..MaxConcurrent]
      BY <1>1, <2>1, <2>3, EmitterAssumption DEF Die, WorkTyped
    <2>5. WorkTyped' /\ AnswersTyped'
      BY <1>1, <2>1, <2>3, <2>4 DEF Die, WorkTyped, AnswersTyped, Settled
    <2>6. Begun'
      <3> SUFFICES ASSUME NEW e \in Events, NEW h \in Hooks, job'[e][h] # "none"
                   PROVE  task'[e] \in {"delivering", "lost"}
        BY <2>3 DEF Begun
      <3>1. job[e][h] # "none"
        BY <1>1, <2>1 DEF Die, Settled
      <3>2. task[e] \in {"delivering", "lost"}
        BY <1>1, <3>1 DEF Begun
      <3> QED BY <1>1, <2>1, <3>2 DEF Die
    <2>7. ConnectionsAreCapped'
      <3>1. \A x : Posting(x)' = {}
        BY <2>3 DEF Posting, Settled
      <3>2. \A x \in Emitters : permits'[x] = MaxConcurrent
        BY <2>1 DEF Die
      <3>3. \A x : Cardinality(Posting(x)') = 0
        BY <3>1, FS_EmptySet
      <3> QED BY <3>2, <3>3, EmitterAssumption DEF ConnectionsAreCapped
    <2> QED BY <1>2, <2>2, <2>5, <2>6, <2>7 DEF Capped, Typed
  <1> QED BY <1>3, <1>4 DEF ServerStep, Stop, StartDrain, EndDrain, Restart

LEMMA InitCapped == Init => Capped
  <1> SUFFICES ASSUME Init PROVE Capped
    OBVIOUS
  <1>1. TablesTyped
    BY EmitterAssumption DEF Init, TablesTyped
  <1>2. \A e \in Events, h \in Hooks : job[e][h] = "none"
    BY DEF Init
  <1>3. WorkTyped
    BY EmitterAssumption DEF Init, WorkTyped, JobStages
  <1>4. AnswersTyped
    BY <1>2 DEF Init, AnswersTyped
  <1>5. ServerTyped
    BY DEF Init, ServerTyped
  <1>6. Begun
    BY <1>2 DEF Begun, Settled
  <1>7. ConnectionsAreCapped
    <2>1. \A x : Posting(x) = {}
      BY <1>2 DEF Posting
    <2>2. \A x : Cardinality(Posting(x)) = 0
      BY <2>1, FS_EmptySet
    <2>3. \A x \in Emitters : permits[x] = MaxConcurrent
      BY DEF Init
    <2> QED BY <2>2, <2>3, EmitterAssumption DEF ConnectionsAreCapped
  <1> QED BY <1>1, <1>3, <1>4, <1>5, <1>6, <1>7 DEF Capped, Typed

LEMMA StepCapped == Capped /\ [Next]_vars => Capped'
  <1> SUFFICES ASSUME Capped, [Next]_vars PROVE Capped'
    OBVIOUS
  <1>1. CASE UNCHANGED vars
    <2>1. UNCHANGED <<tables, work, ping, server, history, budgets>>
      BY <1>1 DEF vars
    <2>2. Typed'
      BY <2>1 DEF Capped, Typed, TablesTyped, AnswersTyped, WorkTyped, ServerTyped, tables,
             work, server, history, budgets
    <2>3. Begun' /\ ConnectionsAreCapped'
      BY <2>1, SamePosting DEF Capped, Begun, work
    <2> QED BY <2>2, <2>3 DEF Capped
  <1>2. CASE Next
    BY <1>2, EmittingCapped, DeliveringCapped, OperatorCapped, ServerCapped DEF Next
  <1> QED BY <1>1, <1>2

LEMMA AlwaysCapped == Spec => []Capped
  BY InitCapped, StepCapped, PTL DEF Spec

\* Every variable of the emitter, its jobs and the server keeps its type, and a
\* record is only ever written with an answer in hand.
THEOREM TypesAreKept == Spec => []TypeOK
  <1>1. Capped => TypeOK
    BY TypeParts DEF Capped
  <1> QED BY <1>1, AlwaysCapped, PTL

\* emitter.py, "a burst of mail to a slow endpoint would open an unbounded
\* number of connections": no emitter ever has more than MAX_CONCURRENT posts
\* under way, and no answer, exception or restart loses or forges a permit.
THEOREM PermitsAreKept == Spec => []ConnectionsAreCapped
  <1>1. Capped => ConnectionsAreCapped
    BY DEF Capped
  <1> QED BY <1>1, AlwaysCapped, PTL

-----------------------------------------------------------------------------
(* What a stop may cost. *)

\* Once the drain of its emitter began, an event that is not over is waited for
\* by that drain or is already excused.
Accounted ==
    /\ \A e \in Events : task[e] = "lost" => e \in excused
    /\ \A e \in Events : Owner[e] \in drained /\ Unfinished(e) =>
        e \in excused \/ (draining = Owner[e] /\ e \in waited)

\* Steps of the tasks finish events and begin none, but for emit.
LEMMA TaskStepAccounted ==
    ASSUME Capped, Accounted, NEW e \in Events,
           \/ emit(e) \/ LoadHooks(e) \/ LoadFails(e)
           \/ \E h \in Hooks : Deliver(e, h) \/ RecordFails(e, h)
    PROVE  Accounted'
  <1>1. /\ task \in [Events -> {"none", "loading", "delivering", "lost"}]
        /\ job \in [Events -> [Hooks -> JobStages]] /\ Begun
    BY DEF Capped, Typed, WorkTyped
  <1>2. UNCHANGED <<drained, draining, waited>> /\ excused \subseteq excused'
    BY DEF emit, LoadHooks, LoadFails, Deliver, Acquire, Post, Record, RecordFails, server,
           history
  <1>3. \A f \in Events \ {e} : task'[f] = task[f] /\ job'[f] = job[f]
    BY <1>1 DEF emit, LoadHooks, LoadFails, Deliver, Acquire, Post, Record, RecordFails
  <1>4. task'[e] # "lost"
    <2>1. CASE emit(e) \/ LoadHooks(e) \/ LoadFails(e)
      BY <1>1, <2>1 DEF emit, LoadHooks, LoadFails
    <2>2. CASE \E h \in Hooks : Deliver(e, h) \/ RecordFails(e, h)
      <3>1. \E h \in Hooks : job[e][h] \notin Settled
        BY <2>2 DEF Deliver, Acquire, Post, Record, RecordFails, Settled
      <3>2. task[e] = "delivering" /\ task' = task
        BY <1>1, <2>2, <3>1 DEF Begun, Deliver, Acquire, Post, Record, RecordFails
      <3> QED BY <3>2
    <2> QED BY <2>1, <2>2
  <1>5. Owner[e] \in drained => Unfinished(e) \/ e \in excused'
    <2>1. CASE emit(e)
      BY <2>1 DEF emit
    <2>2. CASE LoadHooks(e) \/ LoadFails(e)
      BY <2>2 DEF LoadHooks, LoadFails, Unfinished
    <2>3. CASE \E h \in Hooks : Deliver(e, h) \/ RecordFails(e, h)
      <3>1. PICK h \in Hooks : job[e][h] \notin Settled
        BY <2>3 DEF Deliver, Acquire, Post, Record, RecordFails, Settled
      <3> QED BY <1>1, <3>1 DEF Begun, Unfinished
    <2> QED BY <2>1, <2>2, <2>3
  <1>6. ASSUME NEW f \in Events, Owner[f] \in drained', Unfinished(f)'
        PROVE  f \in excused' \/ (draining' = Owner[f] /\ f \in waited')
    <2>1. Unfinished(f) \/ f \in excused'
      <3>1. CASE f = e
        BY <1>2, <1>5, <1>6, <3>1
      <3>2. CASE f # e
        BY <1>3, <1>6, <3>2 DEF Unfinished
      <3> QED BY <3>1, <3>2
    <2> QED BY <1>2, <1>6, <2>1 DEF Accounted
  <1>7. \A f \in Events : task'[f] = "lost" => f \in excused'
    BY <1>2, <1>3, <1>4 DEF Accounted
  <1> QED BY <1>6, <1>7 DEF Accounted

\* Whatever a stop or a crash ends is excused.
LEMMA EndsAreExcused ==
    ASSUME Accounted, Exit \/ Crash
    PROVE  excused \subseteq excused' /\ \A e \in Events : Unfinished(e) => e \in excused'
  <1>1. CASE Exit
    BY <1>1, EmitterAssumption DEF Exit, Accounted, NoEmitter
  <1>2. CASE Crash
    BY <1>2 DEF Crash
  <1> QED BY <1>1, <1>2

LEMMA ServerStepAccounted ==
    ASSUME Capped, Accounted, ServerStep
    PROVE  Accounted'
  <1>1. CASE Stop \/ Restart
    BY <1>1 DEF Accounted, Stop, Restart, Unfinished, work, history
  <1>2. ASSUME NEW x \in Emitters, StartDrain(x) PROVE Accounted'
    <2>1. /\ UNCHANGED <<task, job, excused>> /\ draining = NoEmitter
          /\ drained' = drained \cup {x} /\ draining' = x /\ waited' = InFlight(x)
      BY <1>2 DEF StartDrain, work, history
    <2>2. ASSUME NEW e \in Events, Owner[e] \in drained', Unfinished(e)'
          PROVE  e \in excused' \/ (draining' = Owner[e] /\ e \in waited')
      <3>1. Unfinished(e) /\ Owner[e] \in Emitters /\ Owner[e] # NoEmitter
        BY <2>1, <2>2, EmitterAssumption DEF Unfinished, NoEmitter
      <3>2. CASE Owner[e] = x
        BY <2>1, <3>1, <3>2 DEF InFlight
      <3>3. CASE Owner[e] # x
        BY <2>1, <2>2, <3>1, <3>3 DEF Accounted
      <3> QED BY <3>2, <3>3
    <2>3. \A e \in Events : task'[e] = "lost" => e \in excused'
      BY <2>1 DEF Accounted
    <2> QED BY <2>2, <2>3 DEF Accounted
  <1>3. CASE EndDrain
    <2>1. /\ UNCHANGED <<task, job, drained>>
          /\ excused' = excused \cup {e \in waited : Unfinished(e)}
      BY <1>3 DEF EndDrain, work
    <2>2. \A e \in Events : Unfinished(e)' = Unfinished(e)
      BY <2>1 DEF Unfinished
    <2> QED BY <2>1, <2>2 DEF Accounted
  <1>4. CASE Exit \/ Crash
    <2>1. Die /\ drained' = {}
      BY <1>4 DEF Exit, Crash, Die
    <2>2. \A e \in Events : task'[e] = "lost" => task[e] = "lost" \/ Unfinished(e)
      BY <2>1 DEF Die
    <2>3. \A e \in Events : task'[e] = "lost" => e \in excused'
      BY <1>4, <2>2, EndsAreExcused DEF Accounted
    <2> QED BY <2>1, <2>3 DEF Accounted
  <1> QED BY <1>1, <1>2, <1>3, <1>4 DEF ServerStep

LEMMA StepAccounted == Capped /\ Accounted /\ [Next]_vars => Accounted'
  <1> SUFFICES ASSUME Capped, Accounted, [Next]_vars PROVE Accounted'
    OBVIOUS
  <1>1. CASE UNCHANGED vars
    BY <1>1 DEF vars, work, server, history, Accounted, Unfinished
  <1>2. CASE \E h \in Hooks : OperatorStep(h) \/ PingStep(h)
    <2>1. UNCHANGED <<task, job, excused, drained, draining, waited>>
      BY <1>2 DEF OperatorStep, create, enable, disable, rotate_secret, delete, StartPing,
             PingStep, PingAnswered, RecordPing, work, server, history
    <2> QED BY <2>1 DEF Accounted, Unfinished
  <1>3. CASE ServerStep
    BY <1>3, ServerStepAccounted
  <1>4. CASE \/ \E e \in Events : emit(e) \/ LoadHooks(e) \/ LoadFails(e)
             \/ \E e \in Events, h \in Hooks : Deliver(e, h) \/ RecordFails(e, h)
    BY <1>4, TaskStepAccounted
  <1> QED BY <1>1, <1>2, <1>3, <1>4 DEF Next

LEMMA AlwaysAccounted == Spec => [](Capped /\ Accounted)
  <1>1. Init => Accounted
    BY DEF Init, Accounted
  <1> QED BY <1>1, InitCapped, StepCapped, StepAccounted, PTL DEF Spec

\* server.py, "dropping them here would silently lose events on every
\* restart": whatever the drains overlap with, an event is lost only to a
\* crash, to the deadline of its drain, or because it was emitted after it.
THEOREM StopsAreClean == Spec => []CleanStopLosesNothing
  <1>1. Capped /\ Accounted => CleanStopLosesNothing
    BY DEF Accounted, CleanStopLosesNothing
  <1> QED BY <1>1, AlwaysAccounted, PTL

-----------------------------------------------------------------------------
(* The log. *)

\* What a step of any actor does to a log: nothing, a new entry of a hook that
\* exists, with the answer the writer has in hand, or the end of it.
LEMMA LogSteps ==
    ASSUME Capped, Next
    PROVE  \/ /\ UNCHANGED <<log, failures>>
              /\ \A h \in Hooks : hook'[h] # "deleted" => hook[h] # "deleted"
           \/ \E h \in Hooks : delete(h)
           \/ \E e \in Sources, h \in Hooks :
                /\ record(e, h) /\ Exists(h)
                /\ answer[e][h] \in AllAnswers \ {"raised"}
  <1>1. /\ TablesTyped /\ AnswersTyped
        /\ "ping" \in Sources /\ \A e \in Events : e \in Sources
    BY DEF Capped, Typed, Sources
  <1>2. CASE UNCHANGED tables
    BY <1>2 DEF tables
  <1>3. CASE \E e \in Events : emit(e) \/ LoadHooks(e) \/ LoadFails(e)
    BY <1>2, <1>3 DEF emit, LoadHooks, LoadFails
  <1>4. CASE \E e \in Events, h \in Hooks : Deliver(e, h) \/ RecordFails(e, h)
    <2>1. PICK e \in Events, h \in Hooks : Deliver(e, h) \/ RecordFails(e, h)
      BY <1>4
    <2>2. UNCHANGED tables \/ (job[e][h] = "recording" /\ Exists(h) /\ record(e, h))
      BY <2>1 DEF Deliver, Acquire, Post, Record, RecordFails, CanRecord
    <2> QED BY <1>1, <1>2, <2>2 DEF AnswersTyped
  <1>5. CASE \E h \in Hooks : PingStep(h)
    <2>1. PICK h \in Hooks : PingStep(h)
      BY <1>5
    <2>2. UNCHANGED tables \/ (ping[h] = "recording" /\ Exists(h) /\ record("ping", h))
      BY <2>1 DEF PingStep, PingAnswered, RecordPing, CanRecord
    <2> QED BY <1>1, <1>2, <2>2 DEF AnswersTyped
  <1>6. CASE \E h \in Hooks : OperatorStep(h)
    <2>1. PICK h \in Hooks : OperatorStep(h)
      BY <1>6
    <2>2. CASE create(h) \/ enable(h) \/ disable(h)
      BY <1>1, <2>2 DEF create, enable, disable, Exists, TablesTyped
    <2>3. CASE rotate_secret(h)
      BY <2>3 DEF rotate_secret
    <2>4. CASE StartPing(h)
      BY <1>2, <2>4 DEF StartPing
    <2> QED BY <2>1, <2>2, <2>3, <2>4 DEF OperatorStep
  <1>7. CASE ServerStep
    BY <1>2, <1>7 DEF ServerStep, Stop, StartDrain, EndDrain, Exit, Crash, Restart, Die
  <1> QED BY <1>3, <1>4, <1>5, <1>6, <1>7 DEF Next

\* The failures since the last success of a log.
Streak(s) == {i \in 1..Len(s) : \A j \in i..Len(s) : s[j].status # "delivered"}

LEMMA StreakFinite ==
    ASSUME NEW s \in Seq(Entries)
    PROVE  /\ IsFiniteSet(Streak(s)) /\ Cardinality(Streak(s)) \in Nat
           /\ Len(s) + 1 \notin Streak(s)
  <1>1. Len(s) \in Nat /\ Streak(s) \subseteq 1..Len(s)
    BY DEF Streak
  <1>2. IsFiniteSet(1..Len(s))
    BY <1>1, FS_Interval
  <1>3. IsFiniteSet(Streak(s))
    BY <1>1, <1>2, FS_Subset
  <1> QED BY <1>1, <1>3, FS_CardinalityType

\* A success ends the streak, anything else prolongs it by one.
LEMMA StreakAppend ==
    ASSUME NEW s \in Seq(Entries), NEW x \in Entries
    PROVE  Cardinality(Streak(Append(s, x))) =
                IF x.status = "delivered" THEN 0 ELSE Cardinality(Streak(s)) + 1
  <1> DEFINE t == Append(s, x)
             n == Len(s)
  <1>1. /\ n \in Nat /\ Len(t) = n + 1 /\ t[n + 1] = x
        /\ \A i \in 1..n : t[i] = s[i]
    OBVIOUS
  <1> HIDE DEF t, n
  <1>2. CASE x.status = "delivered"
    <2>1. \A i \in 1..Len(t) : Len(t) \in i..Len(t)
      BY <1>1
    <2>2. Streak(t) = {}
      BY <1>1, <1>2, <2>1 DEF Streak
    <2> QED BY <1>2, <2>2, FS_EmptySet DEF t
  <1>3. CASE x.status # "delivered"
    <2>1. \A i \in 1..n : i \in Streak(t) <=> i \in Streak(s)
      <3> SUFFICES ASSUME NEW i \in 1..n
                   PROVE  i \in Streak(t) <=> i \in Streak(s)
        OBVIOUS
      <3>1. i..Len(t) = (i..n) \cup {n + 1} /\ i \in 1..Len(t)
        BY <1>1
      <3>2. \A j \in i..n : t[j] = s[j]
        BY <1>1
      <3> QED BY <1>1, <1>3, <3>1, <3>2 DEF Streak, n
    <2>2. n + 1 \in Streak(t)
      BY <1>1, <1>3 DEF Streak
    <2>3. Streak(t) \subseteq (1..n) \cup {n + 1} /\ Streak(s) \subseteq 1..n
      BY <1>1 DEF Streak, n
    <2>4. Streak(t) = Streak(s) \cup {n + 1}
      BY <2>1, <2>2, <2>3
    <2>5. IsFiniteSet(Streak(s)) /\ n + 1 \notin Streak(s)
      BY StreakFinite DEF n
    <2> QED BY <1>3, <2>4, <2>5, FS_AddElement DEF t
  <1> QED BY <1>2, <1>3

\* The counter of a hook that is yet to be created agrees too.
Counted == \A h \in Hooks : hook[h] # "deleted" => failures[h] = Cardinality(Streak(log[h]))

LEMMA StepCounted ==
    ASSUME Capped, Counted, [Next]_vars
    PROVE  Counted'
  <1>1. TablesTyped /\ TablesTyped'
    BY StepCapped DEF Capped, Typed
  <1>2. CASE UNCHANGED vars
    BY <1>2 DEF vars, tables, Counted
  <1>3. CASE /\ UNCHANGED <<log, failures>>
             /\ \A h \in Hooks : hook'[h] # "deleted" => hook[h] # "deleted"
    BY <1>3 DEF Counted
  <1>4. ASSUME NEW h \in Hooks, delete(h) PROVE Counted'
    BY <1>1, <1>4 DEF delete, Counted, TablesTyped
  <1>5. ASSUME NEW e \in Sources, NEW h \in Hooks, record(e, h), Exists(h),
               answer[e][h] \in AllAnswers \ {"raised"}
        PROVE  Counted'
    <2> DEFINE entry == [event |-> e, status |-> Status(answer[e][h])]
    <2>1. /\ hook' = hook /\ log'[h] = Append(log[h], entry)
          /\ entry.status \in {"delivered", "deferred", "failed"}
          /\ \A k \in Hooks \ {h} : log'[k] = log[k] /\ failures'[k] = failures[k]
          /\ failures'[h] = FailuresAfter(h, answer[e][h])
      BY <1>1, <1>5, RecordType
    <2>2. entry \in Entries /\ log[h] \in Seq(Entries)
      BY <1>1, <2>1 DEF Entries, TablesTyped
    <2>3. entry.status = "delivered" <=> answer[e][h] = "accepted"
      BY <1>5 DEF Status, AllAnswers
    <2>4. failures[h] = Cardinality(Streak(log[h]))
      BY <1>5 DEF Exists, Counted
    <2> HIDE DEF entry
    <2>5. failures'[h] = Cardinality(Streak(log'[h]))
      BY <2>1, <2>2, <2>3, <2>4, StreakAppend DEF FailuresAfter
    <2> QED BY <2>1, <2>5 DEF Counted
  <1> QED BY <1>2, <1>3, <1>4, <1>5, LogSteps

\* The failure counter an operator watches is the number of failures since the
\* last success of the log, however deliveries and tests of a hook interleave.
THEOREM CountersAreRight == Spec => []FailureCountMatchesLog
  <1>1. Init => Counted
    <2> SUFFICES ASSUME Init, NEW h \in Hooks
                 PROVE  failures[h] = Cardinality(Streak(log[h]))
      BY DEF Counted
    <2>1. failures[h] = 0 /\ Len(log[h]) = 0
      BY DEF Init
    <2>2. Streak(log[h]) = {}
      BY <2>1 DEF Streak
    <2> QED BY <2>1, <2>2, FS_EmptySet
  <1>2. Spec => [](Capped /\ Counted)
    BY <1>1, InitCapped, StepCapped, StepCounted, PTL DEF Spec
  <1>3. Counted => FailureCountMatchesLog
    BY DEF Counted, FailureCountMatchesLog, Streak, Exists
  <1> QED BY <1>2, <1>3, PTL

-----------------------------------------------------------------------------
(* What receivers got. *)

InLog(e, h) == \E i \in 1..Len(log[h]) : log[h][i].event = e

\* How far a delivery is, and what is known of it there.
TracedAt(e, h) ==
    /\ hook[h] = "none" => job[e][h] = "none"
    /\ <<e, h>> \in received =>
        /\ job[e][h] \notin {"none", "waiting", "posting"}
        /\ job[e][h] = "logged" => hook[h] = "deleted" \/ InLog(e, h)
        /\ job[e][h] = "unlogged" => hook[h] = "deleted" \/ e \in excused
    /\ job[e][h] = "lost" => e \in excused

Traced == \A e \in Events, h \in Hooks : TracedAt(e, h)

\* Hooks that are gone stay gone, and an entry stays while its hook does.
LEMMA LogGrows ==
    ASSUME Capped, Next
    PROVE  \A e \in Events, h \in Hooks :
            InLog(e, h) /\ hook'[h] # "deleted" => InLog(e, h)'
  <1>1. TablesTyped
    BY DEF Capped, Typed
  <1>2. CASE UNCHANGED log
    BY <1>2 DEF InLog
  <1>3. ASSUME NEW k \in Hooks, delete(k)
        PROVE  \A e \in Events, h \in Hooks :
                InLog(e, h) /\ hook'[h] # "deleted" => InLog(e, h)'
    BY <1>1, <1>3 DEF delete, TablesTyped, InLog
  <1>4. ASSUME NEW d \in Sources, NEW k \in Hooks, record(d, k),
               answer[d][k] \in AllAnswers \ {"raised"},
               NEW e \in Events, NEW h \in Hooks, InLog(e, h)
        PROVE  InLog(e, h)'
    <2>1. CASE h # k
      BY <1>1, <1>4, <2>1, RecordType DEF InLog
    <2>2. CASE h = k
      <3>1. log'[h] = Append(log[h], [event |-> d, status |-> Status(answer[d][k])])
        BY <1>1, <1>4, <2>2, RecordType
      <3>2. PICK i \in 1..Len(log[h]) : log[h][i].event = e
        BY <1>4 DEF InLog
      <3>3. log[h] \in Seq(Entries)
        BY <1>1 DEF TablesTyped
      <3>4. i \in 1..Len(log'[h]) /\ log'[h][i] = log[h][i]
        BY <3>1, <3>2, <3>3
      <3> QED BY <3>2, <3>4 DEF InLog
    <2> QED BY <2>1, <2>2
  <1> QED BY <1>2, <1>3, <1>4, LogSteps

\* No hook goes back to before its creation, and none comes back.
LEMMA HookSteps ==
    ASSUME Capped, Next, NEW h \in Hooks
    PROVE  /\ hook'[h] = "none" => hook[h] = "none"
           /\ hook[h] = "deleted" => hook'[h] = "deleted"
  <1>1. TablesTyped
    BY DEF Capped, Typed
  <1>2. CASE UNCHANGED hook
    BY <1>2
  <1>3. CASE \E k \in Hooks : create(k) \/ enable(k) \/ disable(k) \/ delete(k)
    BY <1>1, <1>3 DEF create, enable, disable, delete, Exists, TablesTyped
  <1>4. CASE \E k \in Hooks : OperatorStep(k) \/ PingStep(k)
    BY <1>2, <1>3, <1>4 DEF OperatorStep, rotate_secret, StartPing, PingStep, PingAnswered,
           RecordPing, record, tables
  <1>5. CASE \E e \in Events : emit(e) \/ LoadHooks(e) \/ LoadFails(e)
    BY <1>2, <1>5 DEF emit, LoadHooks, LoadFails, tables
  <1>6. CASE \E e \in Events, k \in Hooks : Deliver(e, k) \/ RecordFails(e, k)
    BY <1>2, <1>6 DEF Deliver, Acquire, Post, Record, RecordFails, record, tables
  <1>7. CASE ServerStep
    BY <1>2, <1>7 DEF ServerStep, Stop, StartDrain, EndDrain, Exit, Crash, Restart, Die, tables
  <1> QED BY <1>4, <1>5, <1>6, <1>7 DEF Next

\* A delivery nobody moves stays traced.
LEMMA StillTraced ==
    ASSUME Capped, Next, NEW e \in Events, NEW h \in Hooks, TracedAt(e, h),
           job'[e][h] = job[e][h], <<e, h>> \in received' => <<e, h>> \in received,
           excused \subseteq excused'
    PROVE  TracedAt(e, h)'
  <1>1. /\ hook'[h] = "none" => hook[h] = "none"
        /\ hook[h] = "deleted" => hook'[h] = "deleted"
        /\ InLog(e, h) /\ hook'[h] # "deleted" => InLog(e, h)'
    BY HookSteps, LogGrows
  <1> QED BY <1>1 DEF TracedAt

LEMMA StepTraced ==
    ASSUME Capped, Accounted, Traced, Next
    PROVE  Traced'
  <1>1. /\ TablesTyped /\ WorkTyped /\ Begun
        /\ job \in [Events -> [Hooks -> JobStages]]
    BY DEF Capped, Typed, WorkTyped
  <1>2. CASE UNCHANGED <<job, received>> /\ excused \subseteq excused'
    BY <1>2, StillTraced DEF Traced
  <1>3. ASSUME NEW e \in Events, LoadHooks(e) PROVE Traced'
    <2>1. /\ UNCHANGED <<hook, received, excused>>
          /\ \A f \in Events \ {e} : job'[f] = job[f]
          /\ \A h \in Hooks : job'[e][h] = IF h \in Wanting(e) THEN "waiting" ELSE "none"
      BY <1>1, <1>3 DEF LoadHooks, tables, history
    <2>2. \A h \in Hooks : job[e][h] = "none"
      BY <1>1, <1>3 DEF LoadHooks, Begun
    <2>3. \A h \in Hooks : <<e, h>> \notin received
      BY <2>2 DEF Traced, TracedAt
    <2>4. \A h \in Hooks : TracedAt(e, h)'
      BY <2>1, <2>3 DEF Wanting, TracedAt
    <2>5. \A f \in Events \ {e}, h \in Hooks : TracedAt(f, h)'
      BY <2>1, StillTraced DEF Traced
    <2> QED BY <2>4, <2>5 DEF Traced
  <1>4. ASSUME NEW e \in Events, NEW h \in Hooks, Deliver(e, h) \/ RecordFails(e, h)
        PROVE  Traced'
    <2>1. /\ \A f \in Events, k \in Hooks : f # e \/ k # h => job'[f][k] = job[f][k]
          /\ received' \subseteq received \cup {<<e, h>>} /\ excused \subseteq excused'
      BY <1>1, <1>4 DEF Deliver, Acquire, Post, Record, RecordFails, history
    <2>2. hook' = hook /\ hook[h] # "none"
      <3>1. job[e][h] # "none"
        BY <1>4 DEF Deliver, Acquire, Post, Record, RecordFails
      <3> QED BY <1>4, <3>1 DEF Traced, TracedAt, Deliver, Acquire, Post, Record, RecordFails,
                 record, tables
    <2>3. TracedAt(e, h)'
      <3>1. CASE Acquire(e, h)
        BY <1>1, <2>2, <3>1 DEF Acquire, Traced, TracedAt, history
      <3>2. CASE Post(e, h)
        <4>1. /\ job'[e][h] \in {"recording", "unlogged"} /\ <<e, h>> \notin received
              /\ job'[e][h] = "unlogged" => <<e, h>> \notin received'
          BY <1>1, <3>2 DEF Post, Traced, TracedAt
        <4> QED BY <2>2, <4>1 DEF TracedAt
      <3>3. CASE Record(e, h) /\ CanRecord(h)
        <4>1. job'[e][h] = "logged" /\ record(e, h) /\ job[e][h] = "recording"
          BY <1>1, <3>3 DEF Record
        <4>2. e \in Sources /\ answer[e][h] \in AllAnswers \ {"raised"}
          BY <4>1 DEF Sources, Capped, Typed, AnswersTyped
        <4> DEFINE entry == [event |-> e, status |-> Status(answer[e][h])]
        <4>3. log'[h] = Append(log[h], entry)
          BY <1>1, <4>1, <4>2, RecordType
        <4>4. log[h] \in Seq(Entries) /\ entry.event = e
          BY <1>1 DEF TablesTyped
        <4> HIDE DEF entry
        <4>5. Len(log[h]) + 1 \in 1..Len(log'[h]) /\ log'[h][Len(log[h]) + 1] = entry
          BY <4>3, <4>4
        <4>6. InLog(e, h)'
          BY <4>4, <4>5 DEF InLog
        <4> QED BY <2>2, <4>1, <4>6 DEF TracedAt
      <3>4. CASE Record(e, h) /\ ~CanRecord(h)
        <4>1. job'[e][h] = "unlogged" /\ hook[h] = "deleted"
          BY <1>1, <2>2, <3>4 DEF Record, CanRecord, Exists, TablesTyped
        <4> QED BY <2>2, <4>1 DEF TracedAt
      <3>5. CASE RecordFails(e, h)
        <4>1. job'[e][h] = "unlogged" /\ e \in excused'
          BY <1>1, <3>5 DEF RecordFails
        <4> QED BY <2>2, <4>1 DEF TracedAt
      <3> QED BY <1>4, <3>1, <3>2, <3>3, <3>4, <3>5 DEF Deliver
    <2>4. ASSUME NEW f \in Events, NEW k \in Hooks, f # e \/ k # h
          PROVE  TracedAt(f, k)'
      BY <2>1, <2>4, StillTraced DEF Traced
    <2> QED BY <2>3, <2>4 DEF Traced
  <1>5. CASE Exit \/ Crash
    <2>1. /\ UNCHANGED <<hook, log, received>>
          /\ \A e \in Events, h \in Hooks :
                job'[e][h] = IF job[e][h] \in Settled THEN job[e][h] ELSE "lost"
      BY <1>5 DEF Exit, Crash, Die, tables
    <2>2. excused \subseteq excused' /\ \A e \in Events : Unfinished(e) => e \in excused'
      BY <1>5, EndsAreExcused
    <2>3. \A e \in Events, h \in Hooks : job[e][h] \notin Settled => e \in excused'
      BY <1>1, <2>2 DEF Begun, Unfinished
    <2>4. ASSUME NEW e \in Events, NEW h \in Hooks PROVE TracedAt(e, h)'
      <3>1. CASE job[e][h] \in Settled
        BY <2>1, <2>2, <3>1, StillTraced DEF Traced
      <3>2. CASE job[e][h] \notin Settled
        <4>1. hook[h] # "none"
          BY <3>2 DEF Traced, TracedAt, Settled
        <4> QED BY <2>1, <2>3, <3>2, <4>1 DEF TracedAt
      <3> QED BY <3>1, <3>2
    <2> QED BY <2>4 DEF Traced
  <1>6. CASE \E e \in Events : emit(e) \/ LoadFails(e)
    BY <1>2, <1>6 DEF emit, LoadFails, history
  <1>7. CASE \E h \in Hooks : OperatorStep(h) \/ PingStep(h)
    BY <1>2, <1>7 DEF OperatorStep, create, enable, disable, rotate_secret, delete, StartPing,
           PingStep, PingAnswered, RecordPing, work, history
  <1>8. CASE ServerStep
    BY <1>2, <1>5, <1>8 DEF ServerStep, Stop, StartDrain, EndDrain, Restart, work, history
  <1> QED BY <1>3, <1>4, <1>6, <1>7, <1>8 DEF Next

\* "Did they get it?": what a receiver got is in the log of its hook once the
\* delivery is over, unless the hook is gone, or a crash, a failed write or the
\* deadline of a drain came between.
THEOREM ReceiptsAreLogged == Spec => []ReceivedIsLogged
  <1>1. Init => Traced
    BY DEF Init, Traced, TracedAt
  <1>2. Capped /\ Accounted /\ Traced /\ [Next]_vars => Traced'
    <2> SUFFICES ASSUME Capped, Accounted, Traced, [Next]_vars PROVE Traced'
      OBVIOUS
    <2>1. CASE UNCHANGED vars
      BY <2>1 DEF vars, tables, work, history, Traced, TracedAt, InLog
    <2> QED BY <2>1, StepTraced
  <1>3. Capped /\ Traced => ReceivedIsLogged
    BY DEF Traced, TracedAt, InLog, ReceivedIsLogged, Settled, Exists
  <1> QED BY <1>1, <1>2, <1>3, AlwaysAccounted, PTL DEF Spec
=============================================================================
