------------------------ MODULE OutboundQueueProofs ------------------------
(***************************************************************************)
(* Proofs about OutboundQueue, for every number of messages, senders,      *)
(* recipients, attempts, crashes and operator commands.                    *)
(***************************************************************************)
EXTENDS OutboundQueue, TLAPS

(* Lemmas on the operators of the queue. *)

LEMMA CodeFromType == \A f \in Failures : CodeFrom(f) \in Nat \ {0}
  <1> SUFFICES ASSUME NEW f \in Failures PROVE CodeFrom(f) \in Nat \ {0}
    OBVIOUS
  <1>1. f.says \in Nat
    BY QueueAssumption DEF QueueAssumption, Failure
  <1>2. CASE f.carried /\ f.says \in 200..599
    BY <1>1, <1>2 DEF CodeFrom
  <1>3. CASE ~(f.carried /\ f.says \in 200..599)
    BY <1>3 DEF CodeFrom, Transient
  <1> QED BY <1>2, <1>3

LEMMA NextRetryType == \A n \in Nat : next_retry_at(n) \in Int
  <1> SUFFICES ASSUME NEW n \in Nat PROVE next_retry_at(n) \in Int
    OBVIOUS
  <1>1. Delays \in Seq(Nat) /\ Len(Delays) \in Nat /\ Len(Delays) > 0
    BY QueueAssumption DEF QueueAssumption
  <1>2. \A i \in 1..Len(Delays) : Delays[i] \in Nat
    BY <1>1
  <1> QED BY <1>1, <1>2 DEF next_retry_at

LEMMA OutcomeType ==
    \A n \in Nat, c \in Nat : FailureOutcome(n, c) \in {"failed", "deferred"}
  BY DEF FailureOutcome, classify_failure

LEMMA CopiedType ==
    ASSUME copies \in [Messages -> [Recipients -> 0..CopyBound]],
           NEW m \in Messages, NEW R
    PROVE  Copied(m, R) \in [Messages -> [Recipients -> 0..CopyBound]]
  BY DEF Copied, CopyBound

LEMMA SaidType ==
    ASSUME verdict \in [Messages -> [Recipients -> Verdicts]],
           NEW m \in Messages, NEW R, NEW w \in Verdicts
    PROVE  Said(m, R, w) \in [Messages -> [Recipients -> Verdicts]]
  BY DEF Said, Worst, Verdicts

LEMMA WordType ==
    \A f, s : /\ Word(f) \in {"later", "refused", "never"}
              /\ HostWord(s, f) \in {"later", "refused", "never"}
  BY DEF Word, HostWord

-----------------------------------------------------------------------------
(* Types. *)

LEMMA TypeInit == Init => TypeOK
  BY QueueAssumption DEF QueueAssumption, Init, TypeOK, Statuses, Rows, Stages, Sending, Attempting,
     Verdicts, OK, CopyBound

LEMMA TypeSender ==
    ASSUME TypeOK, NEW s \in Senders, SenderStep(s)
    PROVE  TypeOK'
  <1>0. stage[s] \in Attempting => current[s] \in Messages
    BY DEF TypeOK
  <1>1. CASE ClaimSelect(s)
    BY <1>1 DEF ClaimSelect, TypeOK, Due, Stages, Attempting, Sending, rowVars, sendVars,
       history, budgets
  <1>2. CASE ClaimUpdate(s)
    BY <1>2 DEF ClaimUpdate, Claimed, TypeOK, Stages, Attempting, Sending, Statuses, Rows,
       sendVars, history, budgets
  <1>3. CASE StartAttempt(s)
    BY <1>3 DEF StartAttempt, TypeOK, Stages, Attempting, Sending, OK, rowVars, claimVars,
       history, budgets
  <1>4. CASE RelayAccepts(s)
    BY <1>0, <1>4, CopiedType DEF RelayAccepts, TypeOK, Stages, Attempting, Sending, OK,
       rowVars, claimVars, budgets
  <1>5. CASE RelayFails(s)
    <2>1. current[s] \in Messages
      BY <1>0, <1>5 DEF RelayFails, Attempting, Sending
    <2>2. PICK f \in Failures : verdict' = Said(current[s], AllRecipients(current[s]), Word(f))
      BY <1>5 DEF RelayFails
    <2>3. Word(f) \in Verdicts
      BY WordType DEF Verdicts
    <2>4. verdict' \in [Messages -> [Recipients -> Verdicts]]
      BY <2>1, <2>2, <2>3, SaidType DEF TypeOK
    <2> QED
      BY <1>0, <1>5, <2>1, <2>4, CopiedType, CodeFromType DEF RelayFails, TypeOK, Stages,
         Attempting, Sending, OK, rowVars, claimVars, budgets
  <1>6. CASE LookupMx(s)
    <2>1. PICK n \in 0..MaxMx :
            /\ hosts' = [hosts EXCEPT ![s] = n]
            /\ stage' = [stage EXCEPT ![s] = IF n = 0 THEN "marking" ELSE "connecting"]
            /\ code' = [code EXCEPT ![s] = IF n = 0 THEN Transient ELSE OK]
            /\ verdict' = IF n = 0 THEN Said(current[s], Group(s), "later")
                          ELSE verdict
      BY <1>6 DEF LookupMx
    <2>2. n \in Int
      BY QueueAssumption DEF QueueAssumption
    <2>3. stage[s] = "resolving" /\ current[s] \in Messages
      BY <1>0, <1>6 DEF LookupMx, Attempting, Sending
    <2>4. verdict' \in [Messages -> [Recipients -> Verdicts]]
      BY <2>1, <2>3, SaidType DEF TypeOK, Verdicts
    <2> QED
      BY <1>6, <2>1, <2>2, <2>3, <2>4 DEF LookupMx, TypeOK, Stages, Attempting, Sending,
         OK, Transient, rowVars, claimVars, budgets
  <1>7. CASE HostAccepts(s)
    <2>1. stage[s] = "connecting" /\ current[s] \in Messages
      BY <1>0, <1>7 DEF HostAccepts, Attempting, Sending
    <2>2. copies' \in [Messages -> [Recipients -> 0..CopyBound]]
      BY <1>7, <2>1, CopiedType DEF HostAccepts, TypeOK
    <2>3. stage' \in [Senders -> Stages] /\ leg' \in [Senders -> Nat \ {0}]
      <3>1. CASE leg[s] < Len(Groups[current[s]])
        <4>1. /\ leg' = [leg EXCEPT ![s] = leg[s] + 1]
              /\ stage' = [stage EXCEPT ![s] = "resolving"]
          BY <1>7, <3>1 DEF HostAccepts
        <4> QED BY <4>1 DEF TypeOK, Stages, Sending
      <3>2. CASE ~(leg[s] < Len(Groups[current[s]]))
        BY <1>7, <3>2 DEF HostAccepts, TypeOK, Stages, Sending
      <3> QED BY <3>1, <3>2
    <2>4. \A t \in Senders : stage'[t] \in Attempting => current'[t] \in batch'[t]
      BY <1>7, <2>1 DEF HostAccepts, TypeOK, Attempting, Sending, claimVars
    <2>5. hosts' \in [Senders -> Int] /\ code' \in [Senders -> Nat]
      BY <1>7 DEF HostAccepts, TypeOK, OK
    <2> QED
      BY <1>7, <2>2, <2>3, <2>4, <2>5 DEF HostAccepts, TypeOK, rowVars, claimVars, budgets
  <1>8. CASE HostFails(s)
    <2>1. current[s] \in Messages
      BY <1>0, <1>8 DEF HostFails, Attempting, Sending
    <2>2. PICK f \in Failures : verdict' = Said(current[s], Group(s), HostWord(s, f))
      BY <1>8 DEF HostFails
    <2>3. HostWord(s, f) \in Verdicts
      BY WordType DEF Verdicts
    <2>4. verdict' \in [Messages -> [Recipients -> Verdicts]]
      BY <2>1, <2>2, <2>3, SaidType DEF TypeOK
    <2> QED
      BY <1>0, <1>8, <2>1, <2>4, CopiedType, CodeFromType DEF HostFails, TypeOK, Stages,
         Attempting, Sending, OK, rowVars, claimVars, budgets
  <1>9. CASE mark_sent(s)
    BY <1>0, <1>9 DEF mark_sent, Marked, TypeOK, Stages, Attempting, Sending, OK, Statuses,
       Rows, history, budgets
  <1>10. CASE mark_failed(s)
    BY <1>0, <1>10, NextRetryType, OutcomeType DEF mark_failed, Marked, TypeOK, Stages,
       Attempting, Sending, OK, Statuses, Rows, history, budgets
  <1>11. CASE MarkFailedMissing(s)
    BY <1>11 DEF MarkFailedMissing, BatchLost, TypeOK, Stages, Attempting, Sending, OK,
       rowVars, history, budgets
  <1>12. CASE Exit(s) \/ Restart(s)
    BY <1>12 DEF Exit, Restart, TypeOK, Stages, Attempting, Sending, rowVars, claimVars,
       sendVars, history, budgets
  <1> QED
    BY <1>1, <1>2, <1>3, <1>4, <1>5, <1>6, <1>7, <1>8, <1>9, <1>10, <1>11, <1>12
    DEF SenderStep

LEMMA TypeFault ==
    ASSUME TypeOK, NEW s \in Senders, FaultStep(s)
    PROVE  TypeOK'
  <1>1. CASE Stop(s)
    BY <1>1 DEF Stop, TypeOK, rowVars, claimVars, sendVars, history
  <1>2. CASE DatabaseError(s)
    BY <1>2 DEF DatabaseError, BatchLost, TypeOK, Stages, Attempting, Sending, OK, rowVars,
       history
  <1>3. CASE Cancel(s)
    BY <1>3 DEF Cancel, Killed, BatchLost, TypeOK, Stages, Attempting, Sending, OK,
       rowVars, history
  <1>4. CASE Crash(s)
    BY <1>4 DEF Crash, Killed, BatchLost, TypeOK, Stages, Attempting, Sending, OK,
       rowVars, history
  <1> QED BY <1>1, <1>2, <1>3, <1>4 DEF FaultStep

LEMMA TypeOperator ==
    ASSUME TypeOK, OperatorStep
    PROVE  TypeOK'
  <1>1. CASE \E m \in Messages : RetryOne(m)
    BY <1>1 DEF RetryOne, retry_now, Operator, TypeOK, Statuses, Rows, Verdicts,
       claimVars, sendVars
  <1>2. CASE RetryFailed
    BY <1>2 DEF RetryFailed, retry_now, Operator, TypeOK, Statuses, Rows, Verdicts,
       claimVars, sendVars
  <1>3. CASE \E st \in Rows : purge(st)
    BY <1>3 DEF purge, Operator, TypeOK, Statuses, claimVars, sendVars, history
  <1>4. CASE SwitchRelay \/ DeleteDomain
    BY <1>4 DEF SwitchRelay, DeleteDomain, Operator, TypeOK, rowVars, claimVars, sendVars,
       history
  <1> QED BY <1>1, <1>2, <1>3, <1>4 DEF OperatorStep

LEMMA TypeNext == TypeOK /\ [Next]_vars => TypeOK'
  <1> SUFFICES ASSUME TypeOK, [Next]_vars PROVE TypeOK'
    OBVIOUS
  <1>1. CASE \E m \in Messages : enqueue(m)
    BY <1>1 DEF enqueue, TypeOK, Statuses, Rows, claimVars, sendVars, history, budgets
  <1>2. CASE Tick
    BY <1>2, QueueAssumption
       DEF QueueAssumption, Tick, TypeOK, claimVars, sendVars, history, budgets
  <1>3. CASE \E s \in Senders : SenderStep(s) \/ FaultStep(s)
    BY <1>3, TypeSender, TypeFault
  <1>4. CASE OperatorStep
    BY <1>4, TypeOperator
  <1>5. CASE UNCHANGED vars
    BY <1>5 DEF vars, TypeOK, rowVars, claimVars, sendVars, history, budgets
  <1> QED BY <1>1, <1>2, <1>3, <1>4, <1>5 DEF Next

\* Every variable of the queue and of its senders keeps its type.
THEOREM TypeCorrect == Spec => []TypeOK
  BY TypeInit, TypeNext, PTL DEF Spec

-----------------------------------------------------------------------------
(* Claims. *)

\* The operator does not aim `queue retry` at a message being sent.
RetrySparesClaims == "sending" \notin RetryTargets

LEMMA ExclusiveSender ==
    ASSUME TypeOK, ClaimIsExclusive, NEW s \in Senders, SenderStep(s)
    PROVE  ClaimIsExclusive'
  <1>1. CASE UNCHANGED <<status, batch>>
    BY <1>1 DEF ClaimIsExclusive
  <1>2. CASE ClaimUpdate(s)
    <2>1. \A m \in Claimed(s) : m \in Messages /\ status[m] \in Claimable
      BY DEF Claimed, TypeOK
    <2>2. \A t \in Senders : Claimed(s) \cap batch[t] = {}
      BY <2>1 DEF ClaimIsExclusive, Claimable
    <2>3. \A t \in Senders : batch'[t] = IF t = s THEN Claimed(s) ELSE batch[t]
      BY <1>2 DEF ClaimUpdate, TypeOK
    <2>4. \A m \in Messages :
            status'[m] = IF m \in Claimed(s) THEN "sending" ELSE status[m]
      BY <1>2 DEF ClaimUpdate
    <2>5. \A t \in Senders : batch[t] \subseteq Messages
      BY DEF TypeOK
    <2> QED BY <2>1, <2>2, <2>3, <2>4, <2>5 DEF ClaimIsExclusive
  <1>3. CASE mark_sent(s) \/ mark_failed(s)
    <2>1. current[s] \in batch[s]
      BY <1>3 DEF mark_sent, mark_failed, TypeOK, Attempting, Sending
    <2>2. \A t \in Senders : current[s] \notin batch'[t] /\ batch'[t] \subseteq batch[t]
      BY <1>3, <2>1 DEF mark_sent, mark_failed, Marked, TypeOK, ClaimIsExclusive
    <2>3. \A m \in Messages : m # current[s] => status'[m] = status[m]
      BY <1>3 DEF mark_sent, mark_failed, TypeOK
    <2> QED BY <2>2, <2>3 DEF ClaimIsExclusive, TypeOK
  <1>4. CASE MarkFailedMissing(s)
    BY <1>4 DEF MarkFailedMissing, BatchLost, rowVars, TypeOK, ClaimIsExclusive
  <1> QED
    BY <1>1, <1>2, <1>3, <1>4 DEF SenderStep, ClaimSelect, StartAttempt, RelayAccepts,
       RelayFails, LookupMx, HostAccepts, HostFails, Exit, Restart, rowVars, claimVars

LEMMA ExclusiveFault ==
    ASSUME TypeOK, ClaimIsExclusive, NEW s \in Senders, FaultStep(s)
    PROVE  ClaimIsExclusive'
  <1>1. /\ status' = status
        /\ batch' = batch \/ batch' = [batch EXCEPT ![s] = {}]
    BY DEF FaultStep, Stop, DatabaseError, Cancel, Crash, Killed, BatchLost, rowVars,
       claimVars
  <1>2. \A t \in Senders : batch'[t] \subseteq batch[t]
    BY <1>1 DEF TypeOK
  <1> QED BY <1>1, <1>2 DEF ClaimIsExclusive

LEMMA ExclusiveOperator ==
    ASSUME RetrySparesClaims, TypeOK, ClaimIsExclusive, OperatorStep
    PROVE  ClaimIsExclusive'
  <1>1. batch' = batch
    BY DEF OperatorStep, RetryOne, RetryFailed, retry_now, purge, SwitchRelay,
       DeleteDomain, claimVars
  <1>2. \A m \in Messages : status[m] \in {"sending", "purged"} =>
            status'[m] \in {"sending", "purged"}
    <2>1. CASE \E m \in Messages : RetryOne(m)
      BY <2>1, QueueAssumption DEF QueueAssumption, RetrySparesClaims, Rows, RetryOne,
         retry_now
    <2>2. CASE RetryFailed
      BY <2>2 DEF RetryFailed, retry_now
    <2>3. CASE \E st \in Rows : purge(st)
      BY <2>3 DEF purge
    <2>4. CASE SwitchRelay \/ DeleteDomain
      BY <2>4 DEF SwitchRelay, DeleteDomain, rowVars
    <2> QED BY <2>1, <2>2, <2>3, <2>4 DEF OperatorStep
  <1> QED BY <1>1, <1>2 DEF ClaimIsExclusive, TypeOK

LEMMA ExclusiveNext ==
    ASSUME RetrySparesClaims, TypeOK, ClaimIsExclusive, [Next]_vars
    PROVE  ClaimIsExclusive'
  <1>1. CASE \E m \in Messages : enqueue(m)
    <2>1. PICK m \in Messages : enqueue(m)
      BY <1>1
    <2>2. \A s \in Senders : m \notin batch[s] /\ batch'[s] = batch[s]
      BY <2>1 DEF enqueue, claimVars, ClaimIsExclusive
    <2>3. \A n \in Messages : n # m => status'[n] = status[n]
      BY <2>1 DEF enqueue, TypeOK
    <2> QED BY <2>2, <2>3 DEF ClaimIsExclusive, TypeOK
  <1>2. CASE Tick \/ UNCHANGED vars
    BY <1>2 DEF Tick, vars, rowVars, claimVars, ClaimIsExclusive
  <1>3. CASE \E s \in Senders : SenderStep(s) \/ FaultStep(s)
    BY <1>3, ExclusiveSender, ExclusiveFault
  <1>4. CASE OperatorStep
    BY <1>4, ExclusiveOperator
  <1> QED BY <1>1, <1>2, <1>3, <1>4 DEF Next

\* However many senders run, crash and race, no two of them ever hold the same
\* message, and no message in a batch goes back to the queue meanwhile.
THEOREM ClaimsAreExclusive ==
    ASSUME RetrySparesClaims PROVE Spec => []ClaimIsExclusive
  <1>1. Init => ClaimIsExclusive
    BY DEF Init, ClaimIsExclusive
  <1>2. TypeOK /\ ClaimIsExclusive /\ [Next]_vars => ClaimIsExclusive'
    BY ExclusiveNext
  <1> QED BY <1>1, <1>2, TypeCorrect, PTL DEF Spec

\* What a sender marks is still "sending" unless the operator purged it.
LEMMA MarkedIsSending ==
    ASSUME TypeOK, ClaimIsExclusive, NEW s \in Senders, stage[s] = "marking"
    PROVE  /\ current[s] \in Messages /\ current[s] \in batch[s]
           /\ status[current[s]] \in {"sending", "purged"}
  BY DEF TypeOK, ClaimIsExclusive, Attempting, Sending

\* No late answer overwrites the end of a message: once "sent" or "failed", its
\* row is changed by the operator alone.
THEOREM SettledStaysSettled ==
    ASSUME RetrySparesClaims PROVE Spec => SettledIsFinal
  <1> DEFINE Final == \A m \in Messages :
                status[m] \in {"sent", "failed"} /\ status'[m] # status[m] =>
                    ops' = ops + 1
  <1>1. TypeOK /\ ClaimIsExclusive /\ [Next]_vars => [Final]_vars
    <2> SUFFICES ASSUME TypeOK, ClaimIsExclusive, Next PROVE Final
      OBVIOUS
    <2>1. CASE \E m \in Messages : enqueue(m)
      BY <2>1 DEF enqueue, TypeOK
    <2>2. CASE Tick
      BY <2>2 DEF Tick
    <2>3. ASSUME NEW s \in Senders, SenderStep(s) PROVE Final
      <3>1. CASE UNCHANGED status
        BY <3>1
      <3>2. CASE ClaimUpdate(s)
        BY <3>2 DEF ClaimUpdate, Claimed, Claimable
      <3>3. CASE mark_sent(s) \/ mark_failed(s)
        <4>1. status[current[s]] \in {"sending", "purged"}
          BY <3>3, MarkedIsSending DEF mark_sent, mark_failed
        <4> QED BY <3>3, <4>1 DEF mark_sent, mark_failed, TypeOK
      <3> QED
        BY <2>3, <3>1, <3>2, <3>3 DEF SenderStep, ClaimSelect, StartAttempt,
           RelayAccepts, RelayFails, LookupMx, HostAccepts, HostFails, MarkFailedMissing,
           Exit, Restart, rowVars
    <2>4. ASSUME NEW s \in Senders, FaultStep(s) PROVE Final
      BY <2>4 DEF FaultStep, Stop, DatabaseError, Cancel, Crash, Killed, rowVars
    <2>5. CASE OperatorStep
      BY <2>5 DEF OperatorStep, RetryOne, RetryFailed, purge, SwitchRelay, DeleteDomain,
         Operator
    <2> QED BY <2>1, <2>2, <2>3, <2>4, <2>5 DEF Next
  <1> QED BY <1>1, TypeCorrect, ClaimsAreExclusive, PTL DEF Spec, SettledIsFinal

-----------------------------------------------------------------------------
(* Retries. *)

\* The inductive form: before its last attempt a message has an attempt left.
AttemptLeft ==
    \A m \in Messages :
        /\ attempts[m] <= MaxAttempts + ops
        /\ status[m] \in {"pending", "sending"} => attempts[m] < MaxAttempts + ops
        /\ status[m] = "deferred" => attempts[m] < MaxAttempts

LEMMA AttemptLeftNext ==
    ASSUME TypeOK, ClaimIsExclusive, AttemptLeft, [Next]_vars
    PROVE  AttemptLeft'
  <1>0. MaxAttempts \in Nat /\ MaxAttempts > 0 /\ ops \in Nat
    BY QueueAssumption DEF QueueAssumption, TypeOK
  <1>1. CASE \E m \in Messages : enqueue(m)
    BY <1>0, <1>1 DEF enqueue, AttemptLeft, TypeOK, budgets
  <1>2. CASE UNCHANGED <<status, attempts, ops>>
    BY <1>2 DEF AttemptLeft
  <1>3. ASSUME NEW s \in Senders, ClaimUpdate(s) PROVE AttemptLeft'
    <2>1. \A m \in Messages : status'[m] = status[m]
                \/ (status'[m] = "sending" /\ status[m] \in {"pending", "deferred"})
      BY <1>3 DEF ClaimUpdate, Claimed, Claimable
    <2>2. attempts' = attempts /\ ops' = ops
      BY <1>3 DEF ClaimUpdate, budgets
    <2> QED BY <1>0, <2>1, <2>2 DEF AttemptLeft, TypeOK
  <1>4. ASSUME NEW s \in Senders, mark_sent(s) PROVE AttemptLeft'
    BY <1>4 DEF mark_sent, AttemptLeft, TypeOK, budgets
  <1>5. ASSUME NEW s \in Senders, mark_failed(s) PROVE AttemptLeft'
    <2> DEFINE m == current[s]
               n == attempts[m] + 1
    <2>1. m \in Messages /\ status[m] = "sending"
      BY <1>5, MarkedIsSending DEF mark_failed
    <2>2. attempts[m] \in Nat /\ n <= MaxAttempts + ops
      BY <1>0, <2>1 DEF AttemptLeft, TypeOK
    <2>3. \A p \in Messages :
            attempts'[p] = (IF p = m THEN n ELSE attempts[p]) /\
            status'[p] = (IF p = m THEN FailureOutcome(n, code[s]) ELSE status[p])
      BY <1>5, <2>1 DEF mark_failed, TypeOK
    <2>4. FailureOutcome(n, code[s]) = "deferred" => n < MaxAttempts
      BY <1>0, <2>2 DEF FailureOutcome
    <2>5. FailureOutcome(n, code[s]) \in {"failed", "deferred"}
      BY DEF FailureOutcome, classify_failure
    <2>6. ops' = ops
      BY <1>5 DEF mark_failed, budgets
    <2> QED BY <1>0, <2>2, <2>3, <2>4, <2>5, <2>6 DEF AttemptLeft
  <1>6. CASE OperatorStep
    <2>1. ops' = ops + 1 /\ attempts' = attempts
      BY <1>6 DEF OperatorStep, RetryOne, RetryFailed, retry_now, purge, SwitchRelay,
         DeleteDomain, Operator, rowVars
    <2>2. \A m \in Messages : status'[m] \in {status[m], "pending", "purged"}
      <3>1. CASE \E m \in Messages : RetryOne(m)
        BY <3>1 DEF RetryOne, retry_now
      <3>2. CASE RetryFailed
        BY <3>2 DEF RetryFailed, retry_now
      <3>3. CASE \E st \in Rows : purge(st)
        BY <3>3 DEF purge
      <3>4. CASE SwitchRelay \/ DeleteDomain
        BY <3>4 DEF SwitchRelay, DeleteDomain, rowVars
      <3> QED BY <1>6, <3>1, <3>2, <3>3, <3>4 DEF OperatorStep
    <2> QED BY <1>0, <2>1, <2>2 DEF AttemptLeft, TypeOK
  <1>7. ASSUME NEW s \in Senders, SenderStep(s) PROVE AttemptLeft'
    BY <1>2, <1>3, <1>4, <1>5, <1>7 DEF SenderStep, ClaimSelect, StartAttempt,
       RelayAccepts, RelayFails, LookupMx, HostAccepts, HostFails, MarkFailedMissing,
       Exit, Restart, rowVars, budgets
  <1>8. ASSUME NEW s \in Senders, FaultStep(s) PROVE AttemptLeft'
    BY <1>2, <1>8 DEF FaultStep, Stop, DatabaseError, Cancel, Crash, Killed, rowVars
  <1>9. CASE Tick \/ UNCHANGED vars
    BY <1>2, <1>9 DEF Tick, vars, rowVars, budgets
  <1> QED BY <1>1, <1>6, <1>7, <1>8, <1>9 DEF Next

\* A message is given up after MaxAttempts failures, one more for each command
\* of the operator: no run of failures, crashes or claims keeps it going longer.
THEOREM RetriesStop ==
    ASSUME RetrySparesClaims PROVE Spec => []RetriesAreBounded
  <1>1. Init => AttemptLeft
    BY QueueAssumption DEF QueueAssumption, Init, AttemptLeft
  <1>2. TypeOK /\ ClaimIsExclusive /\ AttemptLeft /\ [Next]_vars => AttemptLeft'
    BY AttemptLeftNext
  <1>3. AttemptLeft => RetriesAreBounded
    BY DEF AttemptLeft, RetriesAreBounded
  <1> QED BY <1>1, <1>2, <1>3, TypeCorrect, ClaimsAreExclusive, PTL DEF Spec

-----------------------------------------------------------------------------
(* Delivery: everyone once, or nobody. *)

\* Where the queue can keep its promise: one recipient domain per message, a
\* remote that takes all or nothing and never takes what it then fails, and an
\* operator who retries deferred and failed messages only.
KindWorld ==
    /\ \A m \in Messages : Len(Groups[m]) = 1
    /\ \A f \in Failures : ~f.taken
    /\ ~PartialAcceptance
    /\ RetryTargets \subseteq {"deferred", "failed"}

Nobody(m) == \A r \in Recipients : copies[m][r] = 0
Everyone(m) ==
    \A r \in Recipients : copies[m][r] = IF r \in AllRecipients(m) THEN 1 ELSE 0

\* The one moment a message has been delivered and its row does not say so.
Delivered(s, m) == stage[s] = "marking" /\ current[s] = m /\ code[s] = OK

OnceInv ==
    /\ \A s \in Senders : leg[s] = 1
    /\ \A m \in Messages :
        /\ Nobody(m) \/ Everyone(m)
        /\ status[m] \in {"absent", "pending", "deferred", "failed"} => Nobody(m)
        /\ status[m] = "sent" => Everyone(m)
        /\ \A s \in Senders : m \in batch[s] =>
                IF Delivered(s, m) THEN Everyone(m) ELSE Nobody(m)

LEMMA OneGroup ==
    ASSUME KindWorld, NEW m \in Messages
    PROVE  AllRecipients(m) = Groups[m][1]
  <1>1. Len(Groups[m]) = 1
    BY DEF KindWorld
  <1>2. 1..1 = {1}
    OBVIOUS
  <1> QED BY <1>1, <1>2 DEF AllRecipients

LEMMA EnvelopeType == ASSUME NEW m \in Messages PROVE AllRecipients(m) \subseteq Recipients
  <1>1. Groups[m] \in Seq(SUBSET Recipients)
    BY QueueAssumption DEF QueueAssumption
  <1>2. \A i \in 1..Len(Groups[m]) : Groups[m][i] \in SUBSET Recipients
    BY <1>1
  <1> QED BY <1>2 DEF AllRecipients

LEMMA CareSparesClaims == KindWorld => RetrySparesClaims
  BY DEF KindWorld, RetrySparesClaims

\* Steps that copy nothing, take nothing out of a row's state and put no
\* sender before the marking of an undelivered message.
LEMMA OnceQuiet ==
    ASSUME OnceInv, copies' = copies, leg' = leg, status' = status,
           \A s \in Senders : batch'[s] \subseteq batch[s],
           \A s \in Senders : \A m \in batch'[s] : Delivered(s, m)' <=> Delivered(s, m)
    PROVE  OnceInv'
  BY DEF OnceInv, Nobody, Everyone

\* A remote that accepts takes a message nobody had to everyone.
LEMMA OnceAccepted ==
    ASSUME KindWorld, TypeOK, ClaimIsExclusive, OnceInv, NEW s \in Senders,
           stage[s] \in Attempting, stage[s] # "marking",
           copies' = Copied(current[s], AllRecipients(current[s])),
           leg' = leg, status' = status, batch' = batch, current' = current,
           stage' = [stage EXCEPT ![s] = "marking"], code' = [code EXCEPT ![s] = OK]
    PROVE  OnceInv'
  <1> DEFINE m == current[s]
  <1>1. m \in Messages /\ m \in batch[s] /\ Nobody(m)
    BY DEF OnceInv, Delivered, TypeOK
  <1>2. \A p \in Messages : p # m => copies'[p] = copies[p]
    BY DEF Copied, TypeOK
  <1>3. \A r \in Recipients :
            copies'[m][r] = IF r \in AllRecipients(m) THEN 1 ELSE 0
    <2> SUFFICES ASSUME NEW r \in Recipients
                 PROVE  copies'[m][r] = IF r \in AllRecipients(m) THEN 1 ELSE 0
      OBVIOUS
    <2>1. copies[m][r] = 0
      BY <1>1 DEF Nobody
    <2>2. copies'[m] = [q \in Recipients |->
              IF q \in AllRecipients(m) /\ copies[m][q] < CopyBound
              THEN copies[m][q] + 1 ELSE copies[m][q]]
      BY <1>1 DEF Copied, TypeOK
    <2> QED BY <2>1, <2>2 DEF CopyBound
  <1>4. Everyone(m)'
    <2>1. m' = m
      OBVIOUS
    <2>2. AllRecipients(m)' = AllRecipients(m)
      BY <2>1 DEF AllRecipients
    <2> QED BY <1>3, <2>1, <2>2 DEF Everyone
  <1>5. \A p \in Messages : p # m => (Nobody(p)' <=> Nobody(p)) /\ (Everyone(p)' <=> Everyone(p))
    BY <1>2 DEF Nobody, Everyone, AllRecipients
  <1>6. \A t \in Senders : t # s => m \notin batch[t]
    BY <1>1 DEF ClaimIsExclusive
  <1>7. \A t \in Senders : \A p \in batch[t] :
            p # m => (Delivered(t, p)' <=> Delivered(t, p))
    BY DEF Delivered, TypeOK
  <1>8. Delivered(s, m)'
    BY DEF Delivered, TypeOK
  <1>9. status[m] \in {"sending", "purged"}
    BY <1>1 DEF ClaimIsExclusive
  <1> QED BY <1>1, <1>4, <1>5, <1>6, <1>7, <1>8, <1>9 DEF OnceInv

LEMMA NothingTaken ==
    ASSUME TypeOK, NEW m \in Messages PROVE Copied(m, {}) = copies
  BY DEF Copied, TypeOK

LEMMA OnceMarked ==
    ASSUME TypeOK, ClaimIsExclusive, OnceInv, NEW s \in Senders,
           mark_sent(s) \/ mark_failed(s)
    PROVE  OnceInv'
  <1> DEFINE m == current[s]
  <1>1. m \in Messages /\ m \in batch[s] /\ status[m] \in {"sending", "purged"}
    BY MarkedIsSending DEF mark_sent, mark_failed
  <1>2. copies' = copies /\ leg' = leg
    BY DEF mark_sent, mark_failed, Marked, OnceInv, TypeOK, history
  <1>3. \A t \in Senders : m \notin batch'[t] /\ batch'[t] \subseteq batch[t]
    BY <1>1 DEF mark_sent, mark_failed, Marked, TypeOK, ClaimIsExclusive
  <1>4. \A p \in Messages : (Nobody(p)' <=> Nobody(p)) /\ (Everyone(p)' <=> Everyone(p))
    BY <1>2 DEF Nobody, Everyone, AllRecipients
  <1>5. \A p \in Messages : p # m => status'[p] = status[p]
    BY DEF mark_sent, mark_failed, TypeOK
  <1>6. status'[m] = "sent" => Everyone(m)
    <2>1. CASE mark_sent(s)
      BY <1>1, <2>1 DEF mark_sent, OnceInv, Delivered
    <2>2. CASE mark_failed(s)
      BY <1>1, <2>2 DEF mark_failed, FailureOutcome, classify_failure, TypeOK
    <2> QED BY <2>1, <2>2
  <1>7. status'[m] \in {"absent", "pending", "deferred", "failed"} => Nobody(m)
    <2>1. CASE mark_sent(s)
      BY <1>1, <2>1 DEF mark_sent, TypeOK
    <2>2. CASE mark_failed(s)
      BY <1>1, <2>2 DEF mark_failed, OnceInv, Delivered
    <2> QED BY <2>1, <2>2
  <1>8. \A t \in Senders : \A p \in batch'[t] : Delivered(t, p)' <=> Delivered(t, p)
    <2> SUFFICES ASSUME NEW t \in Senders, NEW p \in batch'[t]
                 PROVE  Delivered(t, p)' <=> Delivered(t, p)
      OBVIOUS
    <2>1. CASE t = s
      <3>1. current'[s] = NoMessage /\ p \in Messages /\ p # m
        BY <1>3, <2>1 DEF mark_sent, mark_failed, Marked, TypeOK
      <3> QED BY <2>1, <3>1, QueueAssumption DEF QueueAssumption, Delivered
    <2>2. CASE t # s
      BY <2>2 DEF Delivered, mark_sent, mark_failed, Marked, TypeOK
    <2> QED BY <2>1, <2>2
  <1> QED BY <1>1, <1>2, <1>3, <1>4, <1>5, <1>6, <1>7, <1>8 DEF OnceInv

LEMMA OnceSender ==
    ASSUME KindWorld, TypeOK, ClaimIsExclusive, OnceInv, NEW s \in Senders, SenderStep(s)
    PROVE  OnceInv'
  <1>0. stage[s] \in Attempting => current[s] \in Messages
    BY DEF TypeOK
  <1>1. CASE ClaimSelect(s) \/ Exit(s) \/ Restart(s)
    <2>1. /\ copies' = copies /\ leg' = leg /\ status' = status /\ batch' = batch
          /\ current' = current /\ code' = code
          /\ stage[s] # "marking" /\ \A t \in Senders : stage'[t] # "marking" \/ t # s
          /\ \A t \in Senders : t # s => stage'[t] = stage[t]
      BY <1>1 DEF ClaimSelect, Exit, Restart, rowVars, claimVars, sendVars, history, TypeOK
    <2> QED BY <2>1, OnceQuiet DEF Delivered
  <1>2. CASE ClaimUpdate(s)
    <2>1. \A m \in Claimed(s) : m \in Messages /\ status[m] \in Claimable
      BY DEF Claimed, TypeOK
    <2>2. \A m \in Claimed(s) : Nobody(m) /\ \A t \in Senders : m \notin batch[t]
      BY <2>1 DEF OnceInv, Claimable, ClaimIsExclusive
    <2>3. /\ copies' = copies /\ leg' = leg /\ current' = current /\ code' = code
          /\ \A t \in Senders : batch'[t] = IF t = s THEN Claimed(s) ELSE batch[t]
          /\ stage[s] = "claiming" /\ stage'[s] # "marking"
          /\ \A t \in Senders : t # s => stage'[t] = stage[t]
      BY <1>2 DEF ClaimUpdate, TypeOK, sendVars, history
    <2>4. \A m \in Messages :
            status'[m] = IF m \in Claimed(s) THEN "sending" ELSE status[m]
      BY <1>2 DEF ClaimUpdate
    <2>5. \A p \in Messages :
            (Nobody(p)' <=> Nobody(p)) /\ (Everyone(p)' <=> Everyone(p))
      BY <2>3 DEF Nobody, Everyone, AllRecipients
    <2>6. \A p \in Messages : ~Delivered(s, p)'
      BY <2>3 DEF Delivered
    <2>7. \A t \in Senders, p \in Messages : t # s => (Delivered(t, p)' <=> Delivered(t, p))
      BY <2>3 DEF Delivered
    <2> QED BY <2>2, <2>3, <2>4, <2>5, <2>6, <2>7 DEF OnceInv
  <1>3. CASE StartAttempt(s)
    <2>1. /\ copies' = copies /\ leg' = leg /\ status' = status /\ batch' = batch
          /\ stage[s] = "batch"
          /\ stage'[s] = "marking" => code'[s] = 550
          /\ \A t \in Senders : t # s =>
                stage'[t] = stage[t] /\ code'[t] = code[t] /\ current'[t] = current[t]
      BY <1>3 DEF StartAttempt, rowVars, claimVars, history, TypeOK, OnceInv
    <2> QED BY <2>1, OnceQuiet DEF Delivered, OK
  <1>4. CASE RelayAccepts(s)
    BY <1>0, <1>4, OnceAccepted DEF RelayAccepts, Accepted, KindWorld, Attempting, Sending,
       rowVars, claimVars
  <1>5. CASE RelayFails(s)
    <2>1. PICK f \in Failures :
            /\ copies' = Copied(current[s], IF f.taken THEN AllRecipients(current[s]) ELSE {})
            /\ code' = [code EXCEPT ![s] = CodeFrom(f)]
      BY <1>5 DEF RelayFails
    <2>2. copies' = copies /\ CodeFrom(f) # OK
      BY <1>0, <1>5, <2>1, NothingTaken, CodeFromType
      DEF KindWorld, RelayFails, Attempting, Sending, OK
    <2>3. /\ leg' = leg /\ status' = status /\ batch' = batch /\ current' = current
          /\ stage[s] = "relaying" /\ code'[s] # OK
          /\ \A t \in Senders : t # s => stage'[t] = stage[t] /\ code'[t] = code[t]
      BY <1>5, <2>1, <2>2 DEF RelayFails, rowVars, claimVars, TypeOK
    <2> QED BY <2>2, <2>3, OnceQuiet DEF Delivered
  <1>6. CASE LookupMx(s)
    <2>1. PICK n \in 0..MaxMx :
            /\ stage' = [stage EXCEPT ![s] = IF n = 0 THEN "marking" ELSE "connecting"]
            /\ code' = [code EXCEPT ![s] = IF n = 0 THEN Transient ELSE OK]
      BY <1>6 DEF LookupMx
    <2>2. /\ copies' = copies /\ leg' = leg /\ status' = status /\ batch' = batch
          /\ current' = current /\ stage[s] = "resolving"
          /\ stage'[s] = "marking" => code'[s] # OK
          /\ \A t \in Senders : t # s => stage'[t] = stage[t] /\ code'[t] = code[t]
      BY <1>6, <2>1 DEF LookupMx, rowVars, claimVars, TypeOK, OK, Transient
    <2> QED BY <2>2, OnceQuiet DEF Delivered
  <1>7. CASE HostAccepts(s)
    <2>1. current[s] \in Messages /\ stage[s] = "connecting" /\ leg[s] = 1
      BY <1>0, <1>7 DEF HostAccepts, Attempting, Sending, OnceInv
    <2>2. Len(Groups[current[s]]) = 1
      BY <2>1 DEF KindWorld
    <2>3. Group(s) = AllRecipients(current[s])
      BY <2>1, OneGroup DEF Group
    <2>4. copies' = Copied(current[s], AllRecipients(current[s]))
      BY <1>7, <2>3 DEF HostAccepts, Accepted, KindWorld
    <2>5. leg' = leg /\ stage' = [stage EXCEPT ![s] = "marking"]
      BY <1>7, <2>1, <2>2 DEF HostAccepts
    <2>6. /\ status' = status /\ batch' = batch /\ current' = current
          /\ code' = [code EXCEPT ![s] = OK]
      BY <1>7 DEF HostAccepts, rowVars, claimVars
    <2> QED BY <2>1, <2>4, <2>5, <2>6, OnceAccepted DEF Attempting, Sending
  <1>8. CASE HostFails(s)
    <2>1. PICK f \in Failures :
            /\ copies' = Copied(current[s], IF f.taken THEN Group(s) ELSE {})
            /\ code' = [code EXCEPT ![s] = IF hosts[s] > 1 THEN OK ELSE CodeFrom(f)]
      BY <1>8 DEF HostFails
    <2>2. copies' = copies /\ CodeFrom(f) # OK
      BY <1>0, <1>8, <2>1, NothingTaken, CodeFromType
      DEF KindWorld, HostFails, Attempting, Sending, OK
    <2>3. /\ leg' = leg /\ status' = status /\ batch' = batch /\ current' = current
          /\ stage[s] = "connecting"
          /\ stage'[s] = "marking" => code'[s] # OK
          /\ \A t \in Senders : t # s => stage'[t] = stage[t] /\ code'[t] = code[t]
      BY <1>8, <2>1, <2>2 DEF HostFails, rowVars, claimVars, TypeOK
    <2> QED BY <2>2, <2>3, OnceQuiet DEF Delivered
  <1>9. CASE mark_sent(s) \/ mark_failed(s)
    BY <1>9, OnceMarked
  <1>10. CASE MarkFailedMissing(s)
    <2>1. /\ copies' = copies /\ status' = status /\ leg' = leg
          /\ \A t \in Senders : batch'[t] = IF t = s THEN {} ELSE batch[t]
          /\ \A t \in Senders : t # s =>
                stage'[t] = stage[t] /\ code'[t] = code[t] /\ current'[t] = current[t]
      BY <1>10 DEF MarkFailedMissing, BatchLost, TypeOK, OnceInv, rowVars, history
    <2> QED BY <2>1, OnceQuiet DEF Delivered
  <1> QED
    BY <1>1, <1>2, <1>3, <1>4, <1>5, <1>6, <1>7, <1>8, <1>9, <1>10 DEF SenderStep

LEMMA OnceFault ==
    ASSUME TypeOK, OnceInv, NEW s \in Senders, FaultStep(s)
    PROVE  OnceInv'
  <1>1. CASE Stop(s)
    BY <1>1, OnceQuiet DEF Stop, rowVars, claimVars, sendVars, history, Delivered
  <1>2. CASE DatabaseError(s) \/ Cancel(s) \/ Crash(s)
    <2>1. /\ copies' = copies /\ status' = status /\ leg' = leg
          /\ \A t \in Senders : batch'[t] = IF t = s THEN {} ELSE batch[t]
          /\ \A t \in Senders : t # s =>
                stage'[t] = stage[t] /\ code'[t] = code[t] /\ current'[t] = current[t]
      BY <1>2 DEF DatabaseError, Cancel, Crash, Killed, BatchLost, TypeOK, OnceInv,
         rowVars, history
    <2> QED BY <2>1, OnceQuiet DEF Delivered
  <1> QED BY <1>1, <1>2 DEF FaultStep

\* Steps of the environment move rows between states that agree on who has a
\* copy, and touch no sender.
LEMMA OnceRows ==
    ASSUME OnceInv, copies' = copies, leg' = leg, batch' = batch, stage' = stage,
           current' = current, code' = code,
           \A m \in Messages :
             \/ status'[m] = status[m]
             \/ status'[m] = "purged"
             \/ status[m] \in {"absent", "deferred", "failed"} /\ status'[m] = "pending"
    PROVE  OnceInv'
  <1>1. \A p \in Messages :
            (Nobody(p)' <=> Nobody(p)) /\ (Everyone(p)' <=> Everyone(p))
    BY DEF Nobody, Everyone, AllRecipients
  <1>2. \A s \in Senders, p \in Messages : Delivered(s, p)' <=> Delivered(s, p)
    BY DEF Delivered
  <1> QED BY <1>1, <1>2 DEF OnceInv

LEMMA OnceNext ==
    ASSUME KindWorld, TypeOK, ClaimIsExclusive, OnceInv, [Next]_vars
    PROVE  OnceInv'
  <1>1. CASE \E m \in Messages : enqueue(m)
    <2>1. PICK m \in Messages : enqueue(m)
      BY <1>1
    <2>2. \A n \in Messages : status'[n] = IF n = m THEN "pending" ELSE status[n]
      BY <2>1 DEF enqueue, TypeOK
    <2>3. status[m] = "absent"
      BY <2>1 DEF enqueue
    <2> QED BY <2>1, <2>2, <2>3, OnceRows DEF enqueue, claimVars, sendVars, history
  <1>2. CASE Tick \/ UNCHANGED vars
    BY <1>2, OnceRows DEF Tick, vars, rowVars, claimVars, sendVars, history
  <1>3. CASE \E s \in Senders : SenderStep(s) \/ FaultStep(s)
    BY <1>3, OnceSender, OnceFault
  <1>4. CASE OperatorStep
    <2>1. /\ copies' = copies /\ leg' = leg /\ batch' = batch /\ stage' = stage
          /\ current' = current /\ code' = code
      BY <1>4 DEF OperatorStep, RetryOne, RetryFailed, retry_now, purge, SwitchRelay,
         DeleteDomain, claimVars, sendVars, history
    <2>2. CASE \E m \in Messages : RetryOne(m)
      BY <2>1, <2>2, OnceRows DEF KindWorld, RetryOne, retry_now
    <2>3. CASE RetryFailed
      BY <2>1, <2>3, OnceRows DEF RetryFailed, retry_now
    <2>4. CASE \E st \in Rows : purge(st)
      BY <2>1, <2>4, OnceRows DEF purge
    <2>5. CASE SwitchRelay \/ DeleteDomain
      BY <2>1, <2>5, OnceRows DEF SwitchRelay, DeleteDomain, rowVars
    <2> QED BY <1>4, <2>2, <2>3, <2>4, <2>5 DEF OperatorStep
  <1> QED BY <1>1, <1>2, <1>3, <1>4 DEF Next

LEMMA OnceHolds == ASSUME KindWorld PROVE Spec => []OnceInv
  <1>1. Init => OnceInv
    BY DEF Init, OnceInv, Nobody
  <1>2. TypeOK /\ ClaimIsExclusive /\ OnceInv /\ [Next]_vars => OnceInv'
    BY OnceNext
  <1>3. Spec => []ClaimIsExclusive
    BY CareSparesClaims, ClaimsAreExclusive
  <1> QED BY <1>1, <1>2, <1>3, TypeCorrect, PTL DEF Spec

\* No recipient gets a message twice: neither a retry nor a second sender nor a
\* restart can send again what was sent.
THEOREM DeliveredAtMostOnce ==
    ASSUME KindWorld PROVE Spec => []NeverDeliveredTwice
  <1>1. OnceInv => NeverDeliveredTwice
    BY DEF OnceInv, NeverDeliveredTwice, Nobody, Everyone
  <1> QED BY <1>1, OnceHolds, PTL

\* A row that says "sent" tells the truth about every recipient.
THEOREM SentIsTrue ==
    ASSUME KindWorld PROVE Spec => []SentMeansDelivered
  <1>1. OnceInv => SentMeansDelivered
    <2> SUFFICES ASSUME OnceInv, NEW m \in Messages, status[m] = "sent",
                        NEW r \in AllRecipients(m)
                 PROVE  copies[m][r] >= 1
      BY DEF SentMeansDelivered
    <2>1. r \in Recipients
      BY EnvelopeType
    <2> QED BY <2>1 DEF OnceInv, Everyone
  <1> QED BY <1>1, OnceHolds, PTL

-----------------------------------------------------------------------------
(* Permanent failures. *)

NoNever(m) == \A r \in Recipients : verdict[m][r] # "never"

\* The sender is about to record that its message failed for good.
Judged(s, m) ==
    /\ stage[s] = "marking" /\ current[s] = m
    /\ code[s] # OK /\ classify_failure(code[s]) = "failed"

OnALeg ==
    \A s \in Senders :
        stage[s] \in {"resolving", "connecting"} => leg[s] <= Len(Groups[current[s]])

\* Nothing that is, or will be, offered came to a permanent failure before.
NeverInv ==
    /\ \A s \in Senders : \A m \in batch[s] : NoNever(m) \/ Judged(s, m)
    /\ \A m \in Messages : status[m] \in {"absent", "pending", "deferred"} => NoNever(m)

\* What a failure adds to the history.
LEMMA SaidWorst ==
    ASSUME TypeOK, NEW m \in Messages, NEW R, NEW w \in {"later", "refused", "never"}
    PROVE  /\ \A p \in Messages : p # m => Said(m, R, w)[p] = verdict[p]
           /\ \A r \in Recipients : Said(m, R, w)[m][r] = "never" =>
                  verdict[m][r] = "never" \/ w = "never"
  BY DEF Said, Worst, TypeOK

\* A failure an attempt came to that was permanent is recorded as one.
LEMMA PermanentIsJudged ==
    ASSUME NEW f \in Failures, Word(f) = "never"
    PROVE  CodeFrom(f) # OK /\ classify_failure(CodeFrom(f)) = "failed"
  <1>1. f.says \in 500..599 /\ CodeFrom(f) = f.says
    BY DEF Word
  <1> DEFINE c == CodeFrom(f)
  <1>2. c \in 500..599
    BY <1>1
  <1> HIDE DEF c
  <1>3. c # 0 /\ c \notin 400..499
    BY <1>2
  <1>4. c # OK /\ classify_failure(c) = "failed"
    BY <1>3 DEF OK, classify_failure
  <1> QED BY <1>4 DEF c

\* Steps after which nothing more has been refused.
LEMMA NeverQuiet ==
    ASSUME NeverInv, verdict' = verdict, status' = status,
           \A s \in Senders : batch'[s] \subseteq batch[s],
           \A s \in Senders : \A m \in batch'[s] : Judged(s, m) => Judged(s, m)'
    PROVE  NeverInv'
  <1>1. \A m : NoNever(m)' <=> NoNever(m)
    BY DEF NoNever
  <1> QED BY <1>1 DEF NeverInv

\* A failed send of which the word is w: a permanent one goes on to be recorded.
LEMMA NeverFailed ==
    ASSUME TypeOK, ClaimIsExclusive, NeverInv, NEW s \in Senders,
           stage[s] \in Attempting, stage[s] # "marking",
           NEW w \in {"later", "refused", "never"}, NEW R,
           verdict' = Said(current[s], R, w),
           w = "never" =>
              stage'[s] = "marking" /\ code'[s] # OK /\ classify_failure(code'[s]) = "failed",
           status' = status, batch' = batch, current' = current,
           \A t \in Senders : t # s => stage'[t] = stage[t] /\ code'[t] = code[t]
    PROVE  NeverInv'
  <1> DEFINE m == current[s]
  <1>1. m \in Messages /\ m \in batch[s] /\ NoNever(m)
    BY DEF NeverInv, Judged, TypeOK
  <1>2. /\ \A p \in Messages : p # m => verdict'[p] = verdict[p]
        /\ \A r \in Recipients : verdict'[m][r] = "never" =>
              verdict[m][r] = "never" \/ w = "never"
    BY <1>1, SaidWorst
  <1>3. \A p \in Messages : p # m => (NoNever(p)' <=> NoNever(p))
    BY <1>2 DEF NoNever
  <1>4. NoNever(m)' \/ Judged(s, m)'
    <2>1. CASE w = "never"
      BY <2>1 DEF Judged, classify_failure
    <2>2. CASE w # "never"
      BY <1>1, <1>2, <2>2 DEF NoNever
    <2> QED BY <2>1, <2>2
  <1>5. status[m] \in {"sending", "purged"} /\ \A t \in Senders : t # s => m \notin batch[t]
    BY <1>1 DEF ClaimIsExclusive
  <1>6. \A t \in Senders : \A p \in batch[t] : p \in Messages
    BY DEF TypeOK
  <1>7. \A t \in Senders, p \in Messages : t # s => (Judged(t, p) => Judged(t, p)')
    BY DEF Judged
  <1>8. \A p \in batch[s] : p # m => NoNever(p)
    BY DEF NeverInv, Judged
  <1>9. ASSUME NEW t \in Senders, NEW p \in batch'[t] PROVE NoNever(p)' \/ Judged(t, p)'
    <2>1. p \in batch[t] /\ p \in Messages
      BY <1>6, <1>9
    <2>2. CASE p = m
      <3>1. t = s
        BY <1>5, <2>1, <2>2
      <3>2. m' = m
        OBVIOUS
      <3> QED BY <1>4, <2>2, <3>1, <3>2 DEF NoNever, Judged
    <2>3. CASE p # m
      BY <1>3, <1>7, <1>8, <2>1, <2>3 DEF NeverInv
    <2> QED BY <2>2, <2>3
  <1> QED BY <1>3, <1>5, <1>9 DEF NeverInv

LEMMA NeverSender ==
    ASSUME TypeOK, ClaimIsExclusive, NeverInv, NEW s \in Senders,
           SenderStep(s)
    PROVE  NeverInv'
  <1>0. stage[s] \in Attempting => current[s] \in Messages
    BY DEF TypeOK
  <1>1. CASE ClaimSelect(s) \/ Exit(s) \/ Restart(s)
    <2>1. /\ verdict' = verdict /\ status' = status /\ batch' = batch
          /\ current' = current /\ code' = code /\ stage[s] # "marking"
          /\ \A t \in Senders : t # s => stage'[t] = stage[t]
      BY <1>1 DEF ClaimSelect, Exit, Restart, rowVars, claimVars, sendVars, history, TypeOK
    <2> QED BY <2>1, NeverQuiet DEF Judged
  <1>2. CASE ClaimUpdate(s)
    <2>1. \A m \in Claimed(s) : m \in Messages /\ NoNever(m)
      BY DEF Claimed, Claimable, TypeOK, NeverInv
    <2>2. /\ verdict' = verdict /\ current' = current /\ code' = code
          /\ \A t \in Senders : batch'[t] = IF t = s THEN Claimed(s) ELSE batch[t]
          /\ \A t \in Senders : t # s => stage'[t] = stage[t]
      BY <1>2 DEF ClaimUpdate, TypeOK, sendVars, history
    <2>3. \A m \in Messages : status'[m] = IF m \in Claimed(s) THEN "sending" ELSE status[m]
      BY <1>2 DEF ClaimUpdate
    <2>4. \A m : NoNever(m)' <=> NoNever(m)
      BY <2>2 DEF NoNever
    <2>5. \A t \in Senders : \A m : t # s => (Judged(t, m)' <=> Judged(t, m))
      BY <2>2 DEF Judged
    <2> QED BY <2>1, <2>2, <2>3, <2>4, <2>5 DEF NeverInv
  <1>3. CASE StartAttempt(s) \/ RelayAccepts(s) \/ HostAccepts(s)
    <2>1. /\ verdict' = verdict /\ status' = status /\ batch' = batch /\ stage[s] # "marking"
          /\ \A t \in Senders : t # s =>
                stage'[t] = stage[t] /\ code'[t] = code[t] /\ current'[t] = current[t]
      BY <1>3 DEF StartAttempt, RelayAccepts, HostAccepts, rowVars, claimVars, history, TypeOK
    <2> QED BY <2>1, NeverQuiet DEF Judged
  <1>4. CASE RelayFails(s)
    <2>1. PICK f \in Failures :
            /\ verdict' = Said(current[s], AllRecipients(current[s]), Word(f))
            /\ code' = [code EXCEPT ![s] = CodeFrom(f)]
      BY <1>4 DEF RelayFails
    <2>2. /\ status' = status /\ batch' = batch /\ current' = current
          /\ stage[s] = "relaying" /\ stage'[s] = "marking" /\ code'[s] = CodeFrom(f)
          /\ \A t \in Senders : t # s => stage'[t] = stage[t] /\ code'[t] = code[t]
      BY <1>4, <2>1 DEF RelayFails, rowVars, claimVars, TypeOK
    <2>3. Word(f) = "never" => code'[s] # OK /\ classify_failure(code'[s]) = "failed"
      BY <2>2, PermanentIsJudged
    <2>4. Word(f) \in {"later", "refused", "never"}
      BY WordType
    <2> QED BY <2>1, <2>2, <2>3, <2>4, NeverFailed DEF Attempting, Sending
  <1>5. CASE LookupMx(s)
    <2>1. PICK n \in 0..MaxMx :
            /\ stage' = [stage EXCEPT ![s] = IF n = 0 THEN "marking" ELSE "connecting"]
            /\ verdict' = IF n = 0 THEN Said(current[s], Group(s), "later") ELSE verdict
      BY <1>5 DEF LookupMx
    <2>2. /\ status' = status /\ batch' = batch /\ current' = current /\ stage[s] = "resolving"
          /\ \A t \in Senders : t # s => stage'[t] = stage[t] /\ code'[t] = code[t]
      BY <1>5, <2>1 DEF LookupMx, rowVars, claimVars, TypeOK
    <2>3. CASE n = 0
      <3>1. verdict' = Said(current[s], Group(s), "later")
        BY <2>1, <2>3
      <3> QED BY <2>2, <3>1, NeverFailed DEF Attempting, Sending
    <2>4. CASE n # 0
      BY <2>1, <2>2, <2>4, NeverQuiet DEF Judged
    <2> QED BY <2>3, <2>4
  <1>6. CASE HostFails(s)
    <2>1. PICK f \in Failures :
            /\ verdict' = Said(current[s], Group(s), HostWord(s, f))
            /\ code' = [code EXCEPT ![s] = IF hosts[s] > 1 THEN OK ELSE CodeFrom(f)]
      BY <1>6 DEF HostFails
    <2>2. /\ status' = status /\ batch' = batch /\ current' = current
          /\ stage[s] = "connecting"
          /\ \A t \in Senders : t # s => stage'[t] = stage[t] /\ code'[t] = code[t]
      BY <1>6, <2>1 DEF HostFails, rowVars, claimVars, TypeOK
    <2>3. HostWord(s, f) = "never" =>
             stage'[s] = "marking" /\ code'[s] # OK /\ classify_failure(code'[s]) = "failed"
      <3>1. SUFFICES ASSUME HostWord(s, f) = "never"
                     PROVE  stage'[s] = "marking" /\ code'[s] # OK
                            /\ classify_failure(code'[s]) = "failed"
        OBVIOUS
      <3>2. ~(hosts[s] > 1) /\ Word(f) = "never"
        BY <3>1 DEF HostWord
      <3>3. stage'[s] = "marking" /\ code'[s] = CodeFrom(f)
        BY <1>6, <2>1, <3>2 DEF HostFails, TypeOK
      <3> QED BY <3>2, <3>3, PermanentIsJudged
    <2>4. HostWord(s, f) \in {"later", "refused", "never"}
      BY WordType
    <2> QED BY <2>1, <2>2, <2>3, <2>4, NeverFailed DEF Attempting, Sending
  <1>7. CASE mark_sent(s) \/ mark_failed(s)
    <2> DEFINE m == current[s]
    <2>1. m \in Messages /\ m \in batch[s]
      BY <1>7, MarkedIsSending DEF mark_sent, mark_failed
    <2>2. verdict' = verdict
      BY <1>7 DEF mark_sent, mark_failed, history
    <2>3. \A t \in Senders : m \notin batch'[t] /\ batch'[t] \subseteq batch[t]
      BY <1>7, <2>1 DEF mark_sent, mark_failed, Marked, TypeOK, ClaimIsExclusive
    <2>4. \A t \in Senders : \A p \in batch'[t] : Judged(t, p) => Judged(t, p)'
      <3>1. \A t \in Senders : t # s =>
                stage'[t] = stage[t] /\ code'[t] = code[t] /\ current'[t] = current[t]
        BY <1>7 DEF mark_sent, mark_failed, Marked, TypeOK
      <3> QED BY <2>3, <3>1 DEF Judged
    <2>5. \A p \in Messages : NoNever(p)' <=> NoNever(p)
      BY <2>2 DEF NoNever
    <2>6. \A p \in Messages : p # m => status'[p] = status[p]
      BY <1>7 DEF mark_sent, mark_failed, TypeOK
    <2>7. status'[m] \in {"absent", "pending", "deferred"} => NoNever(m)
      <3>1. CASE mark_sent(s)
        BY <2>1, <3>1 DEF mark_sent, TypeOK
      <3>2. CASE mark_failed(s)
        <4>1. status'[m] = FailureOutcome(attempts[m] + 1, code[s])
          BY <2>1, <3>2 DEF mark_failed, TypeOK
        <4>2. status'[m] = "deferred" => ~Judged(s, m)
          BY <4>1 DEF FailureOutcome, classify_failure, Judged
        <4>3. status'[m] \in {"deferred", "failed"}
          BY <4>1 DEF FailureOutcome, classify_failure
        <4> QED BY <2>1, <4>2, <4>3 DEF NeverInv
      <3> QED BY <1>7, <3>1, <3>2
    <2>8. \A t \in Senders : \A p \in batch'[t] : p \in Messages
      BY <2>3 DEF TypeOK
    <2> QED BY <2>3, <2>4, <2>5, <2>6, <2>7, <2>8 DEF NeverInv
  <1>8. CASE MarkFailedMissing(s)
    <2>1. /\ verdict' = verdict /\ status' = status
          /\ \A t \in Senders : batch'[t] = IF t = s THEN {} ELSE batch[t]
          /\ \A t \in Senders : t # s =>
                stage'[t] = stage[t] /\ code'[t] = code[t] /\ current'[t] = current[t]
      BY <1>8 DEF MarkFailedMissing, BatchLost, TypeOK, rowVars, history
    <2> QED BY <2>1, NeverQuiet DEF Judged
  <1> QED BY <1>1, <1>2, <1>3, <1>4, <1>5, <1>6, <1>7, <1>8 DEF SenderStep

LEMMA NeverFault ==
    ASSUME TypeOK, NeverInv, NEW s \in Senders, FaultStep(s)
    PROVE  NeverInv'
  <1>1. CASE Stop(s)
    BY <1>1, NeverQuiet DEF Stop, rowVars, claimVars, sendVars, history, Judged
  <1>2. CASE DatabaseError(s) \/ Cancel(s) \/ Crash(s)
    <2>1. /\ verdict' = verdict /\ status' = status
          /\ \A t \in Senders : batch'[t] = IF t = s THEN {} ELSE batch[t]
          /\ \A t \in Senders : t # s =>
                stage'[t] = stage[t] /\ code'[t] = code[t] /\ current'[t] = current[t]
      BY <1>2 DEF DatabaseError, Cancel, Crash, Killed, BatchLost, TypeOK, rowVars, history
    <2> QED BY <2>1, NeverQuiet DEF Judged
  <1> QED BY <1>1, <1>2 DEF FaultStep

\* The operator and the clients touch no sender; a retry starts the history again.
LEMMA NeverRows ==
    ASSUME TypeOK, NeverInv, batch' = batch, stage' = stage, current' = current, code' = code,
           \A m \in Messages :
             \/ verdict'[m] = [r \in Recipients |-> "none"]
             \/ /\ verdict'[m] = verdict[m]
                /\ \/ status'[m] = status[m] \/ status'[m] = "purged"
                   \/ status[m] = "absent" /\ status'[m] = "pending"
    PROVE  NeverInv'
  <1>1. \A m \in Messages : NoNever(m) => NoNever(m)'
    BY DEF NoNever
  <1>2. \A s \in Senders, m \in Messages : Judged(s, m)' <=> Judged(s, m)
    BY DEF Judged
  <1>3. \A m \in Messages : verdict'[m] = [r \in Recipients |-> "none"] => NoNever(m)'
    BY DEF NoNever
  <1>4. \A s \in Senders : batch[s] \subseteq Messages
    BY DEF TypeOK
  <1> QED BY <1>1, <1>2, <1>3, <1>4 DEF NeverInv

LEMMA NeverNext ==
    ASSUME TypeOK, ClaimIsExclusive, NeverInv, [Next]_vars
    PROVE  NeverInv'
  <1>1. ASSUME NEW m \in Messages, enqueue(m) PROVE NeverInv'
    <2>1. \A n \in Messages : status'[n] = IF n = m THEN "pending" ELSE status[n]
      BY <1>1 DEF enqueue, TypeOK
    <2>2. /\ status[m] = "absent" /\ verdict' = verdict /\ batch' = batch /\ stage' = stage
          /\ current' = current /\ code' = code
      BY <1>1 DEF enqueue, claimVars, sendVars, history
    <2> QED BY <2>1, <2>2, NeverRows
  <1>2. CASE Tick \/ UNCHANGED vars
    BY <1>2, NeverRows DEF Tick, vars, rowVars, claimVars, sendVars, history
  <1>3. CASE \E s \in Senders : SenderStep(s) \/ FaultStep(s)
    BY <1>3, NeverSender, NeverFault
  <1>4. CASE OperatorStep
    <2>1. /\ batch' = batch /\ stage' = stage /\ current' = current /\ code' = code
      BY <1>4 DEF OperatorStep, RetryOne, RetryFailed, retry_now, purge, SwitchRelay,
         DeleteDomain, claimVars, sendVars
    <2>2. ASSUME NEW S, retry_now(S) PROVE NeverInv'
      BY <2>1, <2>2, NeverRows DEF retry_now
    <2>3. CASE (\E m \in Messages : RetryOne(m)) \/ RetryFailed
      BY <2>2, <2>3 DEF RetryOne, RetryFailed
    <2>4. CASE \E st \in Rows : purge(st)
      BY <2>1, <2>4, NeverRows DEF purge, history
    <2>5. CASE SwitchRelay \/ DeleteDomain
      BY <2>1, <2>5, NeverRows DEF SwitchRelay, DeleteDomain, rowVars, history
    <2> QED BY <1>4, <2>3, <2>4, <2>5 DEF OperatorStep
  <1> QED BY <1>1, <1>2, <1>3, <1>4 DEF Next

\* A sender never leaves the envelope.
LEMMA OnALegNext ==
    ASSUME TypeOK, OnALeg, [Next]_vars
    PROVE  OnALeg'
  <1>0. ASSUME NEW s \in Senders, stage[s] \in Attempting
        PROVE  current[s] \in Messages /\ Len(Groups[current[s]]) \in Nat \ {0}
    <2>1. current[s] \in Messages
      BY <1>0 DEF TypeOK
    <2>2. Groups[current[s]] \in Seq(SUBSET Recipients) /\ Len(Groups[current[s]]) > 0
      BY <2>1, QueueAssumption DEF QueueAssumption
    <2> QED BY <2>1, <2>2
  <1>1. CASE UNCHANGED <<stage, leg, current, hosts>>
    BY <1>1 DEF OnALeg
  <1>2. ASSUME NEW s \in Senders, SenderStep(s) \/ FaultStep(s)
        PROVE  OnALeg'
    <2>1. \A t \in Senders : t # s => /\ stage'[t] = stage[t] /\ leg'[t] = leg[t]
                                      /\ current'[t] = current[t] /\ hosts'[t] = hosts[t]
      <3>1. CASE ClaimSelect(s) \/ ClaimUpdate(s) \/ StartAttempt(s) \/ RelayAccepts(s)
                 \/ RelayFails(s) \/ LookupMx(s) \/ HostAccepts(s) \/ HostFails(s)
                 \/ Exit(s) \/ Restart(s)
        BY <3>1 DEF TypeOK, ClaimSelect, ClaimUpdate, StartAttempt, RelayAccepts, RelayFails,
           LookupMx, HostAccepts, HostFails, Exit, Restart, sendVars
      <3>2. CASE mark_sent(s) \/ mark_failed(s) \/ MarkFailedMissing(s)
        BY <3>2 DEF TypeOK, mark_sent, mark_failed, MarkFailedMissing, Marked, BatchLost
      <3>3. CASE FaultStep(s)
        BY <3>3 DEF TypeOK, FaultStep, DatabaseError, Stop, Cancel, Crash, Killed, BatchLost,
           sendVars
      <3> QED BY <1>2, <3>1, <3>2, <3>3 DEF SenderStep
    <2>2. stage'[s] \in {"resolving", "connecting"} => leg'[s] <= Len(Groups[current'[s]])
      <3>1. CASE StartAttempt(s)
        <4>1. current'[s] \in batch[s] /\ leg'[s] = 1 /\ stage'[s] # "connecting"
          BY <3>1 DEF StartAttempt, TypeOK
        <4>2. current'[s] \in Messages
          BY <4>1 DEF TypeOK
        <4>3. Len(Groups[current'[s]]) > 0
          BY <4>2, QueueAssumption DEF QueueAssumption
        <4>4. Groups[current'[s]] \in Seq(SUBSET Recipients)
          BY <4>2, QueueAssumption DEF QueueAssumption
        <4> QED BY <4>1, <4>3, <4>4
      <3>2. CASE LookupMx(s)
        BY <3>2 DEF LookupMx, OnALeg, TypeOK
      <3>3. CASE HostAccepts(s)
        <4>1. /\ stage[s] = "connecting" /\ current'[s] = current[s]
              /\ stage'[s] # "connecting"
              /\ stage'[s] = "resolving" =>
                    leg'[s] = leg[s] + 1 /\ leg[s] < Len(Groups[current[s]])
          BY <3>3 DEF HostAccepts, TypeOK
        <4>2. leg[s] \in Nat /\ Len(Groups[current[s]]) \in Nat
          BY <1>0, <4>1 DEF TypeOK, Attempting, Sending
        <4> QED BY <4>1, <4>2
      <3>4. CASE HostFails(s)
        BY <3>4 DEF HostFails, OnALeg, TypeOK
      <3>5. CASE Stop(s)
        BY <3>5 DEF Stop, sendVars, OnALeg
      <3>6. CASE ClaimSelect(s) \/ ClaimUpdate(s) \/ RelayAccepts(s) \/ RelayFails(s)
                 \/ Exit(s) \/ Restart(s)
        BY <3>6 DEF TypeOK, ClaimSelect, ClaimUpdate, RelayAccepts, RelayFails, Exit, Restart
      <3>7. CASE mark_sent(s) \/ mark_failed(s) \/ MarkFailedMissing(s)
        BY <3>7 DEF TypeOK, mark_sent, mark_failed, MarkFailedMissing, Marked
      <3>8. CASE DatabaseError(s) \/ Cancel(s) \/ Crash(s)
        BY <3>8 DEF TypeOK, DatabaseError, Cancel, Crash, Killed
      <3> QED BY <1>2, <3>1, <3>2, <3>3, <3>4, <3>5, <3>6, <3>7, <3>8
              DEF SenderStep, FaultStep
    <2> QED BY <2>1, <2>2 DEF OnALeg
  <1>3. CASE \/ \E m \in Messages : enqueue(m)
             \/ Tick \/ OperatorStep \/ UNCHANGED vars
    BY <1>1, <1>3 DEF enqueue, Tick, OperatorStep, RetryOne, RetryFailed, retry_now, purge,
       SwitchRelay, DeleteDomain, vars, sendVars
  <1> QED BY <1>2, <1>3 DEF Next

\* A recipient for whom an attempt came to a 5xx is not offered the message again, by
\* any sender, until the operator asks, whatever remotes answer and however many hosts
\* a domain has.  Of a 5xx the sender does not go by it says nothing.
THEOREM PermanentIsFinal ==
    ASSUME RetrySparesClaims PROVE Spec => []PermanentIsNotRetried
  <1>1. Init => OnALeg /\ NeverInv
    BY DEF Init, OnALeg, NeverInv, NoNever
  <1>2. TypeOK /\ OnALeg /\ [Next]_vars => OnALeg'
    BY OnALegNext
  <1>3. TypeOK /\ ClaimIsExclusive /\ NeverInv /\ [Next]_vars => NeverInv'
    BY NeverNext
  <1>4. Spec => []ClaimIsExclusive
    BY ClaimsAreExclusive
  <1>5. TypeOK /\ OnALeg /\ NeverInv => PermanentIsNotRetried
    <2> SUFFICES ASSUME TypeOK, OnALeg, NeverInv, NEW s \in Senders,
                        stage[s] \in {"connecting", "relaying"}
                 PROVE  ~Offered(s, "never")
      BY DEF PermanentIsNotRetried, Offered
    <2>1. current[s] \in Messages /\ current[s] \in batch[s]
      BY DEF TypeOK, Attempting, Sending
    <2>2. NoNever(current[s])
      BY <2>1 DEF NeverInv, Judged
    <2>3. AllRecipients(current[s]) \subseteq Recipients
      BY <2>1, EnvelopeType
    <2>4. stage[s] = "connecting" => Group(s) \subseteq Recipients
      <3>1. Groups[current[s]] \in Seq(SUBSET Recipients)
        BY <2>1, QueueAssumption DEF QueueAssumption
      <3>2. stage[s] = "connecting" => leg[s] \in 1..Len(Groups[current[s]])
        BY <3>1 DEF OnALeg, TypeOK
      <3> QED BY <3>1, <3>2 DEF Group
    <2> QED BY <2>2, <2>3, <2>4 DEF NoNever, Offered
  <1> QED BY <1>1, <1>2, <1>3, <1>4, <1>5, TypeCorrect, PTL DEF Spec

-----------------------------------------------------------------------------
(* Refinement: the queue implements MailOutbox. *)

\* `queue purge` is aimed at finished messages.
PurgeSparesQueued == PurgeTargets \subseteq {"sent", "failed"}

View == <<Fate, copies>>

\* A step that moves the fates of a set of messages together.
LEMMA FateMoves ==
    ASSUME TypeOK, NEW S, NEW f,
           \A m \in Messages : m \in S => Fate'[m] = f,
           \A m \in Messages : m \notin S => Fate'[m] = Fate[m]
    PROVE  Outbox!Become(S, f)
  BY DEF Outbox!Become, Fate

LEMMA PromiseAccepted ==
    ASSUME KindWorld, TypeOK, ClaimIsExclusive, OnceInv, NEW s \in Senders,
           stage[s] \in Attempting, stage[s] # "marking",
           status[current[s]] # "purged",
           copies' = Copied(current[s], AllRecipients(current[s])), status' = status
    PROVE  Outbox!Deliver(current[s])
  <1> DEFINE m == current[s]
  <1>1. m \in Messages /\ m \in batch[s] /\ Nobody(m)
    BY DEF OnceInv, Delivered, TypeOK
  <1>2. status[m] = "sending"
    BY <1>1 DEF ClaimIsExclusive
  <1>3. Fate[m] = "accepted" /\ Fate' = Fate
    BY <1>1, <1>2 DEF Fate
  <1>4. AllRecipients(m) \subseteq Recipients
    BY <1>1, EnvelopeType
  <1>5. \A r \in AllRecipients(m) : copies[m][r] = 0
    BY <1>1, <1>4 DEF Nobody
  <1>6. copies' = [copies EXCEPT ![m] = [r \in Recipients |->
                    IF r \in AllRecipients(m) THEN 1 ELSE copies[m][r]]]
    <2>1. [r \in Recipients |-> IF r \in AllRecipients(m) /\ copies[m][r] < CopyBound
                              THEN copies[m][r] + 1 ELSE copies[m][r]]
          = [r \in Recipients |-> IF r \in AllRecipients(m) THEN 1 ELSE copies[m][r]]
      BY <1>5 DEF CopyBound
    <2>2. copies' = [copies EXCEPT ![m] =
            [r \in Recipients |-> IF r \in AllRecipients(m) /\ copies[m][r] < CopyBound
                              THEN copies[m][r] + 1 ELSE copies[m][r]]]
      BY <1>1 DEF Copied, TypeOK
    <2> QED BY <2>1, <2>2
  <1> QED BY <1>1, <1>3, <1>5, <1>6 DEF Outbox!Deliver

LEMMA PromiseSender ==
    ASSUME KindWorld, TypeOK, ClaimIsExclusive, OnceInv, NEW s \in Senders,
           \A m \in batch[s] : status[m] = "sending", SenderStep(s)
    PROVE  Outbox!Next \/ UNCHANGED View
  <1>0. stage[s] \in Attempting => current[s] \in Messages /\ status[current[s]] = "sending"
    BY DEF TypeOK
  <1>1. CASE UNCHANGED <<status, copies>>
    BY <1>1 DEF View, Fate
  <1>2. CASE ClaimUpdate(s)
    <2>1. \A m \in Messages : status'[m] = status[m]
                \/ (status'[m] = "sending" /\ status[m] \in {"pending", "deferred"})
      BY <1>2 DEF ClaimUpdate, Claimed, Claimable
    <2>2. Fate' = Fate
      BY <2>1 DEF Fate
    <2> QED BY <1>2, <2>2 DEF ClaimUpdate, View, history
  <1>3. CASE RelayAccepts(s)
    <2>1. stage[s] \in Attempting /\ stage[s] # "marking"
      BY <1>3 DEF RelayAccepts, Attempting, Sending
    <2>2. copies' = Copied(current[s], AllRecipients(current[s])) /\ status' = status
      BY <1>3 DEF RelayAccepts, Accepted, KindWorld, rowVars
    <2> QED BY <1>0, <2>1, <2>2, PromiseAccepted DEF Outbox!Next
  <1>4. CASE HostAccepts(s)
    <2>1. stage[s] \in Attempting /\ stage[s] # "marking" /\ leg[s] = 1
      BY <1>4 DEF HostAccepts, Attempting, Sending, OnceInv
    <2>2. Group(s) = AllRecipients(current[s])
      BY <1>0, <2>1, OneGroup DEF Group
    <2>3. copies' = Copied(current[s], AllRecipients(current[s])) /\ status' = status
      BY <1>4, <2>2 DEF HostAccepts, Accepted, KindWorld, rowVars
    <2> QED BY <1>0, <2>1, <2>3, PromiseAccepted DEF Outbox!Next
  <1>5. CASE RelayFails(s) \/ HostFails(s)
    <2>1. current[s] \in Messages
      BY <1>0, <1>5 DEF RelayFails, HostFails, Attempting, Sending
    <2>2. copies' = Copied(current[s], {}) /\ status' = status
      BY <1>5 DEF KindWorld, RelayFails, HostFails, rowVars
    <2> QED BY <2>1, <2>2, NothingTaken, <1>1
  <1>6. CASE mark_sent(s)
    <2> DEFINE m == current[s]
    <2>1. m \in Messages /\ status[m] = "sending" /\ copies' = copies
      BY <1>0, <1>6 DEF mark_sent, Attempting, Sending, history
    <2>2. Everyone(m)
      BY <1>6, <2>1, MarkedIsSending DEF mark_sent, OnceInv, Delivered
    <2>3. \A p \in Messages : status'[p] = IF p = m THEN "sent" ELSE status[p]
      BY <1>6, <2>1 DEF mark_sent, TypeOK
    <2>4. Outbox!Become({m}, "sent")
      BY <2>3, FateMoves DEF Fate
    <2>5. \A r \in AllRecipients(m) : r \in Recipients => copies[m][r] = 1
      BY <2>2 DEF Everyone
    <2>6. AllRecipients(m) \subseteq Recipients
      BY <2>1, EnvelopeType
    <2>7. Fate[m] = "accepted"
      BY <2>1 DEF Fate
    <2>8. Outbox!Confirm(m)
      BY <2>1, <2>4, <2>5, <2>6, <2>7 DEF Outbox!Confirm
    <2> QED BY <2>1, <2>8 DEF Outbox!Next
  <1>7. CASE mark_failed(s)
    <2> DEFINE m == current[s]
               o == FailureOutcome(attempts[m] + 1, code[s])
    <2>1. m \in Messages /\ status[m] = "sending" /\ copies' = copies
      BY <1>0, <1>7 DEF mark_failed, Attempting, Sending, history
    <2>2. Nobody(m)
      BY <1>7, <2>1, MarkedIsSending DEF mark_failed, OnceInv, Delivered
    <2>3. \A p \in Messages : status'[p] = IF p = m THEN o ELSE status[p]
      BY <1>7, <2>1 DEF mark_failed, TypeOK
    <2>4. Fate[m] = "accepted"
      BY <2>1 DEF Fate
    <2>5. CASE o = "failed"
      <3>1. Outbox!Become({m}, "failed")
        BY <2>3, <2>5, FateMoves DEF Fate
      <3>2. \A r \in AllRecipients(m) : r \in Recipients => copies[m][r] = 0
        BY <2>2 DEF Nobody
      <3>3. AllRecipients(m) \subseteq Recipients
        BY <2>1, EnvelopeType
      <3>4. Outbox!GiveUp(m)
        BY <2>1, <2>4, <3>1, <3>2, <3>3 DEF Outbox!GiveUp
      <3> QED BY <2>1, <3>4 DEF Outbox!Next
    <2>6. CASE o = "deferred"
      <3>1. Fate' = Fate
        BY <2>1, <2>3, <2>6 DEF Fate
      <3> QED BY <2>1, <3>1 DEF View
    <2>7. o \in {"failed", "deferred"}
      BY DEF FailureOutcome, classify_failure
    <2> QED BY <2>5, <2>6, <2>7
  <1> QED
    BY <1>1, <1>2, <1>3, <1>4, <1>5, <1>6, <1>7 DEF SenderStep, ClaimSelect,
       StartAttempt, LookupMx, MarkFailedMissing, Exit, Restart, rowVars, history

LEMMA PromiseOperator ==
    ASSUME KindWorld, PurgeSparesQueued, TypeOK, OperatorStep
    PROVE  Outbox!Next \/ UNCHANGED View
  <1>1. ASSUME NEW m \in Messages, RetryOne(m) PROVE Outbox!Next \/ UNCHANGED View
    <2>1. /\ status[m] \in {"deferred", "failed"} /\ copies' = copies
          /\ \A p \in Messages : status'[p] = IF p = m THEN "pending" ELSE status[p]
      BY <1>1 DEF RetryOne, retry_now, KindWorld
    <2>2. CASE status[m] = "deferred"
      <3>1. Fate' = Fate
        BY <2>1, <2>2 DEF Fate
      <3> QED BY <2>1, <3>1 DEF View
    <2>3. CASE status[m] = "failed"
      <3>1. Outbox!Become({m}, "accepted")
        BY <2>1, FateMoves DEF Fate
      <3>2. Fate[m] = "failed"
        BY <2>3 DEF Fate
      <3>3. Outbox!Reopen({m}) /\ {m} \in SUBSET Messages
        BY <2>1, <3>1, <3>2 DEF Outbox!Reopen
      <3> QED BY <3>3 DEF Outbox!Next
    <2> QED BY <2>1, <2>2, <2>3
  <1>2. CASE RetryFailed
    <2> DEFINE S == {m \in Messages : status[m] = "failed"}
    <2>1. /\ copies' = copies
          /\ \A p \in Messages : status'[p] = IF p \in S THEN "pending" ELSE status[p]
      BY <1>2 DEF RetryFailed, retry_now
    <2>2. Outbox!Become(S, "accepted")
      BY <2>1, FateMoves DEF Fate
    <2>3. \A m \in S : Fate[m] = "failed"
      BY DEF Fate
    <2>4. Outbox!Reopen(S) /\ S \in SUBSET Messages
      BY <2>1, <2>2, <2>3 DEF Outbox!Reopen
    <2> QED BY <2>4 DEF Outbox!Next
  <1>3. ASSUME NEW st \in Rows, purge(st) PROVE Outbox!Next \/ UNCHANGED View
    <2>1. PICK S \in SUBSET {m \in Messages : status[m] = st} :
            status' = [m \in Messages |-> IF m \in S THEN "purged" ELSE status[m]]
      BY <1>3 DEF purge
    <2>2. st \in {"sent", "failed"} /\ copies' = copies
      BY <1>3 DEF purge, PurgeSparesQueued, history
    <2>3. Outbox!Become(S, "purged")
      <3>1. \A m \in Messages : m \in S => Fate'[m] = "purged"
        BY <2>1 DEF Fate
      <3>2. \A m \in Messages : m \notin S => Fate'[m] = Fate[m]
        BY <2>1 DEF Fate
      <3> QED BY <3>1, <3>2, FateMoves
    <2>4. \A m \in S : Fate[m] \in {"sent", "failed"}
      BY <2>1, <2>2 DEF Fate
    <2>5. Outbox!Forget(S) /\ S \in SUBSET Messages
      BY <2>2, <2>3, <2>4 DEF Outbox!Forget
    <2> QED BY <2>5 DEF Outbox!Next
  <1>4. CASE SwitchRelay \/ DeleteDomain
    BY <1>4 DEF SwitchRelay, DeleteDomain, rowVars, history, View, Fate
  <1> QED BY <1>1, <1>2, <1>3, <1>4 DEF OperatorStep

\* With finished messages alone purged, a message being sent is never "purged".
HeldIsSending == \A s \in Senders : \A m \in batch[s] : status[m] = "sending"

LEMMA HeldNext ==
    ASSUME KindWorld, PurgeSparesQueued, TypeOK, ClaimIsExclusive, ClaimIsExclusive',
           HeldIsSending, [Next]_vars
    PROVE  HeldIsSending'
  <1> SUFFICES ASSUME NEW t \in Senders, NEW p \in batch'[t], status'[p] = "purged"
               PROVE  FALSE
    BY DEF HeldIsSending, ClaimIsExclusive
  <1>1. ASSUME status' = status, batch'[t] \subseteq batch[t] PROVE FALSE
    BY <1>1 DEF HeldIsSending
  <1>2. CASE \E m \in Messages : enqueue(m)
    <2>1. status[p] = "sending" /\ p \in Messages
      BY <1>2 DEF enqueue, claimVars, HeldIsSending, TypeOK
    <2> QED BY <1>2, <2>1 DEF enqueue, TypeOK
  <1>3. ASSUME NEW s \in Senders, ClaimUpdate(s) PROVE FALSE
    <2>1. status[p] \in {"sending", "pending", "deferred"} /\ p \in Messages
      BY <1>3 DEF ClaimUpdate, Claimed, Claimable, HeldIsSending, TypeOK
    <2> QED BY <1>3, <2>1 DEF ClaimUpdate
  <1>4. ASSUME NEW s \in Senders, mark_sent(s) \/ mark_failed(s) PROVE FALSE
    <2>1. current[s] \in Messages /\ current[s] \in batch[s]
      BY <1>4, MarkedIsSending DEF mark_sent, mark_failed
    <2>2. p \in batch[t] /\ p # current[s] /\ p \in Messages
      BY <1>4, <2>1 DEF mark_sent, mark_failed, Marked, TypeOK, ClaimIsExclusive
    <2>3. status'[p] = status[p]
      BY <1>4, <2>2 DEF mark_sent, mark_failed, TypeOK
    <2> QED BY <2>2, <2>3 DEF HeldIsSending
  <1>5. CASE OperatorStep
    <2>1. p \in batch[t] /\ status[p] = "sending" /\ p \in Messages
      BY <1>5 DEF OperatorStep, RetryOne, RetryFailed, retry_now, purge, SwitchRelay,
         DeleteDomain, claimVars, HeldIsSending, TypeOK
    <2>2. CASE \E m \in Messages : RetryOne(m)
      BY <2>1, <2>2 DEF RetryOne, retry_now
    <2>3. CASE RetryFailed
      BY <2>1, <2>3 DEF RetryFailed, retry_now
    <2>4. CASE \E st \in Rows : purge(st)
      BY <2>1, <2>4 DEF purge, PurgeSparesQueued
    <2>5. CASE SwitchRelay \/ DeleteDomain
      BY <2>1, <2>5 DEF SwitchRelay, DeleteDomain, rowVars
    <2> QED BY <1>5, <2>2, <2>3, <2>4, <2>5 DEF OperatorStep
  <1>6. ASSUME NEW s \in Senders, SenderStep(s) PROVE FALSE
    <2>1. CASE MarkFailedMissing(s)
      BY <1>1, <2>1 DEF MarkFailedMissing, BatchLost, rowVars, TypeOK
    <2> QED
      BY <1>1, <1>3, <1>4, <1>6, <2>1 DEF SenderStep, ClaimSelect, StartAttempt,
         RelayAccepts, RelayFails, LookupMx, HostAccepts, HostFails, Exit, Restart,
         rowVars, claimVars
  <1>7. ASSUME NEW s \in Senders, FaultStep(s) PROVE FALSE
    BY <1>1, <1>7 DEF FaultStep, Stop, DatabaseError, Cancel, Crash, Killed, BatchLost,
       rowVars, claimVars, TypeOK
  <1>8. CASE Tick \/ UNCHANGED vars
    BY <1>1, <1>8 DEF Tick, vars, rowVars, claimVars
  <1> QED BY <1>2, <1>5, <1>6, <1>7, <1>8 DEF Next

LEMMA PromiseNext ==
    ASSUME KindWorld, PurgeSparesQueued, TypeOK, ClaimIsExclusive, OnceInv, HeldIsSending,
           [Next]_vars
    PROVE  Outbox!Next \/ UNCHANGED View
  <1>1. ASSUME NEW m \in Messages, enqueue(m) PROVE Outbox!Next
    <2>1. /\ status[m] = "absent" /\ copies' = copies
          /\ \A p \in Messages : status'[p] = IF p = m THEN "pending" ELSE status[p]
      BY <1>1 DEF enqueue, TypeOK, history
    <2>2. Outbox!Become({m}, "accepted")
      BY <2>1, FateMoves DEF Fate
    <2>3. Fate[m] = "absent"
      BY <2>1 DEF Fate
    <2> QED BY <2>1, <2>2, <2>3 DEF Outbox!Accept, Outbox!Next
  <1>2. CASE Tick \/ UNCHANGED vars
    BY <1>2 DEF Tick, vars, rowVars, history, View, Fate
  <1>3. ASSUME NEW s \in Senders, SenderStep(s) PROVE Outbox!Next \/ UNCHANGED View
    BY <1>3, PromiseSender DEF HeldIsSending
  <1>4. ASSUME NEW s \in Senders, FaultStep(s) PROVE UNCHANGED View
    BY <1>4 DEF FaultStep, Stop, DatabaseError, Cancel, Crash, Killed, rowVars, history,
       View, Fate
  <1>5. CASE OperatorStep
    BY <1>5, PromiseOperator
  <1> QED BY <1>1, <1>2, <1>3, <1>4, <1>5 DEF Next

\* The queue implements MailOutbox: what its owner sees of a message is what an
\* outbox with no senders, retries or crashes could have done.
THEOREM QueueKeepsThePromise ==
    ASSUME KindWorld, PurgeSparesQueued PROVE Spec => KeepsThePromise
  <1>1. Init => Outbox!Init
    BY DEF Init, Outbox!Init, Fate
  <1>2. TypeOK /\ ClaimIsExclusive /\ OnceInv /\ HeldIsSending /\ [Next]_vars
            => [Outbox!Next]_View
    BY PromiseNext
  <1>3. Init => HeldIsSending
    BY DEF Init, HeldIsSending
  <1>4. TypeOK /\ ClaimIsExclusive /\ ClaimIsExclusive' /\ HeldIsSending /\ [Next]_vars
            => HeldIsSending'
    BY HeldNext
  <1>5. Spec => []ClaimIsExclusive
    BY CareSparesClaims, ClaimsAreExclusive
  <1> QED
    BY <1>1, <1>2, <1>3, <1>4, <1>5, TypeCorrect, OnceHolds, PTL
    DEF Spec, KeepsThePromise, Outbox!Spec, View

=============================================================================
