-------------------------- MODULE CredentialDelivery --------------------------
(***************************************************************************)
(* The email with the access code: the job queued by the sale, the         *)
(* manager's deliver command with its duplicate-risk acknowledgement, and  *)
(* the worker processes that claim, send and record                        *)
(* (src/apps/payments/delivery.py, delivery_models.py, recovery.py,        *)
(* recovery_api.py).  A worker is split at its commits and at the call to  *)
(* the email provider; it may die or stall between any two of them.        *)
(***************************************************************************)
EXTENDS Integers, Sequences, FiniteSets

CONSTANTS Payments,   \* paid voucher purchases
          HasEmail,   \* those with a customer_email
          Workers,    \* worker processes
          MaxJobs,    \* bound on the PaymentDelivery rows
          MaxCrashes  \* bound on worker crashes

ASSUME EmailAssumption == HasEmail \subseteq Payments
ASSUME BoundAssumption == MaxJobs \in Nat /\ MaxCrashes \in Nat

VARIABLES fulfilled,  \* payments with status success and a voucher
          jobs,       \* PaymentDelivery rows, in the order of created_at
          worker,     \* where each worker process is in run_one_delivery
          mails,      \* the provider: messages it accepted for each payment
          acks,       \* resends ordered with acknowledge_duplicate_risk
          crashes     \* worker crashes so far, at most MaxCrashes

vars == <<fulfilled, jobs, worker, mails, acks, crashes>>

Live == {"pending", "sending"}
Settled == {"accepted", "failed", "unknown"}

\* aged: started_at is more than five minutes ago.
Job == [payment : Payments, status : Live \cup Settled, aged : BOOLEAN]

WorkerRecord == [step : {"idle", "swept", "claimed", "sent"}, job : 0 .. MaxJobs,
                 outcome : Settled \cup {"none"}]
IdleWorker == [step |-> "idle", job |-> 0, outcome |-> "none"]

Init == /\ fulfilled = {}
        /\ jobs = <<>>
        /\ worker = [w \in Workers |-> IdleWorker]
        /\ mails = [p \in Payments |-> 0]
        /\ acks = [p \in Payments |-> 0]
        /\ crashes = 0

JobsOf(p) == {j \in DOMAIN jobs : jobs[j].payment = p}
Newest(S) == CHOOSE j \in S : \A i \in S : i <= j
Oldest(S) == CHOOSE j \in S : \A i \in S : j <= i

NewJob(p) == /\ Len(jobs) < MaxJobs
             /\ jobs' = Append(jobs, [payment |-> p, status |-> "pending", aged |-> FALSE])

-----------------------------------------------------------------------------
(* The API.                                                                *)

\* The fulfilment transaction, or its replay by a later webhook or retry, with
\* its call of queue_credential_delivery.
FulfilAndQueue(p) ==
  /\ fulfilled' = fulfilled \cup {p}
  /\ IF p \in HasEmail /\ JobsOf(p) = {} THEN NewJob(p) ELSE UNCHANGED jobs
  /\ UNCHANGED <<worker, mails, acks, crashes>>

\* POST payment-recovery/{id}/deliver/, under the payment's row lock.  Without a
\* job that is live or may already have been delivered it creates a new one.
Deliver(p, acknowledged) ==
  LET latest == IF JobsOf(p) = {} THEN "none" ELSE jobs[Newest(JobsOf(p))].status IN
  /\ p \in fulfilled
  /\ latest \notin Live
  /\ latest \in {"accepted", "unknown"} => acknowledged
  /\ NewJob(p)
  /\ acks' = [acks EXCEPT ![p] =
       IF acknowledged /\ latest \in {"accepted", "unknown"} THEN @ + 1 ELSE @]
  /\ UNCHANGED <<fulfilled, worker, mails, crashes>>

-----------------------------------------------------------------------------
(* run_one_delivery.                                                       *)

Move(w, s, record) == /\ worker[w].step = s
                      /\ worker' = [worker EXCEPT ![w] = record]

\* Mutants: a job given up counts as failed; no job is ever given up.
SweepToFailed(w) ==
  /\ Move(w, "idle", [step |-> "swept", job |-> 0, outcome |-> "none"])
  /\ jobs' = [j \in DOMAIN jobs |->
       IF jobs[j].status = "sending" /\ jobs[j].aged
       THEN [jobs[j] EXCEPT !.status = "failed"] ELSE jobs[j]]
  /\ UNCHANGED <<fulfilled, mails, acks, crashes>>
SweepNothing(w) ==
  /\ Move(w, "idle", [step |-> "swept", job |-> 0, outcome |-> "none"])
  /\ UNCHANGED <<fulfilled, jobs, mails, acks, crashes>>

\* Jobs that have been "sending" for five minutes become "unknown".
Sweep(w) ==
  /\ Move(w, "idle", [step |-> "swept", job |-> 0, outcome |-> "none"])
  /\ jobs' = [j \in DOMAIN jobs |->
       IF jobs[j].status = "sending" /\ jobs[j].aged
       THEN [jobs[j] EXCEPT !.status = "unknown"] ELSE jobs[j]]
  /\ UNCHANGED <<fulfilled, mails, acks, crashes>>

Pending == {j \in DOMAIN jobs : jobs[j].status = "pending"}

\* The oldest pending job, if any, is claimed; otherwise the batch ends.
Claim(w) ==
  /\ IF Pending = {}
     THEN Move(w, "swept", IdleWorker) /\ UNCHANGED jobs
     ELSE LET j == Oldest(Pending) IN
          /\ Move(w, "swept", [step |-> "claimed", job |-> j, outcome |-> "none"])
          /\ jobs' = [jobs EXCEPT ![j].status = "sending"]
  /\ UNCHANGED <<fulfilled, mails, acks, crashes>>

\* Mutant: an exception taken for a refusal.
ExceptionIsFailure == {<<TRUE, "accepted">>, <<FALSE, "failed">>, <<TRUE, "failed">>}

\* What the call to the provider can come to: whether the message was accepted,
\* and the outcome the worker concludes.  An exception says nothing about it.
SendResults == {<<TRUE, "accepted">>, <<FALSE, "failed">>,
                <<TRUE, "unknown">>, <<FALSE, "unknown">>}

\* The two checks of the payment, then the call to the email provider.
Send(w) ==
  /\ worker[w].step = "claimed"
  /\ LET p == jobs[worker[w].job].payment
         sendable == p \in fulfilled /\ p \in HasEmail IN
     \E result \in (IF sendable THEN SendResults ELSE {<<FALSE, "failed">>}) :
       /\ worker' = [worker EXCEPT ![w] = [@ EXCEPT !.step = "sent", !.outcome = result[2]]]
       /\ mails' = [mails EXCEPT ![p] = IF result[1] THEN @ + 1 ELSE @]
  /\ UNCHANGED <<fulfilled, jobs, acks, crashes>>

\* Mutant: the worker records its outcome without looking at the job again.
RecordBlindly(w) ==
  /\ Move(w, "sent", IdleWorker)
  /\ jobs' = [jobs EXCEPT ![worker[w].job].status = worker[w].outcome]
  /\ UNCHANGED <<fulfilled, mails, acks, crashes>>

\* The outcome is recorded, unless a sweep gave the job up meanwhile.
Record(w) ==
  /\ Move(w, "sent", IdleWorker)
  /\ jobs' = IF jobs[worker[w].job].status = "sending"
             THEN [jobs EXCEPT ![worker[w].job].status = worker[w].outcome] ELSE jobs
  /\ UNCHANGED <<fulfilled, mails, acks, crashes>>

Crash(w) == /\ crashes < MaxCrashes
            /\ worker[w].step # "idle"
            /\ worker' = [worker EXCEPT ![w] = IdleWorker]
            /\ crashes' = crashes + 1
            /\ UNCHANGED <<fulfilled, jobs, mails, acks>>

\* Five minutes pass since the job was claimed.
Age(j) == /\ jobs[j].status = "sending" /\ ~jobs[j].aged
          /\ jobs' = [jobs EXCEPT ![j].aged = TRUE]
          /\ UNCHANGED <<fulfilled, worker, mails, acks, crashes>>

-----------------------------------------------------------------------------
Api == \E p \in Payments : \/ FulfilAndQueue(p)
                           \/ \E acknowledged \in BOOLEAN : Deliver(p, acknowledged)

Work(w) == Sweep(w) \/ Claim(w) \/ Send(w) \/ Record(w)

Next == \/ Api
        \/ \E w \in Workers : Work(w) \/ Crash(w)
        \/ \E j \in DOMAIN jobs : Age(j)

Spec == Init /\ [][Next]_vars

\* The worker command is run again and again ("must run continuously in
\* production", API_IMPLEMENTATION_REPORT.md:201), and time passes.  Nothing is
\* assumed of customers or managers.
Fairness == /\ \A w \in Workers : WF_vars(Work(w))
            /\ \A j \in 1 .. MaxJobs : WF_vars(j \in DOMAIN jobs /\ Age(j))

LiveSpec == Spec /\ Fairness

-----------------------------------------------------------------------------
(* Properties.                                                             *)

\* Every variable has its type.
TypeOK == /\ fulfilled \subseteq Payments
          /\ jobs \in Seq(Job) /\ Len(jobs) <= MaxJobs
          /\ worker \in [Workers -> WorkerRecord]
          /\ mails \in [Payments -> Nat]
          /\ acks \in [Payments -> Nat]
          /\ crashes \in 0 .. MaxCrashes

\* The constraint one_live_payment_delivery never has to reject a row: only a
\* payment's newest job is ever pending or sending.
OnlyNewestIsLive ==
  \A j \in DOMAIN jobs :
    jobs[j].status \in Live => j = Newest(JobsOf(jobs[j].payment))

\* Nothing but an operator's acknowledgement makes a second email possible: not
\* a crash, a stalled worker, a webhook replay, a retry or an unanswered call.
NoUnacknowledgedDuplicate == \A p \in Payments : mails[p] <= 1 + acks[p]

\* The history a manager decides by is true: if all of a payment's jobs failed
\* the provider took no message, and one that was accepted was taken.
OutcomesAreTrue ==
  \A p \in Payments :
    /\ (\A j \in JobsOf(p) : jobs[j].status \in {"pending", "failed"}) => mails[p] = 0
    /\ Cardinality({j \in JobsOf(p) : jobs[j].status = "accepted"}) <= mails[p]

\* A job that settled stays as it is: a late worker cannot rewrite the outcome
\* a manager may already have acted upon.
OutcomesAreFinal ==
  [][\A j \in DOMAIN jobs : jobs[j].status \in Settled =>
       jobs'[j].status = jobs[j].status]_vars

\* Every queued job settles although workers crash while they hold it.
EveryJobSettles ==
  \A j \in 1 .. MaxJobs :
    j \in DOMAIN jobs ~> (j \in DOMAIN jobs /\ jobs[j].status \in Settled)
==============================================================================
