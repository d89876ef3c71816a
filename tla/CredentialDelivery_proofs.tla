----------------------- MODULE CredentialDelivery_proofs -----------------------
(***************************************************************************)
(* Proofs about CredentialDelivery, for any number of payments, jobs,      *)
(* workers and crashes.                                                    *)
(*                                                                         *)
(* A message is charged to the job that may have sent it.  A job sends at  *)
(* most once, because it is claimed once (HeldInv), so a payment has at    *)
(* most as many messages as jobs that may have sent one (MailInv).  Of     *)
(* these all but the newest were left behind by an acknowledged resend     *)
(* (AckInv), because only the newest job is ever live (LiveInv).           *)
(***************************************************************************)
EXTENDS CredentialDelivery, SequenceTheorems, FiniteSetTheorems, WellFoundedInduction, TLAPS

Holds(w) == worker[w].step \in {"claimed", "sent"}

HeldInv ==
  /\ \A w \in Workers : Holds(w) => /\ worker[w].job \in DOMAIN jobs
                                    /\ jobs[worker[w].job].status \in {"sending", "unknown"}
                                    /\ worker[w].step = "sent" => worker[w].outcome \in Settled
  /\ \A v, w \in Workers : Holds(v) /\ Holds(w) /\ worker[v].job = worker[w].job => v = w

\* A later job exists only for a job that is no longer live.
LiveInv == \A i, j \in DOMAIN jobs :
  jobs[i].payment = jobs[j].payment /\ jobs[j].status \in Live => i <= j

\* A worker that holds the job has not sent its message, or was refused.
Unsent(j) == \E w \in Workers :
  /\ worker[w].job = j
  /\ \/ worker[w].step = "claimed"
     \/ worker[w].step = "sent" /\ worker[w].outcome = "failed"

\* Jobs that may have sent a message, and jobs that certainly have.
MaySent(p) == {j \in JobsOf(p) : /\ jobs[j].status \in {"sending", "accepted", "unknown"}
                                 /\ ~Unsent(j)}
HasSent(p) == {j \in JobsOf(p) :
  \/ jobs[j].status = "accepted"
  \/ \E w \in Workers : /\ worker[w].job = j
                        /\ worker[w].step = "sent" /\ worker[w].outcome = "accepted"}

MailInv == \A p \in Payments : /\ mails[p] <= Cardinality(MaySent(p))
                               /\ Cardinality(HasSent(p)) <= mails[p]

\* Jobs a resend has left behind although they may have been delivered.
Past(p) == {j \in JobsOf(p) : /\ jobs[j].status \in {"accepted", "unknown"}
                              /\ \E i \in JobsOf(p) : j < i}

AckInv == \A p \in Payments : Cardinality(Past(p)) <= acks[p]

IInv == TypeOK /\ HeldInv /\ LiveInv /\ MailInv /\ AckInv

-----------------------------------------------------------------------------
(* The newest and the oldest of a set of jobs.                             *)

LEMMA LeastExists ==
  ASSUME NEW S, S \subseteq Nat, S # {}
  PROVE  \E m \in S : \A n \in S : m <= n
<1>1. PICK m \in S : \A n \in S : <<n, m>> \notin OpToRel(<, Nat)
  BY NatLessThanWellFounded, WFMin
<1>2. \A n \in S : ~(n < m)
  BY <1>1 DEF OpToRel
<1> QED
  BY <1>2

LEMMA OldestIs ==
  ASSUME NEW S, S \subseteq Nat, S # {}
  PROVE  Oldest(S) \in S /\ \A j \in S : Oldest(S) <= j
BY LeastExists DEF Oldest

LEMMA NewestIs ==
  ASSUME NEW n \in Nat, NEW S, S \subseteq 1 .. n, S # {}
  PROVE  Newest(S) \in S /\ \A j \in S : j <= Newest(S)
<1> DEFINE T == {n - j : j \in S}
<1>1. T \subseteq Nat /\ T # {}
  <2>1. \A j \in S : j \in 1 .. n /\ n - j \in Nat
    OBVIOUS
  <2>2. T # {}
    OBVIOUS
  <2> QED
    BY <2>1, <2>2
<1>2. PICK m \in T : \A k \in T : m <= k
  BY <1>1, LeastExists
<1>3. PICK j \in S : m = n - j
  BY <1>2
<1>4. \A i \in S : i <= j
  BY <1>2, <1>3
<1> QED
  BY <1>4 DEF Newest

-----------------------------------------------------------------------------
(* Rows.                                                                   *)

LEMMA JobRows ==
  ASSUME TypeOK
  PROVE  /\ DOMAIN jobs = 1 .. Len(jobs) /\ Len(jobs) \in Nat
         /\ \A j \in DOMAIN jobs : jobs[j] \in Job
         /\ \A p : JobsOf(p) \subseteq 1 .. Len(jobs)
BY DEF TypeOK, JobsOf

\* Jobs are finitely many.
LEMMA FiniteJobs ==
  ASSUME NEW table \in Seq(Job), NEW S, S \subseteq DOMAIN table
  PROVE  IsFiniteSet(S) /\ Cardinality(S) \in Nat
<1>1. IsFiniteSet(1 .. Len(table)) /\ DOMAIN table = 1 .. Len(table)
  BY FS_Interval
<1>2. IsFiniteSet(S)
  BY <1>1, FS_Subset
<1> QED
  BY <1>2, FS_CardinalityType

LEMMA SetJob ==
  ASSUME TypeOK, NEW j \in DOMAIN jobs, NEW row \in Job, jobs' = [jobs EXCEPT ![j] = row]
  PROVE  /\ jobs' \in Seq(Job) /\ Len(jobs') = Len(jobs) /\ DOMAIN jobs' = DOMAIN jobs
         /\ jobs'[j] = row
         /\ \A i \in DOMAIN jobs \ {j} : jobs'[i] = jobs[i]
<1>1. jobs \in Seq(Job) /\ DOMAIN jobs = 1 .. Len(jobs)
  BY JobRows DEF TypeOK
<1>2. jobs' \in Seq(Job) /\ Len(jobs') = Len(jobs)
  BY <1>1, ExceptSeq
<1>3. DOMAIN jobs' = 1 .. Len(jobs')
  BY <1>2
<1> QED
  BY <1>1, <1>2, <1>3

LEMMA SetWorker ==
  ASSUME TypeOK, NEW w \in Workers, NEW record \in WorkerRecord,
         worker' = [worker EXCEPT ![w] = record]
  PROVE  /\ worker' \in [Workers -> WorkerRecord]
         /\ worker'[w] = record
         /\ \A v \in Workers \ {w} : worker'[v] = worker[v]
BY DEF TypeOK

LEMMA NullRow == IdleWorker \in WorkerRecord /\ IdleWorker.step = "idle" /\ IdleWorker.job = 0
BY BoundAssumption DEF IdleWorker, WorkerRecord

LEMMA InvInit == Init => IInv
<1> SUFFICES ASSUME Init PROVE IInv
  OBVIOUS
<1>1. jobs = <<>> /\ DOMAIN jobs = {}
  BY DEF Init
<1>2. TypeOK
  BY <1>1, NullRow, BoundAssumption DEF Init, TypeOK
<1>3. HeldInv /\ LiveInv
  BY <1>1, NullRow DEF Init, HeldInv, LiveInv, Holds
<1>4. \A p \in Payments : MaySent(p) = {} /\ HasSent(p) = {} /\ Past(p) = {}
  BY <1>1 DEF MaySent, HasSent, Past, JobsOf
<1>5. MailInv /\ AckInv
  <2>1. Cardinality({}) = 0
    BY FS_EmptySet
  <2>2. \A p \in Payments : mails[p] = 0 /\ acks[p] = 0
    BY DEF Init
  <2>3. \A p \in Payments : /\ Cardinality(MaySent(p)) = 0 /\ Cardinality(HasSent(p)) = 0
                           /\ Cardinality(Past(p)) = 0
    BY <1>4, <2>1
  <2> QED
    BY <2>2, <2>3 DEF MailInv, AckInv
<1> QED
  BY <1>2, <1>3, <1>5 DEF IInv

-----------------------------------------------------------------------------
(* The API.                                                                *)

\* A new job for a payment without a live one.  It has sent nothing, and leaves
\* the newest so far behind.
LEMMA NewJobStep ==
  ASSUME IInv, NEW p \in Payments, NewJob(p), UNCHANGED worker,
         \A j \in JobsOf(p) : jobs[j].status \notin Live
  PROVE  /\ jobs' \in Seq(Job) /\ Len(jobs') <= MaxJobs
         /\ HeldInv' /\ LiveInv'
         /\ \A q \in Payments : MaySent(q)' = MaySent(q) /\ HasSent(q)' = HasSent(q)
         /\ \A q \in Payments \ {p} : Past(q)' = Past(q)
         /\ Past(p)' \subseteq Past(p) \cup
              {j \in JobsOf(p) : j = Newest(JobsOf(p)) /\ jobs[j].status \in {"accepted", "unknown"}}
<1> DEFINE new == [payment |-> p, status |-> "pending", aged |-> FALSE]
<1>1. new \in Job /\ new.payment = p /\ new.status = "pending"
  BY DEF Job, Live
<1>2. jobs' = Append(jobs, new) /\ Len(jobs) < MaxJobs
  BY DEF NewJob
<1> HIDE DEF new
<1>3. TypeOK
  BY DEF IInv
<1>4. /\ DOMAIN jobs = 1 .. Len(jobs) /\ Len(jobs) \in Nat /\ jobs \in Seq(Job)
  BY <1>3, JobRows DEF TypeOK
<1>5. PICK n \in Nat : n = Len(jobs) + 1
  BY <1>4
<1>6. /\ jobs' \in Seq(Job) /\ Len(jobs') = n
      /\ DOMAIN jobs' = DOMAIN jobs \cup {n} /\ n \notin DOMAIN jobs
      /\ jobs'[n] = new
      /\ \A j \in DOMAIN jobs : jobs'[j] = jobs[j] /\ j < n
  <2>1. jobs' \in Seq(Job) /\ Len(jobs') = n
    BY <1>1, <1>2, <1>4, <1>5
  <2>2. DOMAIN jobs' = 1 .. n
    BY <2>1
  <2> QED
    BY <1>1, <1>2, <1>4, <1>5, <2>1, <2>2
<1>7. Len(jobs') <= MaxJobs
  BY <1>2, <1>4, <1>5, <1>6, BoundAssumption
<1>8. HeldInv'
  BY <1>6 DEF IInv, HeldInv, Holds
<1>9. LiveInv'
  <2> SUFFICES ASSUME NEW i \in DOMAIN jobs', NEW j \in DOMAIN jobs',
                      jobs'[i].payment = jobs'[j].payment, jobs'[j].status \in Live
               PROVE  i <= j
    BY DEF LiveInv
  <2>1. CASE j = n
    BY <1>4, <1>6, <2>1
  <2>2. CASE j # n /\ i # n
    BY <1>6, <2>2 DEF IInv, LiveInv
  <2>3. CASE j # n /\ i = n
    BY <1>1, <1>6, <2>3 DEF JobsOf
  <2> QED
    BY <2>1, <2>2, <2>3
<1>10. /\ JobsOf(p)' = JobsOf(p) \cup {n}
       /\ \A q \in Payments \ {p} : JobsOf(q)' = JobsOf(q)
  BY <1>1, <1>6 DEF JobsOf
<1>11. \A q \in Payments : JobsOf(q) \subseteq DOMAIN jobs
  BY DEF JobsOf
<1>12. \A w \in Workers :
         worker[w].step \in {"claimed", "sent"} => worker[w].job \in DOMAIN jobs
  BY DEF IInv, HeldInv, Holds
<1>13. ASSUME NEW q \in Payments PROVE MaySent(q)' = MaySent(q) /\ HasSent(q)' = HasSent(q)
  <2>1. \A j \in JobsOf(q)' : j = n \/ (j \in JobsOf(q) /\ jobs'[j] = jobs[j])
    <3>1. CASE q = p
      BY <1>6, <1>10, <1>11, <3>1
    <3>2. CASE q # p
      BY <1>6, <1>10, <1>11, <3>2
    <3> QED
      BY <3>1, <3>2
  <2>2. \A j \in JobsOf(q) : j \in JobsOf(q)' /\ jobs'[j] = jobs[j]
    BY <1>6, <1>10, <1>11
  <2>3. \A w \in Workers : worker[w].step = "sent" => worker[w].job # n
    BY <1>6, <1>12
  <2>4. n \notin MaySent(q)' /\ n \notin HasSent(q)'
    BY <1>1, <1>6, <2>3 DEF MaySent, HasSent
  <2>5. \A j : Unsent(j)' <=> Unsent(j)
    BY DEF Unsent
  <2>6. MaySent(q)' = MaySent(q)
    BY <2>1, <2>2, <2>4, <2>5 DEF MaySent
  <2>7. HasSent(q)' = HasSent(q)
    BY <2>1, <2>2, <2>4 DEF HasSent
  <2> QED
    BY <2>6, <2>7
<1>14. \A q \in Payments \ {p} : Past(q)' = Past(q)
  BY <1>6, <1>10, <1>11 DEF Past
<1>15. ASSUME NEW j \in Past(p)'
       PROVE  j \in Past(p) \/ /\ j \in JobsOf(p) /\ j = Newest(JobsOf(p))
                               /\ jobs[j].status \in {"accepted", "unknown"}
  <2>1. j \in JobsOf(p) /\ jobs[j].status \in {"accepted", "unknown"}
    BY <1>1, <1>6, <1>10, <1>11 DEF Past
  <2>2. /\ Newest(JobsOf(p)) \in JobsOf(p) /\ j <= Newest(JobsOf(p))
        /\ JobsOf(p) \subseteq 1 .. Len(jobs)
    BY <1>3, <1>4, <2>1, JobRows, NewestIs
  <2> QED
    BY <1>4, <2>1, <2>2 DEF Past
<1> QED
  BY <1>6, <1>7, <1>8, <1>9, <1>13, <1>14, <1>15

\* The mails are as many as they were, and so are the jobs that sent them.
LEMMA MailKept ==
  ASSUME IInv, TypeOK', mails' = mails,
         \A p \in Payments : MaySent(p) \subseteq MaySent(p)' /\ HasSent(p)' \subseteq HasSent(p)
  PROVE  MailInv'
<1> SUFFICES ASSUME NEW p \in Payments
             PROVE  mails'[p] <= Cardinality(MaySent(p)') /\ Cardinality(HasSent(p)') <= mails'[p]
  BY DEF MailInv
<1>1. /\ MaySent(p)' \subseteq DOMAIN jobs' /\ HasSent(p) \subseteq DOMAIN jobs
      /\ MaySent(p) \subseteq DOMAIN jobs /\ HasSent(p)' \subseteq DOMAIN jobs'
  BY DEF MaySent, HasSent, JobsOf
<1>2. jobs \in Seq(Job) /\ jobs' \in Seq(Job) /\ mails \in [Payments -> Nat]
  BY DEF IInv, TypeOK
<1>3. /\ IsFiniteSet(MaySent(p)') /\ Cardinality(MaySent(p)') \in Nat
      /\ IsFiniteSet(HasSent(p)) /\ Cardinality(HasSent(p)) \in Nat
      /\ Cardinality(MaySent(p)) \in Nat /\ Cardinality(HasSent(p)') \in Nat
  BY <1>1, <1>2, FiniteJobs
<1>4. /\ Cardinality(MaySent(p)) <= Cardinality(MaySent(p)')
      /\ Cardinality(HasSent(p)') <= Cardinality(HasSent(p))
  BY <1>3, FS_Subset
<1>5. mails[p] \in Nat /\ mails[p] <= Cardinality(MaySent(p)) /\ Cardinality(HasSent(p)) <= mails[p]
  BY <1>2 DEF IInv, MailInv
<1> QED
  BY <1>3, <1>4, <1>5

\* What resends left behind is covered by as many acknowledgements as before.
LEMMA AckKept ==
  ASSUME IInv, TypeOK', acks' = acks, \A p \in Payments : Past(p)' \subseteq Past(p)
  PROVE  AckInv'
<1> SUFFICES ASSUME NEW p \in Payments PROVE Cardinality(Past(p)') <= acks'[p]
  BY DEF AckInv
<1>1. Past(p) \subseteq DOMAIN jobs /\ Past(p)' \subseteq DOMAIN jobs'
  BY DEF Past, JobsOf
<1>2. jobs \in Seq(Job) /\ jobs' \in Seq(Job) /\ acks \in [Payments -> Nat]
  BY DEF IInv, TypeOK
<1>3. /\ IsFiniteSet(Past(p)) /\ Cardinality(Past(p)) \in Nat
      /\ Cardinality(Past(p)') \in Nat
  BY <1>1, <1>2, FiniteJobs
<1>4. Cardinality(Past(p)') <= Cardinality(Past(p))
  BY <1>3, FS_Subset
<1>5. acks[p] \in Nat /\ Cardinality(Past(p)) <= acks[p]
  BY <1>2 DEF IInv, AckInv
<1> QED
  BY <1>3, <1>4, <1>5

\* Rows that only change their status, never from settled and never back to live.
LEMMA StatusStep ==
  ASSUME IInv, DOMAIN jobs' = DOMAIN jobs,
         \A j \in DOMAIN jobs :
           /\ jobs'[j].payment = jobs[j].payment
           /\ jobs[j].status \notin Live => jobs'[j].status = jobs[j].status
           /\ jobs'[j].status \in Live => jobs[j].status \in Live
  PROVE  /\ LiveInv'
         /\ \A p \in Payments : JobsOf(p)' = JobsOf(p) /\ Past(p)' \subseteq Past(p)
<1>1. LiveInv'
  BY DEF IInv, LiveInv
<1>2. \A p \in Payments : JobsOf(p)' = JobsOf(p)
  BY DEF JobsOf
<1>3. ASSUME NEW p \in Payments, NEW j \in Past(p)' PROVE j \in Past(p)
  <2>1. j \in JobsOf(p) /\ jobs'[j].status \in {"accepted", "unknown"}
    BY <1>2, <1>3 DEF Past
  <2>2. PICK i \in JobsOf(p) : j < i
    BY <1>2, <1>3 DEF Past
  <2>3. i \in DOMAIN jobs /\ j \in DOMAIN jobs /\ jobs[i].payment = jobs[j].payment
    BY <2>1, <2>2 DEF JobsOf
  <2>4. i \in Nat /\ j \in Nat
    BY <2>3, JobRows DEF IInv
  <2>5. jobs[j].status \notin Live
    BY <2>2, <2>3, <2>4 DEF IInv, LiveInv
  <2> QED
    BY <2>1, <2>2, <2>3, <2>5 DEF Past
<1> QED
  BY <1>1, <1>2, <1>3

LEMMA FulfilAndQueueStep ==
  ASSUME IInv, NEW p \in Payments, FulfilAndQueue(p)
  PROVE  IInv'
<1>1. TypeOK /\ fulfilled' \subseteq Payments /\ UNCHANGED <<worker, mails, acks, crashes>>
  BY DEF FulfilAndQueue, IInv, TypeOK
<1>2. CASE p \in HasEmail /\ JobsOf(p) = {}
  <2>1. NewJob(p) /\ UNCHANGED worker
    BY <1>1, <1>2 DEF FulfilAndQueue
  <2>2. /\ jobs' \in Seq(Job) /\ Len(jobs') <= MaxJobs /\ HeldInv' /\ LiveInv'
        /\ \A q \in Payments : MaySent(q)' = MaySent(q) /\ HasSent(q)' = HasSent(q)
        /\ \A q \in Payments \ {p} : Past(q)' = Past(q)
        /\ Past(p)' \subseteq Past(p)
    BY <1>2, <2>1, NewJobStep
  <2>3. TypeOK'
    BY <1>1, <2>2 DEF TypeOK
  <2>4. MailInv'
    BY <1>1, <2>2, <2>3, MailKept
  <2>5. AckInv'
    BY <1>1, <2>2, <2>3, AckKept
  <2> QED
    BY <2>2, <2>3, <2>4, <2>5 DEF IInv
<1>3. CASE ~(p \in HasEmail /\ JobsOf(p) = {})
  <2>1. UNCHANGED jobs
    BY <1>3 DEF FulfilAndQueue
  <2>2. TypeOK'
    BY <1>1, <2>1 DEF TypeOK
  <2>3. HeldInv' /\ LiveInv'
    BY <1>1, <2>1 DEF IInv, HeldInv, LiveInv, Holds
  <2>4. \A q \in Payments : /\ MaySent(q)' = MaySent(q) /\ HasSent(q)' = HasSent(q)
                           /\ Past(q)' = Past(q)
    BY <1>1, <2>1 DEF MaySent, HasSent, Past, JobsOf, Unsent
  <2>5. MailInv' /\ AckInv'
    BY <1>1, <2>2, <2>4, MailKept, AckKept
  <2> QED
    BY <2>2, <2>3, <2>5 DEF IInv
<1> QED
  BY <1>2, <1>3

\* A resend leaves at most one more job behind, and then it was acknowledged.
LEMMA DeliverStep ==
  ASSUME IInv, NEW p \in Payments, NEW acknowledged \in BOOLEAN, Deliver(p, acknowledged)
  PROVE  IInv'
<1> DEFINE top == Newest(JobsOf(p))
<1>1. TypeOK /\ NewJob(p) /\ UNCHANGED <<fulfilled, worker, mails, crashes>>
  BY DEF Deliver, IInv
<1>2. JobsOf(p) # {} =>
        /\ top \in JobsOf(p) /\ \A j \in JobsOf(p) : j <= top
        /\ jobs[top].status \notin Live
  <2>1. JobsOf(p) # {} => top \in JobsOf(p) /\ \A j \in JobsOf(p) : j <= top
    BY <1>1, JobRows, NewestIs
  <2> QED
    BY <2>1 DEF Deliver
<1>3. \A j \in JobsOf(p) : jobs[j].status \notin Live
  <2> SUFFICES ASSUME NEW j \in JobsOf(p), jobs[j].status \in Live PROVE FALSE
    OBVIOUS
  <2>1. top \in JobsOf(p) /\ j <= top /\ jobs[top].status \notin Live
    BY <1>2
  <2>2. /\ top \in DOMAIN jobs /\ j \in DOMAIN jobs /\ jobs[top].payment = jobs[j].payment
    BY <2>1 DEF JobsOf
  <2>3. top \in Nat /\ j \in Nat
    BY <1>1, <2>2, JobRows
  <2>4. top <= j
    BY <2>2 DEF IInv, LiveInv
  <2> QED
    BY <2>1, <2>3, <2>4
<1>4. /\ jobs' \in Seq(Job) /\ Len(jobs') <= MaxJobs /\ HeldInv' /\ LiveInv'
      /\ \A q \in Payments : MaySent(q)' = MaySent(q) /\ HasSent(q)' = HasSent(q)
      /\ \A q \in Payments \ {p} : Past(q)' = Past(q)
      /\ Past(p)' \subseteq Past(p) \cup
           {j \in JobsOf(p) : j = top /\ jobs[j].status \in {"accepted", "unknown"}}
  BY <1>1, <1>3, NewJobStep
<1> DEFINE risky == JobsOf(p) # {} /\ jobs[top].status \in {"accepted", "unknown"}
<1>5. acks \in [Payments -> Nat]
  BY <1>1 DEF TypeOK
<1>6. /\ acks' \in [Payments -> Nat]
      /\ acks'[p] = IF risky THEN acks[p] + 1 ELSE acks[p]
      /\ \A q \in Payments \ {p} : acks'[q] = acks[q]
  <2>1. PICK latest : /\ latest = IF JobsOf(p) = {} THEN "none" ELSE jobs[top].status
                      /\ latest \in {"accepted", "unknown"} => acknowledged
                      /\ acks' = [acks EXCEPT ![p] =
                           IF acknowledged /\ latest \in {"accepted", "unknown"} THEN @ + 1 ELSE @]
    BY DEF Deliver
  <2>2. latest \in {"accepted", "unknown"} <=> risky
    BY <2>1
  <2> HIDE DEF risky
  <2>3. CASE risky
    <3>1. acks' = [acks EXCEPT ![p] = acks[p] + 1]
      BY <1>5, <2>1, <2>2, <2>3
    <3> QED
      BY <1>5, <2>3, <3>1
  <2>4. CASE ~risky
    <3>1. acks' = [acks EXCEPT ![p] = acks[p]]
      BY <1>5, <2>1, <2>2, <2>4
    <3> QED
      BY <1>5, <2>4, <3>1
  <2> QED
    BY <2>3, <2>4
<1>7. TypeOK'
  BY <1>1, <1>4, <1>6 DEF TypeOK
<1>8. MailInv'
  BY <1>1, <1>4, <1>7, MailKept
<1>9. AckInv'
  <2> SUFFICES ASSUME NEW q \in Payments PROVE Cardinality(Past(q)') <= acks'[q]
    BY DEF AckInv
  <2>0. Cardinality(Past(q)) <= acks[q] /\ acks[q] \in Nat
    BY <1>5 DEF IInv, AckInv
  <2>1. CASE q # p
    BY <1>4, <1>6, <2>0, <2>1
  <2>2. CASE q = p
    <3>1. Past(p) \subseteq DOMAIN jobs /\ Past(p)' \subseteq DOMAIN jobs'
      BY DEF Past, JobsOf
    <3>2. jobs \in Seq(Job) /\ jobs' \in Seq(Job)
      BY <1>1, <1>4 DEF TypeOK
    <3>3. /\ IsFiniteSet(Past(p)) /\ Cardinality(Past(p)) \in Nat
          /\ Cardinality(Past(p)') \in Nat
      BY <3>1, <3>2, FiniteJobs
    <3>4. CASE risky
      <4>1. Past(p)' \subseteq Past(p) \cup {top}
        BY <1>4
      <4>2. /\ IsFiniteSet(Past(p) \cup {top})
            /\ Cardinality(Past(p) \cup {top}) \in {Cardinality(Past(p)), Cardinality(Past(p)) + 1}
        BY <3>3, FS_AddElement
      <4>3. Cardinality(Past(p)') <= Cardinality(Past(p) \cup {top})
        BY <4>1, <4>2, FS_Subset
      <4> QED
        BY <1>6, <2>0, <2>2, <3>3, <3>4, <4>2, <4>3
    <3>5. CASE ~risky
      <4>1. Past(p)' \subseteq Past(p)
        BY <1>4, <3>5
      <4>2. Cardinality(Past(p)') <= Cardinality(Past(p))
        BY <3>3, <4>1, FS_Subset
      <4> QED
        BY <1>6, <2>0, <2>2, <3>3, <3>5, <4>2
    <3> QED
      BY <3>4, <3>5
  <2> QED
    BY <2>1, <2>2
<1> QED
  BY <1>4, <1>7, <1>8, <1>9 DEF IInv

-----------------------------------------------------------------------------
(* The workers.                                                            *)

LEMMA SweepStep ==
  ASSUME IInv, NEW w \in Workers, Sweep(w)
  PROVE  IInv'
<1> DEFINE record == [step |-> "swept", job |-> 0, outcome |-> "none"]
<1>1. TypeOK /\ UNCHANGED <<fulfilled, mails, acks, crashes>> /\ worker[w].step = "idle"
  BY DEF Sweep, Move, IInv
<1>2. record \in WorkerRecord /\ record.step = "swept"
  BY BoundAssumption DEF WorkerRecord
<1>3. worker' = [worker EXCEPT ![w] = record]
  BY DEF Sweep, Move
<1> HIDE DEF record
<1>4. /\ worker' \in [Workers -> WorkerRecord] /\ worker'[w].step = "swept"
      /\ \A v \in Workers \ {w} : worker'[v] = worker[v]
  BY <1>1, <1>2, <1>3, SetWorker
<1>5. /\ DOMAIN jobs = 1 .. Len(jobs) /\ Len(jobs) \in Nat
      /\ \A j \in DOMAIN jobs : jobs[j] \in Job
  BY <1>1, JobRows
<1>6. jobs' = [j \in DOMAIN jobs |->
        IF jobs[j].status = "sending" /\ jobs[j].aged
        THEN [jobs[j] EXCEPT !.status = "unknown"] ELSE jobs[j]]
  BY DEF Sweep
<1>7. \A j \in DOMAIN jobs :
        /\ jobs'[j] \in Job /\ jobs'[j].payment = jobs[j].payment
        /\ \/ jobs'[j].status = jobs[j].status
           \/ jobs[j].status = "sending" /\ jobs'[j].status = "unknown"
  BY <1>5, <1>6 DEF Job, Live, Settled
<1>8. jobs' \in Seq(Job) /\ Len(jobs') = Len(jobs) /\ DOMAIN jobs' = DOMAIN jobs
  <2>1. jobs' \in [1 .. Len(jobs) -> Job]
    BY <1>5, <1>6, <1>7
  <2> QED
    BY <1>5, <2>1
<1>9. TypeOK'
  BY <1>1, <1>4, <1>8 DEF TypeOK
<1>10. LiveInv' /\ \A p \in Payments : JobsOf(p)' = JobsOf(p) /\ Past(p)' \subseteq Past(p)
  BY <1>7, <1>8, StatusStep DEF Live
<1>11. HeldInv'
  BY <1>1, <1>4, <1>7, <1>8 DEF IInv, HeldInv, Holds
<1>12. \A j : Unsent(j)' <=> Unsent(j)
  BY <1>1, <1>4 DEF Unsent
<1>13. \A p \in Payments : \A j \in JobsOf(p) : j \in DOMAIN jobs
  BY DEF JobsOf
<1>14. \A p \in Payments : MaySent(p) \subseteq MaySent(p)' /\ HasSent(p)' \subseteq HasSent(p)
  <2>1. \A p \in Payments : MaySent(p) \subseteq MaySent(p)'
    BY <1>7, <1>10, <1>12, <1>13 DEF MaySent
  <2>2. \A p \in Payments : HasSent(p)' \subseteq HasSent(p)
    BY <1>4, <1>7, <1>10, <1>13 DEF HasSent
  <2> QED
    BY <2>1, <2>2
<1>15. MailInv' /\ AckInv'
  BY <1>1, <1>9, <1>10, <1>14, MailKept, AckKept
<1> QED
  BY <1>9, <1>10, <1>11, <1>15 DEF IInv

\* Claiming sends nothing: the job is held by nobody else, for it was pending.
LEMMA ClaimStep ==
  ASSUME IInv, NEW w \in Workers, Claim(w)
  PROVE  IInv'
<1>1. TypeOK /\ UNCHANGED <<fulfilled, mails, acks, crashes>>
  BY DEF Claim, IInv
<1>2. CASE Pending = {}
  <2>1. worker[w].step = "swept" /\ worker' = [worker EXCEPT ![w] = IdleWorker] /\ UNCHANGED jobs
    BY <1>2 DEF Claim, Move
  <2>2. /\ worker' \in [Workers -> WorkerRecord] /\ worker'[w].step = "idle"
        /\ \A v \in Workers \ {w} : worker'[v] = worker[v]
    BY <1>1, <2>1, SetWorker, NullRow
  <2>3. TypeOK'
    BY <1>1, <2>1, <2>2 DEF TypeOK
  <2>4. LiveInv' /\ HeldInv'
    BY <2>1, <2>2 DEF IInv, HeldInv, LiveInv, Holds
  <2>5. \A j : Unsent(j)' <=> Unsent(j)
    BY <2>1, <2>2 DEF Unsent
  <2>6. \A p \in Payments : /\ MaySent(p)' = MaySent(p) /\ HasSent(p)' = HasSent(p)
                            /\ Past(p)' = Past(p)
    BY <2>1, <2>2, <2>5 DEF MaySent, HasSent, Past, JobsOf
  <2>7. MailInv' /\ AckInv'
    BY <1>1, <2>3, <2>6, MailKept, AckKept
  <2> QED
    BY <2>3, <2>4, <2>7 DEF IInv
<1>3. CASE Pending # {}
  <2>1. PICK j : j = Oldest(Pending)
    OBVIOUS
  <2>2. j \in DOMAIN jobs /\ jobs[j].status = "pending"
    <3>1. Pending \subseteq Nat
      BY <1>1, JobRows DEF Pending
    <3>2. j \in Pending
      BY <1>3, <2>1, <3>1, OldestIs
    <3> QED
      BY <3>2 DEF Pending
  <2> DEFINE record == [step |-> "claimed", job |-> j, outcome |-> "none"]
             row == [jobs[j] EXCEPT !.status = "sending"]
  <2>3. /\ worker[w].step = "swept" /\ worker' = [worker EXCEPT ![w] = record]
        /\ jobs' = [jobs EXCEPT ![j] = row]
    BY <1>3, <2>1 DEF Claim, Move
  <2>4. /\ DOMAIN jobs = 1 .. Len(jobs) /\ Len(jobs) \in Nat /\ Len(jobs) <= MaxJobs
        /\ \A i \in DOMAIN jobs : jobs[i] \in Job
    BY <1>1, JobRows DEF TypeOK
  <2>5. record \in WorkerRecord /\ record.step = "claimed" /\ record.job = j
    BY <2>2, <2>4, BoundAssumption DEF WorkerRecord
  <2>6. row \in Job /\ row.payment = jobs[j].payment /\ row.status = "sending"
    BY <2>2, <2>4 DEF Job, Live
  <2> HIDE DEF record, row
  <2>7. /\ worker' \in [Workers -> WorkerRecord] /\ worker'[w] = record
        /\ \A v \in Workers \ {w} : worker'[v] = worker[v]
    BY <1>1, <2>3, <2>5, SetWorker
  <2>8. /\ jobs' \in Seq(Job) /\ Len(jobs') = Len(jobs) /\ DOMAIN jobs' = DOMAIN jobs
        /\ jobs'[j] = row /\ \A i \in DOMAIN jobs \ {j} : jobs'[i] = jobs[i]
    BY <1>1, <2>2, <2>3, <2>6, SetJob
  <2>9. TypeOK'
    BY <1>1, <2>7, <2>8 DEF TypeOK
  <2>10. LiveInv' /\ \A p \in Payments : JobsOf(p)' = JobsOf(p) /\ Past(p)' \subseteq Past(p)
    BY <2>2, <2>6, <2>8, StatusStep DEF Live
  <2>11. \A v \in Workers : Holds(v) => worker[v].job # j
    BY <2>2 DEF IInv, HeldInv
  <2>12. HeldInv'
    BY <2>2, <2>3, <2>5, <2>6, <2>7, <2>8, <2>11 DEF IInv, HeldInv, Holds
  <2>13. \A i : i # j => (Unsent(i)' <=> Unsent(i))
    BY <2>3, <2>5, <2>7 DEF Unsent
  <2>14. \A p \in Payments : \A i \in JobsOf(p) : i \in DOMAIN jobs
    BY DEF JobsOf
  <2>15. \A p \in Payments : MaySent(p) \subseteq MaySent(p)'
    BY <2>2, <2>8, <2>10, <2>13, <2>14 DEF MaySent
  <2>16. \A p \in Payments : HasSent(p)' \subseteq HasSent(p)
    BY <2>2, <2>5, <2>6, <2>7, <2>8, <2>10, <2>14 DEF HasSent
  <2>17. MailInv' /\ AckInv'
    BY <1>1, <2>9, <2>10, <2>15, <2>16, MailKept, AckKept
  <2> QED
    BY <2>9, <2>10, <2>12, <2>17 DEF IInv
<1> QED
  BY <1>2, <1>3

\* The message is charged to the job, which has sent none before.
LEMMA SendStep ==
  ASSUME IInv, NEW w \in Workers, Send(w)
  PROVE  IInv'
<1>1. TypeOK /\ UNCHANGED <<fulfilled, jobs, acks, crashes>> /\ worker[w].step = "claimed"
  BY DEF Send, IInv
<1>2. PICK j : j = worker[w].job
  OBVIOUS
<1>3. PICK p : p = jobs[j].payment
  OBVIOUS
<1>4a. PICK result \in SendResults :
         /\ worker' = [worker EXCEPT ![w] = [@ EXCEPT !.step = "sent", !.outcome = result[2]]]
         /\ mails' = [mails EXCEPT ![p] = IF result[1] THEN @ + 1 ELSE @]
  BY <1>2, <1>3 DEF Send, SendResults
<1>4b. PICK accepted : accepted = result[1]
  OBVIOUS
<1>4c. PICK outcome : outcome = result[2]
  OBVIOUS
<1>4. /\ worker' = [worker EXCEPT ![w] = [@ EXCEPT !.step = "sent", !.outcome = outcome]]
      /\ mails' = [mails EXCEPT ![p] = IF accepted THEN @ + 1 ELSE @]
  BY <1>4a, <1>4b, <1>4c
<1>5. /\ accepted \in BOOLEAN /\ outcome \in Settled
      /\ outcome = "accepted" => accepted
      /\ outcome = "failed" => ~accepted
  <2>1. CASE result = <<TRUE, "accepted">>
    BY <1>4b, <1>4c, <2>1 DEF Settled
  <2>2. CASE result = <<FALSE, "failed">>
    BY <1>4b, <1>4c, <2>2 DEF Settled
  <2>3. CASE result = <<TRUE, "unknown">>
    BY <1>4b, <1>4c, <2>3 DEF Settled
  <2>4. CASE result = <<FALSE, "unknown">>
    BY <1>4b, <1>4c, <2>4 DEF Settled
  <2> QED
    BY <2>1, <2>2, <2>3, <2>4 DEF SendResults
<1>6. /\ j \in DOMAIN jobs /\ p \in Payments /\ j \in JobsOf(p)
      /\ jobs[j].status \in {"sending", "unknown"}
  <2>1. j \in DOMAIN jobs /\ jobs[j].status \in {"sending", "unknown"}
    BY <1>1, <1>2 DEF IInv, HeldInv, Holds
  <2>2. jobs[j] \in Job
    BY <1>1, <2>1, JobRows
  <2> QED
    BY <1>3, <2>1, <2>2 DEF JobsOf, Job
<1>7. \A v \in Workers : Holds(v) /\ worker[v].job = j => v = w
  BY <1>1, <1>2 DEF IInv, HeldInv, Holds
<1> DEFINE record == [worker[w] EXCEPT !.step = "sent", !.outcome = outcome]
<1>8. worker' = [worker EXCEPT ![w] = record] /\ worker[w] \in WorkerRecord
  BY <1>1, <1>4 DEF TypeOK
<1>9. /\ record \in WorkerRecord /\ record.step = "sent" /\ record.job = j
      /\ record.outcome = outcome
  BY <1>2, <1>5, <1>8 DEF WorkerRecord
<1> HIDE DEF record
<1>10. /\ worker' \in [Workers -> WorkerRecord] /\ worker'[w] = record
       /\ \A v \in Workers \ {w} : worker'[v] = worker[v]
  BY <1>1, <1>8, <1>9, SetWorker
<1>11. /\ mails \in [Payments -> Nat] /\ mails' \in [Payments -> Nat]
       /\ mails'[p] = IF accepted THEN mails[p] + 1 ELSE mails[p]
       /\ \A q \in Payments \ {p} : mails'[q] = mails[q]
  <2>1. mails \in [Payments -> Nat]
    BY <1>1 DEF TypeOK
  <2>2. CASE accepted
    BY <1>4, <1>6, <2>1, <2>2
  <2>3. CASE ~accepted
    BY <1>4, <1>6, <2>1, <2>3
  <2> QED
    BY <2>1, <2>2, <2>3
<1>12. TypeOK'
  BY <1>1, <1>10, <1>11 DEF TypeOK
<1>13. /\ LiveInv'
       /\ \A q \in Payments : JobsOf(q)' = JobsOf(q) /\ Past(q)' = Past(q)
  BY <1>1 DEF IInv, LiveInv, Past, JobsOf
<1>14. HeldInv'
  BY <1>1, <1>2, <1>5, <1>9, <1>10 DEF IInv, HeldInv, Holds
<1>15. AckInv'
  BY <1>1, <1>12, <1>13, AckKept
<1>16. \A i : i # j => (Unsent(i)' <=> Unsent(i))
  BY <1>2, <1>9, <1>10 DEF Unsent
<1>17. Unsent(j) /\ (outcome # "failed" => ~Unsent(j)')
  <2>1. Unsent(j)
    <3>1. worker[w].job = j /\ worker[w].step = "claimed"
      BY <1>1, <1>2
    <3> QED
      BY <3>1, Zenon DEF Unsent
  <2>2. ASSUME outcome # "failed" PROVE ~Unsent(j)'
    BY <1>7, <1>9, <1>10, <2>2 DEF Unsent, Holds
  <2> QED
    BY <2>1, <2>2
<1>18. /\ \A q \in Payments : MaySent(q) \subseteq MaySent(q)'
       /\ outcome # "failed" => j \in MaySent(p)'
       /\ j \notin MaySent(p)
  <2>1. \A q \in Payments : MaySent(q) \subseteq MaySent(q)'
    BY <1>1, <1>13, <1>16, <1>17 DEF MaySent
  <2>2. outcome # "failed" => j \in MaySent(p)'
    BY <1>1, <1>6, <1>13, <1>17 DEF MaySent
  <2>3. j \notin MaySent(p)
    BY <1>17 DEF MaySent
  <2> QED
    BY <2>1, <2>2, <2>3
<1>19. /\ \A q \in Payments \ {p} : HasSent(q)' \subseteq HasSent(q)
       /\ HasSent(p)' \subseteq HasSent(p) \cup {j}
       /\ outcome # "accepted" => HasSent(p)' \subseteq HasSent(p)
  <2>1. ASSUME NEW q \in Payments, NEW i \in HasSent(q)'
        PROVE  i \in HasSent(q) \/ (i = j /\ outcome = "accepted")
    <3>1. i \in JobsOf(q)
      BY <1>13, <2>1 DEF HasSent
    <3>2. CASE jobs[i].status = "accepted"
      BY <3>1, <3>2 DEF HasSent
    <3>3. CASE \E v \in Workers : /\ worker'[v].job = i
                                  /\ worker'[v].step = "sent" /\ worker'[v].outcome = "accepted"
      <4>1. PICK v \in Workers : /\ worker'[v].job = i
                                 /\ worker'[v].step = "sent" /\ worker'[v].outcome = "accepted"
        BY <3>3
      <4>2. CASE v = w
        BY <1>9, <1>10, <4>1, <4>2
      <4>3. CASE v # w
        BY <1>10, <3>1, <4>1, <4>3 DEF HasSent
      <4> QED
        BY <4>2, <4>3
    <3> QED
      BY <1>1, <2>1, <3>2, <3>3 DEF HasSent
  <2>2. \A q \in Payments \ {p} : j \notin JobsOf(q)
    BY <1>3 DEF JobsOf
  <2>3. \A q \in Payments \ {p} : HasSent(q)' \subseteq HasSent(q)
    <3> SUFFICES ASSUME NEW q \in Payments \ {p}, NEW i \in HasSent(q)' PROVE i \in HasSent(q)
      OBVIOUS
    <3>1. i # j
      BY <1>13, <2>2 DEF HasSent
    <3> QED
      BY <2>1, <3>1
  <2> QED
    BY <1>6, <2>1, <2>3
<1>20. MailInv'
  <2> SUFFICES ASSUME NEW q \in Payments
               PROVE  mails'[q] <= Cardinality(MaySent(q)') /\ Cardinality(HasSent(q)') <= mails'[q]
    BY DEF MailInv
  <2>1. /\ MaySent(q)' \subseteq DOMAIN jobs /\ HasSent(q) \subseteq DOMAIN jobs
        /\ MaySent(q) \subseteq DOMAIN jobs /\ HasSent(q)' \subseteq DOMAIN jobs
    BY <1>1 DEF MaySent, HasSent, JobsOf
  <2>2. jobs \in Seq(Job)
    BY <1>1 DEF TypeOK
  <2>3. /\ IsFiniteSet(MaySent(q)') /\ Cardinality(MaySent(q)') \in Nat
        /\ IsFiniteSet(HasSent(q)) /\ Cardinality(HasSent(q)) \in Nat
        /\ IsFiniteSet(MaySent(q)) /\ Cardinality(MaySent(q)) \in Nat
        /\ Cardinality(HasSent(q)') \in Nat
    BY <2>1, <2>2, FiniteJobs
  <2>4. /\ mails[q] \in Nat /\ mails[q] <= Cardinality(MaySent(q))
        /\ Cardinality(HasSent(q)) <= mails[q]
    BY <1>11 DEF IInv, MailInv
  <2>5. Cardinality(MaySent(q)) <= Cardinality(MaySent(q)')
    BY <1>18, <2>3, FS_Subset
  <2>6. CASE q # p \/ ~accepted
    <3>1. HasSent(q)' \subseteq HasSent(q) /\ mails'[q] = mails[q]
      BY <1>5, <1>11, <1>19, <2>6
    <3>2. Cardinality(HasSent(q)') <= Cardinality(HasSent(q))
      BY <2>3, <3>1, FS_Subset
    <3> QED
      BY <2>3, <2>4, <2>5, <3>1, <3>2
  <2>7. CASE q = p /\ accepted
    <3>1. mails'[q] = mails[q] + 1
      BY <1>11, <2>7
    <3>2. MaySent(q) \cup {j} \subseteq MaySent(q)' /\ j \notin MaySent(q)
      BY <1>5, <1>18, <2>7
    <3>3. Cardinality(MaySent(q) \cup {j}) = Cardinality(MaySent(q)) + 1
      BY <2>3, <3>2, FS_AddElement
    <3>4. Cardinality(MaySent(q) \cup {j}) <= Cardinality(MaySent(q)')
      BY <2>3, <3>2, FS_Subset
    <3>5. /\ IsFiniteSet(HasSent(q) \cup {j})
          /\ Cardinality(HasSent(q) \cup {j}) \in {Cardinality(HasSent(q)), Cardinality(HasSent(q)) + 1}
      BY <2>3, FS_AddElement
    <3>6. Cardinality(HasSent(q)') <= Cardinality(HasSent(q) \cup {j})
      BY <1>19, <2>7, <3>5, FS_Subset
    <3> QED
      BY <2>3, <2>4, <3>1, <3>3, <3>4, <3>5, <3>6
  <2> QED
    BY <2>6, <2>7
<1> QED
  BY <1>12, <1>13, <1>14, <1>15, <1>20 DEF IInv

\* A worker that lets go of its job, recorded or not: nothing may be forgotten
\* that was sent, nothing be added.
LEMMA RecordStep ==
  ASSUME IInv, NEW w \in Workers, Record(w)
  PROVE  IInv'
<1>1. TypeOK /\ UNCHANGED <<fulfilled, mails, acks, crashes>> /\ worker[w].step = "sent"
  BY DEF Record, Move, IInv
<1>2. worker' = [worker EXCEPT ![w] = IdleWorker]
  BY DEF Record, Move
<1>3. /\ worker' \in [Workers -> WorkerRecord] /\ worker'[w].step = "idle"
      /\ \A v \in Workers \ {w} : worker'[v] = worker[v]
  BY <1>1, <1>2, SetWorker, NullRow
<1>4. PICK j : j = worker[w].job
  OBVIOUS
<1>5. PICK outcome : outcome = worker[w].outcome
  OBVIOUS
<1>6. /\ j \in DOMAIN jobs /\ jobs[j] \in Job /\ outcome \in Settled
      /\ jobs[j].status \in {"sending", "unknown"}
  BY <1>1, <1>4, <1>5, JobRows DEF IInv, HeldInv, Holds
<1>7. \A v \in Workers \ {w} : Holds(v) => worker[v].job # j
  BY <1>1, <1>4 DEF IInv, HeldInv, Holds
<1>8. \A i : Unsent(i)' => Unsent(i)
  BY <1>3 DEF Unsent
<1>9. \A i : i # j => (Unsent(i)' <=> Unsent(i))
  BY <1>3, <1>4 DEF Unsent
<1>10. outcome = "failed" => Unsent(j)
  BY <1>1, <1>4, <1>5 DEF Unsent
<1>11. \A p \in Payments : \A i \in JobsOf(p) : i \in DOMAIN jobs
  BY DEF JobsOf
<1>12. CASE jobs[j].status = "sending"
  <2> DEFINE row == [jobs[j] EXCEPT !.status = outcome]
  <2>1. jobs' = [jobs EXCEPT ![j] = row]
    BY <1>4, <1>5, <1>12 DEF Record
  <2>2. row \in Job /\ row.payment = jobs[j].payment /\ row.status = outcome
    BY <1>6 DEF Job
  <2> HIDE DEF row
  <2>3. /\ jobs' \in Seq(Job) /\ Len(jobs') = Len(jobs) /\ DOMAIN jobs' = DOMAIN jobs
        /\ jobs'[j] = row /\ \A i \in DOMAIN jobs \ {j} : jobs'[i] = jobs[i]
    BY <1>1, <1>6, <2>1, <2>2, SetJob
  <2>4. TypeOK'
    BY <1>1, <1>3, <2>3 DEF TypeOK
  <2>5. LiveInv' /\ \A p \in Payments : JobsOf(p)' = JobsOf(p) /\ Past(p)' \subseteq Past(p)
    BY <1>6, <1>12, <2>2, <2>3, StatusStep DEF Live, Settled
  <2>6. HeldInv'
    BY <1>3, <1>7, <2>3 DEF IInv, HeldInv, Holds
  <2>7. \A p \in Payments : MaySent(p) \subseteq MaySent(p)'
    <3> SUFFICES ASSUME NEW p \in Payments, NEW i \in MaySent(p) PROVE i \in MaySent(p)'
      OBVIOUS
    <3>1. /\ i \in JobsOf(p)' /\ i \in DOMAIN jobs /\ ~Unsent(i)'
          /\ jobs[i].status \in {"sending", "accepted", "unknown"} /\ ~Unsent(i)
      BY <1>8, <1>11, <2>5 DEF MaySent
    <3>2. i = j => outcome \in {"accepted", "unknown"}
      BY <1>6, <1>10, <3>1 DEF Settled
    <3>3. jobs'[i].status \in {"sending", "accepted", "unknown"}
      BY <2>2, <2>3, <3>1, <3>2
    <3> QED
      BY <3>1, <3>3 DEF MaySent
  <2>8. \A p \in Payments : HasSent(p)' \subseteq HasSent(p)
    <3> SUFFICES ASSUME NEW p \in Payments, NEW i \in HasSent(p)' PROVE i \in HasSent(p)
      OBVIOUS
    <3>1. i \in JobsOf(p) /\ i \in DOMAIN jobs
      BY <1>11, <2>5 DEF HasSent
    <3>2. CASE i = j /\ outcome = "accepted"
      BY <1>1, <1>4, <1>5, <3>1, <3>2 DEF HasSent
    <3>3. CASE i = j /\ outcome # "accepted"
      BY <1>3, <1>4, <1>7, <2>2, <2>3, <3>1, <3>3 DEF HasSent, Holds
    <3>4. CASE i # j
      BY <1>3, <2>3, <3>1, <3>4 DEF HasSent
    <3> QED
      BY <3>2, <3>3, <3>4
  <2>9. MailInv' /\ AckInv'
    BY <1>1, <2>4, <2>5, <2>7, <2>8, MailKept, AckKept
  <2> QED
    BY <2>4, <2>5, <2>6, <2>9 DEF IInv
<1>13. CASE jobs[j].status # "sending"
  <2>1. UNCHANGED jobs
    BY <1>4, <1>13 DEF Record
  <2>2. TypeOK'
    BY <1>1, <1>3, <2>1 DEF TypeOK
  <2>3. LiveInv' /\ HeldInv'
    BY <1>3, <2>1 DEF IInv, HeldInv, LiveInv, Holds
  <2>4. \A p \in Payments : /\ MaySent(p) \subseteq MaySent(p)' /\ HasSent(p)' \subseteq HasSent(p)
                            /\ Past(p)' \subseteq Past(p)
    BY <1>3, <1>8, <2>1 DEF MaySent, HasSent, Past, JobsOf
  <2>5. MailInv' /\ AckInv'
    BY <1>1, <2>2, <2>4, MailKept, AckKept
  <2> QED
    BY <2>2, <2>3, <2>5 DEF IInv
<1> QED
  BY <1>12, <1>13

\* A dead worker leaves its job "sending", as one that may have been delivered.
LEMMA CrashStep ==
  ASSUME IInv, NEW w \in Workers, Crash(w)
  PROVE  IInv'
<1>1. TypeOK /\ UNCHANGED <<fulfilled, jobs, mails, acks>> /\ crashes < MaxCrashes
      /\ crashes' = crashes + 1
  BY DEF Crash, IInv
<1>2. /\ worker' \in [Workers -> WorkerRecord] /\ worker'[w].step = "idle"
      /\ \A v \in Workers \ {w} : worker'[v] = worker[v]
  BY <1>1, SetWorker, NullRow DEF Crash
<1>3. TypeOK'
  BY <1>1, <1>2, BoundAssumption DEF TypeOK
<1>4. LiveInv' /\ HeldInv'
  BY <1>1, <1>2 DEF IInv, HeldInv, LiveInv, Holds
<1>5. \A i : Unsent(i)' => Unsent(i)
  BY <1>2 DEF Unsent
<1>6. \A p \in Payments : /\ MaySent(p) \subseteq MaySent(p)' /\ HasSent(p)' \subseteq HasSent(p)
                          /\ Past(p)' \subseteq Past(p)
  BY <1>1, <1>2, <1>5 DEF MaySent, HasSent, Past, JobsOf
<1>7. MailInv' /\ AckInv'
  BY <1>1, <1>3, <1>6, MailKept, AckKept
<1> QED
  BY <1>3, <1>4, <1>7 DEF IInv

LEMMA AgeStep ==
  ASSUME IInv, NEW j \in DOMAIN jobs, Age(j)
  PROVE  IInv'
<1>1. TypeOK /\ UNCHANGED <<fulfilled, worker, mails, acks, crashes>>
  BY DEF Age, IInv
<1> DEFINE row == [jobs[j] EXCEPT !.aged = TRUE]
<1>2. jobs' = [jobs EXCEPT ![j] = row]
  BY DEF Age
<1>3. row \in Job /\ row.payment = jobs[j].payment /\ row.status = jobs[j].status
  BY <1>1, JobRows DEF Job
<1> HIDE DEF row
<1>4. /\ jobs' \in Seq(Job) /\ Len(jobs') = Len(jobs) /\ DOMAIN jobs' = DOMAIN jobs
      /\ \A i \in DOMAIN jobs : /\ jobs'[i].status = jobs[i].status
                                /\ jobs'[i].payment = jobs[i].payment
  BY <1>1, <1>2, <1>3, SetJob
<1>5. TypeOK'
  BY <1>1, <1>4 DEF TypeOK
<1>6. LiveInv' /\ \A p \in Payments : JobsOf(p)' = JobsOf(p) /\ Past(p)' \subseteq Past(p)
  BY <1>4, StatusStep
<1>7. HeldInv'
  BY <1>1, <1>4 DEF IInv, HeldInv, Holds
<1>8. \A i : Unsent(i)' <=> Unsent(i)
  BY <1>1 DEF Unsent
<1>9. \A p \in Payments : \A i \in JobsOf(p) : i \in DOMAIN jobs
  BY DEF JobsOf
<1>10. \A p \in Payments : MaySent(p) \subseteq MaySent(p)' /\ HasSent(p)' \subseteq HasSent(p)
  BY <1>1, <1>4, <1>6, <1>8, <1>9 DEF MaySent, HasSent
<1>11. MailInv' /\ AckInv'
  BY <1>1, <1>5, <1>6, <1>10, MailKept, AckKept
<1> QED
  BY <1>5, <1>6, <1>7, <1>11 DEF IInv

LEMMA StutterStep == IInv /\ UNCHANGED vars => IInv'
<1> SUFFICES ASSUME IInv, UNCHANGED vars PROVE IInv'
  OBVIOUS
<1>1. UNCHANGED <<fulfilled, jobs, worker, mails, acks, crashes>>
  BY DEF vars
<1>2. TypeOK' /\ HeldInv' /\ LiveInv'
  BY <1>1 DEF IInv, TypeOK, HeldInv, LiveInv, Holds
<1>3. \A p \in Payments : /\ MaySent(p)' = MaySent(p) /\ HasSent(p)' = HasSent(p)
                          /\ Past(p)' = Past(p)
  BY <1>1 DEF MaySent, HasSent, Past, JobsOf, Unsent
<1>4. MailInv' /\ AckInv'
  BY <1>1, <1>2, <1>3, MailKept, AckKept
<1> QED
  BY <1>2, <1>4 DEF IInv

LEMMA InvNext == IInv /\ [Next]_vars => IInv'
<1> SUFFICES ASSUME IInv, [Next]_vars PROVE IInv'
  OBVIOUS
<1>1. ASSUME NEW p \in Payments, FulfilAndQueue(p) PROVE IInv'
  BY <1>1, FulfilAndQueueStep
<1>2. ASSUME NEW p \in Payments, NEW acknowledged \in BOOLEAN, Deliver(p, acknowledged)
      PROVE  IInv'
  BY <1>2, DeliverStep
<1>3. ASSUME NEW w \in Workers, Work(w) PROVE IInv'
  BY <1>3, SweepStep, ClaimStep, SendStep, RecordStep DEF Work
<1>4. ASSUME NEW w \in Workers, Crash(w) PROVE IInv'
  BY <1>4, CrashStep
<1>5. ASSUME NEW j \in DOMAIN jobs, Age(j) PROVE IInv'
  BY <1>5, AgeStep
<1>6. CASE UNCHANGED vars
  BY <1>6, StutterStep
<1> QED
  BY <1>1, <1>2, <1>3, <1>4, <1>5, <1>6 DEF Next, Api

-----------------------------------------------------------------------------
(* The theorems.                                                           *)

\* The inductive invariant: each message is charged to one job, and each job but
\* the newest that may have sent one to one acknowledgement.
THEOREM Invariant == Spec => []IInv
BY InvInit, InvNext, PTL DEF Spec

\* Every row, worker and counter keeps its type.
THEOREM TypeCorrect == Spec => []TypeOK
<1>1. IInv => TypeOK
  BY DEF IInv
<1> QED
  BY <1>1, Invariant, PTL

\* The database constraint one_live_payment_delivery is never violated: neither a
\* resend nor a fulfilment replay adds a job while another is live.
THEOREM OnlyNewestIsLiveAlways == Spec => []OnlyNewestIsLive
<1>1. IInv => OnlyNewestIsLive
  <2> SUFFICES ASSUME IInv, NEW j \in DOMAIN jobs, jobs[j].status \in Live
               PROVE  j = Newest(JobsOf(jobs[j].payment))
    BY DEF OnlyNewestIsLive
  <2>1. PICK p : p = jobs[j].payment
    OBVIOUS
  <2>2. PICK top : top = Newest(JobsOf(p))
    OBVIOUS
  <2>3. /\ Len(jobs) \in Nat /\ JobsOf(p) \subseteq 1 .. Len(jobs) /\ DOMAIN jobs = 1 .. Len(jobs)
    BY JobRows DEF IInv
  <2>4. j \in JobsOf(p)
    BY <2>1 DEF JobsOf
  <2>5. top \in JobsOf(p) /\ j <= top
    BY <2>2, <2>3, <2>4, NewestIs
  <2>6. top <= j
    BY <2>1, <2>5 DEF IInv, LiveInv, JobsOf
  <2> QED
    BY <2>1, <2>2, <2>3, <2>4, <2>5, <2>6
<1> QED
  BY <1>1, Invariant, PTL

\* Of the jobs that may have sent a message all but one were left behind by an
\* acknowledged resend.
THEOREM NoUnacknowledgedDuplicateAlways == Spec => []NoUnacknowledgedDuplicate
<1>1. IInv => NoUnacknowledgedDuplicate
  <2> SUFFICES ASSUME IInv, NEW p \in Payments PROVE mails[p] <= 1 + acks[p]
    BY DEF NoUnacknowledgedDuplicate
  <2>1. /\ TypeOK /\ mails[p] \in Nat /\ acks[p] \in Nat
        /\ mails[p] <= Cardinality(MaySent(p)) /\ Cardinality(Past(p)) <= acks[p]
    BY DEF IInv, TypeOK, MailInv, AckInv
  <2>2. MaySent(p) \subseteq DOMAIN jobs /\ Past(p) \subseteq DOMAIN jobs /\ jobs \in Seq(Job)
    BY <2>1 DEF MaySent, Past, JobsOf, TypeOK
  <2>3. /\ Cardinality(MaySent(p)) \in Nat
        /\ IsFiniteSet(Past(p)) /\ Cardinality(Past(p)) \in Nat
    BY <2>2, FiniteJobs
  <2>4. PICK top : top = Newest(JobsOf(p))
    OBVIOUS
  <2>5. ASSUME NEW j \in MaySent(p), j \notin Past(p) PROVE j = top
    <3>1. j \in JobsOf(p) /\ JobsOf(p) # {}
      BY DEF MaySent
    <3>2. /\ Len(jobs) \in Nat /\ JobsOf(p) \subseteq 1 .. Len(jobs)
      BY <2>1, JobRows
    <3>3. top \in JobsOf(p) /\ j <= top
      BY <2>4, <3>1, <3>2, NewestIs
    <3>4. CASE jobs[j].status \in {"accepted", "unknown"}
      BY <2>5, <3>1, <3>2, <3>3, <3>4 DEF Past
    <3>5. CASE jobs[j].status = "sending"
      <4>1. top <= j
        BY <3>1, <3>3, <3>5 DEF IInv, LiveInv, JobsOf, Live
      <4> QED
        BY <3>1, <3>2, <3>3, <4>1
    <3> QED
      BY <3>4, <3>5 DEF MaySent
  <2>6. MaySent(p) \subseteq Past(p) \cup {top}
    BY <2>5
  <2>7. /\ IsFiniteSet(Past(p) \cup {top})
        /\ Cardinality(Past(p) \cup {top}) \in {Cardinality(Past(p)), Cardinality(Past(p)) + 1}
    BY <2>3, FS_AddElement
  <2>8. Cardinality(MaySent(p)) <= Cardinality(Past(p) \cup {top})
    BY <2>6, <2>7, FS_Subset
  <2> QED
    BY <2>1, <2>3, <2>7, <2>8
<1> QED
  BY <1>1, Invariant, PTL

\* What a manager reads off the delivery history before resending is true.
THEOREM OutcomesAreTrueAlways == Spec => []OutcomesAreTrue
<1>1. IInv => OutcomesAreTrue
  <2> SUFFICES ASSUME IInv, NEW p \in Payments
               PROVE  /\ (\A j \in JobsOf(p) : jobs[j].status \in {"pending", "failed"}) => mails[p] = 0
                      /\ Cardinality({j \in JobsOf(p) : jobs[j].status = "accepted"}) <= mails[p]
    BY DEF OutcomesAreTrue
  <2> DEFINE took == {j \in JobsOf(p) : jobs[j].status = "accepted"}
  <2>1. /\ jobs \in Seq(Job) /\ mails[p] \in Nat
        /\ mails[p] <= Cardinality(MaySent(p)) /\ Cardinality(HasSent(p)) <= mails[p]
    BY DEF IInv, TypeOK, MailInv
  <2>2. took \subseteq HasSent(p) /\ HasSent(p) \subseteq DOMAIN jobs /\ took \subseteq DOMAIN jobs
    BY DEF HasSent, JobsOf
  <2> HIDE DEF took
  <2>3. ASSUME \A j \in JobsOf(p) : jobs[j].status \in {"pending", "failed"} PROVE mails[p] = 0
    <3>1. MaySent(p) = {}
      BY <2>3 DEF MaySent
    <3>2. Cardinality(MaySent(p)) = 0
      BY <3>1, FS_EmptySet
    <3> QED
      BY <2>1, <3>2
  <2>4. Cardinality(took) <= mails[p]
    <3>1. /\ IsFiniteSet(HasSent(p)) /\ Cardinality(HasSent(p)) \in Nat
          /\ Cardinality(took) \in Nat
      BY <2>1, <2>2, FiniteJobs
    <3>2. Cardinality(took) <= Cardinality(HasSent(p))
      BY <2>2, <3>1, FS_Subset
    <3> QED
      BY <2>1, <3>1, <3>2
  <2> QED
    BY <2>3, <2>4 DEF took
<1> QED
  BY <1>1, Invariant, PTL

\* No step of any worker rewrites a settled outcome: of two that come to one job
\* the second finds it settled.
THEOREM OutcomesAreFinalAlways == Spec => OutcomesAreFinal
<1> DEFINE Final == \A j \in DOMAIN jobs :
             jobs[j].status \in Settled => jobs'[j].status = jobs[j].status
<1>1. IInv /\ [Next]_vars => [Final]_vars
  <2> SUFFICES ASSUME IInv, Next, NEW j \in DOMAIN jobs, jobs[j].status \in Settled
               PROVE  jobs'[j].status = jobs[j].status
    OBVIOUS
  <2>1. /\ TypeOK /\ DOMAIN jobs = 1 .. Len(jobs) /\ Len(jobs) \in Nat
        /\ jobs \in Seq(Job) /\ jobs[j] \in Job
    BY JobRows DEF IInv, TypeOK
  <2>2. ASSUME NEW p \in Payments, NewJob(p) PROVE jobs'[j].status = jobs[j].status
    BY <2>1, <2>2 DEF NewJob
  <2>3. ASSUME NEW p \in Payments, FulfilAndQueue(p) PROVE jobs'[j].status = jobs[j].status
    BY <2>2, <2>3 DEF FulfilAndQueue
  <2>4. ASSUME NEW p \in Payments, NEW acknowledged \in BOOLEAN, Deliver(p, acknowledged)
        PROVE  jobs'[j].status = jobs[j].status
    BY <2>2, <2>4 DEF Deliver
  <2>5. ASSUME NEW w \in Workers, Sweep(w) PROVE jobs'[j].status = jobs[j].status
    BY <2>1, <2>5 DEF Sweep, Settled
  <2>6. ASSUME NEW w \in Workers, Claim(w) PROVE jobs'[j].status = jobs[j].status
    <3>1. CASE Pending = {}
      BY <2>6, <3>1 DEF Claim
    <3>2. CASE Pending # {}
      <4>1. PICK i : i = Oldest(Pending)
        OBVIOUS
      <4>2. Pending \subseteq Nat
        BY <2>1 DEF Pending
      <4>2a. i \in Pending
        BY <3>2, <4>1, <4>2, OldestIs
      <4>3. i # j
        BY <4>2a DEF Pending, Settled
      <4>4. jobs' = [jobs EXCEPT ![i].status = "sending"]
        BY <2>6, <3>2, <4>1 DEF Claim
      <4> QED
        BY <2>1, <4>3, <4>4
    <3> QED
      BY <3>1, <3>2
  <2>7. ASSUME NEW w \in Workers, Send(w) PROVE jobs'[j].status = jobs[j].status
    BY <2>7 DEF Send
  <2>8. ASSUME NEW w \in Workers, Record(w) PROVE jobs'[j].status = jobs[j].status
    <3>1. PICK i : i = worker[w].job
      OBVIOUS
    <3>2. CASE jobs[i].status = "sending"
      <4>1. i # j
        BY <3>2 DEF Settled
      <4>2. jobs' = [jobs EXCEPT ![i].status = worker[w].outcome]
        BY <2>8, <3>1, <3>2 DEF Record
      <4> QED
        BY <2>1, <4>1, <4>2
    <3>3. CASE jobs[i].status # "sending"
      BY <2>8, <3>1, <3>3 DEF Record
    <3> QED
      BY <3>2, <3>3
  <2>9. ASSUME NEW w \in Workers, Crash(w) PROVE jobs'[j].status = jobs[j].status
    BY <2>9 DEF Crash
  <2>10. ASSUME NEW i \in DOMAIN jobs, Age(i) PROVE jobs'[j].status = jobs[j].status
    <3>1. i # j
      BY <2>10 DEF Age, Settled
    <3> QED
      BY <2>1, <2>10, <3>1 DEF Age
  <2> QED
    BY <2>3, <2>4, <2>5, <2>6, <2>7, <2>8, <2>9, <2>10 DEF Next, Api, Work
<1> QED
  BY <1>1, Invariant, PTL DEF Spec, OutcomesAreFinal

==============================================================================
