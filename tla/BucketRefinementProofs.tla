-------------------------- MODULE BucketRefinementProofs --------------------------
(***************************************************************************)
(* The driver implements BucketService, for any number of calls, names,    *)
(* sizes and faults: every step of a call is one step of the service for   *)
(* that call, or none.                                                     *)
(***************************************************************************)
EXTENDS BucketRefinement, BucketProvisionerProofs

\* What the service sees of one call.
LEMMA BarAt ==
  ASSUME NEW c \in Call
  PROVE  /\ wantBar[c] = IF pc[c] = "idle" THEN [op |-> "none"]
                         ELSE IF req[c].op = "create"
                           THEN [op |-> "create", name |-> BucketName(c), size |-> SizeOf(c)]
                         ELSE [op |-> "delete", name |-> BucketName(c)]
         /\ code[c] = "none" => answerBar[c] = "none"
         /\ code[c] = "OK" => answerBar[c] = "OK"
         /\ code[c] \in Uncertain => answerBar[c] = "failed"
         /\ code[c] \in Harmless => answerBar[c] = "refused"
         /\ actedBar[c] = (job[c].state = "success")
         /\ seenBar[c] = (pc[c] = "equal")
  <1>1. code[c] = "none" => answerBar[c] = "none"
    BY DEF answerBar, Uncertain, Harmless
  <1>2. code[c] = "OK" => answerBar[c] = "OK"
    BY DEF answerBar, Uncertain, Harmless
  <1>3. code[c] \in Uncertain => answerBar[c] = "failed"
    BY DEF answerBar, Uncertain, Harmless
  <1>4. code[c] \in Harmless => answerBar[c] = "refused"
    BY DEF answerBar, Uncertain, Harmless
  <1>5. actedBar[c] = (job[c].state = "success") /\ seenBar[c] = (pc[c] = "equal")
    BY DEF actedBar, seenBar
  <1>6. wantBar[c] = IF pc[c] = "idle" THEN [op |-> "none"]
                     ELSE IF req[c].op = "create"
                       THEN [op |-> "create", name |-> BucketName(c), size |-> SizeOf(c)]
                     ELSE [op |-> "delete", name |-> BucketName(c)]
    BY DEF wantBar
  <1> QED BY <1>1, <1>2, <1>3, <1>4, <1>5, <1>6

\* A step of call c leaves what the service sees of the other calls alone.
LEMMA BarFrame ==
  ASSUME TypeOK, NEW c \in Call, Step(c)
  PROVE  /\ wantBar' = [wantBar EXCEPT ![c] = wantBar'[c]]
         /\ answerBar' = [answerBar EXCEPT ![c] = answerBar'[c]]
         /\ actedBar' = [actedBar EXCEPT ![c] = actedBar'[c]]
         /\ seenBar' = [seenBar EXCEPT ![c] = seenBar'[c]]
  <1> USE StepFrame
  <1>1. wantBar' = [wantBar EXCEPT ![c] = wantBar'[c]]
    <2>1. ASSUME NEW d \in Call, d # c
          PROVE  /\ BucketName(d)' = BucketName(d) /\ SizeOf(d)' = SizeOf(d)
                 /\ pc'[d] = pc[d] /\ req'[d] = req[d]
      BY <2>1 DEF BucketName, SizeOf
    <2>2. ASSUME NEW d \in Call, d # c PROVE wantBar'[d] = wantBar[d]
      BY <2>1, <2>2 DEF wantBar
    <2>3. wantBar = [d \in Call |-> wantBar[d]] /\ wantBar' = [d \in Call |-> wantBar'[d]]
      BY DEF wantBar
    <2> HIDE DEF wantBar
    <2> QED BY <2>2, <2>3
  <1>2. answerBar' = [answerBar EXCEPT ![c] = answerBar'[c]]
    <2>1. ASSUME NEW d \in Call, d # c PROVE answerBar'[d] = answerBar[d]
      BY <2>1 DEF answerBar
    <2>2. answerBar = [d \in Call |-> answerBar[d]] /\ answerBar' = [d \in Call |-> answerBar'[d]]
      BY DEF answerBar
    <2> QED BY <2>1, <2>2
  <1>3. actedBar' = [actedBar EXCEPT ![c] = actedBar'[c]]
    BY DEF actedBar
  <1>4. seenBar' = [seenBar EXCEPT ![c] = seenBar'[c]]
    BY DEF seenBar
  <1> QED BY <1>1, <1>2, <1>3, <1>4

\* The call has been received and not been answered.
LEMMA InFlightPends ==
  ASSUME TypeOK, Accounting, NEW c \in Call, InFlight(c)
  PROVE  /\ Service!Pending(c)
         /\ wantBar[c].op = req[c].op /\ wantBar[c].name = BucketName(c)
         /\ Service!Named(wantBar[c].name) = listBucketsByName(BucketName(c))
  <1>1. code[c] = "none" /\ pc[c] # "idle"
    BY DEF Accounting, InFlight
  <1>2. answerBar[c] = "none"
    BY <1>1, BarAt
  <1>3. \/ /\ req[c].op = "create"
           /\ wantBar[c] = [op |-> "create", name |-> BucketName(c), size |-> SizeOf(c)]
        \/ /\ req[c].op = "delete"
           /\ wantBar[c] = [op |-> "delete", name |-> BucketName(c)]
    BY <1>1, BarAt DEF TypeOK, Request
  <1>4. /\ wantBar[c].op = req[c].op /\ wantBar[c].name = BucketName(c)
        /\ req[c].op \in {"create", "delete"}
    BY <1>3
  <1>5. wantBar[c] # [op |-> "none"]
    BY <1>4
  <1> QED BY <1>2, <1>4, <1>5 DEF Service!Pending, Service!Nothing, Service!Named, listBucketsByName

\* A request that stays as it is asks for the same thing.
LEMMA WantStays ==
  ASSUME TypeOK, NEW c \in Call, Step(c), pc[c] # "idle", pc'[c] # "idle"
  PROVE  wantBar' = wantBar
  <1>1. BucketName(c)' = BucketName(c) /\ SizeOf(c)' = SizeOf(c) /\ req' = req
    BY StepFrame DEF BucketName, SizeOf
  <1>2. wantBar'[c] = wantBar[c]
    BY <1>1 DEF wantBar
  <1>3. wantBar = [d \in Call |-> wantBar[d]]
    BY DEF wantBar
  <1> QED BY <1>2, <1>3, BarFrame

\* A call that is answered with its job as it was is a reply.
LEMMA ReplyStep ==
  ASSUME TypeOK, Accounting, NEW c \in Call, Step(c), InFlight(c),
         pc'[c] = "done", buckets' = buckets, actedBar'[c] = actedBar[c],
         NEW k \in {"failed", "refused", "OK"}, answerBar'[c] = k, Service!Justified(c, k)
  PROVE  Service!Reply(c)
  <1>1. Service!Pending(c)
    BY InFlightPends
  <1>2. wantBar' = wantBar
    BY WantStays DEF InFlight
  <1>3. actedBar' = actedBar
    BY BarFrame DEF actedBar
  <1>4. seenBar' = [seenBar EXCEPT ![c] = FALSE]
    <2>1. seenBar'[c] = FALSE
      BY DEF seenBar
    <2> QED BY <2>1, BarFrame
  <1>5. answerBar' = [answerBar EXCEPT ![c] = k]
    BY BarFrame
  <1> QED BY <1>1, <1>2, <1>3, <1>4, <1>5 DEF Service!Reply

\* An error that is to be retried promises nothing.
LEMMA FailedStep ==
  ASSUME TypeOK, Accounting, NEW c \in Call, Step(c), InFlight(c),
         pc'[c] = "done", code'[c] \in Uncertain, buckets' = buckets, actedBar'[c] = actedBar[c]
  PROVE  Service!Reply(c)
  <1>1. answerBar'[c] = "failed"
    BY DEF answerBar, Uncertain, Harmless
  <1>2. Service!Justified(c, "failed")
    BY DEF Service!Justified
  <1> QED BY <1>1, <1>2, ReplyStep

\* A refusal needs a call that has not taken effect.
LEMMA RefusedStep ==
  ASSUME TypeOK, Accounting, NEW c \in Call, Step(c), InFlight(c), job[c].state # "success",
         pc'[c] = "done", code'[c] \in Harmless, buckets' = buckets, actedBar'[c] = actedBar[c]
  PROVE  Service!Reply(c)
  <1>1. answerBar'[c] = "refused"
    BY DEF answerBar, Uncertain, Harmless
  <1>2. Service!Justified(c, "refused")
    BY BarAt DEF Service!Justified
  <1> QED BY <1>1, <1>2, ReplyStep

\* An OK needs a reason.
LEMMA OkStep ==
  ASSUME TypeOK, Accounting, NEW c \in Call, Step(c), InFlight(c), Service!Justified(c, "OK"),
         pc'[c] = "done", code'[c] = "OK", buckets' = buckets, actedBar'[c] = actedBar[c]
  PROVE  Service!Reply(c)
  <1>1. answerBar'[c] = "OK"
    BY DEF answerBar, Uncertain, Harmless
  <1> QED BY <1>1, ReplyStep

\* A call that goes on with its job as it was, and has not seen anything, is none
\* of the service's business.
LEMMA SilentStep ==
  ASSUME TypeOK, NEW c \in Call, Step(c), pc[c] # "idle", pc'[c] # "idle",
         buckets' = buckets, actedBar'[c] = actedBar[c], answerBar'[c] = answerBar[c],
         seenBar'[c] = seenBar[c]
  PROVE  UNCHANGED Service!vars
  <1>1. wantBar' = wantBar
    BY WantStays
  <1>2. actedBar' = actedBar
    BY BarFrame DEF actedBar
  <1>3. seenBar' = seenBar
    BY BarFrame DEF seenBar
  <1>4. answerBar' = answerBar
    <2>1. answerBar = [d \in Call |-> answerBar[d]]
      BY DEF answerBar
    <2> QED BY <2>1, BarFrame
  <1> QED BY <1>1, <1>2, <1>3, <1>4 DEF Service!vars

----------------------------------------------------------------------------
(* The steps.                                                              *)

\* A handler that starts has received its call, or refuses it.
LEMMA ReceiveStep ==
  ASSUME TypeInv, Accounting, NEW c \in Call, Step(c),
         DriverCreateBucket(c) \/ DriverDeleteBucket(c)
  PROVE  Service!Receive(c)
  <1> USE DEF TypeInv
  <1>1. /\ pc[c] = "idle" /\ pc'[c] \in {"done", "exists", "lookup"} /\ job' = job /\ buckets' = buckets
        /\ code[c] = "none" /\ code'[c] \in {"none", "Unavailable", "Injected"}
        /\ req'[c] \in Request
    BY DeleteRequestType DEF DriverCreateBucket, DriverDeleteBucket, Answer, Goto, TypeOK, Accounting
  <1>2. BucketName(c)' \in Name
    BY <1>1, StepFrame DEF BucketName, Request, TypeOK, Configs
  <1>3. SizeOf(c)' \in Size \union {0}
    BY <1>1, SizeIsExact DEF SizeOf, Bytes, Request
  <1>4. wantBar[c] = Service!Nothing
    BY <1>1, BarAt DEF Service!Nothing
  <1>5. \E n \in Name, z \in Size \union {0} :
          \/ wantBar' = [wantBar EXCEPT ![c] = [op |-> "create", name |-> n, size |-> z]]
          \/ wantBar' = [wantBar EXCEPT ![c] = [op |-> "delete", name |-> n]]
    <2>1. \/ wantBar'[c] = [op |-> "create", name |-> BucketName(c)', size |-> SizeOf(c)']
          \/ wantBar'[c] = [op |-> "delete", name |-> BucketName(c)']
      BY <1>1 DEF wantBar
    <2> QED BY <1>2, <1>3, <2>1, BarFrame
  <1>6. \E k \in {"none", "refused"} : answerBar' = [answerBar EXCEPT ![c] = k]
    <2>1. answerBar'[c] \in {"none", "refused"}
      BY <1>1 DEF answerBar, Uncertain, Harmless
    <2> QED BY <2>1, BarFrame
  <1>7. actedBar' = actedBar
    BY <1>1 DEF actedBar
  <1>8. seenBar' = seenBar
    <2>1. seenBar[c] = FALSE /\ seenBar'[c] = FALSE
      BY <1>1 DEF seenBar
    <2> QED BY <2>1, BarFrame DEF seenBar
  <1> QED BY <1>1, <1>4, <1>5, <1>6, <1>7, <1>8 DEF Service!Receive

\* The existence check: a reply, an observation, or nothing.
LEMMA ExistsStep ==
  ASSUME TypeInv, Accounting, NEW c \in Call, Step(c), BucketExists(c)
  PROVE  Service!Reply(c) \/ Service!Observe(c) \/ UNCHANGED Service!vars
  <1> USE DEF TypeInv
  <1>1. /\ pc[c] = "exists" /\ req[c].op = "create" /\ code[c] = "none" /\ InFlight(c)
        /\ job' = job /\ buckets' = buckets
    BY DEF BucketExists, PcFitsOp, Accounting, InFlight
  <1>2. actedBar'[c] = actedBar[c]
    BY <1>1 DEF actedBar
  <1>3. \/ pc'[c] = "done" /\ code'[c] = "Internal"
        \/ pc'[c] = "create" /\ code' = code
        \/ /\ listBucketsByName(BucketName(c)) # {}
           /\ pc'[c] = "done" /\ code'[c] = "OK"
        \/ /\ listBucketsByName(BucketName(c)) # {}
           /\ pc'[c] = "equal" /\ code' = code
    BY DEF BucketExists, Answer, Goto, TypeOK
  <1>4. wantBar[c].op = "create" /\ wantBar[c].name = BucketName(c)
    BY <1>1, InFlightPends
  <1>5. Service!Named(wantBar[c].name) = listBucketsByName(BucketName(c))
    BY <1>1, InFlightPends
  <1>6. CASE pc'[c] = "done" /\ code'[c] = "Internal"
    BY <1>1, <1>2, <1>6, FailedStep DEF Uncertain
  <1>7. CASE pc'[c] = "create" /\ code' = code
    <2>1. answerBar'[c] = answerBar[c] /\ seenBar'[c] = seenBar[c]
      BY <1>1, <1>7 DEF answerBar, seenBar
    <2> QED BY <1>1, <1>2, <1>7, <2>1, SilentStep
  <1>8. CASE listBucketsByName(BucketName(c)) # {} /\ pc'[c] = "done" /\ code'[c] = "OK"
    <2>1. Service!Justified(c, "OK")
      BY <1>4, <1>5, <1>8 DEF Service!Justified
    <2> QED BY <1>1, <1>2, <1>8, <2>1, OkStep
  <1>9. CASE listBucketsByName(BucketName(c)) # {} /\ pc'[c] = "equal" /\ code' = code
    <2>1. answerBar' = answerBar /\ actedBar' = actedBar
      BY <1>1, <1>9 DEF answerBar, actedBar
    <2>2. seenBar'[c] = TRUE
      BY <1>9 DEF seenBar
    <2>3. seenBar' = [seenBar EXCEPT ![c] = TRUE]
      BY <2>2, BarFrame
    <2>4. wantBar' = wantBar
      BY <1>1, <1>9, WantStays
    <2>5. Service!Pending(c)
      BY <1>1, InFlightPends
    <2> QED BY <1>1, <1>4, <1>5, <1>9, <2>1, <2>3, <2>4, <2>5 DEF Service!Observe
  <1> QED BY <1>3, <1>6, <1>7, <1>8, <1>9

\* The comparison: the bucket was seen, so OK is justified although it may have
\* gone; "not equal" refuses before anything was sent.
LEMMA EqualStep ==
  ASSUME TypeInv, Accounting, NEW c \in Call, Step(c), IsBucketEqual(c)
  PROVE  Service!Reply(c)
  <1> USE DEF TypeInv
  <1>1. /\ pc[c] = "equal" /\ InFlight(c) /\ job[c].state = "none"
        /\ job' = job /\ buckets' = buckets /\ pc'[c] = "done"
    BY DEF IsBucketEqual, NoJobYet, InFlight, TypeOK, Answer
  <1>2. actedBar'[c] = actedBar[c]
    BY <1>1 DEF actedBar
  <1>3. code'[c] \in {"OK", "Internal", "AlreadyExists"}
    BY DEF IsBucketEqual, TypeOK, Answer
  <1>4. CASE code'[c] = "OK"
    <2>1. Service!Justified(c, "OK")
      BY <1>1, BarAt DEF Service!Justified
    <2> QED BY <1>1, <1>2, <1>4, <2>1, OkStep
  <1>5. CASE code'[c] = "Internal"
    BY <1>1, <1>2, <1>5, FailedStep DEF Uncertain
  <1>6. CASE code'[c] = "AlreadyExists"
    BY <1>1, <1>2, <1>6, RefusedStep DEF Harmless
  <1> QED BY <1>3, <1>4, <1>5, <1>6

\* The POST or the DELETE: the job it queues has no effect yet.
LEMMA SubmitStep ==
  ASSUME TypeInv, Accounting, NEW c \in Call, Step(c), CreateBucket(c) \/ deleteBucketAsync(c)
  PROVE  Service!Reply(c) \/ UNCHANGED Service!vars
  <1> USE DEF TypeInv
  <1>1. /\ pc[c] \in {"create", "delete"} /\ InFlight(c) /\ job[c].state = "none"
        /\ code[c] = "none" /\ buckets' = buckets
    BY DEF CreateBucket, deleteBucketAsync, NoJobYet, InFlight, Accounting
  <1>2. job'[c].state \in {"none", "queued"}
    BY <1>1 DEF CreateBucket, createBucketAsync, SubmitCreate, deleteBucketAsync, SubmitDelete, TypeOK
  <1>3. actedBar'[c] = actedBar[c]
    BY <1>1, <1>2 DEF actedBar
  <1>4. \/ pc'[c] = "wait" /\ code' = code
        \/ /\ pc'[c] = "done"
           /\ code'[c] \in {"Unknown", "Internal", "ResourceExhausted", "InvalidArgument"}
    BY DEF CreateBucket, createBucketAsync, deleteBucketAsync, Answer, Goto, TypeOK
  <1>5. CASE pc'[c] = "wait" /\ code' = code
    <2>1. answerBar'[c] = answerBar[c] /\ seenBar'[c] = seenBar[c]
      BY <1>1, <1>5 DEF answerBar, seenBar
    <2> QED BY <1>1, <1>3, <1>5, <2>1, SilentStep
  <1>6. CASE pc'[c] = "done" /\ code'[c] \in {"Unknown", "Internal"}
    BY <1>1, <1>3, <1>6, FailedStep DEF Uncertain
  <1>7. CASE pc'[c] = "done" /\ code'[c] \in {"ResourceExhausted", "InvalidArgument"}
    BY <1>1, <1>3, <1>7, RefusedStep DEF Harmless
  <1> QED BY <1>4, <1>5, <1>6, <1>7

\* The lookup of a delete: no bucket of that name justifies OK.
LEMMA LookupStep ==
  ASSUME TypeInv, Accounting, NEW c \in Call, Step(c), DeleteBucket(c)
  PROVE  Service!Reply(c) \/ UNCHANGED Service!vars
  <1> USE DEF TypeInv
  <1>1. /\ pc[c] = "lookup" /\ InFlight(c) /\ req[c].op = "delete"
        /\ job' = job /\ buckets' = buckets
    BY DEF DeleteBucket, PcFitsOp, InFlight
  <1>2. actedBar'[c] = actedBar[c]
    BY <1>1 DEF actedBar
  <1>3. \/ pc'[c] = "done" /\ code'[c] = "Internal"
        \/ pc'[c] = "done" /\ code'[c] = "OK" /\ listBucketsByName(BucketName(c)) = {}
        \/ pc'[c] = "delete" /\ code' = code
    BY DEF DeleteBucket, Answer, Goto, TypeOK
  <1>4. CASE pc'[c] = "done" /\ code'[c] = "Internal"
    BY <1>1, <1>2, <1>4, FailedStep DEF Uncertain
  <1>5. CASE pc'[c] = "done" /\ code'[c] = "OK" /\ listBucketsByName(BucketName(c)) = {}
    <2>1. Service!Justified(c, "OK")
      BY <1>1, <1>5, InFlightPends DEF Service!Justified
    <2> QED BY <1>1, <1>2, <1>5, <2>1, OkStep
  <1>6. CASE pc'[c] = "delete" /\ code' = code
    <2>1. answerBar'[c] = answerBar[c] /\ seenBar'[c] = seenBar[c]
      BY <1>1, <1>6 DEF answerBar, seenBar
    <2> QED BY <1>1, <1>2, <1>6, <2>1, SilentStep
  <1> QED BY <1>3, <1>4, <1>5, <1>6

\* The end of the polling: OK only for a job that succeeded, a refusal only for
\* one that did not.
LEMMA WaitStep ==
  ASSUME TypeInv, Accounting, NEW c \in Call, Step(c), waitForJob(c) \/ PollTimeout(c)
  PROVE  Service!Reply(c)
  <1> USE DEF TypeInv
  <1>1. /\ pc[c] = "wait" /\ InFlight(c) /\ job' = job /\ buckets' = buckets /\ pc'[c] = "done"
    BY DEF waitForJob, PollTimeout, InFlight, TypeOK, Answer
  <1>2. actedBar'[c] = actedBar[c]
    BY <1>1 DEF actedBar
  <1>3. \/ code'[c] = "OK" /\ job[c].state = "success"
        \/ code'[c] \in {"Unknown", "Internal", "DeadlineExceeded", "QuotaOnPoll"}
        \/ code'[c] = "ResourceExhausted" /\ job[c].state = "quota"
    BY DEF waitForJob, PollTimeout, ErrorCode, TypeOK, Answer
  <1>4. CASE code'[c] = "OK" /\ job[c].state = "success"
    <2>1. Service!Justified(c, "OK")
      BY <1>4, BarAt DEF Service!Justified
    <2> QED BY <1>1, <1>2, <1>4, <2>1, OkStep
  <1>5. CASE code'[c] \in {"Unknown", "Internal", "DeadlineExceeded", "QuotaOnPoll"}
    BY <1>1, <1>2, <1>5, FailedStep DEF Uncertain
  <1>6. CASE code'[c] = "ResourceExhausted" /\ job[c].state = "quota"
    BY <1>1, <1>2, <1>6, RefusedStep DEF Harmless
  <1> QED BY <1>3, <1>4, <1>5, <1>6

\* A cancelled call promises nothing; a request still on its way queues a job.
LEMMA CancelStep ==
  ASSUME TypeInv, Accounting, NEW c \in Call, Step(c), Cancel(c)
  PROVE  Service!Reply(c)
  <1> USE DEF TypeInv
  <1>1. InFlight(c) /\ buckets' = buckets /\ pc'[c] = "done" /\ code'[c] = "Canceled"
    BY DEF Cancel, TypeOK, Answer
  <1>2. \/ job' = job
        \/ job[c].state = "none" /\ job'[c].state = "queued"
    BY DEF Cancel, SubmitCreate, SubmitDelete, NoJobYet, TypeOK
  <1>3. actedBar'[c] = actedBar[c]
    BY <1>2 DEF actedBar
  <1> QED BY <1>1, <1>3, FailedStep DEF Uncertain

\* A call that the SVM works for has been received, and was not settled.
LEMMA QueuedUnsettled ==
  ASSUME TypeInv, Accounting, NEW c \in Call, job[c].state = "queued"
  PROVE  pc[c] # "idle" /\ answerBar[c] \in {"none", "failed"}
  <1>1. (pc[c] = "wait" /\ code[c] = "none") \/ (pc[c] = "done" /\ code[c] \in Uncertain)
    BY DEF Accounting
  <1> QED BY <1>1, BarAt

\* A job that fails has no effect.
LEMMA FailedJobStep ==
  ASSUME TypeInv, Accounting, NEW c \in Call, Step(c), job[c].state = "queued",
         NEW s \in {"failure", "quota"}, Finish(c, s), UNCHANGED <<pc, code, buckets>>
  PROVE  UNCHANGED Service!vars
  <1>1. pc[c] # "idle"
    BY QueuedUnsettled
  <1>2. actedBar'[c] = actedBar[c]
    BY DEF actedBar, Finish, TypeInv, TypeOK
  <1>3. answerBar'[c] = answerBar[c] /\ seenBar'[c] = seenBar[c]
    BY DEF answerBar, seenBar
  <1> QED BY <1>1, <1>2, <1>3, SilentStep DEF TypeInv

\* A job that succeeds is the moment at which its call takes effect.
LEMMA SucceededJobStep ==
  ASSUME TypeInv, Accounting, NEW c \in Call, Step(c), job[c].state = "queued",
         Finish(c, "success"), UNCHANGED <<pc, code>>
  PROVE  /\ wantBar[c] # Service!Nothing /\ answerBar[c] \in {"none", "failed"} /\ ~actedBar[c]
         /\ actedBar' = [actedBar EXCEPT ![c] = TRUE]
         /\ UNCHANGED <<wantBar, answerBar, seenBar>>
  <1> USE DEF TypeInv
  <1>1. pc[c] # "idle" /\ answerBar[c] \in {"none", "failed"}
    BY QueuedUnsettled
  <1>2. wantBar[c] # Service!Nothing
    <2>1. \/ wantBar[c] = [op |-> "create", name |-> BucketName(c), size |-> SizeOf(c)]
          \/ wantBar[c] = [op |-> "delete", name |-> BucketName(c)]
      BY <1>1, BarAt
    <2>2. wantBar[c].op \in {"create", "delete"}
      BY <2>1
    <2> QED BY <2>2 DEF Service!Nothing
  <1>3. ~actedBar[c]
    BY BarAt
  <1>4. actedBar' = [actedBar EXCEPT ![c] = TRUE]
    <2>1. actedBar'[c] = TRUE
      BY DEF actedBar, Finish, TypeOK
    <2> QED BY <2>1, BarFrame
  <1>5. wantBar' = wantBar
    BY <1>1, WantStays
  <1>6. answerBar' = answerBar /\ seenBar' = seenBar
    BY DEF answerBar, seenBar
  <1> QED BY <1>1, <1>2, <1>3, <1>4, <1>5, <1>6

\* A create job: the call takes effect, or nothing happens.
LEMMA CreateJobStep ==
  ASSUME TypeInv, Accounting, NEW c \in Call, Step(c), RunCreateJob(c)
  PROVE  Service!Act(c) \/ UNCHANGED Service!vars
  <1> DEFINE new == [uuid |-> job[c].uuid, name |-> BucketName(c), size |-> SizeOf(c)]
  <1>1. job[c].state = "queued" /\ req[c].op = "create" /\ UNCHANGED <<pc, code>>
    BY DEF RunCreateJob
  <1>2. \/ buckets' = buckets /\ \E s \in {"failure", "quota"} : Finish(c, s)
        \/ /\ Finish(c, "success") /\ listBucketsByName(BucketName(c)) = {}
           /\ buckets' = buckets \union {new}
    BY Zenon DEF RunCreateJob
  <1>3. CASE buckets' = buckets /\ \E s \in {"failure", "quota"} : Finish(c, s)
    BY <1>1, <1>3, FailedJobStep
  <1>4. CASE /\ Finish(c, "success") /\ listBucketsByName(BucketName(c)) = {}
             /\ buckets' = buckets \union {new}
    <2>1. job[c].uuid = c /\ SizeOf(c) # 0 /\ pc[c] # "idle"
      BY <1>1, QueuedUnsettled DEF TypeInv, CreateJob
    <2>2. wantBar[c] = [op |-> "create", name |-> BucketName(c), size |-> SizeOf(c)]
      BY <1>1, <2>1, BarAt
    <2>3. wantBar[c].op = "create" /\ wantBar[c].name = BucketName(c) /\ wantBar[c].size = SizeOf(c)
      BY <2>2
    <2>4. Service!Named(wantBar[c].name) = {}
      BY <1>4, <2>3 DEF Service!Named, listBucketsByName
    <2>5. buckets' = buckets \union {[uuid |-> c, name |-> wantBar[c].name, size |-> wantBar[c].size]}
      BY <1>4, <2>1, <2>3
    <2> QED BY <1>1, <1>4, <2>1, <2>3, <2>4, <2>5, SucceededJobStep DEF Service!Act
  <1> QED BY <1>2, <1>3, <1>4

\* A delete job: it removes one bucket, of the name the call was asked for.
LEMMA DeleteJobStep ==
  ASSUME TypeInv, Accounting, Identity, NEW c \in Call, Step(c), RunDeleteJob(c)
  PROVE  Service!Act(c) \/ UNCHANGED Service!vars
  <1>1. /\ job[c].state = "queued" /\ req[c].op = "delete" /\ UNCHANGED <<pc, code>>
        /\ job[c].uuid = found[c]
    BY DEF RunDeleteJob, Identity, DeleteJob
  <1>2. \/ buckets' = buckets /\ Finish(c, "failure")
        \/ /\ Finish(c, "success") /\ \E b \in buckets : b.uuid = found[c]
           /\ buckets' = {b \in buckets : b.uuid # found[c]}
    BY <1>1 DEF RunDeleteJob
  <1>3. CASE buckets' = buckets /\ Finish(c, "failure")
    BY <1>1, <1>3, FailedJobStep
  <1>4. CASE /\ Finish(c, "success") /\ \E b \in buckets : b.uuid = found[c]
             /\ buckets' = {b \in buckets : b.uuid # found[c]}
    <2>1. PICK b \in buckets : b.uuid = found[c]
      BY <1>4
    <2>2. pc[c] # "idle"
      BY <1>1, QueuedUnsettled
    <2>3. wantBar[c] = [op |-> "delete", name |-> BucketName(c)]
      BY <1>1, <2>2, BarAt
    <2>4. wantBar[c].op = "delete" /\ wantBar[c].name = BucketName(c)
      BY <2>3
    <2>5. b \in Service!Named(wantBar[c].name)
      BY <2>1, <2>4 DEF Identity, FoundHasName, Service!Named
    <2>6. buckets' = buckets \ {b}
      BY <1>4, <2>1 DEF Identity, UniqueUUID
    <2> QED BY <1>1, <1>4, <2>4, <2>5, <2>6, SucceededJobStep DEF Service!Act
  <1> QED BY <1>2, <1>3, <1>4

----------------------------------------------------------------------------
\* DriverCreateBucket, DriverDeleteBucket and the S3 client below them, over
\* asynchronous jobs and with every failure the model has, implement the abstract
\* service: a call takes effect at most once and at one moment, never after it
\* was answered OK or refused, and an OK is backed by the store.
THEOREM Implementation == Spec => ImplementsService
  <1>1. Init => Service!Init
    <2> SUFFICES ASSUME Init PROVE Service!Init OBVIOUS
    <2>1. wantBar = [c \in Call |-> Service!Nothing]
      BY DEF Init, wantBar, Service!Nothing
    <2>2. answerBar = [c \in Call |-> "none"]
      BY DEF Init, answerBar, Uncertain, Harmless
    <2>3. actedBar = [c \in Call |-> FALSE] /\ seenBar = [c \in Call |-> FALSE]
      BY DEF Init, actedBar, seenBar
    <2> QED BY <2>1, <2>2, <2>3 DEF Init, Service!Init
  <1>2. IInv /\ [Next]_vars => [Service!Next]_(Service!vars)
    <2> SUFFICES ASSUME IInv, [Next]_vars PROVE [Service!Next]_(Service!vars)
      OBVIOUS
    <2>1. CASE Next
      <3>1. PICK c \in Call : Step(c) BY <2>1 DEF Next
      <3>2. \/ Service!Receive(c) \/ Service!Observe(c) \/ Service!Act(c) \/ Service!Reply(c)
            \/ UNCHANGED Service!vars
        BY <3>1, ReceiveStep, ExistsStep, EqualStep, SubmitStep, LookupStep, WaitStep, CancelStep,
           CreateJobStep, DeleteJobStep DEF Step, Handle, RunJob, IInv
      <3> QED BY <3>2 DEF Service!Next
    <2>2. CASE UNCHANGED vars
      <3>1. UNCHANGED <<wantBar, answerBar, actedBar, seenBar, buckets>>
        BY <2>2 DEF vars, wantBar, answerBar, actedBar, seenBar, BucketName, SizeOf
      <3> QED BY <3>1 DEF Service!vars
    <2> QED BY <2>1, <2>2
  <1> QED BY <1>1, <1>2, Invariance, PTL DEF Spec, ImplementsService, Service!Spec
====
