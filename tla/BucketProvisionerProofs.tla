------------------------- MODULE BucketProvisionerProofs -------------------------
(***************************************************************************)
(* Proofs about BucketProvisioner, for any number of calls, names, sizes   *)
(* and faults and for every configuration.                                 *)
(***************************************************************************)
EXTENDS BucketProvisioner, BucketSizeProofs

----------------------------------------------------------------------------
(* Type correctness.                                                       *)

\* What a delete request looks like.
LEMMA DeleteRequestType ==
  ASSUME NEW n \in Name PROVE DeleteRequest(n) \in Request /\ DeleteRequest(n).op = "delete"
  BY SizeAssumption DEF DeleteRequest, Request

\* The placeholder request is a request.
LEMMA NoRequestType == NoRequest \in Request
  BY NameAssumption, DeleteRequestType DEF NoRequest

\* The bucket a call works on has a name of the right type.
LEMMA BucketNameType ==
  ASSUME TypeOK, NEW c \in Call PROVE BucketName(c) \in Name
  BY DEF TypeOK, BucketName, Request, Configs

\* The size a call asks for is a size, or 0.
LEMMA SizeOfType ==
  ASSUME TypeOK, NEW c \in Call PROVE SizeOf(c) \in Size \union {0}
  BY SizeIsExact DEF TypeOK, SizeOf, Bytes, Request

\* A blank size is no size.
LEMMA BlankIsZero ==
  ASSUME NEW raw \in RawSize, TrimSpace(raw) = <<>> PROVE Bytes[raw] = 0
  <1>1. CutSuffix(<<>>) = <<>>
    BY DEF CutSuffix
  <1>2. TrimSpace(<<>>) = <<>>
    <2>1. {i \in DOMAIN <<>> : <<>>[i] # " "} = {}
      OBVIOUS
    <2> QED BY <2>1, Zenon DEF TrimSpace
  <1>3. ParseInt(<<>>) = 0
    BY DEF ParseInt
  <1>4. parseBucketSize(raw) = 0
    BY <1>1, <1>2, <1>3 DEF parseBucketSize
  <1> QED BY <1>4 DEF Bytes

\* A call has no job before it has sent its create or delete request.
NoJobYet == \A c \in Call : pc[c] \notin {"wait", "done"} => job[c].state = "none"

\* A create call that has a job passed the validation of its size, and the job
\* makes the bucket named after the call.
CreateJob ==
    \A c \in Call : req[c].op = "create" /\ job[c].state # "none" =>
        SizeOf(c) # 0 /\ job[c].uuid = c

\* A call that is about to send a request is of the operation that sends it.
PcFitsOp ==
    \A c \in Call :
        /\ pc[c] \in {"exists", "equal", "create"} => req[c].op = "create"
        /\ pc[c] \in {"lookup", "delete"} => req[c].op = "delete"

\* TypeOK alone is not inductive: the bucket a job makes takes its size from
\* the request, whose size was validated two steps before the job was queued.
TypeInv == TypeOK /\ NoJobYet /\ CreateJob /\ PcFitsOp

\* Every step of a call keeps the types.
LEMMA StepType ==
  ASSUME TypeOK, CreateJob, NEW c \in Call, Step(c) PROVE TypeOK'
  <1> USE FaultAssumption DEF TypeOK, NoFault, Fault, Answer, Goto, PC, Code, Uncertain, Harmless
  <1>1. CASE DriverCreateBucket(c)
    <2>1. req' \in [Call -> Request]
      BY <1>1 DEF DriverCreateBucket
    <2>2. pc' \in [Call -> PC] /\ code' \in [Call -> Code]
      <3>1. PICK l \in PC, k \in Code :
               pc' = [pc EXCEPT ![c] = l] /\ (code' = code \/ code' = [code EXCEPT ![c] = k])
        BY <1>1 DEF DriverCreateBucket
      <3> QED BY <3>1
    <2>3. faults' \in 0..MaxFaults
      BY <1>1 DEF DriverCreateBucket
    <2> QED BY <1>1, <2>1, <2>2, <2>3 DEF DriverCreateBucket
  <1>2. CASE BucketExists(c)
    BY <1>2 DEF BucketExists
  <1>3. CASE IsBucketEqual(c)
    <2>1. pc' \in [Call -> PC] /\ code' \in [Call -> Code]
      BY <1>3 DEF IsBucketEqual
    <2>2. faults' \in 0..MaxFaults
      BY <1>3 DEF IsBucketEqual
    <2> QED BY <1>3, <2>1, <2>2 DEF IsBucketEqual
  <1>4. CASE CreateBucket(c)
    BY <1>4 DEF CreateBucket, createBucketAsync, SubmitCreate, JobState, UUID
  <1>5. CASE DriverDeleteBucket(c)
    <2>1. req' \in [Call -> Request]
      BY <1>5, DeleteRequestType DEF DriverDeleteBucket
    <2>2. pc' \in [Call -> PC] /\ code' \in [Call -> Code]
      <3>1. PICK l \in PC, k \in Code :
               pc' = [pc EXCEPT ![c] = l] /\ (code' = code \/ code' = [code EXCEPT ![c] = k])
        BY <1>5 DEF DriverDeleteBucket
      <3> QED BY <3>1
    <2>3. faults' \in 0..MaxFaults
      BY <1>5 DEF DriverDeleteBucket
    <2> QED BY <1>5, <2>1, <2>2, <2>3 DEF DriverDeleteBucket
  <1>6. CASE DeleteBucket(c)
    <2>1. pc' \in [Call -> PC] /\ code' \in [Call -> Code]
      BY <1>6 DEF DeleteBucket
    <2>2. faults' \in 0..MaxFaults
      BY <1>6 DEF DeleteBucket
    <2>3. found' \in [Call -> UUID \union {NoUUID}]
      BY <1>6 DEF DeleteBucket, listBucketsByName, Bucket
    <2> QED BY <1>6, <2>1, <2>2, <2>3 DEF DeleteBucket
  <1>7. CASE deleteBucketAsync(c)
    <2>1. pc' \in [Call -> PC] /\ code' \in [Call -> Code]
      BY <1>7 DEF deleteBucketAsync
    <2>2. faults' \in 0..MaxFaults
      BY <1>7 DEF deleteBucketAsync
    <2>3. job' \in [Call -> [state : JobState, uuid : UUID \union {NoUUID}]]
      BY <1>7 DEF deleteBucketAsync, SubmitDelete, JobState
    <2> QED BY <1>7, <2>1, <2>2, <2>3 DEF deleteBucketAsync
  <1>8. CASE waitForJob(c)
    <2>1. pc' \in [Call -> PC] /\ code' \in [Call -> Code]
      BY <1>8 DEF waitForJob, ErrorCode
    <2>2. faults' \in 0..MaxFaults
      BY <1>8 DEF waitForJob
    <2> QED BY <1>8, <2>1, <2>2 DEF waitForJob
  <1>9. CASE PollTimeout(c)
    BY <1>9 DEF PollTimeout, ErrorCode
  <1>10. CASE Cancel(c)
    BY <1>10 DEF Cancel, SubmitCreate, SubmitDelete, JobState, UUID
  <1>11. CASE RunCreateJob(c)
    <2> DEFINE new == [uuid |-> job[c].uuid, name |-> BucketName(c), size |-> SizeOf(c)]
    <2>1. new \in Bucket
      BY <1>11, BucketNameType, SizeOfType DEF RunCreateJob, Bucket, UUID, CreateJob
    <2>3. buckets' \in SUBSET Bucket
      BY <1>11, <2>1 DEF RunCreateJob
    <2>2. job' \in [Call -> [state : JobState, uuid : UUID \union {NoUUID}]]
      BY <1>11 DEF RunCreateJob, Finish, JobState
    <2> QED BY <1>11, <2>2, <2>3 DEF RunCreateJob
  <1>12. CASE RunDeleteJob(c)
    <2>1. buckets' \in SUBSET Bucket
      BY <1>12 DEF RunDeleteJob
    <2>2. job' \in [Call -> [state : JobState, uuid : UUID \union {NoUUID}]]
      BY <1>12 DEF RunDeleteJob, Finish, JobState
    <2> QED BY <1>12, <2>1, <2>2 DEF RunDeleteJob
  <1> QED
    BY <1>1, <1>2, <1>3, <1>4, <1>5, <1>6, <1>7, <1>8, <1>9, <1>10, <1>11, <1>12
    DEF Step, Handle, RunJob

\* Every step of a call keeps the facts about jobs that typing needs.
LEMMA StepJobs ==
  ASSUME TypeInv, NEW c \in Call, Step(c) PROVE NoJobYet' /\ CreateJob' /\ PcFitsOp'
  <1> USE DEF TypeInv, TypeOK, NoJobYet, CreateJob, PcFitsOp, SizeOf, Answer, Goto
  <1>1. CASE DriverCreateBucket(c)
    <2>1. NoJobYet'
      BY <1>1 DEF DriverCreateBucket
    <2>2. CreateJob'
      BY <1>1 DEF DriverCreateBucket
    <2>3. PcFitsOp'
      BY <1>1 DEF DriverCreateBucket
    <2> QED BY <2>1, <2>2, <2>3
  <1>2. CASE BucketExists(c)
    <2>1. NoJobYet'
      BY <1>2 DEF BucketExists
    <2>2. CreateJob'
      BY <1>2 DEF BucketExists
    <2>3. PcFitsOp'
      BY <1>2 DEF BucketExists
    <2> QED BY <2>1, <2>2, <2>3
  <1>3. CASE IsBucketEqual(c)
    BY <1>3 DEF IsBucketEqual
  <1>4. CASE CreateBucket(c)
    <2>1. NoJobYet' /\ PcFitsOp'
      BY <1>4 DEF CreateBucket, createBucketAsync, SubmitCreate
    <2>2. CreateJob'
      BY <1>4 DEF CreateBucket, createBucketAsync, SubmitCreate
    <2> QED BY <2>1, <2>2
  <1>5. CASE DriverDeleteBucket(c)
    BY <1>5, DeleteRequestType DEF DriverDeleteBucket
  <1>6. CASE DeleteBucket(c)
    BY <1>6 DEF DeleteBucket
  <1>7. CASE deleteBucketAsync(c)
    <2>1. NoJobYet'
      BY <1>7 DEF deleteBucketAsync, SubmitDelete
    <2>2. CreateJob'
      BY <1>7 DEF deleteBucketAsync, SubmitDelete
    <2>3. PcFitsOp'
      BY <1>7 DEF deleteBucketAsync, SubmitDelete
    <2> QED BY <2>1, <2>2, <2>3
  <1>8. CASE waitForJob(c)
    BY <1>8 DEF waitForJob
  <1>9. CASE PollTimeout(c)
    BY <1>9 DEF PollTimeout
  <1>10. CASE Cancel(c)
    <2>1. NoJobYet' /\ PcFitsOp'
      BY <1>10 DEF Cancel, InFlight, SubmitCreate, SubmitDelete
    <2>2. CreateJob'
      BY <1>10 DEF Cancel, InFlight, SubmitCreate, SubmitDelete
    <2> QED BY <2>1, <2>2
  <1>11. CASE RunCreateJob(c)
    <2>1. PICK s \in JobState : Finish(c, s)
      BY <1>11 DEF RunCreateJob, JobState
    <2>2. job[c].state = "queued" /\ UNCHANGED <<req, pc>>
      BY <1>11 DEF RunCreateJob
    <2>3. \A d \in Call : job'[d].uuid = job[d].uuid /\ (d # c => job'[d] = job[d])
      BY <2>1 DEF Finish
    <2>4. \A d \in Call : job[d].state = "none" => job'[d].state = "none"
      BY <2>2, <2>3
    <2>5. \A d \in Call : job'[d].state # "none" => job[d].state # "none"
      BY <2>2, <2>3
    <2>6. NoJobYet' /\ PcFitsOp'
      BY <2>2, <2>4
    <2>7. CreateJob'
      BY <2>2, <2>3, <2>5
    <2> QED BY <2>6, <2>7
  <1>12. CASE RunDeleteJob(c)
    <2>1. /\ job[c].state = "queued" /\ req[c].op = "delete" /\ UNCHANGED <<req, pc>>
          /\ \A d \in Call \ {c} : job'[d] = job[d]
      BY <1>12 DEF RunDeleteJob, Finish
    <2>2. NoJobYet' /\ PcFitsOp'
      BY <2>1
    <2>3. CreateJob'
      BY <2>1
    <2> QED BY <2>2, <2>3
  <1> QED
    BY <1>1, <1>2, <1>3, <1>4, <1>5, <1>6, <1>7, <1>8, <1>9, <1>10, <1>11, <1>12
    DEF Step, Handle, RunJob

----------------------------------------------------------------------------
(* No settled answer leaves work pending.                                  *)

\* A step of call c concerns the call and its job only, and the request of a
\* call does not change once it has been received.
LEMMA StepFrame ==
  ASSUME TypeOK, NEW c \in Call, Step(c)
  PROVE  /\ config' = config
         /\ \A d \in Call \ {c} :
              /\ req'[d] = req[d] /\ pc'[d] = pc[d] /\ found'[d] = found[d]
              /\ code'[d] = code[d] /\ job'[d] = job[d]
         /\ pc[c] # "idle" => req' = req
  <1> USE DEF TypeOK, Answer, Goto
  <1>1. CASE DriverCreateBucket(c)
    BY <1>1 DEF DriverCreateBucket
  <1>2. CASE BucketExists(c)
    BY <1>2 DEF BucketExists
  <1>3. CASE IsBucketEqual(c)
    BY <1>3 DEF IsBucketEqual
  <1>4. CASE CreateBucket(c)
    BY <1>4 DEF CreateBucket, createBucketAsync, SubmitCreate
  <1>5. CASE DriverDeleteBucket(c)
    BY <1>5 DEF DriverDeleteBucket
  <1>6. CASE DeleteBucket(c)
    BY <1>6 DEF DeleteBucket
  <1>7. CASE deleteBucketAsync(c)
    BY <1>7 DEF deleteBucketAsync, SubmitDelete
  <1>8. CASE waitForJob(c)
    BY <1>8 DEF waitForJob
  <1>9. CASE PollTimeout(c)
    BY <1>9 DEF PollTimeout
  <1>10. CASE Cancel(c)
    BY <1>10 DEF Cancel, InFlight, SubmitCreate, SubmitDelete
  <1>11. CASE RunCreateJob(c)
    BY <1>11 DEF RunCreateJob, Finish
  <1>12. CASE RunDeleteJob(c)
    BY <1>12 DEF RunDeleteJob, Finish
  <1> QED
    BY <1>1, <1>2, <1>3, <1>4, <1>5, <1>6, <1>7, <1>8, <1>9, <1>10, <1>11, <1>12
    DEF Step, Handle, RunJob

\* A call has a code exactly when it has been answered; a job that is queued,
\* or that ran to success, belongs to a call that waits or may not know.
Accounting ==
    \A c \in Call :
        /\ pc[c] # "done" => code[c] = "none"
        /\ job[c].state = "queued" => pc[c] = "wait" \/ (pc[c] = "done" /\ code[c] \in Uncertain)
        /\ job[c].state = "success" =>
              pc[c] = "wait" \/ (pc[c] = "done" /\ code[c] \in Uncertain \union {"OK"})

\* Every step keeps the accounts.
LEMMA StepAccounting ==
  ASSUME TypeInv, Accounting, NEW c \in Call, Step(c) PROVE Accounting'
  <1> USE StepFrame DEF TypeInv, TypeOK, NoJobYet, PcFitsOp, Accounting, Answer, Goto, Uncertain
  <1>1. CASE DriverCreateBucket(c)
    BY <1>1 DEF DriverCreateBucket
  <1>2. CASE BucketExists(c)
    BY <1>2 DEF BucketExists
  <1>3. CASE IsBucketEqual(c)
    BY <1>3 DEF IsBucketEqual
  <1>4. CASE CreateBucket(c)
    BY <1>4 DEF CreateBucket, createBucketAsync, SubmitCreate
  <1>5. CASE DriverDeleteBucket(c)
    BY <1>5 DEF DriverDeleteBucket
  <1>6. CASE DeleteBucket(c)
    BY <1>6 DEF DeleteBucket
  <1>7. CASE deleteBucketAsync(c)
    BY <1>7 DEF deleteBucketAsync, SubmitDelete
  <1>8. CASE waitForJob(c)
    BY <1>8 DEF waitForJob, ErrorCode
  <1>9. CASE PollTimeout(c)
    BY <1>9 DEF PollTimeout, ErrorCode
  <1>10. CASE Cancel(c)
    BY <1>10 DEF Cancel, InFlight, SubmitCreate, SubmitDelete
  <1>11. CASE RunCreateJob(c)
    BY <1>11 DEF RunCreateJob, Finish
  <1>12. CASE RunDeleteJob(c)
    BY <1>12 DEF RunDeleteJob, Finish
  <1> QED
    BY <1>1, <1>2, <1>3, <1>4, <1>5, <1>6, <1>7, <1>8, <1>9, <1>10, <1>11, <1>12
    DEF Step, Handle, RunJob

----------------------------------------------------------------------------
(* Which call made a bucket, and which bucket a delete is about.           *)

\* A bucket named after a call was made by the job of that create call.
MadeByItsCall ==
    \A b \in buckets : \A c \in Call :
        b.uuid = c => req[c].op = "create" /\ job[c].state = "success"

\* A UUID identifies a bucket.
UniqueUUID == \A a, b \in buckets : a.uuid = b.uuid => a = b

\* What a delete found is a bucket that had been made, ...
FoundWasMade ==
    \A c, d \in Call : found[c] = d => req[d].op = "create" /\ job[d].state = "success"

\* ... of the name the delete was asked for, ...
FoundHasName == \A c \in Call : \A b \in buckets : b.uuid = found[c] => b.name = BucketName(c)

\* ... and it is the target of the job.
DeleteJob ==
    \A c \in Call :
        /\ found[c] # NoUUID => req[c].op = "delete" /\ pc[c] \in {"delete", "wait", "done"}
        /\ req[c].op = "delete" /\ job[c].state # "none" => job[c].uuid = found[c]

\* A delete job that ran to success leaves no bucket with that UUID.
RanMeansGone ==
    \A c \in Call : req[c].op = "delete" /\ job[c].state = "success" =>
        \A b \in buckets : b.uuid # found[c]

Identity ==
    MadeByItsCall /\ UniqueUUID /\ FoundWasMade /\ FoundHasName /\ DeleteJob /\ RanMeansGone

\* Every step keeps the identities.
LEMMA StepIdentity ==
  ASSUME TypeInv, Identity, NEW c \in Call, Step(c) PROVE Identity'
  <1> USE StepFrame, UUIDAssumption DEF TypeInv, TypeOK, NoJobYet, CreateJob, PcFitsOp, Identity,
        MadeByItsCall, UniqueUUID, FoundWasMade, FoundHasName, DeleteJob, RanMeansGone,
        BucketName, Answer, Goto
  <1>0. \A b \in buckets : b.uuid \in UUID /\ b.uuid # NoUUID
    BY DEF Bucket
  <1>1. CASE DriverCreateBucket(c)
    <2>1. MadeByItsCall' /\ UniqueUUID'
      BY <1>0, <1>1 DEF DriverCreateBucket
    <2>2. FoundWasMade' /\ DeleteJob'
      BY <1>0, <1>1 DEF DriverCreateBucket
    <2>3. FoundHasName'
      BY <1>0, <1>1 DEF DriverCreateBucket
    <2>4. RanMeansGone'
      BY <1>0, <1>1 DEF DriverCreateBucket
    <2> QED BY <2>1, <2>2, <2>3, <2>4
  <1>2. CASE BucketExists(c)
    BY <1>2 DEF BucketExists
  <1>3. CASE IsBucketEqual(c)
    BY <1>3 DEF IsBucketEqual
  <1>4. CASE CreateBucket(c)
    <2>1. MadeByItsCall' /\ UniqueUUID'
      BY <1>0, <1>4 DEF CreateBucket, createBucketAsync, SubmitCreate
    <2>2. FoundWasMade' /\ DeleteJob'
      BY <1>0, <1>4 DEF CreateBucket, createBucketAsync, SubmitCreate
    <2>3. FoundHasName'
      BY <1>0, <1>4 DEF CreateBucket, createBucketAsync, SubmitCreate
    <2>4. RanMeansGone'
      BY <1>0, <1>4 DEF CreateBucket, createBucketAsync, SubmitCreate
    <2> QED BY <2>1, <2>2, <2>3, <2>4
  <1>5. CASE DriverDeleteBucket(c)
    <2>1. MadeByItsCall' /\ UniqueUUID'
      BY <1>0, <1>5 DEF DriverDeleteBucket
    <2>2. FoundWasMade' /\ DeleteJob'
      BY <1>0, <1>5, DeleteRequestType DEF DriverDeleteBucket
    <2>3. FoundHasName'
      BY <1>0, <1>5 DEF DriverDeleteBucket
    <2>4. RanMeansGone'
      BY <1>0, <1>5 DEF DriverDeleteBucket
    <2> QED BY <2>1, <2>2, <2>3, <2>4
  <1>6. CASE DeleteBucket(c)
    <2>1. MadeByItsCall' /\ UniqueUUID'
      BY <1>0, <1>6 DEF DeleteBucket, listBucketsByName
    <2>2. FoundWasMade' /\ DeleteJob'
      <3>1. /\ job[c].state = "none" /\ req[c].op = "delete" /\ UNCHANGED <<req, job>>
            /\ \A d \in Call \ {c} : pc'[d] = pc[d] /\ found'[d] = found[d]
        BY <1>6 DEF DeleteBucket
      <3>2. \/ found'[c] = found[c]
            \/ pc'[c] = "delete" /\ \E b \in buckets : found'[c] = b.uuid
        BY <1>6 DEF DeleteBucket, listBucketsByName
      <3>3. found[c] = NoUUID
        BY <1>6 DEF DeleteBucket
      <3>4. FoundWasMade'
        BY <3>1, <3>2
      <3>5. DeleteJob'
        BY <3>1, <3>2, <3>3
      <3> QED BY <3>4, <3>5
    <2>3. FoundHasName'
      BY <1>0, <1>6 DEF DeleteBucket, listBucketsByName
    <2>4. RanMeansGone'
      BY <1>0, <1>6 DEF DeleteBucket, listBucketsByName
    <2> QED BY <2>1, <2>2, <2>3, <2>4
  <1>7. CASE deleteBucketAsync(c)
    <2>1. MadeByItsCall' /\ UniqueUUID'
      BY <1>0, <1>7 DEF deleteBucketAsync, SubmitDelete
    <2>2. FoundWasMade' /\ DeleteJob'
      BY <1>0, <1>7 DEF deleteBucketAsync, SubmitDelete
    <2>3. FoundHasName'
      BY <1>0, <1>7 DEF deleteBucketAsync, SubmitDelete
    <2>4. RanMeansGone'
      BY <1>0, <1>7 DEF deleteBucketAsync, SubmitDelete
    <2> QED BY <2>1, <2>2, <2>3, <2>4
  <1>8. CASE waitForJob(c)
    BY <1>8 DEF waitForJob
  <1>9. CASE PollTimeout(c)
    BY <1>9 DEF PollTimeout
  <1>10. CASE Cancel(c)
    <2>1. MadeByItsCall' /\ UniqueUUID'
      BY <1>0, <1>10 DEF Cancel, InFlight, SubmitCreate, SubmitDelete
    <2>2. FoundWasMade' /\ DeleteJob'
      BY <1>0, <1>10 DEF Cancel, InFlight, SubmitCreate, SubmitDelete
    <2>3. FoundHasName'
      BY <1>0, <1>10 DEF Cancel, InFlight, SubmitCreate, SubmitDelete
    <2>4. RanMeansGone'
      BY <1>0, <1>10 DEF Cancel, InFlight, SubmitCreate, SubmitDelete
    <2> QED BY <2>1, <2>2, <2>3, <2>4
  <1>11. CASE RunCreateJob(c)
    <2>1. MadeByItsCall' /\ UniqueUUID'
      BY <1>0, <1>11 DEF RunCreateJob, Finish
    <2>2. FoundWasMade' /\ DeleteJob'
      <3>1. job[c].state = "queued" /\ req[c].op = "create" /\ UNCHANGED <<req, pc, found>>
        BY <1>11 DEF RunCreateJob
      <3>2. FoundWasMade'
        BY <3>1
      <3>3. DeleteJob'
        BY <3>1
      <3> QED BY <3>2, <3>3
    <2>3. FoundHasName'
      BY <1>0, <1>11 DEF RunCreateJob, Finish
    <2>4. RanMeansGone'
      BY <1>0, <1>11 DEF RunCreateJob, Finish
    <2> QED BY <2>1, <2>2, <2>3, <2>4
  <1>12. CASE RunDeleteJob(c)
    <2>1. MadeByItsCall' /\ UniqueUUID'
      BY <1>0, <1>12 DEF RunDeleteJob, Finish
    <2>2. FoundWasMade' /\ DeleteJob'
      <3>1. job[c].state = "queued" /\ req[c].op = "delete" /\ UNCHANGED <<req, pc, found>>
        BY <1>12 DEF RunDeleteJob
      <3>2. job'[c].uuid = job[c].uuid
        BY <1>12 DEF RunDeleteJob, Finish
      <3>3. FoundWasMade'
        BY <3>1
      <3> QED BY <3>1, <3>2, <3>3
    <2>3. FoundHasName'
      BY <1>0, <1>12 DEF RunDeleteJob, Finish
    <2>4. RanMeansGone'
      BY <1>0, <1>12 DEF RunDeleteJob, Finish
    <2> QED BY <2>1, <2>2, <2>3, <2>4
  <1> QED
    BY <1>1, <1>2, <1>3, <1>4, <1>5, <1>6, <1>7, <1>8, <1>9, <1>10, <1>11, <1>12
    DEF Step, Handle, RunJob

----------------------------------------------------------------------------
(* What the answers promise.                                               *)

\* The bucket of name n exists, or a delete of it has been carried out.
Backed(n) == listBucketsByName(n) # {} \/ DeleteRan(n)

\* A job that has run stays as it is.
LEMMA SuccessStays ==
  ASSUME TypeInv, NEW c \in Call, Step(c),
         NEW d \in Call, job[d].state = "success"
  PROVE  job'[d].state = "success" /\ req'[d] = req[d]
  <1> USE StepFrame DEF TypeInv, TypeOK, NoJobYet
  <1>1. CASE DriverCreateBucket(c)
    BY <1>1 DEF DriverCreateBucket
  <1>2. CASE BucketExists(c)
    BY <1>2 DEF BucketExists
  <1>3. CASE IsBucketEqual(c)
    BY <1>3 DEF IsBucketEqual
  <1>4. CASE CreateBucket(c)
    BY <1>4 DEF CreateBucket, createBucketAsync, SubmitCreate
  <1>5. CASE DriverDeleteBucket(c)
    BY <1>5 DEF DriverDeleteBucket
  <1>6. CASE DeleteBucket(c)
    BY <1>6 DEF DeleteBucket
  <1>7. CASE deleteBucketAsync(c)
    BY <1>7 DEF deleteBucketAsync, SubmitDelete
  <1>8. CASE waitForJob(c)
    BY <1>8 DEF waitForJob, ErrorCode, Uncertain
  <1>9. CASE PollTimeout(c)
    BY <1>9 DEF PollTimeout, ErrorCode
  <1>10. CASE Cancel(c)
    BY <1>10 DEF Cancel, InFlight, SubmitCreate, SubmitDelete
  <1>11. CASE RunCreateJob(c)
    BY <1>11 DEF RunCreateJob, Finish
  <1>12. CASE RunDeleteJob(c)
    BY <1>12 DEF RunDeleteJob, Finish
  <1> QED
    BY <1>1, <1>2, <1>3, <1>4, <1>5, <1>6, <1>7, <1>8, <1>9, <1>10, <1>11, <1>12
    DEF Step, Handle, RunJob

\* A name that is backed stays backed: only the job of a delete for this very
\* name takes the bucket away.
LEMMA BackedStays ==
  ASSUME TypeInv, Identity, NEW c \in Call, Step(c), NEW n, Backed(n)
  PROVE  Backed(n)'
  <1>1. CASE DeleteRan(n)
    BY <1>1, SuccessStays, StepFrame DEF Backed, DeleteRan, BucketName, TypeInv
  <1>2. CASE RunDeleteJob(c) /\ listBucketsByName(n) # {}
    <2>1. CASE buckets' = buckets
      BY <1>2, <2>1 DEF Backed, listBucketsByName
    <2>2. CASE buckets' # buckets
      <3>1. /\ req' = req /\ config' = config /\ req[c].op = "delete"
            /\ job'[c].state = "success" /\ job[c].uuid = found[c]
            /\ buckets' = {b \in buckets : b.uuid # found[c]}
        BY <1>2, <2>2 DEF RunDeleteJob, Finish, Identity, DeleteJob, TypeInv, TypeOK
      <3>2. PICK b \in buckets : b.name = n
        BY <1>2 DEF listBucketsByName
      <3>3. CASE b.uuid # found[c]
        BY <3>1, <3>2, <3>3 DEF Backed, listBucketsByName
      <3>4. CASE b.uuid = found[c]
        <4>1. BucketName(c)' = n
          BY <3>1, <3>2, <3>4 DEF Identity, FoundHasName, BucketName
        <4> QED BY <3>1, <4>1 DEF Backed, DeleteRan
      <3> QED BY <3>3, <3>4
    <2> QED BY <2>1, <2>2
  <1>3. CASE ~RunDeleteJob(c) /\ listBucketsByName(n) # {}
    <2>1. buckets \subseteq buckets'
      BY <1>3 DEF Step, Handle, RunJob, DriverCreateBucket, BucketExists, IsBucketEqual,
         CreateBucket, DriverDeleteBucket, DeleteBucket, deleteBucketAsync, waitForJob,
         PollTimeout, Cancel, RunCreateJob
    <2> QED BY <1>3, <2>1 DEF Backed, listBucketsByName
  <1> QED BY <1>1, <1>2, <1>3 DEF Backed

\* What makes a create answer OK: the existence check, or its own job.
CreateBacked ==
    \A c \in Call :
        /\ pc[c] = "equal" => Backed(BucketName(c))
        /\ req[c].op = "create" /\ job[c].state = "success" => Backed(BucketName(c))
        /\ Answered(c, "create", "OK") => Backed(BucketName(c))

\* What makes a delete answer OK: the lookup, or its own job.
DeleteDone ==
    \A c \in Call : Answered(c, "delete", "OK") => found[c] = NoUUID \/ job[c].state = "success"

\* Every step keeps the reasons for which a delete is answered OK.
LEMMA StepDeleteDone ==
  ASSUME TypeInv, Accounting, Identity, DeleteDone, NEW c \in Call, Step(c) PROVE DeleteDone'
  <1> USE StepFrame DEF TypeInv, TypeOK, NoJobYet, PcFitsOp, Accounting, Identity,
        DeleteJob, DeleteDone, Answered, Answer, Goto
  <1>1. CASE DriverCreateBucket(c)
    BY <1>1 DEF DriverCreateBucket
  <1>2. CASE BucketExists(c)
    BY <1>2 DEF BucketExists
  <1>3. CASE IsBucketEqual(c)
    BY <1>3 DEF IsBucketEqual
  <1>4. CASE CreateBucket(c)
    BY <1>4 DEF CreateBucket, createBucketAsync, SubmitCreate
  <1>5. CASE DriverDeleteBucket(c)
    BY <1>5 DEF DriverDeleteBucket
  <1>6. CASE DeleteBucket(c)
    BY <1>6 DEF DeleteBucket
  <1>7. CASE deleteBucketAsync(c)
    BY <1>7 DEF deleteBucketAsync, SubmitDelete
  <1>8. CASE waitForJob(c)
    BY <1>8 DEF waitForJob, ErrorCode, Uncertain
  <1>9. CASE PollTimeout(c)
    BY <1>9 DEF PollTimeout, ErrorCode
  <1>10. CASE Cancel(c)
    BY <1>10 DEF Cancel, InFlight, SubmitCreate, SubmitDelete
  <1>11. CASE RunCreateJob(c)
    BY <1>11 DEF RunCreateJob, Finish
  <1>12. CASE RunDeleteJob(c)
    BY <1>12 DEF RunDeleteJob, Finish
  <1> QED
    BY <1>1, <1>2, <1>3, <1>4, <1>5, <1>6, <1>7, <1>8, <1>9, <1>10, <1>11, <1>12
    DEF Step, Handle, RunJob

\* The same for the bucket of a call whose request stays as it is.
LEMMA CallBackedStays ==
  ASSUME TypeInv, Identity, NEW c \in Call, Step(c),
         NEW d \in Call, req'[d] = req[d], Backed(BucketName(d))
  PROVE  Backed(BucketName(d))'
  <1>1. PICK n \in Name : n = BucketName(d)
    BY BucketNameType DEF TypeInv
  <1>2. BucketName(d)' = n
    BY <1>1, StepFrame DEF BucketName, TypeInv
  <1>3. Backed(n)'
    BY <1>1, BackedStays
  <1> QED BY <1>2, <1>3 DEF Backed, listBucketsByName, DeleteRan

\* Every step keeps the reasons for which a create is answered OK.
LEMMA StepCreateBacked ==
  ASSUME TypeInv, Accounting, Identity, CreateBacked, NEW c \in Call, Step(c) PROVE CreateBacked'
  <1> DEFINE Reasons(d) ==
        /\ pc[d] = "equal" => Backed(BucketName(d))
        /\ req[d].op = "create" /\ job[d].state = "success" => Backed(BucketName(d))
        /\ Answered(d, "create", "OK") => Backed(BucketName(d))
  <1>0. \A d \in Call : Reasons(d)
    BY DEF CreateBacked
  <1>1. ASSUME NEW d \in Call, d # c PROVE Reasons(d)'
    BY <1>0, <1>1, CallBackedStays, StepFrame DEF Answered, TypeInv
  <1>2. Reasons(c)'
    <2>1. CASE pc[c] = "idle"
      <3>1. job'[c].state = "none" /\ pc'[c] # "equal" /\ code'[c] # "OK"
        BY <2>1 DEF Step, Handle, RunJob, DriverCreateBucket, BucketExists, IsBucketEqual,
           CreateBucket, DriverDeleteBucket, DeleteBucket, deleteBucketAsync, waitForJob,
           PollTimeout, Cancel, InFlight, RunCreateJob, RunDeleteJob, Answer, Goto,
           TypeInv, TypeOK, NoJobYet, Accounting
      <3> QED BY <3>1 DEF Answered
    <2>2. CASE pc[c] # "idle" /\ Backed(BucketName(c))
      BY <2>2, CallBackedStays, StepFrame DEF TypeInv
    <2>3. CASE pc[c] # "idle" /\ ~Backed(BucketName(c))
      <3> USE <2>3, StepFrame DEF TypeInv
      <3>1. /\ pc[c] # "equal" /\ ~Answered(c, "create", "OK")
            /\ ~(req[c].op = "create" /\ job[c].state = "success")
            /\ listBucketsByName(BucketName(c)) = {}
        BY <1>0 DEF Backed
      <3>2. CASE RunCreateJob(c)
        <4>1. pc' = pc /\ code' = code /\ req' = req /\ BucketName(c)' = BucketName(c)
          BY <3>2 DEF RunCreateJob, BucketName
        <4>2. \/ \E s \in {"failure", "quota"} : Finish(c, s)
              \/ \E b \in buckets' : b.name = BucketName(c)
          <5> DEFINE new == [uuid |-> job[c].uuid, name |-> BucketName(c), size |-> SizeOf(c)]
          <5>1. (\E s \in {"failure", "quota"} : Finish(c, s)) \/ buckets' = buckets \union {new}
            BY <3>2, Zenon DEF RunCreateJob
          <5>2. new.name = BucketName(c)
            OBVIOUS
          <5> QED BY <5>1, <5>2
        <4>3. CASE \E s \in {"failure", "quota"} : Finish(c, s)
          <5>1. job'[c].state # "success"
            BY <4>3 DEF Finish, TypeOK
          <5> QED BY <3>1, <4>1, <5>1 DEF Answered
        <4>4. CASE \E b \in buckets' : b.name = BucketName(c)
          BY <4>1, <4>4 DEF Backed, listBucketsByName
        <4> QED BY <4>2, <4>3, <4>4
      <3>3. CASE ~RunCreateJob(c)
        BY <3>1, <3>3 DEF Step, Handle, RunJob, DriverCreateBucket, BucketExists, IsBucketEqual,
           CreateBucket, createBucketAsync, SubmitCreate, DriverDeleteBucket, DeleteBucket,
           deleteBucketAsync, SubmitDelete, waitForJob, ErrorCode,
           PollTimeout, Cancel, RunDeleteJob, Finish, Answer, Goto, Answered,
           TypeOK, PcFitsOp
      <3> QED BY <3>2, <3>3
    <2> QED BY <2>1, <2>2, <2>3
  <1> QED BY <1>1, <1>2 DEF CreateBacked

----------------------------------------------------------------------------
(* The inductive invariant and what follows from it.                       *)

IInv == TypeInv /\ Accounting /\ Identity /\ CreateBacked /\ DeleteDone

\* IInv holds initially and every step keeps it.
LEMMA Invariance == Spec => []IInv
  <1>1. Init => IInv
    <2> SUFFICES ASSUME Init PROVE IInv OBVIOUS
    <2>1. TypeInv
      BY NoRequestType, ConfigAssumption, FaultAssumption
      DEF Init, TypeInv, TypeOK, NoJobYet, CreateJob, PcFitsOp, PC, Code, JobState, Bucket, UUID
    <2>2. Accounting /\ CreateBacked /\ DeleteDone
      BY DEF Init, Accounting, CreateBacked, DeleteDone, Answered
    <2>3. Identity
      BY UUIDAssumption DEF Init, Identity, MadeByItsCall, UniqueUUID, FoundWasMade, FoundHasName,
         DeleteJob, RanMeansGone, UUID
    <2> QED BY <2>1, <2>2, <2>3 DEF IInv
  <1>2. IInv /\ [Next]_vars => IInv'
    <2> SUFFICES ASSUME IInv, [Next]_vars PROVE IInv' OBVIOUS
    <2>1. CASE Next
      <3>1. PICK c \in Call : Step(c) BY <2>1 DEF Next
      <3>2. TypeInv' BY <3>1, StepType, StepJobs DEF IInv, TypeInv
      <3> QED BY <3>1, <3>2, StepAccounting, StepIdentity, StepCreateBacked, StepDeleteDone DEF IInv
    <2>2. CASE UNCHANGED vars
      BY <2>2 DEF vars, IInv, TypeInv, TypeOK, NoJobYet, CreateJob, PcFitsOp, SizeOf, Accounting, Identity,
         MadeByItsCall, UniqueUUID, FoundWasMade, FoundHasName, DeleteJob, RanMeansGone,
         CreateBacked, DeleteDone, Answered, Backed, DeleteRan, BucketName, listBucketsByName
    <2> QED BY <2>1, <2>2
  <1> QED BY <1>1, <1>2, PTL DEF Spec

\* The variables of the driver and of the SVM keep their types in every
\* behaviour.
THEOREM TypeCorrect == Spec => []TypeOK
  <1>1. IInv => TypeOK BY DEF IInv, TypeInv
  <1> QED BY <1>1, Invariance, PTL

\* For any number of concurrent calls, a job that may still run belongs to a
\* call that waits for it or that was answered with a retryable error
\* (CreateBucket, DeleteBucket, waitForJob and the mapping of their errors).
THEOREM NoJobIsUnaccounted == Spec => []NoJobUnaccounted
  <1>1. IInv => NoJobUnaccounted
    BY DEF IInv, Accounting, NoJobUnaccounted
  <1> QED BY <1>1, Invariance, PTL

\* A refused create has no bucket and no pending job: everything that ends in
\* InvalidArgument, AlreadyExists, ResourceExhausted or Unavailable is decided
\* before the job of the call succeeds.
THEOREM RefusalIsClean == Spec => []RefusalLeavesNothing
  <1>1. IInv => RefusalLeavesNothing
    BY DEF IInv, TypeInv, TypeOK, Accounting, Identity, MadeByItsCall, RefusalLeavesNothing,
       Harmless, Uncertain, Code
  <1> QED BY <1>1, Invariance, PTL

\* A create answered OK is backed by a bucket until a delete of that bucket is
\* carried out, for any interleaving of calls and jobs.
THEOREM OkCreateIsBacked == Spec => []OkCreateBacked
  <1>1. IInv => OkCreateBacked
    BY DEF IInv, CreateBacked, Backed, OkCreateBacked
  <1> QED BY <1>1, Invariance, PTL

\* A delete answered OK has removed what its lookup found, for good.
THEOREM OkDeleteIsGone == Spec => []OkDeleteGone
  <1>1. IInv => OkDeleteGone
    BY UUIDAssumption DEF IInv, TypeInv, TypeOK, Bucket, DeleteDone, Identity, RanMeansGone,
       OkDeleteGone, Answered
  <1> QED BY <1>1, Invariance, PTL

\* No step removes a bucket other than the one a delete call found under the
\* name it was asked to delete.
THEOREM DeletesAreTargeted == Spec => DeletesOnlyWhatItFound
  <1> DEFINE Targeted ==
        \A b \in buckets \ buckets' : \E c \in Call :
            /\ req[c].op = "delete" /\ job[c].state = "queued"
            /\ found[c] = b.uuid /\ BucketName(c) = b.name
  <1>1. IInv /\ [Next]_vars => [Targeted]_vars
    <2> SUFFICES ASSUME IInv, Next PROVE Targeted
      BY DEF vars
    <2>1. PICK c \in Call : Step(c) BY DEF Next
    <2>2. CASE RunDeleteJob(c)
      BY <2>2 DEF RunDeleteJob, IInv, Identity, DeleteJob, FoundHasName
    <2>3. CASE ~RunDeleteJob(c)
      <3>1. buckets \subseteq buckets'
        BY <2>1, <2>3 DEF Step, Handle, RunJob, DriverCreateBucket, BucketExists, IsBucketEqual,
           CreateBucket, DriverDeleteBucket, DeleteBucket, deleteBucketAsync, waitForJob,
           PollTimeout, Cancel, RunCreateJob
      <3> QED BY <3>1
    <2> QED BY <2>2, <2>3
  <1> QED BY <1>1, Invariance, PTL DEF Spec, DeletesOnlyWhatItFound

----------------------------------------------------------------------------
(* Sizes, when overrides.bucketID is set.                                  *)

\* There is one bucket of a name at most.
UniqueName == \A a, b \in buckets : a.name = b.name => a = b

\* A bucket of name n has size z, or a delete of it has been carried out.
SizedAs(n, z) == (\E b \in buckets : b.name = n /\ b.size = z) \/ DeleteRan(n)

\* A create that has made its bucket, or was answered OK after a comparison, has
\* a bucket of the size it asked for.
Sized ==
    \A c \in Call : req[c].op = "create" /\ SizeOf(c) # 0 =>
        /\ job[c].state = "success" => SizedAs(BucketName(c), SizeOf(c))
        /\ Answered(c, "create", "OK") /\ config.override # NoOverride =>
              SizedAs(BucketName(c), SizeOf(c))

\* A bucket stays, unless a delete of its name is carried out.
LEMMA BucketStays ==
  ASSUME TypeInv, Identity, NEW c \in Call, Step(c), NEW b \in buckets
  PROVE  b \in buckets' \/ DeleteRan(b.name)'
  <1>1. CASE RunDeleteJob(c)
    <2>1. \/ buckets' = buckets
          \/ /\ req' = req /\ config' = config /\ req[c].op = "delete"
             /\ job'[c].state = "success" /\ job[c].uuid = found[c]
             /\ buckets' = {x \in buckets : x.uuid # found[c]}
      BY <1>1 DEF RunDeleteJob, Finish, Identity, DeleteJob, TypeInv, TypeOK
    <2>2. CASE buckets' = buckets \/ b.uuid # found[c]
      BY <2>1, <2>2
    <2>3. CASE buckets' # buckets /\ b.uuid = found[c]
      <3>1. BucketName(c)' = b.name
        BY <2>1, <2>3 DEF Identity, FoundHasName, BucketName
      <3> QED BY <2>1, <2>3, <3>1 DEF DeleteRan
    <2> QED BY <2>2, <2>3
  <1>2. CASE ~RunDeleteJob(c)
    BY <1>2 DEF Step, Handle, RunJob, DriverCreateBucket, BucketExists, IsBucketEqual,
       CreateBucket, DriverDeleteBucket, DeleteBucket, deleteBucketAsync, waitForJob,
       PollTimeout, Cancel, RunCreateJob
  <1> QED BY <1>1, <1>2

\* What a call with an unchanged request can rely on stays.
LEMMA SizedStays ==
  ASSUME TypeInv, Identity, NEW c \in Call, Step(c),
         NEW d \in Call, req'[d] = req[d], SizedAs(BucketName(d), SizeOf(d))
  PROVE  SizedAs(BucketName(d), SizeOf(d))'
  <1>1. BucketName(d)' = BucketName(d) /\ SizeOf(d)' = SizeOf(d)
    BY StepFrame DEF BucketName, SizeOf, TypeInv
  <1>2. CASE DeleteRan(BucketName(d))
    <2>1. PICK e \in Call : req[e].op = "delete" /\ BucketName(e) = BucketName(d) /\ job[e].state = "success"
      BY <1>2 DEF DeleteRan
    <2>2. job'[e].state = "success" /\ req'[e] = req[e] /\ config' = config
      BY <2>1, SuccessStays, StepFrame DEF TypeInv
    <2>3. BucketName(e)' = BucketName(e)
      BY <2>2 DEF BucketName
    <2> QED BY <1>1, <2>1, <2>2, <2>3 DEF SizedAs, DeleteRan
  <1>3. CASE \E b \in buckets : b.name = BucketName(d) /\ b.size = SizeOf(d)
    <2>1. PICK b \in buckets : b.name = BucketName(d) /\ b.size = SizeOf(d)
      BY <1>3
    <2>2. b \in buckets' \/ DeleteRan(b.name)'
      BY BucketStays
    <2> QED BY <1>1, <2>1, <2>2 DEF SizedAs, DeleteRan
  <1> QED BY <1>2, <1>3 DEF SizedAs

\* Every step keeps names unique: a create job finds its name free.
LEMMA StepUniqueName ==
  ASSUME UniqueName, NEW c \in Call, Step(c) PROVE UniqueName'
  <1>1. CASE buckets' \subseteq buckets
    BY <1>1 DEF UniqueName
  <1>2. CASE RunCreateJob(c) /\ buckets' # buckets
    <2> DEFINE new == [uuid |-> job[c].uuid, name |-> BucketName(c), size |-> SizeOf(c)]
    <2>1. listBucketsByName(BucketName(c)) = {} /\ buckets' = buckets \union {new}
      BY <1>2, Zenon DEF RunCreateJob
    <2>2. new.name = BucketName(c)
      OBVIOUS
    <2> HIDE DEF new
    <2> QED BY <2>1, <2>2 DEF UniqueName, listBucketsByName
  <1>3. buckets' \subseteq buckets \/ RunCreateJob(c)
    BY DEF Step, Handle, RunJob, DriverCreateBucket, BucketExists, IsBucketEqual,
       CreateBucket, DriverDeleteBucket, DeleteBucket, deleteBucketAsync, waitForJob,
       PollTimeout, Cancel, RunDeleteJob
  <1> QED BY <1>1, <1>2, <1>3

\* Every step keeps the sizes that answers rely on.
LEMMA StepSized ==
  ASSUME TypeInv, Accounting, Identity, Sized, NEW c \in Call, Step(c) PROVE Sized'
  <1> DEFINE Reasons(d) ==
        req[d].op = "create" /\ SizeOf(d) # 0 =>
          /\ job[d].state = "success" => SizedAs(BucketName(d), SizeOf(d))
          /\ Answered(d, "create", "OK") /\ config.override # NoOverride =>
                SizedAs(BucketName(d), SizeOf(d))
  <1>0. \A d \in Call : Reasons(d)
    BY DEF Sized
  <1>1. ASSUME NEW d \in Call, d # c PROVE Reasons(d)'
    <2>1. /\ req'[d] = req[d] /\ job'[d] = job[d] /\ pc'[d] = pc[d] /\ code'[d] = code[d]
          /\ config' = config /\ SizeOf(d)' = SizeOf(d)
      BY <1>1, StepFrame DEF SizeOf, TypeInv
    <2>2. SizedAs(BucketName(d), SizeOf(d)) => SizedAs(BucketName(d), SizeOf(d))'
      BY <2>1, SizedStays
    <2> HIDE DEF SizeOf
    <2> QED BY <1>0, <2>1, <2>2 DEF Answered
  <1>2. Reasons(c)'
    <2>1. CASE pc[c] = "idle"
      <3>1. job'[c].state = "none" /\ code'[c] # "OK"
        BY <2>1 DEF Step, Handle, RunJob, DriverCreateBucket, BucketExists, IsBucketEqual,
           CreateBucket, DriverDeleteBucket, DeleteBucket, deleteBucketAsync, waitForJob,
           PollTimeout, Cancel, InFlight, RunCreateJob, RunDeleteJob, Answer, Goto,
           TypeInv, TypeOK, NoJobYet, Accounting
      <3> QED BY <3>1 DEF Answered
    <2>2. CASE pc[c] # "idle" /\ SizedAs(BucketName(c), SizeOf(c))
      BY <2>2, SizedStays, StepFrame DEF TypeInv
    <2>3. CASE pc[c] # "idle" /\ ~SizedAs(BucketName(c), SizeOf(c))
      <3>1. req' = req /\ config' = config /\ BucketName(c)' = BucketName(c) /\ SizeOf(c)' = SizeOf(c)
        BY <2>3, StepFrame DEF BucketName, SizeOf, TypeInv
      <3>2. CASE RunCreateJob(c)
        <4> DEFINE new == [uuid |-> job[c].uuid, name |-> BucketName(c), size |-> SizeOf(c)]
        <4>1. (\E s \in {"failure", "quota"} : Finish(c, s)) \/ buckets' = buckets \union {new}
          BY <3>2, Zenon DEF RunCreateJob
        <4>2. new.name = BucketName(c) /\ new.size = SizeOf(c)
          OBVIOUS
        <4> HIDE DEF new
        <4>3. CASE buckets' = buckets \union {new}
          BY <3>1, <4>2, <4>3 DEF SizedAs
        <4>4. CASE \E s \in {"failure", "quota"} : Finish(c, s)
          <5>1. job'[c].state # "success" /\ pc' = pc /\ code' = code
            BY <3>2, <4>4 DEF Finish, RunCreateJob, TypeInv, TypeOK
          <5> QED BY <1>0, <2>3, <3>1, <5>1 DEF Answered
        <4> QED BY <4>1, <4>3, <4>4
      <3>3. CASE IsBucketEqual(c)
        <4>1. job' = job /\ buckets' = buckets
          BY <3>3 DEF IsBucketEqual
        <4>2. CASE SizeOf(c) # 0 /\ code'[c] = "OK"
          <5>1. TrimSpace(req[c].size) # <<>> => \E b \in buckets : b.name = BucketName(c) /\ b.size = SizeOf(c)
            BY <3>3, <4>2 DEF IsBucketEqual, Answer, listBucketsByName, TypeInv, TypeOK
          <5>2. TrimSpace(req[c].size) # <<>>
            BY <4>2, BlankIsZero DEF SizeOf, Bytes, TypeInv, TypeOK, Request
          <5> QED BY <2>3, <5>1, <5>2 DEF SizedAs
        <4>3. CASE ~(SizeOf(c) # 0 /\ code'[c] = "OK")
          BY <1>0, <2>3, <3>1, <4>1, <4>3 DEF Answered
        <4> QED BY <4>2, <4>3
      <3>4. CASE ~RunCreateJob(c) /\ ~IsBucketEqual(c)
        <4>1. req[c].op = "create" /\ SizeOf(c) # 0 => job'[c].state # "success"
          BY <1>0, <2>3, <3>4 DEF Step, Handle, RunJob, DriverCreateBucket, BucketExists,
             CreateBucket, createBucketAsync, SubmitCreate, DriverDeleteBucket, DeleteBucket,
             deleteBucketAsync, SubmitDelete, waitForJob, PollTimeout, Cancel, RunDeleteJob,
             TypeInv, TypeOK
        <4>2. /\ req[c].op = "create" /\ SizeOf(c) # 0 /\ config.override # NoOverride
              => ~Answered(c, "create", "OK")'
          BY <1>0, <2>3, <3>1, <3>4 DEF Step, Handle, RunJob, DriverCreateBucket, BucketExists, Overridden,
             CreateBucket, createBucketAsync, DriverDeleteBucket, DeleteBucket,
             deleteBucketAsync, waitForJob, ErrorCode, PollTimeout, Cancel, RunDeleteJob,
             Answer, Goto, Answered, TypeInv, TypeOK, PcFitsOp
        <4> QED BY <3>1, <4>1, <4>2
      <3> QED BY <3>2, <3>3, <3>4
    <2> QED BY <2>1, <2>2, <2>3
  <1> QED BY <1>1, <1>2 DEF Sized

\* With overrides.bucketID set DriverCreateBucket compares sizes, whatever jobs
\* and deletes run meanwhile: it does not answer OK to two creates of one bucket
\* that ask for different sizes, unless the bucket was deleted.
THEOREM SizesDoNotConflict == Spec /\ config.override # NoOverride => []NoConflictingSizes
  <1>1. Init /\ config.override # NoOverride => UniqueName /\ Sized
    BY DEF Init, UniqueName, Sized, Answered
  <1>2. IInv /\ UniqueName /\ Sized /\ config.override # NoOverride /\ [Next]_vars =>
          UniqueName' /\ Sized' /\ (config.override # NoOverride)'
    <2> SUFFICES ASSUME IInv, UniqueName, Sized, config.override # NoOverride, [Next]_vars
                 PROVE  UniqueName' /\ Sized' /\ (config.override # NoOverride)'
      OBVIOUS
    <2>1. CASE Next
      <3>1. PICK c \in Call : Step(c) BY <2>1 DEF Next
      <3> QED BY <3>1, StepUniqueName, StepSized, StepFrame DEF IInv, TypeInv
    <2>2. CASE UNCHANGED vars
      BY <2>2 DEF vars, UniqueName, Sized, SizedAs, Answered, DeleteRan, BucketName, SizeOf
    <2> QED BY <2>1, <2>2
  <1>3. UniqueName /\ Sized /\ config.override # NoOverride => NoConflictingSizes
    BY DEF UniqueName, Sized, SizedAs, NoConflictingSizes, Answered
  <1> QED BY <1>1, <1>2, <1>3, Invariance, PTL DEF Spec

----------------------------------------------------------------------------
(* The size of a bucket is the one its create was sent.                    *)

\* A bucket that a call made has the size that parseBucketSize gave the call.
MadeToSize ==
    \A b \in buckets : b.uuid \in Call => b.size = SizeOf(b.uuid) /\ SizeOf(b.uuid) # 0

\* Every step keeps it: the job was queued with the size of its call, and the
\* request of a call that has a job no longer changes.
LEMMA StepMadeToSize ==
  ASSUME TypeInv, Identity, MadeToSize, NEW c \in Call, Step(c) PROVE MadeToSize'
  <1> SUFFICES ASSUME NEW b \in buckets', b.uuid \in Call
               PROVE  b.size = SizeOf(b.uuid)' /\ SizeOf(b.uuid)' # 0
    BY DEF MadeToSize
  <1>1. CASE b \in buckets
    <2>1. pc[b.uuid] # "idle"
      BY <1>1 DEF Identity, MadeByItsCall, TypeInv, NoJobYet
    <2>2. SizeOf(b.uuid)' = SizeOf(b.uuid)
      BY <2>1, StepFrame DEF SizeOf, TypeInv
    <2> QED BY <1>1, <2>2 DEF MadeToSize
  <1>2. CASE RunCreateJob(c) /\ b \notin buckets
    <2> DEFINE new == [uuid |-> job[c].uuid, name |-> BucketName(c), size |-> SizeOf(c)]
    <2>1. buckets' = buckets \union {new}
      BY <1>2, Zenon DEF RunCreateJob
    <2>2. req' = req /\ SizeOf(c) # 0 /\ job[c].uuid = c
      BY <1>2 DEF RunCreateJob, TypeInv, CreateJob
    <2>3. b.uuid = c /\ b.size = SizeOf(c)
      BY <1>2, <2>1, <2>2
    <2> QED BY <2>2, <2>3 DEF SizeOf
  <1>3. buckets' \subseteq buckets \/ RunCreateJob(c)
    BY DEF Step, Handle, RunJob, DriverCreateBucket, BucketExists, IsBucketEqual,
       CreateBucket, DriverDeleteBucket, DeleteBucket, deleteBucketAsync, waitForJob,
       PollTimeout, Cancel, RunDeleteJob
  <1> QED BY <1>1, <1>2, <1>3

\* Whatever texts the size parameter may be, a bucket that a create made has as
\* many GiB as the digits of the text say, and that many bytes fit an int64.
THEOREM SizesAreRequested == Spec => []SizesAsRequested
  <1>1. Init => MadeToSize
    BY UUIDAssumption DEF Init, MadeToSize
  <1>2. IInv /\ MadeToSize /\ [Next]_vars => MadeToSize'
    <2> SUFFICES ASSUME IInv, MadeToSize, [Next]_vars PROVE MadeToSize' OBVIOUS
    <2>1. CASE Next
      BY <2>1, StepMadeToSize DEF Next, IInv
    <2>2. CASE UNCHANGED vars
      BY <2>2 DEF vars, MadeToSize, SizeOf
    <2> QED BY <2>1, <2>2
  <1>3. IInv /\ MadeToSize => SizesAsRequested
    <2> SUFFICES ASSUME IInv, MadeToSize, NEW b \in buckets, b.uuid \in Call
                 PROVE  b.size \in 1..MaxInt64 /\ SizeWritten(req[b.uuid].size, b.size)
      BY DEF SizesAsRequested
    <2> DEFINE raw == req[b.uuid].size
    <2>1. raw \in RawSize /\ raw \in Seq(STRING)
      BY SizeAssumption DEF IInv, TypeInv, TypeOK, Request
    <2>2. b.size = parseBucketSize(raw) /\ parseBucketSize(raw) # 0
      BY <2>1 DEF MadeToSize, SizeOf, Bytes
    <2> HIDE DEF raw
    <2>3. SizeWritten(raw, b.size)
      BY <2>1, <2>2, SizeIsWritten
    <2>4. b.size \in Size
      BY <2>2, SizeIsExact
    <2>5. b.size \in 1..MaxInt64
      BY <2>4, LimitFits DEF Size
    <2> QED BY <2>3, <2>5 DEF raw
  <1> QED BY <1>1, <1>2, <1>3, Invariance, PTL DEF Spec
====
