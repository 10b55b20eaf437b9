---------------------------- MODULE BucketProvisioner ----------------------------
(***************************************************************************)
(* The bucket half of the COSI driver: DriverCreateBucket and              *)
(* DriverDeleteBucket (src/pkg/driver/provisioner.go) on top of the ONTAP  *)
(* S3 client (src/pkg/clients/s3/s3.go), and the ONTAP SVM they talk to.   *)
(*                                                                         *)
(* gRPC runs every RPC in a goroutine of its own and the driver takes no   *)
(* lock, so calls interleave between any two REST requests.  One action is *)
(* one REST request together with the code that runs up to the next one.   *)
(* A create or a delete only queues an ONTAP job; the job runs later, also *)
(* when the call that queued it has given up.                              *)
(***************************************************************************)
EXTENDS BucketSize

CONSTANTS
    Call,        \* RPC invocations; a call also names the job and the bucket it makes
    Prior,       \* UUIDs of buckets that may exist before the first call
    Name,        \* bucket names (they are the COSI bucket ids too)
    RawSize,     \* texts of the size parameter; the empty one when it is missing
    Config,      \* driver configurations to choose from: see Configs
    NoOverride,  \* overrides.bucketID is not set
    NoUUID,      \* no bucket found, no job
    MaxFaults    \* bound on failing requests and jobs in a behaviour

VARIABLES
    config,      \* the configuration file, read once at startup
    req,         \* req[c]: the request of call c
    pc,          \* pc[c]: the next request call c sends to ONTAP
    found,       \* found[c]: UUID the lookup of a delete returned
    code,        \* code[c]: gRPC code of the answer
    job,         \* job[c]: the ONTAP job call c submitted
    buckets,     \* the buckets of the SVM
    faults       \* failures so far

vars == <<config, req, pc, found, code, job, buckets, faults>>

UUID == Call \union Prior

\* The request parameters; lockingOK is false when strconv.ParseBool rejects
\* the objectLocking parameter.
Request == [op : {"create", "delete"}, name : Name, size : RawSize, lockingOK : BOOLEAN]

\* A delete request carries a bucket id only; the other fields are not read.
DeleteRequest(n) == [op |-> "delete", name |-> n, size |-> <<>>, lockingOK |-> TRUE]

NoRequest == DeleteRequest(CHOOSE n \in Name : TRUE)

Bucket == [uuid : UUID, name : Name, size : Size]

Configs == [override : Name \union {NoOverride}, errors : SUBSET {"create", "delete"},
            multiTenant : BOOLEAN]

PC == {"idle", "exists", "equal", "create", "lookup", "delete", "wait", "done"}

JobState == {"none", "queued", "success", "failure", "quota"}

\* Answers after which the state of the backend is not known.  QuotaOnPoll stands
\* for the ResourceExhausted that a create returns when a poll of its job failed
\* with an error text that speaks of the quota; the caller cannot tell it from a
\* ResourceExhausted that the POST or the job has brought about.
Uncertain == {"Internal", "Unknown", "DeadlineExceeded", "Canceled", "QuotaOnPoll"}

\* codes.ResourceExhausted, as the caller sees it.
Exhausted == {"ResourceExhausted", "QuotaOnPoll"}

\* Answers that promise that the call has not changed anything.
Harmless == {"InvalidArgument", "AlreadyExists", "ResourceExhausted", "Unavailable", "Injected"}

Code == {"none", "OK"} \union Uncertain \union Harmless

ASSUME ConfigAssumption == Config \subseteq Configs
ASSUME NameAssumption == NoOverride \notin Name /\ Name # {}
ASSUME UUIDAssumption == NoUUID \notin UUID /\ Call \intersect Prior = {}
ASSUME SizeAssumption == <<>> \in RawSize /\ RawSize \subseteq Seq(STRING)
ASSUME FaultAssumption == MaxFaults \in Nat

----------------------------------------------------------------------------
(* Names and configuration.                                                *)

\* getName / getBucketID: the bucket call c works on.
BucketName(c) == IF config.override = NoOverride THEN req[c].name ELSE config.override

\* The flag getName returns next to the name, which its caller takes to say that
\* the id was overridden: false with an override, true without one.
Overridden == config.override = NoOverride

\* parseBucketSize of every text (a constant, computed once).
Bytes == [raw \in RawSize |-> parseBucketSize(raw)]

\* The size call c asks for; 0 when its parameter is missing, blank or rejected.
SizeOf(c) == Bytes[req[c].size]

\* The records that listing the buckets with a name filter returns.
listBucketsByName(n) == {b \in buckets : b.name = n}

----------------------------------------------------------------------------
(* How a call moves on.                                                    *)

Goto(c, l) == pc' = [pc EXCEPT ![c] = l] /\ UNCHANGED code

Answer(c, k) == pc' = [pc EXCEPT ![c] = "done"] /\ code' = [code EXCEPT ![c] = k]

Fault == faults < MaxFaults /\ faults' = faults + 1

NoFault == UNCHANGED faults

\* Every error of DeleteBucket becomes codes.Internal in DriverDeleteBucket;
\* an error of CreateBucket is returned as it is, which gRPC reports as Unknown,
\* or as DeadlineExceeded when it wraps the expired polling context.
ErrorCode(c, raw) == IF req[c].op = "delete" THEN "Internal" ELSE raw

----------------------------------------------------------------------------
(* DriverCreateBucket.                                                     *)

\* The handler up to its first request: resolveClient, then error injection.
DriverCreateBucket(c) ==
    /\ pc[c] = "idle"
    /\ \E r \in Request : r.op = "create" /\ req' = [req EXCEPT ![c] = r]
    /\ \/ config.multiTenant /\ Fault /\ Answer(c, "Unavailable")
       \/ "create" \in config.errors /\ NoFault /\ Answer(c, "Injected")
       \/ "create" \notin config.errors /\ NoFault /\ Goto(c, "exists")
    /\ UNCHANGED <<config, found, job, buckets>>

\* Mutant: the bucket is created without asking whether it exists.
BucketExistsSkipped(c) ==
    /\ pc[c] = "exists" /\ NoFault /\ Goto(c, "create")
    /\ UNCHANGED <<config, req, found, job, buckets>>

\* client.BucketExists and the branch on its result.
BucketExists(c) ==
    /\ pc[c] = "exists"
    /\ \/ Fault /\ Answer(c, "Internal")
       \/ /\ NoFault
          /\ listBucketsByName(BucketName(c)) = {}
          /\ Goto(c, "create")
       \/ /\ NoFault
          /\ listBucketsByName(BucketName(c)) # {}
          /\ IF Overridden THEN Answer(c, "OK") ELSE Goto(c, "equal")
    /\ UNCHANGED <<config, req, found, job, buckets>>

\* Mutant: the size of an existing bucket is not compared.
IsBucketEqualAlways(c) ==
    /\ pc[c] = "equal" /\ NoFault /\ Answer(c, "OK")
    /\ UNCHANGED <<config, req, found, job, buckets>>

\* client.IsBucketEqual and the branch on its result.  The bucket is looked up
\* a second time; a bucket that has gone meanwhile is "not equal".
IsBucketEqual(c) ==
    /\ pc[c] = "equal"
    /\ \/ TrimSpace(req[c].size) = <<>> /\ NoFault /\ Answer(c, "OK")
       \/ /\ TrimSpace(req[c].size) # <<>> /\ SizeOf(c) = 0
          /\ NoFault /\ Answer(c, "Internal")
       \/ SizeOf(c) # 0 /\ Fault /\ Answer(c, "Internal")
       \/ /\ SizeOf(c) # 0
          /\ NoFault
          /\ Answer(c, IF \E b \in listBucketsByName(BucketName(c)) : b.size = SizeOf(c)
                         THEN "OK" ELSE "AlreadyExists")
    /\ UNCHANGED <<config, req, found, job, buckets>>

\* The SVM accepts the request of call c and queues its job.
SubmitCreate(c) ==
    /\ listBucketsByName(BucketName(c)) = {}
    /\ job' = [job EXCEPT ![c] = [state |-> "queued", uuid |-> c]]

\* createBucketAsync: the POST is lost, or applied and its answer lost (also: an
\* answer without a job UUID), or refused for the quota, or refused because the
\* name is taken, or accepted.
createBucketAsync(c) ==
    \/ Fault /\ Answer(c, "Unknown") /\ UNCHANGED job
    \/ Fault /\ Answer(c, "Unknown") /\ SubmitCreate(c)
    \/ Fault /\ Answer(c, "ResourceExhausted") /\ UNCHANGED job
    \/ /\ listBucketsByName(BucketName(c)) # {}
       /\ NoFault /\ Answer(c, "Unknown") /\ UNCHANGED job
    \/ NoFault /\ SubmitCreate(c) /\ Goto(c, "wait")

\* Mutant: the parameters are validated after the request has been sent.
CreateBucketValidatesLate(c) ==
    /\ pc[c] = "create"
    /\ \/ /\ ~req[c].lockingOK
          /\ NoFault /\ Answer(c, "InvalidArgument") /\ SubmitCreate(c)
       \/ req[c].lockingOK /\ createBucketAsync(c)
    /\ UNCHANGED <<config, req, found, buckets>>

\* CreateBucket validates the parameters before it sends anything.
CreateBucket(c) ==
    /\ pc[c] = "create"
    /\ \/ /\ SizeOf(c) = 0
          /\ NoFault /\ Answer(c, "InvalidArgument") /\ UNCHANGED job
       \/ /\ SizeOf(c) # 0 /\ ~req[c].lockingOK
          /\ NoFault /\ Answer(c, "Unknown") /\ UNCHANGED job
       \/ /\ SizeOf(c) # 0 /\ req[c].lockingOK
          /\ createBucketAsync(c)
    /\ UNCHANGED <<config, req, found, buckets>>

----------------------------------------------------------------------------
(* DriverDeleteBucket.                                                     *)

DriverDeleteBucket(c) ==
    /\ pc[c] = "idle"
    /\ \E n \in Name : req' = [req EXCEPT ![c] = DeleteRequest(n)]
    /\ \/ config.multiTenant /\ Fault /\ Answer(c, "Unavailable")
       \/ "delete" \in config.errors /\ NoFault /\ Answer(c, "Injected")
       \/ "delete" \notin config.errors /\ NoFault /\ Goto(c, "lookup")
    /\ UNCHANGED <<config, found, job, buckets>>

\* Mutant: a bucket that does not exist is an error.
DeleteBucketStrict(c) ==
    /\ pc[c] = "lookup"
    /\ \/ /\ listBucketsByName(BucketName(c)) = {}
          /\ NoFault /\ Answer(c, "Internal") /\ UNCHANGED found
       \/ \E b \in listBucketsByName(BucketName(c)) :
             /\ found' = [found EXCEPT ![c] = b.uuid]
             /\ NoFault /\ Goto(c, "delete")
    /\ UNCHANGED <<config, req, job, buckets>>

\* DeleteBucket finds the UUID first; no bucket of that name is a success.
DeleteBucket(c) ==
    /\ pc[c] = "lookup"
    /\ \/ Fault /\ Answer(c, "Internal") /\ UNCHANGED found
       \/ /\ listBucketsByName(BucketName(c)) = {}
          /\ NoFault /\ Answer(c, "OK") /\ UNCHANGED found
       \/ \E b \in listBucketsByName(BucketName(c)) :
             /\ found' = [found EXCEPT ![c] = b.uuid]
             /\ NoFault /\ Goto(c, "delete")
    /\ UNCHANGED <<config, req, job, buckets>>

\* Mutant: the bucket to delete is addressed by its name.
SubmitDeleteByName(c) ==
    \E b \in listBucketsByName(BucketName(c)) :
        job' = [job EXCEPT ![c] = [state |-> "queued", uuid |-> b.uuid]]

\* The SVM accepts a DELETE of a bucket UUID it knows.
SubmitDelete(c) ==
    /\ \E b \in buckets : b.uuid = found[c]
    /\ job' = [job EXCEPT ![c] = [state |-> "queued", uuid |-> found[c]]]

\* Mutant: the delete is answered as soon as its job is queued.
deleteBucketAsyncNoWait(c) ==
    /\ pc[c] = "delete"
    /\ NoFault /\ SubmitDelete(c) /\ Answer(c, "OK")
    /\ UNCHANGED <<config, req, found, buckets>>

\* deleteBucketAsync: lost, answer lost, 404 (not tolerated here), accepted.
deleteBucketAsync(c) ==
    /\ pc[c] = "delete"
    /\ \/ Fault /\ Answer(c, "Internal") /\ UNCHANGED job
       \/ Fault /\ Answer(c, "Internal") /\ SubmitDelete(c)
       \/ /\ \A b \in buckets : b.uuid # found[c]
          /\ NoFault /\ Answer(c, "Internal") /\ UNCHANGED job
       \/ NoFault /\ SubmitDelete(c) /\ Goto(c, "wait")
    /\ UNCHANGED <<config, req, found, buckets>>

----------------------------------------------------------------------------
(* Both wait for their job.                                                *)

\* Mutant: an empty job state counts as finished.
waitForJobEmptyIsDone(c) ==
    /\ pc[c] = "wait" /\ job[c].state \in {"queued", "success"}
    /\ NoFault /\ Answer(c, "OK")
    /\ UNCHANGED <<config, req, found, job, buckets>>

\* Mutant: a terminal job counts as a success, whatever its state.
waitForJobTerminalIsOK(c) ==
    /\ pc[c] = "wait" /\ job[c].state # "queued"
    /\ NoFault /\ Answer(c, "OK")
    /\ UNCHANGED <<config, req, found, job, buckets>>

\* waitForJob returns the first terminal state it polls, and what CreateBucket
\* and DeleteBucket make of it.  A job that is not terminal is polled again.  A
\* poll that fails ends the loop whatever the job does, and its error is passed
\* on: doJSON marks it as a quota refusal if its text reads like one.
waitForJob(c) ==
    /\ pc[c] = "wait"
    /\ \/ job[c].state = "success" /\ NoFault /\ Answer(c, "OK")
       \/ job[c].state = "failure" /\ NoFault /\ Answer(c, ErrorCode(c, "Unknown"))
       \/ job[c].state = "quota" /\ NoFault /\ Answer(c, ErrorCode(c, "ResourceExhausted"))
       \/ Fault /\ \E k \in {"Unknown", "QuotaOnPoll"} : Answer(c, ErrorCode(c, k))
    /\ UNCHANGED <<config, req, found, job, buckets>>

\* Mutant: waitForJob has no timeout of its own.
PollTimeoutNever(c) == FALSE /\ UNCHANGED vars

\* defaultJobPollTimeout has passed: the call ends whatever the job does later.
PollTimeout(c) ==
    /\ pc[c] = "wait"
    /\ Answer(c, ErrorCode(c, "DeadlineExceeded"))
    /\ UNCHANGED <<config, req, found, job, buckets, faults>>

InFlight(c) == pc[c] \notin {"idle", "done"}

\* The context of the call is done (the caller gives up) or the driver process
\* dies.  A request on its way to the SVM may still be accepted.
Cancel(c) ==
    /\ InFlight(c)
    /\ Answer(c, "Canceled")
    /\ \/ UNCHANGED job
       \/ pc[c] = "create" /\ SizeOf(c) # 0 /\ req[c].lockingOK /\ SubmitCreate(c)
       \/ pc[c] = "delete" /\ SubmitDelete(c)
    /\ UNCHANGED <<config, req, found, buckets, faults>>

----------------------------------------------------------------------------
(* The SVM runs the jobs, in any order.                                    *)

Finish(c, s) == job' = [job EXCEPT ![c] = [state |-> s, uuid |-> job[c].uuid]]

\* A create job makes the bucket unless the name was taken since the request.
RunCreateJob(c) ==
    /\ job[c].state = "queued" /\ req[c].op = "create"
    /\ \/ /\ listBucketsByName(BucketName(c)) # {} /\ NoFault
          /\ Finish(c, "failure")
          /\ UNCHANGED buckets
       \/ /\ Fault
          /\ \E s \in {"failure", "quota"} : Finish(c, s)
          /\ UNCHANGED buckets
       \/ /\ listBucketsByName(BucketName(c)) = {} /\ NoFault
          /\ Finish(c, "success")
          /\ buckets' = buckets \union
                          {[uuid |-> job[c].uuid, name |-> BucketName(c), size |-> SizeOf(c)]}
    /\ UNCHANGED <<config, req, pc, found, code>>

\* A delete job removes the bucket with its UUID; it fails when that bucket has
\* gone, and (a fault) when the bucket is not empty.
RunDeleteJob(c) ==
    /\ job[c].state = "queued" /\ req[c].op = "delete"
    /\ \/ /\ \A b \in buckets : b.uuid # job[c].uuid
          /\ NoFault /\ Finish(c, "failure")
          /\ UNCHANGED buckets
       \/ Fault /\ Finish(c, "failure") /\ UNCHANGED buckets
       \/ /\ \E b \in buckets : b.uuid = job[c].uuid
          /\ NoFault /\ Finish(c, "success")
          /\ buckets' = {b \in buckets : b.uuid # job[c].uuid}
    /\ UNCHANGED <<config, req, pc, found, code>>

----------------------------------------------------------------------------
Init ==
    /\ config \in Config
    /\ req = [c \in Call |-> NoRequest]
    /\ pc = [c \in Call |-> "idle"]
    /\ found = [c \in Call |-> NoUUID]
    /\ code = [c \in Call |-> "none"]
    /\ job = [c \in Call |-> [state |-> "none", uuid |-> NoUUID]]
    /\ buckets \in SUBSET [uuid : Prior, name : Name, size : Size]
    /\ \A a, b \in buckets : a.uuid = b.uuid \/ a.name = b.name => a = b
    /\ faults = 0

\* A step of the driver on behalf of call c, once the call has been received.
Handle(c) ==
    \/ BucketExists(c) \/ IsBucketEqual(c) \/ CreateBucket(c)
    \/ DeleteBucket(c) \/ deleteBucketAsync(c) \/ waitForJob(c)

\* A step of the SVM on the job of call c.
RunJob(c) == RunCreateJob(c) \/ RunDeleteJob(c)

Step(c) ==
    \/ DriverCreateBucket(c) \/ DriverDeleteBucket(c)
    \/ Handle(c) \/ PollTimeout(c) \/ Cancel(c) \/ RunJob(c)

Next == \E c \in Call : Step(c)

Spec == Init /\ [][Next]_vars

\* All that the code itself bounds is waitForJob: its polls run under a context
\* with a timeout.  Other requests use an http.Client without a timeout and may
\* hang until the caller gives up, and the SVM may never run a job, so nothing
\* is assumed of either.
FairSpec == Spec /\ \A c \in Call : WF_vars(waitForJob(c) \/ PollTimeout(c))

----------------------------------------------------------------------------
(* Correctness.                                                            *)

\* Every variable holds values of its type.
TypeOK ==
    /\ config \in Configs
    /\ req \in [Call -> Request]
    /\ pc \in [Call -> PC]
    /\ found \in [Call -> UUID \union {NoUUID}]
    /\ code \in [Call -> Code]
    /\ job \in [Call -> [state : JobState, uuid : UUID \union {NoUUID}]]
    /\ buckets \in SUBSET Bucket
    /\ faults \in 0..MaxFaults

Answered(c, op, k) == req[c].op = op /\ pc[c] = "done" /\ code[c] = k

\* Some delete call for the bucket name n had its job done by the SVM.
DeleteRan(n) ==
    \E d \in Call : req[d].op = "delete" /\ BucketName(d) = n /\ job[d].state = "success"

\* A job that the SVM may still run belongs to a call that is waiting for it or
\* that ended with an error which leaves its outcome open: no success, and no
\* terminal refusal but the one a failed poll can cause, leaves a create or
\* delete pending.
NoJobUnaccounted ==
    \A c \in Call : job[c].state = "queued" =>
        pc[c] = "wait" \/ (pc[c] = "done" /\ code[c] \in Uncertain)

\* A create refused with InvalidArgument or AlreadyExists, with ResourceExhausted
\* because the POST or the job was refused for the quota (the codes the sidecar
\* does not retry), with Unavailable or with an injected error has no bucket in
\* the SVM and never will have one.  ResourceExhausted after a failed poll is the
\* exception that makes ExhaustedMeansRejected false.
RefusalLeavesNothing ==
    \A c \in Call : code[c] \in Harmless =>
        /\ job[c].state \notin {"queued", "success"}
        /\ \A b \in buckets : b.uuid # c

\* "ErrQuotaExhausted indicates the object store has exhausted its bucket quota
\* and rejected the request": a create answered ResourceExhausted has no bucket
\* and no job that may still make one.  The code does not keep this promise:
\* CreateBucket passes the error of a failed poll on as it is.
ExhaustedMeansRejected ==
    \A c \in Call : code[c] \in Exhausted =>
        /\ job[c].state \notin {"queued", "success"}
        /\ \A b \in buckets : b.uuid # c

\* After DriverCreateBucket answered OK (created or reused) the bucket is there
\* until a delete call for the same bucket removes it, however creates, retries,
\* late jobs and deletes interleave.
OkCreateBacked ==
    \A c \in Call : Answered(c, "create", "OK") =>
        listBucketsByName(BucketName(c)) # {} \/ DeleteRan(BucketName(c))

\* After DriverDeleteBucket answered OK the bucket its lookup found is gone for
\* good.
OkDeleteGone ==
    \A c \in Call : Answered(c, "delete", "OK") =>
        \A b \in buckets : b.uuid # found[c]

\* A bucket disappears only by the job of a delete call that found this very
\* bucket under the name it was asked to delete: a bucket made under the same
\* name after the lookup is not touched.
DeletesOnlyWhatItFound ==
    [][\A b \in buckets \ buckets' : \E c \in Call :
          /\ req[c].op = "delete" /\ job[c].state = "queued"
          /\ found[c] = b.uuid /\ BucketName(c) = b.name]_vars

\* Two creates of one bucket that ask for different sizes are not both answered
\* OK, unless the bucket was deleted meanwhile ("instead of silently reusing the
\* existing bucket").  Holds when overrides.bucketID is set; in the default
\* configuration getName's flag makes DriverCreateBucket skip the comparison.
NoConflictingSizes ==
    \A c, d \in Call :
        /\ Answered(c, "create", "OK") /\ Answered(d, "create", "OK")
        /\ BucketName(c) = BucketName(d)
        /\ SizeOf(c) # 0 /\ SizeOf(d) # 0
        /\ ~DeleteRan(BucketName(c))
        => SizeOf(c) = SizeOf(d)

\* The bucket a create made has the size its parameter says: the digits of the
\* text stand together and the bucket has as many GiB as they say, a positive
\* number of bytes that int64 can hold.  No accepted text overflows, and no
\* suffix, sign or blank changes the number (parseBucketSize).
SizesAsRequested ==
    \A b \in buckets : b.uuid \in Call =>
        b.size \in 1..MaxInt64 /\ SizeWritten(req[b.uuid].size, b.size)

\* "codes.AlreadyExists: The bucket already exists but with different
\* parameters": when the answer is given such a bucket exists.
AlreadyExistsMeansDiffers ==
    [][\A c \in Call : code'[c] = "AlreadyExists" /\ code[c] = "none" =>
          \E b \in listBucketsByName(BucketName(c)) : b.size # SizeOf(c)]_vars

\* A call that waits for its job is answered, also when the SVM never runs it.
WaitAlwaysEnds == \A c \in Call : pc[c] = "wait" ~> pc[c] = "done"
====
