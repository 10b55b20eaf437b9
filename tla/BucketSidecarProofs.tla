--------------------------- MODULE BucketSidecarProofs ---------------------------
(***************************************************************************)
(* Proofs about BucketSidecar: the driver together with the sidecar, for   *)
(* any number of objects, calls, failures and given-up calls.              *)
(***************************************************************************)
EXTENDS BucketSidecar, BucketProvisionerProofs

----------------------------------------------------------------------------
(* The invariant of the driver that also holds when identities of settled  *)
(* calls are used again.                                                   *)

DriverInv == TypeInv /\ Accounting /\ Identity /\ DeleteDone /\ UniqueName

\* Every variable of the sidecar holds values of its type.
SidecarType ==
    /\ obj \in [Name -> ObjState]
    /\ want \in [Name -> RawSize]
    /\ cur \in [Name -> Call \union {NoCall}]
    /\ giveUps \in 0..MaxGiveUps

SidecarTypeInv == DriverInv /\ SidecarType

----------------------------------------------------------------------------
(* How the calls fit the objects.                                          *)

\* The configuration names no bucket.
NoName == config.override = NoOverride

\* A reconciler waits for a call about its own object, ...
CurFits == \A n \in Name : cur[n] # NoCall => pc[cur[n]] # "idle" /\ req[cur[n]].name = n

\* ... and a call in flight is waited for.
Awaited == \A c \in Call : InFlight(c) => cur[req[c].name] = c

\* A create asks for the size its object has, and a delete is sent only for an
\* object that has been deleted.
CallsFit ==
    \A c \in Call :
        /\ pc[c] = "idle" => req[c].op = "delete"
        /\ req[c].op = "create" => req[c].size = want[req[c].name]
        /\ req[c].op = "delete" /\ pc[c] # "idle" => obj[req[c].name] \in {"deleting", "gone"}

\* There is nothing to wait for when the object is gone.
GoneIsQuiet == \A n \in Name : obj[n] = "gone" => cur[n] = NoCall

CallsInv == NoName /\ CurFits /\ Awaited /\ CallsFit /\ GoneIsQuiet

----------------------------------------------------------------------------
(* Where buckets come from.                                                *)

\* A bucket was made by a call, as the call asked for.
MadeAsAsked ==
    \A b \in buckets : b.uuid \in Call /\ b.name = req[b.uuid].name /\ b.size = SizeOf(b.uuid)

\* There is a bucket of name n.
Exists(n) == \E b \in buckets : b.name = n

\* What the answer OK of a create rests on stays until the object is deleted.
CreateStands ==
    \A c \in Call :
        /\ req[c].op = "create" /\ obj[req[c].name] \notin {"deleting", "gone"}
        /\ pc[c] = "equal" \/ job[c].state = "success" \/ Answered(c, "create", "OK")
        => Exists(req[c].name)

ReadyExists == \A n \in Name : obj[n] = "ready" => Exists(n)

\* When the lookup of a delete has been answered, any other bucket of this name is
\* made by a create that was given up before.
LookupStands ==
    \A c \in Call :
        /\ req[c].op = "delete" /\ cur[req[c].name] = c
        /\ pc[c] \in {"delete", "wait"} \/ Answered(c, "delete", "OK")
        => \A b \in buckets : b.name = req[c].name => b.uuid = found[c] \/ code[b.uuid] \in Uncertain

BucketsInv ==
    MadeAsAsked /\ CreateStands /\ ReadyExists /\ LookupStands /\ OrphanOnlyFromGivenUpCreate

SidecarInv == SidecarTypeInv /\ CallsInv /\ BucketsInv

----------------------------------------------------------------------------
(* Types, and the invariant of the driver.                                 *)

\* A step of the whole is a step of a call, the reuse of an identity, or one of
\* the sidecar and its user alone.
LEMMA KindsOfSteps ==
  [SidecarNext]_allVars =>
     (\E c \in Call : Step(c)) \/ (\E c \in Call : Recycle(c)) \/ UNCHANGED vars
  BY DEF SidecarNext, allVars, Apply, Delete, Reconcile, Observe, Touch, Serve, Work, GiveUp,
     Step, vars

\* Every step of a call keeps the invariant of the driver.
LEMMA StepDriver ==
  ASSUME DriverInv, NEW c \in Call, Step(c) PROVE DriverInv'
  <1>1. TypeInv'
    BY StepType, StepJobs DEF DriverInv, TypeInv
  <1>2. Accounting' /\ Identity' /\ DeleteDone' /\ UniqueName'
    BY StepAccounting, StepIdentity, StepDeleteDone, StepUniqueName DEF DriverInv
  <1> QED BY <1>1, <1>2 DEF DriverInv

\* What using an identity again changes.
LEMMA RecycleFrame ==
  ASSUME TypeOK, NEW c \in Call, Recycle(c)
  PROVE  /\ UNCHANGED <<config, buckets, faults, sidecarVars>>
         /\ \A d \in Call \ {c} :
              /\ req'[d] = req[d] /\ pc'[d] = pc[d] /\ found'[d] = found[d]
              /\ code'[d] = code[d] /\ job'[d] = job[d]
         /\ req'[c] = NoRequest /\ pc'[c] = "idle" /\ found'[c] = NoUUID /\ code'[c] = "none"
         /\ job'[c].state = "none" /\ job'[c].uuid = NoUUID
         /\ NoRequest.op = "delete" /\ NoRequest \in Request
  <1>1. NoRequest.op = "delete" /\ NoRequest \in Request
    BY NoRequestType DEF NoRequest, DeleteRequest
  <1> QED BY <1>1 DEF Recycle, TypeOK

\* A settled identity can be used again: nothing refers to it any more.
LEMMA RecycleDriver ==
  ASSUME DriverInv, NEW c \in Call, Recycle(c) PROVE DriverInv'
  <1> USE RecycleFrame DEF DriverInv, TypeInv
  <1>1. TypeOK'
    BY DEF Recycle, TypeOK, PC, Code, JobState
  <1>2. NoJobYet' /\ CreateJob' /\ PcFitsOp'
    BY DEF NoJobYet, CreateJob, PcFitsOp, SizeOf
  <1>3. Accounting' /\ DeleteDone' /\ UniqueName'
    BY DEF Accounting, DeleteDone, Answered, UniqueName
  <1>4. (\A b \in buckets : b.uuid # c) /\ (\A d \in Call \ {c} : found[d] # c)
        /\ NoUUID \notin Call /\ \A b \in buckets : b.uuid # NoUUID
    BY UUIDAssumption DEF Recycle, TypeOK, Bucket, UUID
  <1>5. Identity'
    BY <1>4 DEF Identity, MadeByItsCall, UniqueUUID, FoundWasMade, FoundHasName, DeleteJob,
       RanMeansGone, BucketName
  <1> QED BY <1>1, <1>2, <1>3, <1>5

\* Every step of the whole keeps the types and the invariant of the driver.
LEMMA StepTypes ==
  ASSUME SidecarTypeInv, [SidecarNext]_allVars PROVE SidecarTypeInv'
  <1>1. DriverInv'
    <2>1. CASE UNCHANGED vars
      BY <2>1 DEF SidecarTypeInv, DriverInv, vars, TypeInv, TypeOK, NoJobYet, CreateJob, PcFitsOp,
         SizeOf, Accounting, Identity, MadeByItsCall, UniqueUUID, FoundWasMade, FoundHasName,
         DeleteJob, RanMeansGone, DeleteDone, Answered, BucketName, UniqueName
    <2> QED BY <2>1, KindsOfSteps, StepDriver, RecycleDriver DEF SidecarTypeInv
  <1>2. SidecarType'
    <2> USE DEF SidecarTypeInv, SidecarType, ObjState
    <2>1. ASSUME NEW n \in Name, Apply(n) \/ Delete(n) \/ Touch(n) PROVE SidecarType'
      BY <2>1 DEF Apply, Delete, Touch
    <2>2. ASSUME NEW n \in Name, Reconcile(n) PROVE SidecarType'
      BY <2>2 DEF Reconcile
    <2>3. ASSUME NEW n \in Name, Observe(n) PROVE SidecarType'
      BY <2>3 DEF Observe, Outcome
    <2>4. ASSUME NEW c \in Call, Serve(c) \/ Work(c) \/ Recycle(c) PROVE SidecarType'
      BY <2>4 DEF Serve, Work, Recycle, sidecarVars
    <2>5. ASSUME NEW c \in Call, GiveUp(c) PROVE SidecarType'
      BY <2>5, SidecarAssumption DEF GiveUp
    <2>6. CASE UNCHANGED allVars
      BY <2>6 DEF allVars, sidecarVars
    <2> QED BY <2>1, <2>2, <2>3, <2>4, <2>5, <2>6 DEF SidecarNext
  <1> QED BY <1>1, <1>2 DEF SidecarTypeInv

\* The types hold when the sidecar starts.
LEMMA InitTypes == SidecarInit => SidecarTypeInv
  <1> SUFFICES ASSUME SidecarInit PROVE SidecarTypeInv
    OBVIOUS
  <1>1. TypeInv
    BY NoRequestType, ConfigAssumption, FaultAssumption
    DEF SidecarInit, Init, TypeInv, TypeOK, NoJobYet, CreateJob, PcFitsOp, PC, Code, JobState, Bucket, UUID
  <1>2. Accounting /\ DeleteDone /\ UniqueName
    BY DEF SidecarInit, Init, Accounting, DeleteDone, Answered, UniqueName
  <1>3. Identity
    BY UUIDAssumption DEF SidecarInit, Init, Identity, MadeByItsCall, UniqueUUID, FoundWasMade,
       FoundHasName, DeleteJob, RanMeansGone, UUID
  <1>4. SidecarType
    BY SidecarAssumption DEF SidecarInit, SidecarType, ObjState
  <1> QED BY <1>1, <1>2, <1>3, <1>4 DEF SidecarTypeInv, DriverInv

----------------------------------------------------------------------------
(* Calls and objects.                                                      *)

\* The steps of the driver and of the SVM on a call that has been received.
Runs(c) == Handle(c) \/ RunJob(c) \/ Cancel(c) \/ PollTimeout(c)

\* A received call keeps its request, and its answer once it has one.
LEMMA RunsFrame ==
  ASSUME TypeInv, NEW c \in Call, Runs(c)
  PROVE  /\ Step(c) /\ req' = req /\ pc[c] # "idle" /\ pc'[c] # "idle"
         /\ pc[c] = "done" => pc'[c] = "done" /\ code'[c] = code[c]
  <1> USE DEF Runs, TypeInv, TypeOK, NoJobYet, Answer, Goto
  <1>1. Step(c)
    BY DEF Step
  <1>2. CASE BucketExists(c) \/ IsBucketEqual(c) \/ CreateBucket(c)
    BY <1>1, <1>2 DEF BucketExists, IsBucketEqual, CreateBucket, createBucketAsync
  <1>3. CASE DeleteBucket(c) \/ deleteBucketAsync(c) \/ waitForJob(c)
    BY <1>1, <1>3 DEF DeleteBucket, deleteBucketAsync, waitForJob
  <1>4. CASE RunJob(c)
    BY <1>1, <1>4 DEF RunJob, RunCreateJob, RunDeleteJob
  <1>5. CASE Cancel(c) \/ PollTimeout(c)
    BY <1>1, <1>5 DEF Cancel, PollTimeout, InFlight
  <1> QED BY <1>2, <1>3, <1>4, <1>5 DEF Handle

\* What sending a call changes.
LEMMA ReconcileFrame ==
  ASSUME TypeInv, Accounting, NEW n \in Name, Reconcile(n)
  PROVE  \E c \in Call :
           /\ Step(c) /\ cur[n] = NoCall /\ cur' = [cur EXCEPT ![n] = c]
           /\ UNCHANGED <<obj, want, giveUps, config, buckets, found, job>>
           /\ pc[c] = "idle" /\ pc'[c] \in {"exists", "lookup", "done"} /\ code'[c] # "OK"
           /\ req'[c].name = n
           /\ \/ req'[c].op = "create" /\ obj[n] = "wanted" /\ req'[c].size = want[n]
              \/ req'[c].op = "delete" /\ obj[n] = "deleting"
  <1>1. PICK c \in Call :
          /\ \/ /\ obj[n] = "wanted"
                /\ DriverCreateBucket(c)
                /\ req'[c].name = n /\ req'[c].size = want[n] /\ req'[c].lockingOK
             \/ obj[n] = "deleting" /\ DriverDeleteBucket(c) /\ req'[c].name = n
          /\ cur' = [cur EXCEPT ![n] = c]
    BY DEF Reconcile
  <1>2. Step(c)
    BY <1>1 DEF Step
  <1>3. cur[n] = NoCall /\ UNCHANGED <<obj, want, giveUps>>
    BY DEF Reconcile
  <1>4. CASE DriverCreateBucket(c) /\ obj[n] = "wanted" /\ req'[c].name = n /\ req'[c].size = want[n]
    <2>1. req'[c].op = "create" /\ pc[c] = "idle" /\ UNCHANGED <<config, buckets, found, job>>
      BY <1>4 DEF DriverCreateBucket, TypeInv, TypeOK
    <2>2. pc'[c] \in {"exists", "lookup", "done"} /\ code'[c] # "OK"
      BY <1>4, <2>1 DEF DriverCreateBucket, Answer, Goto, TypeInv, TypeOK, Accounting
    <2> QED BY <1>1, <1>2, <1>3, <1>4, <2>1, <2>2
  <1>5. CASE DriverDeleteBucket(c) /\ obj[n] = "deleting" /\ req'[c].name = n
    <2>1. req'[c].op = "delete" /\ pc[c] = "idle" /\ UNCHANGED <<config, buckets, found, job>>
      BY <1>5, DeleteRequestType DEF DriverDeleteBucket, TypeInv, TypeOK
    <2>2. pc'[c] \in {"exists", "lookup", "done"} /\ code'[c] # "OK"
      BY <1>5, <2>1 DEF DriverDeleteBucket, Answer, Goto, TypeInv, TypeOK, Accounting
    <2> QED BY <1>1, <1>2, <1>3, <1>5, <2>1, <2>2
  <1> QED BY <1>1, <1>4, <1>5

\* Every step keeps calls and objects in agreement.
LEMMA StepCalls ==
  ASSUME SidecarTypeInv, CallsInv, [SidecarNext]_allVars PROVE CallsInv'
  <1> USE SidecarAssumption DEF CallsInv, NoName, CurFits, Awaited, CallsFit, GoneIsQuiet, InFlight
  <1>0. TypeInv /\ Accounting /\ SidecarType /\ \A c \in Call : req[c].name \in Name
    BY DEF SidecarTypeInv, DriverInv, TypeInv, TypeOK, Request
  <1>1. ASSUME NEW n \in Name, Apply(n) \/ Delete(n) \/ Touch(n) PROVE CallsInv'
    <2>1. /\ UNCHANGED <<config, req, pc, want, cur>>
          /\ \A m \in Name : m # n => obj'[m] = obj[m]
          /\ obj'[n] # "gone"
          /\ obj[n] \in {"deleting", "gone"} => obj'[n] = "deleting"
      BY <1>0, <1>1 DEF Apply, Delete, Touch, vars, SidecarType
    <2> QED BY <1>0, <2>1
  <1>2. ASSUME NEW n \in Name, Reconcile(n) PROVE CallsInv'
    <2>1. PICK c \in Call :
           /\ Step(c) /\ cur[n] = NoCall /\ cur' = [cur EXCEPT ![n] = c]
           /\ UNCHANGED <<obj, want, giveUps, config, buckets, found, job>>
           /\ pc[c] = "idle" /\ pc'[c] \in {"exists", "lookup", "done"} /\ code'[c] # "OK"
           /\ req'[c].name = n
           /\ \/ req'[c].op = "create" /\ obj[n] = "wanted" /\ req'[c].size = want[n]
              \/ req'[c].op = "delete" /\ obj[n] = "deleting"
      BY <1>0, <1>2, ReconcileFrame
    <2>2. \A d \in Call \ {c} : req'[d] = req[d] /\ pc'[d] = pc[d]
      BY <1>0, <2>1, StepFrame DEF TypeInv
    <2>3. cur'[n] = c /\ \A m \in Name : m # n => cur'[m] = cur[m]
      BY <1>0, <2>1 DEF SidecarType
    <2>4. CurFits'
      <3> SUFFICES ASSUME NEW m \in Name, cur'[m] # NoCall
                   PROVE  pc'[cur'[m]] # "idle" /\ req'[cur'[m]].name = m
        OBVIOUS
      <3>1. CASE m = n
        BY <2>1, <2>3, <3>1
      <3>2. CASE m # n
        <4>1. cur'[m] = cur[m] /\ cur[m] \in Call /\ cur[m] # c
          BY <1>0, <2>1, <2>3, <3>2 DEF SidecarType
        <4> QED BY <2>2, <4>1
      <3> QED BY <3>1, <3>2
    <2>5. Awaited'
      <3> SUFFICES ASSUME NEW d \in Call, InFlight(d)' PROVE cur'[req'[d].name] = d
        OBVIOUS
      <3>1. CASE d = c
        BY <2>1, <2>3, <3>1
      <3>2. CASE d # c
        <4>1. cur[req[d].name] = d /\ req'[d] = req[d]
          BY <2>2, <3>2
        <4>2. req[d].name # n
          BY <2>1, <4>1
        <4> QED BY <1>0, <2>3, <4>1, <4>2
      <3> QED BY <3>1, <3>2
    <2>6. CallsFit'
      BY <2>1, <2>2
    <2>7. GoneIsQuiet' /\ NoName'
      BY <2>1, <2>3
    <2> QED BY <2>4, <2>5, <2>6, <2>7
  <1>3. ASSUME NEW n \in Name, Observe(n) PROVE CallsInv'
    <2>1. /\ UNCHANGED <<config, req, pc, want>> /\ pc[cur[n]] = "done"
          /\ cur'[n] = NoCall
          /\ \A m \in Name : m # n => obj'[m] = obj[m] /\ cur'[m] = cur[m]
          /\ obj[n] \in {"deleting", "gone"} => obj'[n] \in {"deleting", "gone"}
      BY <1>0, <1>3 DEF Observe, Outcome, vars, SidecarType
    <2> QED BY <1>0, <2>1
  <1>4. ASSUME NEW c \in Call, Serve(c) \/ Work(c) \/ GiveUp(c) PROVE CallsInv'
    <2>1. Runs(c) /\ UNCHANGED <<obj, want, cur>>
      BY <1>4 DEF Serve, Work, GiveUp, Runs, sidecarVars
    <2>2. /\ config' = config /\ req' = req /\ pc[c] # "idle" /\ pc'[c] # "idle"
          /\ pc[c] = "done" => pc'[c] = "done"
          /\ \A d \in Call \ {c} : pc'[d] = pc[d]
      BY <1>0, <2>1, RunsFrame, StepFrame DEF TypeInv
    <2>3. CurFits'
      BY <1>0, <2>1, <2>2 DEF SidecarType
    <2> QED BY <2>1, <2>2, <2>3
  <1>5. ASSUME NEW c \in Call, Recycle(c) PROVE CallsInv'
    <2>1. \A n \in Name : cur[n] # c
      BY <1>5 DEF Recycle
    <2>2. CurFits'
      BY <1>0, <1>5, <2>1, RecycleFrame DEF SidecarType, TypeInv, sidecarVars
    <2>3. Awaited' /\ CallsFit' /\ GoneIsQuiet' /\ NoName'
      BY <1>0, <1>5, RecycleFrame DEF TypeInv, sidecarVars
    <2> QED BY <2>2, <2>3
  <1>6. CASE UNCHANGED allVars
    BY <1>6 DEF allVars, vars, sidecarVars
  <1> QED BY <1>1, <1>2, <1>3, <1>4, <1>5, <1>6 DEF SidecarNext

----------------------------------------------------------------------------
(* Buckets.                                                                *)

\* How a step of call c changes the buckets: its create job adds one under a free
\* name, its delete job removes the one it found.
Adds(c) ==
    /\ req[c].op = "create" /\ job[c].state = "queued" /\ job'[c].state = "success"
    /\ UNCHANGED <<req, pc, code, found>>
    /\ \E new \in Bucket : /\ new.uuid = c /\ new.name = req[c].name /\ new.size = SizeOf(c)
                           /\ buckets' = buckets \union {new}

Removes(c) ==
    /\ req[c].op = "delete" /\ job[c].state = "queued" /\ UNCHANGED <<req, pc, code, found>>
    /\ buckets' = {b \in buckets : b.uuid # found[c]}

\* There is no other way.
LEMMA BucketChange ==
  ASSUME DriverInv, NoName, NEW c \in Call, Step(c)
  PROVE  buckets' = buckets \/ Adds(c) \/ Removes(c)
  <1> USE DEF DriverInv, TypeInv
  <1>1. CASE RunCreateJob(c)
    <2> DEFINE new == [uuid |-> job[c].uuid, name |-> BucketName(c), size |-> SizeOf(c)]
    <2>1. SUFFICES ASSUME buckets' # buckets PROVE Adds(c)
      OBVIOUS
    <2>2. Finish(c, "success") /\ buckets' = buckets \union {new}
      BY <1>1, <2>1, Zenon DEF RunCreateJob
    <2>3. job[c].state = "queued" /\ req[c].op = "create" /\ UNCHANGED <<req, pc, code, found>>
      BY <1>1 DEF RunCreateJob
    <2>4. job'[c].state = "success"
      BY <2>2 DEF Finish, TypeOK
    <2>5. job[c].uuid = c /\ BucketName(c) = req[c].name /\ SizeOf(c) # 0
      BY <2>3 DEF CreateJob, BucketName, NoName
    <2>6. new \in Bucket /\ new.uuid = c /\ new.name = req[c].name /\ new.size = SizeOf(c)
      BY <2>5, BucketNameType, SizeOfType DEF Bucket, UUID
    <2> HIDE DEF new
    <2> QED BY <2>2, <2>3, <2>4, <2>6 DEF Adds
  <1>2. CASE RunDeleteJob(c)
    <2>1. job[c].uuid = found[c]
      BY <1>2 DEF RunDeleteJob, Identity, DeleteJob
    <2> QED BY <1>2, <2>1 DEF RunDeleteJob, Removes
  <1>3. CASE ~RunCreateJob(c) /\ ~RunDeleteJob(c)
    BY <1>3 DEF Step, Handle, RunJob, DriverCreateBucket, BucketExists, IsBucketEqual,
       CreateBucket, DriverDeleteBucket, DeleteBucket, deleteBucketAsync, waitForJob,
       PollTimeout, Cancel
  <1> QED BY <1>1, <1>2, <1>3

\* A bucket is not taken away before its object is deleted.
LEMMA ExistsStays ==
  ASSUME DriverInv, CallsInv, NEW c \in Call, Step(c), NEW n \in Name, Exists(n),
         obj[n] \notin {"deleting", "gone"}
  PROVE  Exists(n)'
  <1>1. PICK b \in buckets : b.name = n
    BY DEF Exists
  <1>2. CASE Removes(c) /\ b.uuid = found[c]
    <2>1. req[c].name = n /\ req[c].op = "delete" /\ pc[c] # "idle"
      BY <1>1, <1>2 DEF Removes, DriverInv, TypeInv, NoJobYet, Identity, FoundHasName, BucketName,
         CallsInv, NoName
    <2> QED BY <2>1 DEF CallsInv, CallsFit
  <1>3. CASE ~(Removes(c) /\ b.uuid = found[c])
    <2>1. b \in buckets'
      BY <1>3, BucketChange DEF Adds, Removes, CallsInv
    <2> QED BY <1>1, <2>1 DEF Exists
  <1> QED BY <1>2, <1>3

\* Every step keeps buckets as their calls asked for them.
LEMMA StepMadeAsAsked ==
  ASSUME SidecarTypeInv, CallsInv, MadeAsAsked, [SidecarNext]_allVars PROVE MadeAsAsked'
  <1>0. DriverInv /\ NoName /\ TypeInv /\ TypeOK
    BY DEF SidecarTypeInv, DriverInv, TypeInv, CallsInv
  <1>1. ASSUME NEW c \in Call, Step(c) PROVE MadeAsAsked'
    <2> SUFFICES ASSUME NEW b \in buckets'
                 PROVE  b.uuid \in Call /\ b.name = req'[b.uuid].name /\ b.size = SizeOf(b.uuid)'
      BY DEF MadeAsAsked
    <2>1. CASE b \in buckets
      <3>1. b.uuid \in Call /\ job[b.uuid].state = "success"
        BY <1>0, <2>1 DEF MadeAsAsked, DriverInv, Identity, MadeByItsCall
      <3>2. req'[b.uuid] = req[b.uuid]
        BY <1>0, <1>1, <3>1, SuccessStays
      <3> QED BY <2>1, <3>2 DEF MadeAsAsked, SizeOf
    <2>2. CASE b \notin buckets
      BY <1>0, <1>1, <2>2, BucketChange DEF Adds, Removes, SizeOf
    <2> QED BY <2>1, <2>2
  <1>2. ASSUME NEW c \in Call, Recycle(c) PROVE MadeAsAsked'
    <2>1. buckets' = buckets /\ \A b \in buckets : b.uuid # c
      BY <1>2 DEF Recycle
    <2>2. \A d \in Call \ {c} : req'[d] = req[d]
      BY <1>0, <1>2, RecycleFrame
    <2> QED BY <2>1, <2>2 DEF MadeAsAsked, SizeOf
  <1>3. CASE UNCHANGED vars
    BY <1>3 DEF vars, MadeAsAsked, SizeOf
  <1> QED BY <1>1, <1>2, <1>3, KindsOfSteps

\* What the answer OK of a create rests on.
Reason(c) == pc[c] = "equal" \/ job[c].state = "success" \/ Answered(c, "create", "OK")

\* A create gets a reason only when the bucket is there.
LEMMA CreateReason ==
  ASSUME DriverInv, NoName, NEW c \in Call, Runs(c), req[c].op = "create", Reason(c)'
  PROVE  Reason(c) \/ Exists(req[c].name) \/ Exists(req[c].name)'
  <1> USE DEF DriverInv, TypeInv, TypeOK, PcFitsOp, Reason, Answered, Answer, Goto
  <1>0. req' = req /\ BucketName(c) = req[c].name
    BY RunsFrame DEF NoName, BucketName
  <1>1. CASE BucketExists(c)
    BY <1>0, <1>1 DEF BucketExists, listBucketsByName, Exists, Accounting
  <1>2. CASE IsBucketEqual(c)
    BY <1>2 DEF IsBucketEqual
  <1>3. CASE CreateBucket(c)
    BY <1>0, <1>3 DEF CreateBucket, createBucketAsync, SubmitCreate, Accounting
  <1>4. CASE waitForJob(c)
    BY <1>0, <1>4 DEF waitForJob, ErrorCode, Accounting
  <1>5. CASE RunCreateJob(c)
    <2>1. Step(c) /\ pc' = pc /\ code' = code
      BY <1>5, RunsFrame DEF RunCreateJob
    <2> DEFINE new == [uuid |-> job[c].uuid, name |-> BucketName(c), size |-> SizeOf(c)]
    <2>2. (\E s \in {"failure", "quota"} : Finish(c, s)) \/ buckets' = buckets \union {new}
      BY <1>5, Zenon DEF RunCreateJob
    <2>3. new.name = req[c].name
      BY <1>0
    <2> HIDE DEF new
    <2>4. CASE \E s \in {"failure", "quota"} : Finish(c, s)
      <3>1. job'[c].state # "success"
        BY <2>4 DEF Finish
      <3> QED BY <1>0, <2>1, <3>1
    <2>5. CASE buckets' = buckets \union {new}
      BY <1>0, <2>3, <2>5 DEF Exists
    <2> QED BY <2>2, <2>4, <2>5
  <1>6. CASE Cancel(c) \/ PollTimeout(c)
    BY <1>0, <1>6 DEF Cancel, PollTimeout, SubmitCreate, SubmitDelete, ErrorCode
  <1>7. CASE DeleteBucket(c) \/ deleteBucketAsync(c) \/ RunDeleteJob(c)
    BY <1>7 DEF DeleteBucket, deleteBucketAsync, RunDeleteJob
  <1> QED BY <1>1, <1>2, <1>3, <1>4, <1>5, <1>6, <1>7 DEF Runs, Handle, RunJob

\* Every step keeps what the answer OK of a create rests on, and the bucket of a
\* ready object.
LEMMA StepCreateStands ==
  ASSUME SidecarTypeInv, CallsInv, CreateStands, ReadyExists, [SidecarNext]_allVars
  PROVE  CreateStands' /\ ReadyExists'
  <1>0. /\ DriverInv /\ NoName /\ TypeInv /\ TypeOK /\ Accounting /\ SidecarType
        /\ \A c \in Call : req[c].name \in Name
    BY DEF SidecarTypeInv, DriverInv, TypeInv, TypeOK, CallsInv, Request
  <1>1. ASSUME NEW n \in Name, Apply(n) \/ Delete(n) \/ Touch(n) \/ Observe(n)
        PROVE  CreateStands' /\ ReadyExists'
    <2>1. /\ UNCHANGED <<req, pc, job, code, buckets>>
          /\ \A m \in Name : m # n => obj'[m] = obj[m]
          /\ obj[n] \in {"deleting", "gone"} => obj'[n] \in {"deleting", "gone"}
      BY <1>0, <1>1 DEF Apply, Delete, Touch, Observe, Outcome, vars, SidecarType
    <2>2. CreateStands'
      BY <1>0, <2>1 DEF CreateStands, Answered, Exists
    <2>3. obj'[n] = "ready" => Exists(n)
      <3>1. CASE obj'[n] = "ready" /\ obj[n] # "ready"
        <4>1. /\ obj[n] = "wanted" /\ cur[n] # NoCall /\ pc[cur[n]] = "done"
              /\ req[cur[n]].op = "create" /\ code[cur[n]] = "OK"
          BY <1>0, <1>1, <3>1 DEF Apply, Delete, Touch, Observe, Outcome, SidecarType
        <4>2. cur[n] \in Call /\ req[cur[n]].name = n
          BY <1>0, <4>1 DEF SidecarType, CallsInv, CurFits
        <4> QED BY <4>1, <4>2 DEF CreateStands, Answered
      <3> QED BY <3>1 DEF ReadyExists
    <2> QED BY <2>1, <2>2, <2>3 DEF ReadyExists, Exists
  <1>2. ASSUME NEW c \in Call, Step(c), UNCHANGED <<obj, want>>,
               \A d \in Call : req'[d].op = "create" /\ Reason(d)' =>
                   /\ req'[d] = req[d]
                   /\ Reason(d) \/ Exists(req[d].name) \/ Exists(req[d].name)'
        PROVE  CreateStands' /\ ReadyExists'
    <2>1. \A n \in Name : Exists(n) /\ obj[n] \notin {"deleting", "gone"} => Exists(n)'
      BY <1>0, <1>2, ExistsStays
    <2>2. ReadyExists'
      BY <1>2, <2>1 DEF ReadyExists
    <2>3. CreateStands'
      <3> SUFFICES ASSUME NEW d \in Call, req'[d].op = "create", Reason(d)',
                          obj'[req'[d].name] \notin {"deleting", "gone"}
                   PROVE  Exists(req[d].name)'
        BY DEF CreateStands, Reason
      <3>1. /\ req'[d] = req[d] /\ req[d].name \in Name /\ obj[req[d].name] \notin {"deleting", "gone"}
            /\ Exists(req[d].name) \/ Exists(req[d].name)'
        BY <1>0, <1>2 DEF CreateStands, Reason
      <3>2. Exists(req[d].name) => Exists(req[d].name)'
        <4>1. PICK n \in Name : n = req[d].name
          BY <3>1
        <4> QED BY <2>1, <3>1, <4>1 DEF Exists
      <3> QED BY <3>1, <3>2
    <2> QED BY <2>2, <2>3
  <1>3. ASSUME NEW n \in Name, Reconcile(n) PROVE CreateStands' /\ ReadyExists'
    <2>1. PICK c \in Call :
           /\ Step(c) /\ UNCHANGED <<obj, want, job>> /\ pc[c] = "idle"
           /\ pc'[c] \in {"exists", "lookup", "done"} /\ code'[c] # "OK"
      BY <1>0, <1>3, ReconcileFrame
    <2>2. ~Reason(c)'
      BY <1>0, <2>1 DEF Reason, Answered, TypeInv, NoJobYet
    <2>3. \A d \in Call \ {c} : /\ req'[d] = req[d] /\ pc'[d] = pc[d] /\ code'[d] = code[d]
                                /\ job'[d] = job[d]
      BY <1>0, <2>1, StepFrame
    <2>4. \A d \in Call : req'[d].op = "create" /\ Reason(d)' => req'[d] = req[d] /\ Reason(d)
      BY <2>2, <2>3 DEF Reason, Answered
    <2> QED BY <1>2, <2>1, <2>4
  <1>4. ASSUME NEW c \in Call, Serve(c) \/ Work(c) \/ GiveUp(c) PROVE CreateStands' /\ ReadyExists'
    <2>1. Runs(c) /\ UNCHANGED <<obj, want, cur>>
      BY <1>4 DEF Serve, Work, GiveUp, Runs, sidecarVars
    <2>2. Step(c) /\ req' = req
      BY <1>0, <2>1, RunsFrame
    <2>3. ASSUME NEW d \in Call, req'[d].op = "create", Reason(d)'
          PROVE  Reason(d) \/ Exists(req[d].name) \/ Exists(req[d].name)'
      <3>1. CASE d = c
        BY <1>0, <2>1, <2>2, <2>3, <3>1, CreateReason
      <3>2. CASE d # c
        BY <1>0, <2>2, <2>3, <3>2, StepFrame DEF Reason, Answered
      <3> QED BY <3>1, <3>2
    <2> QED BY <1>2, <2>1, <2>2, <2>3
  <1>5. ASSUME NEW c \in Call, Recycle(c) PROVE CreateStands' /\ ReadyExists'
    <2>1. obj' = obj /\ buckets' = buckets
      BY <1>0, <1>5, RecycleFrame DEF sidecarVars
    <2> QED BY <1>0, <1>5, <2>1, RecycleFrame DEF CreateStands, ReadyExists, Answered, Exists
  <1>6. CASE UNCHANGED allVars
    BY <1>6 DEF allVars, vars, sidecarVars, CreateStands, ReadyExists, Answered, Exists
  <1> QED BY <1>1, <1>3, <1>4, <1>5, <1>6 DEF SidecarNext

\* The lookup of a delete has been answered, and the call has not failed since.
Looked(c) == pc[c] \in {"delete", "wait"} \/ Answered(c, "delete", "OK")

\* When the lookup is answered, there is no bucket of this name but the one it found.
LEMMA LookupReason ==
  ASSUME DriverInv, NoName, NEW c \in Call, Runs(c), req[c].op = "delete", Looked(c)'
  PROVE  \/ Looked(c) /\ found'[c] = found[c]
         \/ buckets' = buckets /\ \A b \in buckets : b.name = req[c].name => b.uuid = found'[c]
  <1> USE DEF DriverInv, TypeInv, TypeOK, PcFitsOp, Looked, Answered, Answer, Goto
  <1>0. req' = req /\ BucketName(c) = req[c].name
    BY RunsFrame DEF NoName, BucketName
  <1>1. CASE DeleteBucket(c)
    <2>1. buckets' = buckets
      BY <1>1 DEF DeleteBucket
    <2>2. CASE listBucketsByName(BucketName(c)) = {}
      BY <1>0, <2>1, <2>2 DEF listBucketsByName
    <2>3. CASE listBucketsByName(BucketName(c)) # {} /\ found' # found
      <3>1. PICK b \in listBucketsByName(BucketName(c)) : found'[c] = b.uuid
        BY <1>1, <2>3 DEF DeleteBucket
      <3> QED BY <1>0, <2>1, <3>1 DEF listBucketsByName, UniqueName
    <2>4. CASE listBucketsByName(BucketName(c)) # {} /\ found' = found
      <3>1. \/ Answer(c, "Internal")
            \/ \E b \in listBucketsByName(BucketName(c)) : found' = [found EXCEPT ![c] = b.uuid]
        BY <1>1, <2>4 DEF DeleteBucket
      <3>2. CASE \E b \in listBucketsByName(BucketName(c)) : found' = [found EXCEPT ![c] = b.uuid]
        <4>1. PICK b \in listBucketsByName(BucketName(c)) : found'[c] = b.uuid
          BY <3>2
        <4> QED BY <1>0, <2>1, <4>1 DEF listBucketsByName, UniqueName
      <3>3. CASE Answer(c, "Internal")
        BY <3>3
      <3> QED BY <3>1, <3>2, <3>3
    <2> QED BY <2>2, <2>3, <2>4
  <1>2. CASE deleteBucketAsync(c)
    BY <1>2 DEF deleteBucketAsync
  <1>3. CASE waitForJob(c)
    BY <1>3 DEF waitForJob
  <1>4. CASE RunDeleteJob(c)
    BY <1>0, <1>4 DEF RunDeleteJob
  <1>5. CASE Cancel(c) \/ PollTimeout(c)
    BY <1>0, <1>5 DEF Cancel, PollTimeout, ErrorCode
  <1>6. CASE BucketExists(c) \/ IsBucketEqual(c) \/ CreateBucket(c) \/ RunCreateJob(c)
    BY <1>6 DEF BucketExists, IsBucketEqual, CreateBucket, RunCreateJob
  <1> QED BY <1>1, <1>2, <1>3, <1>4, <1>5, <1>6 DEF Runs, Handle, RunJob

\* A call that was given up stays given up.
LEMMA UncertainStays ==
  ASSUME DriverInv, NEW c \in Call, Runs(c), NEW d \in Call, code[d] \in Uncertain
  PROVE  code'[d] \in Uncertain
  <1>1. TypeInv /\ TypeOK
    BY DEF DriverInv, TypeInv
  <1>2. CASE d # c
    BY <1>1, <1>2, RunsFrame, StepFrame
  <1>3. CASE d = c
    <2>1. pc[c] = "done"
      BY <1>3 DEF DriverInv, Accounting, Uncertain
    <2> QED BY <1>1, <1>3, <2>1, RunsFrame
  <1> QED BY <1>2, <1>3

\* A bucket that is made when nobody waits for its create is one of a create that
\* was given up.
LEMMA UnawaitedIsGivenUp ==
  ASSUME DriverInv, CallsInv, NEW c \in Call, Adds(c), cur[req[c].name] # c
  PROVE  code'[c] \in Uncertain
  BY DEF DriverInv, Accounting, CallsInv, Awaited, InFlight, Adds

\* Every step keeps what the answer OK of a delete rests on.
LEMMA StepLookupStands ==
  ASSUME SidecarTypeInv, CallsInv, MadeAsAsked, LookupStands, [SidecarNext]_allVars
  PROVE  LookupStands'
  <1>0. /\ DriverInv /\ NoName /\ TypeInv /\ TypeOK /\ Accounting /\ SidecarType
        /\ \A c \in Call : req[c].name \in Name
        /\ NoCall \notin Call
    BY SidecarAssumption
    DEF SidecarTypeInv, DriverInv, TypeInv, TypeOK, CallsInv, Request
  <1>1. ASSUME NEW n \in Name, Apply(n) \/ Delete(n) \/ Touch(n) \/ Observe(n)
        PROVE  LookupStands'
    <2>1. /\ UNCHANGED <<req, pc, job, code, found, buckets>>
          /\ \A m \in Name : cur'[m] = cur[m] \/ cur'[m] = NoCall
      BY <1>0, <1>1 DEF Apply, Delete, Touch, Observe, vars, SidecarType
    <2> QED BY <1>0, <2>1 DEF LookupStands, Answered
  <1>2. ASSUME NEW n \in Name, Reconcile(n) PROVE LookupStands'
    <2>1. PICK c \in Call :
           /\ Step(c) /\ cur' = [cur EXCEPT ![n] = c] /\ UNCHANGED <<buckets, found, job>>
           /\ pc[c] = "idle" /\ pc'[c] \in {"exists", "lookup", "done"} /\ code'[c] # "OK"
      BY <1>0, <1>2, ReconcileFrame
    <2>2. \A d \in Call \ {c} : req'[d] = req[d] /\ pc'[d] = pc[d] /\ code'[d] = code[d]
      BY <1>0, <2>1, StepFrame
    <2>3. ~Looked(c)'
      BY <2>1 DEF Looked, Answered
    <2>4. \A b \in buckets : b.uuid \in Call /\ b.uuid # c
      BY <1>0, <2>1 DEF MadeAsAsked, DriverInv, Identity, MadeByItsCall, TypeInv, NoJobYet
    <2>5. \A m \in Name : cur'[m] = cur[m] \/ cur'[m] = c
      BY <1>0, <2>1 DEF SidecarType
    <2> SUFFICES ASSUME NEW d \in Call, req'[d].op = "delete", cur'[req'[d].name] = d, Looked(d)',
                        NEW b \in buckets', b.name = req'[d].name
                 PROVE  b.uuid = found'[d] \/ code'[b.uuid] \in Uncertain
      BY DEF LookupStands, Looked
    <2>6. d # c /\ req'[d] = req[d] /\ Looked(d) /\ cur[req[d].name] = d
      BY <1>0, <2>2, <2>3, <2>5 DEF Looked, Answered
    <2>7. b \in buckets /\ (b.uuid = found[d] \/ code[b.uuid] \in Uncertain)
      BY <2>1, <2>6 DEF LookupStands, Looked
    <2> QED BY <2>1, <2>2, <2>4, <2>7
  <1>3. ASSUME NEW c \in Call, Serve(c) \/ Work(c) \/ GiveUp(c) PROVE LookupStands'
    <2>1. Runs(c) /\ cur' = cur
      BY <1>3 DEF Serve, Work, GiveUp, Runs, sidecarVars
    <2>2. Step(c) /\ req' = req
      BY <1>0, <2>1, RunsFrame
    <2>3. \A d \in Call \ {c} : pc'[d] = pc[d] /\ found'[d] = found[d] /\ code'[d] = code[d]
      BY <1>0, <2>2, StepFrame
    <2> SUFFICES ASSUME NEW d \in Call, req[d].op = "delete", cur[req[d].name] = d, Looked(d)',
                        NEW b \in buckets', b.name = req[d].name
                 PROVE  b.uuid = found'[d] \/ code'[b.uuid] \in Uncertain
      BY <2>1, <2>2 DEF LookupStands, Looked
    <2>4. CASE b \notin buckets
      <3>1. Adds(c) /\ b.uuid = c /\ b.name = req[c].name
        BY <1>0, <2>2, <2>4, BucketChange DEF Removes, Adds
      <3>2. cur[req[c].name] # c
        BY <3>1 DEF Adds
      <3> QED BY <1>0, <3>1, <3>2, UnawaitedIsGivenUp
    <2>5. CASE b \in buckets /\ Looked(d) /\ found'[d] = found[d]
      <3>1. b.uuid \in Call /\ (b.uuid = found[d] \/ code[b.uuid] \in Uncertain)
        BY <2>5 DEF LookupStands, Looked, MadeAsAsked
      <3> QED BY <1>0, <2>1, <2>5, <3>1, UncertainStays
    <2>6. CASE b \in buckets /\ ~(Looked(d) /\ found'[d] = found[d])
      <3>1. d = c
        BY <2>2, <2>3, <2>6 DEF Looked, Answered
      <3> QED BY <1>0, <2>1, <2>6, <3>1, LookupReason
    <2> QED BY <2>4, <2>5, <2>6
  <1>4. ASSUME NEW c \in Call, Recycle(c) PROVE LookupStands'
    <2>1. /\ UNCHANGED <<buckets, cur>> /\ \A b \in buckets : b.uuid # c
          /\ \A n \in Name : cur[n] # c
      BY <1>4 DEF Recycle, sidecarVars
    <2>2. NoRequest.name \in Name
      BY NoRequestType DEF Request
    <2>3. req'[c].name \in Name
      BY <1>0, <1>4, <2>2, RecycleFrame
    <2> SUFFICES ASSUME NEW d \in Call, req'[d].op = "delete", cur'[req'[d].name] = d, Looked(d)',
                        NEW b \in buckets', b.name = req'[d].name
                 PROVE  b.uuid = found'[d] \/ code'[b.uuid] \in Uncertain
      BY DEF LookupStands, Looked
    <2>4. d # c
      BY <2>1, <2>3
    <2>5. /\ req'[d] = req[d] /\ pc'[d] = pc[d] /\ found'[d] = found[d] /\ code'[d] = code[d]
          /\ b \in buckets /\ b.uuid \in Call \ {c} /\ code'[b.uuid] = code[b.uuid]
      BY <1>0, <1>4, <2>1, <2>4, RecycleFrame DEF MadeAsAsked
    <2> QED BY <2>1, <2>5 DEF LookupStands, Looked, Answered
  <1>5. CASE UNCHANGED allVars
    BY <1>5 DEF allVars, vars, sidecarVars, LookupStands, Answered
  <1> QED BY <1>1, <1>2, <1>3, <1>4, <1>5 DEF SidecarNext

\* Every step keeps the buckets of gone objects those of given-up creates.
LEMMA StepOrphans ==
  ASSUME SidecarTypeInv, CallsInv, MadeAsAsked, LookupStands, OrphanOnlyFromGivenUpCreate,
         [SidecarNext]_allVars
  PROVE  OrphanOnlyFromGivenUpCreate'
  <1>0. /\ DriverInv /\ NoName /\ TypeInv /\ TypeOK /\ Accounting /\ SidecarType
        /\ \A c \in Call : req[c].name \in Name
        /\ \A b \in buckets : b.uuid \in Call /\ b.name \in Name
        /\ NoCall \notin Call
    BY SidecarAssumption
    DEF SidecarTypeInv, DriverInv, TypeInv, TypeOK, CallsInv, Request, MadeAsAsked
  <1>1. ASSUME NEW n \in Name, Apply(n) \/ Delete(n) \/ Touch(n) PROVE OrphanOnlyFromGivenUpCreate'
    <2>1. UNCHANGED <<code, buckets>> /\ \A m \in Name : obj'[m] = "gone" => obj[m] = "gone"
      BY <1>0, <1>1 DEF Apply, Delete, Touch, vars, SidecarType
    <2> QED BY <1>0, <2>1 DEF OrphanOnlyFromGivenUpCreate
  <1>2. ASSUME NEW n \in Name, Observe(n) PROVE OrphanOnlyFromGivenUpCreate'
    <2>1. UNCHANGED <<code, buckets>> /\ \A m \in Name : m # n => obj'[m] = obj[m]
      BY <1>0, <1>2 DEF Observe, vars, SidecarType
    <2>2. SUFFICES ASSUME NEW b \in buckets, b.name = n, obj'[n] = "gone", obj[n] # "gone"
                   PROVE  code[b.uuid] \in Uncertain
      BY <1>0, <2>1 DEF OrphanOnlyFromGivenUpCreate
    <2>3. PICK c \in Call : c = cur[n]
      BY <1>0, <1>2 DEF Observe, SidecarType
    <2>4. Answered(c, "delete", "OK") /\ req[c].name = n
      BY <1>0, <1>2, <2>2, <2>3 DEF Observe, Outcome, SidecarType, Answered, CallsInv, CurFits
    <2>5. b.uuid = found[c] \/ code[b.uuid] \in Uncertain
      BY <2>2, <2>3, <2>4 DEF LookupStands, Answered
    <2>6. b.uuid # found[c]
      BY <1>0, <2>4, UUIDAssumption
      DEF DriverInv, DeleteDone, Identity, RanMeansGone, Answered, UUID
    <2> QED BY <2>5, <2>6
  <1>3. ASSUME NEW n \in Name, Reconcile(n) PROVE OrphanOnlyFromGivenUpCreate'
    <2>1. PICK c \in Call : Step(c) /\ UNCHANGED <<obj, buckets>> /\ pc[c] = "idle"
      BY <1>0, <1>3, ReconcileFrame
    <2>2. \A b \in buckets : b.uuid # c
      BY <1>0, <2>1 DEF DriverInv, Identity, MadeByItsCall, TypeInv, NoJobYet
    <2>3. \A b \in buckets : code'[b.uuid] = code[b.uuid]
      BY <1>0, <2>1, <2>2, StepFrame
    <2> QED BY <2>1, <2>3 DEF OrphanOnlyFromGivenUpCreate
  <1>4. ASSUME NEW c \in Call, Serve(c) \/ Work(c) \/ GiveUp(c) PROVE OrphanOnlyFromGivenUpCreate'
    <2>1. Runs(c) /\ UNCHANGED <<obj, cur>>
      BY <1>4 DEF Serve, Work, GiveUp, Runs, sidecarVars
    <2>2. Step(c)
      BY <1>0, <2>1, RunsFrame
    <2> SUFFICES ASSUME NEW b \in buckets', obj[b.name] = "gone" PROVE code'[b.uuid] \in Uncertain
      BY <2>1 DEF OrphanOnlyFromGivenUpCreate
    <2>3. CASE b \in buckets
      BY <1>0, <2>1, <2>3, UncertainStays DEF OrphanOnlyFromGivenUpCreate
    <2>4. CASE b \notin buckets
      <3>1. Adds(c) /\ b.uuid = c /\ b.name = req[c].name
        BY <1>0, <2>2, <2>4, BucketChange DEF Removes, Adds
      <3>2. cur[req[c].name] # c
        BY <1>0, <3>1 DEF CallsInv, GoneIsQuiet
      <3> QED BY <1>0, <3>1, <3>2, UnawaitedIsGivenUp
    <2> QED BY <2>3, <2>4
  <1>5. ASSUME NEW c \in Call, Recycle(c) PROVE OrphanOnlyFromGivenUpCreate'
    <2>1. UNCHANGED <<buckets, obj>> /\ \A b \in buckets : b.uuid # c
      BY <1>5 DEF Recycle, sidecarVars
    <2>2. \A b \in buckets : code'[b.uuid] = code[b.uuid]
      BY <1>0, <1>5, <2>1, RecycleFrame
    <2> QED BY <2>1, <2>2 DEF OrphanOnlyFromGivenUpCreate
  <1>6. CASE UNCHANGED allVars
    BY <1>6 DEF allVars, vars, sidecarVars, OrphanOnlyFromGivenUpCreate
  <1> QED BY <1>1, <1>2, <1>3, <1>4, <1>5, <1>6 DEF SidecarNext

----------------------------------------------------------------------------
(* The driver and the sidecar together.                                    *)

\* The objects' names are new to the SVM, and the configuration gives every object
\* the bucket of its own name.
FreshNames == config.override = NoOverride /\ buckets = {}

\* The invariant holds when the sidecar starts with fresh names.
LEMMA InitSidecar == SidecarInit /\ FreshNames => SidecarInv
  <1> SUFFICES ASSUME SidecarInit, FreshNames PROVE SidecarInv
    OBVIOUS
  <1>1. SidecarTypeInv
    BY InitTypes
  <1>2. NoRequest.op = "delete"
    BY DEF NoRequest, DeleteRequest
  <1>3. CallsInv
    BY <1>2 DEF SidecarInit, Init, FreshNames, CallsInv, NoName, CurFits, Awaited, InFlight, CallsFit,
       GoneIsQuiet
  <1>4. BucketsInv
    BY <1>2 DEF SidecarInit, Init, FreshNames, BucketsInv, MadeAsAsked, CreateStands, ReadyExists,
       LookupStands, Answered, OrphanOnlyFromGivenUpCreate
  <1> QED BY <1>1, <1>3, <1>4 DEF SidecarInv

\* The invariant is inductive.
LEMMA SidecarInvariance == SidecarSpec /\ FreshNames => []SidecarInv
  <1>1. SidecarInv /\ [SidecarNext]_allVars => SidecarInv'
    BY StepTypes, StepCalls, StepMadeAsAsked, StepCreateStands, StepLookupStands, StepOrphans
    DEF SidecarInv, BucketsInv
  <1> QED BY InitSidecar, <1>1, PTL DEF SidecarSpec

\* An object that reports ready has its bucket, with the size it asked for, for
\* any number of objects, retries, given-up calls and late jobs: the create that
\* was answered OK found or made a bucket of the object's name, which only a create
\* of the same object can have made and only a delete of the object takes away.
THEOREM ReadyStaysBacked == SidecarSpec /\ FreshNames => []ReadyIsBacked
  <1>1. SidecarInv => ReadyIsBacked
    <2> SUFFICES ASSUME SidecarInv, NEW n \in Name, obj[n] = "ready"
                 PROVE  \E b \in listBucketsByName(n) : b.size = Bytes[want[n]]
      BY DEF ReadyIsBacked
    <2>1. PICK b \in buckets : b.name = n
      BY DEF SidecarInv, BucketsInv, ReadyExists, Exists
    <2>2. /\ b.uuid \in Call /\ req[b.uuid].name = n /\ b.size = SizeOf(b.uuid)
          /\ req[b.uuid].op = "create"
      BY <2>1 DEF SidecarInv, BucketsInv, MadeAsAsked, SidecarTypeInv, DriverInv, Identity, MadeByItsCall
    <2>3. req[b.uuid].size = want[n]
      BY <2>2 DEF SidecarInv, CallsInv, CallsFit
    <2> QED BY <2>1, <2>2, <2>3 DEF listBucketsByName, SizeOf
  <1> QED BY <1>1, SidecarInvariance, PTL

\* A bucket whose object is gone was made by a create that was given up while its
\* job was pending: the delete that was confirmed had found and removed every other
\* bucket of the name, and no create was waited for at that time.
THEOREM OrphansAreGivenUp == SidecarSpec /\ FreshNames => []OrphanOnlyFromGivenUpCreate
  <1>1. SidecarInv => OrphanOnlyFromGivenUpCreate
    BY DEF SidecarInv, BucketsInv
  <1> QED BY <1>1, SidecarInvariance, PTL
====
