------------------------------ MODULE BucketSidecar ------------------------------
(***************************************************************************)
(* BucketProvisioner together with its caller, the COSI sidecar, which is  *)
(* not part of the repository and is modelled from src/README.md: a        *)
(* reconciler per Bucket object that calls DriverCreateBucket until it     *)
(* succeeds, records ResourceExhausted once without retrying, and on       *)
(* deletion calls DriverDeleteBucket until it succeeds and then removes    *)
(* the finalizer.  Object names are never used again (bc-<uid>).           *)
(***************************************************************************)
EXTENDS BucketProvisioner

CONSTANTS
    NoCall,      \* no RPC of the object is in flight
    MaxGiveUps   \* bound on cancelled calls and expired polls in a behaviour

VARIABLES
    obj,         \* obj[n]: the Bucket object of name n, seen by the sidecar
    want,        \* want[n]: the size parameter of its class, a valid one
    cur,         \* cur[n]: the RPC the reconciler of n waits for
    giveUps      \* cancelled calls and expired polls so far

sidecarVars == <<obj, want, cur, giveUps>>

allVars == <<vars, sidecarVars>>

ASSUME SidecarAssumption == NoCall \notin Call /\ MaxGiveUps \in Nat

\* Life of a Bucket object; a deleted object keeps its finalizer ("deleting")
\* until the driver has confirmed the deletion ("gone").
ObjState == {"none", "wanted", "ready", "failed", "deleting", "gone"}

SidecarInit ==
    /\ Init
    /\ obj = [n \in Name |-> "none"]
    /\ want \in [Name -> {raw \in RawSize : Bytes[raw] # 0}]
    /\ cur = [n \in Name |-> NoCall]
    /\ giveUps = 0

\* The user makes a Bucket object, or deletes it.
Apply(n) ==
    /\ obj[n] = "none"
    /\ obj' = [obj EXCEPT ![n] = "wanted"]
    /\ UNCHANGED <<vars, want, cur, giveUps>>

Delete(n) ==
    /\ obj[n] \in {"wanted", "ready", "failed"}
    /\ obj' = [obj EXCEPT ![n] = "deleting"]
    /\ UNCHANGED <<vars, want, cur, giveUps>>

\* The reconciler sends the RPC the state of the object calls for; the work
\* queue runs one reconcile of an object at a time.
Reconcile(n) ==
    /\ cur[n] = NoCall
    /\ \E c \in Call :
          /\ \/ /\ obj[n] = "wanted"
                /\ DriverCreateBucket(c)
                /\ req'[c].name = n /\ req'[c].size = want[n] /\ req'[c].lockingOK
             \/ obj[n] = "deleting" /\ DriverDeleteBucket(c) /\ req'[c].name = n
          /\ cur' = [cur EXCEPT ![n] = c]
    /\ UNCHANGED <<obj, want, giveUps>>

\* What an answer makes of the object; a deletion that came in meanwhile stays.
Outcome(state, op, k) ==
    CASE state = "wanted" /\ op = "create" /\ k = "OK" -> "ready"
      [] state = "wanted" /\ op = "create" /\ k \in Exhausted -> "failed"
      [] state = "deleting" /\ op = "delete" /\ k = "OK" -> "gone"
      [] OTHER -> state

Observe(n) ==
    /\ cur[n] # NoCall
    /\ pc[cur[n]] = "done"
    /\ obj' = [obj EXCEPT ![n] = Outcome(@, req[cur[n]].op, code[cur[n]])]
    /\ cur' = [cur EXCEPT ![n] = NoCall]
    /\ UNCHANGED <<vars, want, giveUps>>

\* Touching a failed object triggers a new reconcile.
Touch(n) ==
    /\ obj[n] = "failed"
    /\ obj' = [obj EXCEPT ![n] = "wanted"]
    /\ UNCHANGED <<vars, want, cur, giveUps>>

\* The driver and the SVM go on by themselves.
Serve(c) == Handle(c) /\ UNCHANGED sidecarVars

Work(c) == RunJob(c) /\ UNCHANGED sidecarVars

\* A call is given up: its caller or the driver restarts, or its poll expires.
GiveUp(c) ==
    /\ giveUps < MaxGiveUps
    /\ giveUps' = giveUps + 1
    /\ Cancel(c) \/ PollTimeout(c)
    /\ UNCHANGED <<obj, want, cur>>

\* Bookkeeping of the model: the identity of a settled call whose job is over
\* and whose bucket, if it made one, is gone and not being deleted is free again.
Recycle(c) ==
    /\ pc[c] = "done"
    /\ \A n \in Name : cur[n] # c
    /\ job[c].state # "queued"
    /\ \A b \in buckets : b.uuid # c
    /\ \A d \in Call \ {c} : found[d] # c
    /\ req' = [req EXCEPT ![c] = NoRequest]
    /\ pc' = [pc EXCEPT ![c] = "idle"]
    /\ found' = [found EXCEPT ![c] = NoUUID]
    /\ code' = [code EXCEPT ![c] = "none"]
    /\ job' = [job EXCEPT ![c] = [state |-> "none", uuid |-> NoUUID]]
    /\ UNCHANGED <<config, buckets, faults, sidecarVars>>

SidecarNext ==
    \/ \E n \in Name : Apply(n) \/ Delete(n) \/ Reconcile(n) \/ Observe(n) \/ Touch(n)
    \/ \E c \in Call : Serve(c) \/ Work(c) \/ GiveUp(c) \/ Recycle(c)

SidecarSpec == SidecarInit /\ [][SidecarNext]_allVars

\* The work queue runs every queued reconcile; REST requests return; the SVM
\* works off its jobs.  Faults and give-ups are bounded, users are not fair.
SidecarFairSpec ==
    /\ SidecarSpec
    /\ \A n \in Name : WF_allVars(Reconcile(n)) /\ WF_allVars(Observe(n))
    /\ \A c \in Call : WF_allVars(Serve(c)) /\ WF_allVars(Work(c)) /\ WF_allVars(Recycle(c))

----------------------------------------------------------------------------
\* An object that reports ready has its bucket, with the size it asked for: no
\* job left over from an earlier try or from a refused request can take it away
\* or have made it differently.
ReadyIsBacked ==
    \A n \in Name : obj[n] = "ready" => \E b \in listBucketsByName(n) : b.size = Bytes[want[n]]

\* A bucket whose object is gone was made by a create call that was given up
\* while its job was pending (a lost answer, a failed or expired poll, a cancelled
\* call); a create that saw the end of its job never leaves one.
OrphanOnlyFromGivenUpCreate ==
    \A b \in buckets : obj[b.name] = "gone" => code[b.uuid] \in Uncertain

\* "removes it only after the driver confirms backend deletion succeeded,
\* preventing premature GC of the K8s object while backend resources still
\* exist": an object that is gone has no bucket.
GoneMeansNoBucket == \A b \in buckets : obj[b.name] # "gone"

\* A wanted bucket is provisioned, refused for quota or deleted again, once
\* requests stop failing.
WantedSettles ==
    \A n \in Name : obj[n] = "wanted" ~> obj[n] \in {"ready", "failed", "deleting"}

\* A deletion is completed, once requests stop failing.
DeletionCompletes == \A n \in Name : obj[n] = "deleting" ~> obj[n] = "gone"
====
