--------------------------- MODULE TenantClientsProofs ---------------------------
(***************************************************************************)
(* Proofs about TenantClients, for any objects, tenants, Secrets, systems  *)
(* and environment, and any number of edits, restarts and faults.          *)
(***************************************************************************)
EXTENDS TenantClients, TLAPS

ObjState == {"none", "wanted", "ready", "deleting", "gone"}

Op == {"create", "delete"}

Places == {Place(c) : c \in Client}

Job == [id : Nat, op : Op, object : Object, at : Places, uuid : Nat]

Bucket == [object : Object, at : Places, uuid : Nat, late : BOOLEAN]

CallState ==
    [client : Client, op : Op, pc : {"lookup", "send", "wait", "success", "failure"},
     uuid : Nat, job : SUBSET Job]

\* Every variable the proofs look at holds values of its type.
TypeInv ==
    /\ owner \in [Object -> Namespace \union {NoNamespace}]
    /\ multiTenant \in BOOLEAN
    /\ secrets \in [Namespace -> Secret \union {NoSecret}]
    /\ obj \in [Object -> ObjState]
    /\ queued \in [Object -> BOOLEAN]
    /\ call \in [Object -> {NoClient} \union CallState]
    /\ info = [o \in Object |-> info[o]]
    /\ store \subseteq Bucket
    /\ jobs \subseteq Job
    /\ serial \in Nat
    /\ named \in [Namespace -> SUBSET Secret]
    /\ moved \in [Object -> BOOLEAN]

\* The history has every Secret with an identity that there is now.
NamedNow ==
    \A n \in Namespace : secrets[n] # NoSecret /\ IdentityKey \subseteq Present(secrets[n]) =>
        secrets[n] \in named[n]

\* Client c is made from a Secret of the namespace n.
OfTenant(c, n) ==
    \E s \in named[n] : tenantConfigOK(s) /\ c = NewFromConfig(tenantConfig(s))

\* A call in progress has the client of its tenant or, if its object has none or
\* the mode is off, the driver's own.
CallsResolved ==
    \A o \in Object : call[o] # NoClient =>
        IF Tenanted(o) THEN OfTenant(call[o].client, owner[o]) ELSE call[o].client = OwnClient

\* The mode was on all the time unless the history says otherwise.
OffIsKnown == ~multiTenant => ranOff

\* The SVM p is one where the bucket of o may lie.
PlaceOK(o, p) ==
    owner[o] # NoNamespace =>
        (ranOff /\ p = Place(OwnClient)) \/ \E s \in named[owner[o]] : Names(s, p)

\* A job makes its bucket in such a place, whether a call still waits for it or not.
JobsStay == \A j \in jobs : PlaceOK(j.object, j.at)

IsolationInv ==
    TypeInv /\ NamedNow /\ CallsResolved /\ OffIsKnown /\ JobsStay /\ BucketsStayWithTenant

\* A call beyond its lookup has a client that the SVM serves, and its job is the
\* one it asked for.
CallFits(o, c) ==
    /\ IF c.pc = "lookup" THEN c.job = {} ELSE Served(c.client)
    /\ \A j \in c.job : /\ j.object = o /\ j.op = c.op /\ j.at = Place(c.client)
                        /\ j.op = "delete" => j.uuid = c.uuid

JobFitsCall == \A o \in Object : call[o] # NoClient => CallFits(o, call[o])

\* A call and the state of its object: an answer to a create finds nothing
\* queued behind it, so a ready object has no call in progress or due; a delete
\* is sent only for an object that is being deleted, and ends when it is gone.
CallFitsObject ==
    \A o \in Object :
        /\ obj[o] \in {"none", "ready", "gone"} => call[o] = NoClient /\ ~queued[o]
        /\ call[o] # NoClient /\ call[o].op = "create" => obj[o] = "deleting" \/ ~queued[o]
        /\ call[o] # NoClient /\ call[o].op = "delete" => obj[o] = "deleting" /\ ~queued[o]

\* There is no job to delete the bucket of an object that is wanted.
DeletesFit ==
    \A j \in jobs : j.op = "delete" => obj[j.object] \in {"deleting", "gone"}

CallsInv == TypeInv /\ JobFitsCall /\ CallFitsObject /\ DeletesFit

\* Unless calls for it came to lead elsewhere, the bucket of an object is, may
\* come to be and is being deleted at one SVM only, the one calls lead to now.
OnePlace ==
    \A o \in Object : ~moved[o] =>
        /\ \A p, q \in Whereabouts(o) : p = q
        /\ \A p \in Directed(o) : Whereabouts(o) \subseteq {p}

\* An SVM has one bucket of a name at most.
OneBucket == \A a, b \in store : a.object = b.object /\ a.at = b.at => a = b

\* What a delete found is all there is, apart from what late jobs make; when its
\* job is done only that is left.
LookupStands ==
    \A o \in Object : call[o] # NoClient /\ call[o].op = "delete" /\ ~moved[o] =>
        \A b \in store : b.object = o =>
            /\ call[o].pc \in {"send", "wait"} => b.late \/ b.uuid = call[o].uuid
            /\ call[o].pc = "success" => b.late

LossInv == CallsInv /\ OnePlace /\ OneBucket /\ LookupStands /\ LostOnlyByMoveOrLateJob

\* The bucket of a create whose job is done is there until the object is deleted.
CreateStands ==
    \A o \in Object : At(o, "success") /\ call[o].op = "create" /\ obj[o] = "wanted" => Here(o) # {}

\* Client c is one that calls for o may have had.
MayServe(c, o) == c = OwnClient \/ (owner[o] # NoNamespace /\ OfTenant(c, owner[o]))

\* What a ready object advertises is the S3 endpoint of a client with which its
\* bucket was made or found.
ReadyAdvertised ==
    \A o \in Object : obj[o] = "ready" =>
        \E c \in Client : /\ MayServe(c, o) /\ Served(c) /\ info[o] = bucketProtocols(c)
                          /\ listBucketsByName(o, Place(c)) # {}

----------------------------------------------------------------------------
(* What steps do to calls, and types.                                      *)

\* resolveClient returns a client, or none.
LEMMA ResolvedClient ==
  ASSUME TypeInv, NEW o \in Object PROVE resolveClient(o) \in Client \union {NoClient}
  BY DEF TypeInv, resolveClient, Load, Tenanted, Client

\* A call in progress is a call with its client, operation and job.
LEMMA CallType ==
  ASSUME TypeInv, NEW o \in Object, call[o] # NoClient
  PROVE  /\ call[o] \in CallState /\ call[o].client \in Client /\ call[o].op \in Op
         /\ Place(call[o].client) \in Places /\ call[o].uuid \in Nat
         /\ call[o].job \subseteq Job
  BY DEF TypeInv, CallState, Places

\* Begin leaves the other calls alone and gives o a call, or none.
LEMMA BeginCalls ==
  ASSUME TypeInv, NEW o \in Object, Begin(o)
  PROVE  /\ \A x \in Object : x # o => call'[x] = call[x]
         /\ call[o] = NoClient
         /\ \/ call'[o] = NoClient
            \/ /\ resolveClient(o) # NoClient /\ call'[o] \in CallState
               /\ call'[o].client = resolveClient(o) /\ call'[o].pc = "lookup"
               /\ call'[o].op = (IF obj[o] = "wanted" THEN "create" ELSE "delete")
               /\ call'[o].job = {}
  <1>1. CASE resolveClient(o) = NoClient
    BY <1>1 DEF Begin, TypeInv
  <1>2. CASE resolveClient(o) # NoClient
    <2> DEFINE new == [client |-> resolveClient(o),
                       op |-> IF obj[o] = "wanted" THEN "create" ELSE "delete",
                       pc |-> "lookup", uuid |-> 0, job |-> {}]
    <2>1. new \in CallState
      BY <1>2, ResolvedClient DEF CallState, Op
    <2>2. call' = [call EXCEPT ![o] = new]
      BY <1>2 DEF Begin
    <2>3. call'[o] = new /\ \A x \in Object : x # o => call'[x] = call[x]
      BY <2>2 DEF TypeInv
    <2> QED BY <1>2, <2>1, <2>3 DEF Begin
  <1> QED BY <1>1, <1>2

\* A lookup ends the call or leads to its request.
LEMMA LookupCalls ==
  ASSUME TypeInv, NEW o \in Object, Lookup(o)
  PROVE  /\ \A x \in Object : x # o => call'[x] = call[x]
         /\ At(o, "lookup")
         /\ \/ call'[o] = NoClient /\ (Fail(o) \/ (Succeed(o) /\ Served(call[o].client)))
            \/ /\ UNCHANGED <<obj, queued, info>> /\ Served(call[o].client)
               /\ call'[o] \in CallState
               /\ call'[o].client = call[o].client /\ call'[o].op = call[o].op
               /\ call'[o].job = call[o].job /\ call'[o].pc = "send"
               /\ call[o].op = "delete" => \E b \in Here(o) : call'[o].uuid = b.uuid
  <1>1. call[o] # NoClient /\ call[o] \in CallState /\ call[o].pc = "lookup"
    BY CallType DEF Lookup, At
  <1>2. CASE Fail(o) \/ (Succeed(o) /\ Served(call[o].client))
    BY <1>1, <1>2 DEF Fail, Succeed, TypeInv, At
  <1>3. CASE call' = [call EXCEPT ![o].pc = "send"] /\ call[o].op = "create"
             /\ Served(call[o].client) /\ UNCHANGED <<obj, queued, info>>
    <2> DEFINE new == [call[o] EXCEPT !.pc = "send"]
    <2>1. /\ new \in CallState /\ new.client = call[o].client /\ new.op = call[o].op
          /\ new.job = call[o].job /\ new.pc = "send"
      BY <1>1 DEF CallState
    <2>2. call'[o] = new /\ \A x \in Object : x # o => call'[x] = call[x]
      BY <1>3 DEF TypeInv
    <2> QED BY <1>1, <1>3, <2>1, <2>2 DEF At
  <1>4. ASSUME NEW b \in Here(o), Served(call[o].client), UNCHANGED <<obj, queued, info>>,
               call' = [call EXCEPT ![o].pc = "send", ![o].uuid = b.uuid]
        PROVE  /\ \A x \in Object : x # o => call'[x] = call[x]
               /\ call'[o] \in CallState
               /\ call'[o].client = call[o].client /\ call'[o].op = call[o].op
               /\ call'[o].job = call[o].job /\ call'[o].pc = "send"
               /\ call'[o].uuid = b.uuid
    <2> DEFINE new == [[call[o] EXCEPT !.pc = "send"] EXCEPT !.uuid = b.uuid]
    <2>1. b.uuid \in Nat
      BY <1>4 DEF Here, listBucketsByName, TypeInv, Bucket
    <2>2. /\ new \in CallState /\ new.client = call[o].client /\ new.op = call[o].op
          /\ new.job = call[o].job /\ new.pc = "send" /\ new.uuid = b.uuid
      BY <1>1, <2>1 DEF CallState
    <2>3. call'[o] = new /\ \A x \in Object : x # o => call'[x] = call[x]
      BY <1>4 DEF TypeInv
    <2> QED BY <2>2, <2>3
  <1> QED BY <1>1, <1>2, <1>3, <1>4 DEF Lookup, At

\* A request is refused, or its job is queued and waited for.
LEMMA SendCalls ==
  ASSUME TypeInv, NEW o \in Object, Send(o)
  PROVE  /\ \A x \in Object : x # o => call'[x] = call[x]
         /\ At(o, "send")
         /\ \/ call'[o] = NoClient /\ Fail(o) /\ UNCHANGED svmVars
            \/ /\ UNCHANGED <<store, obj, queued, info>> /\ Accepts(o)
               /\ jobs' = jobs \union {NewJob(o)} /\ serial' = serial + 1
               /\ call'[o] \in CallState
               /\ call'[o].client = call[o].client /\ call'[o].op = call[o].op
               /\ call'[o].job = {NewJob(o)} /\ call'[o].pc = "wait"
               /\ call'[o].uuid = call[o].uuid
  <1>1. call[o] # NoClient /\ call[o] \in CallState /\ call[o].pc = "send"
    BY CallType DEF Send, At
  <1>2. NewJob(o) \in Job
    <2>1. /\ serial + 1 \in Nat /\ call[o].op \in Op /\ Place(call[o].client) \in Places
          /\ call[o].uuid \in Nat
      BY <1>1, CallType DEF TypeInv
    <2> QED BY <2>1 DEF NewJob, Job
  <1>3. CASE Fail(o) /\ UNCHANGED svmVars
    BY <1>1, <1>3 DEF Fail, TypeInv, At
  <1>4. CASE /\ call' = [call EXCEPT ![o].pc = "wait", ![o].job = {NewJob(o)}] /\ Accepts(o)
             /\ UNCHANGED <<store, obj, queued, info>>
             /\ jobs' = jobs \union {NewJob(o)} /\ serial' = serial + 1
    <2> DEFINE new == [[call[o] EXCEPT !.pc = "wait"] EXCEPT !.job = {NewJob(o)}]
    <2>1. /\ new \in CallState /\ new.client = call[o].client /\ new.op = call[o].op
          /\ new.job = {NewJob(o)} /\ new.pc = "wait" /\ new.uuid = call[o].uuid
      BY <1>1, <1>2 DEF CallState
    <2>2. call'[o] = new /\ \A x \in Object : x # o => call'[x] = call[x]
      BY <1>4 DEF TypeInv
    <2> QED BY <1>1, <1>4, <2>1, <2>2 DEF At
  <1> QED BY <1>3, <1>4 DEF Send

\* The job that a call asks for.
LEMMA NewJobType ==
  ASSUME TypeInv, NEW o \in Object, call[o] # NoClient
  PROVE  /\ NewJob(o) \in Job /\ NewJob(o).object = o /\ NewJob(o).op = call[o].op
         /\ NewJob(o).at = Place(call[o].client)
         /\ call[o].op = "delete" => NewJob(o).uuid = call[o].uuid
  <1>1. /\ serial + 1 \in Nat /\ call[o].op \in Op /\ Place(call[o].client) \in Places
        /\ call[o].uuid \in Nat
    BY CallType DEF TypeInv
  <1> QED BY <1>1 DEF NewJob, Job, Op

\* The end of a wait, and giving up, end the call.
LEMMA EndCalls ==
  ASSUME TypeInv, NEW o \in Object, Wait(o) \/ GiveUp(o)
  PROVE  /\ \A x \in Object : x # o => call'[x] = call[x]
         /\ call[o] # NoClient /\ call'[o] = NoClient
         /\ Fail(o) \/ (Succeed(o) /\ At(o, "success"))
  BY DEF Wait, GiveUp, At, Fail, Succeed, TypeInv

\* A job that runs moves on the calls that wait for it, and only these.
LEMMA RunCalls ==
  ASSUME TypeInv, NEW o \in Object, NEW j \in jobs, RunJob(j)
  PROVE  \/ call'[o] = call[o] /\ ~Awaits(o, j)
         \/ /\ call[o] # NoClient /\ Awaits(o, j) /\ call'[o] \in CallState
            /\ call'[o].client = call[o].client /\ call'[o].op = call[o].op
            /\ call'[o].job = call[o].job /\ call'[o].uuid = call[o].uuid
            /\ call[o].pc = "wait" /\ call'[o].pc \in {"success", "failure"}
            /\ call'[o].pc = "success" =>
                  \/ /\ j.op = "create" /\ store' = store \union {MadeBy(j)}
                  \/ /\ j.op = "delete" /\ store' = store \ WithUUID(j.object, j.uuid)
  <1>1. CASE ~Awaits(o, j)
    BY <1>1 DEF RunJob, Finish, TypeInv
  <1>2. CASE Awaits(o, j)
    <2>1. call[o] # NoClient /\ call[o] \in CallState /\ call[o].pc = "wait"
      BY <1>2, CallType DEF Awaits, At
    <2>2. PICK s \in {"success", "failure"} :
             /\ Finish(j, s)
             /\ s = "success" =>
                  \/ /\ j.op = "create" /\ store' = store \union {MadeBy(j)}
                  \/ /\ j.op = "delete" /\ store' = store \ WithUUID(j.object, j.uuid)
      BY DEF RunJob
    <2> DEFINE new == [call[o] EXCEPT !.pc = s]
    <2>3. /\ new \in CallState /\ new.client = call[o].client /\ new.op = call[o].op
          /\ new.job = call[o].job /\ new.pc = s /\ new.uuid = call[o].uuid
      BY <2>1 DEF CallState
    <2>4. call'[o] = new
      BY <1>2, <2>2 DEF Finish
    <2> QED BY <1>2, <2>1, <2>2, <2>3, <2>4
  <1> QED BY <1>1, <1>2

\* A job that runs leaves its bucket, or takes one away, or fails.
LEMMA RunStore ==
  ASSUME TypeInv, NEW j \in jobs, RunJob(j)
  PROVE  /\ jobs' = jobs \ {j}
         /\ \/ store' = store
            \/ /\ j.op = "create" /\ store' = store \union {MadeBy(j)}
               /\ listBucketsByName(j.object, j.at) = {}
            \/ /\ j.op = "delete" /\ store' = store \ WithUUID(j.object, j.uuid)
  BY DEF RunJob, Finish

\* The bucket a job makes is one of its object, at its place.
LEMMA MadeType ==
  ASSUME TypeInv, NEW j \in jobs
  PROVE  /\ MadeBy(j) \in Bucket /\ MadeBy(j).object = j.object /\ MadeBy(j).at = j.at
         /\ MadeBy(j).late <=> \A o \in Object : ~Awaits(o, j)
  <1>1. j \in Job
    BY DEF TypeInv
  <1>2. (\A o \in Object : ~Awaits(o, j)) \in BOOLEAN
    OBVIOUS
  <1> QED BY <1>1, <1>2 DEF MadeBy, Job, Bucket

\* Every step is one of these.
LEMMA Steps ==
  ASSUME [Next]_vars
  PROVE  \/ \E o \in Object : \/ Apply(o) \/ Delete(o) \/ Begin(o) \/ Lookup(o) \/ Send(o)
                              \/ Wait(o) \/ GiveUp(o)
         \/ \E j \in jobs : RunJob(j)
         \/ \E n \in Namespace : EditSecret(n)
         \/ Restart
         \/ UNCHANGED vars
  BY DEF Next, Handle, RunJobs

\* A failing call, and one that succeeds, leave objects in their states.
LEMMA AnswerType ==
  ASSUME TypeInv, NEW o \in Object, Fail(o) \/ Succeed(o)
  PROVE  /\ obj' \in [Object -> ObjState] /\ queued' \in [Object -> BOOLEAN]
         /\ info' = [x \in Object |-> info'[x]]
         /\ call' \in [Object -> {NoClient} \union CallState]
  BY DEF Fail, Succeed, TypeInv, ObjState

\* Every step keeps the types.
LEMMA StepType == TypeInv /\ [Next]_vars => TypeInv'
  <1> SUFFICES ASSUME TypeInv, [Next]_vars PROVE TypeInv'
    OBVIOUS
  <1>1. ASSUME NEW o \in Object, Apply(o) \/ Delete(o) PROVE TypeInv'
    BY <1>1 DEF Apply, Delete, TypeInv, ObjState, svmVars, modeVars
  <1>2. ASSUME NEW o \in Object, Begin(o) PROVE TypeInv'
    <2>1. call' \in [Object -> {NoClient} \union CallState]
      <3>1. \A x \in Object : call'[x] \in {NoClient} \union CallState
        BY <1>2, BeginCalls DEF TypeInv
      <3>2. call' = [x \in Object |-> call'[x]]
        BY <1>2 DEF Begin, TypeInv
      <3> QED BY <3>1, <3>2
    <2>2. queued' \in [Object -> BOOLEAN]
      BY <1>2 DEF Begin, TypeInv
    <2> QED BY <1>2, <2>1, <2>2 DEF Begin, TypeInv, svmVars, modeVars
  <1>3. ASSUME NEW o \in Object, Lookup(o) PROVE TypeInv'
    <2>1. UNCHANGED <<svmVars, modeVars>>
      BY <1>3 DEF Lookup
    <2>2. CASE Fail(o) \/ Succeed(o)
      BY <2>1, <2>2, AnswerType DEF TypeInv, svmVars, modeVars
    <2>3. CASE UNCHANGED <<obj, queued, info>> /\ call'[o] \in CallState
      <3>1. \A x \in Object : call'[x] \in {NoClient} \union CallState
        BY <1>3, <2>3, LookupCalls DEF TypeInv
      <3>2. call' = [x \in Object |-> call'[x]]
        BY <1>3 DEF Lookup, Fail, Succeed, TypeInv
      <3> QED BY <2>1, <2>3, <3>1, <3>2 DEF TypeInv, svmVars, modeVars
    <2> QED BY <1>3, <2>2, <2>3, LookupCalls
  <1>4. ASSUME NEW o \in Object, Send(o) PROVE TypeInv'
    <2>1. UNCHANGED modeVars
      BY <1>4 DEF Send
    <2>2. CASE Fail(o) /\ UNCHANGED svmVars
      BY <2>1, <2>2, AnswerType DEF TypeInv, svmVars, modeVars
    <2>3. CASE /\ UNCHANGED <<store, obj, queued, info>> /\ call'[o] \in CallState
               /\ jobs' = jobs \union {NewJob(o)} /\ serial' = serial + 1
      <3>1. \A x \in Object : call'[x] \in {NoClient} \union CallState
        BY <1>4, <2>3, SendCalls DEF TypeInv
      <3>2. call' = [x \in Object |-> call'[x]]
        BY <1>4 DEF Send, Fail, TypeInv
      <3>3. NewJob(o) \in Job
        BY <1>4, NewJobType DEF Send, At
      <3> QED BY <2>1, <2>3, <3>1, <3>2, <3>3 DEF TypeInv, modeVars
    <2> QED BY <1>4, <2>2, <2>3, SendCalls
  <1>5. ASSUME NEW o \in Object, Wait(o) \/ GiveUp(o) PROVE TypeInv'
    BY <1>5, EndCalls, AnswerType DEF Wait, GiveUp, TypeInv, svmVars, modeVars
  <1>6. ASSUME NEW j \in jobs, RunJob(j) PROVE TypeInv'
    <2>1. \A x \in Object : call'[x] \in {NoClient} \union CallState
      BY <1>6, RunCalls DEF TypeInv
    <2>2. call' = [x \in Object |-> call'[x]]
      BY <1>6 DEF RunJob, Finish
    <2>3. store' \subseteq Bucket /\ jobs' \subseteq Job
      BY <1>6, RunStore, MadeType DEF TypeInv
    <2> QED BY <1>6, <2>1, <2>2, <2>3 DEF RunJob, TypeInv, modeVars
  <1>7. ASSUME NEW n \in Namespace, EditSecret(n) PROVE TypeInv'
    <2>1. moved' \in [Object -> BOOLEAN]
      BY <1>7 DEF EditSecret, NowElsewhere, TypeInv
    <2>2. secrets' \in [Namespace -> Secret \union {NoSecret}]
      BY <1>7 DEF EditSecret, TypeInv
    <2>3. named' \in [Namespace -> SUBSET Secret]
      <3>1. PICK s \in Secret \union {NoSecret} :
               named' = [named EXCEPT ![n] =
                  IF s = NoSecret \/ ~(IdentityKey \subseteq Present(s)) THEN @ ELSE @ \union {s}]
        BY <1>7 DEF EditSecret
      <3> QED BY <3>1 DEF TypeInv
    <2> QED BY <1>7, <2>1, <2>2, <2>3 DEF EditSecret, TypeInv, svmVars
  <1>8. CASE Restart
    <2>1. moved' \in [Object -> BOOLEAN]
      BY <1>8 DEF Restart, NowElsewhere, TypeInv
    <2> QED BY <1>8, <2>1 DEF Restart, TypeInv, svmVars
  <1>9. CASE UNCHANGED vars
    BY <1>9 DEF vars, svmVars, modeVars, TypeInv
  <1> QED BY <1>1, <1>2, <1>3, <1>4, <1>5, <1>6, <1>7, <1>8, <1>9, Steps

\* After a step a call has just begun, or is the one there was, with its client
\* and operation.
LEMMA CallMoves ==
  ASSUME TypeInv, [Next]_vars, NEW o \in Object, call'[o] # NoClient
  PROVE  \/ /\ Begin(o) /\ call[o] = NoClient /\ resolveClient(o) # NoClient
            /\ call'[o].client = resolveClient(o) /\ call'[o].pc = "lookup"
            /\ call'[o].op = (IF obj[o] = "wanted" THEN "create" ELSE "delete")
            /\ call'[o].job = {}
         \/ /\ call[o] # NoClient
            /\ call'[o].client = call[o].client /\ call'[o].op = call[o].op
  <1>1. ASSUME NEW x \in Object, Apply(x) \/ Delete(x) PROVE call' = call
    BY <1>1 DEF Apply, Delete
  <1>2. ASSUME NEW n \in Namespace, EditSecret(n) PROVE call' = call
    BY <1>2 DEF EditSecret
  <1>3. CASE call' = call
    BY <1>3
  <1>4. CASE Restart
    BY <1>4 DEF Restart
  <1>5. ASSUME NEW j \in jobs, RunJob(j)
        PROVE  /\ call[o] # NoClient
               /\ call'[o].client = call[o].client /\ call'[o].op = call[o].op
    BY <1>5, RunCalls
  <1>6. ASSUME NEW x \in Object, Lookup(x) \/ Send(x) \/ Wait(x) \/ GiveUp(x)
        PROVE  /\ call[o] # NoClient
               /\ call'[o].client = call[o].client /\ call'[o].op = call[o].op
    BY <1>6, LookupCalls, SendCalls, EndCalls DEF At
  <1>7. ASSUME NEW x \in Object, Begin(x)
        PROVE  \/ call'[o] = call[o]
               \/ /\ Begin(o) /\ call[o] = NoClient /\ resolveClient(o) # NoClient
                  /\ call'[o].client = resolveClient(o) /\ call'[o].pc = "lookup"
                  /\ call'[o].op = (IF obj[o] = "wanted" THEN "create" ELSE "delete")
                  /\ call'[o].job = {}
    BY <1>7, BeginCalls
  <1>8. UNCHANGED vars => call' = call
    BY DEF vars
  <1> QED BY <1>1, <1>2, <1>3, <1>4, <1>5, <1>6, <1>7, <1>8, Steps

\* A job that a step adds is the one a call has asked for.
LEMMA JobMoves ==
  ASSUME TypeInv, [Next]_vars, NEW j \in jobs', j \notin jobs
  PROVE  \E o \in Object : Send(o) /\ call[o] # NoClient /\ j = NewJob(o)
  BY Steps DEF vars, svmVars, Apply, Delete, Begin, Lookup, Send, At, Wait, GiveUp, RunJob, Finish,
     EditSecret, Restart

\* A bucket that a step adds is the one of a job.
LEMMA StoreMoves ==
  ASSUME TypeInv, [Next]_vars, NEW b \in store', b \notin store
  PROVE  \E j \in jobs : /\ RunJob(j) /\ j.op = "create" /\ b = MadeBy(j)
                         /\ listBucketsByName(j.object, j.at) = {} /\ store' = store \union {b}
  <1>1. ASSUME NEW j \in jobs, RunJob(j)
        PROVE  /\ j.op = "create" /\ b = MadeBy(j) /\ listBucketsByName(j.object, j.at) = {}
               /\ store' = store \union {b}
    BY <1>1, RunStore
  <1> QED BY <1>1, Steps DEF vars, svmVars, Apply, Delete, Begin, Lookup, Send, Wait, GiveUp,
             EditSecret, Restart

\* Only edits and restarts change Secrets and the mode; a step forgets no Secret,
\* and not that the mode was off.
LEMMA ModeMoves ==
  ASSUME TypeInv, [Next]_vars
  PROVE  /\ UNCHANGED modeVars \/ (\E n \in Namespace : EditSecret(n)) \/ Restart
         /\ owner' = owner /\ (ranOff => ranOff')
         /\ \A n \in Namespace : named[n] \subseteq named'[n]
  <1>1. UNCHANGED modeVars \/ (\E n \in Namespace : EditSecret(n)) \/ Restart
    BY Steps DEF vars, Apply, Delete, Begin, Lookup, Send, Wait, GiveUp, RunJob
  <1>2. UNCHANGED modeVars => /\ owner' = owner /\ (ranOff => ranOff')
                              /\ \A n \in Namespace : named[n] \subseteq named'[n]
    BY DEF modeVars
  <1>3. ASSUME NEW n \in Namespace, EditSecret(n)
        PROVE  /\ owner' = owner /\ (ranOff => ranOff')
               /\ \A m \in Namespace : named[m] \subseteq named'[m]
    <2>1. PICK s \in Secret \union {NoSecret} :
             named' = [named EXCEPT ![n] =
                IF s = NoSecret \/ ~(IdentityKey \subseteq Present(s)) THEN @ ELSE @ \union {s}]
      BY <1>3 DEF EditSecret
    <2> QED BY <1>3, <2>1 DEF EditSecret, TypeInv
  <1>4. Restart => /\ owner' = owner /\ (ranOff => ranOff')
                   /\ \A n \in Namespace : named[n] \subseteq named'[n]
    BY DEF Restart
  <1> QED BY <1>1, <1>2, <1>3, <1>4

----------------------------------------------------------------------------
(* Isolation of the tenants.                                               *)

\* A client made from a Secret has the identity of that Secret: no default of the
\* driver gets into it.
LEMMA IdentityKept ==
  ASSUME NEW s, tenantConfigOK(s)
  PROVE  LET c == NewFromConfig(tenantConfig(s))
         IN  /\ URL[s["endpoint"]].host = c.base.host /\ s["svm"] = c.svm
             /\ s["user"] = c.user /\ s["password"] = c.password
             /\ Names(s, Place(c))
  <1>1. \A k \in IdentityKey : k \in Present(s) /\ k \in Key /\ k \notin BoolKey
    BY DEF tenantConfigOK, Key, IdentityKey, BoolKey
  <1>2. \A k \in IdentityKey : tenantConfig(s)[k] = s[k]
    BY <1>1 DEF tenantConfig
  <1> QED BY <1>2 DEF IdentityKey, NewFromConfig, WithScheme, Names, Place

\* The client resolveClient returns is the one of the tenant when the call has a
\* tenant, and the driver's own otherwise.
LEMMA ResolveIsolates ==
  ASSUME TypeInv, NamedNow, NEW o \in Object, resolveClient(o) # NoClient
  PROVE  IF Tenanted(o) THEN OfTenant(resolveClient(o), owner[o]) ELSE resolveClient(o) = OwnClient
  <1>1. CASE ~Tenanted(o)
    BY <1>1 DEF resolveClient
  <1>2. CASE Tenanted(o)
    <2> DEFINE s == secrets[owner[o]]
    <2>1. owner[o] \in Namespace /\ s \in Secret \union {NoSecret}
      BY <1>2 DEF Tenanted, TypeInv
    <2>2. resolveClient(o) = ClientOf[s]
      BY <1>2 DEF resolveClient, Load
    <2>3. /\ s # NoSecret /\ tenantConfigOK(s)
          /\ ClientOf[s] = NewFromConfig(tenantConfig(s))
      BY <2>1, <2>2 DEF ClientOf
    <2>4. s \in named[owner[o]]
      BY <2>1, <2>3 DEF NamedNow, tenantConfigOK
    <2> QED BY <1>2, <2>1, <2>2, <2>3, <2>4 DEF OfTenant
  <1> QED BY <1>1, <1>2

\* The SVM of a call is one where the bucket of its object may lie.
LEMMA CallPlace ==
  ASSUME TypeInv, CallsResolved, OffIsKnown, NEW o \in Object, call[o] # NoClient
  PROVE  PlaceOK(o, Place(call[o].client))
  <1> SUFFICES ASSUME owner[o] # NoNamespace PROVE PlaceOK(o, Place(call[o].client))
    BY DEF PlaceOK
  <1>1. CASE ~Tenanted(o)
    BY <1>1 DEF CallsResolved, Tenanted, OffIsKnown, TypeInv, PlaceOK
  <1>2. CASE Tenanted(o)
    <2>1. PICK s \in named[owner[o]] :
             tenantConfigOK(s) /\ call[o].client = NewFromConfig(tenantConfig(s))
      BY <1>2 DEF CallsResolved, OfTenant
    <2> QED BY <2>1, IdentityKept DEF PlaceOK
  <1> QED BY <1>1, <1>2

\* Every step keeps the history of Secrets.
LEMMA StepNamed == TypeInv /\ NamedNow /\ [Next]_vars => NamedNow'
  <1> SUFFICES ASSUME TypeInv, NamedNow, [Next]_vars PROVE NamedNow'
    OBVIOUS
  <1>1. ASSUME NEW n \in Namespace, EditSecret(n) PROVE NamedNow'
    <2>1. PICK s \in Secret \union {NoSecret} :
             /\ secrets' = [secrets EXCEPT ![n] = s]
             /\ named' = [named EXCEPT ![n] =
                  IF s = NoSecret \/ ~(IdentityKey \subseteq Present(s)) THEN @ ELSE @ \union {s}]
      BY <1>1 DEF EditSecret
    <2>2. \A m \in Namespace : m # n => secrets'[m] = secrets[m] /\ named'[m] = named[m]
      BY <2>1 DEF TypeInv
    <2>3. secrets'[n] = s /\ (s # NoSecret /\ IdentityKey \subseteq Present(s) => s \in named'[n])
      BY <2>1 DEF TypeInv
    <2> QED BY <2>2, <2>3 DEF NamedNow
  <1>2. CASE UNCHANGED <<secrets, named>>
    BY <1>2 DEF NamedNow
  <1> QED BY <1>1, <1>2, ModeMoves DEF modeVars, Restart

\* Every step keeps calls on the client their tenant's Secret, or its absence,
\* calls for.
LEMMA StepCallsResolved ==
  ASSUME TypeInv, NamedNow, CallsResolved, [Next]_vars PROVE CallsResolved'
  <1> SUFFICES ASSUME NEW o \in Object, call'[o] # NoClient
               PROVE  IF Tenanted(o)' THEN OfTenant(call[o].client, owner[o])'
                      ELSE call'[o].client = OwnClient
    BY DEF CallsResolved
  <1>1. multiTenant' = multiTenant /\ owner' = owner
    BY ModeMoves DEF modeVars, EditSecret, Restart
  <1>2. ASSUME NEW c, NEW n \in Namespace, OfTenant(c, n) PROVE OfTenant(c, n)'
    BY <1>2, ModeMoves DEF OfTenant
  <1>3. Tenanted(o)' = Tenanted(o) /\ (Tenanted(o) => owner[o] \in Namespace)
    BY <1>1 DEF Tenanted, TypeInv
  <1>4. ASSUME call[o] # NoClient, call'[o].client = call[o].client
        PROVE  IF Tenanted(o) THEN OfTenant(call'[o].client, owner[o]) ELSE call'[o].client = OwnClient
    BY <1>4 DEF CallsResolved
  <1>5. IF Tenanted(o) THEN OfTenant(call'[o].client, owner[o]) ELSE call'[o].client = OwnClient
    BY <1>4, CallMoves, ResolveIsolates
  <1>6. CASE ~Tenanted(o)
    BY <1>3, <1>5, <1>6
  <1>7. CASE Tenanted(o)
    <2>1. \E s \in named[owner[o]] :
             tenantConfigOK(s) /\ call'[o].client = NewFromConfig(tenantConfig(s))
      BY <1>5, <1>7 DEF OfTenant
    <2>2. OfTenant(call[o].client, owner[o])'
      BY <1>1, <1>3, <1>7, <2>1, ModeMoves DEF OfTenant
    <2> QED BY <1>3, <1>7, <2>2
  <1> QED BY <1>6, <1>7

\* A place that is right stays so.
LEMMA PlaceStaysOK ==
  ASSUME TypeInv, [Next]_vars, NEW o \in Object, NEW p, PlaceOK(o, p) PROVE PlaceOK(o, p)'
  <1>1. owner[o] # NoNamespace => owner[o] \in Namespace
    BY DEF TypeInv
  <1> QED BY <1>1, ModeMoves DEF PlaceOK

\* Every step keeps the buckets of a tenant, and those that jobs will make, where
\* the tenant has named an SVM.
LEMMA StepBucketsStay ==
  ASSUME TypeInv, CallsResolved, OffIsKnown, JobsStay, BucketsStayWithTenant, [Next]_vars
  PROVE  JobsStay' /\ BucketsStayWithTenant'
  <1>1. ASSUME NEW j \in jobs' PROVE PlaceOK(j.object, j.at)'
    <2>1. CASE j \in jobs
      BY <2>1, PlaceStaysOK DEF JobsStay, TypeInv, Job
    <2>2. CASE j \notin jobs
      <3>1. PICK o \in Object : call[o] # NoClient /\ j = NewJob(o)
        BY <1>1, <2>2, JobMoves
      <3>2. j.object = o /\ j.at = Place(call[o].client)
        BY <3>1, NewJobType
      <3> QED BY <3>1, <3>2, CallPlace, PlaceStaysOK
    <2> QED BY <2>1, <2>2
  <1>2. ASSUME NEW b \in store' PROVE PlaceOK(b.object, b.at)'
    <2>1. CASE b \in store
      <3>1. PlaceOK(b.object, b.at) /\ b.object \in Object
        BY <2>1 DEF BucketsStayWithTenant, PlaceOK, TypeInv, Bucket
      <3> QED BY <3>1, PlaceStaysOK
    <2>2. CASE b \notin store
      <3>1. PICK j \in jobs : b = MadeBy(j)
        BY <1>2, <2>2, StoreMoves
      <3>2. b.object = j.object /\ b.at = j.at /\ j.object \in Object
        BY <3>1, MadeType DEF TypeInv, Job
      <3> QED BY <3>1, <3>2, PlaceStaysOK DEF JobsStay
    <2> QED BY <2>1, <2>2
  <1> QED BY <1>1, <1>2 DEF JobsStay, BucketsStayWithTenant, PlaceOK

\* Calls, credentials, jobs and buckets stay with their tenant.
LEMMA Isolation == Spec => []IsolationInv
  <1>1. Init => IsolationInv
    <2> SUFFICES ASSUME Init PROVE IsolationInv
      OBVIOUS
    <2>1. TypeInv
      BY OwnersAssumption, ModeAssumption DEF Init, TypeInv, ObjState
    <2> QED BY <2>1 DEF Init, IsolationInv, NamedNow, CallsResolved, OffIsKnown, JobsStay,
               BucketsStayWithTenant
  <1>2. IsolationInv /\ [Next]_vars => IsolationInv'
    <2> SUFFICES ASSUME IsolationInv, [Next]_vars PROVE IsolationInv'
      OBVIOUS
    <2>1. TypeInv' /\ NamedNow'
      BY StepType, StepNamed DEF IsolationInv
    <2>2. CallsResolved'
      BY StepCallsResolved DEF IsolationInv
    <2>3. OffIsKnown'
      BY ModeMoves DEF IsolationInv, OffIsKnown, modeVars, EditSecret, Restart
    <2>4. JobsStay' /\ BucketsStayWithTenant'
      BY StepBucketsStay DEF IsolationInv
    <2> QED BY <2>1, <2>2, <2>3, <2>4 DEF IsolationInv
  <1> QED BY <1>1, <1>2, PTL DEF Spec

\* In multi-tenant mode a call for a tenant's object works with the four identity
\* keys of one Secret of this tenant, however Secrets are edited while it runs:
\* tenantConfig takes none of them from the driver's environment.
THEOREM IdentityNeverFallsBack == Spec => []TenantIdentityOnly
  <1>1. IsolationInv => TenantIdentityOnly
    <2> SUFFICES ASSUME IsolationInv, NEW o \in Object, Tenanted(o), call[o] # NoClient
                 PROVE  \E s \in named[owner[o]] :
                          /\ URL[s["endpoint"]].host = call[o].client.base.host
                          /\ s["svm"] = call[o].client.svm
                          /\ s["user"] = call[o].client.user
                          /\ s["password"] = call[o].client.password
      BY DEF TenantIdentityOnly
    <2>1. PICK s \in named[owner[o]] :
             tenantConfigOK(s) /\ call[o].client = NewFromConfig(tenantConfig(s))
      BY DEF IsolationInv, CallsResolved, OfTenant
    <2> QED BY <2>1, IdentityKept
  <1> QED BY <1>1, Isolation, PTL

\* A tenant's bucket lies on an SVM a Secret of this tenant has named, unless it
\* was made on the driver's own while multi-tenant mode was off; that includes the
\* buckets of jobs that outlive their call and the driver.
THEOREM TenantBucketsStay == Spec => []BucketsStayWithTenant
  <1>1. IsolationInv => BucketsStayWithTenant
    BY DEF IsolationInv
  <1> QED BY <1>1, Isolation, PTL

----------------------------------------------------------------------------
(* Calls, their jobs and their objects.                                    *)

\* Every step keeps a call with the job it asked for.
LEMMA StepJobFitsCall ==
  ASSUME TypeInv, JobFitsCall, [Next]_vars PROVE JobFitsCall'
  <1> SUFFICES ASSUME NEW o \in Object, call'[o] # NoClient PROVE CallFits(o, call'[o])
    BY DEF JobFitsCall
  <1>1. CASE call'[o] = call[o]
    BY <1>1 DEF JobFitsCall
  <1>2. CASE Begin(o)
    BY <1>2, BeginCalls DEF CallFits
  <1>3. CASE Lookup(o)
    <2>1. call[o] # NoClient /\ call[o].pc = "lookup" /\ call[o].job = {}
      BY <1>3 DEF Lookup, At, JobFitsCall, CallFits
    <2> QED BY <1>3, <2>1, LookupCalls DEF CallFits
  <1>4. CASE Send(o)
    <2>1. call[o] # NoClient /\ call[o].pc = "send" /\ Served(call[o].client)
      BY <1>4 DEF Send, At, JobFitsCall, CallFits
    <2>2. /\ call'[o].client = call[o].client /\ call'[o].op = call[o].op
          /\ call'[o].job = {NewJob(o)} /\ call'[o].pc = "wait" /\ call'[o].uuid = call[o].uuid
      BY <1>4, SendCalls
    <2> QED BY <2>1, <2>2, NewJobType DEF CallFits
  <1>5. ASSUME NEW j \in jobs, RunJob(j) PROVE CallFits(o, call'[o])
    BY <1>5, <1>1, RunCalls DEF JobFitsCall, CallFits
  <1>6. ASSUME NEW x \in Object, x # o,
               Begin(x) \/ Lookup(x) \/ Send(x) \/ Wait(x) \/ GiveUp(x)
        PROVE  call'[o] = call[o]
    BY <1>6, BeginCalls, LookupCalls, SendCalls, EndCalls
  <1>7. ~Wait(o) /\ ~GiveUp(o) /\ ~Restart
    BY EndCalls DEF Restart
  <1>8. ASSUME (\E x \in Object : Apply(x) \/ Delete(x)) \/ (\E n \in Namespace : EditSecret(n))
               \/ UNCHANGED vars
        PROVE  call' = call
    BY <1>8 DEF Apply, Delete, EditSecret, vars
  <1> QED BY <1>1, <1>2, <1>3, <1>4, <1>5, <1>6, <1>7, <1>8, Steps

\* What an answer makes of the object, and what is queued.
LEMMA AnswerFits ==
  ASSUME TypeInv, CallFitsObject, NEW o \in Object, call[o] # NoClient, Fail(o) \/ Succeed(o)
  PROVE  /\ \A x \in Object : x # o => obj'[x] = obj[x] /\ queued'[x] = queued[x]
         /\ call'[o] = NoClient
         /\ \/ obj'[o] = obj[o] /\ obj[o] \in {"wanted", "deleting"}
            \/ obj'[o] \in {"ready", "gone"} /\ ~queued'[o]
         /\ obj[o] \in {"deleting", "gone"} => obj'[o] \in {"deleting", "gone"}
  <1>1. obj[o] \in {"wanted", "deleting"}
    BY DEF CallFitsObject, TypeInv, ObjState
  <1>2. CASE Fail(o)
    BY <1>1, <1>2 DEF Fail, TypeInv
  <1>3. CASE Succeed(o)
    BY <1>1, <1>3 DEF Succeed, TypeInv, CallFitsObject
  <1> QED BY <1>2, <1>3

\* Every step keeps a call in step with the state of its object.
LEMMA StepCallFitsObject ==
  ASSUME TypeInv, CallFitsObject, [Next]_vars PROVE CallFitsObject'
  <1> DEFINE F(o) ==
        /\ obj[o] \in {"none", "ready", "gone"} => call[o] = NoClient /\ ~queued[o]
        /\ call[o] # NoClient /\ call[o].op = "create" => obj[o] = "deleting" \/ ~queued[o]
        /\ call[o] # NoClient /\ call[o].op = "delete" => obj[o] = "deleting" /\ ~queued[o]
  <1> SUFFICES ASSUME NEW o \in Object PROVE F(o)'
    BY DEF CallFitsObject
  <1>0. F(o)
    BY DEF CallFitsObject
  <1>1. CASE obj'[o] = obj[o] /\ queued'[o] = queued[o] /\ call'[o] = call[o]
    BY <1>0, <1>1
  <1>2. ASSUME NEW x \in Object, Apply(x) \/ Delete(x) PROVE F(o)'
    <2>1. call' = call
      BY <1>2 DEF Apply, Delete
    <2>2. x # o => obj'[o] = obj[o] /\ queued'[o] = queued[o]
      BY <1>2 DEF Apply, Delete, TypeInv
    <2>3. CASE x = o /\ Apply(o)
      <3>1. obj[o] = "none" /\ obj'[o] = "wanted"
        BY <2>3 DEF Apply, TypeInv
      <3> QED BY <1>0, <2>1, <3>1
    <2>4. CASE x = o /\ Delete(o)
      <3>1. obj[o] \in {"wanted", "ready"} /\ obj'[o] = "deleting"
        BY <2>4 DEF Delete, TypeInv
      <3> QED BY <1>0, <2>1, <3>1
    <2> QED BY <1>1, <1>2, <2>1, <2>2, <2>3, <2>4
  <1>3. ASSUME NEW x \in Object, Begin(x) PROVE F(o)'
    <2>1. /\ obj' = obj /\ queued[x]
          /\ queued' = [queued EXCEPT ![x] = resolveClient(x) = NoClient /\ LoadError \notin Terminal]
      BY <1>3 DEF Begin
    <2>2. x # o => queued'[o] = queued[o] /\ call'[o] = call[o]
      BY <1>3, <2>1, BeginCalls DEF TypeInv
    <2>3. CASE x = o
      <3>1. obj[o] \in {"wanted", "deleting"}
        BY <1>0, <2>1, <2>3 DEF TypeInv, ObjState
      <3>2. call'[o] # NoClient => ~queued'[o]
        BY <1>3, <2>1, <2>3, BeginCalls DEF TypeInv
      <3>3. call'[o] # NoClient =>
               call'[o].op = (IF obj[o] = "wanted" THEN "create" ELSE "delete")
        BY <1>3, <2>3, BeginCalls
      <3> QED BY <2>1, <3>1, <3>2, <3>3
    <2> QED BY <1>1, <2>1, <2>2, <2>3
  <1>4. ASSUME NEW x \in Object, Lookup(x) \/ Send(x) \/ Wait(x) \/ GiveUp(x) PROVE F(o)'
    <2>1. call[x] # NoClient
      BY <1>4, EndCalls DEF Lookup, Send, At
    <2>2. CASE Fail(x) \/ Succeed(x)
      <3>1. x # o => call'[o] = call[o]
        BY <1>4, LookupCalls, SendCalls, EndCalls
      <3>2. CASE x = o
        BY <2>1, <2>2, <3>2, AnswerFits
      <3> QED BY <1>1, <2>1, <2>2, <3>1, <3>2, AnswerFits
    <2>3. CASE /\ UNCHANGED <<obj, queued>> /\ \A z \in Object : z # x => call'[z] = call[z]
               /\ call'[x] # NoClient /\ call'[x].op = call[x].op
      BY <1>0, <1>1, <2>1, <2>3
    <2>4. ~(Fail(x) \/ Succeed(x)) =>
            /\ UNCHANGED <<obj, queued>> /\ \A z \in Object : z # x => call'[z] = call[z]
            /\ call'[x].op = call[x].op
      BY <1>4, LookupCalls, SendCalls, EndCalls
    <2>5. CASE call'[x] = NoClient /\ ~(Fail(x) \/ Succeed(x))
      BY <1>0, <1>1, <2>4, <2>5
    <2> QED BY <2>2, <2>3, <2>4, <2>5
  <1>5. ASSUME NEW j \in jobs, RunJob(j) PROVE F(o)'
    <2>1. UNCHANGED <<obj, queued>>
      BY <1>5 DEF RunJob
    <2> QED BY <1>0, <1>1, <1>5, <2>1, RunCalls
  <1>6. CASE Restart
    BY <1>0, <1>6 DEF Restart, TypeInv
  <1>7. (\E n \in Namespace : EditSecret(n)) \/ UNCHANGED vars =>
           UNCHANGED <<obj, queued, call>>
    BY DEF EditSecret, vars
  <1> QED BY <1>1, <1>2, <1>3, <1>4, <1>5, <1>6, <1>7, Steps

\* What steps make of objects: being deleted is not taken back, and an object
\* that becomes wanted was not there.
LEMMA ObjMoves ==
  ASSUME TypeInv, CallFitsObject, [Next]_vars, NEW o \in Object
  PROVE  /\ obj[o] \in {"deleting", "gone"} => obj'[o] \in {"deleting", "gone"}
         /\ obj'[o] = "wanted" => obj[o] \in {"none", "wanted"}
  <1>1. CASE obj'[o] = obj[o]
    BY <1>1
  <1>2. ASSUME NEW x \in Object, Apply(x) \/ Delete(x)
        PROVE  obj'[o] = obj[o] \/ (obj[o] \in {"none", "wanted", "ready"}
                                    /\ (obj'[o] = "wanted" => obj[o] = "none"))
    BY <1>2 DEF Apply, Delete, TypeInv
  <1>3. ASSUME NEW x \in Object, call[x] # NoClient, Fail(x) \/ Succeed(x)
        PROVE  /\ obj[o] \in {"deleting", "gone"} => obj'[o] \in {"deleting", "gone"}
               /\ obj'[o] = "wanted" => obj[o] \in {"none", "wanted"}
    BY <1>1, <1>3, AnswerFits
  <1>4. ASSUME NEW x \in Object, Lookup(x) \/ Send(x) \/ Wait(x) \/ GiveUp(x)
        PROVE  obj' = obj \/ (call[x] # NoClient /\ (Fail(x) \/ Succeed(x)))
    BY <1>4, LookupCalls, SendCalls, EndCalls DEF At
  <1>5. (\E x \in Object : Begin(x)) \/ (\E j \in jobs : RunJob(j)) \/ Restart
            \/ (\E n \in Namespace : EditSecret(n)) \/ UNCHANGED vars => obj' = obj
    BY DEF Begin, RunJob, Restart, EditSecret, vars
  <1> QED BY <1>1, <1>2, <1>3, <1>4, <1>5, Steps

\* Every step keeps delete jobs to objects that are being deleted or are gone.
LEMMA StepDeletesFit ==
  ASSUME TypeInv, CallFitsObject, DeletesFit, [Next]_vars PROVE DeletesFit'
  <1> SUFFICES ASSUME NEW j \in jobs', j.op = "delete"
               PROVE  obj'[j.object] \in {"deleting", "gone"}
    BY DEF DeletesFit
  <1>1. CASE j \in jobs
    BY <1>1, ObjMoves DEF DeletesFit, TypeInv, Job
  <1>2. CASE j \notin jobs
    <2>1. PICK o \in Object : call[o] # NoClient /\ j = NewJob(o)
      BY <1>2, JobMoves
    <2>2. j.object = o /\ call[o].op = "delete"
      BY <2>1, NewJobType
    <2> QED BY <2>1, <2>2, ObjMoves DEF CallFitsObject
  <1> QED BY <1>1, <1>2

\* A job that a call awaits is the call's own.
LEMMA AwaitedIsOwn ==
  ASSUME JobFitsCall, NEW x \in Object, NEW j, Awaits(x, j)
  PROVE  /\ call[x] # NoClient /\ j.object = x /\ j.op = call[x].op
         /\ j.at = Place(call[x].client) /\ (j.op = "delete" => j.uuid = call[x].uuid)
  BY DEF Awaits, At, JobFitsCall, CallFits

\* A new bucket of an object without a create in progress is late.
LEMMA MadeLate ==
  ASSUME TypeInv, JobFitsCall, [Next]_vars, NEW b \in store', b \notin store,
         call[b.object] = NoClient \/ call[b.object].op # "create"
  PROVE  b.late
  <1>1. PICK j \in jobs : j.op = "create" /\ b = MadeBy(j)
    BY StoreMoves
  <1>2. b.object = j.object /\ (b.late <=> \A x \in Object : ~Awaits(x, j))
    BY <1>1, MadeType
  <1> QED BY <1>1, <1>2, AwaitedIsOwn

----------------------------------------------------------------------------
(* Where the bucket of an object is, and how it can outlive the object.    *)

\* The members of Whereabouts.
LEMMA InWhereabouts ==
  ASSUME NEW o \in Object
  PROVE  /\ \A b \in store : b.object = o => b.at \in Whereabouts(o)
         /\ \A j \in jobs : j.object = o /\ j.op = "create" => j.at \in Whereabouts(o)
         /\ call[o] # NoClient => Place(call[o].client) \in Whereabouts(o)
         /\ \A p \in Whereabouts(o) :
               \/ \E b \in store : b.object = o /\ p = b.at
               \/ \E j \in jobs : j.object = o /\ j.op = "create" /\ p = j.at
               \/ call[o] # NoClient /\ p = Place(call[o].client)
  BY DEF Whereabouts

\* A client that resolveClient returns works on the SVM that calls are directed to.
LEMMA ResolvedIsDirected ==
  ASSUME NEW o \in Object, resolveClient(o) # NoClient
  PROVE  Place(resolveClient(o)) \in Directed(o)
  BY DEF resolveClient, Directed

\* There is one such SVM at most.
LEMMA DirectedToOne ==
  ASSUME NEW o \in Object PROVE \A p, q \in Directed(o) : p = q
  BY DEF Directed

\* A bucket comes to be elsewhere only by a call that begins, at the SVM that
\* calls are directed to.
LEMMA WhereaboutsMove ==
  ASSUME TypeInv, [Next]_vars, NEW o \in Object, NEW p \in Whereabouts(o)'
  PROVE  p \in Whereabouts(o) \/ (Begin(o) /\ p \in Directed(o))
  <1>1. ASSUME NEW b \in store', b.object = o PROVE b.at \in Whereabouts(o)
    <2>1. CASE b \in store
      BY <1>1, <2>1, InWhereabouts
    <2>2. CASE b \notin store
      <3>1. PICK j \in jobs : j.op = "create" /\ b = MadeBy(j)
        BY <1>1, <2>2, StoreMoves
      <3> QED BY <1>1, <3>1, MadeType, InWhereabouts
    <2> QED BY <2>1, <2>2
  <1>2. ASSUME NEW j \in jobs', j.object = o, j.op = "create" PROVE j.at \in Whereabouts(o)
    <2>1. CASE j \in jobs
      BY <1>2, <2>1, InWhereabouts
    <2>2. CASE j \notin jobs
      <3>1. PICK x \in Object : call[x] # NoClient /\ j = NewJob(x)
        BY <1>2, <2>2, JobMoves
      <3> QED BY <1>2, <3>1, NewJobType, InWhereabouts
    <2> QED BY <2>1, <2>2
  <1>3. ASSUME call'[o] # NoClient
        PROVE  \/ Place(call'[o].client) \in Whereabouts(o)
               \/ Begin(o) /\ Place(call'[o].client) \in Directed(o)
    BY <1>3, CallMoves, ResolvedIsDirected, InWhereabouts
  <1>4. \/ \E b \in store' : b.object = o /\ p = b.at
        \/ \E j \in jobs' : j.object = o /\ j.op = "create" /\ p = j.at
        \/ call'[o] # NoClient /\ p = Place(call'[o].client)
    BY DEF Whereabouts
  <1> QED BY <1>1, <1>2, <1>3, <1>4

\* That calls came to lead elsewhere is not forgotten.
LEMMA MovedStays ==
  ASSUME TypeInv, [Next]_vars, NEW o \in Object, moved[o] PROVE moved'[o]
  BY ModeMoves DEF modeVars, EditSecret, Restart, NowElsewhere

\* Every step keeps the bucket of an object in one place, or notes the move.
LEMMA StepOnePlace ==
  ASSUME TypeInv, OnePlace, [Next]_vars PROVE OnePlace'
  <1> SUFFICES ASSUME NEW o \in Object, ~moved'[o]
               PROVE  /\ \A p, q \in Whereabouts(o)' : p = q
                      /\ \A p \in Directed(o)' : Whereabouts(o)' \subseteq {p}
    BY DEF OnePlace
  <1>1. /\ ~moved[o]
        /\ \A p, q \in Whereabouts(o) : p = q
        /\ \A p \in Directed(o) : Whereabouts(o) \subseteq {p}
    BY MovedStays DEF OnePlace
  <1>2. CASE UNCHANGED modeVars
    <2>1. Directed(o)' = Directed(o)
      BY <1>2 DEF modeVars, Directed, Tenanted, Load
    <2>2. \A p \in Whereabouts(o)' : p \in Whereabouts(o) \/ p \in Directed(o)
      BY WhereaboutsMove
    <2> QED BY <1>1, <2>1, <2>2, DirectedToOne
  <1>3. CASE (\E n \in Namespace : EditSecret(n)) \/ Restart
    <2>1. ~NowElsewhere(o)
      BY <1>3 DEF EditSecret, Restart
    <2>2. \A p \in Directed(o)' : Whereabouts(o) \ {p} = {}
      BY <2>1 DEF NowElsewhere
    <2>3. store' = store /\ jobs' = jobs /\ (call'[o] = call[o] \/ call'[o] = NoClient)
      BY <1>3 DEF EditSecret, Restart, svmVars
    <2>4. Whereabouts(o)' \subseteq Whereabouts(o)
      BY <2>3 DEF Whereabouts
    <2> QED BY <1>1, <2>2, <2>4
  <1> QED BY <1>2, <1>3, ModeMoves

\* Every step keeps an SVM from having two buckets of a name.
LEMMA StepOneBucket ==
  ASSUME TypeInv, OneBucket, [Next]_vars PROVE OneBucket'
  <1> SUFFICES ASSUME NEW a \in store', NEW b \in store', a.object = b.object, a.at = b.at
               PROVE  a = b
    BY DEF OneBucket
  <1>1. ASSUME NEW c \in store', c \notin store
        PROVE  /\ store' = store \union {c}
               /\ \A d \in store : ~(d.object = c.object /\ d.at = c.at)
    <2>1. PICK j \in jobs : /\ c = MadeBy(j) /\ listBucketsByName(j.object, j.at) = {}
                           /\ store' = store \union {c}
      BY <1>1, StoreMoves
    <2> QED BY <2>1, MadeType DEF listBucketsByName
  <1> QED BY <1>1 DEF OneBucket

\* Every step keeps what a delete has found.
LEMMA StepLookupStands ==
  ASSUME TypeInv, JobFitsCall, OnePlace, OneBucket, LookupStands, [Next]_vars
  PROVE  LookupStands'
  <1> SUFFICES ASSUME NEW o \in Object, call'[o] # NoClient, call'[o].op = "delete", ~moved'[o],
                      NEW b \in store', b.object = o
               PROVE  /\ call'[o].pc \in {"send", "wait"} => b.late \/ b.uuid = call'[o].uuid
                      /\ call'[o].pc = "success" => b.late
    BY DEF LookupStands
  <1>1. ~moved[o]
    BY MovedStays
  <1>2. CASE call'[o].pc = "lookup"
    BY <1>2
  <1>3. CASE call'[o].pc # "lookup"
    <2>1. call[o] # NoClient /\ call'[o].client = call[o].client /\ call[o].op = "delete"
      BY <1>3, CallMoves
    <2>2. CASE b \notin store
      BY <2>1, <2>2, MadeLate
    <2>3. CASE b \in store
      <3>1. CASE call'[o] = call[o]
        BY <1>1, <2>1, <2>3, <3>1 DEF LookupStands
      <3>2. CASE Lookup(o)
        <4>1. PICK a \in Here(o) : call'[o].uuid = a.uuid /\ call'[o].pc = "send"
          BY <2>1, <3>2, LookupCalls
        <4>2. b.at = Place(call[o].client)
          BY <1>1, <2>1, <2>3, InWhereabouts DEF OnePlace
        <4>3. a = b
          BY <2>3, <4>1, <4>2 DEF Here, listBucketsByName, OneBucket
        <4> QED BY <4>1, <4>3
      <3>3. CASE Send(o)
        BY <1>1, <2>1, <2>3, <3>3, SendCalls DEF LookupStands, At
      <3>4. ASSUME NEW j \in jobs, RunJob(j), Awaits(o, j)
            PROVE  /\ call'[o].pc \in {"success", "failure"}
                   /\ call'[o].pc = "success" => b.late
        <4>1. j.object = o /\ j.op = "delete" /\ j.uuid = call[o].uuid
          BY <2>1, <3>4, AwaitedIsOwn
        <4>2. b.late \/ b.uuid = call[o].uuid
          BY <1>1, <2>1, <2>3, <3>4 DEF LookupStands, Awaits, At
        <4>3. /\ call'[o].pc \in {"success", "failure"}
              /\ call'[o].pc = "success" => store' = store \ WithUUID(o, call[o].uuid)
          BY <3>4, <4>1, RunCalls
        <4> QED BY <2>3, <4>2, <4>3 DEF WithUUID
      <3>5. ASSUME NEW j \in jobs, RunJob(j), ~Awaits(o, j) PROVE call'[o] = call[o]
        BY <3>5, RunCalls
      <3>6. ASSUME NEW x \in Object, x # o,
                   Begin(x) \/ Lookup(x) \/ Send(x) \/ Wait(x) \/ GiveUp(x)
            PROVE  call'[o] = call[o]
        BY <3>6, BeginCalls, LookupCalls, SendCalls, EndCalls
      <3>7. ~Wait(o) /\ ~GiveUp(o) /\ ~Restart /\ ~Begin(o)
        BY <2>1, EndCalls DEF Restart, Begin
      <3>8. ASSUME (\E x \in Object : Apply(x) \/ Delete(x))
                   \/ (\E n \in Namespace : EditSecret(n)) \/ UNCHANGED vars
            PROVE  call' = call
        BY <3>8 DEF Apply, Delete, EditSecret, vars
      <3> QED BY <3>1, <3>2, <3>3, <3>4, <3>5, <3>6, <3>7, <3>8, Steps
    <2> QED BY <2>2, <2>3
  <1> QED BY <1>2, <1>3

\* An object goes when a delete finds nothing, or its job is done.
LEMMA GoneBy ==
  ASSUME TypeInv, [Next]_vars, NEW o \in Object, obj[o] # "gone", obj'[o] = "gone"
  PROVE  /\ call[o] # NoClient /\ call[o].op = "delete" /\ store' = store
         /\ At(o, "success") \/ Here(o) = {}
  <1>1. ASSUME NEW x \in Object, Succeed(x)
        PROVE  x = o /\ call[o].op = "delete"
    BY <1>1 DEF Succeed, TypeInv
  <1>2. ASSUME NEW x \in Object, Apply(x) \/ Delete(x) PROVE FALSE
    BY <1>2 DEF Apply, Delete, TypeInv
  <1>3. obj' # obj
    OBVIOUS
  <1>4. ASSUME NEW x \in Object, Lookup(x)
        PROVE  /\ call[o] # NoClient /\ call[o].op = "delete" /\ store' = store /\ Here(o) = {}
    BY <1>1, <1>3, <1>4 DEF Lookup, Fail, At, svmVars
  <1>5. ASSUME NEW x \in Object, Wait(x)
        PROVE  /\ call[o] # NoClient /\ call[o].op = "delete" /\ store' = store
               /\ At(o, "success")
    BY <1>1, <1>3, <1>5 DEF Wait, Fail, At, svmVars
  <1>6. ASSUME \/ \E x \in Object : Begin(x) \/ Send(x) \/ GiveUp(x)
               \/ \E j \in jobs : RunJob(j)
               \/ \E n \in Namespace : EditSecret(n)
               \/ Restart \/ UNCHANGED vars
        PROVE  obj' = obj
    BY <1>6 DEF Begin, Send, GiveUp, Fail, RunJob, EditSecret, Restart, vars
  <1> QED BY <1>2, <1>3, <1>4, <1>5, <1>6, Steps

\* Every step loses a bucket only by a move or to a late job.
LEMMA StepLost ==
  ASSUME CallsInv, OnePlace, LookupStands, LostOnlyByMoveOrLateJob, [Next]_vars
  PROVE  LostOnlyByMoveOrLateJob'
  <1> SUFFICES ASSUME NEW b \in store', obj'[b.object] = "gone"
               PROVE  moved'[b.object] \/ b.late
    BY DEF LostOnlyByMoveOrLateJob
  <1> DEFINE o == b.object
  <1>1. TypeInv /\ JobFitsCall /\ CallFitsObject
    BY DEF CallsInv
  <1>2. o \in Object
    BY <1>1, StepType DEF TypeInv, Bucket
  <1>3. CASE b \notin store
    <2>1. obj' = obj
      BY <1>1, <1>3, StoreMoves DEF RunJob
    <2>2. call[o] = NoClient
      BY <1>1, <1>2, <2>1 DEF CallFitsObject
    <2> QED BY <1>1, <1>3, <2>2, MadeLate
  <1>4. CASE b \in store /\ obj[o] = "gone"
    BY <1>1, <1>2, <1>4, MovedStays DEF LostOnlyByMoveOrLateJob
  <1>5. CASE b \in store /\ obj[o] # "gone"
    <2>1. /\ call[o] # NoClient /\ call[o].op = "delete"
          /\ At(o, "success") \/ Here(o) = {}
      BY <1>1, <1>2, <1>5, GoneBy
    <2>2. CASE moved[o]
      BY <1>1, <1>2, <2>2, MovedStays
    <2>3. CASE ~moved[o] /\ At(o, "success")
      BY <1>2, <1>5, <2>1, <2>3 DEF LookupStands, At
    <2>4. CASE ~moved[o] /\ Here(o) = {}
      <3>1. b.at = Place(call[o].client)
        BY <1>2, <1>5, <2>1, <2>4, InWhereabouts DEF OnePlace
      <3> QED BY <1>5, <2>4, <3>1 DEF Here, listBucketsByName
    <2> QED BY <2>1, <2>2, <2>3, <2>4
  <1> QED BY <1>3, <1>4, <1>5

\* A step keeps what is known of calls.
LEMMA StepCalls == CallsInv /\ [Next]_vars => CallsInv'
  BY StepType, StepJobFitsCall, StepCallFitsObject, StepDeletesFit DEF CallsInv

\* Where buckets are and how they are lost.
LEMMA Loss == Spec => []LossInv
  <1>1. Init => LossInv
    <2> SUFFICES ASSUME Init PROVE LossInv
      OBVIOUS
    <2>1. TypeInv
      BY OwnersAssumption, ModeAssumption DEF Init, TypeInv, ObjState
    <2>2. JobFitsCall /\ CallFitsObject /\ DeletesFit
      BY DEF Init, JobFitsCall, CallFitsObject, DeletesFit
    <2>3. OnePlace
      BY DEF Init, OnePlace, Whereabouts
    <2> QED BY <2>1, <2>2, <2>3 DEF Init, LossInv, CallsInv, OneBucket, LookupStands,
               LostOnlyByMoveOrLateJob
  <1>2. LossInv /\ [Next]_vars => LossInv'
    <2> SUFFICES ASSUME LossInv, [Next]_vars PROVE LossInv'
      OBVIOUS
    <2>1. CallsInv' /\ TypeInv /\ JobFitsCall
      BY StepCalls DEF LossInv, CallsInv
    <2>2. OnePlace' /\ OneBucket'
      BY <2>1, StepOnePlace, StepOneBucket DEF LossInv
    <2>3. LookupStands'
      BY <2>1, StepLookupStands DEF LossInv
    <2>4. LostOnlyByMoveOrLateJob'
      BY StepLost DEF LossInv
    <2> QED BY <2>1, <2>2, <2>3, <2>4 DEF LossInv
  <1> QED BY <1>1, <1>2, PTL DEF Spec

\* A bucket outlives its object only when edits or restarts made calls for the
\* object lead to another SVM while there was a bucket, a job or a call at the
\* first, or when a job made it after its call had ended: Secrets that are
\* missing or wrong only delay a deletion (resolveClient fails and the delete is
\* tried again), and a restart loses nothing but what its jobs still make.
THEOREM LossNeedsMoveOrLateJob == Spec => []LostOnlyByMoveOrLateJob
  <1>1. LossInv => LostOnlyByMoveOrLateJob
    BY DEF LossInv
  <1> QED BY <1>1, Loss, PTL

----------------------------------------------------------------------------
(* What consumers of a bucket are told.                                    *)

\* No bucket of an object is taken away before the object is deleted.
LEMMA BucketStays ==
  ASSUME CallsInv, [Next]_vars, NEW o \in Object, obj[o] \notin {"deleting", "gone"},
         NEW b \in store, b.object = o
  PROVE  b \in store'
  <1>1. TypeInv /\ DeletesFit
    BY DEF CallsInv
  <1>2. ASSUME NEW j \in jobs, RunJob(j) PROVE b \in store'
    <2>1. j.op = "delete" => j.object # o
      BY <1>1 DEF DeletesFit
    <2> QED BY <1>1, <1>2, <2>1, RunStore DEF WithUUID
  <1> QED BY <1>2, Steps DEF vars, svmVars, Apply, Delete, Begin, Lookup, Send, Wait, GiveUp,
             EditSecret, Restart

\* Every step keeps the bucket of a create whose job is done.
LEMMA StepCreateStands ==
  ASSUME CallsInv, CreateStands, [Next]_vars PROVE CreateStands'
  <1> SUFFICES ASSUME NEW o \in Object, call'[o] # NoClient, call'[o].pc = "success",
                      call'[o].op = "create", obj'[o] = "wanted"
               PROVE  Here(o)' # {}
    BY DEF CreateStands, At
  <1>1. TypeInv /\ JobFitsCall /\ CallFitsObject
    BY DEF CallsInv
  <1>2. call[o] # NoClient /\ call'[o].client = call[o].client /\ call[o].op = "create"
    BY <1>1, CallMoves
  <1>3. obj[o] = "wanted"
    BY <1>1, <1>2, ObjMoves DEF CallFitsObject
  <1>4. SUFFICES \E b \in store' : b.object = o /\ b.at = Place(call[o].client)
    BY <1>2 DEF Here, listBucketsByName
  <1>5. CASE call'[o] = call[o]
    <2>1. Here(o) # {}
      BY <1>2, <1>3, <1>5 DEF CreateStands, At
    <2>2. PICK b \in store : b.object = o /\ b.at = Place(call[o].client)
      BY <2>1 DEF Here, listBucketsByName
    <2> QED BY <1>3, <2>2, BucketStays
  <1>6. ASSUME NEW j \in jobs, RunJob(j), Awaits(o, j)
        PROVE  \E b \in store' : b.object = o /\ b.at = Place(call[o].client)
    <2>1. j.object = o /\ j.op = "create" /\ j.at = Place(call[o].client)
      BY <1>1, <1>2, <1>6, AwaitedIsOwn
    <2>2. store' = store \union {MadeBy(j)}
      BY <1>1, <1>6, <2>1, RunCalls
    <2> QED BY <1>1, <2>1, <2>2, MadeType
  <1>7. ASSUME NEW j \in jobs, RunJob(j), ~Awaits(o, j) PROVE call'[o] = call[o]
    BY <1>1, <1>7, RunCalls
  <1>8. ASSUME NEW x \in Object, x # o,
               Begin(x) \/ Lookup(x) \/ Send(x) \/ Wait(x) \/ GiveUp(x)
        PROVE  call'[o] = call[o]
    BY <1>1, <1>8, BeginCalls, LookupCalls, SendCalls, EndCalls
  <1>9. ~Wait(o) /\ ~GiveUp(o) /\ ~Restart /\ ~Begin(o) /\ ~Lookup(o) /\ ~Send(o)
    BY <1>1, <1>2, LookupCalls, SendCalls, EndCalls DEF Restart, Begin
  <1>10. ASSUME (\E x \in Object : Apply(x) \/ Delete(x))
                \/ (\E n \in Namespace : EditSecret(n)) \/ UNCHANGED vars
         PROVE  call' = call
    BY <1>10 DEF Apply, Delete, EditSecret, vars
  <1> QED BY <1>5, <1>6, <1>7, <1>8, <1>9, <1>10, Steps

\* An object becomes ready by a create that found its bucket, or whose job is done.
LEMMA ReadyBy ==
  ASSUME TypeInv, [Next]_vars, NEW o \in Object, obj'[o] = "ready"
  PROVE  \/ obj[o] = "ready" /\ info'[o] = info[o]
         \/ /\ call[o] # NoClient /\ call[o].op = "create" /\ obj[o] = "wanted"
            /\ store' = store /\ info'[o] = bucketProtocols(call[o].client)
            /\ At(o, "success") \/ (Served(call[o].client) /\ Here(o) # {})
  <1>1. CASE obj' = obj /\ info' = info
    BY <1>1
  <1>2. ASSUME NEW x \in Object, Succeed(x), ~(obj[o] = "ready" /\ info'[o] = info[o])
        PROVE  /\ x = o /\ call[o].op = "create" /\ obj[o] = "wanted"
               /\ info'[o] = bucketProtocols(call[o].client)
    <2>1. CASE /\ call[x].op = "create" /\ obj[x] = "wanted"
               /\ info' = [info EXCEPT ![x] = bucketProtocols(call[x].client)]
               /\ obj' = [obj EXCEPT ![x] = "ready"]
      BY <1>2, <2>1 DEF TypeInv
    <2>2. CASE UNCHANGED <<obj, info>>
      BY <1>2, <2>2
    <2>3. CASE obj' = [obj EXCEPT ![x] = "gone"] /\ UNCHANGED info
      BY <1>2, <2>3 DEF TypeInv
    <2> QED BY <1>2, <2>1, <2>2, <2>3 DEF Succeed
  <1>3. ASSUME NEW x \in Object, Apply(x) \/ Delete(x)
        PROVE  obj[o] = "ready" /\ info'[o] = info[o]
    BY <1>3 DEF Apply, Delete, TypeInv
  <1>4. ASSUME NEW x \in Object, Lookup(x), Succeed(x),
               ~(obj[o] = "ready" /\ info'[o] = info[o])
        PROVE  /\ call[o] # NoClient /\ store' = store
               /\ Served(call[o].client) /\ Here(o) # {}
    <2>1. x = o /\ call[o].op = "create" /\ call[o] # NoClient /\ store' = store
      BY <1>2, <1>4 DEF Lookup, At, svmVars
    <2>2. obj' # obj
      BY <1>2, <1>4, <2>1
    <2> QED BY <1>4, <2>1, <2>2 DEF Lookup, Fail
  <1>5. ASSUME NEW x \in Object, Wait(x), Succeed(x),
               ~(obj[o] = "ready" /\ info'[o] = info[o])
        PROVE  call[o] # NoClient /\ store' = store /\ At(o, "success")
    <2>1. x = o /\ obj[o] = "wanted"
      BY <1>2, <1>5
    <2> QED BY <1>5, <2>1 DEF Wait, Fail, At, svmVars
  <1>6. ASSUME NEW x \in Object, Lookup(x) \/ Wait(x), ~Succeed(x)
        PROVE  obj' = obj /\ info' = info
    BY <1>6 DEF Lookup, Wait, Fail
  <1>7. ASSUME \/ \E x \in Object : Begin(x) \/ Send(x) \/ GiveUp(x)
               \/ \E j \in jobs : RunJob(j)
               \/ \E n \in Namespace : EditSecret(n)
               \/ Restart \/ UNCHANGED vars
        PROVE  obj' = obj /\ info' = info
    BY <1>7 DEF Begin, Send, GiveUp, Fail, RunJob, EditSecret, Restart, vars
  <1> QED BY <1>1, <1>2, <1>3, <1>4, <1>5, <1>6, <1>7, Steps

\* Every step keeps what a ready object advertises and the bucket it is about.
LEMMA StepReadyAdvertised ==
  ASSUME IsolationInv, CallsInv, CreateStands, ReadyAdvertised, [Next]_vars
  PROVE  ReadyAdvertised'
  <1> SUFFICES ASSUME NEW o \in Object, obj'[o] = "ready"
               PROVE  \E c \in Client :
                        /\ MayServe(c, o)' /\ Served(c) /\ info'[o] = bucketProtocols(c)
                        /\ \E b \in store' : b.object = o /\ b.at = Place(c)
    BY DEF ReadyAdvertised, listBucketsByName
  <1>1. TypeInv /\ JobFitsCall
    BY DEF CallsInv
  <1>2. ASSUME NEW c, MayServe(c, o) PROVE MayServe(c, o)'
    <2>1. owner' = owner /\ (owner[o] # NoNamespace => owner[o] \in Namespace)
      BY <1>1, ModeMoves DEF TypeInv
    <2>2. \A n \in Namespace : named[n] \subseteq named'[n]
      BY <1>1, ModeMoves
    <2> QED BY <1>2, <2>1, <2>2 DEF MayServe, OfTenant
  <1>3. CASE obj[o] = "ready" /\ info'[o] = info[o]
    <2>1. PICK c \in Client : /\ MayServe(c, o) /\ Served(c) /\ info[o] = bucketProtocols(c)
                             /\ listBucketsByName(o, Place(c)) # {}
      BY <1>3 DEF ReadyAdvertised
    <2>2. PICK b \in store : b.object = o /\ b.at = Place(c)
      BY <2>1 DEF listBucketsByName
    <2>3. b \in store'
      BY <1>3, <2>2, BucketStays
    <2>4. MayServe(c, o)'
      BY <1>2, <2>1
    <2> QED BY <1>3, <2>1, <2>2, <2>3, <2>4
  <1>4. CASE /\ call[o] # NoClient /\ call[o].op = "create" /\ obj[o] = "wanted"
             /\ store' = store /\ info'[o] = bucketProtocols(call[o].client)
             /\ At(o, "success") \/ (Served(call[o].client) /\ Here(o) # {})
    <2>1. PICK c \in Client : c = call[o].client
      BY <1>1, <1>4, CallType
    <2>2. Served(c) /\ Here(o) # {}
      BY <1>1, <1>4, <2>1 DEF At, JobFitsCall, CallFits, CreateStands
    <2>3. MayServe(c, o)
      BY <1>4, <2>1 DEF IsolationInv, CallsResolved, MayServe, Tenanted
    <2>4. MayServe(c, o)'
      BY <1>2, <2>3
    <2>5. \E b \in store' : b.object = o /\ b.at = Place(c)
      BY <1>4, <2>1, <2>2 DEF Here, listBucketsByName
    <2> QED BY <1>4, <2>1, <2>2, <2>4, <2>5
  <1> QED BY <1>1, <1>3, <1>4, ReadyBy

\* The S3 endpoint of a client made from the configuration cfg.
LEMMA EndpointOf ==
  ASSUME NEW cfg
  PROVE  LET c == NewFromConfig(cfg)
         IN  S3Endpoint(c).host = IF cfg["s3Endpoint"] = "" THEN c.base.host
                                  ELSE URL[cfg["s3Endpoint"]].host
  <1> DEFINE c == NewFromConfig(cfg)
             w == WithScheme(cfg["s3Endpoint"], cfg["s3UseSSL"])
  <1>1. c.s3Endpoint = IF cfg["s3Endpoint"] = "" THEN {} ELSE {w}
    BY DEF NewFromConfig
  <1>2. w.host = URL[cfg["s3Endpoint"]].host
    BY DEF WithScheme
  <1>3. CASE cfg["s3Endpoint"] = ""
    BY <1>1, <1>3 DEF S3Endpoint
  <1>4. CASE cfg["s3Endpoint"] # ""
    <2>1. (CHOOSE e \in c.s3Endpoint : TRUE) = w
      <3> HIDE DEF c, w
      <3>1. c.s3Endpoint = {w}
        BY <1>1, <1>4
      <3> QED BY <3>1
    <2> QED BY <1>1, <1>2, <1>4, <2>1 DEF S3Endpoint
  <1> QED BY <1>3, <1>4

\* The S3 endpoint of a client that the SVM y serves is one of y, or the driver's
\* own because the Secret has none.
LEMMA EndpointFits ==
  ASSUME WrittenEndpointsFit, TypeInv, NEW o \in Object, NEW c, MayServe(c, o),
         NEW y \in System, y.host = c.base.host, y.svm = c.svm
  PROVE  \/ ServesS3(y, S3Endpoint(c).host)
         \/ Inherited(o, S3Endpoint(c), Place(c))
  <1>1. CASE c = OwnClient
    <2>1. Names(Defaults, y)
      BY <1>1 DEF OwnClient, NewFromConfig, WithScheme, Names
    <2> QED BY <1>1, <2>1, EndpointOf DEF OwnClient, WrittenEndpointsFit, ServesS3
  <1>2. CASE owner[o] # NoNamespace /\ OfTenant(c, owner[o])
    <2>1. PICK s \in named[owner[o]] : tenantConfigOK(s) /\ c = NewFromConfig(tenantConfig(s))
      BY <1>2 DEF OfTenant
    <2>2. s \in Secret
      BY <1>2, <2>1 DEF TypeInv
    <2>3. Names(s, y) /\ Names(s, Place(c))
      BY <2>1, IdentityKept DEF Names
    <2>4. tenantConfig(s)["s3Endpoint"] =
             IF "s3Endpoint" \in Present(s) THEN s["s3Endpoint"] ELSE Defaults["s3Endpoint"]
      BY DEF tenantConfig, Key, BoolKey, TextKey
    <2>5. CASE "s3Endpoint" \in Present(s)
      <3>1. s["s3Endpoint"] # ""
        BY <2>5 DEF Present
      <3>2. IdentityKey \union {"s3Endpoint"} \subseteq Present(s)
        BY <2>1, <2>5 DEF tenantConfigOK
      <3> QED BY <2>1, <2>2, <2>3, <2>4, <2>5, <3>1, <3>2, EndpointOf DEF WrittenEndpointsFit
    <2>6. CASE "s3Endpoint" \notin Present(s) /\ Defaults["s3Endpoint"] = ""
      BY <2>1, <2>4, <2>6, EndpointOf DEF ServesS3
    <2>7. CASE "s3Endpoint" \notin Present(s) /\ Defaults["s3Endpoint"] # ""
      BY <1>2, <2>1, <2>3, <2>4, <2>7, EndpointOf DEF Inherited
    <2> QED BY <2>5, <2>6, <2>7
  <1> QED BY <1>1, <1>2 DEF MayServe

\* If the S3 endpoint that is written next to the identity of an SVM is one of
\* that SVM, a ready object tells its consumers an endpoint of the SVM that has
\* its bucket, or the driver's own S3 endpoint, and that only when the bucket was
\* made with a Secret that has none.  Edits, restarts and late jobs change neither.
THEOREM AdvertisesItsOwn == WrittenEndpointsFit => (Spec => []AdvertisedIsOwn)
  <1> SUFFICES ASSUME WrittenEndpointsFit PROVE Spec => []AdvertisedIsOwn
    OBVIOUS
  <1> DEFINE Inv == CreateStands /\ ReadyAdvertised
  <1>1. Init => Inv
    BY DEF Init, CreateStands, ReadyAdvertised, At
  <1>2. IsolationInv /\ LossInv /\ Inv /\ [Next]_vars => Inv'
    BY StepCreateStands, StepReadyAdvertised DEF LossInv
  <1>3. IsolationInv /\ ReadyAdvertised => AdvertisedIsOwn
    <2> SUFFICES ASSUME IsolationInv, ReadyAdvertised, NEW o \in Object, obj[o] = "ready",
                        NEW e \in info[o]
                 PROVE  \E b \in store :
                          /\ b.object = o
                          /\ \/ \E y \in System : /\ y.host = b.at.host /\ y.svm = b.at.svm
                                                   /\ ServesS3(y, e.host)
                             \/ Inherited(o, e, b.at)
      BY DEF AdvertisedIsOwn
    <2>1. PICK c \in Client : /\ MayServe(c, o) /\ Served(c) /\ info[o] = bucketProtocols(c)
                             /\ listBucketsByName(o, Place(c)) # {}
      BY DEF ReadyAdvertised
    <2>2. e = S3Endpoint(c)
      BY <2>1 DEF bucketProtocols
    <2>3. PICK b \in store : b.object = o /\ b.at = Place(c)
      BY <2>1 DEF listBucketsByName
    <2>4. PICK y \in System : y.host = c.base.host /\ y.svm = c.svm
      BY <2>1 DEF Served
    <2>5. ServesS3(y, e.host) \/ Inherited(o, e, Place(c))
      BY <2>1, <2>2, <2>4, EndpointFits DEF IsolationInv
    <2>6. y.host = b.at.host /\ y.svm = b.at.svm
      BY <2>3, <2>4 DEF Place
    <2> QED BY <2>3, <2>5, <2>6
  <1> QED BY <1>1, <1>2, <1>3, Isolation, Loss, PTL DEF Spec
====
