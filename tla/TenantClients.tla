------------------------------ MODULE TenantClients ------------------------------
(***************************************************************************)
(* Which ONTAP system an RPC works on: resolveClient                       *)
(* (src/pkg/driver/provisioner.go), the tenant credentials loader          *)
(* (src/pkg/driver/multitenant.go) and NewFromConfig                       *)
(* (src/pkg/clients/s3/s3.go), while tenants edit their Secrets and the    *)
(* driver is restarted with multi-tenant mode on or off.                   *)
(*                                                                         *)
(* A call reads the Secret once and works with the client made from it to  *)
(* its end: a lookup, a request that queues a job, the wait for the job.   *)
(* A job outlives the call that has given up on it, and the driver.  The   *)
(* sidecar calls again until it gets OK, unless the code of the error is   *)
(* terminal.                                                               *)
(***************************************************************************)
EXTENDS Naturals

CONSTANTS
    Object,        \* Bucket objects; their names are never used again
    Namespace,     \* tenant namespaces
    NoNamespace,   \* no tenant namespace is recorded for the object
    Owners,        \* assignments of objects to namespaces to choose from
    Secret,        \* contents a tenant's Secret can have: see Key
    NoSecret,      \* there is no Secret
    Env,           \* the environment of the driver, under the same keys
    URL,           \* URL[t]: what the text t of an endpoint says
    File,          \* File[p]: content of the CA file with path p
    ValidPEM,      \* texts that hold a certificate
    System,        \* ONTAP SVMs: where they are managed, where they serve S3,
                   \* and who may log in
    NoClient,      \* no call is in progress
    StartModes,    \* multi-tenant mode when the driver is first started
    MaxEdits,      \* bound on edits of Secrets
    MaxRestarts,   \* bound on restarts of the driver
    MaxFaults      \* bound on calls given up and jobs that fail

VARIABLES
    owner,         \* owner[o]: the namespace the sidecar sends with calls for o
    multiTenant,   \* ONTAP_MULTITENANT of the running driver
    secrets,       \* secrets[n]: the credentials Secret of namespace n
    obj,           \* obj[o]: the Bucket object, seen by the sidecar
    queued,        \* queued[o]: the sidecar will call (again) for o
    call,          \* call[o]: the call in progress for o
    info,          \* info[o]: the S3 endpoint recorded in the object
    store,         \* the buckets, and where they are
    jobs,          \* the jobs the SVMs have queued
    serial,        \* jobs queued so far; a job's number is its id
    named,         \* history: named[n], the Secrets with an identity n has had
    ranOff,        \* history: multi-tenant mode has been off
    moved,         \* history: moved[o], calls for o came to lead elsewhere
    edits, restarts, faults

svmVars == <<store, jobs, serial>>

modeVars == <<owner, multiTenant, secrets, named, ranOff, moved, edits, restarts>>

vars == <<obj, queued, call, info, svmVars, modeVars, faults>>

----------------------------------------------------------------------------
(* tenantConfig.                                                           *)

\* The keys of a Secret, and the fields of a configuration they set.
IdentityKey == {"endpoint", "svm", "user", "password"}
BoolKey == {"useSSL", "skipVerify", "s3UseSSL"}
TextKey == {"caPath", "caPEM", "region", "s3Endpoint"}

Key == IdentityKey \union BoolKey \union TextKey

\* strconv.ParseBool.
TrueText == {"1", "t", "T", "true", "TRUE", "True"}
FalseText == {"0", "f", "F", "false", "FALSE", "False"}

\* strings.TrimSpace leaves nothing.
Blank == {"", " "}

\* defaultEnv and asBool: an unset or empty variable has its default, a blank one
\* is empty, and a boolean that does not parse is false.
defaultEnv(k, default) ==
    IF k \notin DOMAIN Env \/ Env[k] = "" THEN default
    ELSE IF Env[k] \in Blank THEN "" ELSE Env[k]

asBool(k, default) == defaultEnv(k, default) \in TrueText

\* The driver's own configuration (main, run); there is no variable for a CA text.
Defaults ==
    [k \in Key |->
        CASE k = "useSSL" -> asBool(k, "true")
          [] k = "skipVerify" -> asBool(k, "false")
          [] k = "s3UseSSL" -> asBool(k, IF asBool("useSSL", "true") THEN "true" ELSE "false")
          [] k = "caPEM" -> ""
          [] OTHER -> defaultEnv(k, "")]

\* An empty value counts as an absent key.
Present(s) == {k \in DOMAIN s : s[k] # ""}

\* Mutant: the password may come from the driver's own configuration.
tenantConfigOKPartly(s) ==
    /\ IdentityKey \ {"password"} \subseteq Present(s)
    /\ \A k \in BoolKey \intersect Present(s) : s[k] \in TrueText \union FalseText

tenantConfigOK(s) ==
    /\ IdentityKey \subseteq Present(s)
    /\ \A k \in BoolKey \intersect Present(s) : s[k] \in TrueText \union FalseText

\* Mutant: a Secret's S3 endpoint is not read.
tenantConfigKeepsS3(s) ==
    [k \in Key |-> IF k \notin Present(s) \/ k = "s3Endpoint" THEN Defaults[k]
                   ELSE IF k \in BoolKey THEN s[k] \in TrueText ELSE s[k]]

tenantConfig(s) ==
    [k \in Key |-> IF k \notin Present(s) THEN Defaults[k]
                   ELSE IF k \in BoolKey THEN s[k] \in TrueText ELSE s[k]]

----------------------------------------------------------------------------
(* NewFromConfig, S3Endpoint.                                              *)

Scheme(ssl) == IF ssl THEN "https" ELSE "http"

\* An endpoint without an explicit scheme gets the one the SSL flag selects.
WithScheme(t, ssl) ==
    [scheme |-> IF URL[t].scheme = "" THEN Scheme(ssl) ELSE URL[t].scheme, host |-> URL[t].host]

\* The CA certificate is only looked at when SSL is on; an inline one hides the
\* path, and an empty file means the system's CAs.
CertificateOK(cfg) ==
    \/ ~cfg["useSSL"]
    \/ cfg["caPEM"] \in ValidPEM
    \/ cfg["caPEM"] = "" /\ cfg["caPath"] = ""
    \/ /\ cfg["caPEM"] = "" /\ cfg["caPath"] \in DOMAIN File
       /\ File[cfg["caPath"]] \in ValidPEM \union {""}

NewFromConfigOK(cfg) ==
    /\ cfg["endpoint"] \notin Blank /\ cfg["svm"] \notin Blank
    /\ URL[cfg["endpoint"]].valid
    /\ CertificateOK(cfg)

NewFromConfig(cfg) ==
    [base |-> WithScheme(cfg["endpoint"], cfg["useSSL"]),
     svm |-> cfg["svm"], user |-> cfg["user"], password |-> cfg["password"],
     s3Endpoint |-> IF cfg["s3Endpoint"] = "" THEN {}
                    ELSE {WithScheme(cfg["s3Endpoint"], cfg["s3UseSSL"])},
     s3UseSSL |-> cfg["s3UseSSL"]]

\* The endpoint consumers of a bucket are told.
S3Endpoint(c) ==
    IF c.s3Endpoint # {} THEN CHOOSE e \in c.s3Endpoint : TRUE
    ELSE [scheme |-> Scheme(c.s3UseSSL), host |-> c.base.host]

\* What a create tells the sidecar of the bucket: how to reach it.
bucketProtocols(c) == {S3Endpoint(c)}

----------------------------------------------------------------------------
(* resolveClient.                                                          *)

\* The client that Load makes of a Secret, if it makes one (a constant, computed
\* once).
ClientOf ==
    [s \in Secret \union {NoSecret} |->
        IF s # NoSecret /\ tenantConfigOK(s) /\ NewFromConfigOK(tenantConfig(s))
          THEN NewFromConfig(tenantConfig(s)) ELSE NoClient]

Load(n) == ClientOf[secrets[n]]

\* The driver's own client, made when it started.
OwnClient == NewFromConfig(Defaults)

Tenanted(o) == multiTenant /\ owner[o] # NoNamespace

\* Mutant: without usable tenant credentials the driver uses its own.
resolveClientFallsBack(o) ==
    IF Tenanted(o) /\ Load(owner[o]) # NoClient THEN Load(owner[o]) ELSE OwnClient

\* The client of a call for o; NoClient when the loader fails.
resolveClient(o) ==
    IF Tenanted(o) THEN Load(owner[o]) ELSE OwnClient

\* Mutant: the loader's errors are reported as terminal.
LoadErrorTerminal == "ResourceExhausted"

\* The code of the loader's errors.
LoadError == "Unavailable"

\* The SVM a client works on.
Place(c) == [host |-> c.base.host, svm |-> c.svm]

\* The SVM answers: it is there and takes the credentials.
Served(c) ==
    \E y \in System : /\ y.host = c.base.host /\ y.svm = c.svm
                      /\ y.user = c.user /\ y.password = c.password

----------------------------------------------------------------------------
(* The sidecar's calls.                                                    *)

\* Codes after which the sidecar does not call again by itself.
Terminal == {"ResourceExhausted"}

\* The user makes a Bucket object, or deletes it; either is reconciled.
Apply(o) ==
    /\ obj[o] = "none"
    /\ obj' = [obj EXCEPT ![o] = "wanted"]
    /\ queued' = [queued EXCEPT ![o] = TRUE]
    /\ UNCHANGED <<call, info, svmVars, modeVars, faults>>

Delete(o) ==
    /\ obj[o] \in {"wanted", "ready"}
    /\ obj' = [obj EXCEPT ![o] = "deleting"]
    /\ queued' = [queued EXCEPT ![o] = TRUE]
    /\ UNCHANGED <<call, info, svmVars, modeVars, faults>>

\* The sidecar calls: the handler resolves its client, or fails right away.
Begin(o) ==
    /\ queued[o] /\ call[o] = NoClient
    /\ LET c == resolveClient(o)
       IN  /\ queued' = [queued EXCEPT ![o] = c = NoClient /\ LoadError \notin Terminal]
           /\ call' = [call EXCEPT ![o] =
                IF c = NoClient THEN NoClient
                ELSE [client |-> c, op |-> IF obj[o] = "wanted" THEN "create" ELSE "delete",
                      pc |-> "lookup", uuid |-> 0, job |-> {}]]
    /\ UNCHANGED <<obj, info, svmVars, modeVars, faults>>

\* A call for o is in progress, and has come to l.
At(o, l) == call[o] # NoClient /\ call[o].pc = l

\* The call is answered with an error, and the sidecar will call again.
Fail(o) ==
    /\ call' = [call EXCEPT ![o] = NoClient]
    /\ queued' = [queued EXCEPT ![o] = TRUE]
    /\ UNCHANGED <<obj, info>>

\* The call is answered OK; an answer to a create that comes when the object is
\* being deleted is of no use any more.
Succeed(o) ==
    /\ call' = [call EXCEPT ![o] = NoClient]
    /\ \/ /\ call[o].op = "create" /\ obj[o] = "wanted"
          /\ info' = [info EXCEPT ![o] = bucketProtocols(call[o].client)]
          /\ obj' = [obj EXCEPT ![o] = "ready"]
       \/ /\ call[o].op = "create" /\ obj[o] # "wanted"
          /\ UNCHANGED <<obj, info>>
       \/ /\ call[o].op = "delete"
          /\ obj' = [obj EXCEPT ![o] = "gone"]
          /\ UNCHANGED info
    /\ UNCHANGED queued

\* What a listing by the name of o returns at the SVM p.
listBucketsByName(o, p) == {b \in store : b.object = o /\ b.at = p}

Here(o) == listBucketsByName(o, Place(call[o].client))

\* The first request: BucketExists of a create, which ends it when the bucket is
\* there; bucketByName of a delete, which ends it when there is none.
Lookup(o) ==
    /\ At(o, "lookup")
    /\ \/ ~Served(call[o].client) /\ Fail(o)
       \/ /\ Served(call[o].client)
          /\ (Here(o) = {}) = (call[o].op = "delete")
          /\ Succeed(o)
       \/ /\ Served(call[o].client)
          /\ call[o].op = "create" /\ Here(o) = {}
          /\ call' = [call EXCEPT ![o].pc = "send"]
          /\ UNCHANGED <<obj, queued, info>>
       \/ /\ Served(call[o].client) /\ call[o].op = "delete"
          /\ \E b \in Here(o) : call' = [call EXCEPT ![o].pc = "send", ![o].uuid = b.uuid]
          /\ UNCHANGED <<obj, queued, info>>
    /\ UNCHANGED <<svmVars, modeVars, faults>>

\* The bucket of o with this UUID; a UUID is never given twice.
WithUUID(o, u) == {b \in store : b.object = o /\ b.uuid = u}

\* The SVM takes a POST for a name that is free, and a DELETE of a UUID it knows.
Accepts(o) ==
    IF call[o].op = "create" THEN Here(o) = {} ELSE WithUUID(o, call[o].uuid) # {}

\* The job the request asks for; a bucket gets the id of its job as UUID.
NewJob(o) ==
    [id |-> serial + 1, op |-> call[o].op, object |-> o, at |-> Place(call[o].client),
     uuid |-> IF call[o].op = "create" THEN serial + 1 ELSE call[o].uuid]

\* createBucketAsync, deleteBucketAsync.
Send(o) ==
    /\ At(o, "send")
    /\ \/ /\ ~Accepts(o) /\ Fail(o)
          /\ UNCHANGED svmVars
       \/ /\ Accepts(o)
          /\ jobs' = jobs \union {NewJob(o)} /\ serial' = serial + 1
          /\ call' = [call EXCEPT ![o].pc = "wait", ![o].job = {NewJob(o)}]
          /\ UNCHANGED <<store, obj, queued, info>>
    /\ UNCHANGED <<modeVars, faults>>

\* waitForJob sees the end of the job.
Wait(o) ==
    /\ \/ At(o, "success") /\ Succeed(o)
       \/ At(o, "failure") /\ Fail(o)
    /\ UNCHANGED <<svmVars, modeVars, faults>>

Fault == faults < MaxFaults /\ faults' = faults + 1

\* A request or its answer is lost, a poll fails or expires, or the caller gives
\* up.  A job that is queued stays so.
GiveUp(o) ==
    /\ call[o] # NoClient
    /\ Fault /\ Fail(o)
    /\ UNCHANGED <<svmVars, modeVars>>

----------------------------------------------------------------------------
(* The SVMs run their jobs, in any order.                                  *)

Awaits(o, j) == At(o, "wait") /\ j \in call[o].job

Finish(j, s) ==
    /\ jobs' = jobs \ {j}
    /\ call' = [o \in Object |-> IF Awaits(o, j) THEN [call[o] EXCEPT !.pc = s] ELSE call[o]]

\* The bucket a create job makes.  It is late when the call that asked for it had
\* ended by then.
MadeBy(j) ==
    [object |-> j.object, at |-> j.at, uuid |-> j.uuid, late |-> \A o \in Object : ~Awaits(o, j)]

RunJob(j) ==
    /\ \/ /\ j.op = "create" /\ listBucketsByName(j.object, j.at) = {}
          /\ store' = store \union {MadeBy(j)}
          /\ Finish(j, "success") /\ UNCHANGED faults
       \/ /\ j.op = "create" /\ listBucketsByName(j.object, j.at) # {}
          /\ Finish(j, "failure") /\ UNCHANGED <<store, faults>>
       \/ /\ j.op = "delete" /\ WithUUID(j.object, j.uuid) # {}
          /\ store' = store \ WithUUID(j.object, j.uuid)
          /\ Finish(j, "success") /\ UNCHANGED faults
       \/ /\ j.op = "delete" /\ WithUUID(j.object, j.uuid) = {}
          /\ Finish(j, "failure") /\ UNCHANGED <<store, faults>>
       \/ Fault /\ Finish(j, "failure") /\ UNCHANGED store
    /\ UNCHANGED <<obj, queued, info, serial, modeVars>>

RunJobs(o) == \E j \in {x \in jobs : x.object = o} : RunJob(j)

----------------------------------------------------------------------------
(* The environment.                                                        *)

\* The SVM that the mode and the Secret direct calls for o to, if any.
Directed(o) ==
    IF ~Tenanted(o) THEN {Place(OwnClient)}
    ELSE IF Load(owner[o]) = NoClient THEN {} ELSE {Place(Load(owner[o]))}

\* Where the bucket of o is, may come to be, or is being deleted.
Whereabouts(o) ==
    {b.at : b \in {x \in store : x.object = o}}
        \union {j.at : j \in {x \in jobs : x.object = o /\ x.op = "create"}}
        \union (IF call[o] = NoClient THEN {} ELSE {Place(call[o].client)})

NowElsewhere(o) == moved[o] \/ \E p \in Directed(o)' : Whereabouts(o) \ {p} # {}

\* A tenant makes, changes or removes its Secret.
EditSecret(n) ==
    /\ edits < MaxEdits /\ edits' = edits + 1
    /\ \E s \in Secret \union {NoSecret} :
          /\ s # secrets[n]
          /\ secrets' = [secrets EXCEPT ![n] = s]
          /\ named' = [named EXCEPT ![n] =
                IF s = NoSecret \/ ~(IdentityKey \subseteq Present(s)) THEN @ ELSE @ \union {s}]
    /\ UNCHANGED <<obj, queued, call, info, svmVars, owner, multiTenant, ranOff, restarts, faults>>
    /\ moved' = [o \in Object |-> NowElsewhere(o)]

\* The driver is restarted, with multi-tenant mode on or off: the calls in progress
\* are over and the sidecar calls again; their jobs are not remembered and go on.
Restart ==
    /\ restarts < MaxRestarts /\ restarts' = restarts + 1
    /\ multiTenant' \in BOOLEAN
    /\ ranOff' = (ranOff \/ ~multiTenant')
    /\ queued' = [o \in Object |-> queued[o] \/ call[o] # NoClient]
    /\ call' = [o \in Object |-> NoClient]
    /\ UNCHANGED <<obj, info, svmVars, owner, secrets, named, edits, faults>>
    /\ moved' = [o \in Object |-> NowElsewhere(o)]

----------------------------------------------------------------------------
Init ==
    /\ owner \in Owners
    /\ multiTenant \in StartModes
    /\ secrets = [n \in Namespace |-> NoSecret]
    /\ obj = [o \in Object |-> "none"]
    /\ queued = [o \in Object |-> FALSE]
    /\ call = [o \in Object |-> NoClient]
    /\ info = [o \in Object |-> {}]
    /\ store = {} /\ jobs = {} /\ serial = 0
    /\ named = [n \in Namespace |-> {}]
    /\ ranOff = ~multiTenant
    /\ moved = [o \in Object |-> FALSE]
    /\ edits = 0 /\ restarts = 0 /\ faults = 0

\* A step of the driver on behalf of the call in progress for o.
Handle(o) == Lookup(o) \/ Send(o) \/ Wait(o)

Next ==
    \/ \E o \in Object :
          Apply(o) \/ Delete(o) \/ Begin(o) \/ Handle(o) \/ GiveUp(o) \/ RunJobs(o)
    \/ \E n \in Namespace : EditSecret(n)
    \/ Restart

Spec == Init /\ [][Next]_vars

\* The work queue of the sidecar calls for what is queued, requests return, and
\* the SVMs work off their jobs.
FairSpec ==
    Spec /\ \A o \in Object : WF_vars(Begin(o)) /\ WF_vars(Handle(o)) /\ WF_vars(RunJobs(o))

ASSUME EnvAssumption == DOMAIN Env \subseteq Key /\ NewFromConfigOK(Defaults)
ASSUME OwnersAssumption == Owners \subseteq [Object -> Namespace \union {NoNamespace}]
ASSUME SecretAssumption == \A s \in Secret : DOMAIN s \subseteq Key
ASSUME ModeAssumption == StartModes \subseteq BOOLEAN
ASSUME BoundAssumption == MaxEdits \in Nat /\ MaxRestarts \in Nat /\ MaxFaults \in Nat

----------------------------------------------------------------------------
(* Correctness.                                                            *)

\* "identity keys never silently fall back to operator credentials": in
\* multi-tenant mode a call for a tenant's object works with the four identity
\* keys of one Secret of that tenant, never with a mixture and never with the
\* keys of the driver or of another tenant, whatever is edited meanwhile.
TenantIdentityOnly ==
    \A o \in Object : Tenanted(o) /\ call[o] # NoClient =>
        LET c == call[o].client
        IN  \E s \in named[owner[o]] :
              /\ URL[s["endpoint"]].host = c.base.host /\ s["svm"] = c.svm
              /\ s["user"] = c.user /\ s["password"] = c.password

\* The Secret s names the SVM p.
Names(s, p) == URL[s["endpoint"]].host = p.host /\ s["svm"] = p.svm

\* A tenant's bucket lies on an SVM that a Secret of this tenant has named,
\* unless it was made while multi-tenant mode was off.
BucketsStayWithTenant ==
    \A b \in store : owner[b.object] # NoNamespace =>
        \/ ranOff /\ b.at = Place(OwnClient)
        \/ \E s \in named[owner[b.object]] : Names(s, b.at)

\* A bucket outlives its object only when calls for the object came to lead to
\* another SVM, or when it was made late, by a job whose call had been given up
\* or ended by a restart: a Secret that is missing, incomplete or wrong delays a
\* deletion and never completes it, and of a restart only the jobs it leaves
\* behind can lose a bucket.
LostOnlyByMoveOrLateJob ==
    \A b \in store : obj[b.object] = "gone" => moved[b.object] \/ b.late

\* "The sidecar keeps retrying until then; nothing is deleted or lost": an
\* object that was provisioned and is gone has left no bucket (but for the late
\* ones, whatever the Secret says).
NothingLost ==
    \A b \in store : obj[b.object] = "gone" /\ info[b.object] # {} => b.late

\* The clients a call can have.
Client == ({ClientOf[s] : s \in Secret \union {NoSecret}} \ {NoClient}) \union {OwnClient}

\* The SVM y answers S3 requests at this host.
ServesS3(y, host) == host \in {y.host, y.s3}

\* Whoever writes s3Endpoint next to the identity of an SVM, into a Secret or the
\* driver's environment, writes an endpoint of that SVM.  The code does not look,
\* so AdvertisedIsOwn needs it as a hypothesis.  It says nothing of an S3 endpoint
\* that a tenant does not write and the code takes from the driver.
WrittenEndpointsFit ==
    /\ \A s \in Secret : IdentityKey \union {"s3Endpoint"} \subseteq Present(s) =>
          \A y \in System : Names(s, y) => ServesS3(y, URL[s["s3Endpoint"]].host)
    /\ Defaults["s3Endpoint"] # "" =>
          \A y \in System : Names(Defaults, y) => ServesS3(y, URL[Defaults["s3Endpoint"]].host)

\* The bucket lies at an SVM which the tenant's Secret named without saying where
\* it serves S3, and the driver's own S3 endpoint is told instead: the fallback
\* of the optional keys.
Inherited(o, e, p) ==
    /\ owner[o] # NoNamespace
    /\ Defaults["s3Endpoint"] # "" /\ e.host = URL[Defaults["s3Endpoint"]].host
    /\ \E s \in named[owner[o]] : Names(s, p) /\ "s3Endpoint" \notin Present(s)

\* The S3 endpoint recorded in a ready object leads to the SVM that has its
\* bucket, or is the driver's own because the Secret with which the bucket was
\* made has none: no Secret edited since, no restart and no late job makes an
\* object ready with the endpoint of one SVM and the bucket in another.
AdvertisedIsOwn ==
    \A o \in Object : obj[o] = "ready" =>
        \A e \in info[o] : \E b \in store :
            /\ b.object = o
            /\ \/ \E y \in System : y.host = b.at.host /\ y.svm = b.at.svm /\ ServesS3(y, e.host)
               \/ Inherited(o, e, b.at)

\* Calls for o would succeed now.
Usable(o) == resolveClient(o) # NoClient /\ Served(resolveClient(o))

\* "heals automatically once the Secret exists": when the credentials for an
\* object stay usable from some time on, a wanted object becomes ready (or is
\* deleted) and a deleted one goes, however often they were wrong before.
Heals ==
    \A o \in Object : <>[]Usable(o) =>
        /\ obj[o] = "wanted" ~> obj[o] # "wanted"
        /\ obj[o] = "deleting" ~> obj[o] = "gone"
====
