# A TLA+ verification of ontap-cosi-driver

The driver translates the five COSI RPCs into requests to the REST API of an
ONTAP storage VM (SVM). It keeps no state, takes no lock and rolls nothing
back: whatever is hard about it lies between two REST requests. This project
models those requests one by one, together with the choice of the SVM a call
works on and with the process that serves the calls, checks the models with TLC
and proves the safety properties that hold of them with TLAPS.

## The system

| Component | State | Operations | Interacts with |
|---|---|---|---|
| `ProvisionerServer`, buckets (`pkg/driver/provisioner.go`) | none; the configuration is read at startup | `DriverCreateBucket`, `DriverDeleteBucket` | called over gRPC by the sidecar, one goroutine per call; calls `clients.Client` |
| `ProvisionerServer`, access (same file) | none | `DriverGrantBucketAccess`, `DriverRevokeBucketAccess`: a loop over the buckets of the request | same |
| ONTAP S3 client (`pkg/clients/s3/s3.go`) | connection data | bucket, job, policy, user and group requests, `waitForJob` | HTTPS to the SVM |
| ONTAP SVM (not in the repository) | buckets, jobs, policies, users, groups | the REST API; jobs run on their own | |
| COSI sidecar (not in the repository, `README.md:43-56`) | `Bucket` and `BucketAccess` objects | reconcile, retry, remove the finalizer | calls the driver |
| Tenant credentials loader (`pkg/driver/multitenant.go`) | none; a Secret per tenant | `Load` on every call | Kubernetes API, S3 client |
| Driver process (`cmd/ontap-cosi-driver/main.go`) | listener, gRPC server | `run`, `listener`, `shutdown` | signals, the socket file |
| Fake client (`pkg/clients/fake/fake.go`) | maps of buckets and accesses | the `clients.Client` operations | in-process |
| Configuration, identity, interfaces, manifests | none | parsing, `DriverGetInfo` | |

What is hard about it:

- **Interleaving.** The existence check, the comparison, the creation and the
  polling of one call are separate requests; other calls run in between.
- **Asynchronous jobs.** Create and delete only queue a job. The call may end
  (poll timeout, failed poll, lost answer, cancelled context, crash) while the
  job goes on, and nothing remembers the job.
- **Error codes as promises.** The sidecar retries some codes and treats others
  as final, so a code says something about the SVM that has to be true.
- **Partial failure.** A grant or revoke can stop after any of its requests, and
  the next call for the account has to cope with what it left.
- **Derived names.** Accounts are bound to buckets by groups and policies whose
  names are computed from both ids and cut to a length.
- **Moving ground.** In multi-tenant mode the Secret is read on every call, and
  tenants edit it; the mode itself changes with a restart.
- **Ends of the process.** A signal, a kill or a panic can come at any moment of
  starting, serving and shutting down, with handlers that may hang.

What makes each part correct:

- buckets: an OK create is backed by a bucket; an OK delete removed the bucket it
  found and nothing else; a final refusal leaves nothing; a call that waits ends;
- under the sidecar: a ready object has its bucket, wanted and deleted objects
  settle, no bucket outlives its object;
- access: an OK grant binds the account to every bucket with keys that work; an
  OK revoke leaves nothing; other accounts are not affected;
- tenant loader: a call uses the identity of one Secret of its tenant or fails in
  a way that is retried; a bucket is deleted in the SVM it was created in;
- process: a signal ends it, after the calls or after the grace period; it comes
  back after a kill; calls one after the other do not bring it down.

`PROJECT.json` lists the hazards with their lines and the properties that cover
them.

## Modules

### BucketProvisioner

The two bucket RPCs, the client functions below them, and the SVM's buckets and
jobs. `Call` is a set of RPC invocations; each runs through the labels of `pc`,
and one action is one REST request together with the code up to the next one.

| Action | Code |
|---|---|
| `DriverCreateBucket`, `DriverDeleteBucket` | the handlers up to their first request: `resolveClient`, then error injection |
| `BucketExists` | the existence check and the branch on it |
| `IsBucketEqual` | the comparison, which looks the bucket up again |
| `CreateBucket`, `createBucketAsync` | validation, then the POST |
| `DeleteBucket`, `deleteBucketAsync` | the lookup of the UUID, then the DELETE |
| `waitForJob`, `PollTimeout` | the poll that ends the loop; `defaultJobPollTimeout` |
| `Cancel` | the context of the call is done, or the process dies |
| `RunCreateJob`, `RunDeleteJob` | the SVM runs a job (external) |

The state of the driver is per call (`req`, `pc`, `found`, `code`), that of the
SVM is `job` and `buckets`. A call also serves as the UUID of the job it submits
and of the bucket that job makes. A request can be lost, or be applied and its
answer lost (`Fault`). An error that `DriverCreateBucket` returns as it is
reaches the caller as `Unknown`, or as `DeadlineExceeded` when it wraps the
expired context; this is what gRPC does with an error that is not a status.

`Overridden` is the flag of `getName` exactly as the code computes it: true when
*no* override is set.

`doJSON` marks any error whose text speaks of a quota, a failed poll included, so a
create can be answered `ResourceExhausted` for three reasons: the POST was refused,
the job failed, or a poll failed with such a text. The third is the code
`QuotaOnPoll` of the model. The caller cannot tell it from the others (`Exhausted`),
but it is one of the answers that leave the outcome open (`Uncertain`): its job may
be queued, which is finding 3.

Abstracted: comments, retention and the JSON forms are left out; the SVM refuses
a POST for a name that is taken.

### BucketSize

`parseBucketSize` on texts as sequences of characters, with the steps of the code
(trim, cut the suffix in either case, trim, `ParseInt`, positive, limit, product)
and 64-bit wrap-around. `MaxInt64` and `gib` are constants: the real ones are
beyond TLC's integers, so TLC takes 25 and 10 (a limit of 2 GiB, and a product
that wraps from 3 on) and the theorems cover the real ones. The blank is the only
white space. `SizeWritten` says which size a text asks for without the steps
of the code: its digits stand together and make the number of GiB.

### BucketService and BucketRefinement

BucketService is what the two bucket RPCs promise, without requests, lookups or
jobs: a call takes effect at one moment or never; it is answered OK when it has
taken effect or the bucket was there (was not there) during the call, refused
when it has not and never will, or failed, after which it may still take effect,
once. `ResourceExhausted` after a failed poll counts as failed. BucketRefinement maps BucketProvisioner to it: a call takes effect when the
SVM completes its job. `ImplementsService` is the abstract specification as a
property, checked by TLC and proved (see Proofs); that the late effect of a failed
call is at most one, and none comes after an OK or a refusal, is what it adds to
the invariants.

### BucketSidecar

Extends BucketProvisioner with its caller: per object a reconciler that creates
until OK, stops at `ResourceExhausted` until the object is touched, and deletes
until OK (`src/README.md`; the sidecar is not in the repository). Object names
are never used again. `Recycle` gives back the identity of a call that can no
longer matter, so that retries are not bounded by the number of calls.

### AccessProvisioner

The two access RPCs, the client functions below them and the policies, users and
groups of the SVM. Names are sequences of characters, because `normalizedName`
(lower case, separators replaced, cut) decides whether two accounts share a
group. `late` holds a request that a cancelled call has left on the wire.
`undisturbed[c]` is a history variable: no other call for the account of `c` has
overlapped or followed `c`; properties of answers are stated for such calls,
since any later call of the account changes its binding on purpose. Calls of
*other* accounts and earlier unfinished calls of the same account are not
excluded. About the SVM it is assumed that a group keeps the name of a user that is
deleted, so that a revoke has to remove the groups itself and a user made again is
bound by those that are left; the code does not show it. Whether a bucket exists is not tracked here: `BucketExists` may go
either way.

### AccessService and AccessRefinement

AccessService is what the two access RPCs promise in terms of which account can use
which bucket. A call does not take effect at one moment: it works step by step, a
grant only adding and a revoke only removing accesses of its own account. It is
answered OK, and if no other call for the account was around the account then has
every bucket of the grant (no bucket, after a revoke); refused, and it has changed
and will change nothing; or failed, after which one more change may come.
AccessRefinement maps AccessProvisioner to it: an account has access to a bucket when
its user, group and policy together bind it. `ImplementsAccess` is the abstract
specification as a property.

A grant adds only buckets that *some* grant of the account asked for (`Asked`), not
only its own. The driver does not promise more: a revoke of one list of buckets
deletes the user but not the groups of other lists, and the next grant, which makes
the user again, revives their bindings.

### TenantClients

Which SVM a call works on. The configuration of the driver is computed from its
environment (`defaultEnv`, `asBool`, `Defaults`), that of a tenant from its Secret
on top of it (`tenantConfigOK`, `tenantConfig`), and the client from either
(`NewFromConfig`, `CertificateOK`, `S3Endpoint`). `Begin` is the handler up to its
client: `resolveClient` reads the Secret as it is now, or the call fails with
`Unavailable`. The call keeps this client to its end, whatever happens to the
Secret: `Lookup` (`BucketExists` of a create, `bucketByName` of a delete), `Send` (the
POST or DELETE, which queues a job at that SVM), `Wait` (the end of the job). `GiveUp`
stands for every way to end in between: a lost answer, a failed or expired poll, a
caller that gives up. The jobs belong to the SVMs, which run them in any order
(`RunJobs`), whether a call waits for them or not; a bucket is `late` when no call did.
Users apply and delete objects, tenants edit Secrets (`EditSecret`) and the driver is
restarted with the mode on or off (`Restart`), all at any time. A restart ends the
calls in progress and leaves their jobs.

History: `named` holds the Secrets with an identity that a tenant has had; `moved` is
set when, by an edit or a restart, calls for an object come to lead to another SVM
than one that has its bucket, a job that will make it, or a call in progress for it.

A tenant whose Secret has no `s3Endpoint` gets the driver's own, if there is one
(`multitenant.go:127`): `AdvertisedIsOwn` says that this fallback is the only way for
a ready object to name an endpoint that is not one of the SVM with its bucket. What it
assumes of the people who do write the key is `WrittenEndpointsFit`.

Abstracted: texts of endpoints are parsed by the constant `URL`, certificates are
texts that hold one or not, the region and `skipVerify` are read and go nowhere
that matters here. `overrides.bucketID` is not set, so a create that finds its bucket
ends there. Sizes, and refusals for a quota, are in BucketProvisioner.

### DriverProcess and FakeDriver

DriverProcess is `run` with its goroutines: the main one (`pc`: signal handling,
configuration, client, listener, `Serve`, `wg.Wait`), `shutdown` (`sd`) and the one
in `GracefulStop` (`gs`). `End` is what any end of the process takes along;
`Return` also runs the deferred removal of the socket, `Die` does not. The gRPC
server is external, modelled as `main.go` relies on it: `Serve` on a stopped server
returns `ErrServerStopped`, `GracefulStop` takes no new calls and waits for the
handlers, `Stop` closes the connections and does not wait for them; gRPC does not
recover panics.

FakeDriver adds the handlers. In the fake modes every operation on a map of the
fake client is a begin (`Enter`) and an end, and the Go runtime may abort the
process while two overlap and one writes (`RuntimeAborts`). In s3:impl mode a
handler returns some time or never. Without a mode there is no client
(`NilClient`). Left out: the values in the maps (parameters, random keys), grants
of several buckets, error injection.

### MC modules

The `MC*` modules hold the values of the constants that a cfg cannot write down.

## Runs

| Run | Checks | Bounds |
|---|---|---|
| `buckets` | `TypeOK`, `NoJobUnaccounted`, `RefusalLeavesNothing`, `OkCreateBacked`, `OkDeleteGone`, `DeletesOnlyWhatItFound`, `ImplementsService` | 3 calls, 1 name, 2 sizes, 1 prior bucket, 2 faults |
| `buckets_override` | `NoConflictingSizes`, `SizesAsRequested`, `WaitAlwaysEnds`, `ImplementsService` | 2 calls, 2 names with one override, size texts of every kind, 2 faults |
| `buckets_reuse` (violation) | `NoConflictingSizes` in the default configuration | 2 calls, no faults |
| `buckets_already_exists` (violation) | `AlreadyExistsMeansDiffers` | 2 calls, no faults |
| `buckets_poll_quota` (violation) | `ExhaustedMeansRejected` | 2 calls, 1 fault |
| `sidecar` | `ReadyIsBacked`, `OrphanOnlyFromGivenUpCreate`, `WantedSettles`, `DeletionCompletes` | 1 object, 3 call identities, 2 faults, 1 give-up |
| `sidecar_orphan` (violation) | `GoneMeansNoBucket` | 1 give-up, no faults |
| `access` | `TypeOK`, `GrantedMeansBound`, `GrantedKeysCurrent`, `RevokedMeansGone`, `AccessChangesAreOwn`, `ImplementsAccess` | 3 calls, 2 accounts, 2-bucket requests, 1 fault |
| `access_override` (violation) | `RevokedMeansGone` with `overrides.bucketID` | 2 calls, no faults |
| `tenants` | `TenantIdentityOnly`, `BucketsStayWithTenant`, `LostOnlyByMoveOrLateJob`, `AdvertisedIsOwn`, `Heals` | 1 object, 2 namespaces, 9 Secrets, 2 edits, 1 restart, 1 fault, either mode at first |
| `tenants_moved` (violation) | `NothingLost` | 1 object, mode off at first, 1 edit, 1 restart, no faults |
| `process` | `SocketFitsProcess`, `SignalEnds`, `Recovers`, `LostOnlyIfForced`, `DiesOnlyOfOverlap` | 3 calls, 11 configurations, 1 signal, 1 kill |

The bounds. Three calls are what the hazards need: a call, its retry or rival,
and a delete (or the call of another account) between them. Names are
independent of each other in the bucket half, so one name is enough except with
an override, which makes two names one. Two sizes are what it takes to differ.
Two faults let a request and its retry, or a request and a job, both fail.
Names of groups are cut at 64 characters, which with generated ids (`bc-<uid>`, 39
characters each) falls inside the account id, and names of policies at 128, which
they do not reach; `GroupNameLen` 7 and `PolicyNameLen` 9 do the same to the names
of the instance, where accounts differ in the last character that is kept. The
nine Secrets hold one of each way to be right or wrong; two edits let a Secret go
wrong and be mended, or move, a restart switches the mode in between, and a fault
leaves a job without its call besides the one the restart leaves. One object is
enough: objects share nothing but the Secrets and the mode, and the second namespace
is there for a Secret that must not be used. Three calls, of which two overlap, are what the fake client needs; a signal and a kill
can come in either order, so a process is killed while it shuts down, or shut down
after it came back. Deadlock
is not checked: when every call has been answered the instance stops.

Fairness. `FairSpec` assumes only that a call in `waitForJob` goes on: its polls
run under a context with a timeout. It assumes nothing of other requests, since
the `http.Client` has no timeout, and nothing of the SVM, so `WaitAlwaysEnds`
holds although the job may never run. `SidecarFairSpec` states what convergence
needs of the environment: queued reconciles run, requests return, the SVM works
off its jobs, and faults and give-ups are finitely many. Users are not fair.
TenantClients assumes that the sidecar's work queue calls for what is queued, that
requests return and that the SVMs work off their jobs; `Heals` then needs the credentials to stay usable from some
time on, nothing of the tenants before. FakeDriver assumes that the goroutines of
the process run, that the five seconds of `gracePeriod` pass and that the
container is started again, each as a weak fairness of its own, and nothing of the
handlers: in s3:impl mode a REST request may hang for ever, and `SignalEnds` has to
hold all the same.

## Findings

1. `getName` (`provisioner.go:334-340`) returns its flag inverted, so in the
   default configuration a create of an existing bucket never compares sizes
   and reuses it; the documentation promises `ALREADY_EXISTS`
   (`buckets_reuse`). With an override the comparison takes place
   (`buckets_override`).
2. A bucket that disappears between the two lookups of a create is reported as
   `AlreadyExists` (`buckets_already_exists`).
3. A create whose poll fails with a text about a quota is answered
   `ResourceExhausted`, which is not retried, while its job is queued and may still
   make the bucket (`buckets_poll_quota`). `RefusalLeavesNothing` shows that every
   other final refusal leaves nothing.
4. A create that is given up while its job is queued, followed by a delete,
   leaves a bucket without an object (`sidecar_orphan`).
   `OrphanOnlyFromGivenUpCreate` shows that this is the only way.
5. With `overrides.bucketID` set a revoke works on the override and a grant on the
   requested buckets, so the revoke leaves the bindings the grant has made
   (`access_override`).
6. A bucket made with multi-tenant mode off is lost when the mode is switched on
   and the tenant's Secret names another SVM: the delete finds nothing there and
   succeeds (`tenants_moved`). `LostOnlyByMoveOrLateJob` shows that a missing,
   incomplete or wrong Secret never has this effect, and that apart from moves only
   late jobs have it (finding 4).

Met on the way, without a run of their own: a configuration file without a mode
starts a driver that the first call brings down (`main.go:134`; `DiesOnlyOfOverlap`
excepts it), `errors.getInfo` (`README.md:198`) is never read, a signal before `Serve`
makes the process end with an error, which the restart makes good, and a
multi-bucket revoke deletes the account with the first bucket, before it is unbound
from the others (`s3.go:461`, against the order `README.md:320-321` describes), which
is no loss, since `RevokedMeansGone` holds all the same. A tenant whose Secret names an
SVM without its S3 endpoint is told that of the driver: documented
(`README.md:159-162`), and a trap when the two are different systems.

## Proofs

`BucketProvisionerProofs` proves eight theorems for any sets of calls, names,
sizes and prior buckets, any number of faults and every configuration, from the
assumptions of BucketProvisioner (the configurations are well formed, the
placeholders are not values, texts of sizes are sequences of characters, call
identities are not prior UUIDs).

| Theorem | Property |
|---|---|
| `TypeCorrect` | `TypeOK` |
| `NoJobIsUnaccounted` | `NoJobUnaccounted` |
| `RefusalIsClean` | `RefusalLeavesNothing` |
| `OkCreateIsBacked` | `OkCreateBacked` |
| `OkDeleteIsGone` | `OkDeleteGone` |
| `DeletesAreTargeted` | `DeletesOnlyWhatItFound` |
| `SizesDoNotConflict` | `NoConflictingSizes`, when `overrides.bucketID` is set |
| `SizesAreRequested` | `SizesAsRequested` |

All rest on one inductive invariant,
`IInv == TypeInv /\ Accounting /\ Identity /\ CreateBacked /\ DeleteDone`:

- `TypeInv`: a job takes the size of its bucket from a request that was validated
  two steps before, so typing needs to know that a call with a create job passed
  the validation (`CreateJob`), that there is no job before the request
  (`NoJobYet`) and which operation a label belongs to (`PcFitsOp`);
- `Accounting`: a queued or successful job belongs to a call that waits or was
  answered with a code that admits it, `QuotaOnPoll` among them;
- `Identity`: buckets carry the identity of the call that made them, UUIDs are
  unique, and what a delete found has the name it was asked for. This is what
  rules out that a bucket made under the same name later is deleted;
- `CreateBacked`, `DeleteDone`: the reasons for which a call is answered OK. A
  create that is about to compare sizes already relies on the bucket it saw,
  which is why the property itself is not inductive.

`StepFrame` (a step of a call leaves the other calls alone) and `BackedStays`
(only a delete of this name takes the bucket away) carry most of the argument.

`SizesDoNotConflict` adds `UniqueName /\ Sized` to `IInv`: a name has one bucket at
most, and a create that made its bucket, or was answered OK after comparing
sizes, has a bucket of the size it asked for unless a delete of the name was
carried out. The override is a hypothesis because the code compares sizes only
then; without it the run `buckets_reuse` violates the property.

`SizesAreRequested` adds `MadeToSize`: a bucket that is not a prior one has the size
`parseBucketSize` returned for the request of the call that made it. It is kept
because the request of a call does not change between its POST and its job.
`SizeIsWritten` then turns what the code computed into what the text says.

`BucketRefinementProofs` proves `Implementation`, that is `Spec =>
ImplementsService`, from the same `IInv`. Under the mapping a step of a handler is
a stutter, an answer, or the note that a bucket was seen; a completed job is the
effect of its call. `Accounting` shows that a queued job belongs to a call that is
not settled, `NoJobYet` and `CreateJob` that an answer without a job had no effect,
and `Identity` that a job adds or removes exactly the bucket of its call. There is
one lemma per kind of step (`BarAt` and `BarFrame` compute the mapping on both
sides of it).

`BucketSizeProofs` proves two theorems. `SizeIsExact`: whatever the text, `MaxInt64` and `gib`
are, `parseBucketSize` returns 0 or exactly the number `ParseInt` read times `gib`,
positive and within int64 (`LimitFits`: the limit leaves room for the product;
`NoWrap`: what fits is not changed by wrapping). The typing of buckets in
`TypeCorrect` rests on it (`SizeOfType`). `SizeIsWritten`: what is cut off a text on the way (blanks, the suffix
in either case, blanks again, a sign) holds no digit, so a size that is not 0 is the
one the digits of the whole text say (`SizeWritten`). The lemma `ValueIsDecimal`
unfolds the function that stands for the value of digits. These are inductions over
the length of a text. An induction theorem with an operator as its parameter cannot be instantiated by the
provers, so the induction is made through the least counterexample, which the theorem
that the order of the naturals is well founded provides (`Least`, `Induction`).

`BucketSidecarProofs` proves two theorems about the composition.

| Theorem | Property | Hypothesis |
|---|---|---|
| `ReadyStaysBacked` | `ReadyIsBacked` | `FreshNames` |
| `OrphansAreGivenUp` | `OrphanOnlyFromGivenUpCreate` | `FreshNames` |

`FreshNames` says that the SVM starts without buckets and `overrides.bucketID` is not
set: a bucket found under the name of an object may otherwise be someone else's, of
any size, which is finding 1. The instance of the run `sidecar` satisfies it. The
identity of a call is used again once the call is settled, so of `IInv` only what
survives this is kept (`DriverInv`; `CreateBacked` speaks of answers that may be
forgotten). To it come `CallsInv` (who waits for which call: a call in flight is the
one its reconciler waits for, a create asks for the size of its object, a delete is
sent only for a deleted object) and `BucketsInv` (a bucket is as its call asked;
what an OK create rests on stays until the object is deleted; once the lookup of a
delete has been answered, any other bucket of the name comes from a create that was
given up). The last conjunct, `LookupStands`, is the one the orphan theorem turns on:
the delete does not see what a late job makes after its lookup.

`AccessProvisionerProofs` proves six theorems for any number of calls, accounts,
buckets per request and failures.

| Theorem | Property | Hypothesis |
|---|---|---|
| `TypeCorrect` | `TypeOK` | |
| `GrantedKeysAreCurrent` | `GrantedKeysCurrent` | |
| `AccessIsOwn` | `AccessChangesAreOwn` | `NamesDistinct` |
| `GrantsBind` | `GrantedMeansBound` | `NamesDistinct` |
| `RevokesClear` | `RevokedMeansGone` | `NamesDistinct`, no override |
| `GeneratedIdsApart` | (`NamesDistinct` from `GeneratedIds`) | |

The code finds policies and groups by names that `normalizedName` folds and cuts.
Two bindings with one name would share a policy or a group, so the names are assumed
to be distinct, and `GeneratedIdsApart` derives this from the form of generated ids:
bucket ids of one length n, accounts that differ in their first m characters after
folding, and n + m + 2 within the limits (in the code n is 39 and the limit of 64
leaves m = 19). An `ASSUME` of MCAccessProvisioner lets TLC evaluate
`GeneratedIds` on the instance, with m exactly at the limit. Without the hypothesis on the override
`RevokesClear` is false (`access_override`).

The invariant is `AccessInv`. `CallsInv` holds the types, the requests each operation
sends, and `Alone`: no other call works on the account of an undisturbed call, its
late request included. `KeysHeld` says who has the current key and since when.
`NamesInv` says that policies and groups are what their names say and that group ids
are never reused: a revoke deletes by ids it has listed earlier, and `IdsSpent`,
`UniqueId` and `IdsFit` are why none of these can be the id of a group made since, or
of another binding. `GrantHolds` and `RevokeHolds` say how far the loop over the
buckets has got; `RevokeHolds` has the user gone after the first bucket, which is why
a revoke that completes is right although it deletes the user early.

`AccessRefinementProofs` proves `AccessImplementation`, that is `Spec =>
ImplementsAccess` when `NamesDistinct` holds, with an override or without. Its
invariant is `ServiceInv`, which adds to `AccessInv` and `GrantedMeansBound`:

- `UserGone`: once an undisturbed revoke is past its first bucket, the account has no
  user. `RevokesClear` needs that there is no override; without a user there is no
  access whatever groups are left, so the service's promise of an OK revoke is kept
  even where `RevokedMeansGone` is violated (finding 5);
- `GroupAsked`: a group of an account and a bucket comes from a grant that was not
  refused and that asked for the bucket. It is what makes a revived binding one that
  was asked for;
- `DoneCoded`: a call that is done has a code, which tells an answered call from one that
  works.

`StepEffect` shows that any request, on time or late, changes the bindings as `Effect`
allows; `OkSettles` that the last one before an OK leaves what it promises; `BarAt` and
`BarFrame` compute the mapping on both sides of a step.

`TenantClientsProofs` proves four theorems for any objects, tenants, Secrets, systems
and environment, and any number of edits, restarts and faults.

| Theorem | Property | Hypothesis |
|---|---|---|
| `IdentityNeverFallsBack` | `TenantIdentityOnly` | |
| `TenantBucketsStay` | `BucketsStayWithTenant` | |
| `LossNeedsMoveOrLateJob` | `LostOnlyByMoveOrLateJob` | |
| `AdvertisesItsOwn` | `AdvertisedIsOwn` | `WrittenEndpointsFit` |

The first two follow from `IsolationInv`: the history knows every current Secret with
an identity (`NamedNow`), a call in progress has the client of its tenant or, without
a tenant or with the mode off, the driver's own (`CallsResolved`), and a job, whoever
waits for it, is at an SVM where the bucket may lie (`JobsStay`).

`LossInv` carries the third. `CallsInv` has a call fit its job (`JobFitsCall`) and its
object (`CallFitsObject`), and no delete job for an object that is wanted
(`DeletesFit`). Unless calls for an object came to lead elsewhere, its bucket is, may
come to be and is being deleted at one SVM, the one calls lead to now (`OnePlace`), and
an SVM has one bucket of a name (`OneBucket`); so what the lookup of a delete has found
is all there is but for what late jobs make (`LookupStands`), and a delete that finds
nothing, or whose job is done, leaves only that.

`AdvertisesItsOwn` needs both and two invariants of its own: the bucket of a create
whose job is done is there until the object is deleted (`CreateStands`), and a ready
object has the endpoint of a client that calls for it may have had, with a bucket at
the SVM of that client (`ReadyAdvertised`). `WrittenEndpointsFit` says that who writes
an `s3Endpoint` next to the identity of an SVM, into a Secret or the environment,
writes one of that SVM; the code cannot know, and the instance satisfies it (an
`ASSUME` of MCTenantClients). Nothing is assumed of the endpoint a tenant inherits.

`FakeDriverProofs` proves three theorems for any number of calls, signals and kills
and every configuration: `SocketIsRight` (`SocketFitsProcess`),
`AnswersSurviveShutdown` (`LostOnlyIfForced`) and `PanicNeedsOverlap`
(`DiesOnlyOfOverlap`). `ProcessInv` relates the main goroutine, the shutdown
goroutine, the server and the handlers: the listener is open up to the stop of the
server, a stopped server has no handler that someone waits for, and `run` returns
only after the stop. `FakeInv` says that map operations belong to handlers that run,
that overlapping calls are on record, and that a bucket `BucketExists` found stays
there unless another call ran.

Only model-checked: all liveness (`WaitAlwaysEnds`, `WantedSettles`,
`DeletionCompletes`, `Heals`, `SignalEnds`, `Recovers`), since fairness is out of the
prover's reach. Every invariant and action property of the passing runs, and both
refinements, are theorems.

## Not modelled

Not modelled for good: `IdentityServer` (stateless), the interfaces of
`pkg/clients/common.go`, YAML and JSON forms, the TLS connection itself, random
keys of the fake client, the manifests and build files. The access reconciler of
the sidecar is not in the repository and its calls are those of
AccessProvisioner, so a module on it would say little about this code.
