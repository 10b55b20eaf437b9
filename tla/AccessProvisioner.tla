---------------------------- MODULE AccessProvisioner ----------------------------
(***************************************************************************)
(* The access half of the COSI driver: DriverGrantBucketAccess and         *)
(* DriverRevokeBucketAccess (src/pkg/driver/provisioner.go) on top of      *)
(* CreateBucketAccess and DeleteBucketAccess (src/pkg/clients/s3/s3.go),   *)
(* and the users, groups and policies of the ONTAP SVM.                    *)
(*                                                                         *)
(* An account is bound to a bucket by a policy for the bucket and a group  *)
(* that holds the user and the policy, under names derived from both ids.  *)
(* A grant is a loop of three to six REST requests per bucket, a revoke a  *)
(* loop of three or four; there is no rollback and no lock, so calls       *)
(* interleave between any two requests and stop after any of them.         *)
(***************************************************************************)
EXTENDS Naturals, Sequences

CONSTANTS
    Call,           \* RPC invocations
    Account,        \* account names, as sequences of characters
    Bucket,         \* bucket ids, as sequences of characters
    BucketLists,    \* the bucket lists of requests
    Lower,          \* Lower[x]: lower-case form of an upper-case character x
    PolicyNameLen,  \* maxLen of normalizedName for policies
    GroupNameLen,   \* maxLen of normalizedName for groups
    Config,         \* driver configurations to choose from: see Configs
    NoKey,          \* no credentials received yet
    NoOverride,     \* overrides.bucketID is not set
    MaxFaults       \* bound on failing requests in a behaviour

VARIABLES
    config,         \* the configuration file, read once at startup
    req,            \* req[c]: the request of call c
    pc,             \* pc[c]: the next REST request of call c
    idx,            \* idx[c]: position in the list of buckets
    creds,          \* creds[c]: the key of the last credentials received
    groupIDs,       \* groupIDs[c]: ids of the groups a revoke has listed
    code,           \* code[c]: gRPC code of the answer
    policies,       \* the policies of the SVM, for one bucket each
    users,          \* the users of the SVM, with their current key
    groups,         \* the groups of the SVM, with one user and one policy each
    late,           \* late[c]: request of an abandoned call still on the wire
    undisturbed,    \* history: no other call touched the account since c began
    faults          \* failures so far

callVars == <<req, pc, idx, creds, groupIDs, code>>
svmVars == <<policies, users, groups>>
vars == <<config, callVars, svmVars, late, undisturbed, faults>>

Configs == [override : Bucket \union {NoOverride}, errors : SUBSET {"grant", "revoke"},
            multiTenant : BOOLEAN]

Request == [op : {"grant", "revoke"}, account : Account, buckets : BucketLists \union {<<>>}]

ASSUME ConfigAssumption == Config \subseteq Configs
ASSUME AccountAssumption == Account # {}
ASSUME ListAssumption == BucketLists \subseteq Seq(Bucket)
ASSUME FaultAssumption == MaxFaults \in Nat

----------------------------------------------------------------------------
(* Names.                                                                  *)

\* Lower case, the separators replaced.
Fold(x) ==
    IF x \in {"/", " ", ":"} THEN "-" ELSE IF x \in DOMAIN Lower THEN Lower[x] ELSE x

\* Mutant: the name is cut one character too early.
normalizedNameCutsEarly(name, maxLen) ==
    [i \in 1..(IF Len(name) < maxLen THEN Len(name) ELSE maxLen - 1) |-> Fold(name[i])]

\* Folded, and cut to maxLen.
normalizedName(name, maxLen) ==
    [i \in 1..(IF Len(name) <= maxLen THEN Len(name) ELSE maxLen) |-> Fold(name[i])]

\* Mutant: the policy is shared by the accounts of a bucket.
policyNameOfBucket(b, a) == normalizedName(<<"cosi-">> \o b \o <<"-policy">>, PolicyNameLen)

policyName(b, a) == normalizedName(<<"cosi-">> \o b \o <<"-">> \o a \o <<"-policy">>, PolicyNameLen)

groupName(b, a) == normalizedName(<<"cosi-">> \o b \o <<"-">> \o a \o <<"-group">>, GroupNameLen)

\* The bucket call c is working on; only a revoke applies the override.
CurrentBucket(c) ==
    IF req[c].op = "revoke" /\ config.override # NoOverride
      THEN config.override ELSE req[c].buckets[idx[c]]

CurrentPolicy(c) == policyName(CurrentBucket(c), req[c].account)

CurrentGroup(c) == groupName(CurrentBucket(c), req[c].account)

----------------------------------------------------------------------------
(* The SVM: what each REST request of call c does to it.                   *)

\* A new key or group id.  An iteration of a grant makes at most one of each, so
\* call and position identify it.
Fresh(c) == <<c, idx[c]>>

Named(set, n) == {x \in set : x.name = n}

PostPolicy(c) ==
    /\ policies' = IF Named(policies, CurrentPolicy(c)) # {} THEN policies
                   ELSE policies \union {[name |-> CurrentPolicy(c), bucket |-> CurrentBucket(c)]}
    /\ UNCHANGED <<users, groups>>

PatchPolicy(c) ==
    /\ policies' = {IF p.name = CurrentPolicy(c) THEN [p EXCEPT !.bucket = CurrentBucket(c)]
                    ELSE p : p \in policies}
    /\ UNCHANGED <<users, groups>>

PostUser(c) ==
    IF Named(users, req[c].account) # {} THEN UNCHANGED svmVars
    ELSE /\ users' = users \union {[name |-> req[c].account, key |-> Fresh(c)]}
         /\ UNCHANGED <<policies, groups>>

\* regenerate_keys: the keys handed out before stop working.
PatchUser(c) ==
    IF Named(users, req[c].account) = {} THEN UNCHANGED svmVars
    ELSE /\ users' = (users \ Named(users, req[c].account))
                        \union {[name |-> req[c].account, key |-> Fresh(c)]}
         /\ UNCHANGED <<policies, groups>>

\* A group names its user and policy; the SVM does not look whether they exist.
PostGroup(c) ==
    IF Named(groups, CurrentGroup(c)) # {} THEN UNCHANGED svmVars
    ELSE /\ groups' = groups \union {[id |-> Fresh(c), name |-> CurrentGroup(c),
                                      user |-> req[c].account, policy |-> CurrentPolicy(c)]}
         /\ UNCHANGED <<policies, users>>

DeleteGroup(c) ==
    /\ groups' = {g \in groups : g.id \notin groupIDs[c]}
    /\ UNCHANGED <<policies, users>>

DeletePolicy(c) ==
    /\ policies' = policies \ Named(policies, CurrentPolicy(c))
    /\ UNCHANGED <<users, groups>>

\* An assumption about the SVM, which the code does not show: groups that have the
\* user keep it, so a revoke has to remove them itself.
DeleteUser(c) ==
    /\ users' = users \ Named(users, req[c].account)
    /\ UNCHANGED <<policies, groups>>

\* The request l of call c reaches the SVM.
Applied(c, l) ==
    CASE l = "postPolicy" -> PostPolicy(c)
      [] l = "patchPolicy" -> PatchPolicy(c)
      [] l = "postUser" -> PostUser(c)
      [] l = "patchUser" -> PatchUser(c)
      [] l = "postGroup" -> PostGroup(c)
      [] l = "deleteGroup" -> DeleteGroup(c)
      [] l = "deletePolicy" -> DeletePolicy(c)
      [] l = "deleteUser" -> DeleteUser(c)
      [] OTHER -> UNCHANGED svmVars

----------------------------------------------------------------------------
(* How a call moves on.                                                    *)

Goto(c, l) == pc' = [pc EXCEPT ![c] = l] /\ UNCHANGED <<code, idx>>

Answer(c, k) == pc' = [pc EXCEPT ![c] = "done"] /\ code' = [code EXCEPT ![c] = k] /\ UNCHANGED idx

\* Mutant: the loop runs once too often.
NextBucketPastEnd(c, first) ==
    IF idx[c] > Len(req[c].buckets) THEN Answer(c, "OK")
    ELSE /\ idx' = [idx EXCEPT ![c] = @ + 1]
         /\ pc' = [pc EXCEPT ![c] = first]
         /\ UNCHANGED code

\* End of an iteration of the loop over the buckets.
NextBucket(c, first) ==
    IF idx[c] = Len(req[c].buckets) THEN Answer(c, "OK")
    ELSE /\ idx' = [idx EXCEPT ![c] = @ + 1]
         /\ pc' = [pc EXCEPT ![c] = first]
         /\ UNCHANGED code

Fault == faults < MaxFaults /\ faults' = faults + 1

InFlight(c) == pc[c] \notin {"idle", "done"}

\* A call of account a other than c that may still change the SVM.
Rival(c, a) ==
    \E d \in Call \ {c} : req[d].account = a /\ (InFlight(d) \/ late[d] # "none")

\* A call is received: resolveClient, the check for an empty list of buckets and
\* error injection, in this order, come before the first request.
Begin(c, op, first) ==
    /\ pc[c] = "idle"
    /\ \E a \in Account, l \in BucketLists :
          /\ req' = [req EXCEPT ![c] = [op |-> op, account |-> a, buckets |-> l]]
          /\ \/ config.multiTenant /\ Fault /\ Answer(c, "Unavailable")
             \/ l = <<>> /\ UNCHANGED faults /\ Answer(c, "InvalidArgument")
             \/ /\ l # <<>> /\ op \in config.errors
                /\ UNCHANGED faults /\ Answer(c, "Injected")
             \/ /\ l # <<>> /\ op \notin config.errors
                /\ UNCHANGED faults /\ Goto(c, first)
          /\ undisturbed' = [d \in Call |->
                IF d = c THEN ~Rival(c, a)
                ELSE undisturbed[d] /\ ~(pc[d] # "idle" /\ req[d].account = a)]
    /\ UNCHANGED <<config, creds, groupIDs, svmVars, late>>

----------------------------------------------------------------------------
(* DriverGrantBucketAccess.                                                *)

DriverGrantBucketAccess(c) == Begin(c, "grant", "exists")

\* The buckets come and go in the other half of the driver: either answer.
BucketExists(c) ==
    /\ pc[c] = "exists"
    /\ Goto(c, "postPolicy") \/ Answer(c, "NotFound")
    /\ UNCHANGED <<config, req, creds, groupIDs, svmVars, late, undisturbed, faults>>

\* POST, and PATCH when the policy exists; a PATCH of a policy that has gone
\* meanwhile is an error.
createOrUpdatePolicy(c) ==
    /\ \/ /\ pc[c] = "postPolicy" /\ PostPolicy(c)
          /\ Goto(c, IF Named(policies, CurrentPolicy(c)) = {} THEN "postUser" ELSE "patchPolicy")
       \/ /\ pc[c] = "patchPolicy" /\ PatchPolicy(c)
          /\ IF Named(policies, CurrentPolicy(c)) = {} THEN Answer(c, "Internal")
             ELSE Goto(c, "postUser")
    /\ UNCHANGED <<config, req, creds, groupIDs, late, undisturbed, faults>>

\* Mutant: an existing user is reported without new keys.
createOrRotateUserKeepsKeys(c) ==
    /\ pc[c] = "postUser" /\ PostUser(c)
    /\ creds' = [creds EXCEPT ![c] = IF Named(users, req[c].account) = {} THEN Fresh(c) ELSE @]
    /\ Goto(c, "postGroup")
    /\ UNCHANGED <<config, req, groupIDs, late, undisturbed, faults>>

\* POST, and PATCH with regenerate_keys when the user exists.
createOrRotateUser(c) ==
    /\ \/ /\ pc[c] = "postUser" /\ PostUser(c)
          /\ IF Named(users, req[c].account) = {}
               THEN creds' = [creds EXCEPT ![c] = Fresh(c)] /\ Goto(c, "postGroup")
               ELSE UNCHANGED creds /\ Goto(c, "patchUser")
       \/ /\ pc[c] = "patchUser" /\ PatchUser(c)
          /\ IF Named(users, req[c].account) = {}
               THEN UNCHANGED creds /\ Answer(c, "Internal")
               ELSE creds' = [creds EXCEPT ![c] = Fresh(c)] /\ Goto(c, "postGroup")
    /\ UNCHANGED <<config, req, groupIDs, late, undisturbed, faults>>

\* Mutant: the grant ends with its first bucket.
createGroupEndsGrant(c) ==
    /\ pc[c] = "postGroup" /\ PostGroup(c)
    /\ Answer(c, "OK")
    /\ UNCHANGED <<config, req, creds, groupIDs, late, undisturbed, faults>>

\* A group that exists is taken for the right one.
createGroupIfNeeded(c) ==
    /\ pc[c] = "postGroup" /\ PostGroup(c)
    /\ NextBucket(c, "exists")
    /\ UNCHANGED <<config, req, creds, groupIDs, late, undisturbed, faults>>

----------------------------------------------------------------------------
(* DriverRevokeBucketAccess.                                               *)

DriverRevokeBucketAccess(c) == Begin(c, "revoke", "listGroups")

\* The groups are listed by name and deleted by id; a 404 is tolerated.
deleteGroupIfExists(c) ==
    /\ \/ /\ pc[c] = "listGroups"
          /\ groupIDs' = [groupIDs EXCEPT ![c] = {g.id : g \in Named(groups, CurrentGroup(c))}]
          /\ Goto(c, IF Named(groups, CurrentGroup(c)) = {} THEN "deletePolicy" ELSE "deleteGroup")
          /\ UNCHANGED svmVars
       \/ /\ pc[c] = "deleteGroup" /\ DeleteGroup(c)
          /\ Goto(c, "deletePolicy")
          /\ groupIDs' = [groupIDs EXCEPT ![c] = {}]
    /\ UNCHANGED <<config, req, creds, late, undisturbed, faults>>

deletePolicyIfExists(c) ==
    /\ pc[c] = "deletePolicy" /\ DeletePolicy(c)
    /\ Goto(c, "deleteUser")
    /\ UNCHANGED <<config, req, creds, groupIDs, late, undisturbed, faults>>

\* Mutant: the revoke ends when the user is gone.
deleteUserEndsRevoke(c) ==
    /\ pc[c] = "deleteUser" /\ DeleteUser(c)
    /\ Answer(c, "OK")
    /\ UNCHANGED <<config, req, creds, groupIDs, late, undisturbed, faults>>

\* The user goes with the first bucket; for the others the 404 is tolerated.
deleteUserIfExists(c) ==
    /\ pc[c] = "deleteUser" /\ DeleteUser(c)
    /\ NextBucket(c, "listGroups")
    /\ UNCHANGED <<config, req, creds, groupIDs, late, undisturbed, faults>>

----------------------------------------------------------------------------
(* Failures.                                                               *)

\* doJSON fails: the request was lost, or applied and its answer lost, or (the
\* write requests of a grant) refused because the quota is exhausted.
RequestFails(c) ==
    /\ InFlight(c) /\ Fault
    /\ \/ Answer(c, "Internal") /\ UNCHANGED svmVars
       \/ Answer(c, "Internal") /\ Applied(c, pc[c])
       \/ /\ pc[c] \in {"postPolicy", "patchPolicy", "postUser", "patchUser", "postGroup"}
          /\ Answer(c, "ResourceExhausted") /\ UNCHANGED svmVars
    /\ UNCHANGED <<config, req, creds, groupIDs, late, undisturbed>>

\* The caller gives up or the driver dies; the request the call has sent may
\* still be on its way.
Cancel(c) ==
    /\ InFlight(c)
    /\ Answer(c, "Canceled")
    /\ \E l \in {"none", pc[c]} : late' = [late EXCEPT ![c] = l]
    /\ UNCHANGED <<config, req, creds, groupIDs, svmVars, undisturbed, faults>>

\* The request of an abandoned call arrives.
Arrive(c) ==
    /\ late[c] # "none"
    /\ Applied(c, late[c])
    /\ late' = [late EXCEPT ![c] = "none"]
    /\ UNCHANGED <<config, callVars, undisturbed, faults>>

----------------------------------------------------------------------------
NoRequest == [op |-> "revoke", account |-> CHOOSE a \in Account : TRUE, buckets |-> <<>>]

Init ==
    /\ config \in Config
    /\ req = [c \in Call |-> NoRequest]
    /\ pc = [c \in Call |-> "idle"]
    /\ idx = [c \in Call |-> 1]
    /\ creds = [c \in Call |-> NoKey]
    /\ groupIDs = [c \in Call |-> {}]
    /\ code = [c \in Call |-> "none"]
    /\ policies = {} /\ users = {} /\ groups = {}
    /\ late = [c \in Call |-> "none"]
    /\ undisturbed = [c \in Call |-> TRUE]
    /\ faults = 0

Step(c) ==
    \/ DriverGrantBucketAccess(c) \/ BucketExists(c) \/ createOrUpdatePolicy(c)
    \/ createOrRotateUser(c) \/ createGroupIfNeeded(c)
    \/ DriverRevokeBucketAccess(c) \/ deleteGroupIfExists(c) \/ deletePolicyIfExists(c)
    \/ deleteUserIfExists(c)
    \/ RequestFails(c) \/ Cancel(c) \/ Arrive(c)

Next == \E c \in Call : Step(c)

Spec == Init /\ [][Next]_vars

----------------------------------------------------------------------------
(* Correctness.                                                            *)

Label == {"idle", "exists", "postPolicy", "patchPolicy", "postUser", "patchUser", "postGroup",
          "listGroups", "deleteGroup", "deletePolicy", "deleteUser", "done"}

Code == {"none", "OK", "Unavailable", "InvalidArgument", "Injected", "NotFound", "Internal",
         "ResourceExhausted", "Canceled"}

\* Keys and group ids; the names that policies and groups can get.
Id == Call \X Nat

PolicyNames == {policyName(b, a) : b \in Bucket, a \in Account}

GroupNames == {groupName(b, a) : b \in Bucket, a \in Account}

\* Every variable holds values of its type, and the position of a call that may
\* still change the SVM is inside its list.
TypeOK ==
    /\ config \in Configs
    /\ req \in [Call -> Request]
    /\ pc \in [Call -> Label]
    /\ idx \in [Call -> Nat]
    /\ creds \in [Call -> Id \union {NoKey}]
    /\ groupIDs \in [Call -> SUBSET Id]
    /\ code \in [Call -> Code]
    /\ policies \subseteq [name : PolicyNames, bucket : Bucket]
    /\ users \subseteq [name : Account, key : Id]
    /\ groups \subseteq [id : Id, name : GroupNames, user : Account, policy : PolicyNames]
    /\ late \in [Call -> (Label \ {"idle", "done"}) \union {"none"}]
    /\ undisturbed \in [Call -> BOOLEAN]
    /\ faults \in 0..MaxFaults
    /\ \A c \in Call : InFlight(c) \/ late[c] # "none" => idx[c] \in 1..Len(req[c].buckets)

\* Cutting and folding keep the names of different bindings apart.  The code does
\* not ensure this for all ids; where GrantedMeansBound, RevokedMeansGone,
\* AccessChangesAreOwn or the refinement is claimed for every set of ids, it is a hypothesis.
NamesDistinct ==
    \A a, x \in Account, b, y \in Bucket :
        policyName(b, a) = policyName(y, x) \/ groupName(b, a) = groupName(y, x) => a = x /\ b = y

\* Ids that the orchestrator generates: bucket ids are n characters long, and
\* after folding they differ, and accounts differ in their first m characters;
\* no name is cut before these (one character stands for "cosi-", one for "-").
GeneratedIds(n, m) ==
    /\ Bucket \subseteq Seq(STRING) /\ Account \subseteq Seq(STRING)
    /\ \A b \in Bucket : Len(b) = n
    /\ \A a \in Account : Len(a) >= m
    /\ \A b, y \in Bucket : (\A i \in 1..n : Fold(b[i]) = Fold(y[i])) => b = y
    /\ \A a, x \in Account : (\A i \in 1..m : Fold(a[i]) = Fold(x[i])) => a = x
    /\ PolicyNameLen \in Nat /\ n + m + 2 <= PolicyNameLen
    /\ GroupNameLen \in Nat /\ n + m + 2 <= GroupNameLen

\* Account a can use bucket b: the user is in a group whose policy is for b.
Bound(a, b) ==
    /\ Named(users, a) # {}
    /\ \E g \in groups, p \in policies : g.user = a /\ g.policy = p.name /\ p.bucket = b

Answered(c, op, k) == req[c].op = op /\ pc[c] = "done" /\ code[c] = k

\* After a grant has been answered OK the account can use every bucket of the
\* request, until another call for the same account comes in: no grant, revoke,
\* failure or late request of another account interferes, and whatever earlier
\* calls of the account left half done does not matter.
GrantedMeansBound ==
    \A c \in Call : Answered(c, "grant", "OK") /\ undisturbed[c] =>
        \A i \in DOMAIN req[c].buckets : Bound(req[c].account, req[c].buckets[i])

\* The keys in the answer are the ones that work, although every bucket of the
\* request rotates them.
GrantedKeysCurrent ==
    \A c \in Call : Answered(c, "grant", "OK") /\ undisturbed[c] =>
        \A u \in Named(users, req[c].account) : u.key = creds[c]

\* After a revoke has been answered OK neither the account nor any group or
\* policy that binds it to a bucket of the request is left, however far earlier
\* grants and revokes of the account had got.
RevokedMeansGone ==
    \A c \in Call : Answered(c, "revoke", "OK") /\ undisturbed[c] =>
        /\ Named(users, req[c].account) = {}
        /\ \A i \in DOMAIN req[c].buckets :
              /\ Named(groups, groupName(req[c].buckets[i], req[c].account)) = {}
              /\ Named(policies, policyName(req[c].buckets[i], req[c].account)) = {}

\* An account gains a bucket only by a grant of its own and loses one only by a
\* revoke of its own, running or late: names that are cut to fit do not make the
\* calls of one account act on the group or policy of another.
AccessChangesAreOwn ==
    [][\A a \in Account, b \in Bucket : Bound(a, b) # Bound(a, b)' =>
          \E c \in Call :
             /\ req[c].account = a /\ (InFlight(c) \/ late[c] # "none")
             /\ req[c].op = IF Bound(a, b) THEN "revoke" ELSE "grant"]_vars
====
