------------------------- MODULE AccessProvisionerProofs -------------------------
(***************************************************************************)
(* Proofs about AccessProvisioner, for any number of calls, accounts,      *)
(* buckets and failures and for every configuration.                       *)
(***************************************************************************)
EXTENDS AccessProvisioner, TLAPS

----------------------------------------------------------------------------
(* The calls.                                                              *)

\* A call starts at the first bucket; what it left on the wire is the request of
\* a call that was given up; only an answered call has a code.
CallState ==
    \A c \in Call :
        /\ pc[c] = "idle" => idx[c] = 1
        /\ late[c] # "none" => pc[c] = "done" /\ code[c] = "Canceled"
        /\ pc[c] # "done" => code[c] = "none"

TypeInv == TypeOK /\ CallState

\* The requests that only one of the two operations sends.
GrantLabels == {"exists", "postPolicy", "patchPolicy", "postUser", "patchUser", "postGroup"}

RevokeLabels == {"listGroups", "deleteGroup", "deletePolicy", "deleteUser"}

LabelFits ==
    \A c \in Call :
        /\ pc[c] \in GrantLabels \/ late[c] \in GrantLabels => req[c].op = "grant"
        /\ pc[c] \in RevokeLabels \/ late[c] \in RevokeLabels => req[c].op = "revoke"

\* Nobody else is working on the account of a call that is undisturbed.
Alone ==
    \A c \in Call : undisturbed[c] /\ pc[c] # "idle" => ~Rival(c, req[c].account)

CallsInv == TypeInv /\ LabelFits /\ Alone

\* The loop of call c has left position i behind.
Passed(c, i) == (InFlight(c) /\ i < idx[c]) \/ (pc[c] = "done" /\ code[c] = "OK")

----------------------------------------------------------------------------
(* The keys.                                                               *)

\* The account of c has a user, whose key is the last one c received.
HasKeys(c) ==
    /\ Named(users, req[c].account) # {}
    /\ \A u \in Named(users, req[c].account) : u.key = creds[c]

\* From the first user request on, a grant that is undisturbed holds the key.
KeysHeld ==
    \A c \in Call :
        /\ req[c].op = "grant" /\ undisturbed[c]
        /\ Passed(c, 1) \/ pc[c] = "postGroup"
        => HasKeys(c)

----------------------------------------------------------------------------
(* The names.                                                              *)

\* Policies and groups are for what their names say, ...
PolicyFits ==
    \A p \in policies : \E b \in Bucket, a \in Account : p.name = policyName(b, a) /\ p.bucket = b

GroupFits ==
    \A g \in groups : \E b \in Bucket :
        g.name = groupName(b, g.user) /\ g.policy = policyName(b, g.user)

\* ... a call that may still make a group has not used its identity, ...
Spent(x) ==
    \/ x[2] < idx[x[1]]
    \/ x[2] = idx[x[1]] /\ pc[x[1]] = "done" /\ late[x[1]] = "none"

IdsSpent ==
    /\ \A g \in groups : Spent(g.id)
    /\ \A c \in Call : \A x \in groupIDs[c] : Spent(x)

UniqueId == \A g, h \in groups : g.id = h.id => g = h

\* ... and what a revoke has listed is what it was asked for.
IdsFit ==
    \A c \in Call :
        /\ groupIDs[c] # {} => pc[c] \in {"deleteGroup", "done"} /\ req[c].op = "revoke"
        /\ \A g \in groups : g.id \in groupIDs[c] => g.name = CurrentGroup(c)

NamesInv == PolicyFits /\ GroupFits /\ IdsSpent /\ UniqueId /\ IdsFit

----------------------------------------------------------------------------
(* How far a grant or a revoke has got.                                    *)

HasPolicy(c, i) == Named(policies, policyName(req[c].buckets[i], req[c].account)) # {}

HasGroup(c, i) == Named(groups, groupName(req[c].buckets[i], req[c].account)) # {}

\* A grant that is undisturbed has bound the buckets it has passed.
GrantHolds ==
    \A c \in Call : req[c].op = "grant" /\ undisturbed[c] =>
        /\ \A i \in DOMAIN req[c].buckets :
              Passed(c, i) => HasPolicy(c, i) /\ HasGroup(c, i)
        /\ pc[c] \in {"postUser", "patchUser", "postGroup"} => HasPolicy(c, idx[c])

\* A revoke that is undisturbed has cleared the buckets it has passed.
RevokeHolds ==
    \A c \in Call : req[c].op = "revoke" /\ undisturbed[c] =>
        /\ \A i \in DOMAIN req[c].buckets :
              Passed(c, i) => ~HasPolicy(c, i) /\ ~HasGroup(c, i)
        /\ Passed(c, 1) => Named(users, req[c].account) = {}
        /\ pc[c] = "deleteGroup" => \A g \in Named(groups, CurrentGroup(c)) : g.id \in groupIDs[c]
        /\ pc[c] \in {"deletePolicy", "deleteUser"} => ~HasGroup(c, idx[c])
        /\ pc[c] = "deleteUser" => ~HasPolicy(c, idx[c])

AccessInv == CallsInv /\ KeysHeld /\ NamesInv /\ GrantHolds /\ (config.override = NoOverride => RevokeHolds)

----------------------------------------------------------------------------
(* Steps.                                                                  *)

\* What a step of call c does to the SVM: nothing, or what its next request or the
\* one it left on the wire does.
LEMMA SvmStep ==
  ASSUME NEW c \in Call, Step(c)
  PROVE  \/ UNCHANGED svmVars
         \/ InFlight(c) /\ Applied(c, pc[c])
         \/ late[c] # "none" /\ Applied(c, late[c])
  <1> USE DEF InFlight, Applied
  <1>1. CASE DriverGrantBucketAccess(c) \/ DriverRevokeBucketAccess(c)
    BY <1>1 DEF DriverGrantBucketAccess, DriverRevokeBucketAccess, Begin
  <1>2. CASE BucketExists(c) \/ Cancel(c)
    BY <1>2 DEF BucketExists, Cancel
  <1>3. CASE createOrUpdatePolicy(c)
    BY <1>3 DEF createOrUpdatePolicy
  <1>4. CASE createOrRotateUser(c)
    BY <1>4 DEF createOrRotateUser
  <1>5. CASE createGroupIfNeeded(c)
    BY <1>5 DEF createGroupIfNeeded
  <1>6. CASE deleteGroupIfExists(c)
    BY <1>6 DEF deleteGroupIfExists
  <1>7. CASE deletePolicyIfExists(c) \/ deleteUserIfExists(c)
    BY <1>7 DEF deletePolicyIfExists, deleteUserIfExists
  <1>8. CASE RequestFails(c)
    <2>1. UNCHANGED svmVars \/ Applied(c, pc[c])
      BY <1>8, Zenon DEF RequestFails
    <2>2. InFlight(c)
      BY <1>8 DEF RequestFails
    <2> QED BY <2>1, <2>2, Zenon
  <1>9. CASE Arrive(c)
    BY <1>9, Zenon DEF Arrive
  <1> QED BY <1>1, <1>2, <1>3, <1>4, <1>5, <1>6, <1>7, <1>8, <1>9 DEF Step

\* A step of call c changes nothing of the other calls but that they may be
\* disturbed, and the request of a call does not change once it is received.
LEMMA StepFrame ==
  ASSUME TypeOK, NEW c \in Call, Step(c)
  PROVE  /\ config' = config
         /\ \A d \in Call \ {c} :
              /\ req'[d] = req[d] /\ pc'[d] = pc[d] /\ idx'[d] = idx[d] /\ creds'[d] = creds[d]
              /\ groupIDs'[d] = groupIDs[d] /\ code'[d] = code[d] /\ late'[d] = late[d]
              /\ undisturbed'[d] => undisturbed[d]
         /\ pc[c] # "idle" => req' = req /\ undisturbed' = undisturbed
  <1> USE DEF TypeOK, Answer, Goto, NextBucket
  <1>1. CASE DriverGrantBucketAccess(c) \/ DriverRevokeBucketAccess(c)
    <2>1. PICK op \in {"grant", "revoke"}, l \in Label : Begin(c, op, l)
      BY <1>1 DEF DriverGrantBucketAccess, DriverRevokeBucketAccess, Label
    <2>2. PICK a \in Account, list \in BucketLists :
            /\ req' = [req EXCEPT ![c] = [op |-> op, account |-> a, buckets |-> list]]
            /\ undisturbed' = [d \in Call |->
                 IF d = c THEN ~Rival(c, a)
                 ELSE undisturbed[d] /\ ~(pc[d] # "idle" /\ req[d].account = a)]
      BY <2>1 DEF Begin
    <2>3. \A d \in Call \ {c} : req'[d] = req[d] /\ (undisturbed'[d] => undisturbed[d])
      BY <2>2
    <2>4. \A d \in Call \ {c} : pc'[d] = pc[d] /\ idx'[d] = idx[d] /\ code'[d] = code[d]
      BY <2>1 DEF Begin
    <2>5. pc[c] = "idle" /\ UNCHANGED <<config, creds, groupIDs, late>>
      BY <2>1 DEF Begin
    <2> QED BY <2>3, <2>4, <2>5
  <1>2. CASE BucketExists(c) \/ Cancel(c)
    BY <1>2 DEF BucketExists, Cancel
  <1>3. CASE createOrUpdatePolicy(c)
    BY <1>3 DEF createOrUpdatePolicy
  <1>4. CASE createOrRotateUser(c)
    BY <1>4 DEF createOrRotateUser
  <1>5. CASE createGroupIfNeeded(c)
    BY <1>5 DEF createGroupIfNeeded
  <1>6. CASE deleteGroupIfExists(c)
    BY <1>6 DEF deleteGroupIfExists
  <1>7. CASE deletePolicyIfExists(c) \/ deleteUserIfExists(c)
    BY <1>7 DEF deletePolicyIfExists, deleteUserIfExists
  <1>8. CASE RequestFails(c)
    BY <1>8 DEF RequestFails
  <1>9. CASE Arrive(c)
    BY <1>9 DEF Arrive, callVars
  <1> QED BY <1>1, <1>2, <1>3, <1>4, <1>5, <1>6, <1>7, <1>8, <1>9 DEF Step

----------------------------------------------------------------------------
(* Types.                                                                  *)

\* A call that may change the SVM works on a bucket.
LEMMA CurrentType ==
  ASSUME TypeOK, NEW c \in Call, InFlight(c) \/ late[c] # "none"
  PROVE  /\ CurrentBucket(c) \in Bucket /\ req[c].account \in Account /\ idx[c] \in Nat
         /\ CurrentPolicy(c) \in PolicyNames /\ CurrentGroup(c) \in GroupNames
         /\ Fresh(c) \in Id
  <1>1. req[c].buckets \in Seq(Bucket) /\ idx[c] \in 1..Len(req[c].buckets)
    BY ListAssumption DEF TypeOK, Request
  <1>2. req[c].account \in Account /\ idx[c] \in Nat
    BY DEF TypeOK, Request
  <1>3. CurrentBucket(c) \in Bucket
    BY <1>1 DEF CurrentBucket, TypeOK, Configs
  <1> QED BY <1>2, <1>3 DEF CurrentPolicy, CurrentGroup, PolicyNames, GroupNames, Fresh, Id

\* A request keeps the types of what the SVM holds.
LEMMA AppliedType ==
  ASSUME TypeOK, NEW c \in Call, InFlight(c) \/ late[c] # "none", NEW l, Applied(c, l)
  PROVE  /\ policies' \subseteq [name : PolicyNames, bucket : Bucket]
         /\ users' \subseteq [name : Account, key : Id]
         /\ groups' \subseteq [id : Id, name : GroupNames, user : Account, policy : PolicyNames]
  <1> USE CurrentType DEF TypeOK
  <1>1. CASE PostPolicy(c)
    BY <1>1 DEF PostPolicy
  <1>2. CASE PatchPolicy(c)
    BY <1>2 DEF PatchPolicy
  <1>3. CASE PostUser(c)
    BY <1>3 DEF PostUser, svmVars
  <1>4. CASE PatchUser(c)
    BY <1>4 DEF PatchUser, svmVars
  <1>5. CASE PostGroup(c)
    <2> DEFINE new == [id |-> Fresh(c), name |-> CurrentGroup(c), user |-> req[c].account,
                       policy |-> CurrentPolicy(c)]
    <2>1. new \in [id : Id, name : GroupNames, user : Account, policy : PolicyNames]
      BY Zenon
    <2>2. UNCHANGED <<policies, users>> /\ (groups' = groups \/ groups' = groups \union {new})
      BY <1>5, Zenon DEF PostGroup, svmVars
    <2> HIDE DEF new
    <2> QED BY <2>1, <2>2
  <1>6. CASE DeleteGroup(c)
    BY <1>6 DEF DeleteGroup
  <1>7. CASE DeletePolicy(c)
    BY <1>7 DEF DeletePolicy
  <1>8. CASE DeleteUser(c)
    BY <1>8 DEF DeleteUser
  <1>9. CASE UNCHANGED svmVars
    BY <1>9 DEF svmVars
  <1>10. \/ PostPolicy(c) \/ PatchPolicy(c) \/ PostUser(c) \/ PatchUser(c) \/ PostGroup(c)
         \/ DeleteGroup(c) \/ DeletePolicy(c) \/ DeleteUser(c) \/ UNCHANGED svmVars
    BY Zenon DEF Applied
  <1> QED BY <1>1, <1>2, <1>3, <1>4, <1>5, <1>6, <1>7, <1>8, <1>9, <1>10

\* What the call itself holds.
CallType ==
    /\ config \in Configs
    /\ req \in [Call -> Request]
    /\ pc \in [Call -> Label]
    /\ idx \in [Call -> Nat]
    /\ creds \in [Call -> Id \union {NoKey}]
    /\ groupIDs \in [Call -> SUBSET Id]
    /\ code \in [Call -> Code]
    /\ late \in [Call -> (Label \ {"idle", "done"}) \union {"none"}]
    /\ undisturbed \in [Call -> BOOLEAN]
    /\ faults \in 0..MaxFaults
    /\ \A c \in Call : InFlight(c) \/ late[c] # "none" => idx[c] \in 1..Len(req[c].buckets)

\* Receiving a call keeps the types; the first bucket is one of a list that is not
\* empty.
LEMMA BeginType ==
  ASSUME TypeInv, NEW c \in Call, NEW op \in {"grant", "revoke"}, NEW first \in Label, Begin(c, op, first)
  PROVE  CallType' /\ CallState'
  <1> USE DEF TypeInv, TypeOK, CallState
  <1>1. PICK a \in Account, l \in BucketLists :
          /\ req' = [req EXCEPT ![c] = [op |-> op, account |-> a, buckets |-> l]]
          /\ \/ config.multiTenant /\ Fault /\ Answer(c, "Unavailable")
             \/ l = <<>> /\ UNCHANGED faults /\ Answer(c, "InvalidArgument")
             \/ l # <<>> /\ op \in config.errors /\ UNCHANGED faults /\ Answer(c, "Injected")
             \/ l # <<>> /\ op \notin config.errors /\ UNCHANGED faults /\ Goto(c, first)
          /\ undisturbed' = [d \in Call |->
                IF d = c THEN ~Rival(c, a)
                ELSE undisturbed[d] /\ ~(pc[d] # "idle" /\ req[d].account = a)]
    BY DEF Begin
  <1>2. pc[c] = "idle" /\ UNCHANGED <<config, creds, groupIDs, late>>
    BY DEF Begin
  <1>3. req' \in [Call -> Request] /\ \A d \in Call \ {c} : req'[d] = req[d]
    BY <1>1 DEF Request
  <1>4. undisturbed' \in [Call -> BOOLEAN]
    <2>1. Rival(c, a) \in BOOLEAN
      BY DEF Rival
    <2> QED BY <1>1, <2>1, Zenon
  <1>5. faults' \in 0..MaxFaults /\ idx' = idx
    BY <1>1, FaultAssumption DEF Fault, Answer, Goto
  <1>6. \/ pc' = [pc EXCEPT ![c] = "done"] /\ \E k \in Code : code' = [code EXCEPT ![c] = k]
        \/ pc' = [pc EXCEPT ![c] = first] /\ code' = code /\ l # <<>>
    BY <1>1 DEF Answer, Goto, Code
  <1>7. pc' \in [Call -> Label] /\ code' \in [Call -> Code]
    BY <1>6 DEF Label
  <1>8. late[c] = "none" /\ idx[c] = 1 /\ code[c] = "none"
    BY <1>2
  <1>9. l # <<>> => 1 \in 1..Len(l)
    <2>1. l \in Seq(Bucket)
      BY ListAssumption
    <2> QED BY <2>1
  <1>10. req'[c].buckets = l
    BY <1>1
  <1>11. \A d \in Call : InFlight(d)' \/ late'[d] # "none" => idx'[d] \in 1..Len(req'[d].buckets)
    <2> TAKE d \in Call
    <2>1. CASE d # c
      BY <1>2, <1>3, <1>5, <1>6, <2>1 DEF InFlight
    <2>2. CASE d = c
      BY <1>2, <1>5, <1>6, <1>8, <1>9, <1>10, <2>2 DEF InFlight
    <2> QED BY <2>1, <2>2
  <1>12. CallState'
    BY <1>2, <1>5, <1>6, <1>8
  <1> QED BY <1>2, <1>3, <1>4, <1>5, <1>7, <1>11, <1>12 DEF CallType

\* The requests a call sends.
Sends == Label \ {"idle", "done"}

\* A call that goes on to its next request, is answered, or takes up its next bucket
\* keeps the types.
LEMMA MoveType ==
  ASSUME TypeInv, NEW c \in Call, InFlight(c), UNCHANGED <<config, req, late, undisturbed>>,
         \/ \E l \in Sends : Goto(c, l)
         \/ \E k \in Code : Answer(c, k)
         \/ \E l \in Sends : NextBucket(c, l),
         creds' \in [Call -> Id \union {NoKey}], groupIDs' \in [Call -> SUBSET Id],
         faults' \in 0..MaxFaults
  PROVE  CallType' /\ CallState'
  <1> USE DEF TypeInv, TypeOK, CallState
  <1>0. req[c].buckets \in Seq(Bucket) /\ idx[c] \in 1..Len(req[c].buckets) /\ pc[c] \in Sends
    BY ListAssumption DEF Request, InFlight, Sends
  <1>1. late[c] = "none"
    BY DEF InFlight
  <1>2. CASE \E l \in Sends : Goto(c, l)
    BY <1>0, <1>1, <1>2 DEF Goto, CallType, InFlight, Sends
  <1>3. CASE \E k \in Code : Answer(c, k)
    BY <1>0, <1>1, <1>3 DEF Answer, CallType, InFlight, Label
  <1>4. CASE (\E l \in Sends : NextBucket(c, l)) /\ idx[c] # Len(req[c].buckets)
    <2>1. PICK l \in Sends : pc' = [pc EXCEPT ![c] = l]
      BY <1>4 DEF NextBucket
    <2>2. idx' = [idx EXCEPT ![c] = idx[c] + 1] /\ code' = code
      BY <1>4 DEF NextBucket
    <2>3. idx[c] + 1 \in 1..Len(req[c].buckets)
      BY <1>0, <1>4
    <2>4. idx'[c] = idx[c] + 1 /\ idx' \in [Call -> Nat] /\ \A d \in Call \ {c} : idx'[d] = idx[d]
      BY <1>0, <2>2
    <2>5. pc'[c] = l /\ pc' \in [Call -> Label] /\ \A d \in Call \ {c} : pc'[d] = pc[d]
      BY <2>1 DEF Sends
    <2>6. \A d \in Call : InFlight(d)' \/ late'[d] # "none" => idx'[d] \in 1..Len(req'[d].buckets)
      BY <2>3, <2>4, <2>5 DEF InFlight
    <2>7. CallState'
      BY <1>1, <2>2, <2>4, <2>5 DEF InFlight, Sends
    <2> QED BY <2>2, <2>4, <2>5, <2>6, <2>7 DEF CallType
  <1>5. CASE (\E l \in Sends : NextBucket(c, l)) /\ idx[c] = Len(req[c].buckets)
    BY <1>3, <1>5 DEF NextBucket, Code
  <1> QED BY <1>2, <1>3, <1>4, <1>5

\* Every step keeps the types.
LEMMA StepType ==
  ASSUME TypeInv, NEW c \in Call, Step(c) PROVE TypeInv'
  <1>1. CallType' /\ CallState'
    <2> USE DEF TypeInv, TypeOK, InFlight, Label, Sends, Code
    <2>1. CASE DriverGrantBucketAccess(c) \/ DriverRevokeBucketAccess(c)
      BY <2>1, BeginType DEF DriverGrantBucketAccess, DriverRevokeBucketAccess
    <2>2. CASE BucketExists(c)
      BY <2>2, MoveType DEF BucketExists
    <2>3. CASE createOrUpdatePolicy(c)
      BY <2>3, MoveType DEF createOrUpdatePolicy
    <2>4. CASE createOrRotateUser(c)
      <3>1. InFlight(c) /\ UNCHANGED <<config, req, late, undisturbed, groupIDs, faults>>
        BY <2>4 DEF createOrRotateUser
      <3>2. creds' = creds \/ creds' = [creds EXCEPT ![c] = Fresh(c)]
        BY <2>4 DEF createOrRotateUser
      <3>3. creds' \in [Call -> Id \union {NoKey}]
        BY <3>1, <3>2, CurrentType
      <3>4. (\E l \in Sends : Goto(c, l)) \/ (\E k \in Code : Answer(c, k))
        BY <2>4 DEF createOrRotateUser
      <3> QED BY <3>1, <3>3, <3>4, MoveType
    <2>5. CASE createGroupIfNeeded(c)
      BY <2>5, MoveType DEF createGroupIfNeeded
    <2>6. CASE deleteGroupIfExists(c)
      <3>1. InFlight(c) /\ UNCHANGED <<config, req, late, undisturbed, creds, faults>>
        BY <2>6 DEF deleteGroupIfExists
      <3>2. groupIDs' \in [Call -> SUBSET Id]
        <4>1. {g.id : g \in Named(groups, CurrentGroup(c))} \in SUBSET Id
          BY DEF Named
        <4> QED BY <2>6, <4>1 DEF deleteGroupIfExists
      <3>3. \E l \in Sends : Goto(c, l)
        BY <2>6 DEF deleteGroupIfExists
      <3> QED BY <3>1, <3>2, <3>3, MoveType
    <2>7. CASE deletePolicyIfExists(c) \/ deleteUserIfExists(c)
      BY <2>7, MoveType DEF deletePolicyIfExists, deleteUserIfExists
    <2>8. CASE RequestFails(c)
      <3>1. InFlight(c) /\ UNCHANGED <<config, req, late, undisturbed, creds, groupIDs>>
        BY <2>8 DEF RequestFails
      <3>2. faults' \in 0..MaxFaults
        BY <2>8, FaultAssumption DEF RequestFails, Fault
      <3>3. \E k \in Code : Answer(c, k)
        BY <2>8, Zenon DEF RequestFails
      <3> QED BY <3>1, <3>2, <3>3, MoveType
    <2>9. CASE Cancel(c)
      <3>1. idx[c] \in 1..Len(req[c].buckets) /\ pc[c] \in Sends
        BY <2>9 DEF Cancel
      <3> QED BY <2>9, <3>1 DEF Cancel, Answer, CallType, CallState
    <2>10. CASE Arrive(c)
      BY <2>10 DEF Arrive, callVars, CallType, CallState
    <2> QED BY <2>1, <2>2, <2>3, <2>4, <2>5, <2>6, <2>7, <2>8, <2>9, <2>10 DEF Step
  <1>2. /\ policies' \subseteq [name : PolicyNames, bucket : Bucket]
        /\ users' \subseteq [name : Account, key : Id]
        /\ groups' \subseteq [id : Id, name : GroupNames, user : Account, policy : PolicyNames]
    BY SvmStep, AppliedType DEF TypeInv, TypeOK, svmVars
  <1> QED BY <1>1, <1>2 DEF TypeInv, TypeOK, CallType

\* The types hold at the start.
LEMMA InitType == Init => TypeInv
  <1> SUFFICES ASSUME Init PROVE TypeInv
    OBVIOUS
  <1>1. NoRequest \in Request
    BY AccountAssumption DEF NoRequest, Request
  <1> QED BY <1>1, ConfigAssumption, FaultAssumption
          DEF Init, TypeInv, TypeOK, CallState, Label, Code, InFlight

\* The variables of the driver and of the SVM keep their types, and no loop runs
\* past the end of its list.
THEOREM TypeCorrect == Spec => []TypeOK
  <1>1. TypeInv /\ [Next]_vars => TypeInv'
    <2> SUFFICES ASSUME TypeInv, [Next]_vars PROVE TypeInv'
      OBVIOUS
    <2>1. CASE UNCHANGED vars
      BY <2>1 DEF vars, callVars, svmVars, TypeInv, TypeOK, CallState, InFlight
    <2> QED BY <2>1, StepType DEF Next
  <1>2. TypeInv => TypeOK
    BY DEF TypeInv
  <1> QED BY InitType, <1>1, <1>2, PTL DEF Spec

----------------------------------------------------------------------------
(* Which calls work on an account.                                         *)

\* Call c may still change the SVM.
Busy(c) == InFlight(c) \/ late[c] # "none"

\* A step is that of a call that is received, or of one that may change the SVM.
LEMMA StepBusy ==
  ASSUME NEW c \in Call, Step(c) PROVE pc[c] = "idle" \/ Busy(c)
  BY DEF Step, DriverGrantBucketAccess, DriverRevokeBucketAccess, Begin, BucketExists,
     createOrUpdatePolicy, createOrRotateUser, createGroupIfNeeded, deleteGroupIfExists,
     deletePolicyIfExists, deleteUserIfExists, RequestFails, Cancel, Arrive, Busy, InFlight

\* What receiving a call does.
LEMMA BeginFrame ==
  ASSUME TypeInv, NEW c \in Call, Step(c), pc[c] = "idle"
  PROVE  /\ UNCHANGED svmVars /\ late'[c] = "none" /\ idx' = idx /\ idx[c] = 1
         /\ \/ pc'[c] = "done" /\ code'[c] # "OK"
            \/ pc'[c] = "exists" /\ req'[c].op = "grant"
            \/ pc'[c] = "listGroups" /\ req'[c].op = "revoke"
         /\ undisturbed' = [d \in Call |->
                IF d = c THEN ~Rival(c, req'[c].account)
                ELSE undisturbed[d] /\ ~(pc[d] # "idle" /\ req[d].account = req'[c].account)]
         /\ groupIDs' = groupIDs
  <1> USE DEF TypeInv, TypeOK, CallState
  <1>1. late[c] = "none" /\ idx[c] = 1
    OBVIOUS
  <1>2. DriverGrantBucketAccess(c) \/ DriverRevokeBucketAccess(c)
    BY <1>1 DEF Step, BucketExists, createOrUpdatePolicy, createOrRotateUser, createGroupIfNeeded,
       deleteGroupIfExists, deletePolicyIfExists, deleteUserIfExists, RequestFails, Cancel, Arrive,
       InFlight
  <1>3. PICK op \in {"grant", "revoke"}, first \in {"exists", "listGroups"} :
           Begin(c, op, first) /\ (op = "grant" <=> first = "exists")
    BY <1>2 DEF DriverGrantBucketAccess, DriverRevokeBucketAccess
  <1>4. PICK a \in Account, l \in BucketLists :
          /\ req' = [req EXCEPT ![c] = [op |-> op, account |-> a, buckets |-> l]]
          /\ Goto(c, first) \/ \E k \in Code \ {"OK"} : Answer(c, k)
          /\ undisturbed' = [d \in Call |->
                IF d = c THEN ~Rival(c, a)
                ELSE undisturbed[d] /\ ~(pc[d] # "idle" /\ req[d].account = a)]
    BY <1>3 DEF Begin, Code
  <1>5. req'[c].op = op /\ req'[c].account = a
    BY <1>4
  <1>6. idx' = idx /\ (pc'[c] = first \/ (pc'[c] = "done" /\ code'[c] # "OK"))
    BY <1>4 DEF Goto, Answer
  <1>7. UNCHANGED <<svmVars, late, groupIDs>>
    BY <1>3 DEF Begin
  <1> QED BY <1>1, <1>3, <1>4, <1>5, <1>6, <1>7

\* Every step keeps requests and operations together.
LEMMA StepLabelFits ==
  ASSUME TypeInv, LabelFits, NEW c \in Call, Step(c) PROVE LabelFits'
  <1>0. TypeOK
    BY DEF TypeInv
  <1>1. SUFFICES /\ pc'[c] \in GrantLabels \/ late'[c] \in GrantLabels => req'[c].op = "grant"
                 /\ pc'[c] \in RevokeLabels \/ late'[c] \in RevokeLabels => req'[c].op = "revoke"
    BY <1>0, StepFrame DEF LabelFits
  <1>2. CASE pc[c] = "idle"
    BY <1>2, BeginFrame DEF GrantLabels, RevokeLabels
  <1>3. CASE pc[c] # "idle"
    <2> USE <1>0, <1>3 DEF TypeOK, LabelFits, GrantLabels, RevokeLabels, Goto, Answer, NextBucket
    <2>1. req' = req
      BY StepFrame
    <2>2. CASE BucketExists(c) \/ createOrUpdatePolicy(c)
      BY <2>1, <2>2 DEF BucketExists, createOrUpdatePolicy
    <2>3. CASE createOrRotateUser(c) \/ createGroupIfNeeded(c)
      BY <2>1, <2>3 DEF createOrRotateUser, createGroupIfNeeded
    <2>4. CASE deleteGroupIfExists(c)
      BY <2>1, <2>4 DEF deleteGroupIfExists
    <2>5. CASE deletePolicyIfExists(c) \/ deleteUserIfExists(c)
      BY <2>1, <2>5 DEF deletePolicyIfExists, deleteUserIfExists
    <2>6. CASE RequestFails(c)
      <3>1. pc'[c] = "done" /\ late' = late
        BY <2>6 DEF RequestFails
      <3> QED BY <2>1, <3>1
    <2>7. CASE Cancel(c) \/ Arrive(c)
      BY <2>1, <2>7 DEF Cancel, Arrive, callVars
    <2>8. ~DriverGrantBucketAccess(c) /\ ~DriverRevokeBucketAccess(c)
      BY DEF DriverGrantBucketAccess, DriverRevokeBucketAccess, Begin
    <2> QED BY <2>2, <2>3, <2>4, <2>5, <2>6, <2>7, <2>8 DEF Step
  <1> QED BY <1>2, <1>3

\* Every step keeps undisturbed calls alone: a call that is received disturbs
\* those of its account, and is itself undisturbed only when there are none.
LEMMA StepAlone ==
  ASSUME TypeInv, Alone, NEW c \in Call, Step(c) PROVE Alone'
  <1>0. /\ TypeOK
        /\ \A d \in Call \ {c} :
              /\ req'[d] = req[d] /\ pc'[d] = pc[d] /\ late'[d] = late[d]
              /\ undisturbed'[d] => undisturbed[d]
    BY StepFrame DEF TypeInv
  <1> SUFFICES ASSUME NEW e \in Call, undisturbed'[e], pc'[e] # "idle",
                      NEW d \in Call \ {e}, req'[d].account = req'[e].account, Busy(d)'
               PROVE  FALSE
    BY DEF Alone, Rival, Busy
  <1>1. CASE pc[c] = "idle"
    <2>1. undisturbed' = [x \in Call |->
                IF x = c THEN ~Rival(c, req'[c].account)
                ELSE undisturbed[x] /\ ~(pc[x] # "idle" /\ req[x].account = req'[c].account)]
      BY <1>1, BeginFrame
    <2>2. CASE e = c
      <3>1. Busy(d) /\ req[d].account = req'[c].account
        BY <1>0, <2>2 DEF Busy, InFlight
      <3> QED BY <2>1, <2>2, <3>1 DEF Rival, Busy
    <2>3. CASE e # c /\ d = c
      BY <1>0, <2>1, <2>3
    <2>4. CASE e # c /\ d # c
      BY <1>0, <2>4 DEF Alone, Rival, Busy, InFlight
    <2> QED BY <2>2, <2>3, <2>4
  <1>2. CASE pc[c] # "idle"
    <2>1. req' = req /\ undisturbed' = undisturbed /\ Busy(c)
      BY <1>0, <1>2, StepFrame, StepBusy
    <2>2. Busy(d)
      BY <1>0, <2>1 DEF Busy, InFlight
    <2>3. pc[e] # "idle"
      BY <1>0, <1>2
    <2> QED BY <2>1, <2>2, <2>3 DEF Alone, Rival, Busy
  <1> QED BY <1>1, <1>2

\* The facts about calls are inductive.
LEMMA StepCalls ==
  ASSUME CallsInv, NEW c \in Call, Step(c) PROVE CallsInv'
  BY StepType, StepLabelFits, StepAlone DEF CallsInv

----------------------------------------------------------------------------
(* The keys.                                                               *)

\* A step for one account leaves the users of the others alone.
LEMMA UsersLocal ==
  ASSUME NEW c \in Call, Step(c), NEW a, a # req[c].account
  PROVE  Named(users', a) = Named(users, a)
  <1>1. CASE users' = users
    BY <1>1
  <1>2. CASE users' # users
    <2>1. \E l : Applied(c, l)
      BY <1>2, SvmStep, Zenon DEF svmVars
    <2>2. PostUser(c) \/ PatchUser(c) \/ DeleteUser(c)
      BY <1>2, <2>1, Zenon DEF Applied, PostPolicy, PatchPolicy, PostGroup, DeleteGroup, DeletePolicy,
         svmVars
    <2> QED BY <2>2 DEF PostUser, PatchUser, DeleteUser, Named, svmVars
  <1> QED BY <1>1, <1>2

\* No other call changes the SVM on behalf of the account of an undisturbed call.
LEMMA OthersApart ==
  ASSUME CallsInv, NEW c \in Call, Step(c), NEW e \in Call \ {c}, pc[e] # "idle", undisturbed'[e]
  PROVE  UNCHANGED svmVars \/ (Busy(c) /\ req[c].account # req[e].account)
  <1>1. CASE pc[c] = "idle"
    BY <1>1, BeginFrame DEF CallsInv
  <1>2. CASE pc[c] # "idle"
    <2>1. Busy(c) /\ undisturbed[e]
      BY <1>2, StepBusy, StepFrame DEF CallsInv, TypeInv
    <2> QED BY <2>1 DEF CallsInv, Alone, Rival, Busy
  <1> QED BY <1>1, <1>2

\* A call that fails, is given up, or was given up before has passed nothing.
LEMMA FailedPassedNothing ==
  ASSUME TypeInv, NEW c \in Call, RequestFails(c) \/ Cancel(c) \/ Arrive(c), NEW i
  PROVE  ~Passed(c, i)' /\ pc'[c] = "done"
  <1> USE DEF TypeInv, TypeOK, CallState, Passed, InFlight
  <1>1. CASE RequestFails(c)
    <2>1. Answer(c, "Internal") \/ Answer(c, "ResourceExhausted")
      BY <1>1, Zenon DEF RequestFails
    <2> QED BY <2>1 DEF Answer
  <1>2. CASE Cancel(c)
    BY <1>2 DEF Cancel, Answer
  <1>3. CASE Arrive(c)
    BY <1>3 DEF Arrive, callVars
  <1> QED BY <1>1, <1>2, <1>3

\* When a grant goes on from its user requests to the group, the account has a user
\* with the key the grant has just received.
LEMMA UserRequest ==
  ASSUME TypeOK, NEW c \in Call, createOrRotateUser(c), ~Answer(c, "Internal")
  PROVE  /\ InFlight(c)
         /\ \/ Goto(c, "patchUser") /\ creds' = creds /\ users' = users
            \/ /\ creds'[c] = Fresh(c) /\ Goto(c, "postGroup")
               /\ users' = (users \ Named(users, req[c].account))
                              \union {[name |-> req[c].account, key |-> Fresh(c)]}
         /\ Goto(c, "patchUser") => pc'[c] = "patchUser"
         /\ Goto(c, "postGroup") => pc'[c] = "postGroup"
  <1> USE DEF TypeOK
  <1>1. pc[c] \in {"postUser", "patchUser"}
    BY DEF createOrRotateUser
  <1>2. CASE pc[c] = "postUser" /\ Named(users, req[c].account) = {}
    <2>1. /\ creds' = [creds EXCEPT ![c] = Fresh(c)] /\ Goto(c, "postGroup")
          /\ users' = users \union {[name |-> req[c].account, key |-> Fresh(c)]}
      BY <1>2 DEF createOrRotateUser, PostUser
    <2> QED BY <1>1, <1>2, <2>1 DEF InFlight, Goto
  <1>3. CASE pc[c] = "postUser" /\ Named(users, req[c].account) # {}
    <2>1. creds' = creds /\ Goto(c, "patchUser") /\ users' = users
      BY <1>3 DEF createOrRotateUser, PostUser, svmVars
    <2> QED BY <1>1, <2>1 DEF InFlight, Goto
  <1>4. CASE pc[c] = "patchUser"
    <2>1. Named(users, req[c].account) # {}
      BY <1>4 DEF createOrRotateUser
    <2>2. /\ creds' = [creds EXCEPT ![c] = Fresh(c)] /\ Goto(c, "postGroup")
          /\ users' = (users \ Named(users, req[c].account))
                         \union {[name |-> req[c].account, key |-> Fresh(c)]}
      BY <1>4, <2>1 DEF createOrRotateUser, PatchUser
    <2> QED BY <1>1, <2>2 DEF InFlight, Goto
  <1> QED BY <1>1, <1>2, <1>3, <1>4

\* Every step keeps the keys of undisturbed grants.
LEMMA StepKeys ==
  ASSUME CallsInv, KeysHeld, NEW c \in Call, Step(c) PROVE KeysHeld'
  <1>0. TypeInv /\ TypeOK /\ CallState /\ LabelFits
    BY DEF CallsInv, TypeInv
  <1> SUFFICES ASSUME NEW e \in Call, req'[e].op = "grant", undisturbed'[e],
                      Passed(e, 1)' \/ pc'[e] = "postGroup"
               PROVE  HasKeys(e)'
    BY DEF KeysHeld
  <1>1. CASE e # c
    <2>1. /\ req'[e] = req[e] /\ pc'[e] = pc[e] /\ idx'[e] = idx[e] /\ creds'[e] = creds[e]
          /\ code'[e] = code[e] /\ undisturbed[e]
      BY <1>0, <1>1, StepFrame
    <2>2. Passed(e, 1) \/ pc[e] = "postGroup"
      BY <2>1 DEF Passed, InFlight
    <2>3. HasKeys(e) /\ pc[e] # "idle"
      BY <2>1, <2>2 DEF KeysHeld, Passed, InFlight
    <2>4. UNCHANGED svmVars \/ req[c].account # req[e].account
      BY <1>1, <2>3, OthersApart
    <2>5. Named(users', req[e].account) = Named(users, req[e].account)
      BY <2>4, UsersLocal DEF svmVars
    <2> QED BY <2>1, <2>3, <2>5 DEF HasKeys
  <1>2. CASE e = c /\ pc[c] = "idle"
    BY <1>0, <1>2, BeginFrame DEF Passed, InFlight
  <1>3. CASE e = c /\ pc[c] # "idle"
    <2>1. req' = req /\ undisturbed[c]
      BY <1>0, <1>3, StepFrame
    <2> USE <1>0, <1>3, <2>1
    <2>2. ASSUME InFlight(c), NEW l \in Sends \ {"postGroup"}, Goto(c, l), creds' = creds, users' = users
          PROVE  HasKeys(c)'
      <3>1. Passed(c, 1)
        BY <2>2 DEF Passed, Goto, InFlight, Sends, TypeOK
      <3> QED BY <2>2, <3>1 DEF KeysHeld, HasKeys
    <2>3. \A k \in Code \ {"OK"} : ~Answer(c, k)
      BY DEF Answer, Passed, InFlight, TypeOK
    <2>4. CASE BucketExists(c) \/ createOrUpdatePolicy(c) \/ createOrRotateUser(c)
      <3>1. CASE BucketExists(c)
        BY <2>2, <2>3, <3>1 DEF BucketExists, InFlight, svmVars, Sends, Label, Code
      <3>2. CASE createOrUpdatePolicy(c)
        BY <2>2, <2>3, <3>2
        DEF createOrUpdatePolicy, PostPolicy, PatchPolicy, InFlight, Sends, Label, Code
      <3>3. CASE createOrRotateUser(c)
        <4>1. Answer(c, "Internal") \/ pc'[c] = "patchUser" \/ pc'[c] = "postGroup"
          BY <3>3 DEF createOrRotateUser, Goto, TypeOK
        <4>2. CASE pc'[c] = "patchUser" /\ ~Answer(c, "Internal")
          <5>1. Goto(c, "patchUser") /\ creds' = creds /\ users' = users /\ InFlight(c)
            BY <3>3, <4>2, UserRequest
          <5> QED BY <2>2, <5>1 DEF Sends, Label
        <4>3. CASE pc'[c] = "postGroup" /\ ~Answer(c, "Internal")
          <5>1. /\ creds'[c] = Fresh(c)
                /\ users' = (users \ Named(users, req[c].account))
                               \union {[name |-> req[c].account, key |-> Fresh(c)]}
            BY <3>3, <4>3, UserRequest
          <5>2. PICK new : new = [name |-> req[c].account, key |-> Fresh(c)]
            OBVIOUS
          <5>3. new.name = req[c].account /\ new.key = creds'[c]
            BY <5>1, <5>2
          <5>4. Named(users', req[c].account) = {new}
            BY <5>1, <5>2, <5>3 DEF Named
          <5> QED BY <5>3, <5>4 DEF HasKeys
        <4> QED BY <2>3, <4>1, <4>2, <4>3 DEF Code
      <3> QED BY <2>4, <3>1, <3>2, <3>3
    <2>5. CASE createGroupIfNeeded(c)
      <3>1. HasKeys(c)
        BY <2>5 DEF createGroupIfNeeded, KeysHeld
      <3> QED BY <2>5, <3>1 DEF createGroupIfNeeded, PostGroup, svmVars, HasKeys
    <2>6. CASE deleteGroupIfExists(c) \/ deletePolicyIfExists(c) \/ deleteUserIfExists(c)
      BY <2>6 DEF deleteGroupIfExists, deletePolicyIfExists, deleteUserIfExists, LabelFits, RevokeLabels
    <2>7. CASE RequestFails(c) \/ Cancel(c) \/ Arrive(c)
      BY <2>7, FailedPassedNothing
    <2>8. ~DriverGrantBucketAccess(c) /\ ~DriverRevokeBucketAccess(c)
      BY DEF DriverGrantBucketAccess, DriverRevokeBucketAccess, Begin
    <2> QED BY <2>4, <2>5, <2>6, <2>7, <2>8 DEF Step
  <1> QED BY <1>1, <1>2, <1>3

\* The keys in the answer of an undisturbed grant are the ones that work, whatever
\* the other calls do and how many buckets the grant has: every rotation the grant
\* makes replaces the key it holds, and no other call works on the account.
THEOREM GrantedKeysAreCurrent == Spec => []GrantedKeysCurrent
  <1> DEFINE Inv == CallsInv /\ KeysHeld
  <1>1. Init => Inv
    BY InitType DEF Init, CallsInv, LabelFits, GrantLabels, RevokeLabels, Alone, KeysHeld, Passed, InFlight
  <1>2. Inv /\ [Next]_vars => Inv'
    <2> SUFFICES ASSUME Inv, [Next]_vars PROVE Inv'
      OBVIOUS
    <2>1. CASE UNCHANGED vars
      BY <2>1 DEF vars, callVars, svmVars, CallsInv, TypeInv, TypeOK, CallState, LabelFits, Alone, Rival,
         InFlight, KeysHeld, HasKeys, Passed
    <2> QED BY <2>1, StepCalls, StepKeys DEF Next
  <1>3. Inv => GrantedKeysCurrent
    BY DEF KeysHeld, HasKeys, Passed, GrantedKeysCurrent, Answered
  <1> QED BY <1>1, <1>2, <1>3, PTL DEF Spec

----------------------------------------------------------------------------
(* Names and identities.                                                   *)

\* Only a grant makes or changes something in the SVM, and only a revoke deletes.
LEMMA SvmChange ==
  ASSUME CallsInv, NEW c \in Call, Step(c)
  PROVE  \/ UNCHANGED svmVars
         \/ /\ Busy(c) /\ req[c].op = "grant"
            /\ PostPolicy(c) \/ PatchPolicy(c) \/ PostUser(c) \/ PatchUser(c) \/ PostGroup(c)
         \/ /\ Busy(c) /\ req[c].op = "revoke"
            /\ DeleteGroup(c) \/ DeletePolicy(c) \/ DeleteUser(c)
  <1>1. CASE InFlight(c) /\ Applied(c, pc[c])
    BY <1>1, Zenon DEF CallsInv, LabelFits, GrantLabels, RevokeLabels, Busy, Applied
  <1>2. CASE late[c] # "none" /\ Applied(c, late[c])
    BY <1>2, Zenon DEF CallsInv, LabelFits, GrantLabels, RevokeLabels, Busy, Applied
  <1> QED BY <1>1, <1>2, SvmStep, Zenon

\* How a step of call c changes the groups.
LEMMA GroupChange ==
  ASSUME CallsInv, NEW c \in Call, Step(c)
  PROVE  \/ groups' = groups
         \/ /\ Busy(c) /\ req[c].op = "revoke" /\ UNCHANGED <<policies, users>>
            /\ groups' = {g \in groups : g.id \notin groupIDs[c]}
         \/ /\ Busy(c) /\ req[c].op = "grant" /\ UNCHANGED <<policies, users>>
            /\ \E new : /\ new.id = Fresh(c) /\ new.name = CurrentGroup(c)
                        /\ new.user = req[c].account /\ new.policy = CurrentPolicy(c)
                        /\ groups' = groups \union {new}
  <1>1. CASE PostGroup(c) /\ groups' # groups /\ Busy(c) /\ req[c].op = "grant"
    <2>1. PICK new : new = [id |-> Fresh(c), name |-> CurrentGroup(c), user |-> req[c].account,
                            policy |-> CurrentPolicy(c)]
      OBVIOUS
    <2>2. groups' = groups \union {new} /\ UNCHANGED <<policies, users>>
      BY <1>1, <2>1, Zenon DEF PostGroup, svmVars
    <2>3. /\ new.id = Fresh(c) /\ new.name = CurrentGroup(c) /\ new.user = req[c].account
          /\ new.policy = CurrentPolicy(c)
      BY <2>1
    <2> QED BY <1>1, <2>2, <2>3
  <1>2. CASE DeleteGroup(c) /\ Busy(c) /\ req[c].op = "revoke"
    BY <1>2 DEF DeleteGroup
  <1>3. CASE groups' # groups
    BY <1>1, <1>2, <1>3, SvmChange
    DEF PostPolicy, PatchPolicy, PostUser, PatchUser, DeletePolicy, DeleteUser, svmVars
  <1> QED BY <1>3

\* An identity that is spent stays so.
LEMMA SpentStays ==
  ASSUME TypeInv, NEW c \in Call, Step(c), NEW x \in Id, Spent(x) PROVE Spent(x)'
  <1> USE DEF TypeInv, TypeOK
  <1>0. x[1] \in Call /\ x[2] \in Nat
    BY DEF Id
  <1>1. CASE x[1] # c
    BY <1>0, <1>1, StepFrame DEF Spent
  <1>2. CASE x[1] = c
    <2>1. x[2] < idx[c]
      BY <1>2, StepBusy DEF Spent, Busy, InFlight
    <2>2. idx' = idx \/ idx' = [idx EXCEPT ![c] = idx[c] + 1]
      <3>1. CASE pc[c] = "idle"
        BY <3>1, BeginFrame
      <3>2. CASE RequestFails(c)
        BY <3>2, Zenon DEF RequestFails, Answer
      <3>3. CASE pc[c] # "idle" /\ ~RequestFails(c)
        BY <3>3 DEF Step, DriverGrantBucketAccess, DriverRevokeBucketAccess, Begin, BucketExists,
           createOrUpdatePolicy, createOrRotateUser, createGroupIfNeeded, deleteGroupIfExists,
           deletePolicyIfExists, deleteUserIfExists, Cancel, Arrive, callVars, Goto, Answer,
           NextBucket
      <3> QED BY <3>1, <3>2, <3>3
    <2>3. idx'[c] = idx[c] \/ idx'[c] = idx[c] + 1
      BY <2>2
    <2> QED BY <1>0, <1>2, <2>1, <2>3 DEF Spent
  <1> QED BY <1>1, <1>2

\* A call that makes a group spends its identity, which was not spent before.
LEMMA FreshIsSpent ==
  ASSUME CallsInv, NEW c \in Call, Step(c), Busy(c), groups' # groups, req[c].op = "grant",
         NEW x \in Id, x = Fresh(c)
  PROVE  ~Spent(x) /\ Spent(x)'
  <1> USE DEF CallsInv, TypeInv, TypeOK, CallState
  <1>0. x[1] = c /\ x[2] = idx[c] /\ idx[c] \in Nat
    BY DEF Fresh
  <1>1. ~Spent(x)
    BY <1>0 DEF Spent, Busy, InFlight
  <1>2. CASE createGroupIfNeeded(c)
    <2>1. late'[c] = "none"
      BY <1>2 DEF createGroupIfNeeded
    <2>2. idx'[c] = idx[c] + 1 \/ (idx'[c] = idx[c] /\ pc'[c] = "done")
      BY <1>2 DEF createGroupIfNeeded, NextBucket, Answer
    <2> QED BY <1>0, <1>1, <2>1, <2>2 DEF Spent
  <1>3. CASE RequestFails(c)
    <2>1. pc'[c] = "done" /\ late' = late /\ late[c] = "none"
      BY <1>3, FailedPassedNothing DEF RequestFails, InFlight
    <2>2. idx' = idx
      BY <1>3, Zenon DEF RequestFails, Answer
    <2> QED BY <1>0, <1>1, <2>1, <2>2 DEF Spent
  <1>4. CASE Arrive(c)
    BY <1>0, <1>1, <1>4 DEF Arrive, callVars, Spent
  <1>5. CASE ~createGroupIfNeeded(c) /\ ~RequestFails(c) /\ ~Arrive(c)
    BY <1>5 DEF Step, DriverGrantBucketAccess, DriverRevokeBucketAccess, Begin, BucketExists,
       createOrUpdatePolicy, createOrRotateUser, deleteGroupIfExists, deletePolicyIfExists,
       deleteUserIfExists, Cancel, svmVars, PostPolicy, PatchPolicy, PostUser, PatchUser,
       DeletePolicy, DeleteUser, LabelFits, RevokeLabels
  <1> QED BY <1>2, <1>3, <1>4, <1>5

\* Every step keeps identities apart.
LEMMA StepIds ==
  ASSUME CallsInv, NamesInv, NEW c \in Call, Step(c) PROVE IdsSpent' /\ UniqueId' /\ IdsFit'
  <1> USE DEF NamesInv
  <1>0. TypeInv /\ TypeOK /\ CallState
    BY DEF CallsInv, TypeInv
  <1>1. /\ \A g \in groups : g.id \in Id
        /\ \A d \in Call : groupIDs[d] \subseteq Id
    BY <1>0 DEF TypeOK
  <1>2. CASE groups' \subseteq groups
    <2>1. UniqueId'
      BY <1>2 DEF UniqueId
    <2>2. \A g \in groups' : Spent(g.id)'
      BY <1>0, <1>1, <1>2, SpentStays DEF IdsSpent
    <2>3. CASE groupIDs'[c] \subseteq groupIDs[c]
      <3>1. \A d \in Call : groupIDs'[d] \subseteq groupIDs[d]
        BY <1>0, <2>3, StepFrame
      <3>2. IdsSpent'
        BY <1>0, <1>1, <2>2, <3>1, SpentStays DEF IdsSpent
      <3>3. IdsFit'
        <4>1. ASSUME NEW d \in Call, groupIDs'[d] # {}
              PROVE  /\ pc'[d] \in {"deleteGroup", "done"} /\ req'[d].op = "revoke"
                     /\ CurrentGroup(d)' = CurrentGroup(d)
          <5>1. /\ groupIDs[d] # {} /\ pc[d] \in {"deleteGroup", "done"} /\ pc[d] # "idle"
                /\ req[d].op = "revoke"
            BY <3>1, <4>1 DEF IdsFit
          <5>2. CASE d # c
            BY <1>0, <5>1, <5>2, StepFrame DEF CurrentGroup, CurrentBucket
          <5>3. CASE d = c
            <6>1. RequestFails(c) \/ Cancel(c) \/ Arrive(c) \/ deleteGroupIfExists(c)
              BY <5>1, <5>3 DEF Step, DriverGrantBucketAccess, DriverRevokeBucketAccess, Begin,
                 BucketExists, createOrUpdatePolicy, createOrRotateUser, createGroupIfNeeded,
                 deletePolicyIfExists, deleteUserIfExists
            <6>2. ~deleteGroupIfExists(c)
              BY <1>0, <4>1, <5>1, <5>3 DEF deleteGroupIfExists, TypeOK
            <6>3. idx' = idx /\ req' = req /\ config' = config
              BY <6>1, <6>2, Zenon DEF RequestFails, Cancel, Arrive, callVars, Answer
            <6> QED BY <1>0, <5>1, <5>3, <6>1, <6>2, <6>3, FailedPassedNothing DEF CurrentGroup, CurrentBucket
          <5> QED BY <5>2, <5>3
        <4> QED BY <1>2, <3>1, <4>1 DEF IdsFit
      <3> QED BY <2>1, <3>2, <3>3
    <2>4. CASE ~(groupIDs'[c] \subseteq groupIDs[c])
      <3>1. deleteGroupIfExists(c)
        BY <2>4 DEF Step, DriverGrantBucketAccess, DriverRevokeBucketAccess, Begin, BucketExists,
           createOrUpdatePolicy, createOrRotateUser, createGroupIfNeeded, deletePolicyIfExists,
           deleteUserIfExists, RequestFails, Cancel, Arrive, callVars
      <3>2. /\ groupIDs'[c] = {g.id : g \in Named(groups, CurrentGroup(c))}
            /\ Goto(c, IF Named(groups, CurrentGroup(c)) = {} THEN "deletePolicy" ELSE "deleteGroup")
            /\ UNCHANGED svmVars /\ req' = req /\ config' = config
        BY <1>0, <2>4, <3>1 DEF deleteGroupIfExists, TypeOK
      <3>3. idx' = idx /\ CurrentGroup(c)' = CurrentGroup(c)
        BY <3>2 DEF Goto, CurrentGroup, CurrentBucket
      <3>4. groupIDs'[c] # {} => pc'[c] = "deleteGroup" /\ req'[c].op = "revoke"
        BY <1>0, <3>1, <3>2
        DEF Goto, TypeOK, deleteGroupIfExists, CallsInv, LabelFits, RevokeLabels
      <3>5. \A x \in groupIDs'[c] : \E g \in groups : x = g.id /\ g.name = CurrentGroup(c)
        BY <3>2 DEF Named
      <3>6. \A g \in groups' : g.id \in groupIDs'[c] => g.name = CurrentGroup(c)
        BY <1>2, <3>5 DEF UniqueId
      <3>7. IdsSpent'
        <4>1. \A d \in Call : \A x \in groupIDs'[d] : x \in Id /\ Spent(x)
          BY <1>0, <1>1, <3>5, StepFrame DEF IdsSpent
        <4> QED BY <1>0, <2>2, <4>1, SpentStays DEF IdsSpent
      <3>8. IdsFit'
        <4>1. \A d \in Call \ {c} : /\ CurrentGroup(d)' = CurrentGroup(d) /\ pc'[d] = pc[d]
                                    /\ groupIDs'[d] = groupIDs[d]
                                    /\ req'[d] = req[d]
          BY <1>0, StepFrame DEF CurrentGroup, CurrentBucket
        <4> QED BY <1>2, <3>3, <3>4, <3>6, <4>1 DEF IdsFit
      <3> QED BY <2>1, <3>7, <3>8
    <2> QED BY <2>3, <2>4
  <1>3. CASE ~(groups' \subseteq groups)
    <2>1. Busy(c) /\ req[c].op = "grant"
      BY <1>3, GroupChange
    <2>2. PICK new : new.id = Fresh(c) /\ groups' = groups \union {new}
      BY <1>3, GroupChange
    <2>3. PICK x \in Id : x = new.id
      BY <1>0, <2>1, <2>2, CurrentType DEF Busy
    <2>4. ~Spent(x) /\ Spent(x)'
      BY <1>3, <2>1, <2>2, <2>3, FreshIsSpent
    <2>5. /\ \A g \in groups : g.id # x
          /\ \A d \in Call : x \notin groupIDs[d]
      BY <2>4 DEF IdsSpent
    <2>6. UniqueId'
      BY <2>2, <2>3, <2>5 DEF UniqueId
    <2>7. ~deleteGroupIfExists(c) /\ pc[c] # "idle"
      BY <1>0, <2>1 DEF deleteGroupIfExists, CallsInv, LabelFits, RevokeLabels, Busy, InFlight, CallState
    <2>8. groupIDs' = groupIDs
      BY <2>7 DEF Step, DriverGrantBucketAccess, DriverRevokeBucketAccess, Begin, BucketExists,
           createOrUpdatePolicy, createOrRotateUser, createGroupIfNeeded, deletePolicyIfExists,
           deleteUserIfExists, RequestFails, Cancel, Arrive, callVars
    <2>9. IdsSpent'
      <3>1. \A g \in groups' : Spent(g.id)'
        <4> TAKE g \in groups'
        <4>1. CASE g \in groups
          BY <1>0, <1>1, <4>1, SpentStays DEF IdsSpent
        <4>2. CASE g \notin groups
          <5>1. g.id = x
            BY <2>2, <2>3, <4>2
          <5> QED BY <2>4, <5>1 DEF Spent
        <4> QED BY <4>1, <4>2
      <3> QED BY <1>0, <1>1, <2>8, <3>1, SpentStays DEF IdsSpent
    <2>10. groupIDs[c] = {}
      BY <2>1 DEF IdsFit
    <2>11. IdsFit'
      <3>1. \A d \in Call \ {c} : /\ CurrentGroup(d)' = CurrentGroup(d) /\ pc'[d] = pc[d]
                                  /\ req'[d] = req[d]
        BY <1>0, StepFrame DEF CurrentGroup, CurrentBucket
      <3> QED BY <2>2, <2>3, <2>5, <2>8, <2>10, <3>1 DEF IdsFit
    <2> QED BY <2>6, <2>9, <2>11
  <1> QED BY <1>2, <1>3

\* Policies and groups are never made for anything but what their names say.
LEMMA StepFits ==
  ASSUME CallsInv, NamesInv, NEW c \in Call, Step(c) PROVE PolicyFits' /\ GroupFits'
  <1> USE DEF NamesInv
  <1>0. TypeOK
    BY DEF CallsInv, TypeInv
  <1>1. PolicyFits'
    <2> SUFFICES ASSUME NEW p \in policies', p \notin policies
                 PROVE  \E b \in Bucket, a \in Account : p.name = policyName(b, a) /\ p.bucket = b
      BY DEF PolicyFits
    <2>1. Busy(c) /\ (PostPolicy(c) \/ PatchPolicy(c))
      BY SvmChange DEF svmVars, PostUser, PatchUser, PostGroup, DeleteGroup, DeletePolicy, DeleteUser
    <2>2. /\ CurrentBucket(c) \in Bucket /\ req[c].account \in Account
          /\ CurrentPolicy(c) = policyName(CurrentBucket(c), req[c].account)
      BY <1>0, <2>1, CurrentType DEF Busy, CurrentPolicy
    <2>3. p.name = CurrentPolicy(c) /\ p.bucket = CurrentBucket(c)
      <3>1. CASE PostPolicy(c)
        BY <3>1 DEF PostPolicy
      <3>2. CASE PatchPolicy(c)
        <4>1. PICK q \in policies : q.name = CurrentPolicy(c) /\ p = [q EXCEPT !.bucket = CurrentBucket(c)]
          BY <3>2 DEF PatchPolicy
        <4>2. q \in [name : PolicyNames, bucket : Bucket]
          BY <1>0 DEF TypeOK
        <4> QED BY <4>1, <4>2
      <3> QED BY <2>1, <3>1, <3>2
    <2> QED BY <2>2, <2>3
  <1>2. GroupFits'
    <2> SUFFICES ASSUME NEW g \in groups', g \notin groups
                 PROVE  \E b \in Bucket : g.name = groupName(b, g.user) /\ g.policy = policyName(b, g.user)
      BY DEF GroupFits
    <2>1. Busy(c) /\ g.name = CurrentGroup(c) /\ g.user = req[c].account /\ g.policy = CurrentPolicy(c)
      BY GroupChange
    <2> QED BY <1>0, <2>1, CurrentType DEF Busy, CurrentPolicy, CurrentGroup
  <1> QED BY <1>1, <1>2

\* The facts about names are inductive.
LEMMA StepNames ==
  ASSUME CallsInv, NamesInv, NEW c \in Call, Step(c) PROVE NamesInv'
  BY StepFits, StepIds DEF NamesInv

----------------------------------------------------------------------------
(* The accounts do not touch each other's bindings.                        *)

\* How a step of call c changes the policies: updating one writes what it says.
LEMMA PolicyChange ==
  ASSUME CallsInv, NamesInv, NamesDistinct, NEW c \in Call, Step(c)
  PROVE  \/ policies' = policies
         \/ /\ Busy(c) /\ req[c].op = "grant" /\ UNCHANGED <<users, groups>>
            /\ \E new : new.name = CurrentPolicy(c) /\ policies' = policies \union {new}
         \/ /\ Busy(c) /\ req[c].op = "revoke" /\ UNCHANGED <<users, groups>>
            /\ policies' = policies \ Named(policies, CurrentPolicy(c))
  <1>0. TypeOK
    BY DEF CallsInv, TypeInv
  <1>1. CASE PatchPolicy(c) /\ Busy(c)
    <2>1. /\ CurrentBucket(c) \in Bucket /\ req[c].account \in Account
          /\ CurrentPolicy(c) = policyName(CurrentBucket(c), req[c].account)
      BY <1>0, <1>1, CurrentType DEF Busy, CurrentPolicy
    <2>2. ASSUME NEW p \in policies, p.name = CurrentPolicy(c)
          PROVE  [p EXCEPT !.bucket = CurrentBucket(c)] = p
      <3>1. PICK b \in Bucket, a \in Account : p.name = policyName(b, a) /\ p.bucket = b
        BY DEF NamesInv, PolicyFits
      <3>2. p.bucket = CurrentBucket(c)
        <4>1. policyName(b, a) = policyName(CurrentBucket(c), req[c].account)
          BY <2>1, <2>2, <3>1
        <4> QED BY <2>1, <3>1, <4>1 DEF NamesDistinct
      <3>3. p \in [name : PolicyNames, bucket : Bucket]
        BY <1>0 DEF TypeOK
      <3> QED BY <3>2, <3>3
    <2>3. \A p \in policies :
             (IF p.name = CurrentPolicy(c) THEN [p EXCEPT !.bucket = CurrentBucket(c)] ELSE p) = p
      BY <2>2
    <2> QED BY <1>1, <2>3 DEF PatchPolicy
  <1>2. CASE PostPolicy(c) /\ Busy(c) /\ req[c].op = "grant" /\ policies' # policies
    <2>1. PICK new : new = [name |-> CurrentPolicy(c), bucket |-> CurrentBucket(c)]
      OBVIOUS
    <2>2. new.name = CurrentPolicy(c)
      BY <2>1
    <2>3. UNCHANGED <<users, groups>> /\ policies' = policies \union {new}
      BY <1>2, <2>1, Zenon DEF PostPolicy
    <2> QED BY <1>2, <2>2, <2>3
  <1>3. CASE DeletePolicy(c) /\ Busy(c) /\ req[c].op = "revoke"
    BY <1>3 DEF DeletePolicy
  <1> QED
    BY <1>1, <1>2, <1>3, SvmChange
    DEF svmVars, PostUser, PatchUser, PostGroup, DeleteGroup, DeleteUser

\* A step for one account leaves the policies and groups of the others alone.
LEMMA BindingsLocal ==
  ASSUME CallsInv, NamesInv, NamesDistinct, NEW c \in Call, Step(c),
         NEW a \in Account, a # req[c].account, NEW b \in Bucket
  PROVE  /\ Named(policies', policyName(b, a)) = Named(policies, policyName(b, a))
         /\ Named(groups', groupName(b, a)) = Named(groups, groupName(b, a))
  <1>1. CASE UNCHANGED <<policies, groups>>
    BY <1>1
  <1>2. CASE ~UNCHANGED <<policies, groups>>
    <2>1. Busy(c)
      BY <1>2, PolicyChange, GroupChange
    <2>2. /\ CurrentBucket(c) \in Bucket /\ req[c].account \in Account
          /\ CurrentPolicy(c) = policyName(CurrentBucket(c), req[c].account)
          /\ CurrentGroup(c) = groupName(CurrentBucket(c), req[c].account)
      BY <2>1, CurrentType DEF Busy, CurrentPolicy, CurrentGroup, CallsInv, TypeInv
    <2>3. CurrentPolicy(c) # policyName(b, a) /\ CurrentGroup(c) # groupName(b, a)
      BY <2>2 DEF NamesDistinct
    <2>4. Named(policies', policyName(b, a)) = Named(policies, policyName(b, a))
      BY <2>3, PolicyChange DEF Named
    <2>5. Named(groups', groupName(b, a)) = Named(groups, groupName(b, a))
      <3>1. \A g \in groups : g.id \in groupIDs[c] => g.name = CurrentGroup(c)
        BY DEF NamesInv, IdsFit
      <3> QED BY <2>3, <3>1, GroupChange DEF Named
    <2> QED BY <2>4, <2>5
  <1> QED BY <1>1, <1>2

\* A step of a grant takes nothing away from its account.
LEMMA GrantGrows ==
  ASSUME CallsInv, NamesInv, NamesDistinct, NEW c \in Call, Step(c), req[c].op = "grant"
  PROVE  /\ policies \subseteq policies' /\ groups \subseteq groups'
         /\ \A a : Named(users, a) # {} => Named(users', a) # {}
  <1>1. policies \subseteq policies' /\ groups \subseteq groups'
    BY PolicyChange, GroupChange
  <1>2. ASSUME NEW a, Named(users, a) # {} PROVE Named(users', a) # {}
    <2>1. CASE users' = users
      BY <1>2, <2>1
    <2>2. CASE users' # users
      <3>1. PostUser(c) \/ PatchUser(c)
        BY <2>2, SvmChange DEF svmVars, PostPolicy, PatchPolicy, PostGroup
      <3>2. PICK new : new = [name |-> req[c].account, key |-> Fresh(c)]
        OBVIOUS
      <3>3. new \in users' /\ new.name = req[c].account
        BY <2>2, <3>1, <3>2 DEF PostUser, PatchUser, svmVars
      <3>4. CASE a = req[c].account
        BY <3>3, <3>4 DEF Named
      <3>5. CASE a # req[c].account
        BY <1>2, <3>5, UsersLocal
      <3> QED BY <3>4, <3>5
    <2> QED BY <2>1, <2>2
  <1> QED BY <1>1, <1>2

\* A step of a revoke gives nothing.
LEMMA RevokeShrinks ==
  ASSUME CallsInv, NamesInv, NamesDistinct, NEW c \in Call, Step(c), req[c].op = "revoke"
  PROVE  policies' \subseteq policies /\ groups' \subseteq groups /\ users' \subseteq users
  <1>1. policies' \subseteq policies /\ groups' \subseteq groups
    BY PolicyChange, GroupChange
  <1>2. users' \subseteq users
    BY SvmChange DEF svmVars, DeleteGroup, DeletePolicy, DeleteUser
  <1> QED BY <1>1, <1>2

\* The invariant of calls and names.
LEMMA NamesInvariance == Spec => [](CallsInv /\ NamesInv)
  <1> DEFINE Inv == CallsInv /\ NamesInv
  <1>1. Init => Inv
    BY InitType DEF Init, CallsInv, LabelFits, GrantLabels, RevokeLabels, Alone, NamesInv, PolicyFits,
       GroupFits, IdsSpent, UniqueId, IdsFit
  <1>2. Inv /\ [Next]_vars => Inv'
    <2> SUFFICES ASSUME Inv, [Next]_vars PROVE Inv'
      OBVIOUS
    <2>1. CASE UNCHANGED vars
      <3>1. CallsInv'
        BY <2>1 DEF vars, callVars, svmVars, CallsInv, TypeInv, TypeOK, CallState, LabelFits, Alone, Rival,
           InFlight
      <3>2. NamesInv'
        BY <2>1 DEF vars, callVars, svmVars, NamesInv, PolicyFits, GroupFits, IdsSpent, Spent, UniqueId,
           IdsFit, CurrentGroup, CurrentBucket
      <3> QED BY <3>1, <3>2
    <2> QED BY <2>1, StepCalls, StepNames DEF Next
  <1> QED BY <1>1, <1>2, PTL DEF Spec

\* Whether account a can use bucket b depends on what is there under the names of a.
LEMMA BoundLocal ==
  ASSUME CallsInv, NamesInv, NamesInv', NamesDistinct, NEW c \in Call, Step(c),
         NEW a \in Account, a # req[c].account, NEW b
  PROVE  Bound(a, b) <=> Bound(a, b)'
  <1>1. Named(users', a) = Named(users, a)
    BY UsersLocal
  <1>2. ASSUME NEW g \in groups, NEW p \in policies, g.user = a, g.policy = p.name
        PROVE  g \in groups' /\ p \in policies'
    <2>1. PICK y \in Bucket : g.name = groupName(y, a) /\ g.policy = policyName(y, a)
      BY <1>2 DEF NamesInv, GroupFits
    <2>2. g \in Named(groups, groupName(y, a)) /\ p \in Named(policies, policyName(y, a))
      BY <1>2, <2>1 DEF Named
    <2>3. g \in Named(groups', groupName(y, a)) /\ p \in Named(policies', policyName(y, a))
      BY <2>2, BindingsLocal
    <2> QED BY <2>3 DEF Named
  <1>3. ASSUME NEW g \in groups', NEW p \in policies', g.user = a, g.policy = p.name
        PROVE  g \in groups /\ p \in policies
    <2>1. PICK y \in Bucket : g.name = groupName(y, a) /\ g.policy = policyName(y, a)
      BY <1>3 DEF NamesInv, GroupFits
    <2>2. g \in Named(groups', groupName(y, a)) /\ p \in Named(policies', policyName(y, a))
      BY <1>3, <2>1 DEF Named
    <2>3. g \in Named(groups, groupName(y, a)) /\ p \in Named(policies, policyName(y, a))
      BY <2>2, BindingsLocal
    <2> QED BY <2>3 DEF Named
  <1> QED BY <1>1, <1>2, <1>3 DEF Bound

\* An account gains a bucket only by a grant of its own and loses one only by a
\* revoke of its own, however calls of other accounts interleave, fail or arrive
\* late: groups are deleted by identities that were listed under the account's own
\* name and that no later group can have got, and an update of a policy that exists
\* writes what is already there.
THEOREM AccessIsOwn == NamesDistinct => (Spec => AccessChangesAreOwn)
  <1> SUFFICES ASSUME NamesDistinct PROVE Spec => AccessChangesAreOwn
    OBVIOUS
  <1> DEFINE Own == \A a \in Account, b \in Bucket : Bound(a, b) # Bound(a, b)' =>
                       \E c \in Call :
                          /\ req[c].account = a /\ (InFlight(c) \/ late[c] # "none")
                          /\ req[c].op = IF Bound(a, b) THEN "revoke" ELSE "grant"
  <1>1. CallsInv /\ NamesInv /\ (CallsInv /\ NamesInv)' /\ [Next]_vars => [Own]_vars
    <2> SUFFICES ASSUME CallsInv, NamesInv, NamesInv', Next,
                        NEW a \in Account, NEW b \in Bucket, Bound(a, b) # Bound(a, b)'
                 PROVE  \E c \in Call :
                          /\ req[c].account = a /\ (InFlight(c) \/ late[c] # "none")
                          /\ req[c].op = IF Bound(a, b) THEN "revoke" ELSE "grant"
      OBVIOUS
    <2>0. PICK c \in Call : Step(c)
      BY DEF Next
    <2>1. ~(Bound(a, b) <=> Bound(a, b)')
      BY DEF Bound
    <2>2. req[c].account = a
      BY <2>0, <2>1, BoundLocal
    <2>3. Busy(c)
      <3>1. ~UNCHANGED svmVars
        BY <2>1 DEF svmVars, Bound, Named
      <3> QED BY <2>0, <3>1, SvmChange
    <2>4. req[c].op \in {"grant", "revoke"}
      BY DEF CallsInv, TypeInv, TypeOK, Request
    <2>5. req[c].op = "grant" => ~Bound(a, b)
      <3> SUFFICES ASSUME req[c].op = "grant", Bound(a, b) PROVE Bound(a, b)'
        BY <2>1
      <3> QED BY <2>0, GrantGrows DEF Bound
    <2>6. req[c].op = "revoke" => Bound(a, b)
      <3> SUFFICES ASSUME req[c].op = "revoke", Bound(a, b)' PROVE Bound(a, b)
        BY <2>1
      <3> QED BY <2>0, RevokeShrinks DEF Bound, Named
    <2> QED BY <2>2, <2>3, <2>4, <2>5, <2>6 DEF Busy
  <1> QED BY <1>1, NamesInvariance, PTL DEF Spec, AccessChangesAreOwn

----------------------------------------------------------------------------
(* What the answers promise.                                               *)

\* The bindings of another call's account stay as they are while it is undisturbed.
LEMMA UndisturbedStays ==
  ASSUME CallsInv, NamesInv, NamesDistinct, NEW c \in Call, Step(c), NEW e \in Call \ {c},
         pc[e] # "idle", undisturbed'[e]
  PROVE  /\ Named(users', req[e].account) = Named(users, req[e].account)
         /\ \A b \in Bucket :
              /\ Named(policies', policyName(b, req[e].account)) = Named(policies, policyName(b, req[e].account))
              /\ Named(groups', groupName(b, req[e].account)) = Named(groups, groupName(b, req[e].account))
  <1>1. req[e].account \in Account
    BY DEF CallsInv, TypeInv, TypeOK, Request
  <1>2. UNCHANGED svmVars \/ req[c].account # req[e].account
    BY OthersApart
  <1>3. CASE UNCHANGED svmVars
    BY <1>3 DEF svmVars
  <1>4. CASE req[c].account # req[e].account
    BY <1>1, <1>4, UsersLocal, BindingsLocal
  <1> QED BY <1>2, <1>3, <1>4

\* The positions of a list of buckets.
LEMMA ListType ==
  ASSUME TypeOK, NEW c \in Call
  PROVE  /\ DOMAIN req[c].buckets = 1..Len(req[c].buckets) /\ Len(req[c].buckets) \in Nat
         /\ \A i \in DOMAIN req[c].buckets : req[c].buckets[i] \in Bucket
  <1>1. <<>> \in Seq(Bucket) /\ req[c].buckets \in BucketLists \union {<<>>}
    BY DEF TypeOK, Request
  <1>2. req[c].buckets \in Seq(Bucket)
    BY <1>1, ListAssumption
  <1> QED BY <1>2

\* The same after a step.
LEMMA PrimedListType ==
  ASSUME TypeOK', NEW c \in Call
  PROVE  DOMAIN req'[c].buckets = 1..Len(req'[c].buckets) /\ Len(req'[c].buckets) \in Nat
  <1>1. <<>> \in Seq(Bucket) /\ req'[c].buckets \in BucketLists \union {<<>>}
    BY DEF TypeOK, Request
  <1>2. req'[c].buckets \in Seq(Bucket)
    BY <1>1, ListAssumption
  <1> QED BY <1>2

\* How far a call has got changes by its own steps only, and by one position.
LEMMA PassedStep ==
  ASSUME TypeInv, NEW c \in Call, Step(c), NEW i \in Nat \ {0}, Passed(c, i)'
  PROVE  /\ req' = req /\ InFlight(c)
         /\ Passed(c, i) \/ createGroupIfNeeded(c) \/ deleteUserIfExists(c)
         /\ i \in DOMAIN req[c].buckets => Passed(c, i) \/ i = idx[c]
  <1> USE DEF TypeInv, TypeOK, CallState, Passed, InFlight
  <1>1. pc[c] # "idle"
    <2> SUFFICES ASSUME pc[c] = "idle" PROVE FALSE
      OBVIOUS
    <2>1. (pc'[c] = "done" => code'[c] # "OK") /\ idx'[c] = 1
      BY BeginFrame
    <2> QED BY <2>1
  <1>2. req' = req
    BY <1>1, StepFrame
  <1>3. ~RequestFails(c) /\ ~Cancel(c) /\ ~Arrive(c)
    BY FailedPassedNothing
  <1>4. CASE BucketExists(c) \/ createOrUpdatePolicy(c) \/ createOrRotateUser(c)
    BY <1>2, <1>4 DEF BucketExists, createOrUpdatePolicy, createOrRotateUser, Goto, Answer
  <1>5. CASE deleteGroupIfExists(c) \/ deletePolicyIfExists(c)
    BY <1>2, <1>5 DEF deleteGroupIfExists, deletePolicyIfExists, Goto, Answer
  <1>6. CASE createGroupIfNeeded(c) \/ deleteUserIfExists(c)
    <2>1. \E l : NextBucket(c, l)
      BY <1>6 DEF createGroupIfNeeded, deleteUserIfExists
    <2>2. InFlight(c)
      BY <1>6 DEF createGroupIfNeeded, deleteUserIfExists
    <2>3. /\ DOMAIN req[c].buckets = 1..Len(req[c].buckets) /\ Len(req[c].buckets) \in Nat
          /\ idx[c] \in Nat
      BY ListType
    <2>4. CASE idx[c] = Len(req[c].buckets)
      BY <1>2, <1>6, <2>2, <2>3, <2>4
    <2>5. CASE idx[c] # Len(req[c].buckets)
      <3>1. idx'[c] = idx[c] + 1 /\ code' = code
        BY <2>1, <2>5 DEF NextBucket
      <3> QED BY <1>2, <1>6, <2>2, <2>3, <3>1
    <2> QED BY <2>4, <2>5
  <1> QED BY <1>1, <1>3, <1>4, <1>5, <1>6
          DEF Step, DriverGrantBucketAccess, DriverRevokeBucketAccess, Begin

\* Every step keeps the bindings of undisturbed grants.
LEMMA StepGrantHolds ==
  ASSUME CallsInv, NamesInv, NamesDistinct, GrantHolds, NEW c \in Call, Step(c) PROVE GrantHolds'
  <1>0. TypeInv /\ TypeOK
    BY DEF CallsInv, TypeInv
  <1> SUFFICES ASSUME NEW e \in Call, req'[e].op = "grant", undisturbed'[e]
               PROVE  /\ \A i \in DOMAIN req'[e].buckets : Passed(e, i)' => HasPolicy(e, i)' /\ HasGroup(e, i)'
                      /\ pc'[e] \in {"postUser", "patchUser", "postGroup"} => HasPolicy(e, idx[e])'
    BY DEF GrantHolds
  <1>1. CASE e # c
    <2>1. /\ req'[e] = req[e] /\ pc'[e] = pc[e] /\ idx'[e] = idx[e] /\ code'[e] = code[e]
          /\ undisturbed[e]
      BY <1>0, <1>1, StepFrame
    <2>2. \A i : Passed(e, i)' <=> Passed(e, i)
      BY <2>1 DEF Passed, InFlight
    <2>3. ASSUME NEW i \in DOMAIN req[e].buckets, pc[e] # "idle"
          PROVE  (HasPolicy(e, i) => HasPolicy(e, i)') /\ (HasGroup(e, i) => HasGroup(e, i)')
      <3>1. req[e].buckets[i] \in Bucket
        BY <1>0, ListType
      <3> QED BY <1>1, <2>1, <2>3, <3>1, UndisturbedStays DEF HasPolicy, HasGroup
    <2>4. ASSUME NEW i \in DOMAIN req[e].buckets, Passed(e, i)' PROVE HasPolicy(e, i)' /\ HasGroup(e, i)'
      <3>1. Passed(e, i) /\ pc[e] # "idle"
        BY <2>2, <2>4 DEF Passed, InFlight
      <3> QED BY <2>1, <2>3, <2>4, <3>1 DEF GrantHolds
    <2>5. ASSUME pc[e] \in {"postUser", "patchUser", "postGroup"} PROVE HasPolicy(e, idx[e])'
      <3>1. PICK i \in DOMAIN req[e].buckets : i = idx[e]
        BY <1>0, <2>5, ListType DEF TypeOK, InFlight
      <3>2. HasPolicy(e, i) /\ pc[e] # "idle"
        BY <2>1, <2>5, <3>1 DEF GrantHolds
      <3>3. HasPolicy(e, i)'
        BY <2>3, <3>2
      <3> QED BY <2>1, <3>1, <3>3 DEF HasPolicy
    <2> QED BY <2>1, <2>4, <2>5
  <1>2. CASE e = c /\ pc[c] = "idle"
    <2>1. pc'[c] \notin {"postUser", "patchUser", "postGroup"}
      BY <1>0, <1>2, BeginFrame
    <2>2. ASSUME NEW i \in DOMAIN req'[c].buckets PROVE ~Passed(c, i)'
      <3>1. i \in Nat \ {0}
        <4>1. TypeOK'
          BY <1>0, StepType DEF TypeInv
        <4>2. DOMAIN req'[c].buckets = 1..Len(req'[c].buckets) /\ Len(req'[c].buckets) \in Nat
          BY <4>1, PrimedListType
        <4> QED BY <4>2
      <3> QED BY <1>0, <1>2, <3>1, PassedStep DEF InFlight
    <2> QED BY <1>2, <2>1, <2>2
  <1>3. CASE e = c /\ pc[c] # "idle"
    <2>1. req' = req /\ undisturbed[c]
      BY <1>0, <1>3, StepFrame
    <2>2. \A i : (HasPolicy(c, i) => HasPolicy(c, i)') /\ (HasGroup(c, i) => HasGroup(c, i)')
      BY <1>3, <2>1, GrantGrows DEF HasPolicy, HasGroup, Named
    <2>3. ASSUME NEW i \in DOMAIN req[c].buckets, Passed(c, i)'
          PROVE  HasPolicy(c, i)' /\ HasGroup(c, i)'
      <3>0. i \in Nat \ {0}
        BY <1>0, ListType
      <3>1. CASE Passed(c, i)
        BY <1>3, <2>1, <2>2, <3>1 DEF GrantHolds
      <3>2. CASE ~Passed(c, i)
        <4>1. i = idx[c] /\ InFlight(c) /\ (createGroupIfNeeded(c) \/ deleteUserIfExists(c))
          BY <1>0, <2>3, <3>0, <3>2, PassedStep
        <4>2. createGroupIfNeeded(c)
          BY <1>3, <2>1, <4>1 DEF deleteUserIfExists, CallsInv, LabelFits, RevokeLabels
        <4>3. HasPolicy(c, i)
          BY <1>3, <2>1, <4>1, <4>2 DEF createGroupIfNeeded, GrantHolds
        <4>4. CurrentGroup(c) = groupName(req[c].buckets[i], req[c].account)
          BY <1>3, <2>1, <4>1 DEF CurrentGroup, CurrentBucket
        <4>5. HasGroup(c, i)'
          <5>1. CASE Named(groups, CurrentGroup(c)) # {}
            BY <2>2, <4>4, <5>1 DEF HasGroup
          <5>2. CASE Named(groups, CurrentGroup(c)) = {}
            <6>1. PICK new : new = [id |-> Fresh(c), name |-> CurrentGroup(c), user |-> req[c].account,
                                    policy |-> CurrentPolicy(c)]
              OBVIOUS
            <6>2. new \in groups' /\ new.name = CurrentGroup(c)
              BY <4>2, <5>2, <6>1 DEF createGroupIfNeeded, PostGroup
            <6> QED BY <2>1, <4>4, <6>2 DEF HasGroup, Named
          <5> QED BY <5>1, <5>2
        <4> QED BY <2>2, <4>3, <4>5
      <3> QED BY <3>1, <3>2
    <2>4. ASSUME pc'[c] \in {"postUser", "patchUser", "postGroup"} PROVE HasPolicy(c, idx[c])'
      <3> USE <1>0, <2>4 DEF TypeOK
      <3>1. createOrUpdatePolicy(c) \/ createOrRotateUser(c)
        <4>1. ~RequestFails(c) /\ ~Cancel(c) /\ ~Arrive(c)
          BY FailedPassedNothing
        <4> QED BY <1>3, <4>1
                DEF Step, DriverGrantBucketAccess, DriverRevokeBucketAccess, Begin, BucketExists,
                createGroupIfNeeded, deleteGroupIfExists, deletePolicyIfExists, deleteUserIfExists,
                Goto, Answer, NextBucket
      <3>2. CASE createOrRotateUser(c)
        <4>1. idx' = idx /\ pc[c] \in {"postUser", "patchUser"}
          BY <3>2 DEF createOrRotateUser, Goto, Answer
        <4>2. HasPolicy(c, idx[c])
          BY <1>3, <2>1, <4>1 DEF GrantHolds
        <4>3. PICK i : i = idx[c]
          OBVIOUS
        <4>4. HasPolicy(c, i)'
          BY <2>2, <4>2, <4>3
        <4> QED BY <4>1, <4>3, <4>4 DEF HasPolicy
      <3>3. CASE createOrUpdatePolicy(c)
        <4>1. idx' = idx /\ pc'[c] = "postUser"
          BY <3>3 DEF createOrUpdatePolicy, Goto, Answer
        <4>2. CurrentPolicy(c) = policyName(req[c].buckets[idx[c]], req[c].account)
          BY <1>3, <2>1 DEF CurrentPolicy, CurrentBucket
        <4>3. CASE Named(policies, CurrentPolicy(c)) # {}
          <5>1. PICK i : i = idx[c]
            OBVIOUS
          <5>2. HasPolicy(c, i)'
            BY <2>2, <4>2, <4>3, <5>1 DEF HasPolicy
          <5> QED BY <4>1, <5>1, <5>2 DEF HasPolicy
        <4>4. CASE Named(policies, CurrentPolicy(c)) = {}
          <5>1. PICK new : new = [name |-> CurrentPolicy(c), bucket |-> CurrentBucket(c)]
            OBVIOUS
          <5>2. new \in policies' /\ new.name = CurrentPolicy(c)
            BY <3>3, <4>1, <4>4, <5>1 DEF createOrUpdatePolicy, PostPolicy, Answer
          <5> QED BY <2>1, <4>1, <4>2, <5>2 DEF HasPolicy, Named
        <4> QED BY <4>3, <4>4
      <3> QED BY <3>1, <3>2, <3>3
    <2> QED BY <1>3, <2>1, <2>3, <2>4
  <1> QED BY <1>1, <1>2, <1>3

\* A call keeps its place in the other steps.
LEMMA NothingPassedYet ==
  ASSUME TypeInv, NEW c \in Call, Step(c), pc[c] = "idle", NEW i \in Nat \ {0} PROVE ~Passed(c, i)'
  BY PassedStep DEF InFlight

\* Every step keeps what undisturbed revokes have cleared.
LEMMA StepRevokeHolds ==
  ASSUME CallsInv, NamesInv, NamesDistinct, config.override = NoOverride, RevokeHolds,
         NEW c \in Call, Step(c)
  PROVE  RevokeHolds'
  <1>0. TypeInv /\ TypeOK /\ config' = config
    BY StepFrame DEF CallsInv, TypeInv
  <1>1. \A e \in Call : req[e].op = "revoke" =>
            /\ CurrentGroup(e) = groupName(req[e].buckets[idx[e]], req[e].account)
            /\ CurrentPolicy(e) = policyName(req[e].buckets[idx[e]], req[e].account)
    BY DEF CurrentGroup, CurrentPolicy, CurrentBucket
  <1>2. \A e \in Call : CurrentGroup(e)' = groupName(req'[e].buckets[idx'[e]], req'[e].account)
    BY <1>0 DEF CurrentGroup, CurrentBucket
  <1> SUFFICES ASSUME NEW e \in Call, req'[e].op = "revoke", undisturbed'[e]
               PROVE  /\ \A i \in DOMAIN req'[e].buckets : Passed(e, i)' => ~HasPolicy(e, i)' /\ ~HasGroup(e, i)'
                      /\ Passed(e, 1)' => Named(users', req'[e].account) = {}
                      /\ pc'[e] = "deleteGroup" =>
                            \A g \in Named(groups', CurrentGroup(e)') : g.id \in groupIDs'[e]
                      /\ pc'[e] \in {"deletePolicy", "deleteUser"} => ~HasGroup(e, idx[e])'
                      /\ pc'[e] = "deleteUser" => ~HasPolicy(e, idx[e])'
    BY DEF RevokeHolds
  <1>3. CASE e # c
    <2>1. /\ req'[e] = req[e] /\ pc'[e] = pc[e] /\ idx'[e] = idx[e] /\ code'[e] = code[e]
          /\ groupIDs'[e] = groupIDs[e] /\ undisturbed[e]
      BY <1>0, <1>3, StepFrame
    <2>2. \A i : Passed(e, i)' => Passed(e, i) /\ pc[e] # "idle"
      BY <2>1 DEF Passed, InFlight
    <2>3. ASSUME NEW i \in DOMAIN req[e].buckets, pc[e] # "idle"
          PROVE  /\ Named(policies', policyName(req[e].buckets[i], req[e].account))
                      = Named(policies, policyName(req[e].buckets[i], req[e].account))
                 /\ Named(groups', groupName(req[e].buckets[i], req[e].account))
                      = Named(groups, groupName(req[e].buckets[i], req[e].account))
      <3>1. req[e].buckets[i] \in Bucket
        BY <1>0, ListType
      <3> QED BY <1>3, <2>3, <3>1, UndisturbedStays
    <2>4. ASSUME NEW i \in DOMAIN req[e].buckets, Passed(e, i)' PROVE ~HasPolicy(e, i)' /\ ~HasGroup(e, i)'
      <3>1. Passed(e, i) /\ pc[e] # "idle"
        BY <2>2, <2>4
      <3>2. ~HasPolicy(e, i) /\ ~HasGroup(e, i)
        BY <2>1, <3>1 DEF RevokeHolds
      <3> QED BY <2>1, <2>3, <3>1, <3>2 DEF HasPolicy, HasGroup
    <2>5. ASSUME Passed(e, 1)' PROVE Named(users', req[e].account) = {}
      <3>1. Passed(e, 1) /\ pc[e] # "idle"
        BY <2>2, <2>5
      <3>2. Named(users, req[e].account) = {}
        BY <2>1, <3>1 DEF RevokeHolds
      <3> QED BY <1>3, <3>1, <3>2, UndisturbedStays
    <2>6. ASSUME pc[e] \in {"deleteGroup", "deletePolicy", "deleteUser"}
          PROVE  /\ pc[e] = "deleteGroup" =>
                            \A g \in Named(groups', CurrentGroup(e)') : g.id \in groupIDs[e]
                 /\ pc[e] \in {"deletePolicy", "deleteUser"} => ~HasGroup(e, idx[e])'
                 /\ pc[e] = "deleteUser" => ~HasPolicy(e, idx[e])'
      <3>1. idx[e] \in DOMAIN req[e].buckets
        BY <1>0, <2>6, ListType DEF TypeOK, InFlight
      <3>2. /\ pc[e] = "deleteGroup" => \A g \in Named(groups, CurrentGroup(e)) : g.id \in groupIDs[e]
            /\ pc[e] \in {"deletePolicy", "deleteUser"} => ~HasGroup(e, idx[e])
            /\ pc[e] = "deleteUser" => ~HasPolicy(e, idx[e])
        BY <2>1 DEF RevokeHolds
      <3>3. /\ Named(policies', policyName(req[e].buckets[idx[e]], req[e].account))
                  = Named(policies, policyName(req[e].buckets[idx[e]], req[e].account))
            /\ Named(groups', groupName(req[e].buckets[idx[e]], req[e].account))
                  = Named(groups, groupName(req[e].buckets[idx[e]], req[e].account))
        <4>1. PICK i \in DOMAIN req[e].buckets : i = idx[e]
          BY <3>1
        <4> QED BY <2>3, <2>6, <4>1
      <3> QED BY <1>1, <1>2, <2>1, <3>2, <3>3 DEF HasPolicy, HasGroup
    <2> QED BY <2>1, <2>4, <2>5, <2>6
  <1>4. CASE e = c /\ pc[c] = "idle"
    <2>1. pc'[c] \notin {"deleteGroup", "deletePolicy", "deleteUser"}
      BY <1>0, <1>4, BeginFrame
    <2>2. \A i \in Nat \ {0} : ~Passed(c, i)'
      BY <1>0, <1>4, NothingPassedYet
    <2>3. DOMAIN req'[c].buckets \subseteq Nat \ {0}
      <3>1. TypeOK'
        BY <1>0, StepType DEF TypeInv
      <3>2. DOMAIN req'[c].buckets = 1..Len(req'[c].buckets) /\ Len(req'[c].buckets) \in Nat
        BY <3>1, PrimedListType
      <3> QED BY <3>2
    <2>4. 1 \in Nat \ {0}
      OBVIOUS
    <2> QED BY <1>4, <2>1, <2>2, <2>3, <2>4
  <1>5. CASE e = c /\ pc[c] # "idle"
    <2>1. req' = req /\ undisturbed[c] /\ req[c].op = "revoke"
      BY <1>0, <1>5, StepFrame
    <2>2. policies' \subseteq policies /\ groups' \subseteq groups /\ users' \subseteq users
      BY <2>1, RevokeShrinks
    <2>3. \A i : (~HasPolicy(c, i) => ~HasPolicy(c, i)') /\ (~HasGroup(c, i) => ~HasGroup(c, i)')
      BY <2>1, <2>2 DEF HasPolicy, HasGroup, Named
    <2>4. ~createGroupIfNeeded(c)
      BY <2>1 DEF createGroupIfNeeded, CallsInv, LabelFits, GrantLabels
    <2>5. ASSUME NEW i \in DOMAIN req[c].buckets, Passed(c, i)'
          PROVE  ~HasPolicy(c, i)' /\ ~HasGroup(c, i)'
      <3>0. i \in Nat \ {0}
        BY <1>0, ListType
      <3>1. CASE Passed(c, i)
        BY <2>1, <2>3, <3>1 DEF RevokeHolds
      <3>2. CASE ~Passed(c, i)
        <4>1. i = idx[c] /\ deleteUserIfExists(c)
          BY <1>0, <2>4, <2>5, <3>0, <3>2, PassedStep
        <4>2. ~HasPolicy(c, i) /\ ~HasGroup(c, i)
          BY <2>1, <4>1 DEF deleteUserIfExists, RevokeHolds
        <4> QED BY <2>3, <4>2
      <3> QED BY <3>1, <3>2
    <2>6. ASSUME Passed(c, 1)' PROVE Named(users', req[c].account) = {}
      <3>1. CASE Passed(c, 1)
        <4>1. Named(users, req[c].account) = {}
          BY <2>1, <3>1 DEF RevokeHolds
        <4> QED BY <2>2, <4>1 DEF Named
      <3>2. CASE ~Passed(c, 1)
        <4>1. 1 \in Nat \ {0}
          OBVIOUS
        <4>2. deleteUserIfExists(c)
          BY <1>0, <2>4, <2>6, <3>2, <4>1, PassedStep
        <4> QED BY <4>2 DEF deleteUserIfExists, DeleteUser, Named
      <3> QED BY <3>1, <3>2
    <2>7. ASSUME pc'[c] \in {"deleteGroup", "deletePolicy", "deleteUser"}
          PROVE  /\ pc'[c] = "deleteGroup" =>
                       \A g \in Named(groups', CurrentGroup(c)') : g.id \in groupIDs'[c]
                 /\ pc'[c] \in {"deletePolicy", "deleteUser"} => ~HasGroup(c, idx[c])'
                 /\ pc'[c] = "deleteUser" => ~HasPolicy(c, idx[c])'
      <3>1. deleteGroupIfExists(c) \/ deletePolicyIfExists(c)
        <4>1. ~RequestFails(c) /\ ~Cancel(c) /\ ~Arrive(c)
          BY <1>0, <2>7, FailedPassedNothing
        <4> QED BY <1>0, <1>5, <2>7, <4>1
                DEF Step, DriverGrantBucketAccess, DriverRevokeBucketAccess, Begin, BucketExists,
                createOrUpdatePolicy, createOrRotateUser, createGroupIfNeeded, deleteUserIfExists,
                Goto, Answer, NextBucket, TypeOK
      <3>2. idx' = idx
        BY <3>1 DEF deleteGroupIfExists, deletePolicyIfExists, Goto
      <3>3. CASE deletePolicyIfExists(c)
        <4>1. pc[c] = "deletePolicy" /\ pc'[c] = "deleteUser" /\ DeletePolicy(c)
          BY <1>0, <3>3 DEF deletePolicyIfExists, Goto, TypeOK
        <4>2. ~HasGroup(c, idx[c])
          BY <2>1, <4>1 DEF RevokeHolds
        <4>3. ~HasGroup(c, idx[c])'
          BY <2>1, <2>2, <3>2, <4>2 DEF HasGroup, Named
        <4>4. ~HasPolicy(c, idx[c])'
          BY <1>1, <2>1, <3>2, <4>1 DEF DeletePolicy, HasPolicy, Named
        <4> QED BY <4>1, <4>3, <4>4
      <3>4. CASE deleteGroupIfExists(c) /\ pc[c] = "listGroups"
        <4>1. /\ groupIDs'[c] = {g.id : g \in Named(groups, CurrentGroup(c))} /\ groups' = groups
              /\ pc'[c] = IF Named(groups, CurrentGroup(c)) = {} THEN "deletePolicy" ELSE "deleteGroup"
          BY <1>0, <3>4 DEF deleteGroupIfExists, Goto, svmVars, TypeOK
        <4>2. CurrentGroup(c)' = CurrentGroup(c)
          BY <1>1, <1>2, <2>1, <3>2
        <4>3. pc'[c] = "deletePolicy" => ~HasGroup(c, idx[c])'
          BY <1>1, <2>1, <3>2, <4>1 DEF HasGroup
        <4> QED BY <4>1, <4>2, <4>3
      <3>5. CASE deleteGroupIfExists(c) /\ pc[c] = "deleteGroup"
        <4>1. groups' = {g \in groups : g.id \notin groupIDs[c]} /\ pc'[c] = "deletePolicy"
          BY <1>0, <3>5 DEF deleteGroupIfExists, DeleteGroup, Goto, TypeOK
        <4>2. \A g \in Named(groups, CurrentGroup(c)) : g.id \in groupIDs[c]
          BY <2>1, <3>5 DEF RevokeHolds
        <4>3. ~HasGroup(c, idx[c])'
          BY <1>1, <2>1, <3>2, <4>1, <4>2 DEF HasGroup, Named
        <4> QED BY <4>1, <4>3
      <3> QED BY <3>1, <3>3, <3>4, <3>5 DEF deleteGroupIfExists
    <2> QED BY <1>5, <2>1, <2>5, <2>6, <2>7
  <1> QED BY <1>3, <1>4, <1>5

\* The inductive invariant of the access half.
LEMMA AccessInvariance == NamesDistinct => (Spec => []AccessInv)
  <1> SUFFICES ASSUME NamesDistinct PROVE Spec => []AccessInv
    OBVIOUS
  <1>1. Init => AccessInv
    BY InitType DEF Init, AccessInv, CallsInv, LabelFits, GrantLabels, RevokeLabels, Alone, NamesInv,
       PolicyFits, GroupFits, IdsSpent, UniqueId, IdsFit, KeysHeld, GrantHolds, RevokeHolds, Passed, InFlight
  <1>2. AccessInv /\ [Next]_vars => AccessInv'
    <2> SUFFICES ASSUME AccessInv, [Next]_vars PROVE AccessInv'
      OBVIOUS
    <2>1. CASE UNCHANGED vars
      <3> USE <2>1 DEF vars, callVars, svmVars, AccessInv, InFlight, CurrentGroup, CurrentBucket, Passed
      <3>1. CallsInv'
        BY DEF CallsInv, TypeInv, TypeOK, CallState, LabelFits, Alone, Rival
      <3>2. NamesInv'
        BY DEF NamesInv, PolicyFits, GroupFits, IdsSpent, Spent, UniqueId, IdsFit
      <3>3. KeysHeld'
        BY DEF KeysHeld, HasKeys
      <3>4. GrantHolds'
        BY DEF GrantHolds, HasPolicy, HasGroup
      <3>5. config.override = NoOverride => RevokeHolds'
        BY DEF RevokeHolds, HasPolicy, HasGroup
      <3> QED BY <3>1, <3>2, <3>3, <3>4, <3>5
    <2>2. ASSUME NEW c \in Call, Step(c) PROVE AccessInv'
      <3>1. config' = config
        BY <2>2, StepFrame DEF AccessInv, CallsInv, TypeInv
      <3> QED BY <2>2, <3>1, StepCalls, StepKeys, StepNames, StepGrantHolds, StepRevokeHolds DEF AccessInv
    <2> QED BY <2>1, <2>2 DEF Next
  <1> QED BY <1>1, <1>2, PTL DEF Spec

\* After a grant has been answered OK the account can use every bucket of the
\* request until another call for the account comes in, for any number of calls,
\* accounts, buckets per request and failures.  The code takes a policy or a group
\* that exists for the right one; that it is follows from the names.
THEOREM GrantsBind == NamesDistinct => (Spec => []GrantedMeansBound)
  <1> SUFFICES ASSUME NamesDistinct PROVE Spec => []GrantedMeansBound
    OBVIOUS
  <1>1. AccessInv => GrantedMeansBound
    <2> SUFFICES ASSUME AccessInv, NEW c \in Call, Answered(c, "grant", "OK"), undisturbed[c],
                        NEW i \in DOMAIN req[c].buckets
                 PROVE  Bound(req[c].account, req[c].buckets[i])
      BY DEF GrantedMeansBound
    <2>1. HasPolicy(c, i) /\ HasGroup(c, i) /\ HasKeys(c)
      BY DEF AccessInv, GrantHolds, KeysHeld, Passed, Answered
    <2>2. req[c].account \in Account /\ req[c].buckets[i] \in Bucket
      BY ListType DEF AccessInv, CallsInv, TypeInv, TypeOK, Request
    <2>3. PICK a \in Account, b \in Bucket : a = req[c].account /\ b = req[c].buckets[i]
      BY <2>2
    <2>4. PICK g \in groups : g.name = groupName(b, a)
      BY <2>1, <2>3 DEF HasGroup, Named
    <2>5. PICK p \in policies : p.name = policyName(b, a)
      BY <2>1, <2>3 DEF HasPolicy, Named
    <2>6. g.user = a /\ g.policy = policyName(b, a)
      <3>1. PICK y \in Bucket : g.name = groupName(y, g.user) /\ g.policy = policyName(y, g.user)
        BY DEF AccessInv, NamesInv, GroupFits
      <3>2. g.user \in Account
        BY DEF AccessInv, CallsInv, TypeInv, TypeOK
      <3>3. groupName(y, g.user) = groupName(b, a)
        BY <2>4, <3>1
      <3> QED BY <3>1, <3>2, <3>3 DEF NamesDistinct
    <2>7. p.bucket = b
      <3>1. PICK y \in Bucket, x \in Account : p.name = policyName(y, x) /\ p.bucket = y
        BY DEF AccessInv, NamesInv, PolicyFits
      <3>2. policyName(y, x) = policyName(b, a)
        BY <2>5, <3>1
      <3> QED BY <3>1, <3>2 DEF NamesDistinct
    <2> QED BY <2>1, <2>3, <2>5, <2>6, <2>7 DEF Bound, HasKeys
  <1> QED BY <1>1, AccessInvariance, PTL

\* After a revoke has been answered OK neither the account nor any group or policy
\* that binds it to a bucket of the request is left, whatever earlier grants and
\* revokes had got done.  The hypothesis on the override is needed: with it a revoke
\* works on the overriding bucket only.
THEOREM RevokesClear == NamesDistinct => (Spec /\ config.override = NoOverride => []RevokedMeansGone)
  <1> SUFFICES ASSUME NamesDistinct PROVE Spec /\ config.override = NoOverride => []RevokedMeansGone
    OBVIOUS
  <1>1. AccessInv /\ config.override = NoOverride => RevokedMeansGone
    BY DEF AccessInv, RevokeHolds, RevokedMeansGone, Answered, Passed, HasPolicy, HasGroup
  <1>2. AccessInv /\ config.override = NoOverride /\ [Next]_vars => (config.override = NoOverride)'
    <2> SUFFICES ASSUME AccessInv, [Next]_vars PROVE config' = config
      OBVIOUS
    <2>1. CASE UNCHANGED vars
      BY <2>1 DEF vars
    <2> QED BY <2>1, StepFrame DEF Next, AccessInv, CallsInv, TypeInv
  <1> QED BY <1>1, <1>2, AccessInvariance, PTL DEF Spec

----------------------------------------------------------------------------
(* Names.                                                                  *)

\* Name r shows the bucket id b and the first m characters of the account a.
Shows(r, b, a, n, m) ==
    /\ \A i \in 1..n : r[i + 1] = Fold(b[i])
    /\ \A i \in 1..m : r[i + n + 2] = Fold(a[i])

\* normalizedName keeps what lies within its limit, whatever x, y and z stand
\* around the two ids.
LEMMA NameShows ==
  ASSUME NEW n \in Nat, NEW m \in Nat, NEW b \in Seq(STRING), NEW a \in Seq(STRING),
         NEW x, NEW y, NEW z, NEW k \in Nat, Len(b) = n, Len(a) >= m, n + m + 2 <= k
  PROVE  Shows(normalizedName(<<x>> \o b \o <<y>> \o a \o <<z>>, k), b, a, n, m)
  <1> DEFINE s == <<x>> \o b \o <<y>> \o a \o <<z>>
  <1>1. /\ Len(s) = Len(b) + Len(a) + 3
        /\ \A i \in 1..Len(b) : s[i + 1] = b[i]
        /\ \A i \in 1..Len(a) : s[i + Len(b) + 2] = a[i]
    OBVIOUS
  <1> HIDE DEF s
  <1>2. \A j \in 1..(n + m + 2) : normalizedName(s, k)[j] = Fold(s[j])
    BY <1>1 DEF normalizedName
  <1>3. \A i \in 1..n : normalizedName(s, k)[i + 1] = Fold(b[i])
    <2> TAKE i \in 1..n
    <2>1. i + 1 \in 1..(n + m + 2)
      OBVIOUS
    <2> QED BY <1>1, <1>2, <2>1
  <1>4. \A i \in 1..m : normalizedName(s, k)[i + n + 2] = Fold(a[i])
    <2> TAKE i \in 1..m
    <2>1. i + n + 2 \in 1..(n + m + 2) /\ i \in 1..Len(a)
      OBVIOUS
    <2> QED BY <1>1, <1>2, <2>1
  <1> QED BY <1>3, <1>4 DEF s, Shows

\* So the names of policies and groups show both ids when these are generated.
LEMMA BothShow ==
  ASSUME NEW n \in Nat, NEW m \in Nat, GeneratedIds(n, m), NEW b \in Bucket, NEW a \in Account
  PROVE  Shows(policyName(b, a), b, a, n, m) /\ Shows(groupName(b, a), b, a, n, m)
  <1>1. /\ b \in Seq(STRING) /\ a \in Seq(STRING) /\ Len(b) = n /\ Len(a) >= m
        /\ PolicyNameLen \in Nat /\ n + m + 2 <= PolicyNameLen
        /\ GroupNameLen \in Nat /\ n + m + 2 <= GroupNameLen
    BY DEF GeneratedIds
  <1>2. ASSUME NEW x, NEW y, NEW z, NEW k \in Nat, n + m + 2 <= k
        PROVE  Shows(normalizedName(<<x>> \o b \o <<y>> \o a \o <<z>>, k), b, a, n, m)
    BY <1>1, <1>2, NameShows
  <1> QED BY <1>1, <1>2 DEF policyName, groupName

\* With generated ids no two bindings share a policy or a group: normalizedName
\* keeps enough of the account, so the hypothesis of AccessIsOwn, GrantsBind and
\* RevokesClear is met.  In the code 5 + 39 + 1 characters of a group name precede
\* the account, of which 64 leave 19.
THEOREM GeneratedIdsApart ==
  ASSUME NEW n \in Nat, NEW m \in Nat, GeneratedIds(n, m) PROVE NamesDistinct
  <1> SUFFICES ASSUME NEW a \in Account, NEW x \in Account, NEW b \in Bucket, NEW y \in Bucket,
                      policyName(b, a) = policyName(y, x) \/ groupName(b, a) = groupName(y, x)
               PROVE  a = x /\ b = y
    BY DEF NamesDistinct
  <1>1. PICK r : Shows(r, b, a, n, m) /\ Shows(r, y, x, n, m)
    BY BothShow
  <1>2. /\ \A i \in 1..n : Fold(b[i]) = Fold(y[i])
        /\ \A i \in 1..m : Fold(a[i]) = Fold(x[i])
    BY <1>1 DEF Shows
  <1> QED BY <1>2 DEF GeneratedIds
====
