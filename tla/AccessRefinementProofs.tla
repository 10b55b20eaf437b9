-------------------------- MODULE AccessRefinementProofs --------------------------
(***************************************************************************)
(* The driver implements AccessService, for any number of calls, accounts, *)
(* buckets and failures: every step of a call is one step of the service   *)
(* for that call, or none.                                                 *)
(***************************************************************************)
EXTENDS AccessRefinement, AccessProvisionerProofs

----------------------------------------------------------------------------
(* The inductive invariant.                                                *)

Refusals == {"Unavailable", "InvalidArgument", "Injected"}

Failures == {"NotFound", "Internal", "ResourceExhausted", "Canceled"}

\* A call that has ended has a code.
DoneCoded == \A c \in Call : pc[c] = "done" => code[c] # "none"

\* An undisturbed revoke past its first bucket has deleted the user, also with an
\* override, when RevokeHolds fails.
UserGone ==
    \A c \in Call : req[c].op = "revoke" /\ undisturbed[c] /\ Passed(c, 1) =>
        Named(users, req[c].account) = {}

\* Bucket b was asked for by a grant for account a that was not refused.
AskedFor(a, b) ==
    \E d \in Call :
        /\ pc[d] # "idle" /\ req[d].op = "grant" /\ req[d].account = a /\ code[d] \notin Refusals
        /\ b \in Elements(req[d].buckets)

\* A group is there because a grant asked for it.
GroupAsked ==
    \A g \in groups : \E b \in Bucket : AskedFor(g.user, b) /\ g.policy = policyName(b, g.user)

ServiceInv == AccessInv /\ GrantedMeansBound /\ DoneCoded /\ UserGone /\ GroupAsked

----------------------------------------------------------------------------
(* Steps.                                                                  *)

\* How a call that has been received moves on: it sends its next request, ends well
\* after its last bucket, fails, or its late request arrives.
LEMMA Moves ==
  ASSUME CallsInv, NEW c \in Call, Step(c), pc[c] # "idle"
  PROVE  \/ InFlight(c) /\ late' = late /\ InFlight(c)' /\ code' = code
         \/ InFlight(c) /\ late' = late /\ pc'[c] = "done" /\ code'[c] = "OK"
         \/ InFlight(c) /\ pc'[c] = "done" /\ code'[c] \in Failures
         \/ late[c] # "none" /\ late'[c] = "none" /\ pc' = pc /\ code' = code
  <1> USE DEF CallsInv, TypeInv, TypeOK, InFlight, Goto, Answer, Failures
  <1>1. CASE BucketExists(c)
    BY <1>1 DEF BucketExists
  <1>2. CASE createOrUpdatePolicy(c)
    BY <1>2 DEF createOrUpdatePolicy
  <1>3. CASE createOrRotateUser(c)
    BY <1>3 DEF createOrRotateUser
  <1>4. CASE createGroupIfNeeded(c)
    BY <1>4 DEF createGroupIfNeeded, NextBucket
  <1>5. CASE deleteGroupIfExists(c)
    BY <1>5 DEF deleteGroupIfExists
  <1>6. CASE deletePolicyIfExists(c)
    BY <1>6 DEF deletePolicyIfExists
  <1>7. CASE deleteUserIfExists(c)
    BY <1>7 DEF deleteUserIfExists, NextBucket
  <1>8. CASE RequestFails(c)
    <2>1. Answer(c, "Internal") \/ Answer(c, "ResourceExhausted")
      BY <1>8, Zenon DEF RequestFails
    <2>2. InFlight(c)
      BY <1>8 DEF RequestFails
    <2> QED BY <2>1, <2>2
  <1>9. CASE Cancel(c)
    BY <1>9 DEF Cancel
  <1>10. CASE Arrive(c)
    BY <1>10 DEF Arrive, callVars
  <1> QED BY <1>1, <1>2, <1>3, <1>4, <1>5, <1>6, <1>7, <1>8, <1>9, <1>10
          DEF Step, DriverGrantBucketAccess, DriverRevokeBucketAccess, Begin

\* How a call is received: it is refused or sends its first request.
LEMMA CallReceived ==
  ASSUME TypeInv, NEW c \in Call, Step(c), pc[c] = "idle"
  PROVE  /\ late' = late
         /\ \/ pc'[c] = "done" /\ code'[c] \in Refusals
            \/ InFlight(c)' /\ code' = code
  <1> USE DEF TypeInv, TypeOK, CallState, InFlight, Refusals
  <1>1. late[c] = "none"
    OBVIOUS
  <1>2. DriverGrantBucketAccess(c) \/ DriverRevokeBucketAccess(c)
    BY <1>1 DEF Step, BucketExists, createOrUpdatePolicy, createOrRotateUser, createGroupIfNeeded,
       deleteGroupIfExists, deletePolicyIfExists, deleteUserIfExists, RequestFails, Cancel, Arrive
  <1>3. PICK op \in {"grant", "revoke"}, first \in {"exists", "listGroups"} : Begin(c, op, first)
    BY <1>2 DEF DriverGrantBucketAccess, DriverRevokeBucketAccess
  <1>4. late' = late /\ (Goto(c, first) \/ \E k \in Refusals : Answer(c, k))
    BY <1>3 DEF Begin
  <1> QED BY <1>4 DEF Goto, Answer

\* Every step keeps codes with the calls that have ended.
LEMMA StepDoneCoded ==
  ASSUME CallsInv, DoneCoded, NEW c \in Call, Step(c) PROVE DoneCoded'
  <1> SUFFICES ASSUME NEW e \in Call, pc'[e] = "done" PROVE code'[e] # "none"
    BY DEF DoneCoded
  <1>0. TypeOK /\ TypeInv
    BY DEF CallsInv, TypeInv
  <1>1. CASE e # c
    BY <1>0, <1>1, StepFrame DEF DoneCoded
  <1>2. CASE e = c /\ pc[c] = "idle"
    BY <1>0, <1>2, CallReceived DEF Refusals, InFlight
  <1>3. CASE e = c /\ pc[c] # "idle"
    BY <1>3, Moves DEF Failures, InFlight, DoneCoded
  <1> QED BY <1>1, <1>2, <1>3

\* Every step keeps the user of an undisturbed revoke deleted: the calls of other
\* accounts have nothing to do with it, and a revoke makes no user.
LEMMA StepUserGone ==
  ASSUME CallsInv, NamesInv, NamesDistinct, UserGone, NEW c \in Call, Step(c) PROVE UserGone'
  <1>0. TypeInv /\ TypeOK /\ 1 \in Nat \ {0}
    BY DEF CallsInv, TypeInv
  <1> SUFFICES ASSUME NEW e \in Call, req'[e].op = "revoke", undisturbed'[e], Passed(e, 1)'
               PROVE  Named(users', req'[e].account) = {}
    BY DEF UserGone
  <1>1. CASE e # c
    <2>1. /\ req'[e] = req[e] /\ pc'[e] = pc[e] /\ idx'[e] = idx[e] /\ code'[e] = code[e]
          /\ undisturbed[e]
      BY <1>0, <1>1, StepFrame
    <2>2. Passed(e, 1) /\ pc[e] # "idle"
      BY <2>1 DEF Passed, InFlight
    <2> QED BY <1>1, <2>1, <2>2, UndisturbedStays DEF UserGone
  <1>2. CASE e = c
    <2>1. req' = req /\ InFlight(c) /\ (Passed(c, 1) \/ createGroupIfNeeded(c) \/ deleteUserIfExists(c))
      BY <1>0, <1>2, PassedStep
    <2>2. undisturbed[c] /\ req[c].op = "revoke"
      BY <1>0, <1>2, <2>1, StepFrame DEF InFlight
    <2>3. CASE Passed(c, 1)
      <3>1. Named(users, req[c].account) = {} /\ users' \subseteq users
        BY <2>2, <2>3, RevokeShrinks DEF UserGone
      <3> QED BY <1>2, <2>1, <3>1 DEF Named
    <2>4. CASE deleteUserIfExists(c)
      BY <1>2, <2>1, <2>4 DEF deleteUserIfExists, DeleteUser, Named
    <2>5. ~createGroupIfNeeded(c)
      BY <2>2 DEF createGroupIfNeeded, CallsInv, LabelFits, GrantLabels
    <2> QED BY <2>1, <2>3, <2>4, <2>5
  <1> QED BY <1>1, <1>2

\* What was asked for stays so.
LEMMA AskedStays ==
  ASSUME CallsInv, NEW c \in Call, Step(c), NEW a, NEW b, AskedFor(a, b) PROVE AskedFor(a, b)'
  <1>0. TypeOK
    BY DEF CallsInv, TypeInv
  <1>1. PICK d \in Call :
          /\ pc[d] # "idle" /\ req[d].op = "grant" /\ req[d].account = a /\ code[d] \notin Refusals
          /\ b \in Elements(req[d].buckets)
    BY DEF AskedFor
  <1>2. pc'[d] # "idle" /\ req'[d] = req[d] /\ code'[d] \notin Refusals
    <2>1. CASE d # c
      BY <1>0, <1>1, <2>1, StepFrame
    <2>2. CASE d = c
      <3>1. req' = req
        BY <1>0, <1>1, <2>2, StepFrame
      <3> QED BY <1>1, <2>2, <3>1, Moves DEF Failures, Refusals, InFlight
    <2> QED BY <2>1, <2>2
  <1> QED BY <1>1, <1>2 DEF AskedFor

\* Every step keeps groups to what was asked for.
LEMMA StepGroupAsked ==
  ASSUME CallsInv, GroupAsked, NEW c \in Call, Step(c) PROVE GroupAsked'
  <1> SUFFICES ASSUME NEW g \in groups'
               PROVE  \E b \in Bucket : AskedFor(g.user, b)' /\ g.policy = policyName(b, g.user)
    BY DEF GroupAsked
  <1>0. TypeInv /\ TypeOK
    BY DEF CallsInv, TypeInv
  <1>1. CASE g \in groups
    <2>1. PICK b \in Bucket : AskedFor(g.user, b) /\ g.policy = policyName(b, g.user)
      BY <1>1 DEF GroupAsked
    <2> QED BY <2>1, AskedStays
  <1>2. CASE g \notin groups
    <2>1. Busy(c) /\ req[c].op = "grant" /\ g.user = req[c].account /\ g.policy = CurrentPolicy(c)
      BY <1>2, GroupChange
    <2>2. CurrentBucket(c) \in Bucket /\ CurrentPolicy(c) = policyName(CurrentBucket(c), g.user)
      BY <1>0, <2>1, CurrentType DEF Busy, CurrentPolicy
    <2>3. CurrentBucket(c) \in Elements(req[c].buckets)
      <3>1. idx[c] \in DOMAIN req[c].buckets
        BY <1>0, <2>1, ListType DEF Busy, TypeOK
      <3>2. CurrentBucket(c) = req[c].buckets[idx[c]]
        BY <2>1 DEF CurrentBucket
      <3> QED BY <3>1, <3>2 DEF Elements
    <2>4. pc[c] # "idle" /\ code[c] \notin Refusals
      BY <1>0, <2>1 DEF Busy, InFlight, TypeInv, CallState, Refusals
    <2>5. AskedFor(g.user, CurrentBucket(c))
      BY <2>1, <2>3, <2>4 DEF AskedFor
    <2>6. PICK b \in Bucket : b = CurrentBucket(c)
      BY <2>2
    <2>7. AskedFor(g.user, b)'
      BY <2>5, <2>6, AskedStays
    <2> QED BY <2>1, <2>2, <2>6, <2>7
  <1> QED BY <1>1, <1>2

\* The invariant that the refinement rests on.
LEMMA ServiceInvariance == NamesDistinct => (Spec => []ServiceInv)
  <1> SUFFICES ASSUME NamesDistinct PROVE Spec => []ServiceInv
    OBVIOUS
  <1> DEFINE More == DoneCoded /\ UserGone /\ GroupAsked
  <1>1. Init => More
    BY DEF Init, DoneCoded, UserGone, GroupAsked, Passed, InFlight
  <1>2. AccessInv /\ More /\ [Next]_vars => More'
    <2> SUFFICES ASSUME AccessInv, More, [Next]_vars PROVE More'
      OBVIOUS
    <2>1. CASE UNCHANGED vars
      BY <2>1 DEF vars, callVars, svmVars, DoneCoded, UserGone, Passed, InFlight, GroupAsked, AskedFor
    <2> QED BY <2>1, StepDoneCoded, StepUserGone, StepGroupAsked DEF Next, AccessInv
  <1>3. AccessInv /\ GrantedMeansBound /\ More => ServiceInv
    BY DEF ServiceInv
  <1> QED BY <1>1, <1>2, <1>3, AccessInvariance, GrantsBind, PTL DEF Spec

----------------------------------------------------------------------------
(* What the service sees.                                                  *)

\* What the service sees of one call.
LEMMA BarAt ==
  ASSUME CallsInv, NEW c \in Call
  PROVE  /\ pc[c] = "idle" <=> wantBar[c] = Service!Nothing
         /\ pc[c] # "idle" => /\ wantBar[c].op = req[c].op /\ wantBar[c].account = req[c].account
                              /\ wantBar[c].buckets = Elements(req[c].buckets)
         /\ code[c] = "none" <=> answerBar[c] = "none"
         /\ code[c] = "OK" <=> answerBar[c] = "OK"
         /\ code[c] \in Refusals <=> answerBar[c] = "refused"
         /\ code[c] \in Failures => answerBar[c] = "failed"
         /\ looseBar[c] <=> late[c] # "none"
  <1>1. req[c].op # "none" /\ code[c] \in Code
    BY DEF CallsInv, TypeInv, TypeOK, Request
  <1>2. ASSUME pc[c] = "idle" PROVE wantBar[c] = Service!Nothing
    BY <1>2 DEF wantBar, Service!Nothing
  <1>3. ASSUME pc[c] # "idle"
        PROVE  /\ wantBar[c] # Service!Nothing
               /\ wantBar[c].op = req[c].op /\ wantBar[c].account = req[c].account
               /\ wantBar[c].buckets = Elements(req[c].buckets)
    <2>1. wantBar[c] = [op |-> req[c].op, account |-> req[c].account, buckets |-> Elements(req[c].buckets)]
      BY <1>3 DEF wantBar
    <2>2. /\ wantBar[c].op = req[c].op /\ wantBar[c].account = req[c].account
          /\ wantBar[c].buckets = Elements(req[c].buckets)
      BY <2>1
    <2>3. Service!Nothing.op = "none"
      BY DEF Service!Nothing
    <2> QED BY <1>1, <1>3, <2>2, <2>3
  <1>4. /\ code[c] = "none" <=> answerBar[c] = "none"
        /\ code[c] = "OK" <=> answerBar[c] = "OK"
        /\ code[c] \in Refusals <=> answerBar[c] = "refused"
        /\ code[c] \in Failures => answerBar[c] = "failed"
    BY <1>1 DEF answerBar, Refusals, Failures, Code
  <1>5. looseBar[c] <=> late[c] # "none"
    BY DEF looseBar
  <1> QED BY <1>2, <1>3, <1>4, <1>5

\* The same after a step.
LEMMA BarAtNext ==
  ASSUME CallsInv', NEW c \in Call
  PROVE  /\ pc'[c] # "idle" => wantBar'[c] = [op |-> req'[c].op, account |-> req'[c].account,
                                              buckets |-> Elements(req'[c].buckets)]
         /\ code'[c] = "none" => answerBar'[c] = "none"
         /\ code'[c] = "OK" => answerBar'[c] = "OK"
         /\ code'[c] \in Refusals => answerBar'[c] = "refused"
         /\ code'[c] \in Failures => answerBar'[c] = "failed"
         /\ looseBar'[c] = (late'[c] # "none")
  <1>1. pc'[c] # "idle" => wantBar'[c] = [op |-> req'[c].op, account |-> req'[c].account,
                                          buckets |-> Elements(req'[c].buckets)]
    BY DEF wantBar
  <1>2. /\ code'[c] = "none" => answerBar'[c] = "none"
        /\ code'[c] = "OK" => answerBar'[c] = "OK"
        /\ code'[c] \in Refusals => answerBar'[c] = "refused"
        /\ code'[c] \in Failures => answerBar'[c] = "failed"
    BY DEF answerBar, Refusals, Failures
  <1>3. looseBar'[c] = (late'[c] # "none")
    BY DEF looseBar
  <1> QED BY <1>1, <1>2, <1>3

\* A step of call c leaves what the service sees of the other calls alone.
LEMMA BarFrame ==
  ASSUME TypeOK, NEW c \in Call, Step(c)
  PROVE  /\ wantBar' = [wantBar EXCEPT ![c] = wantBar'[c]]
         /\ answerBar' = [answerBar EXCEPT ![c] = answerBar'[c]]
         /\ looseBar' = [looseBar EXCEPT ![c] = looseBar'[c]]
         /\ pc[c] # "idle" => wantBar' = wantBar /\ undisturbed' = undisturbed
  <1>0. /\ \A d \in Call \ {c} : /\ req'[d] = req[d] /\ pc'[d] = pc[d] /\ code'[d] = code[d]
                                 /\ late'[d] = late[d]
        /\ pc[c] # "idle" => req' = req /\ undisturbed' = undisturbed /\ pc'[c] # "idle"
    <2>1. pc[c] # "idle" => pc'[c] # "idle"
      BY DEF TypeOK, Step, DriverGrantBucketAccess, DriverRevokeBucketAccess, Begin, BucketExists,
         createOrUpdatePolicy, createOrRotateUser, createGroupIfNeeded, deleteGroupIfExists,
         deletePolicyIfExists, deleteUserIfExists, RequestFails, Cancel, Arrive, callVars,
         Goto, Answer, NextBucket
    <2> QED BY <2>1, StepFrame
  <1>1. ASSUME NEW d \in Call, d # c
        PROVE  wantBar'[d] = wantBar[d] /\ answerBar'[d] = answerBar[d] /\ looseBar'[d] = looseBar[d]
    BY <1>0, <1>1 DEF wantBar, answerBar, looseBar
  <1>2. ASSUME pc[c] # "idle" PROVE wantBar'[c] = wantBar[c]
    BY <1>0, <1>2 DEF wantBar
  <1>3. wantBar = [d \in Call |-> wantBar[d]] /\ wantBar' = [d \in Call |-> wantBar'[d]]
    BY DEF wantBar
  <1>4. answerBar = [d \in Call |-> answerBar[d]] /\ answerBar' = [d \in Call |-> answerBar'[d]]
    BY DEF answerBar
  <1>5. looseBar = [d \in Call |-> looseBar[d]] /\ looseBar' = [d \in Call |-> looseBar'[d]]
    BY DEF looseBar
  <1> HIDE DEF wantBar, answerBar, looseBar
  <1>6. wantBar' = [wantBar EXCEPT ![c] = wantBar'[c]]
    BY <1>1, <1>3
  <1>7. answerBar' = [answerBar EXCEPT ![c] = answerBar'[c]]
    BY <1>1, <1>4
  <1>8. looseBar' = [looseBar EXCEPT ![c] = looseBar'[c]]
    BY <1>1, <1>5
  <1>9. pc[c] # "idle" => wantBar' = wantBar
    BY <1>1, <1>2, <1>3
  <1> QED BY <1>0, <1>6, <1>7, <1>8, <1>9

\* An account can only use buckets that were asked for: a group it is in is there
\* because of a grant, and the policy is for the bucket that its name says.
LEMMA BoundAskedNext ==
  ASSUME ServiceInv', NamesDistinct, NEW a \in Account, NEW b \in Bucket, Bound(a, b)'
  PROVE  AskedFor(a, b)'
  <1>1. PICK g \in groups', p \in policies' : g.user = a /\ g.policy = p.name /\ p.bucket = b
    BY DEF Bound
  <1>2. PICK y \in Bucket : AskedFor(a, y)' /\ g.policy = policyName(y, a)
    BY <1>1 DEF ServiceInv, GroupAsked
  <1>3. PICK z \in Bucket, x \in Account : p.name = policyName(z, x) /\ p.bucket = z
    BY DEF ServiceInv, AccessInv, NamesInv, PolicyFits
  <1>4. policyName(y, a) = policyName(z, x)
    BY <1>1, <1>2, <1>3
  <1>5. y = b
    BY <1>1, <1>3, <1>4 DEF NamesDistinct
  <1> QED BY <1>2, <1>5

\* Only receiving a call asks for something.
LEMMA AskedBefore ==
  ASSUME CallsInv, NEW c \in Call, Step(c), pc[c] # "idle", NEW a, NEW b, AskedFor(a, b)'
  PROVE  AskedFor(a, b)
  <1>0. TypeOK
    BY DEF CallsInv, TypeInv
  <1>1. PICK d \in Call :
          /\ pc'[d] # "idle" /\ req'[d].op = "grant" /\ req'[d].account = a /\ code'[d] \notin Refusals
          /\ b \in Elements(req'[d].buckets)
    BY DEF AskedFor
  <1>2. pc[d] # "idle" /\ req'[d] = req[d] /\ code[d] \notin Refusals
    <2>1. CASE d # c
      BY <1>0, <1>1, <2>1, StepFrame
    <2>2. CASE d = c
      BY <1>0, <1>1, <2>2, StepFrame, Moves DEF CallsInv, TypeInv, CallState, InFlight, Refusals
    <2> QED BY <2>1, <2>2
  <1> QED BY <1>1, <1>2 DEF AskedFor

\* What was asked for is what the service takes for it.
LEMMA AskedIsAsked ==
  ASSUME CallsInv, NEW a, NEW b, AskedFor(a, b) PROVE b \in Service!Asked(a)
  <1>1. PICK d \in Call :
          /\ pc[d] # "idle" /\ req[d].op = "grant" /\ req[d].account = a /\ code[d] \notin Refusals
          /\ b \in Elements(req[d].buckets)
    BY DEF AskedFor
  <1>2. /\ wantBar[d] # Service!Nothing /\ wantBar[d].op = "grant" /\ wantBar[d].account = a
        /\ answerBar[d] # "refused" /\ b \in wantBar[d].buckets
    BY <1>1, BarAt
  <1> QED BY <1>2 DEF Service!Asked, Service!Received

----------------------------------------------------------------------------
(* Every step of a call is one of the service.                             *)

\* What a step changes in who can use what: an own grant gives buckets that were
\* asked for, an own revoke takes some.
LEMMA StepEffect ==
  ASSUME ServiceInv, ServiceInv', NamesDistinct, NEW c \in Call, Step(c), pc[c] # "idle"
  PROVE  Service!Effect(c)
  <1>0. CallsInv /\ NamesInv /\ NamesInv' /\ TypeOK
    BY DEF ServiceInv, AccessInv, CallsInv, TypeInv
  <1>1. /\ wantBar[c].op = req[c].op /\ wantBar[c].account = req[c].account
        /\ req[c].op \in {"grant", "revoke"} /\ req[c].account \in Account
    BY <1>0, BarAt DEF TypeOK, Request
  <1>2. ASSUME NEW a \in Account, NEW b \in Bucket, ~(Bound(a, b) <=> Bound(a, b)')
        PROVE  a = req[c].account
    BY <1>0, <1>2, BoundLocal
  <1>3. CASE req[c].op = "grant"
    <2>1. accessBar \subseteq accessBar'
      <3> SUFFICES ASSUME NEW a \in Account, NEW b \in Bucket, Bound(a, b) PROVE Bound(a, b)'
        BY DEF accessBar
      <3> QED BY <1>0, <1>3, GrantGrows DEF Bound
    <2>2. ASSUME NEW a \in Account, NEW b \in Bucket, ~Bound(a, b), Bound(a, b)'
          PROVE  a = req[c].account /\ b \in Service!Asked(req[c].account)
      <3>1. a = req[c].account
        BY <1>2, <2>2
      <3>2. AskedFor(a, b)
        <4>1. AskedFor(a, b)'
          BY <2>2, BoundAskedNext
        <4> QED BY <4>1, <1>0, AskedBefore
      <3> QED BY <1>0, <3>1, <3>2, AskedIsAsked
    <2>3. accessBar' \ accessBar \subseteq {req[c].account} \X Service!Asked(req[c].account)
      BY <2>2 DEF accessBar
    <2> QED BY <1>1, <1>3, <2>1, <2>3 DEF Service!Effect
  <1>4. CASE req[c].op = "revoke"
    <2>1. accessBar' \subseteq accessBar
      <3> SUFFICES ASSUME NEW a \in Account, NEW b \in Bucket, Bound(a, b)' PROVE Bound(a, b)
        BY DEF accessBar
      <3> QED BY <1>0, <1>4, RevokeShrinks DEF Bound, Named
    <2>2. accessBar \ accessBar' \subseteq {req[c].account} \X Bucket
      BY <1>2 DEF accessBar
    <2> QED BY <1>1, <1>4, <2>1, <2>2 DEF Service!Effect
  <1> QED BY <1>1, <1>3, <1>4

\* An OK keeps its promise.
LEMMA OkSettles ==
  ASSUME ServiceInv, ServiceInv', NEW c \in Call, Step(c), pc[c] # "idle", pc'[c] = "done",
         code'[c] = "OK", undisturbed[c]
  PROVE  Service!Settled(c, accessBar')
  <1>0. CallsInv /\ TypeOK
    BY DEF ServiceInv, AccessInv, CallsInv, TypeInv
  <1>1. /\ wantBar[c].op = req[c].op /\ wantBar[c].account = req[c].account
        /\ wantBar[c].buckets = Elements(req[c].buckets)
        /\ req[c].op \in {"grant", "revoke"} /\ req[c].account \in Account
    BY <1>0, BarAt DEF TypeOK, Request
  <1>2. req' = req /\ undisturbed'[c]
    BY <1>0, StepFrame
  <1>3. CASE req[c].op = "grant"
    <2>1. \A i \in DOMAIN req[c].buckets : Bound(req[c].account, req[c].buckets[i])'
      BY <1>2, <1>3 DEF ServiceInv, GrantedMeansBound, Answered
    <2>2. \A i \in DOMAIN req[c].buckets : req[c].buckets[i] \in Bucket
      BY <1>0, ListType
    <2>3. {req[c].account} \X Elements(req[c].buckets) \subseteq accessBar'
      <3> SUFFICES ASSUME NEW b \in Elements(req[c].buckets) PROVE <<req[c].account, b>> \in accessBar'
        OBVIOUS
      <3>1. PICK i \in DOMAIN req[c].buckets : b = req[c].buckets[i]
        BY DEF Elements
      <3>2. PICK a \in Account : a = req[c].account
        BY <1>1
      <3>3. b \in Bucket /\ Bound(a, b)'
        BY <1>2, <2>1, <2>2, <3>1, <3>2 DEF Bound
      <3>4. <<a, b>> \in accessBar'
        BY <3>3 DEF accessBar
      <3> QED BY <3>2, <3>4
    <2> QED BY <1>1, <1>3, <2>3 DEF Service!Settled
  <1>4. CASE req[c].op = "revoke"
    <2>1. Named(users', req[c].account) = {}
      BY <1>2, <1>4 DEF ServiceInv, UserGone, Passed
    <2>2. \A b \in Bucket : <<req[c].account, b>> \notin accessBar'
      BY <2>1 DEF accessBar, Bound
    <2>3. ({req[c].account} \X Bucket) \intersect accessBar' = {}
      BY <2>2
    <2> QED BY <1>1, <1>4, <2>3 DEF Service!Settled
  <1> QED BY <1>1, <1>3, <1>4

\* A call that is received is received by the service.
LEMMA ReceiveStep ==
  ASSUME ServiceInv, ServiceInv', NEW c \in Call, Step(c), pc[c] = "idle" PROVE Service!Receive(c)
  <1>0. CallsInv /\ CallsInv' /\ TypeInv /\ TypeOK /\ TypeOK' /\ CallState /\ DoneCoded
    BY DEF ServiceInv, AccessInv, CallsInv, TypeInv
  <1>1. /\ UNCHANGED svmVars
        /\ undisturbed' = [d \in Call |->
                IF d = c THEN ~Rival(c, req'[c].account)
                ELSE undisturbed[d] /\ ~(pc[d] # "idle" /\ req[d].account = req'[c].account)]
    BY <1>0, BeginFrame
  <1>2. /\ late' = late
        /\ \/ pc'[c] = "done" /\ code'[c] \in Refusals
           \/ InFlight(c)' /\ code' = code
    BY <1>0, CallReceived
  <1>3. wantBar[c] = Service!Nothing
    BY <1>0, BarAt
  <1>4. PICK op, a, bs : op = req'[c].op /\ a = req'[c].account /\ bs = Elements(req'[c].buckets)
    OBVIOUS
  <1>5. op \in {"grant", "revoke"} /\ a \in Account /\ bs \in SUBSET Bucket
    <2>1. req'[c] \in Request
      BY <1>0 DEF TypeOK
    <2>2. req'[c].buckets \in Seq(Bucket)
      <3>1. <<>> \in Seq(Bucket) /\ req'[c].buckets \in BucketLists \union {<<>>}
        BY <2>1 DEF Request
      <3> QED BY <3>1, ListAssumption
    <2>3. Elements(req'[c].buckets) \subseteq Bucket
      BY <2>2 DEF Elements
    <2> QED BY <1>4, <2>1, <2>3 DEF Request
  <1>6. wantBar' = [wantBar EXCEPT ![c] = [op |-> op, account |-> a, buckets |-> bs]]
    <2>1. pc'[c] # "idle"
      BY <1>2 DEF InFlight
    <2> QED BY <1>0, <1>4, <2>1, BarAtNext, BarFrame
  <1>7. undisturbed' = [d \in Call |->
            IF d = c THEN \A e \in Call \ {c} : ~Service!Live(e, a)
            ELSE undisturbed[d] /\ ~Service!Received(d, a)]
    <2>1. \A d \in Call : Service!Received(d, a) <=> (pc[d] # "idle" /\ req[d].account = a)
      BY <1>0, BarAt DEF Service!Received
    <2>2. \A d \in Call : Service!Live(d, a) <=> (req[d].account = a /\ Busy(d))
      BY <1>0, <2>1, BarAt DEF Service!Live, Busy, InFlight, CallState, DoneCoded
    <2>3. ~Rival(c, a) <=> \A e \in Call \ {c} : ~Service!Live(e, a)
      BY <2>2 DEF Rival, Busy
    <2>4. (~Rival(c, a)) = (\A e \in Call \ {c} : ~Service!Live(e, a))
      BY <2>3 DEF Rival
    <2>5. \A d \in Call : (undisturbed[d] /\ ~(pc[d] # "idle" /\ req[d].account = a))
                             = (undisturbed[d] /\ ~Service!Received(d, a))
      BY <2>1
    <2> QED BY <1>1, <1>4, <2>4, <2>5
  <1>8. \E k \in {"none", "refused"} : answerBar' = [answerBar EXCEPT ![c] = k]
    <2>1. code[c] = "none"
      BY <1>0 DEF CallState
    <2> QED BY <1>0, <1>2, <2>1, BarAtNext, BarFrame
  <1>9. UNCHANGED <<accessBar, looseBar>>
    BY <1>1, <1>2 DEF svmVars, accessBar, looseBar, Bound, Named
  <1> QED BY <1>3, <1>5, <1>6, <1>7, <1>8, <1>9, Zenon DEF Service!Receive

\* A step of a call under way is one of the service, and so is a late request.
LEMMA WorkStep ==
  ASSUME ServiceInv, ServiceInv', NamesDistinct, NEW c \in Call, Step(c), pc[c] # "idle"
  PROVE  Service!Work(c) \/ Service!WorkLate(c)
  <1>0. CallsInv /\ CallsInv' /\ TypeInv /\ TypeOK /\ CallState
    BY DEF ServiceInv, AccessInv, CallsInv, TypeInv
  <1>1. Service!Effect(c)
    BY StepEffect
  <1>2. UNCHANGED <<wantBar, undisturbed>>
    BY <1>0, BarFrame
  <1>3. wantBar[c] # Service!Nothing
    BY <1>0, BarAt
  <1>4. CASE InFlight(c)
    <2>1. answerBar[c] = "none"
      BY <1>0, <1>4, BarAt DEF CallState, InFlight
    <2>2. CASE late' = late /\ code' = code
      <3>1. UNCHANGED <<answerBar, looseBar>>
        BY <2>2 DEF answerBar, looseBar
      <3> QED BY <1>1, <1>2, <1>3, <2>1, <3>1 DEF Service!Work
    <2>3. CASE late' = late /\ pc'[c] = "done" /\ code'[c] = "OK"
      <3>1. answerBar' = [answerBar EXCEPT ![c] = "OK"] /\ looseBar' = looseBar
        BY <1>0, <2>3, BarAtNext, BarFrame DEF looseBar
      <3>2. undisturbed[c] => Service!Settled(c, accessBar')
        BY <2>3, OkSettles
      <3> QED BY <1>1, <1>2, <1>3, <2>1, <3>1, <3>2 DEF Service!Work, Service!Reply
    <2>4. CASE pc'[c] = "done" /\ code'[c] \in Failures
      <3>1. answerBar' = [answerBar EXCEPT ![c] = "failed"]
        BY <1>0, <2>4, BarAtNext, BarFrame
      <3>2. \E l \in BOOLEAN : looseBar' = [looseBar EXCEPT ![c] = l]
        <4>1. looseBar'[c] \in BOOLEAN
          BY DEF looseBar
        <4> QED BY <1>0, <4>1, BarFrame
      <3> QED BY <1>1, <1>2, <1>3, <2>1, <3>1, <3>2 DEF Service!Work, Service!Reply
    <2>5. late[c] = "none"
      BY <1>0, <1>4 DEF CallState, InFlight
    <2> QED BY <1>0, <2>2, <2>3, <2>4, <2>5, Moves
  <1>5. CASE ~InFlight(c)
    <2>1. late[c] # "none" /\ late'[c] = "none" /\ pc' = pc /\ code' = code
      BY <1>0, <1>5, Moves
    <2>2. looseBar[c] /\ looseBar' = [looseBar EXCEPT ![c] = FALSE]
      <3>1. looseBar[c] /\ looseBar'[c] = FALSE
        BY <2>1 DEF looseBar
      <3> QED BY <1>0, <3>1, BarFrame
    <2>3. answerBar' = answerBar
      BY <2>1 DEF answerBar
    <2> QED BY <1>1, <1>2, <2>2, <2>3 DEF Service!WorkLate
  <1> QED BY <1>4, <1>5

\* DriverGrantBucketAccess and DriverRevokeBucketAccess, on top of the S3 client and
\* with every failure the model has, implement the abstract service, with and
\* without overrides.bucketID: calls change the access of their own account only and
\* only to buckets that grants asked for, a refused call never does and an abandoned
\* one at most once more, and an OK without another call for the account is kept
\* for all buckets.
THEOREM AccessImplementation == NamesDistinct => (Spec => ImplementsAccess)
  <1> SUFFICES ASSUME NamesDistinct PROVE Spec => ImplementsAccess
    OBVIOUS
  <1>1. Init => Service!Init
    <2> SUFFICES ASSUME Init PROVE Service!Init OBVIOUS
    <2>1. wantBar = [c \in Call |-> Service!Nothing]
      BY DEF Init, wantBar, Service!Nothing
    <2>2. answerBar = [c \in Call |-> "none"] /\ looseBar = [c \in Call |-> FALSE]
      BY DEF Init, answerBar, looseBar
    <2>3. accessBar = {}
      BY DEF Init, accessBar, Bound
    <2> QED BY <2>1, <2>2, <2>3 DEF Init, Service!Init
  <1>2. ServiceInv /\ ServiceInv' /\ [Next]_vars => [Service!Next]_(Service!vars)
    <2> SUFFICES ASSUME ServiceInv, ServiceInv', [Next]_vars PROVE [Service!Next]_(Service!vars)
      OBVIOUS
    <2>1. CASE Next
      <3>1. PICK c \in Call : Step(c) BY <2>1 DEF Next
      <3>2. Service!Receive(c) \/ Service!Work(c) \/ Service!WorkLate(c)
        BY <3>1, ReceiveStep, WorkStep
      <3> QED BY <3>2 DEF Service!Next
    <2>2. CASE UNCHANGED vars
      <3>1. UNCHANGED <<wantBar, answerBar, accessBar, looseBar, undisturbed>>
        BY <2>2 DEF vars, callVars, svmVars, wantBar, answerBar, accessBar, looseBar, Bound, Named
      <3> QED BY <3>1 DEF Service!vars
    <2> QED BY <2>1, <2>2
  <1> QED BY <1>1, <1>2, ServiceInvariance, PTL DEF Spec, ImplementsAccess, Service!Spec
====
