------------------------------ MODULE AccessService ------------------------------
(***************************************************************************)
(* What DriverGrantBucketAccess and DriverRevokeBucketAccess promise their *)
(* caller (the comments of src/pkg/driver/provisioner.go and the codes it  *)
(* returns), in terms of which account can use which bucket, without       *)
(* users, groups, policies and requests.  A call has no one moment at which *)
(* it takes effect: it works step by step, and others see how far it is.   *)
(*                                                                         *)
(*  - OK: when no other call for the account is around, a grant leaves it  *)
(*    with every bucket it asked for, a revoke leaves it with none;        *)
(*  - refused: the call has changed nothing and never will;                *)
(*  - failed: it stopped half way, and one more change may come later.     *)
(***************************************************************************)
CONSTANTS
    Call,       \* RPC invocations
    Account,    \* accounts
    Bucket      \* bucket ids

VARIABLES
    want,       \* want[c]: what call c asks for
    answer,     \* answer[c]: how it was answered
    access,     \* the pairs of an account and a bucket that it can use
    loose,      \* loose[c]: a failed call that may still change something
    alone       \* history: no other call for the account since c came in

vars == <<want, answer, access, loose, alone>>

Nothing == [op |-> "none"]

Init ==
    /\ want = [c \in Call |-> Nothing]
    /\ answer = [c \in Call |-> "none"]
    /\ access = {}
    /\ loose = [c \in Call |-> FALSE]
    /\ alone = [c \in Call |-> TRUE]

Received(c, a) == want[c] # Nothing /\ want[c].account = a

\* A call for account a that may change something.
Live(c, a) == Received(c, a) /\ (answer[c] = "none" \/ loose[c])

\* A call comes in; it may be refused at once.
Receive(c) ==
    /\ want[c] = Nothing
    /\ \E op \in {"grant", "revoke"}, a \in Account, bs \in SUBSET Bucket :
          /\ want' = [want EXCEPT ![c] = [op |-> op, account |-> a, buckets |-> bs]]
          /\ alone' = [d \in Call |->
                IF d = c THEN \A e \in Call \ {c} : ~Live(e, a)
                ELSE alone[d] /\ ~Received(d, a)]
    /\ \E k \in {"none", "refused"} : answer' = [answer EXCEPT ![c] = k]
    /\ UNCHANGED <<access, loose>>

\* The buckets that grants for account a have asked for.
Asked(a) ==
    UNION {want[d].buckets : d \in {e \in Call : /\ Received(e, a) /\ want[e].op = "grant"
                                                 /\ answer[e] # "refused"}}

\* What a step of call c may change: a grant gives its account buckets that were
\* asked for, a revoke takes buckets from its account.
Effect(c) ==
    \/ /\ want[c].op = "grant"
       /\ access \subseteq access'
       /\ access' \ access \subseteq {want[c].account} \X Asked(want[c].account)
    \/ /\ want[c].op = "revoke"
       /\ access' \subseteq access
       /\ access \ access' \subseteq {want[c].account} \X Bucket

\* The promise of an OK, when the accesses are acc.
Settled(c, acc) ==
    LET asked == {want[c].account} \X (IF want[c].op = "grant" THEN want[c].buckets ELSE Bucket)
    IN  IF want[c].op = "grant" THEN asked \subseteq acc ELSE asked \intersect acc = {}

Reply(c, k) == answer' = [answer EXCEPT ![c] = k]

\* A call makes a step, which may be its last one.
Work(c) ==
    /\ want[c] # Nothing /\ answer[c] = "none"
    /\ Effect(c)
    /\ \/ UNCHANGED <<answer, loose>>
       \/ Reply(c, "OK") /\ (alone[c] => Settled(c, access')) /\ UNCHANGED loose
       \/ Reply(c, "failed") /\ \E l \in BOOLEAN : loose' = [loose EXCEPT ![c] = l]
    /\ UNCHANGED <<want, alone>>

\* The change that a failed call had left open.
WorkLate(c) ==
    /\ loose[c]
    /\ Effect(c)
    /\ loose' = [loose EXCEPT ![c] = FALSE]
    /\ UNCHANGED <<want, answer, alone>>

Next == \E c \in Call : Receive(c) \/ Work(c) \/ WorkLate(c)

Spec == Init /\ [][Next]_vars
====
