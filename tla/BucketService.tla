------------------------------ MODULE BucketService ------------------------------
(***************************************************************************)
(* What DriverCreateBucket and DriverDeleteBucket promise their caller     *)
(* (the comments of src/pkg/driver/provisioner.go and the codes it         *)
(* returns), without jobs, requests or lookups: every call takes effect at *)
(* one moment or never.                                                    *)
(*                                                                         *)
(*  - OK: the call has taken effect, or during the call the bucket was     *)
(*    there already (create) or was not there (delete);                    *)
(*  - refused: the call has not taken effect and never will;               *)
(*  - failed: it has taken effect, may do so later, or never will; the     *)
(*    caller has to send it again.  ResourceExhausted after a failed poll  *)
(*    is such an answer, although its code says refused.                   *)
(***************************************************************************)
CONSTANTS
    Call,       \* RPC invocations
    Prior,      \* UUIDs of the buckets there are before the first call
    Name,       \* bucket names
    Size        \* bucket sizes

VARIABLES
    want,       \* want[c]: what call c asks for
    answer,     \* answer[c]: how it was answered
    acted,      \* acted[c]: it has taken effect
    seen,       \* seen[c]: a create in progress that saw the bucket
    store       \* the buckets

vars == <<want, answer, acted, seen, store>>

Named(n) == {b \in store : b.name = n}

Nothing == [op |-> "none"]

Init ==
    /\ want = [c \in Call |-> Nothing]
    /\ answer = [c \in Call |-> "none"]
    /\ acted = [c \in Call |-> FALSE]
    /\ seen = [c \in Call |-> FALSE]
    /\ store \in SUBSET [uuid : Prior, name : Name, size : Size]
    /\ \A a, b \in store : a.uuid = b.uuid \/ a.name = b.name => a = b

Pending(c) == want[c] # Nothing /\ answer[c] = "none"

\* A call comes in; it may be refused at once.
Receive(c) ==
    /\ want[c] = Nothing
    /\ \E n \in Name, s \in Size \union {0} :
          \/ want' = [want EXCEPT ![c] = [op |-> "create", name |-> n, size |-> s]]
          \/ want' = [want EXCEPT ![c] = [op |-> "delete", name |-> n]]
    /\ \E k \in {"none", "refused"} : answer' = [answer EXCEPT ![c] = k]
    /\ UNCHANGED <<acted, seen, store>>

\* A create sees that the bucket is there.
Observe(c) ==
    /\ Pending(c) /\ want[c].op = "create"
    /\ Named(want[c].name) # {}
    /\ seen' = [seen EXCEPT ![c] = TRUE]
    /\ UNCHANGED <<want, answer, acted, store>>

\* A call takes effect, at most once, and never when it has been settled.
Act(c) ==
    /\ want[c] # Nothing /\ answer[c] \in {"none", "failed"} /\ ~acted[c]
    /\ acted' = [acted EXCEPT ![c] = TRUE]
    /\ \/ /\ want[c].op = "create" /\ want[c].size # 0
          /\ Named(want[c].name) = {}
          /\ store' = store \union {[uuid |-> c, name |-> want[c].name, size |-> want[c].size]}
       \/ /\ want[c].op = "delete"
          /\ \E b \in Named(want[c].name) : store' = store \ {b}
    /\ UNCHANGED <<want, answer, seen>>

\* The promises of the three kinds of answers.
Justified(c, k) ==
    \/ k = "failed"
    \/ k = "refused" /\ ~acted[c]
    \/ /\ k = "OK"
       /\ \/ acted[c] \/ seen[c]
          \/ want[c].op = "create" /\ Named(want[c].name) # {}
          \/ want[c].op = "delete" /\ Named(want[c].name) = {}

Reply(c) ==
    /\ Pending(c)
    /\ \E k \in {"failed", "refused", "OK"} :
          Justified(c, k) /\ answer' = [answer EXCEPT ![c] = k]
    /\ seen' = [seen EXCEPT ![c] = FALSE]
    /\ UNCHANGED <<want, acted, store>>

Next == \E c \in Call : Receive(c) \/ Observe(c) \/ Act(c) \/ Reply(c)

Spec == Init /\ [][Next]_vars
====
