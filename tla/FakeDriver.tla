------------------------------- MODULE FakeDriver -------------------------------
(***************************************************************************)
(* The driver process with the handlers of its calls: in the fake modes    *)
(* they use the maps of the fake client (src/pkg/clients/fake/fake.go),    *)
(* which are not locked; in s3:impl mode a handler takes any time; without *)
(* a mode the first use of the client panics.  A grant is one of one       *)
(* bucket.                                                                 *)
(*                                                                         *)
(* A map operation is a begin and an end; the Go runtime may abort the     *)
(* process when two overlap and one of them writes.                        *)
(***************************************************************************)
EXTENDS DriverProcess

CONSTANTS
    Name,          \* bucket names, as getName and getBucketID return them
    Account        \* account names

VARIABLES
    req,           \* req[k]: operation, bucket and account of call k
    at,            \* at[k]: the map operation of call k
    inside,        \* the calls that are inside a map operation
    Buckets,       \* the keys of the map of buckets
    Accesses,      \* Accesses[a]: bucket of account a, at most one
    shared         \* history: the calls that ran at the same time as another

fakeVars == <<req, at, inside, Buckets, Accesses, shared>>

allVars == <<processVars, fakeVars>>

\* New: empty maps, and no handler in them.
New ==
    /\ at = [k \in Call |-> "none"] /\ inside = {}
    /\ Buckets = {} /\ Accesses = [a \in Account |-> {}]

Fake == config.mode \in {"s3:fake", "azure:fake"}

NoRequest == [op |-> "none"]

Op == {"create", "delete", "grant", "revoke"}

\* The map operations that write, and the map they use.
Writes == {"CreateBucket", "DeleteBucket", "CreateBucketAccess", "DeleteBucketAccess"}

MapOf(m) == IF m \in {"CreateBucketAccess", "DeleteBucketAccess"} THEN "Accesses" ELSE "Buckets"

First(op) ==
    CASE op \in {"create", "grant"} -> "BucketExists"
      [] op = "delete" -> "DeleteBucket"
      [] op = "revoke" -> "DeleteBucketAccess"

\* Two operations that the Go runtime may abort when they overlap.
Conflict(k, l) ==
    /\ k # l /\ {k, l} \subseteq inside
    /\ MapOf(at[k]) = MapOf(at[l]) /\ {at[k], at[l]} \intersect Writes # {}

----------------------------------------------------------------------------
\* A call comes in; what it asks for matters in the fake modes only.
Receive(k) ==
    /\ Accept(k)
    /\ \/ ~Fake /\ UNCHANGED <<req, at>>
       \/ /\ Fake
          /\ \E op \in Op, n \in Name, a \in Account :
                /\ req' = [req EXCEPT ![k] = [op |-> op, name |-> n, account |-> a]]
                /\ at' = [at EXCEPT ![k] = First(op)]
    /\ shared' = IF Active = {} THEN shared ELSE shared \union Active \union {k}
    /\ UNCHANGED <<inside, Buckets, Accesses>>

Enter(k) ==
    /\ Fake /\ k \in Active \ inside
    /\ inside' = inside \union {k}
    /\ UNCHANGED <<processVars, req, at, Buckets, Accesses, shared>>

\* The operation of call k is over, and m is the next one.
Leave(k, m) ==
    /\ at' = [at EXCEPT ![k] = m]
    /\ inside' = inside \ {k}
    /\ UNCHANGED <<processVars, req, shared>>

Answer(k) ==
    /\ Done(k)
    /\ at' = [at EXCEPT ![k] = "none"]
    /\ inside' = inside \ {k}
    /\ UNCHANGED <<req, shared>>

In(k, m) == k \in inside \intersect Active /\ at[k] = m

\* Mutant: the bucket is taken to exist.
BucketExistsAssumed(k) ==
    /\ In(k, "BucketExists")
    /\ IF req[k].op = "create" THEN Leave(k, "IsBucketEqual") ELSE Leave(k, "CreateBucketAccess")
    /\ UNCHANGED <<Buckets, Accesses>>

\* Asked by a create and by a grant; the comparison comes only with an override,
\* since getName's flag is inverted.
BucketExists(k) ==
    /\ In(k, "BucketExists")
    /\ \/ req[k].name \in Buckets /\ req[k].op = "create" /\ config.override /\ Leave(k, "IsBucketEqual")
       \/ req[k].name \in Buckets /\ req[k].op = "create" /\ ~config.override /\ Answer(k)
       \/ req[k].name \in Buckets /\ req[k].op = "grant" /\ Leave(k, "CreateBucketAccess")
       \/ req[k].name \notin Buckets /\ req[k].op = "create" /\ Leave(k, "CreateBucket")
       \/ req[k].name \notin Buckets /\ req[k].op = "grant" /\ Answer(k)
    /\ UNCHANGED <<Buckets, Accesses>>

\* The memory of the process is gone.
Forget ==
    /\ at' = [k \in Call |-> "none"] /\ inside' = {}
    /\ Buckets' = {} /\ Accesses' = [a \in Account |-> {}]
    /\ req' = [k \in Call |-> NoRequest] /\ shared' = {}

\* A bucket that has gone since BucketExists is a nil pointer.
IsBucketEqual(k) ==
    /\ In(k, "IsBucketEqual")
    /\ \/ req[k].name \in Buckets /\ Answer(k) /\ UNCHANGED <<Buckets, Accesses>>
       \/ req[k].name \notin Buckets /\ Panic(k) /\ Forget

CreateBucket(k) ==
    /\ In(k, "CreateBucket") /\ Answer(k)
    /\ Buckets' = Buckets \union {req[k].name}
    /\ UNCHANGED Accesses

DeleteBucket(k) ==
    /\ In(k, "DeleteBucket") /\ Answer(k)
    /\ Buckets' = Buckets \ {req[k].name}
    /\ UNCHANGED Accesses

CreateBucketAccess(k) ==
    /\ In(k, "CreateBucketAccess") /\ Answer(k)
    /\ Accesses' = [Accesses EXCEPT ![req[k].account] = {req[k].name}]
    /\ UNCHANGED Buckets

DeleteBucketAccess(k) ==
    /\ In(k, "DeleteBucketAccess") /\ Answer(k)
    /\ Accesses' = [Accesses EXCEPT ![req[k].account] = {}]
    /\ UNCHANGED Buckets

\* The Go runtime notices overlapping map operations.
RuntimeAborts(k) ==
    /\ Fake /\ \E l \in inside : Conflict(k, l)
    /\ Panic(k) /\ Forget

\* In s3:impl mode the other modules say what a handler does; without a mode it
\* returns when the call is refused before the client is used.
Handle(k) ==
    /\ config.mode \in {"s3:impl", ""} /\ Answer(k)
    /\ UNCHANGED <<Buckets, Accesses>>

\* Without a mode the driver has no client to call.
NilClient(k) == config.mode = "" /\ Panic(k) /\ Forget

----------------------------------------------------------------------------
\* A step of the process; its end takes the memory with it.
Process(A) == A /\ IF pc' = "down" THEN Forget ELSE UNCHANGED fakeVars

Init ==
    /\ ProcessInit /\ New
    /\ req = [k \in Call |-> NoRequest] /\ shared = {}

FakeCall(k) ==
    \/ Enter(k) \/ BucketExists(k) \/ IsBucketEqual(k) \/ CreateBucket(k) \/ DeleteBucket(k)
    \/ CreateBucketAccess(k) \/ DeleteBucketAccess(k)

Next ==
    \/ Process(Boot) \/ Process(Main) \/ Process(Shutdown) \/ Process(Stopper) \/ Process(Outside)
    \/ \E k \in Call :
          Receive(k) \/ FakeCall(k) \/ RuntimeAborts(k) \/ Handle(k) \/ NilClient(k)

\* The goroutines of the process get to run, the grace period passes and the
\* container is started again.  Nothing is assumed of the handlers: in s3:impl
\* mode a REST request may hang.
Spec ==
    /\ Init /\ [][Next]_allVars
    /\ WF_allVars(Process(Boot)) /\ WF_allVars(Process(Main))
    /\ WF_allVars(Process(Shutdown)) /\ WF_allVars(Process(Stopper))

----------------------------------------------------------------------------
\* A handler takes the process down only when the configuration has no mode or
\* when calls ran at the same time: calls one after the other never do, in any
\* order and from any state of the maps.
DiesOnlyOfOverlap ==
    [][Active # {} /\ status' = "panic" => config.mode = "" \/ shared \intersect Active # {}]_allVars
====
