---------------------------- MODULE BucketRefinement ----------------------------
(***************************************************************************)
(* The driver with its requests and jobs implements BucketService: a call  *)
(* takes effect when the SVM completes its job.                            *)
(***************************************************************************)
EXTENDS BucketProvisioner

\* What call c asks for, once it has been received.
wantBar ==
    [c \in Call |->
        IF pc[c] = "idle" THEN [op |-> "none"]
        ELSE IF req[c].op = "create"
          THEN [op |-> "create", name |-> BucketName(c), size |-> SizeOf(c)]
        ELSE [op |-> "delete", name |-> BucketName(c)]]

\* The kind of answer its gRPC code is.
answerBar ==
    [c \in Call |->
        CASE code[c] \in Uncertain -> "failed"
          [] code[c] \in Harmless -> "refused"
          [] OTHER -> code[c]]

actedBar == [c \in Call |-> job[c].state = "success"]

seenBar == [c \in Call |-> pc[c] = "equal"]

Service ==
    INSTANCE BucketService
    WITH want <- wantBar, answer <- answerBar, acted <- actedBar, seen <- seenBar, store <- buckets

\* Every behaviour of DriverCreateBucket, DriverDeleteBucket and the S3 client
\* over asynchronous jobs, with failures, timeouts and cancelled calls, is a
\* behaviour of the abstract service: each call takes effect at most once, never
\* after it was answered OK or refused, and an OK is backed by the store.
ImplementsService == Service!Spec
====
