---------------------------- MODULE AccessRefinement ----------------------------
(***************************************************************************)
(* The driver with its requests implements AccessService: the bindings     *)
(* that the users, groups and policies of the SVM make up change as a      *)
(* service without them may change them.                                   *)
(***************************************************************************)
EXTENDS AccessProvisioner

Elements(list) == {list[i] : i \in DOMAIN list}

\* What call c asks for, once it has been received.
wantBar ==
    [c \in Call |->
        IF pc[c] = "idle" THEN [op |-> "none"]
        ELSE [op |-> req[c].op, account |-> req[c].account, buckets |-> Elements(req[c].buckets)]]

\* The kind of answer its gRPC code is: what is answered before the first request
\* is a refusal.
answerBar ==
    [c \in Call |->
        IF code[c] \in {"none", "OK"} THEN code[c]
        ELSE IF code[c] \in {"Unavailable", "InvalidArgument", "Injected"} THEN "refused"
        ELSE "failed"]

accessBar == {ab \in Account \X Bucket : Bound(ab[1], ab[2])}

looseBar == [c \in Call |-> late[c] # "none"]

Service ==
    INSTANCE AccessService
    WITH want <- wantBar, answer <- answerBar, access <- accessBar, loose <- looseBar,
         alone <- undisturbed

\* Every behaviour of DriverGrantBucketAccess, DriverRevokeBucketAccess and the S3
\* client, request by request, with failures, abandoned calls and requests that
\* arrive late, is a behaviour of the abstract service: a call only gives or takes
\* access of its own account and only to buckets grants asked for, a refused call
\* never changes anything, an abandoned one at most once more, and an OK without
\* another call for the account is kept for all buckets of the request.
ImplementsAccess == Service!Spec
====
