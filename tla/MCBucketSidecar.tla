----------------------------- MODULE MCBucketSidecar -----------------------------
(***************************************************************************)
(* Instances of BucketSidecar for TLC.                                     *)
(***************************************************************************)
EXTENDS BucketSidecar, TLC

\* No override; tenant credentials are resolved on every call.
TenantConfig == {[override |-> NoOverride, errors |-> {}, multiTenant |-> TRUE]}

SomeSizes == {<<>>, <<"1">>, <<"2", "G", "i">>}

CallSymmetry == Permutations(Call)
====
