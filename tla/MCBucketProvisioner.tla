--------------------------- MODULE MCBucketProvisioner ---------------------------
(***************************************************************************)
(* Instances of BucketProvisioner for TLC.                                 *)
(***************************************************************************)
EXTENDS BucketRefinement, TLC

CONSTANTS n1, n2   \* bucket names; n1 is the one overrides.bucketID names

Plain(o) == [override |-> o, errors |-> {}, multiTenant |-> FALSE]

\* No override, and every error the configuration can inject.
DefaultConfigs ==
    {[override |-> NoOverride, errors |-> e, multiTenant |-> t] :
        e \in {{}, {"create", "delete"}}, t \in BOOLEAN}

PlainConfig == {Plain(NoOverride)}

OverrideConfig == {Plain(n1)}

\* Missing, refused, and two sizes; then every way to write a size, with 2 GiB the
\* largest that fits.
SomeSizes == {<<>>, <<"0">>, <<"1">>, <<"2">>}

AllSizes ==
    {<<>>, <<" ">>, <<"1">>, <<"+", "1">>, <<" ", "2", "G", "i", " ">>, <<"0", "2", " ", "g", "I">>,
     <<"0">>, <<"-", "1">>, <<"G", "i">>, <<"1", "i">>, <<"3">>, <<"5", "G", "i">>, <<"2", "5">>,
     <<"2", "6", "G", "i">>}

CallSymmetry == Permutations(Call)
====
