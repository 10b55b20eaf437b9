--------------------------- MODULE MCAccessProvisioner ---------------------------
(***************************************************************************)
(* Instances of AccessProvisioner for TLC.                                 *)
(***************************************************************************)
EXTENDS AccessRefinement, TLC

b1 == <<"b", "/", "1">>
b2 == <<"b", "/", "2">>
a1 == <<"A", "1", "x">>
a2 == <<"A", "2", "x">>

MCBucket == {b1, b2}
MCAccount == {a1, a2}

\* Two buckets, and the empty list the driver refuses.
MCLists == {<<>>, <<b1, b2>>}

MCLower == "A" :> "a"

\* Tenant credentials are resolved on every call, or errors are injected.
DefaultConfigs ==
    {[override |-> NoOverride, errors |-> {}, multiTenant |-> TRUE],
     [override |-> NoOverride, errors |-> {"grant", "revoke"}, multiTenant |-> FALSE]}

PlainConfig == {[override |-> NoOverride, errors |-> {}, multiTenant |-> FALSE]}

\* overrides.bucketID names the first bucket.
OverrideConfig == {[override |-> b1, errors |-> {}, multiTenant |-> FALSE]}

CallSymmetry == Permutations(Call)

\* The ids of the instance are such as GeneratedIdsApart is about: accounts differ
\* in the second character, the last one that a group name keeps.  So NamesDistinct,
\* the hypothesis of AccessIsOwn, GrantsBind, RevokesClear and AccessImplementation,
\* holds.
ASSUME MCGeneratedIds == GeneratedIds(3, 2)
====
