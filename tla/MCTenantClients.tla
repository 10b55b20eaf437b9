----------------------------- MODULE MCTenantClients -----------------------------
(***************************************************************************)
(* Instances of TenantClients for TLC: two tenants, the driver's own SVM   *)
(* and two more on another cluster.                                        *)
(***************************************************************************)
EXTENDS TenantClients, TLC

CONSTANTS o1, ns1, ns2

\* An object of a tenant, or without one.
MCOwners == {o1 :> ns1, o1 :> NoNamespace}

\* One tenant.
OneOwner == {o1 :> ns1}

MCURL ==
    "driver-host" :> [scheme |-> "", host |-> "driver", valid |-> TRUE] @@
    "https://tenant-host" :> [scheme |-> "https", host |-> "tenant", valid |-> TRUE] @@
    "driver-data" :> [scheme |-> "", host |-> "driver-s3", valid |-> TRUE] @@
    "http://s3" :> [scheme |-> "http", host |-> "tenant-s3", valid |-> TRUE] @@
    "::" :> [scheme |-> "", host |-> "", valid |-> FALSE]

MCFile == "/ca.pem" :> "PEM" @@ "/empty" :> ""

MCSystem ==
    {[host |-> "driver", s3 |-> "driver-s3", svm |-> "svm0", user |-> "admin", password |-> "p0"],
     [host |-> "tenant", s3 |-> "tenant-lif", svm |-> "svm1", user |-> "admin", password |-> "p1"],
     [host |-> "tenant", s3 |-> "tenant-s3", svm |-> "svm2", user |-> "admin", password |-> "p2"]}

\* The environment of the driver: SSL by default, with a CA file, and its own S3
\* endpoint, which tenants inherit.
MCEnv ==
    [endpoint |-> "driver-host", svm |-> "svm0", user |-> "admin", password |-> "p0",
     useSSL |-> "", skipVerify |-> "no", caPath |-> "/ca.pem", region |-> " ",
     s3Endpoint |-> "driver-data"]

Login(s, p) ==
    [endpoint |-> "https://tenant-host", svm |-> s, user |-> "admin", password |-> p]

\* Two good Secrets, one on the driver's own cluster, and wrong ones: a wrong
\* password, a missing or blank key, a bad boolean, a CA that holds no certificate
\* (it hides the good file), an endpoint that is no URL.
MCSecret ==
    {Login("svm1", "p1") @@ "useSSL" :> "0" @@ "caPath" :> "/none",
     Login("svm2", "p2") @@ "s3Endpoint" :> "http://s3" @@ "s3UseSSL" :> "T" @@ "caPath" :> "/empty",
     "endpoint" :> "driver-host" @@ Login("svm0", "p0"),
     Login("svm1", "p0"), Login("svm1", ""), Login(" ", "p1"),
     Login("svm1", "p1") @@ "skipVerify" :> "maybe",
     Login("svm1", "p1") @@ "caPEM" :> "junk",
     "endpoint" :> "::" @@ Login("svm1", "p1")}

\* The good ones, on the other cluster.
GoodSecret ==
    {Login("svm1", "p1"), Login("svm2", "p2")}

\* The hypothesis of AdvertisesItsOwn holds in the instance.
ASSUME MCWrittenEndpointsFit == WrittenEndpointsFit
====
