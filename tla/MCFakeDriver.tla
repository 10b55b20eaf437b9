------------------------------ MODULE MCFakeDriver ------------------------------
(***************************************************************************)
(* Instances of FakeDriver for TLC.                                        *)
(***************************************************************************)
EXTENDS FakeDriver

Good(m, o) == [mode |-> m, readable |-> TRUE, clientOK |-> TRUE, multitenant |-> TRUE,
               inCluster |-> TRUE, listenable |-> TRUE, override |-> o]

\* Everything in order in each mode, and every way in which starting fails.
MCConfig ==
    {Good(m, FALSE) : m \in {"", "s3:impl", "azure:impl", "unsupported"}}
    \union {Good("s3:fake", FALSE), Good("azure:fake", TRUE)}
    \union {[Good("s3:impl", FALSE) EXCEPT !.readable = FALSE],
            [Good("s3:impl", FALSE) EXCEPT !.clientOK = FALSE],
            [Good("s3:impl", FALSE) EXCEPT !.inCluster = FALSE],
            [Good("s3:impl", FALSE) EXCEPT !.inCluster = FALSE, !.multitenant = FALSE],
            [Good("s3:impl", FALSE) EXCEPT !.listenable = FALSE]}
====
