-------------------------- MODULE MCUsagePipeline --------------------------
(***************************************************************************)
(* Instances of UsagePipeline for TLC: one or two API replicas, one        *)
(* registered engineer and one unknown identity, and a handful of events.  *)
(***************************************************************************)
EXTENDS UsagePipeline, TLC

CONSTANTS alice, mallory, r1, r2, m1, m2, t1, l1, u1

\* m1 and m2 are cost metrics of today, t1 is a token metric, l1 a log event
\* with cost and tokens of a request made earlier this month; u1 comes from
\* an unknown identity.
AllEngineerOf ==
  (m1 :> alice) @@ (m2 :> alice) @@ (t1 :> alice) @@ (l1 :> alice) @@ (u1 :> mallory)
Today     == {"today", "month"}
AllCarries ==
  (m1 :> {"cost"}) @@ (m2 :> {"cost"}) @@ (t1 :> {"tokens"}) @@ (l1 :> {"cost", "tokens"})
    @@ (u1 :> {"cost"})

MCEngineerOf == [e \in Event |-> AllEngineerOf[e]]
MCSourceOf   == [e \in Event |-> IF e = l1 THEN "otel_event" ELSE "otel_metric"]
MCCarries    == [e \in Event |-> AllCarries[e]]
MCOccurs     == [e \in Event |-> IF e = l1 THEN {"month"} ELSE Today]

ReplicaSymmetry == Permutations(Replica)
=============================================================================
