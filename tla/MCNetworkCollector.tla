------------------------- MODULE MCNetworkCollector -------------------------
EXTENDS NetworkCollector

CONSTANTS p1, p2

Reports(p, ns, infra, value) ==
  [pod |-> p, namespace |-> ns, infra |-> infra, value |-> value]

\* Two containers of a pod, another pod, the same name in another namespace, a
\* pause container, and a series of no pod.
ManySeries ==
  {Reports(p1, Own, FALSE, 1), Reports(p1, Own, FALSE, 2), Reports(p2, Own, FALSE, 5),
   Reports(p1, Other, FALSE, 1), Reports(p1, Own, TRUE, 1), Reports(None, Own, FALSE, 1)}
=============================================================================
