---------------------------- MODULE MCTelemetry ----------------------------
EXTENDS Telemetry

CONSTANTS w1, w2
Held == 1..2
\* Both workloads run, so that the first poll reports both and a change is a stop.
BothRun == {[w \in {w1, w2} |-> 1]}
=============================================================================
