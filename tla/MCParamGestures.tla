-------------------------- MODULE MCParamGestures --------------------------
EXTENDS ParamGestures

CONSTANTS v0, v1

\* A state in which every parameter differs from its default.
AllMoved == {[p \in Params |-> v1]}
=============================================================================
