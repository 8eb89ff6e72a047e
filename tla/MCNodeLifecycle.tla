-------------------------- MODULE MCNodeLifecycle --------------------------
(* Model-checking instance of NodeLifecycle *)
EXTENDS NodeLifecycle

\* Action constraint: only the end of a timer depends on the timers, so that for the properties
\* of this run it may as well come last.
TimersEndLast == timers' < timers => \A g \in Threads : th[g].pc \in {"ended", "dead"}
=============================================================================
