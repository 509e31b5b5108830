-------------------------- MODULE MCProbeScheduler --------------------------
(***************************************************************************)
(* Instances of ProbeScheduler for TLC.                                    *)
(***************************************************************************)
EXTENDS ProbeScheduler

CONSTANTS m1, m2

\* The second revision drops m2.
MCAssigned == <<{m1, m2}, {m1}>>
MCOneRevision == <<{m1}>>
MCJitter   == [m \in Monitors |-> IF m = m1 THEN 0 ELSE 1]
=============================================================================
