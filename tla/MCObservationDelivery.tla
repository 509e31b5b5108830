------------------------ MODULE MCObservationDelivery ------------------------
(***************************************************************************)
(* Instances of ObservationDelivery for TLC.                               *)
(***************************************************************************)
EXTENDS ObservationDelivery, TLC

MCObservations == 1..3

\* For safety: the first two observations fit one batch, the third belongs to a newer
\* configuration revision (and its payload is not JSON).
MCRevision == <<1, 1, 2>>
MCSize     == <<1, 1, 1>>

\* For progress and the limits: the last two belong to a newer revision, and the third
\* fits no batch.
MCMixedRevisions == <<1, 2, 2>>
MCMixedSizes     == <<1, 1, 3>>

PayloadSymmetry == Permutations(Payloads)
=============================================================================
