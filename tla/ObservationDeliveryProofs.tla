---------------------- MODULE ObservationDeliveryProofs ----------------------
(***************************************************************************)
(* Proofs that the delivery protocol loses nothing, implements             *)
(* DurableDelivery and keeps the limits of the queue and of a batch, for   *)
(* every set of observations, payloads, limits and delays.                 *)
(***************************************************************************)
EXTENDS ObservationDelivery, FiniteSetTheorems, WellFoundedInduction, TLAPS

\* What is queued, in the network or on the server was committed to the queue first.
AllRecorded ==
    /\ \A o \in Observations : queued[o] # None => <<o, queued[o]>> \in recorded
    /\ \A request \in network : \A o \in Observations :
          request[o] # None => <<o, request[o]>> \in recorded

\* The inductive invariant.
DeliveryInv == TypeOK /\ AnswersStayTrue /\ AllRecorded

-----------------------------------------------------------------------------
\* Incrementing a capped counter, or letting a tick pass, keeps it in its range.
LEMMA CounterTypes ==
    /\ \A n \in 0..FailureCap : Increment(n) \in 0..FailureCap
    /\ \A n \in 0..MaxRetryDelay : Decrement(n) \in 0..MaxRetryDelay
BY DeliveryConstants, SMT DEF Increment, Decrement

\* RetryDelay never exceeds MaximumRetryDelay and is never negative.
LEMMA RetryDelayBounded ==
    ASSUME NEW n, NEW s
    PROVE  RetryDelays(n, s) \subseteq 0..MaxRetryDelay
BY DEF RetryDelays

\* An answer of ingest_observations is one of the dispositions, and "none" exactly
\* for the observations that are not in the request.
LEMMA AnswersType ==
    ASSUME NEW request \in Rows
    PROVE  /\ Answers(request) \in [Observations -> Dispositions]
           /\ \A o \in Observations :
                 /\ Answers(request)[o] # "none" => request[o] # None
                 /\ Answers(request)[o] = "accepted" => stored[o] = None
                 /\ Answers(request)[o] = "duplicate" => stored[o] = request[o]
<1>1. ASSUME NEW o \in Observations, NEW p
      PROVE  /\ Disposition(o, p) \in {"accepted", "duplicate", "retry", "rejected"}
             /\ Disposition(o, p) = "accepted" => stored[o] = None
             /\ Disposition(o, p) = "duplicate" => stored[o] = p
  BY DEF Disposition
<1> QED  BY <1>1 DEF Answers, Dispositions

\* Request bodies are tables.
LEMMA NoRowsType == NoRows \in Rows /\ NoResults \in [Observations -> Dispositions]
BY DEF NoRows, Rows, NoResults, Dispositions

-----------------------------------------------------------------------------
(* Type correctness *)

\* The initial states are well typed.
LEMMA InitTypeOK == Init => TypeOK
BY DeliveryConstants, NoRowsType DEF Init, TypeOK

\* Every action keeps every variable in its type.
LEMMA NextTypeOK == TypeOK /\ [Next]_vars => TypeOK'
<1> SUFFICES ASSUME TypeOK, [Next]_vars PROVE TypeOK'
  OBVIOUS
<1> USE DeliveryConstants
<1>1. ASSUME NEW o \in Observations, NEW p \in Payloads, EnqueueObservation(o, p)
      PROVE  TypeOK'
  <2>1. CASE InsertPending(o, p)
    BY <1>1, <2>1 DEF TypeOK, EnqueueObservation, InsertPending, Rows, syncState, exchange, server
  <2>2. CASE AlreadyQueued(o, p)
    BY <1>1, <2>2 DEF TypeOK, EnqueueObservation, AlreadyQueued, tables, syncState, exchange, server
  <2>3. CASE EnqueueFails(o, p)
    BY <1>1, <2>3 DEF TypeOK, EnqueueObservation, EnqueueFails, tables, syncState, exchange, server
  <2> QED  BY <1>1, <2>1, <2>2, <2>3 DEF EnqueueObservation
<1>2. ASSUME NEW o \in Observations, QuarantineObservation(o) PROVE TypeOK'
  BY <1>2 DEF TypeOK, QuarantineObservation, Rows, syncState, exchange, server
<1>3. CASE PostBatch
  <2>1. sent' \in Rows  BY <1>3 DEF PostBatch, TypeOK, Rows
  <2> QED  BY <1>3, <2>1 DEF TypeOK, PostBatch, tables, syncState, server
<1>4. ASSUME NEW s, RecordFailure(s)
      PROVE  /\ failures' \in 0..FailureCap /\ backoff' \in 0..MaxRetryDelay
             /\ sent' \in Rows /\ reply' = "none" /\ results' \in [Observations -> Dispositions]
  BY <1>4, CounterTypes, RetryDelayBounded, NoRowsType DEF RecordFailure, TypeOK
<1>5. CASE TransportError
  BY <1>5, <1>4 DEF TypeOK, TransportError, tables, server
<1>6. CASE UploadRefused
  BY <1>6, <1>4 DEF TypeOK, UploadRefused, tables, server
<1>7. CASE ApplyAcknowledgements
  <2>1. queued' \in Rows /\ rejected' \in Rows
    BY <1>7 DEF ApplyAcknowledgements, TypeOK, Rows
  <2>2. attempts' \in [Observations -> 0..FailureCap]
    BY <1>7, CounterTypes DEF ApplyAcknowledgements, TypeOK
  <2> QED  BY <1>7, <2>1, <2>2, NoRowsType DEF ApplyAcknowledgements, TypeOK, server
<1>8. CASE CleanupRollsBack
  BY <1>8, <1>4 DEF TypeOK, CleanupRollsBack, tables, server
<1>9. ASSUME NEW request \in network, NEW status \in {"refused", "results"},
             NEW answers \in [Observations -> Dispositions], Answer(request, status, answers)
      PROVE  sent' \in Rows /\ reply' \in {"none", "refused", "results"}
             /\ results' \in [Observations -> Dispositions]
  BY <1>9 DEF Answer, exchange, TypeOK
<1>10. ASSUME NEW request \in network, IngestObservations(request) PROVE TypeOK'
  <2>1. request \in Rows /\ stored' \in Rows
    BY <1>10 DEF IngestObservations, TypeOK, Rows
  <2> QED  BY <1>10, <1>9, <2>1, AnswersType, Zenon DEF TypeOK, IngestObservations, Delivered, tables, syncState
<1>11. ASSUME NEW request \in network, RefuseUpload(request) PROVE TypeOK'
  BY <1>11, <1>9, NoRowsType, Zenon DEF TypeOK, RefuseUpload, Delivered, tables, syncState, server
<1>12. ASSUME NEW revision, SnapshotCreated(revision) PROVE TypeOK'
  BY <1>12 DEF TypeOK, SnapshotCreated, tables, syncState, exchange
<1>13. ASSUME NEW o \in Observations, AgeObservation(o) PROVE TypeOK'
  BY <1>13 DEF TypeOK, AgeObservation, tables, syncState, exchange
<1>14. CASE AgentExits
  BY <1>14 DEF TypeOK, AgentExits, tables, syncState, exchange, server
<1>15. CASE Crash
  BY <1>15, NoRowsType DEF TypeOK, Crash, tables, syncState, server
<1>16. CASE Restart
  BY <1>16 DEF TypeOK, Restart, tables, syncState, exchange, server
<1>17. CASE ClockTick
  BY <1>17, CounterTypes DEF TypeOK, ClockTick, exchange, server
<1>18. CASE UNCHANGED vars
  BY <1>18 DEF TypeOK, vars, tables, syncState, exchange, server
<1> QED
  BY <1>1, <1>2, <1>3, <1>5, <1>6, <1>7, <1>8, <1>10, <1>11, <1>12, <1>13, <1>14, <1>15,
     <1>16, <1>17, <1>18 DEF Next

\* Type correctness of the queue, the exchange and the server in every behaviour.
THEOREM DeliveryTypeCorrect == Spec => []TypeOK
BY InitTypeOK, NextTypeOK, PTL DEF Spec

-----------------------------------------------------------------------------
(* The inductive invariant *)

\* Nothing is in flight initially.
LEMMA InitDeliveryInv == Init => DeliveryInv
<1> SUFFICES ASSUME Init PROVE AnswersStayTrue /\ AllRecorded
  BY InitTypeOK DEF DeliveryInv
<1> QED  BY DEF Init, AnswersStayTrue, AllRecorded, NoRows

\* A failed exchange leaves nothing to be true of.
LEMMA NoExchange ==
    ASSUME sent' = NoRows, reply' = "none"
    PROVE  AnswersStayTrue'
BY DEF AnswersStayTrue, NoRows

\* Every action preserves the invariant: recording, ingesting and answering keep the
\* facts an answer rests on, and only the exchange's own end forgets them.
LEMMA NextDeliveryInv == DeliveryInv /\ [Next]_vars => DeliveryInv'
<1> SUFFICES ASSUME DeliveryInv, [Next]_vars PROVE AnswersStayTrue' /\ AllRecorded'
  BY NextTypeOK DEF DeliveryInv
<1> USE DeliveryConstants
<1>0. TypeOK /\ TypeOK' /\ AnswersStayTrue /\ AllRecorded
  BY NextTypeOK DEF DeliveryInv
<1>1. ASSUME NEW o \in Observations, NEW p \in Payloads, EnqueueObservation(o, p)
      PROVE  AnswersStayTrue' /\ AllRecorded'
  <2>1. CASE InsertPending(o, p)
    <3>1. /\ \A x \in Observations : queued'[x] = IF x = o THEN p ELSE queued[x]
          /\ recorded' = recorded \cup {<<o, p>>}
      BY <1>0, <2>1 DEF InsertPending, TypeOK, Rows
    <3>2. UNCHANGED <<sent, reply, results, network, stored>>
      BY <1>1, Zenon DEF EnqueueObservation, exchange, server
    <3>3. sent[o] = None
      BY <1>0, <2>1, Zenon DEF InsertPending, AnswersStayTrue
    <3>4. AnswersStayTrue'
      BY <1>0, <3>1, <3>2, <3>3, Zenon DEF AnswersStayTrue
    <3>5. AllRecorded'
      BY <1>0, <3>1, <3>2, Zenon DEF AllRecorded
    <3> QED BY <3>4, <3>5
  <2>2. CASE AlreadyQueued(o, p) \/ EnqueueFails(o, p)
    BY <1>0, <1>1, <2>2 DEF EnqueueObservation, AlreadyQueued, EnqueueFails, tables, exchange,
       server, AnswersStayTrue, AllRecorded
  <2> QED  BY <1>1, <2>1, <2>2 DEF EnqueueObservation
<1>2. ASSUME NEW o \in Observations, QuarantineObservation(o)
      PROVE  AnswersStayTrue' /\ AllRecorded'
  <2>1. sent = NoRows /\ UNCHANGED <<sent, reply, results, network, stored, recorded>>
    BY <1>2, Zenon DEF QuarantineObservation, UploadStarts, exchange, server
  <2>2. \A x \in Observations : queued'[x] = IF x = o THEN None ELSE queued[x]
    BY <1>0, <1>2 DEF QuarantineObservation, TypeOK, Rows
  <2>3. AllRecorded'
    BY <1>0, <2>1, <2>2, Zenon DEF AllRecorded
  <2>4. \A x \in Observations : sent[x] = None
    BY <2>1 DEF NoRows
  <2>5. AnswersStayTrue'
    BY <1>0, <2>1, <2>4, Zenon DEF AnswersStayTrue
  <2> QED BY <2>3, <2>5
<1>3. CASE PostBatch
  <2>1. reply' = reply /\ results' = results /\ stored' = stored /\ queued' = queued
        /\ recorded' = recorded
    BY <1>3 DEF PostBatch, tables, server
  <2>2. \A o \in Observations : sent[o] = None
    BY <1>3 DEF PostBatch, UploadStarts, NoRows
  <2>3. \A o \in Observations : sent'[o] # None => sent'[o] = queued[o]
    BY <1>3 DEF PostBatch
  <2>4. AnswersStayTrue'
    BY <1>0, <2>1, <2>2, <2>3, Zenon DEF AnswersStayTrue
  <2>5. network' = network \cup {sent'}
    BY <1>3 DEF PostBatch
  <2>6. AllRecorded'
    BY <1>0, <2>1, <2>3, <2>5, Zenon DEF AllRecorded
  <2> QED  BY <2>4, <2>6
<1>4. CASE TransportError
  BY <1>0, <1>4, NoExchange DEF TransportError, RecordFailure, tables, server, AllRecorded
<1>5. CASE UploadRefused
  BY <1>0, <1>5, NoExchange DEF UploadRefused, RecordFailure, tables, server, AllRecorded
<1>6. CASE ApplyAcknowledgements
  BY <1>0, <1>6, NoExchange DEF ApplyAcknowledgements, server, AllRecorded
<1>7. CASE CleanupRollsBack
  BY <1>0, <1>7, NoExchange, Zenon DEF CleanupRollsBack, RecordFailure, tables, server, AllRecorded
<1>8. ASSUME NEW request \in network, IngestObservations(request)
      PROVE  AnswersStayTrue' /\ AllRecorded'
  <2>1. request \in Rows /\ stored \in Rows
    BY <1>0 DEF TypeOK
  <2>2. \A o \in Observations :
            stored'[o] = IF Answers(request)[o] = "accepted" THEN request[o] ELSE stored[o]
    BY <1>8 DEF IngestObservations
  <2>3. queued' = queued /\ recorded' = recorded /\ sent' = sent
    BY <1>8 DEF IngestObservations, tables, Answer, exchange
  <2>4. ASSUME reply' = reply, results' = results PROVE AnswersStayTrue'
    BY <1>0, <2>1, <2>2, <2>3, <2>4, AnswersType DEF AnswersStayTrue
  <2>5. ASSUME request = sent, results' = Answers(request) PROVE AnswersStayTrue'
    BY <1>0, <2>1, <2>2, <2>3, <2>5, AnswersType DEF AnswersStayTrue
  <2>6. AnswersStayTrue'
    BY <1>8, <2>4, <2>5 DEF IngestObservations, Answer, exchange
  <2>7. AllRecorded'
    BY <1>0, <1>8, <2>3 DEF IngestObservations, Delivered, AllRecorded
  <2> QED  BY <2>6, <2>7
<1>9. ASSUME NEW request \in network, RefuseUpload(request)
      PROVE  AnswersStayTrue' /\ AllRecorded'
  BY <1>0, <1>9 DEF RefuseUpload, Answer, Delivered, tables, exchange, server, AnswersStayTrue,
     AllRecorded
<1>10. ASSUME NEW revision, SnapshotCreated(revision) PROVE AnswersStayTrue' /\ AllRecorded'
  BY <1>0, <1>10 DEF SnapshotCreated, tables, exchange, AnswersStayTrue, AllRecorded
<1>11. ASSUME NEW o \in Observations, AgeObservation(o) PROVE AnswersStayTrue' /\ AllRecorded'
  BY <1>0, <1>11 DEF AgeObservation, tables, exchange, AnswersStayTrue, AllRecorded
<1>12. CASE AgentExits \/ Restart
  BY <1>0, <1>12 DEF AgentExits, Restart, tables, exchange, server, AnswersStayTrue, AllRecorded
<1>13. CASE Crash
  BY <1>0, <1>13, NoExchange DEF Crash, tables, server, AllRecorded
<1>14. CASE ClockTick
  BY <1>0, <1>14 DEF ClockTick, exchange, server, AnswersStayTrue, AllRecorded
<1>15. CASE UNCHANGED vars
  BY <1>0, <1>15 DEF vars, tables, exchange, server, AnswersStayTrue, AllRecorded
<1> QED
  BY <1>1, <1>2, <1>3, <1>4, <1>5, <1>6, <1>7, <1>8, <1>9, <1>10, <1>11, <1>12, <1>13,
     <1>14, <1>15 DEF Next

\* An answer the agent is about to act on is true of the server's durable rows
\* (UploadOnce between the response and ApplyAcknowledgements).
THEOREM AnswersAreTrue == Spec => []AnswersStayTrue
<1>1. Spec => []DeliveryInv
  BY InitDeliveryInv, NextDeliveryInv, PTL DEF Spec
<1>2. DeliveryInv => AnswersStayTrue
  BY DEF DeliveryInv
<1> QED  BY <1>1, <1>2, PTL

-----------------------------------------------------------------------------
(* Refinement *)

\* Every step of the protocol is a step of DurableDelivery or leaves it unchanged.
LEMMA StepsRefine == DeliveryInv /\ [Next]_vars => [Durable!Next]_(Durable!vars)
<1> SUFFICES ASSUME DeliveryInv, [Next]_vars PROVE Durable!Next \/ UNCHANGED Durable!vars
  OBVIOUS
<1> USE DeliveryConstants
<1>0. TypeOK /\ AnswersStayTrue /\ AllRecorded
  BY DEF DeliveryInv
<1> DEFINE Same == UNCHANGED <<recorded, queued, stored, rejected>>
<1>1. ASSUME NEW o \in Observations, NEW p \in Payloads, EnqueueObservation(o, p)
      PROVE  Same \/ Durable!Commit(o, p)
  BY <1>1 DEF EnqueueObservation, InsertPending, AlreadyQueued, EnqueueFails, tables, server,
     Durable!Commit
<1>2. ASSUME NEW o \in Observations, QuarantineObservation(o) PROVE Durable!Settle
  <2>1. queued' \in Rows /\ rejected' \in Rows
    BY <1>0, <1>2, Zenon DEF QuarantineObservation, TypeOK, Rows
  <2> QED
    BY <1>0, <1>2, <2>1 DEF QuarantineObservation, server, TypeOK, Rows, Durable!Settle, Durable!Rows
<1>3. ASSUME PostBatch \/ TransportError \/ UploadRefused \/ CleanupRollsBack PROVE Same
  BY <1>3 DEF PostBatch, TransportError, UploadRefused, CleanupRollsBack, tables, server
<1>4. CASE ApplyAcknowledgements
  <2>1. queued' \in Rows /\ rejected' \in Rows
    BY <1>0, <1>4, Zenon DEF ApplyAcknowledgements, TypeOK, Rows
  <2>2. recorded' = recorded /\ stored' = stored
    BY <1>4, Zenon DEF ApplyAcknowledgements, server
  <2>3. ASSUME NEW o \in Observations
        PROVE  /\ queued'[o] # queued[o] =>
                     queued'[o] = None /\ (stored[o] = queued[o] \/ rejected'[o] = queued[o])
               /\ rejected'[o] # rejected[o] => rejected[o] = None /\ rejected'[o] = queued[o]
    <3>1. results[o] # "none" => sent[o] = queued[o]
      BY <1>0, <1>4 DEF ApplyAcknowledgements, AnswersStayTrue
    <3>2. results[o] \in {"accepted", "duplicate"} => stored[o] = queued[o]
      BY <1>0, <1>4, <3>1 DEF ApplyAcknowledgements, AnswersStayTrue
    <3>3. queued'[o] = IF results[o] \in {"accepted", "duplicate", "rejected"} THEN None ELSE queued[o]
      BY <1>4 DEF ApplyAcknowledgements, Settled, Having
    <3>4. rejected'[o] = IF results[o] = "rejected" THEN sent[o] ELSE rejected[o]
      BY <1>4 DEF ApplyAcknowledgements, Having
    <3>5. results[o] = "rejected" => rejected[o] = None
      BY <1>4 DEF ApplyAcknowledgements, CleanupFails, Having
    <3> QED  BY <3>1, <3>2, <3>3, <3>4, <3>5
  <2>4. Durable!Settle
    BY <2>1, <2>2, <2>3 DEF Durable!Settle, Durable!Rows, Rows
  <2> QED  BY <2>4 DEF Durable!Next
<1>5. ASSUME NEW request \in network, IngestObservations(request) PROVE Durable!Deliver
  <2>1. request \in Rows /\ stored' \in Rows
    BY <1>0, <1>5 DEF IngestObservations, TypeOK, Rows
  <2>2. ASSUME NEW o \in Observations, stored'[o] # stored[o]
        PROVE  stored[o] = None /\ <<o, stored'[o]>> \in recorded
    <3>1. Answers(request)[o] = "accepted" /\ stored'[o] = request[o]
      BY <1>5, <2>2 DEF IngestObservations
    <3>2. request[o] # None /\ stored[o] = None
      BY <2>1, <3>1, AnswersType, Zenon
    <3> QED  BY <1>0, <3>1, <3>2 DEF AllRecorded
  <2> QED  BY <1>5, <2>1, <2>2 DEF IngestObservations, tables, Durable!Deliver, Durable!Rows, Rows
<1>6. ASSUME NEW request \in network, RefuseUpload(request) PROVE Same
  BY <1>6, Zenon DEF RefuseUpload, tables, server
<1>7. ASSUME NEW revision, SnapshotCreated(revision) PROVE Same
  BY <1>7 DEF SnapshotCreated, tables
<1>8. ASSUME NEW o \in Observations, AgeObservation(o) PROVE Same
  BY <1>8 DEF AgeObservation, tables
<1>9. ASSUME AgentExits \/ Crash \/ Restart \/ ClockTick PROVE Same
  BY <1>9 DEF AgentExits, Crash, Restart, ClockTick, tables, server
<1>10. ASSUME UNCHANGED vars PROVE Same
  BY <1>10 DEF vars, tables, server
<1>11. Same => UNCHANGED Durable!vars
  BY DEF Durable!vars
<1> HIDE DEF Same
<1> QED
  BY <1>1, <1>2, <1>3, <1>4, <1>5, <1>6, <1>7, <1>8, <1>9, <1>10, <1>11, Zenon DEF Next, Durable!Next

\* The queue, the upload client, the network and the ingestion endpoint together
\* implement DurableDelivery, for every number of observations and every limit.
THEOREM DeliveryRefines == Spec => ImplementsDurableDelivery
<1>1. Init => Durable!Init
  BY DEF Init, NoRows, Durable!Init
<1>2. Spec => []DeliveryInv
  BY InitDeliveryInv, NextDeliveryInv, PTL DEF Spec
<1> QED  BY <1>1, <1>2, StepsRefine, PTL DEF Spec, Durable!Spec, ImplementsDurableDelivery

\* What DurableDelivery promises.  Whatever is committed stays accounted for: a delivered
\* or quarantined row is never replaced, and a queued one leaves only in exchange for one
\* of them.
THEOREM CommittedIsKept == Durable!Spec => []Durable!NothingLost
<1> USE DeliveryConstants
<1> DEFINE Inv == queued \in [Observations -> Payloads \cup {None}] /\ Durable!NothingLost
<1>1. Durable!Init => Inv
  BY DEF Durable!Init, Durable!NothingLost
<1>2. Inv /\ [Durable!Next]_(Durable!vars) => Inv'
  <2> SUFFICES ASSUME Inv, [Durable!Next]_(Durable!vars) PROVE Inv'
    OBVIOUS
  <2>1. ASSUME NEW o \in Observations, NEW p \in Payloads, Durable!Commit(o, p) PROVE Inv'
    BY <2>1 DEF Durable!Commit, Durable!NothingLost
  <2>2. CASE Durable!Deliver
    BY <2>2, Zenon DEF Durable!Deliver, Durable!NothingLost
  <2>3. CASE Durable!Settle
    BY <2>3 DEF Durable!Settle, Durable!NothingLost, Durable!Rows
  <2>4. CASE UNCHANGED Durable!vars
    BY <2>4 DEF Durable!vars, Durable!NothingLost
  <2> QED  BY <2>1, <2>2, <2>3, <2>4 DEF Durable!Next
<1>3. Inv => Durable!NothingLost
  OBVIOUS
<1> QED  BY <1>1, <1>2, <1>3, PTL DEF Durable!Spec

\* No recorded observation is ever lost: the abstract theorem, carried over by the
\* refinement (EnqueueObservation, UploadOnce, ApplyAcknowledgements and
\* ingest_observations under crashes, lost and late messages).
THEOREM NothingIsLost == Spec => []NoObservationLost
<1>1. Durable!NothingLost => NoObservationLost
  BY DEF Durable!NothingLost, NoObservationLost
<1> QED  BY <1>1, CommittedIsKept, DeliveryRefines, PTL DEF ImplementsDurableDelivery

-----------------------------------------------------------------------------
(* What Bytes, a fold over a set, computes.  Induction is by a smallest     *)
(* counterexample.                                                          *)

\* The element at which the fold of MapThenSumSet takes a set apart.
Pick(s) == CHOOSE x \in s : TRUE

\* f is the function that fold defines on the subsets of S.
IsSums(f, S) ==
    f = [s \in SUBSET S |-> IF s = {} THEN 0 ELSE Size[Pick(s)] + f[s \ {Pick(s)}]]

\* The function itself, as the fold names it.
Sums(S) == CHOOSE f : IsSums(f, S)

\* Bytes in terms of them.
LEMMA BytesOfSums == ASSUME NEW S PROVE Bytes(S) = Sums(S)[S]
  BY Zenon DEF Bytes, MapThenSumSet, MapThenFoldSet, Sums, IsSums, Pick

\* A non-empty set of subsets of a finite set has a minimal member.
LEMMA MinimalSubset ==
    ASSUME NEW S, IsFiniteSet(S), NEW D \in SUBSET (SUBSET S), D # {}
    PROVE  \E s \in D : \A t \in SUBSET s : t # s => t \notin D
<1>1. IsWellFoundedOn(StrictSubsetOrdering(S), SUBSET S)
  BY FS_StrictSubsetOrderingWellFounded, FS_FiniteSubsetsOfFinite, Zenon
<1>2. PICK s \in D : \A t \in D : ~(<<t, s>> \in StrictSubsetOrdering(S))
  BY <1>1, WFMin
<1>3. ASSUME NEW t \in SUBSET s, t # s PROVE t \notin D
  <2>1. t \in SUBSET S /\ s \in SUBSET S
    OBVIOUS
  <2>2. <<t, s>> \in StrictSubsetOrdering(S)
    BY <1>3, <2>1 DEF StrictSubsetOrdering
  <2> QED BY <1>2, <2>2
<1> QED BY <1>3

\* The fold takes out a member.
LEMMA PickIsMember == ASSUME NEW s, s # {} PROVE Pick(s) \in s
  BY DEF Pick

\* There is at most one such function: two would differ first at a smallest set.
LEMMA SumsUnique ==
    ASSUME NEW S, IsFiniteSet(S), NEW f, NEW g, IsSums(f, S), IsSums(g, S)
    PROVE  f = g
<1> DEFINE D == {s \in SUBSET S : f[s] # g[s]}
<1>1. SUFFICES ASSUME D # {} PROVE FALSE
  BY DEF IsSums
<1>2. PICK s \in D : \A t \in SUBSET s : t # s => t \notin D
  <2>1. D \in SUBSET (SUBSET S)
    OBVIOUS
  <2> HIDE DEF D
  <2> QED BY <1>1, <2>1, MinimalSubset, Zenon
<1>3. /\ f[s] = IF s = {} THEN 0 ELSE Size[Pick(s)] + f[s \ {Pick(s)}]
      /\ g[s] = IF s = {} THEN 0 ELSE Size[Pick(s)] + g[s \ {Pick(s)}]
  <2>1. s \in SUBSET S
    OBVIOUS
  <2> QED BY <2>1, Zenon DEF IsSums
<1>4. s # {}
  BY <1>3
<1>5. s \ {Pick(s)} \in SUBSET s /\ s \ {Pick(s)} # s /\ s \ {Pick(s)} \in SUBSET S
  BY <1>4, PickIsMember
<1>6. f[s \ {Pick(s)}] = g[s \ {Pick(s)}]
  BY <1>2, <1>5
<1> QED BY <1>3, <1>6

\* It restricts to the subsets of a subset.
LEMMA SumsRestrict ==
    ASSUME NEW S, NEW T \in SUBSET S, NEW f, IsSums(f, S)
    PROVE  IsSums([s \in SUBSET T |-> f[s]], T)
<1> DEFINE g == [s \in SUBSET T |-> f[s]]
<1>1. ASSUME NEW s \in SUBSET T
      PROVE  g[s] = IF s = {} THEN 0 ELSE Size[Pick(s)] + g[s \ {Pick(s)}]
  <2>1. s \in SUBSET S /\ s \ {Pick(s)} \in SUBSET T
    OBVIOUS
  <2>2. f[s] = IF s = {} THEN 0 ELSE Size[Pick(s)] + f[s \ {Pick(s)}]
    BY <2>1, Zenon DEF IsSums
  <2> QED BY <2>1, <2>2
<1> HIDE DEF g
<1>2. g = [s \in SUBSET T |-> g[s]]
  BY DEF g
<1>3. g = [s \in SUBSET T |-> IF s = {} THEN 0 ELSE Size[Pick(s)] + g[s \ {Pick(s)}]]
  BY <1>1, <1>2, Zenon
<1>4. IsSums(g, T)
  BY <1>3, Zenon DEF IsSums
<1> QED BY <1>4, Zenon DEF g

\* So its value at a set does not depend on where the fold began.
LEMMA SumsAgree ==
    ASSUME NEW S, IsFiniteSet(S), NEW T \in SUBSET S, IsSums(Sums(S), S), IsSums(Sums(T), T)
    PROVE  Sums(S)[T] = Sums(T)[T]
<1> DEFINE g == [s \in SUBSET T |-> Sums(S)[s]]
<1>1. IsSums(g, T)
  BY SumsRestrict
<1>2. IsFiniteSet(T)
  BY FS_Subset
<1>3. g = Sums(T)
  BY <1>1, <1>2, SumsUnique, Zenon
<1>4. g[T] = Sums(S)[T]
  OBVIOUS
<1> QED BY <1>3, <1>4

\* There is one for every finite set: for a smallest set without one, the functions of its
\* proper subsets can be put together.
LEMMA SumsExist == ASSUME NEW S, IsFiniteSet(S) PROVE IsSums(Sums(S), S)
<1> DEFINE D == {T \in SUBSET S : ~IsSums(Sums(T), T)}
<1>1. SUFFICES ASSUME D # {} PROVE FALSE
  OBVIOUS
<1>2. PICK T \in D : \A U \in SUBSET T : U # T => U \notin D
  <2>1. D \in SUBSET (SUBSET S)
    OBVIOUS
  <2> HIDE DEF D
  <2> QED BY <1>1, <2>1, MinimalSubset, Zenon
<1>3. T \in SUBSET S /\ IsFiniteSet(T)
  BY FS_Subset
<1>4. ASSUME NEW U \in SUBSET T, U # T PROVE IsSums(Sums(U), U) /\ IsFiniteSet(U)
  BY <1>2, <1>3, <1>4, FS_Subset
<1> DEFINE rest(s) == s \ {Pick(s)}
           sum(s) == IF s = {} THEN 0 ELSE Size[Pick(s)] + Sums(rest(s))[rest(s)]
           g == [s \in SUBSET T |-> sum(s)]
<1>5. ASSUME NEW s \in SUBSET T, s # {} PROVE rest(s) \in SUBSET T /\ rest(s) # T /\ rest(s) # s
  BY <1>5, PickIsMember
<1>6. ASSUME NEW U \in SUBSET T, U # T PROVE g[U] = Sums(U)[U]
  <2>1. Sums(U)[U] = IF U = {} THEN 0 ELSE Size[Pick(U)] + Sums(U)[rest(U)]
    <3>1. IsSums(Sums(U), U) /\ U \in SUBSET U
      BY <1>4, <1>6
    <3> QED BY <3>1, Zenon DEF IsSums
  <2>2. CASE U = {}
    BY <2>1, <2>2, Zenon
  <2>3. CASE U # {}
    <3>1. rest(U) \in SUBSET U /\ rest(U) \in SUBSET T /\ rest(U) # T
      BY <1>5, <2>3
    <3>2. IsSums(Sums(U), U) /\ IsSums(Sums(rest(U)), rest(U)) /\ IsFiniteSet(U)
      BY <1>4, <1>6, <3>1, SMTT(20)
    <3>3. Sums(U)[rest(U)] = Sums(rest(U))[rest(U)]
      BY <3>1, <3>2, SumsAgree
    <3>4. g[U] = sum(U)
      OBVIOUS
    <3> QED BY <2>1, <2>3, <3>3, <3>4
  <2> QED BY <2>2, <2>3
<1>7. ASSUME NEW s \in SUBSET T PROVE sum(s) = IF s = {} THEN 0 ELSE Size[Pick(s)] + g[rest(s)]
  <2>1. CASE s # {}
    <3>1. g[rest(s)] = Sums(rest(s))[rest(s)]
      BY <1>5, <1>6, <2>1, Zenon
    <3> QED BY <2>1, <3>1
  <2> QED BY <2>1
<1>8. IsSums(g, T)
  <2> HIDE DEF sum
  <2>1. g = [s \in SUBSET T |-> IF s = {} THEN 0 ELSE Size[Pick(s)] + g[s \ {Pick(s)}]]
    BY <1>7, Zenon
  <2> HIDE DEF g
  <2> QED BY <2>1, Zenon DEF IsSums
<1>9. IsSums(Sums(T), T)
  BY <1>8, Zenon DEF Sums
<1> QED BY <1>9

\* Bytes is the recursion its fold describes.
LEMMA BytesRecursion ==
    ASSUME NEW S, IsFiniteSet(S)
    PROVE  Bytes(S) = IF S = {} THEN 0 ELSE Size[Pick(S)] + Bytes(S \ {Pick(S)})
<1> DEFINE R == S \ {Pick(S)}
<1>1. IsSums(Sums(S), S) /\ R \in SUBSET S /\ IsFiniteSet(R)
  BY SumsExist, FS_Subset
<1>2. Sums(S)[S] = IF S = {} THEN 0 ELSE Size[Pick(S)] + Sums(S)[R]
  <2>1. S \in SUBSET S
    OBVIOUS
  <2> QED BY <1>1, <2>1, Zenon DEF IsSums
<1>3. Sums(S)[R] = Sums(R)[R]
  BY <1>1, SumsExist, SumsAgree
<1>4. Bytes(S) = Sums(S)[S] /\ Bytes(R) = Sums(R)[R]
  BY BytesOfSums
<1> QED BY <1>2, <1>3, <1>4

\* Bytes is a number.
LEMMA BytesType ==
    ASSUME NEW S \in SUBSET Observations, IsFiniteSet(S) PROVE Bytes(S) \in Nat
<1> DEFINE D == {T \in SUBSET S : Bytes(T) \notin Nat}
<1>1. SUFFICES ASSUME D # {} PROVE FALSE
  OBVIOUS
<1>2. PICK T \in D : \A U \in SUBSET T : U # T => U \notin D
  <2>1. D \in SUBSET (SUBSET S)
    OBVIOUS
  <2> HIDE DEF D
  <2> QED BY <1>1, <2>1, MinimalSubset, Zenon
<1>3. IsFiniteSet(T) /\ T \in SUBSET S
  BY FS_Subset
<1>4. Bytes(T) = IF T = {} THEN 0 ELSE Size[Pick(T)] + Bytes(T \ {Pick(T)})
  BY <1>3, BytesRecursion
<1>5. CASE T = {}
  BY <1>4, <1>5
<1>6. CASE T # {}
  <2>1. Pick(T) \in T
    BY <1>6, PickIsMember
  <2>2. T \ {Pick(T)} \in SUBSET T /\ T \ {Pick(T)} # T /\ T \ {Pick(T)} \in SUBSET S
    BY <1>3, <2>1
  <2>3. Bytes(T \ {Pick(T)}) \in Nat
    BY <1>2, <2>2
  <2>4. Size[Pick(T)] \in Nat
    BY <1>3, <2>1, DeliveryConstants, Zenon
  <2> QED BY <1>4, <1>6, <2>3, <2>4
<1> QED BY <1>5, <1>6

\* Whatever member is taken out, it takes its own size with it.
LEMMA BytesOfMember ==
    ASSUME NEW S \in SUBSET Observations, IsFiniteSet(S), NEW o \in S
    PROVE  Bytes(S) = Size[o] + Bytes(S \ {o})
<1> DEFINE D == {T \in SUBSET S : \E m \in T : Bytes(T) # Size[m] + Bytes(T \ {m})}
<1>1. SUFFICES ASSUME D # {} PROVE FALSE
  OBVIOUS
<1>2. PICK T \in D : \A U \in SUBSET T : U # T => U \notin D
  <2>1. D \in SUBSET (SUBSET S)
    OBVIOUS
  <2> HIDE DEF D
  <2> QED BY <1>1, <2>1, MinimalSubset, Zenon
<1>3. PICK m \in T : Bytes(T) # Size[m] + Bytes(T \ {m})
  OBVIOUS
<1>4. IsFiniteSet(T) /\ T \in SUBSET S /\ T \in SUBSET Observations
  BY FS_Subset
<1> DEFINE x == Pick(T)
<1>5. Bytes(T) = Size[x] + Bytes(T \ {x}) /\ x \in T
  BY <1>4, BytesRecursion, PickIsMember
<1> HIDE DEF x
<1>6. m # x
  BY <1>3, <1>5
<1>7. Bytes(T \ {x}) = Size[m] + Bytes((T \ {x}) \ {m})
  <2>1. T \ {x} \in SUBSET T /\ T \ {x} # T /\ m \in T \ {x} /\ T \ {x} \in SUBSET S
    BY <1>4, <1>5, <1>6
  <2> QED BY <1>2, <2>1, Zenon
<1>8. Bytes(T \ {m}) = Size[x] + Bytes((T \ {m}) \ {x})
  <2>1. T \ {m} \in SUBSET T /\ T \ {m} # T /\ x \in T \ {m} /\ T \ {m} \in SUBSET S
    BY <1>4, <1>5, <1>6
  <2> QED BY <1>2, <2>1, Zenon
<1>9. (T \ {x}) \ {m} = (T \ {m}) \ {x}
  OBVIOUS
<1>10. Bytes((T \ {m}) \ {x}) \in Nat /\ Size[m] \in Nat /\ Size[x] \in Nat
  <2>1. (T \ {m}) \ {x} \in SUBSET T
    OBVIOUS
  <2>2. IsFiniteSet((T \ {m}) \ {x}) /\ (T \ {m}) \ {x} \in SUBSET Observations
    BY <1>4, <2>1, FS_Subset
  <2>3. Bytes((T \ {m}) \ {x}) \in Nat
    BY <2>2, BytesType
  <2> QED BY <1>4, <1>5, <2>3, DeliveryConstants
<1> QED BY <1>3, <1>5, <1>7, <1>8, <1>9, <1>10

\* Fewer rows have no more bytes.
LEMMA BytesMonotone ==
    ASSUME NEW S \in SUBSET Observations, IsFiniteSet(S), NEW T \in SUBSET S
    PROVE  Bytes(T) <= Bytes(S)
<1> DEFINE D == {U \in SUBSET S : T \subseteq U /\ ~(Bytes(T) <= Bytes(U))}
<1>1. SUFFICES ASSUME D # {} PROVE FALSE
  OBVIOUS
<1>2. PICK U \in D : \A V \in SUBSET U : V # U => V \notin D
  <2>1. D \in SUBSET (SUBSET S)
    OBVIOUS
  <2> HIDE DEF D
  <2> QED BY <1>1, <2>1, MinimalSubset, Zenon
<1>3. IsFiniteSet(U) /\ IsFiniteSet(T) /\ U \in SUBSET S /\ U \in SUBSET Observations
  BY FS_Subset
<1>4. Bytes(T) \in Nat
  BY <1>3, BytesType
<1>5. U # T
  BY <1>4
<1>6. PICK o \in U : o \notin T
  BY <1>5
<1>7. U \ {o} \in SUBSET U /\ U \ {o} # U /\ U \ {o} \in SUBSET S /\ T \subseteq U \ {o}
  BY <1>3, <1>6
<1>8. Bytes(T) <= Bytes(U \ {o})
  BY <1>2, <1>7
<1>9. Bytes(U) = Size[o] + Bytes(U \ {o})
  BY <1>3, BytesOfMember
<1>10. Bytes(U \ {o}) \in Nat /\ Size[o] \in Nat
  <2>1. IsFiniteSet(U \ {o}) /\ U \ {o} \in SUBSET Observations
    BY <1>3, <1>7, FS_Subset
  <2>2. Bytes(U \ {o}) \in Nat
    BY <2>1, BytesType
  <2> QED BY <1>3, <2>2, DeliveryConstants
<1>11. Bytes(T) <= Bytes(U)
  BY <1>4, <1>8, <1>9, <1>10
<1> QED BY <1>11

-----------------------------------------------------------------------------
(* Limits of the queue and of a request *)

\* Only InsertPending adds a row, and only one.
LEMMA QueueGrowsByInsert ==
    ASSUME TypeOK, [Next]_vars
    PROVE  \/ Members(queued') \in SUBSET Members(queued)
           \/ \E o \in Observations : /\ o \notin Members(queued) /\ ~QueueFull(o)
                                      /\ Members(queued') = Members(queued) \cup {o}
<1> DEFINE shrinks == Members(queued') \in SUBSET Members(queued)
<1>1. CASE UNCHANGED queued
  BY <1>1, Zenon DEF Members
<1>2. ASSUME NEW o \in Observations, NEW p \in Payloads, EnqueueObservation(o, p)
      PROVE  \/ shrinks
             \/ o \notin Members(queued) /\ ~QueueFull(o) /\ Members(queued') = Members(queued) \cup {o}
  <2>1. CASE InsertPending(o, p)
    <3>1. queued[o] = None /\ ~QueueFull(o) /\ queued' = [queued EXCEPT ![o] = p] /\ p # None
      BY <2>1, DeliveryConstants DEF InsertPending
    <3> QED BY <3>1 DEF Members, TypeOK, Rows
  <2> QED BY <1>1, <1>2, <2>1 DEF EnqueueObservation, AlreadyQueued, EnqueueFails, tables
<1>3. ASSUME NEW o \in Observations, QuarantineObservation(o) PROVE shrinks
  BY <1>3, Zenon DEF QuarantineObservation, Members, TypeOK, Rows
<1>4. CASE ApplyAcknowledgements
  BY <1>4 DEF ApplyAcknowledgements, Members
<1>5. CASE \/ PostBatch \/ TransportError \/ UploadRefused \/ CleanupRollsBack
           \/ AgentExits \/ Crash \/ Restart \/ ClockTick \/ UNCHANGED vars
  BY <1>1, <1>5, Zenon DEF PostBatch, TransportError, UploadRefused, CleanupRollsBack, AgentExits, Crash,
                    Restart, ClockTick, vars, tables
<1>6. CASE \/ \E request \in network : IngestObservations(request) \/ RefuseUpload(request)
           \/ \E revision \in {Revision[o] : o \in Observations} : SnapshotCreated(revision)
           \/ \E o \in Observations : AgeObservation(o)
  BY <1>1, <1>6, Zenon DEF IngestObservations, RefuseUpload, SnapshotCreated, AgeObservation, tables
<1> QED BY <1>2, <1>3, <1>4, <1>5, <1>6, Zenon DEF Next

\* An insert counts the row it is about to add against both limits; a removal frees room.
LEMMA NextQueueWithinLimits ==
    ASSUME TypeOK, QueueWithinLimits, [Next]_vars PROVE QueueWithinLimits'
<1> DEFINE old == Members(queued)
           new == Members(queued')
<1>1. /\ old \in SUBSET Observations /\ IsFiniteSet(old) /\ Cardinality(old) \in Nat
      /\ Bytes(old) \in Nat /\ MaxCount \in Nat /\ MaxBytes \in Nat
  <2>1. old \in SUBSET Observations
    BY DEF Members
  <2>2. IsFiniteSet(old)
    BY <2>1, FS_Subset, DeliveryConstants
  <2> QED BY <2>1, <2>2, FS_CardinalityType, BytesType, DeliveryConstants, Zenon
<1>2. Cardinality(old) <= MaxCount /\ Bytes(old) <= MaxBytes
  BY DEF QueueWithinLimits
<1>3. Cardinality(new) <= MaxCount /\ Bytes(new) <= MaxBytes
  <2> HIDE DEF old, new
  <2>1. CASE new \in SUBSET old
    <3>1. IsFiniteSet(new) /\ Cardinality(new) <= Cardinality(old) /\ Bytes(new) <= Bytes(old)
      BY <1>1, <2>1, FS_Subset, BytesMonotone
    <3>2. Cardinality(new) \in Nat /\ Bytes(new) \in Nat
      BY <1>1, <2>1, <3>1, FS_CardinalityType, BytesType
    <3> QED BY <1>1, <1>2, <3>1, <3>2
  <2>2. ASSUME NEW o \in Observations, o \notin old, new = old \cup {o},
               ~(Cardinality(old) + 1 > MaxCount), ~(Bytes(old) + Size[o] > MaxBytes)
        PROVE  Cardinality(new) <= MaxCount /\ Bytes(new) <= MaxBytes
    <3>1. IsFiniteSet(new) /\ Cardinality(new) = Cardinality(old) + 1
      BY <1>1, <2>2, FS_AddElement
    <3>2. new \in SUBSET Observations /\ o \in new /\ new \ {o} = old /\ Size[o] \in Nat
      BY <1>1, <2>2, DeliveryConstants
    <3>3. Bytes(new) = Size[o] + Bytes(old)
      BY <3>1, <3>2, BytesOfMember
    <3> QED BY <1>1, <2>2, <3>1, <3>2, <3>3
  <2>3. \/ new \in SUBSET old
        \/ \E o \in Observations : /\ o \notin old /\ new = old \cup {o}
                                   /\ ~(Cardinality(old) + 1 > MaxCount)
                                   /\ ~(Bytes(old) + Size[o] > MaxBytes)
    BY QueueGrowsByInsert, Zenon DEF QueueFull, old, new
  <2> QED BY <2>1, <2>2, <2>3
<1> QED BY <1>3 DEF QueueWithinLimits

\* The queue never exceeds either limit, for every sequence of enqueues, quarantines and
\* cleanups (EnqueueObservation).
THEOREM QueueAlwaysWithinLimits == Spec => []QueueWithinLimits
<1>1. Init => QueueWithinLimits
  <2> SUFFICES ASSUME Init PROVE QueueWithinLimits
    OBVIOUS
  <2>1. Members(queued) = {}
    BY DEF Init, NoRows, Members
  <2>2. Cardinality({}) = 0 /\ Bytes({}) = 0
    BY FS_EmptySet, BytesRecursion
  <2> QED BY <2>1, <2>2, DeliveryConstants DEF QueueWithinLimits
<1>2. TypeOK /\ QueueWithinLimits /\ [Next]_vars => QueueWithinLimits'
  BY NextQueueWithinLimits
<1> QED BY <1>1, <1>2, DeliveryTypeCorrect, PTL DEF Spec

-----------------------------------------------------------------------------

\* A later row has a longer prefix.
LEMMA PrefixGrows ==
    ASSUME NEW x \in Ready, NEW y \in Ready, x < y
    PROVE  Prefix(x) \in SUBSET Prefix(y) /\ y \in Prefix(y) /\ y \notin Prefix(x)
<1>1. \A z \in Ready : z \in Nat
  BY DeliveryConstants DEF Ready, Members
<1>2. ASSUME NEW z \in Prefix(x) PROVE z \in Prefix(y)
  <2>1. z \in Ready /\ z <= x
    BY DEF Prefix
  <2>2. z <= y
    BY <1>1, <2>1
  <2> QED BY <2>1, <2>2 DEF Prefix
<1>3. y <= y /\ ~(y <= x)
  BY <1>1
<1>4. y \in Prefix(y) /\ y \notin Prefix(x)
  BY <1>3 DEF Prefix
<1> QED BY <1>2, <1>4

\* The room that n rows leave of m.
LEMMA LessRoomMoreRows ==
    \A m, a, b \in Nat : /\ ~(m - a < m - b) => a <= b
                        /\ a <= b /\ b <= a => a = b
  OBVIOUS

\* What BuildBatch selects is the ready rows up to the last one it selects.
LEMMA BatchIsPrefix ==
    ASSUME Batch # {} PROVE \E o \in Batch : Batch = Prefix(o)
<1>1. Ready \in SUBSET Observations /\ Batch \in SUBSET Ready /\ MaxBatchObservations \in Nat
  BY DeliveryConstants DEF Ready, Members, Batch
<1>2. \A o : Prefix(o) \in SUBSET Ready
  BY DEF Prefix
<1>3. \A o : IsFiniteSet(Prefix(o)) /\ Cardinality(Prefix(o)) \in Nat
  BY <1>1, <1>2, FS_Subset, FS_CardinalityType, DeliveryConstants, Zenon
<1>4. \A o \in Batch : Cardinality(Prefix(o)) <= MaxBatchObservations
  BY DEF Batch, Reached
<1> DEFINE left(o) == MaxBatchObservations - Cardinality(Prefix(o))
           T == {left(o) : o \in Batch}
<1>5. T \in SUBSET Nat /\ T # {}
  BY <1>1, <1>3, <1>4
<1>6. PICK t \in T : \A u \in T : ~(u < t)
  <2> HIDE DEF T
  <2>1. PICK t \in T : \A u \in T : ~(<<u, t>> \in OpToRel(<, Nat))
    <3>1. T \subseteq Nat /\ T # {} /\ IsWellFoundedOn(OpToRel(<, Nat), Nat)
      BY <1>5, NatLessThanWellFounded, Zenon
    <3> QED BY <3>1, WFMin, Zenon
  <2>2. ASSUME NEW u \in T PROVE ~(u < t)
    BY <1>5, <2>1, Zenon DEF OpToRel
  <2> QED BY <2>2
<1>7. PICK last \in Batch : t = left(last)
  OBVIOUS
<1>8. ASSUME NEW x \in Batch PROVE x <= last
  <2>1. Cardinality(Prefix(x)) <= Cardinality(Prefix(last))
    <3>1. ~(left(x) < left(last))
      BY <1>6, <1>7
    <3>2. Cardinality(Prefix(x)) \in Nat /\ Cardinality(Prefix(last)) \in Nat
      BY <1>3, Zenon
    <3> HIDE DEF T
    <3> QED BY <1>1, <3>1, <3>2, LessRoomMoreRows
  <2>2. x \in Nat /\ last \in Nat /\ x \in Ready
    BY <1>1, DeliveryConstants
  <2>3. SUFFICES ASSUME x > last PROVE FALSE
    BY <2>2
  <2>4. last \in Ready /\ last < x
    BY <1>1, <2>2, <2>3
  <2>5. Prefix(last) \in SUBSET Prefix(x) /\ x \in Prefix(x) /\ x \notin Prefix(last)
    BY <2>2, <2>4, PrefixGrows
  <2>6. Cardinality(Prefix(x)) # Cardinality(Prefix(last))
    BY <1>3, <2>5, FS_Subset
  <2>7. Cardinality(Prefix(last)) <= Cardinality(Prefix(x))
    BY <1>3, <2>5, FS_Subset
  <2> QED BY <1>3, <2>1, <2>6, <2>7, LessRoomMoreRows, Zenon
<1>9. Batch \subseteq Prefix(last)
  BY <1>1, <1>8 DEF Prefix
<1>10. ASSUME NEW y \in Prefix(last), y # last PROVE y \in Batch
  <2>1. last \in Ready /\ Reached(last) /\ y \in Ready /\ y <= last
    BY DEF Batch, Prefix
  <2>2. y \notin Malformed /\ Fits(y)
    BY <1>10, <2>1 DEF Reached
  <2>3. y < last
    BY <1>1, <1>10, <2>1, DeliveryConstants
  <2>4. Prefix(y) \in SUBSET Prefix(last) /\ last \notin Prefix(y)
    BY <2>1, <2>3, PrefixGrows
  <2>5. Cardinality(Prefix(y)) <= MaxBatchObservations
    <3>1. Cardinality(Prefix(y)) <= Cardinality(Prefix(last))
      BY <1>3, <2>4, FS_Subset
    <3> QED BY <1>1, <1>3, <1>4, <3>1
  <2>6. Reached(y)
    BY <2>1, <2>4, <2>5 DEF Reached
  <2> QED BY <2>1, <2>2, <2>6 DEF Batch
<1> QED BY <1>9, <1>10

\* PostBatch sends what BuildBatch selects; nothing else puts a request into the network.
LEMMA NextRequestsWellFormed ==
    ASSUME RequestsWellFormed, [Next]_vars PROVE RequestsWellFormed'
<1>1. CASE network' \in SUBSET network
  BY <1>1 DEF RequestsWellFormed
<1>2. CASE PostBatch
  <2>1. /\ Batch # {} /\ network' = network \cup {sent'}
        /\ sent' = [o \in Observations |-> IF o \in Batch THEN queued[o] ELSE None]
    BY <1>2 DEF PostBatch
  <2>2. Members(sent') = Batch
    BY <2>1 DEF Members, Batch, Ready
  <2>3. PICK last \in Batch : Batch = Prefix(last)
    BY <2>1, BatchIsPrefix
  <2>4. Cardinality(Batch) <= MaxBatchObservations /\ Bytes(Batch) <= MaxBatchBytes
    <3>1. Reached(last) /\ Fits(last)
      BY DEF Batch
    <3> QED BY <2>3, <3>1 DEF Reached, Fits
  <2>5. /\ Batch \cap Malformed = {}
        /\ \A o \in Batch : Revision[o] = Revision[Min(Ready)]
    <3>1. \A o \in Batch : Reached(o) /\ o \in Prefix(o) /\ o \notin Malformed
      BY DeliveryConstants DEF Batch, Prefix, Ready, Members
    <3> QED BY <3>1, SMTT(20) DEF Reached, SameRevision
  <2>6. ASSUME NEW request \in network'
        PROVE  /\ Members(request) # {} /\ Members(request) \cap Malformed = {}
               /\ \A o, x \in Members(request) : Revision[o] = Revision[x]
               /\ Cardinality(Members(request)) <= MaxBatchObservations
               /\ Bytes(Members(request)) <= MaxBatchBytes
    <3>1. CASE request \in network
      BY <3>1, Zenon DEF RequestsWellFormed
    <3>2. CASE request = sent'
      BY <2>1, <2>2, <2>4, <2>5, <3>2
    <3> QED BY <2>1, <3>1, <3>2
  <2> QED BY <2>6, Zenon DEF RequestsWellFormed
<1>3. CASE \/ \E o \in Observations, p \in Payloads : EnqueueObservation(o, p)
           \/ \E o \in Observations : QuarantineObservation(o)
           \/ TransportError \/ UploadRefused \/ ApplyAcknowledgements \/ CleanupRollsBack
  BY <1>1, <1>3, Zenon DEF EnqueueObservation, QuarantineObservation, TransportError, UploadRefused,
                    ApplyAcknowledgements, CleanupRollsBack
<1>4. CASE \/ \E request \in network : IngestObservations(request) \/ RefuseUpload(request)
           \/ \E revision \in {Revision[o] : o \in Observations} : SnapshotCreated(revision)
           \/ \E o \in Observations : AgeObservation(o)
  BY <1>1, <1>4, Zenon DEF IngestObservations, RefuseUpload, Delivered, SnapshotCreated, AgeObservation
<1>5. CASE AgentExits \/ Crash \/ Restart \/ ClockTick \/ UNCHANGED vars
  BY <1>1, <1>5, Zenon DEF AgentExits, Crash, Restart, ClockTick, vars
<1> QED BY <1>2, <1>3, <1>4, <1>5, Zenon DEF Next

\* Every request UploadOnce has sent is non-empty, of one revision, without a payload that is
\* not JSON, and within both batch limits (BuildBatch).
THEOREM RequestsAlwaysWellFormed == Spec => []RequestsWellFormed
<1>1. Init => RequestsWellFormed
  BY DEF Init, RequestsWellFormed
<1>2. RequestsWellFormed /\ [Next]_vars => RequestsWellFormed'
  BY NextRequestsWellFormed
<1> QED BY <1>1, <1>2, PTL DEF Spec
==============================================================================
