----------------------- MODULE MonitorReportingProofs -----------------------
(***************************************************************************)
(* What the dashboard shows, for every number of agents, every setting of  *)
(* the intervals and every configuration that can be submitted.            *)
(***************************************************************************)
EXTENDS MonitorReporting, FiniteSetTheorems, TLAPS

---------------------------------------------------------------------------
(* The headline. *)

\* A count is all of the agents, or none of them, exactly when it says so.
LEMMA Counts ==
    ASSUME NEW states, IsFiniteSet(DOMAIN states), NEW s
    PROVE  /\ Count(states, s) \in Nat
           /\ Count(states, s) <= Cardinality(DOMAIN states)
           /\ Count(states, s) = Cardinality(DOMAIN states)
                 <=> \A a \in DOMAIN states : states[a] = s
           /\ Count(states, s) = 0 <=> \A a \in DOMAIN states : states[a] # s
<1> DEFINE D == DOMAIN states
           T == {a \in D : states[a] = s}
<1>1. T \in SUBSET D
  OBVIOUS
<1>2. /\ IsFiniteSet(T) /\ Cardinality(T) <= Cardinality(D)
      /\ Cardinality(D) = Cardinality(T) => D = T
  BY <1>1, FS_Subset
<1>3. Cardinality(T) \in Nat
  BY <1>2, FS_CardinalityType
<1>4. Cardinality(T) = 0 <=> T = {}
  BY <1>2, FS_EmptySet
<1>5. Count(states, s) = Cardinality(T)
  BY DEF Count
<1>6. Cardinality(T) = Cardinality(D) <=> D = T
  BY <1>2
<1>7. D = T <=> \A a \in D : states[a] = s
  OBVIOUS
<1>8. T = {} <=> \A a \in D : states[a] # s
  OBVIOUS
<1> HIDE DEF T
<1> QED
  BY <1>2, <1>3, <1>4, <1>5, <1>6, <1>7, <1>8

\* The headline of _headline means what it says, for any number of agents: a
\* monitor is healthy or unhealthy only by the word of every agent it runs
\* on, unknown only when none can be trusted, and degraded when the agents
\* that can be trusted do not speak for all.
THEOREM HeadlineMeaning ==
    ASSUME NEW states, IsFiniteSet(DOMAIN states)
    PROVE  LET agents == DOMAIN states
               All(s) == \A a \in agents : states[a] = s
               Trusted == {a \in agents : states[a] \in {"healthy", "unhealthy"}}
           IN  /\ Headline(states) = "disabled" <=> agents = {}
               /\ Headline(states) = "healthy" <=> agents # {} /\ All("healthy")
               /\ Headline(states) = "unhealthy" <=> agents # {} /\ All("unhealthy")
               /\ Headline(states) = "unknown" <=> agents # {} /\ Trusted = {}
               /\ Headline(states) = "degraded" <=>
                      Trusted # {} /\ ~All("healthy") /\ ~All("unhealthy")
<1> DEFINE agents == DOMAIN states
           All(s) == \A a \in agents : states[a] = s
           NoneIs(s) == \A a \in agents : states[a] # s
           Trusted == {a \in agents : states[a] \in {"healthy", "unhealthy"}}
<1>1. ASSUME NEW s
      PROVE  /\ Count(states, s) = Cardinality(agents) <=> All(s)
             /\ Count(states, s) = 0 <=> NoneIs(s)
  BY Counts
<1>2. Headline(states) = IF agents = {} THEN "disabled"
                         ELSE IF All("healthy") THEN "healthy"
                         ELSE IF All("unhealthy") THEN "unhealthy"
                         ELSE IF NoneIs("healthy") /\ NoneIs("unhealthy") THEN "unknown"
                         ELSE "degraded"
  <2>1. /\ Count(states, "healthy") = Cardinality(agents) <=> All("healthy")
        /\ Count(states, "unhealthy") = Cardinality(agents) <=> All("unhealthy")
        /\ Count(states, "healthy") = 0 <=> NoneIs("healthy")
        /\ Count(states, "unhealthy") = 0 <=> NoneIs("unhealthy")
    BY <1>1
  <2> HIDE DEF All, NoneIs
  <2> QED
    BY <2>1 DEF Headline
<1>3. Trusted = {} <=> NoneIs("healthy") /\ NoneIs("unhealthy")
  OBVIOUS
<1>4. agents # {} => ~(All("healthy") /\ NoneIs("healthy"))
                     /\ ~(All("unhealthy") /\ NoneIs("unhealthy"))
                     /\ ~(All("healthy") /\ All("unhealthy"))
  OBVIOUS
<1>5. agents = {} => Trusted = {}
  OBVIOUS
<1>6. agents # {} /\ NoneIs("healthy") /\ NoneIs("unhealthy") => ~All("healthy") /\ ~All("unhealthy")
  OBVIOUS
<1> HIDE DEF All, NoneIs, Trusted
<1>7. /\ Headline(states) = "disabled" <=> agents = {}
      /\ Headline(states) = "healthy" <=> agents # {} /\ All("healthy")
      /\ Headline(states) = "unhealthy" <=> agents # {} /\ All("unhealthy")
      /\ Headline(states) = "unknown" <=> agents # {} /\ Trusted = {}
      /\ Headline(states) = "degraded" <=> Trusted # {} /\ ~All("healthy") /\ ~All("unhealthy")
  BY <1>2, <1>3, <1>4, <1>5, <1>6
<1> QED
  BY <1>7 DEF All, Trusted

\* The counts beside the headline add up: no agent is counted twice, none is
\* left out, and a monitor with a headline of health has full coverage.
THEOREM SummaryAddsUp ==
    ASSUME NEW states, IsFiniteSet(DOMAIN states)
    PROVE  /\ Summary(states).unavailable
                  = Cardinality({a \in DOMAIN states : states[a] \notin {"healthy", "unhealthy"}})
           /\ Headline(states) \in {"healthy", "unhealthy"} => Summary(states).unavailable = 0
<1> DEFINE D == DOMAIN states
           H == {a \in D : states[a] = "healthy"}
           U == {a \in D : states[a] = "unhealthy"}
           R == {a \in D : states[a] \notin {"healthy", "unhealthy"}}
<1>1. IsFiniteSet(H) /\ IsFiniteSet(U) /\ IsFiniteSet(R)
  BY FS_Subset
<1>2. Cardinality(H \cup U) = Cardinality(H) + Cardinality(U) - Cardinality(H \cap U)
      /\ IsFiniteSet(H \cup U)
  BY <1>1, FS_Union
<1>3. H \cap U = {} /\ D \cap (H \cup U) = H \cup U /\ D \ (H \cup U) = R
  OBVIOUS
<1>4. Cardinality(D \ (H \cup U)) = Cardinality(D) - Cardinality(D \cap (H \cup U))
  BY FS_Difference
<1>5. Cardinality({}) = 0
  BY FS_EmptySet
<1>6. Cardinality(H) \in Nat /\ Cardinality(U) \in Nat /\ Cardinality(D) \in Nat
      /\ Cardinality(R) \in Nat
  BY <1>1, FS_CardinalityType
<1>7. Summary(states).unavailable = Cardinality(D) - (Cardinality(H) + Cardinality(U))
  BY DEF Summary, Count
<1> HIDE DEF H, U, R, D
<1>8. Cardinality(R) = Cardinality(D) - (Cardinality(H) + Cardinality(U))
  <2>1. Cardinality(R) = Cardinality(D) - Cardinality(H \cup U)
    BY <1>3, <1>4, Zenon
  <2>2. Cardinality(H \cap U) = 0
    BY <1>3, <1>5, Zenon
  <2> QED
    BY <2>1, <2>2, <1>2, <1>6
<1>9. Summary(states).unavailable = Cardinality(R)
  BY <1>7, <1>8
<1>10. Headline(states) \in {"healthy", "unhealthy"} => R = {}
  <2>1. Headline(states) = "healthy" => \A a \in DOMAIN states : states[a] = "healthy"
    BY HeadlineMeaning
  <2>2. Headline(states) = "unhealthy" => \A a \in DOMAIN states : states[a] = "unhealthy"
    BY HeadlineMeaning
  <2> QED
    BY <2>1, <2>2 DEF R, D
<1> QED
  BY <1>5, <1>9, <1>10 DEF R, D

---------------------------------------------------------------------------
(* Configurations. *)

\* What serialize_probe_configuration returns it returns again unchanged, for
\* every ICMP configuration and every timeout, unless the agent is stricter;
\* the agent decodes it, and its packets fit the timeout.
LEMMA IcmpNormalises ==
    ASSUME NEW c \in IcmpFields, NEW seconds \in Nat,
           NEW n, n = serialize_probe_configuration(c, seconds), n # Refused,
           ~AgentIsStricter(n)
    PROVE  /\ serialize_probe_configuration(n, seconds) = n
           /\ DecodeConfiguration(n)
           /\ n.type = "icmp"
           /\ (n.packet_count - 1) * n.packet_interval_ms + n.per_packet_timeout_ms
                  <= seconds * 1000
<1> DEFINE wait == PacketTimeoutMS(c, seconds)
           room == AvailableMS(c, seconds)
           span == (c.packet_count - 1) * c.packet_interval_ms
<1>1. /\ c.type = "icmp" /\ c.packet_count \in Int /\ c.packet_interval_ms \in Int
      /\ c.per_packet_timeout_ms \in Optional(Int)
  BY DEF IcmpFields
<1>2. validate_probe_configuration(c) /\ room >= 1 /\ wait <= room
      /\ n = [c EXCEPT !.per_packet_timeout_ms = wait]
  <2>1. validate_probe_configuration(c)
    BY DEF serialize_probe_configuration
  <2>2. room \in Int
    BY <1>1 DEF AvailableMS
  <2>3. wait \in Int
    BY <1>1, <2>2 DEF PacketTimeoutMS, Optional
  <2>4. ~(room < 1 \/ wait > room)
    BY <1>1, <2>1 DEF serialize_probe_configuration
  <2>5. n = [c EXCEPT !.per_packet_timeout_ms = wait]
    BY <1>1, <2>1, <2>4 DEF serialize_probe_configuration
  <2> HIDE DEF wait, room
  <2> QED
    BY <2>1, <2>2, <2>3, <2>4, <2>5
<1>3. IcmpProbeConfiguration(c)
  BY <1>1, <1>2 DEF validate_probe_configuration
<1>4. /\ n.type = "icmp" /\ n.packet_count = c.packet_count
      /\ n.packet_interval_ms = c.packet_interval_ms
      /\ n.maximum_packet_loss_percent = c.maximum_packet_loss_percent
      /\ n.per_packet_timeout_ms = wait
  BY <1>2 DEF IcmpFields
<1>5. span \in Int /\ room = seconds * 1000 - span
  BY <1>1 DEF AvailableMS
<1>6. wait \in Int /\ wait >= 1
  BY <1>1, <1>2, <1>3, <1>5, NoneIsNoValue
  DEF PacketTimeoutMS, IcmpProbeConfiguration, Within
<1>7. wait <= 60000
  BY <1>4, <1>6 DEF AgentIsStricter
<1> HIDE DEF wait, span
<1>8. wait # None
  BY <1>6, NoneIsNoValue
<1>9. IcmpProbeConfiguration(n)
  BY <1>3, <1>4, <1>6, <1>7 DEF IcmpProbeConfiguration, Within
<1>10. validate_probe_configuration(n)
  BY <1>4, <1>9 DEF validate_probe_configuration
<1>11. AvailableMS(n, seconds) = room
  BY <1>4 DEF AvailableMS
<1>12. PacketTimeoutMS(n, seconds) = wait
  BY <1>4, <1>8 DEF PacketTimeoutMS
<1>13. [n EXCEPT !.per_packet_timeout_ms = wait] = n
  BY <1>2 DEF IcmpFields
<1>14. serialize_probe_configuration(n, seconds) = n
  <2> HIDE DEF room
  <2>1. room \in Int
    BY <1>5 DEF room, AvailableMS
  <2>2. ~(room < 1 \/ wait > room)
    BY <1>2, <1>6, <2>1
  <2> QED
    BY <1>4, <1>10, <1>11, <1>12, <1>13, <2>2 DEF serialize_probe_configuration
<1>15. DecodeConfiguration(n)
  BY <1>3, <1>4, <1>6, <1>7 DEF DecodeConfiguration, DecodesIcmp, IcmpProbeConfiguration, Within
<1>16. span + wait <= seconds * 1000
  BY <1>2, <1>5, <1>6
<1> QED
  BY <1>4, <1>14, <1>15, <1>16 DEF span

\* The other probe types are saved as they were submitted.
LEMMA OthersNormalise ==
    ASSUME NEW c, c.type # "icmp", NEW seconds,
           NEW n, n = serialize_probe_configuration(c, seconds), n # Refused,
           ~AgentIsStricter(n)
    PROVE  /\ serialize_probe_configuration(n, seconds) = n
           /\ DecodeConfiguration(n)
           /\ n.type # "icmp"
<1>1. validate_probe_configuration(c) /\ n = c
  BY DEF serialize_probe_configuration
<1>2. DecodeConfiguration(n)
  <2>1. CASE c.type = "http"
    BY <1>1, <2>1 DEF validate_probe_configuration, HttpProbeConfiguration, DecodeConfiguration,
                      DecodesHttp, AgentIsStricter
  <2>2. CASE c.type = "tcp"
    BY <1>1, <2>2 DEF validate_probe_configuration, TcpProbeConfiguration, DecodeConfiguration
  <2>3. CASE c.type = "dns"
    BY <1>1, <2>3 DEF validate_probe_configuration, DnsProbeConfiguration, DecodeConfiguration,
                      DecodesDns
  <2>4. CASE c.type = "tls"
    BY <1>1, <2>4 DEF validate_probe_configuration, TlsProbeConfiguration, DecodeConfiguration,
                      DecodesTls
  <2> QED
    BY <1>1, <2>1, <2>2, <2>3, <2>4 DEF validate_probe_configuration
<1> QED
  BY <1>1, <1>2

\* The monitor's row was made by CreateMonitor.
RowWasSubmitted ==
    monitor # None =>
        \E s \in Submissions :
            LET n == serialize_probe_configuration(s.configuration, s.timeout * TickSeconds)
            IN  n # Refused /\ monitor = Row(s, n)

\* Only create_monitor writes the monitor's row.
LEMMA RowsWereSubmitted == Spec => []RowWasSubmitted
<1>1. Init => RowWasSubmitted
  BY DEF Init, RowWasSubmitted
<1>2. RowWasSubmitted /\ [Next]_vars => RowWasSubmitted'
  <2> SUFFICES ASSUME RowWasSubmitted, [Next]_vars
               PROVE  RowWasSubmitted'
    OBVIOUS
  <2>1. CASE CreateMonitor
    BY <2>1 DEF CreateMonitor, RowWasSubmitted
  <2>2. CASE UNCHANGED monitor
    BY <2>2 DEF RowWasSubmitted
  <2> QED
    BY <2>1, <2>2 DEF Next, vars, OtherChange, RevokeCredential, Activate, Acknowledge, Heartbeat,
                      UploadObservation, Tick
<1> QED
  BY <1>1, <1>2, PTL DEF Spec

\* A configuration that was saved can be submitted again unchanged, is one
\* the agent can decode, and an ICMP sequence of it fits the timeout, for
\* every submission and every length of the timeout.
THEOREM SavedRuns == Spec => []SavedConfigurationRuns
<1>1. RowWasSubmitted => SavedConfigurationRuns
  <2> SUFFICES ASSUME RowWasSubmitted, monitor # None, ~AgentIsStricter(monitor.configuration)
               PROVE  SavedConfigurationRuns
    BY DEF SavedConfigurationRuns
  <2>1. PICK s \in Submissions :
            LET n == serialize_probe_configuration(s.configuration, s.timeout * TickSeconds)
            IN  n # Refused /\ monitor = Row(s, n)
    BY DEF RowWasSubmitted
  <2> DEFINE c == s.configuration
             seconds == s.timeout * TickSeconds
             n == serialize_probe_configuration(c, seconds)
  <2>2. monitor.configuration = n /\ monitor.timeout = s.timeout /\ n # Refused
    BY <2>1 DEF Row
  <2>3. seconds \in Nat
    BY SubmissionsAreParsed, SettingsArePositive
  <2>4. CASE c.type = "icmp"
    <3>1. c \in IcmpFields
      BY <2>4, SubmissionsAreParsed
    <3> HIDE DEF c, seconds, n
    <3>2. n = serialize_probe_configuration(c, seconds)
      BY DEF n
    <3>3. /\ serialize_probe_configuration(n, seconds) = n /\ DecodeConfiguration(n)
          /\ (n.packet_count - 1) * n.packet_interval_ms + n.per_packet_timeout_ms <= seconds * 1000
      BY <2>2, <2>3, <3>1, <3>2, IcmpNormalises
    <3> QED
      BY <2>2, <3>3 DEF SavedConfigurationRuns, seconds
  <2>5. CASE c.type # "icmp"
    <3> HIDE DEF c, seconds, n
    <3>1. n = serialize_probe_configuration(c, seconds)
      BY DEF n
    <3>2. serialize_probe_configuration(n, seconds) = n /\ DecodeConfiguration(n) /\ n.type # "icmp"
      BY <2>2, <2>5, <3>1, OthersNormalise
    <3> QED
      BY <2>2, <3>2 DEF SavedConfigurationRuns, seconds
  <2> QED
    BY <2>4, <2>5
<1> QED
  BY <1>1, RowsWereSubmitted, PTL

---------------------------------------------------------------------------
(* What is shown as time passes and results arrive. *)

\* A result the agent can report of the monitor is an observation.
LEMMA ReportsAreObservations ==
    ASSUME TypeOK, NEW report \in Reports
    PROVE  Stored(report) \in Observations
<1>1. running # None /\ DecodeConfiguration(monitor.configuration)
  BY DEF Reports
<1>2. running \in Nat /\ monitor.configuration \in Saved
  BY <1>1 DEF TypeOK, Optional, Rows
<1>3. PICK age \in 0..running, o \in Outcomes(monitor.configuration) :
          report = [age |-> age, outcome |-> o]
  BY <1>1 DEF Reports
<1> DEFINE outcomes == UNION {Outcomes(c) : c \in {d \in Saved : DecodeConfiguration(d)}}
<1>4. o \in outcomes
  BY <1>1, <1>2
<1>5. age \in Nat
  BY <1>2
<1>6. Stored(report) = [age |-> age, status |-> o.status, assessment |-> o.assessment,
                        result |-> o.result]
  BY <1>3 DEF Stored
<1> HIDE DEF outcomes
<1>7. Stored(report) \in [age : Nat, status : {x.status : x \in outcomes},
                          assessment : {x.assessment : x \in outcomes},
                          result : {x.result : x \in outcomes}]
  BY <1>4, <1>5, <1>6
<1> QED
  BY <1>7 DEF Observations, outcomes

\* Ages stay natural numbers as they grow.
LEMMA OlderIsAge ==
    ASSUME TypeOK, NEW age \in Optional(Nat)
    PROVE  /\ Older(age) \in Optional(Nat)
           /\ age = None => Older(age) = None
           /\ age # None => Older(age) \in Nat
  BY DEF Older, Optional

\* The types hold in every state, for every value of the settings.
THEOREM ReportingTypeCorrect == Spec => []TypeOK
<1>1. Init => TypeOK
  BY DEF Init, TypeOK, Optional
<1>2. TypeOK /\ [Next]_vars => TypeOK'
  <2> SUFFICES ASSUME TypeOK, [Next]_vars
               PROVE  TypeOK'
    OBVIOUS
  <2>1. CASE CreateMonitor
    <3>1. PICK s \in Submissions :
              LET n == serialize_probe_configuration(s.configuration, s.timeout * TickSeconds)
              IN  n # Refused /\ monitor' = Row(s, n)
      BY <2>1 DEF CreateMonitor
    <3> DEFINE n == serialize_probe_configuration(s.configuration, s.timeout * TickSeconds)
    <3>2. n \in Saved
      BY <3>1 DEF Saved
    <3>3. s.interval \in Nat /\ s.timeout \in Nat
      BY SubmissionsAreParsed
    <3>4. monitor' \in Rows
      BY <3>1, <3>2, <3>3 DEF Row, Rows
    <3>5. monitor' # None
      BY <3>4, NoneIsNoValue
    <3> QED
      BY <2>1, <3>4, <3>5 DEF CreateMonitor, TypeOK, Optional
  <2>2. CASE OtherChange
    BY <2>2 DEF OtherChange, TypeOK
  <2>3. CASE RevokeCredential
    BY <2>3 DEF RevokeCredential, TypeOK, revisions
  <2>4. CASE Activate
    BY <2>4, NoneIsNoValue DEF Activate, TypeOK, Optional
  <2>5. CASE Acknowledge
    BY <2>5 DEF Acknowledge, TypeOK
  <2>6. CASE Heartbeat
    BY <2>6 DEF Heartbeat, TypeOK, revisions, Optional
  <2>7. CASE UploadObservation
    <3>1. PICK report \in Reports : latest' = Newest(Stored(report))
      BY <2>7 DEF UploadObservation
    <3>2. latest' \in Optional(Observations)
      BY <3>1, ReportsAreObservations DEF Newest, TypeOK, Optional
    <3> QED
      BY <2>7, <3>2 DEF UploadObservation, TypeOK, revisions
  <2>8. CASE Tick
    <3>1. latest' \in Optional(Observations)
      <4>1. CASE latest = None
        BY <2>8, <4>1 DEF Tick, Optional
      <4>2. CASE latest # None
        <5>1. latest \in Observations
          BY <4>2 DEF TypeOK, Optional
        <5>2. latest.age \in Nat
          BY <5>1 DEF Observations
        <5>3. Older(latest.age) \in Nat
          BY <5>2, OlderIsAge, NoneIsNoValue DEF Optional
        <5>4. [latest EXCEPT !.age = Older(latest.age)] \in Observations
          BY <5>1, <5>3 DEF Observations
        <5> QED
          BY <2>8, <4>2, <5>4 DEF Tick, Optional
      <4> QED
        BY <4>1, <4>2
    <3>2. /\ running' \in Optional(Nat) /\ activated' \in Optional(Nat)
          /\ acknowledgedAt' \in Optional(Nat) /\ heartbeat' \in Optional(Nat)
          /\ running' # None => running # None
          /\ activated # None => activated' # None
      BY <2>8, OlderIsAge, NoneIsNoValue DEF Tick, TypeOK
    <3> QED
      BY <2>8, <3>1, <3>2 DEF Tick, TypeOK, revisions
  <2>9. CASE UNCHANGED vars
    BY <2>9 DEF vars, revisions, TypeOK
  <2> QED
    BY <2>1, <2>2, <2>3, <2>4, <2>5, <2>6, <2>7, <2>8, <2>9 DEF Next
<1> QED
  BY <1>1, <1>2, PTL DEF Spec

\* The agent's page and the dashboard agree on whether the agent is online,
\* for every choice of the intervals in the settings.
THEOREM StatusesAgree == Spec => []StatusAgrees
<1>1. TypeOK => StatusAgrees
  <2> SUFFICES ASSUME TypeOK, desired > 0, acknowledged >= desired
               PROVE  Online <=> Availability # "agent_offline"
    BY DEF StatusAgrees
  <2>1. ~(desired = 0 \/ acknowledged < desired)
    BY DEF TypeOK
  <2>2. OfflineAfter \in Nat
    BY SettingsArePositive
  <2>3. Assessed(latest) # "agent_offline"
    BY DEF Assessed
  <2>4. CASE heartbeat = None
    BY <2>1, <2>4 DEF Online, Availability
  <2>5. CASE heartbeat # None
    <3>1. heartbeat \in Nat
      BY <2>5 DEF TypeOK, Optional
    <3>2. Online <=> ~(heartbeat > OfflineAfter)
      BY <2>2, <2>5, <3>1 DEF Online
    <3> QED
      BY <2>1, <2>3, <2>5, <3>2 DEF Availability
  <2> QED
    BY <2>4, <2>5
<1> QED
  BY <1>1, ReportingTypeCorrect, PTL

\* An age that has passed a limit below the horizon stays past it.
LEMMA PastStaysPast ==
    ASSUME NEW age \in Nat, NEW limit \in Nat
    PROVE  age > limit => Older(age) > limit
  BY NoneIsNoValue DEF Older

\* Waiting alone never makes a monitor look better, for every choice of the
\* intervals in the settings and of the monitor's schedule.
THEOREM TimeDoesNotHeal == Spec => TimeNeverHeals
<1> DEFINE Heals == Tick => Availability' \in {Availability} \cup MayBecome(Availability)
<1>1. TypeOK /\ [Next]_vars => [Heals]_vars
  <2> SUFFICES ASSUME TypeOK, Tick
               PROVE  Availability' \in {Availability} \cup MayBecome(Availability)
    OBVIOUS
  <2>1. desired' = desired /\ acknowledged' = acknowledged /\ monitor' = monitor
    BY DEF Tick, revisions
  <2>2. CASE desired = 0 \/ acknowledged < desired
    BY <2>1, <2>2 DEF Availability
  <2>3. CASE ~(desired = 0 \/ acknowledged < desired)
    <3>1. monitor # None /\ Deadline \in Nat
      <4>1. monitor # None
        BY <2>3 DEF TypeOK
      <4>2. monitor.interval \in Nat /\ monitor.timeout \in Nat
        BY <4>1 DEF TypeOK, Optional, Rows
      <4>3. Grace \in Nat
        BY SettingsArePositive DEF Grace
      <4> QED
        BY <4>1, <4>2, <4>3 DEF Deadline
    <3>2. OfflineAfter \in Nat /\ StaleAfter \in Nat /\ StaleAfter <= OfflineAfter
      BY SettingsArePositive DEF StaleAfter
    <3>3. Deadline' = Deadline /\ StaleAfter' = StaleAfter
      BY <2>1 DEF Deadline, Grace, StaleAfter
    <3>4. CASE heartbeat = None
      BY <2>1, <2>3, <3>4 DEF Tick, Older, Availability
    <3>5. CASE heartbeat # None
      <4>1. heartbeat \in Nat /\ heartbeat' = Older(heartbeat)
        BY <3>5 DEF TypeOK, Optional, Tick
      <4>2. heartbeat' \in Nat /\ heartbeat' # None
        BY <3>5, <4>1, OlderIsAge, NoneIsNoValue DEF Optional
      <4>3. /\ heartbeat > OfflineAfter => heartbeat' > OfflineAfter
            /\ heartbeat > StaleAfter => heartbeat' > StaleAfter
        BY <3>2, <4>1, PastStaysPast
      <4> DEFINE Rest == IF latest = None THEN
                             IF acknowledgedAt = None \/ acknowledgedAt <= Deadline THEN "no_data_yet"
                             ELSE "overdue"
                         ELSE IF latest.age > Deadline THEN "overdue"
                         ELSE Assessed(latest)
      <4>4. Rest' \in {Rest, "overdue"}
        <5>1. CASE latest = None
          <6>1. latest' = None /\ acknowledgedAt' = Older(acknowledgedAt)
            BY <5>1 DEF Tick
          <6>2. CASE acknowledgedAt = None
            BY <5>1, <6>1, <6>2, <3>3 DEF Older
          <6>3. CASE acknowledgedAt # None
            <7>1. acknowledgedAt \in Nat
              BY <6>3 DEF TypeOK, Optional
            <7>2. acknowledgedAt' \in Nat /\ acknowledgedAt' # None
              BY <6>1, <7>1, OlderIsAge, NoneIsNoValue DEF Optional
            <7>3. acknowledgedAt > Deadline => acknowledgedAt' > Deadline
              BY <3>1, <6>1, <7>1, PastStaysPast
            <7> QED
              BY <3>1, <3>3, <5>1, <6>1, <6>3, <7>1, <7>2, <7>3
          <6> QED
            BY <6>2, <6>3
        <5>2. CASE latest # None
          <6>1. latest \in Observations /\ latest' = [latest EXCEPT !.age = Older(latest.age)]
            BY <5>2 DEF TypeOK, Optional, Tick
          <6>2. latest.age \in Nat
            BY <6>1 DEF Observations
          <6>3. Older(latest.age) \in Nat
            BY <6>2, OlderIsAge, NoneIsNoValue DEF Optional
          <6>4. latest' \in Observations /\ latest'.age = Older(latest.age)
                /\ latest'.status = latest.status /\ latest'.assessment = latest.assessment
            BY <6>1, <6>3 DEF Observations
          <6>5. latest' # None
            BY <6>4, NoneIsNoValue
          <6>6. latest.age > Deadline => latest'.age > Deadline
            BY <3>1, <6>2, <6>4, PastStaysPast
          <6>7. Assessed(latest)' = Assessed(latest)
            BY <6>4 DEF Assessed
          <6> QED
            BY <3>3, <5>2, <6>5, <6>6, <6>7
        <5> QED
          BY <5>1, <5>2
      <4>5. Rest \in {"no_data_yet", "overdue", "probe_error", "healthy", "unhealthy"}
        BY DEF Assessed
      <4> HIDE DEF Rest
      <4>6. Availability = IF heartbeat > OfflineAfter THEN "agent_offline"
                           ELSE IF heartbeat > StaleAfter THEN "agent_stale" ELSE Rest
        BY <2>3, <3>5 DEF Availability, Rest
      <4>7. Availability' = IF heartbeat' > OfflineAfter THEN "agent_offline"
                            ELSE IF heartbeat' > StaleAfter THEN "agent_stale" ELSE Rest'
        BY <2>1, <2>3, <3>3, <4>2 DEF Availability, Rest
      <4> QED
        BY <4>3, <4>4, <4>5, <4>6, <4>7 DEF MayBecome
    <3> QED
      BY <3>4, <3>5
  <2> QED
    BY <2>2, <2>3
<1> QED
  BY <1>1, ReportingTypeCorrect, PTL DEF Spec, TimeNeverHeals

\* A result that arrives late does not replace what a later execution of the
\* monitor has shown, whatever the order of the uploads.
THEOREM OnlyNewerShow == Spec => OnlyNewerResultsShow
<1> DEFINE Newer == ~Tick /\ latest # None => latest' # None /\ latest'.age <= latest.age
<1>1. TypeOK /\ [Next]_vars => [Newer]_vars
  <2> SUFFICES ASSUME TypeOK, Next, ~Tick, latest # None
               PROVE  latest' # None /\ latest'.age <= latest.age
    OBVIOUS
  <2>1. latest \in Observations /\ latest.age \in Nat
    BY DEF TypeOK, Optional, Observations
  <2>2. CASE UploadObservation
    <3>1. PICK report \in Reports : latest' = Newest(Stored(report))
      BY <2>2 DEF UploadObservation
    <3>2. Stored(report) \in Observations
      BY ReportsAreObservations
    <3> QED
      BY <2>1, <3>1, <3>2, NoneIsNoValue DEF Newest
  <2>3. CASE UNCHANGED latest
    BY <2>1, <2>3
  <2> QED
    BY <2>2, <2>3 DEF Next, CreateMonitor, OtherChange, RevokeCredential, Activate, Acknowledge,
                      Heartbeat
<1> QED
  BY <1>1, ReportingTypeCorrect, PTL DEF Spec, OnlyNewerResultsShow

---------------------------------------------------------------------------
(* What was stored can be read back. *)

\* What the history demands of an observation of a monitor of this type.
Readable(type, o) ==
    /\ TypedResultReads(type, o.result)
    /\ (o.status = "completed") = (o.result # None)
    /\ type = "icmp" => InIcmpHistory(type, o) = (o.status = "completed")

\* HistoryReadable, and that only a monitor that exists has observations.
ReadableInv == latest # None => monitor # None /\ Readable(monitor.configuration.type, latest)

\* Every outcome a probe can report is Failed or completed, and that of a TLS probe says
\* whether there was a certificate.
LEMMA OutcomeKinds ==
    ASSUME NEW c, NEW o \in Outcomes(c)
    PROVE  \/ o = Failed
           \/ /\ o.status = "completed"
              /\ c.type \notin {"icmp", "http", "tcp", "dns"} =>
                     o.result.certificate_present \in BOOLEAN
<1>0. \A healthy, result : Completed(healthy, result).status = "completed"
  BY DEF Completed
<1>1. CASE o \in IcmpOutcomes(c) /\ c.type = "icmp"
  BY <1>1, <1>0, Zenon DEF IcmpOutcomes
<1>2. CASE o \in HttpOutcomes(c) /\ c.type = "http"
  BY <1>2 DEF HttpOutcomes, Completed
<1>3. CASE o \in TcpOutcomes(c) /\ c.type = "tcp"
  BY <1>3, <1>0, Zenon DEF TcpOutcomes
<1>4. CASE o \in DnsOutcomes(c) /\ c.type = "dns"
  BY <1>4, <1>0, Zenon DEF DnsOutcomes
<1>5. CASE o \in TlsOutcomes(c)
  <2> DEFINE Result(present, days) ==
                 [port |-> c.port, certificate_present |-> present,
                  not_before |-> IF present THEN 0 ELSE None, not_after |-> days]
  <2>1. \/ o = Completed(FALSE, Result(FALSE, None))
        \/ \E days : o = Completed(days > c.expiry_warning_days, Result(TRUE, days))
    BY <1>5, ZenonT(30) DEF TlsOutcomes
  <2>2. \A healthy, days : \A present \in BOOLEAN :
            /\ Completed(healthy, Result(present, days)).status = "completed"
            /\ Completed(healthy, Result(present, days)).result.certificate_present = present
    BY DEF Completed
  <2> HIDE DEF Result
  <2>3. CASE o = Completed(FALSE, Result(FALSE, None))
    BY <2>2, <2>3, Zenon
  <2>4. ASSUME NEW days, o = Completed(days > c.expiry_warning_days, Result(TRUE, days))
        PROVE  o.status = "completed" /\ o.result.certificate_present \in BOOLEAN
    BY <2>2, <2>4
  <2> QED BY <2>1, <2>3, <2>4, Zenon
<1> QED BY <1>1, <1>2, <1>3, <1>4, <1>5 DEF Outcomes

\* The limits of a port number are limits of an integer.
LEMMA PortsAreIntegers == Ports \subseteq Int
  BY SMT DEF Ports

\* A result that both the upload's schema and the typed table take can be read back.
LEMMA AcceptedIsReadable ==
    ASSUME NEW type, NEW o, AgentObservation(type, o), InsertsTypedResult(type, o.result),
           o.status \in {"failed", "completed"},
           o.status # "failed" /\ type = "tls" => o.result.certificate_present \in BOOLEAN
    PROVE  Readable(type, o)
<1>1. CASE o.status = "failed"
  <2>1. o.result = None
    BY <1>1 DEF AgentObservation
  <2>2. o.status # "completed"
    BY <1>1
  <2> QED BY <2>1, <2>2, Zenon DEF Readable, TypedResultReads, InIcmpHistory
<1>2. CASE o.status # "failed"
  <2>1. o.status = "completed" /\ o.result # None
    BY <1>2 DEF AgentObservation
  <2>2. \/ type = "icmp" /\ icmp_results(o.result)
        \/ type = "http" /\ HttpObservationResult(o.result)
        \/ type = "tcp" /\ tcp_results(o.result)
        \/ type = "dns" /\ dns_results(o.result)
        \/ type = "tls" /\ tls_results(o.result) /\ o.result.certificate_present \in BOOLEAN
    <3>1. /\ type = "icmp" => icmp_results(o.result)
          /\ type = "tcp" => tcp_results(o.result)
          /\ type = "dns" => dns_results(o.result)
          /\ type = "tls" => tls_results(o.result)
      BY <2>1 DEF InsertsTypedResult
    <3>2. \/ type \in {"icmp", "tcp", "dns", "tls"}
          \/ type = "http" /\ HttpObservationResult(o.result)
      BY <1>2 DEF AgentObservation
    <3> QED BY <1>2, <3>1, <3>2
  <2> DEFINE r == o.result
  <2>3. TypedResultReads(type, r)
    <3>1. CASE type = "icmp" /\ icmp_results(r)
      <4>1. r.packets_sent \in Int
        BY <3>1 DEF icmp_results
      <4>2. r.packets_received \in Int /\ r.rtt_samples_ms \in Int
        BY <3>1, <4>1 DEF icmp_results
      <4> QED BY <3>1, <4>1, <4>2, NoneIsNoValue, Zenon DEF TypedResultReads
    <3>2. CASE type = "http" /\ HttpObservationResult(r)
      <4>1. r.method \in Methods /\ r.scheme \in Schemes /\ r.redirect_count \in Int
        BY <3>2 DEF HttpObservationResult
      <4> QED BY <3>2, <4>1, NoneIsNoValue, Zenon DEF TypedResultReads
    <3>3. CASE type = "tcp" /\ tcp_results(r)
      <4>1. r.port \in Int
        BY <3>3, PortsAreIntegers, Zenon DEF tcp_results
      <4> QED BY <3>3, <4>1, NoneIsNoValue, Zenon DEF TypedResultReads
    <3>4. CASE type = "dns" /\ dns_results(r)
      BY <3>4, Zenon DEF dns_results, TypedResultReads, DnsProbeResult
    <3>5. CASE type = "tls" /\ tls_results(r) /\ r.certificate_present \in BOOLEAN
      <4>1. r.port \in Int
        BY <3>5, PortsAreIntegers, Zenon DEF tls_results
      <4> QED BY <3>5, <4>1, NoneIsNoValue, Zenon DEF TypedResultReads
    <3> QED BY <2>2, <3>1, <3>2, <3>3, <3>4, <3>5, Zenon
  <2> QED BY <2>1, <2>3, Zenon DEF Readable, InIcmpHistory
<1> QED BY <1>1, <1>2

\* Whatever was stored can be shown, for every configuration of every probe type, every
\* outcome of its probe and every order of uploads (upload_observations, the typed tables'
\* constraints, the dashboard's schemas).
THEOREM HistoryIsReadable == Spec => []HistoryReadable
<1>1. Init => ReadableInv
  BY DEF Init, ReadableInv
<1>2. TypeOK /\ ReadableInv /\ [Next]_vars => ReadableInv'
  <2> SUFFICES ASSUME TypeOK, ReadableInv, [Next]_vars PROVE ReadableInv'
    OBVIOUS
  <2>1. CASE UNCHANGED <<monitor, latest>>
    BY <2>1 DEF ReadableInv
  <2>2. CASE CreateMonitor
    BY <2>2 DEF CreateMonitor, ReadableInv
  <2>3. CASE UploadObservation
    <3>1. PICK report \in Reports : Accepted(report.outcome) /\ latest' = Newest(Stored(report))
      BY <2>3 DEF UploadObservation
    <3>2. monitor # None /\ report.outcome \in Outcomes(monitor.configuration)
      BY DEF Reports, TypeOK
    <3>3. Readable(monitor.configuration.type, report.outcome)
      <4> DEFINE c == monitor.configuration
                 o == report.outcome
      <4>1. AgentObservation(c.type, o) /\ InsertsTypedResult(c.type, o.result)
        BY <3>1 DEF Accepted
      <4>2. \/ o = Failed
            \/ /\ o.status = "completed"
               /\ c.type \notin {"icmp", "http", "tcp", "dns"} =>
                      o.result.certificate_present \in BOOLEAN
        BY <3>2, OutcomeKinds, Zenon
      <4>3. /\ o.status \in {"failed", "completed"}
            /\ o.status # "failed" /\ c.type = "tls" => o.result.certificate_present \in BOOLEAN
        BY <4>2 DEF Failed
      <4> QED BY <4>1, <4>3, AcceptedIsReadable, Zenon
    <3>4. Stored(report).status = report.outcome.status /\ Stored(report).result = report.outcome.result
      BY DEF Stored
    <3>5. Readable(monitor.configuration.type, Stored(report))
      BY <3>3, <3>4, Zenon DEF Readable, InIcmpHistory
    <3>6. monitor' = monitor
      BY <2>3 DEF UploadObservation
    <3> QED BY <3>1, <3>2, <3>5, <3>6 DEF Newest, ReadableInv
  <2>4. CASE Tick
    <3>1. CASE latest = None
      BY <2>4, <3>1 DEF Tick, ReadableInv
    <3>2. CASE latest # None
      <4>1. latest \in Observations
        BY <3>2 DEF TypeOK, Optional
      <4>2. latest'.status = latest.status /\ latest'.result = latest.result
        BY <2>4, <3>2, <4>1 DEF Tick, Observations
      <4>3. monitor' = monitor
        BY <2>4 DEF Tick
      <4> QED BY <3>2, <4>2, <4>3, Zenon DEF ReadableInv, Readable, InIcmpHistory
    <3> QED BY <3>1, <3>2
  <2> QED BY <2>1, <2>2, <2>3, <2>4
          DEF Next, vars, OtherChange, RevokeCredential, Activate, Acknowledge, Heartbeat
<1>3. ReadableInv => HistoryReadable
  BY Zenon DEF ReadableInv, Readable, HistoryReadable
<1> QED BY <1>1, <1>2, <1>3, ReportingTypeCorrect, PTL DEF Spec
=============================================================================
