--------------------------- MODULE ProbeContracts ---------------------------
(***************************************************************************)
(* What the two programs demand of a probe's configuration and of its      *)
(* result.  A configuration is checked and normalised by the control plane *)
(* when a monitor is saved, and decoded by the agent before it runs.  A    *)
(* result is made by the agent's probe, checked by the upload's schema,    *)
(* stored in the typed table of its probe type and read back by the        *)
(* dashboard's schema.  Of each the fields are kept that one side can      *)
(* refuse or that decide the assessment; names, addresses and host names   *)
(* are kept as the class the checks put them in.                           *)
(***************************************************************************)
EXTENDS Integers, FiniteSets

CONSTANT None   \* an absent value: None, NULL, nil, JSON null

\* No configuration is saved: the request is answered with an error.
Refused == None

Optional(S) == S \cup {None}

\* An integer field with a lower and an upper limit.
Within(x, lowest, highest) == x \in Int /\ lowest <= x /\ x <= highest

Schemes == {"http", "https"}
Methods == {"GET", "HEAD"}
Ports == 1..65535

---------------------------------------------------------------------------
(* Configurations, as the control plane checks them. *)

IcmpProbeConfiguration(c) ==
    /\ Within(c.packet_count, 1, 100)
    /\ Within(c.packet_interval_ms, 10, 1000)
    /\ c.per_packet_timeout_ms = None \/ Within(c.per_packet_timeout_ms, 1, 60000)
    /\ c.maximum_packet_loss_percent = None \/ Within(c.maximum_packet_loss_percent, 0, 100)

\* A host header of digits and dots passes: each of its labels is a valid label.
HttpProbeConfiguration(c) ==
    /\ c.scheme \in Schemes
    /\ c.method \in Methods
    /\ Within(c.maximum_redirects, 0, 10)
    /\ c.host_header \in {None, "hostname", "address"}
    /\ c.request_header \in {None, "permitted"}
    /\ c.expected_status_codes # {}
    /\ \A code \in c.expected_status_codes : Within(code, 100, 599)
    /\ Within(c.expected_body_contains, 0, 16)

TcpProbeConfiguration(c) == c.port \in Ports

DnsProbeConfiguration(c) ==
    \/ c.resolver_mode = "explicit" /\ c.resolver_address = "address"
    \/ /\ c.resolver_mode = "system" /\ c.resolver_address = None
       /\ c.transport = "udp_with_tcp_fallback"

TlsProbeConfiguration(c) ==
    /\ c.port \in Ports
    /\ c.server_name \in {None, "hostname"}
    /\ Within(c.expiry_warning_days, 0, 3650)

validate_probe_configuration(c) ==
    \/ c.type = "icmp" /\ IcmpProbeConfiguration(c)
    \/ /\ c.type = "http" /\ HttpProbeConfiguration(c)
       /\ ~(c.method = "HEAD" /\ c.expected_body_contains > 0)
    \/ c.type = "tcp" /\ TcpProbeConfiguration(c)
    \/ c.type = "dns" /\ DnsProbeConfiguration(c)
    \/ c.type = "tls" /\ TlsProbeConfiguration(c)

\* The time an ICMP sequence leaves for the last packet's answer.
AvailableMS(c, seconds) == seconds * 1000 - (c.packet_count - 1) * c.packet_interval_ms

PacketTimeoutMS(c, seconds) ==
    IF c.per_packet_timeout_ms = None THEN AvailableMS(c, seconds) ELSE c.per_packet_timeout_ms

\* serialize_probe_configuration without the check that the sequence fits.
serializeUnchecked(c, seconds) ==
    IF ~validate_probe_configuration(c) THEN Refused
    ELSE IF c.type # "icmp" THEN c
    ELSE [c EXCEPT !.per_packet_timeout_ms = PacketTimeoutMS(c, seconds)]

serialize_probe_configuration(c, seconds) ==
    IF ~validate_probe_configuration(c) THEN Refused
    ELSE IF c.type # "icmp" THEN c
    ELSE IF AvailableMS(c, seconds) < 1 \/ PacketTimeoutMS(c, seconds) > AvailableMS(c, seconds)
    THEN Refused
    ELSE [c EXCEPT !.per_packet_timeout_ms = PacketTimeoutMS(c, seconds)]

---------------------------------------------------------------------------
(* Configurations, as the agent decodes them. *)

DecodesIcmp(c) ==
    /\ Within(c.packet_count, 1, 100)
    /\ Within(c.packet_interval_ms, 10, 1000)
    /\ c.per_packet_timeout_ms = None \/ Within(c.per_packet_timeout_ms, 0, 60000)

DecodesHttp(c) ==
    /\ c.scheme \in Schemes /\ c.method \in Methods
    /\ Within(c.maximum_redirects, 0, 10)
    /\ c.host_header \in {None, "hostname"}
    /\ c.request_header \in {None, "permitted"}
    /\ \A code \in c.expected_status_codes : Within(code, 100, 599)
    /\ ~(c.method = "HEAD" /\ c.expected_body_contains > 0)

DecodesDns(c) ==
    IF c.resolver_mode = "explicit" THEN c.resolver_address = "address"
    ELSE c.resolver_address = None /\ c.transport = "udp_with_tcp_fallback"

DecodesTls(c) == c.port \in Ports /\ c.server_name \in {None, "hostname"}

DecodeConfiguration(c) ==
    \/ c.type = "icmp" /\ DecodesIcmp(c)
    \/ c.type = "http" /\ DecodesHttp(c)
    \/ c.type = "tcp" /\ c.port \in Ports
    \/ c.type = "dns" /\ DecodesDns(c)
    \/ c.type = "tls" /\ DecodesTls(c)

\* The redirects the agent follows: its zero is "not set".
FollowedRedirects(c) == IF c.maximum_redirects = 0 THEN 5 ELSE c.maximum_redirects

---------------------------------------------------------------------------
(* What a probe can report. *)

Failed == [status |-> "failed", assessment |-> "unknown", result |-> None]

Completed(healthy, result) ==
    [status |-> "completed", assessment |-> IF healthy THEN "healthy" ELSE "unhealthy",
     result |-> result]

\* Assess: some packet answered, and no more lost than the monitor allows.
AssessIcmp(c, r) ==
    /\ r.packets_received > 0
    /\ \/ c.maximum_packet_loss_percent = None
       \/ 100 * (r.packets_sent - r.packets_received)
              <= c.maximum_packet_loss_percent * r.packets_sent

IcmpOutcomes(c) ==
    LET Result(k) == [packets_sent |-> c.packet_count, packets_received |-> k,
                      rtt_samples_ms |-> k, min_rtt_ms |-> IF k = 0 THEN None ELSE "ms"]
    IN  {Completed(AssessIcmp(c, Result(k)), Result(k)) : k \in {0, 1, c.packet_count}}

\* Not connected, redirected too often, or answered; 999 is a status some servers send.
HttpOutcomes(c) ==
    LET Result(code, redirects, total, failed) ==
            [method |-> c.method, scheme |-> c.scheme, status_code |-> code,
             redirect_count |-> redirects, assertions_total |-> total, assertions_failed |-> failed]
        Total == 1 + c.expected_body_contains
        Misses(code) == IF code \in c.expected_status_codes THEN 0 ELSE 1
    IN  {Completed(FALSE, Result(None, 0, 0, 0)),
         Completed(FALSE, Result(None, FollowedRedirects(c) + 1, 0, 0))}
            \cup {Completed(Misses(code) = 0, Result(code, 0, Total, Misses(code)))
                      : code \in {200, 404, 999}}

\* A connection that is refused or times out has no address to report.
TcpOutcomes(c) ==
    {Completed(address # None, [port |-> c.port, address_used |-> address])
         : address \in {None, "address"}}

\* The platform's resolver is not known to the agent.  A name it does not
\* find leaves the answers nil; an explicit resolver's answers are never nil.
DnsOutcomes(c) ==
    LET Result(answers, failed) ==
            [resolver_address |-> c.resolver_address, answers |-> answers,
             answer_count |-> IF answers = None THEN 0 ELSE answers,
             assertions_total |-> 1, assertions_failed |-> failed]
    IN  {Completed(TRUE, Result(1, 0)),
         Completed(FALSE, Result(IF c.resolver_mode = "system" THEN None ELSE 0, 1))}

\* days: what remains of the certificate's life, counted from a valid start.
TlsOutcomes(c) ==
    LET Result(present, days) ==
            [port |-> c.port, certificate_present |-> present,
             not_before |-> IF present THEN 0 ELSE None, not_after |-> days]
    IN  {Completed(FALSE, Result(FALSE, None))}
            \cup {Completed(days > c.expiry_warning_days, Result(TRUE, days))
                      : days \in {c.expiry_warning_days, c.expiry_warning_days + 1}}

Outcomes(c) ==
    {Failed}
        \cup (IF c.type = "icmp" THEN IcmpOutcomes(c)
              ELSE IF c.type = "http" THEN HttpOutcomes(c)
              ELSE IF c.type = "tcp" THEN TcpOutcomes(c)
              ELSE IF c.type = "dns" THEN DnsOutcomes(c)
              ELSE TlsOutcomes(c))

---------------------------------------------------------------------------
(* Results, as the upload's schema checks them. *)

IcmpObservationResult(r) ==
    /\ r.packets_sent \in 1..100 /\ r.packets_received \in 0..100
    /\ r.packets_received <= r.packets_sent
    /\ r.rtt_samples_ms = r.packets_received

HttpObservationResult(r) ==
    /\ r.method \in Methods /\ r.scheme \in Schemes
    /\ r.status_code \in Optional(100..599)
    /\ r.redirect_count \in 0..20
    /\ r.assertions_failed <= r.assertions_total /\ r.assertions_total <= 100

TcpObservationResult(r) == r.port \in Ports /\ r.address_used \in {None, "address"}

DnsObservationResult(r) ==
    /\ r.resolver_address \in {None, "address"}
    /\ r.answers \in 0..100 /\ r.answer_count = r.answers
    /\ r.assertions_failed <= r.assertions_total /\ r.assertions_total <= 100

TlsObservationResult(r) ==
    /\ r.port \in Ports
    /\ None \notin {r.not_before, r.not_after} => r.not_after >= r.not_before

\* A completed observation has the result of its type, a failed one has none.
AgentObservation(type, o) ==
    IF o.status = "failed" THEN o.result = None
    ELSE /\ o.result # None
         /\ \/ type = "icmp" /\ IcmpObservationResult(o.result)
            \/ type = "http" /\ HttpObservationResult(o.result)
            \/ type = "tcp" /\ TcpObservationResult(o.result)
            \/ type = "dns" /\ DnsObservationResult(o.result)
            \/ type = "tls" /\ TlsObservationResult(o.result)

---------------------------------------------------------------------------
(* Results, as the constraints of the typed tables check them. *)

icmp_results(r) ==
    /\ r.packets_sent \in 1..100
    /\ r.packets_received \in 0..r.packets_sent
    /\ r.rtt_samples_ms = r.packets_received

http_results(r) ==
    /\ r.method \in Methods /\ r.scheme \in Schemes
    /\ r.status_code \in Optional(100..599)
    /\ r.redirect_count >= 0
    /\ r.assertions_failed \in 0..r.assertions_total

tcp_results(r) == r.port \in Ports /\ r.address_used # None

\* dns_results whose resolver_address may be NULL.
dnsResultsNullable(r) ==
    r.answer_count >= 0 /\ r.answers # None /\ r.assertions_failed \in 0..r.assertions_total

dns_results(r) ==
    /\ r.resolver_address # None
    /\ r.answer_count >= 0 /\ r.answers # None
    /\ r.assertions_failed \in 0..r.assertions_total

tls_results(r) ==
    /\ r.port \in Ports
    /\ None \notin {r.not_before, r.not_after} => r.not_after >= r.not_before

\* _insert_typed_result: nothing to insert, or a row its table takes.
InsertsTypedResult(type, r) ==
    r # None =>
        \/ type = "icmp" /\ icmp_results(r)
        \/ type = "http" /\ http_results(r)
        \/ type = "tcp" /\ tcp_results(r)
        \/ type = "dns" /\ dns_results(r)
        \/ type = "tls" /\ tls_results(r)

---------------------------------------------------------------------------
(* Results, as the dashboard reads them back. *)

DnsProbeResult(r) == r.resolver_address # None /\ r.answers # None

\* _typed_result: a missing row is no result, a row must satisfy its schema.
TypedResultReads(type, r) ==
    r # None =>
        \/ type = "icmp" /\ None \notin {r.packets_sent, r.packets_received, r.rtt_samples_ms}
        \/ type = "http" /\ None \notin {r.method, r.scheme, r.redirect_count}
        \/ type = "tcp" /\ r.port # None
        \/ type = "dns" /\ DnsProbeResult(r)
        \/ type = "tls" /\ None \notin {r.port, r.certificate_present}

\* query_icmp_history joins the typed row: an observation without one is left out.
InIcmpHistory(type, o) == type = "icmp" /\ o.result # None
=============================================================================
