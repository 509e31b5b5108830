------------------------- MODULE MCMonitorReporting -------------------------
(***************************************************************************)
(* Submissions for model checking: for each probe type the configurations  *)
(* the checks tell apart, with a timeout of one tick (30 seconds) and, for *)
(* ICMP, one of three ticks, which is longer than a packet may wait.       *)
(***************************************************************************)
EXTENDS MonitorReporting

Icmp(count, gap, wait, loss) ==
    [type |-> "icmp", packet_count |-> count, packet_interval_ms |-> gap,
     per_packet_timeout_ms |-> wait, maximum_packet_loss_percent |-> loss]

Http(method, redirects, host, body) ==
    [type |-> "http", scheme |-> "https", method |-> method, maximum_redirects |-> redirects,
     host_header |-> host, request_header |-> None, expected_status_codes |-> {200},
     expected_body_contains |-> body]

Dns(mode, address, transport) ==
    [type |-> "dns", resolver_mode |-> mode, resolver_address |-> address,
     transport |-> transport]

Tls(name) ==
    [type |-> "tls", port |-> 443, server_name |-> name, expiry_warning_days |-> 30]

\* The sequence of 31 packets takes all of the 30 seconds; that of 30 leaves one.
Configurations ==
    {Icmp(31, 1000, None, None), Icmp(30, 1000, None, 0), Icmp(30, 1000, 1001, None),
     Icmp(2, 50, 60001, None)}
        \cup {Http("GET", 0, "hostname", 1), Http("HEAD", 10, None, 1),
              Http("GET", 5, "address", 0)}
        \cup {[type |-> "tcp", port |-> p] : p \in {0, 65535}}
        \cup {Dns("system", None, "udp_with_tcp_fallback"), Dns("system", None, "tcp"),
              Dns("explicit", "address", "tcp"), Dns("explicit", None, "tcp")}
        \cup {Tls("hostname"), Tls("address")}

MCSubmissions ==
    {[interval |-> 2, timeout |-> 1, configuration |-> c] : c \in Configurations}
        \cup {[interval |-> 4, timeout |-> 3, configuration |-> Icmp(20, 50, None, None)],
              [interval |-> 1, timeout |-> 1, configuration |-> Tls("hostname")]}
=============================================================================
