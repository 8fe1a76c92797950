----------------------------- MODULE Bootstrap -----------------------------
(***************************************************************************)
(* process_bootstrap: the Envoy configuration of a run.  One cluster per   *)
(* worker leads to the targets, or, when tunnelling, to the listener of an *)
(* encapsulating Envoy whose only cluster leads to the tunnel.             *)
(***************************************************************************)
EXTENDS Options

CONSTANT Resolvable   \* pairs <<host, family>> that DNS resolves

\* UriImpl::resolve with translateFamilyOptionString.
resolve(uri, family) ==
    IF family = "auto" THEN \E f \in {"v4", "v6"} : <<uri.host, f>> \in Resolvable
    ELSE <<uri.host, family>> \in Resolvable

Map(s, Op(_)) == [i \in DOMAIN s |-> Op(s[i])]

TargetUris(o) ==
    IF o.uri # <<>> THEN <<UriImpl(o.uri[1], "http")>>
    ELSE LET Target(e) == [scheme |-> IF o.multi_target_use_https THEN "https" ELSE "http",
                           host |-> e.host, port |-> e.port]
         IN  Map(o.multi_target_endpoints, Target)

EncapUris(o) ==
    IF Tunnelling(o)
    THEN <<[scheme |-> "https", host |-> "localhost", port |-> o.encap_port]>> ELSE <<>>

RequestSourceUris(o) == Map(o.request_source, LAMBDA uri : UriImpl(uri, "http"))

extractAndResolveUrisFromOptions(o) ==
    LET uris == TargetUris(o) \o EncapUris(o) \o RequestSourceUris(o)
    IN  \A i \in DOMAIN uris : isValid(uris[i]) /\ resolve(uris[i], o.address_family)

Endpoint(uri) == [host |-> uri.host, port |-> uri.port]

\* A Host header, or :authority from HTTP/2 on, overrides the host of a single target.
computeSniHost(uris, headers, proto) ==
    LET names(h) == h.key = "host" \/ (h.key = ":authority" /\ proto \in {"http2", "http3"})
        hosts    == SelectSeq(headers, names)
        n        == Len(hosts)
        uri_sni  == IF Len(uris) = 1 THEN uris[1].host ELSE ""
    IN  CASE \E i \in 1..(n - 1) : hosts[i].value # "" -> ""
          [] n > 0 /\ hosts[n].value # "" /\ \A i \in 1..(n - 1) : hosts[i].value = "" ->
                hosts[n].value
          [] OTHER -> uri_sni

needTransportSocket(o) == TargetUris(o)[1].scheme = "https" \/ o.transport_socket # <<>>

createTransportSocket(o) ==
    IF o.transport_socket # <<>> THEN [custom |-> o.transport_socket[1]]
    ELSE [name |-> IF protocol(o) = "http3" THEN "quic" ELSE "tls", alpn |-> protocol(o),
          context |-> o.tls_context,
          sni |-> computeSniHost(TargetUris(o), o.request_headers, protocol(o))]

createCircuitBreakers(o) ==
    [max_retries |-> 0, max_connections |-> o.connections,
     max_pending_requests |-> IF o.max_pending_requests = 0 THEN 1 ELSE o.max_pending_requests,
     max_requests |-> o.max_active_requests]

\* Mutation: the workers keep talking to the target when tunnelling.
createNighthawkClusterForWorker_Direct(o, worker) ==
    [name |-> worker, endpoints |-> Map(TargetUris(o), Endpoint), protocol |-> protocol(o)]

createNighthawkClusterForWorker(o, worker) ==
    [name |-> worker,
     connect_timeout |-> o.timeout,
     max_requests_per_connection |-> o.max_requests_per_connection,
     protocol |-> protocol(o),
     streams |-> CASE protocol(o) = "http1" -> <<>>
                   [] protocol(o) = "http3" /\ o.http3_protocol_options # <<>> ->
                        o.http3_protocol_options
                   [] OTHER -> <<o.max_concurrent_streams>>,
     circuit_breakers |-> createCircuitBreakers(o),
     endpoints |-> Map(IF Tunnelling(o) THEN EncapUris(o) ELSE TargetUris(o), Endpoint),
     transport_socket |->
        IF needTransportSocket(o) THEN <<createTransportSocket(o)>> ELSE <<>>]

createRequestSourceClusterForWorker(o, worker) ==
    [name |-> <<worker, "requestsource">>, protocol |-> "http2",
     connect_timeout |-> o.timeout, endpoints |-> Map(RequestSourceUris(o), Endpoint)]

createBootstrapConfiguration(o, number_of_workers) ==
    [clusters |-> [w \in 1..number_of_workers |-> createNighthawkClusterForWorker(o, w)],
     request_source |-> IF o.request_source = <<>> THEN <<>>
        ELSE [w \in 1..number_of_workers |-> createRequestSourceClusterForWorker(o, w)],
     stats_sinks |-> o.stats_sinks, stats_flush_interval |-> StatsFlush(o),
     upstream_bind_config |-> o.upstream_bind_config]

(***************************************************************************)
(* createEncapBootstrap, for the encapsulating Envoy.                      *)
(***************************************************************************)
createEncapBootstrap(o) ==
    [listener |-> [host |-> "localhost", port |-> o.encap_port],
     udp |-> protocol(o) = "http3",
     protocol |-> o.tunnel_protocol,
     transport_socket |-> Map(o.tunnel_tls_context, LAMBDA context :
        [name |-> IF o.tunnel_protocol = "http3" THEN "quic" ELSE "tls",
         context |-> context]),
     cluster |-> Map(o.tunnel_uri, LAMBDA uri : Endpoint(UriImpl(uri, "http")))]
=============================================================================
