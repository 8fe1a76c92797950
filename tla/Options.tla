------------------------------ MODULE Options ------------------------------
(***************************************************************************)
(* OptionsImpl: the options of a run, from a command line or from the      *)
(* CommandLineOptions proto of a gRPC request, and their conversion back   *)
(* to that proto, which is how they travel to a remote service and into a  *)
(* report.  Options are a record with the fields of OptionsImpl; a command *)
(* line and a proto are functions on the fields they mention.  A value     *)
(* that may be missing is a sequence of length 0 or 1; JSON and other      *)
(* parsed payloads are opaque, and a command line lists the flags whose    *)
(* text does not parse.                                                    *)
(***************************************************************************)
EXTENDS Integers, Sequences

CONSTANTS
    LargestUint32,    \* largest_acceptable_uint32_option_value
    LargestStreams,   \* largest_acceptable_concurrent_streams_value
    LargestRate,      \* the bound of options.proto on rates, connections and bursts
    LargestBody,      \* its bound on request_body_size
    LargestFlush      \* its bound on stats_flush_interval

NoPredicates == [name \in {} |-> 0]
DefaultFailurePredicates ==
    [name \in {"benchmark.http_4xx", "benchmark.http_5xx", "benchmark.pool_connection_failure",
               "benchmark.stream_resets", "requestsource.upstream_rq_5xx"} |-> 0]

\* The defaults of options_impl.h and setNonTrivialDefaults.
Defaults ==
    [requests_per_second |-> 5, connections |-> 100, duration |-> 5, timeout |-> 30,
     uri |-> <<>>, h2 |-> FALSE, protocol |-> "http1", http3_protocol_options |-> <<>>,
     concurrency |-> <<1>>, tunnel_protocol |-> "http1", tunnel_uri |-> <<>>,
     encap_port |-> 0, tunnel_tls_context |-> <<>>, verbosity |-> "warn",
     output_format |-> "json", prefetch_connections |-> FALSE, burst_size |-> 0,
     address_family |-> "auto", request_method |-> "get", request_headers |-> <<>>,
     request_body_size |-> 0, tls_context |-> <<>>, upstream_bind_config |-> <<>>,
     transport_socket |-> <<>>, request_source_plugin_config |-> <<>>,
     rate_limiter_plugin_config |-> <<>>, max_pending_requests |-> 0,
     max_active_requests |-> 100, max_requests_per_connection |-> LargestUint32,
     max_concurrent_streams |-> LargestStreams, sequencer_idle_strategy |-> "spin",
     request_source |-> <<>>, trace |-> <<>>,
     experimental_h1_connection_reuse_strategy |-> "mru",
     termination_predicates |-> NoPredicates,
     failure_predicates |-> DefaultFailurePredicates,
     no_default_failure_predicates |-> FALSE, open_loop |-> FALSE, jitter_uniform |-> 0,
     nighthawk_service |-> <<>>, multi_target_endpoints |-> <<>>, multi_target_path |-> "",
     multi_target_use_https |-> FALSE, labels |-> <<>>, simple_warmup |-> FALSE,
     no_duration |-> FALSE, stats_sinks |-> <<>>, stats_flush_interval |-> 5,
     stats_flush_interval_duration |-> 0, latency_response_header_name |-> "",
     scheduled_start |-> <<>>, execution_id |-> <<>>, user_defined_plugin_configs |-> <<>>]

(***************************************************************************)
(* UriImpl.  A URI is written with or without a scheme and a port.         *)
(***************************************************************************)
DefaultPort(scheme) == CASE scheme = "https" -> 443 [] scheme = "grpc" -> 8443 [] OTHER -> 80

UriImpl(uri, default_scheme) ==
    LET scheme == IF uri.scheme = <<>> THEN default_scheme ELSE uri.scheme[1]
    IN  [scheme |-> scheme, host |-> uri.host,
         port |-> IF uri.port = <<>> THEN DefaultPort(scheme) ELSE uri.port[1]]

\* The constructor throws on no host, a port that does not parse, and what isValid refuses.
isValid(uri) ==
    /\ uri.scheme \in {"http", "https", "zipkin", "grpc"}
    /\ uri.port \in 1..65535
    /\ uri.host \notin {"", "-"}

(***************************************************************************)
(* toCommandLineOptionsInternal: the fields it writes.  It never writes    *)
(* the tunnel options.                                                     *)
(***************************************************************************)
Plain ==
    {"requests_per_second", "connections", "timeout", "concurrency", "verbosity",
     "output_format", "prefetch_connections", "burst_size", "address_family",
     "max_pending_requests", "max_active_requests", "max_requests_per_connection",
     "max_concurrent_streams", "sequencer_idle_strategy", "trace",
     "experimental_h1_connection_reuse_strategy", "termination_predicates",
     "failure_predicates", "no_default_failure_predicates", "open_loop",
     "nighthawk_service", "labels", "simple_warmup", "stats_sinks",
     "latency_response_header_name", "user_defined_plugin_configs"}

Optional ==
    {"http3_protocol_options", "rate_limiter_plugin_config", "tls_context",
     "upstream_bind_config", "transport_socket", "scheduled_start", "execution_id"}

\* The body size is written in the loop over the headers.
RequestFields(o) ==
    CASE o.request_source # <<>> -> {"request_source"}
      [] o.request_source = <<>> /\ o.request_source_plugin_config # <<>> ->
            {"request_source_plugin_config"}
      [] OTHER -> {"request_method", "request_headers"} \cup
                  {f \in {"request_body_size"} : o.request_headers # <<>>}

TargetFields(o) ==
    IF o.uri # <<>> THEN {"uri"}
    ELSE {"multi_target_path", "multi_target_use_https", "multi_target_endpoints"}

toCommandLineOptions(o) ==
    [f \in Plain \cup {g \in Optional : o[g] # <<>>}
           \cup RequestFields(o) \cup TargetFields(o)
           \cup {IF o.no_duration THEN "no_duration" ELSE "duration"}
           \cup {IF o.h2 THEN "h2" ELSE "protocol"}
           \cup {g \in {"jitter_uniform"} : o.jitter_uniform > 0}
           \cup {IF o.stats_flush_interval_duration > 0
                 THEN "stats_flush_interval_duration" ELSE "stats_flush_interval"}
     |-> o[f]]

\* A header without a colon throws.
HeadersConvert(o) ==
    "request_headers" \in RequestFields(o) =>
        \A i \in DOMAIN o.request_headers : o.request_headers[i].key # ""

\* The rules of options.proto, on the fields that are present.
MessageUtilValidate(p) ==
    /\ p.requests_per_second \in 1..LargestRate
    /\ p.connections \in 1..LargestRate
    /\ p.burst_size <= LargestRate
    /\ p.max_active_requests >= 1
    /\ p.max_requests_per_connection >= 1
    /\ p.max_concurrent_streams \in 1..LargestStreams
    /\ "request_body_size" \in DOMAIN p => p.request_body_size <= LargestBody
    /\ "multi_target_endpoints" \in DOMAIN p =>
          \A i \in DOMAIN p.multi_target_endpoints : p.multi_target_endpoints[i].port \in 1..65535
    /\ "stats_flush_interval" \in DOMAIN p => p.stats_flush_interval \in 1..LargestFlush

validate(o) ==
    /\ o.concurrency # <<>> => o.concurrency[1] > 0
    /\ o.request_source # <<>> =>
          LET uri == UriImpl(o.request_source[1], "grpc")
          IN  isValid(uri) /\ uri.scheme = "grpc"
    /\ IF o.uri # <<>>
       THEN /\ isValid(UriImpl(o.uri[1], "http"))
            /\ o.multi_target_endpoints = <<>>
            /\ o.multi_target_path = ""
            /\ ~o.multi_target_use_https
       ELSE /\ o.multi_target_endpoints # <<>>
            /\ o.multi_target_path # ""
    /\ HeadersConvert(o)
    /\ MessageUtilValidate(toCommandLineOptions(o))

(***************************************************************************)
(* The constructor from a command line: [flags, unparsable].               *)
(***************************************************************************)
EncapPort == 10101    \* what GetAvailablePort finds

fromArgv(argv) ==
    LET given == DOMAIN argv.flags
        none  == "no_default_failure_predicates" \in given
    IN  [f \in DOMAIN Defaults |->
           CASE f \in given -> argv.flags[f]
             [] f = "failure_predicates" /\ none /\ f \notin given -> NoPredicates
             [] f = "encap_port" /\ "tunnel_protocol" \in given -> EncapPort
             [] f = "verbosity" /\ f \notin given -> "info"
             [] f = "output_format" /\ f \notin given -> "human"
             [] OTHER -> Defaults[f]]

RateLimiterFlags(given) ==
    "rate_limiter_plugin_config" \in given =>
        "burst_size" \notin given /\ "jitter_uniform" \notin given

TunnelFlags(given, o) ==
    /\ "tunnel_protocol" \in given => "tunnel_uri" \in given
    /\ given \cap {"tunnel_uri", "tunnel_tls_context"} # {} => "tunnel_protocol" \in given
    /\ o.tunnel_protocol = "http3" => "tunnel_tls_context" \in given
    /\ "tunnel_protocol" \in given /\ o.protocol = "http3" => o.tunnel_protocol = "http2"

\* TCLAP refuses what it cannot parse.
parseCommand(argv) == argv.unparsable = {}

Exclusive(given, f, g) == ~({f, g} \subseteq given)

\* Flags that exclude each other, and the flush interval that is for stats sinks only.
FlagsExclude(given) ==
    /\ "experimental_h2_use_multiple_connections" \notin given
    /\ Exclusive(given, "duration", "no_duration")
    /\ Exclusive(given, "stats_flush_interval", "stats_flush_interval_duration")
    /\ given \cap {"stats_flush_interval", "stats_flush_interval_duration"} # {}
          => "stats_sinks" \in given

acceptsArgv(argv) ==
    LET given == DOMAIN argv.flags
        o     == fromArgv(argv)
    IN  /\ parseCommand(argv)
        /\ FlagsExclude(given)
        /\ Exclusive(given, "h2", "protocol")
        /\ "http3_protocol_options" \in given =>
              o.protocol = "http3" /\ "max_concurrent_streams" \notin given
        /\ o.jitter_uniform >= 0 /\ o.stats_flush_interval_duration >= 0
        /\ \A f \in {"requests_per_second", "connections", "duration", "timeout",
                     "request_body_size", "burst_size", "max_pending_requests",
                     "max_active_requests", "max_requests_per_connection",
                     "stats_flush_interval"} : o[f] <= LargestUint32
        /\ o.max_concurrent_streams <= LargestStreams
        /\ Exclusive(given, "tls_context", "transport_socket")
        /\ Exclusive(given, "request_source", "request_source_plugin_config")
        /\ RateLimiterFlags(given)
        /\ TunnelFlags(given, o)
        /\ validate(o)

(***************************************************************************)
(* The constructor from a proto.                                           *)
(***************************************************************************)
Microsecond == 1000   \* in nanoseconds: the resolution scheduled_start keeps

\* Mutation: predicates of the request are added to the default ones.
fromProto_KeepsDefaults(p) ==
    [f \in DOMAIN Defaults |->
       CASE f = "failure_predicates" /\ f \in DOMAIN p -> [n \in DOMAIN p[f] \cup DOMAIN Defaults[f] |->
            IF n \in DOMAIN p[f] THEN p[f][n] ELSE Defaults[f][n]]
         [] f # "failure_predicates" /\ f \in DOMAIN p -> p[f]
         [] OTHER -> Defaults[f]]

\* The TLS context of a tunnel is merged into an optional that has no value, and stays without.
fromProto(p) ==
    LET Has(f) == f \in DOMAIN p
        replaces == \/ Has("no_default_failure_predicates") /\ p.no_default_failure_predicates
                    \/ Has("failure_predicates") /\ p.failure_predicates # NoPredicates
    IN  [f \in DOMAIN Defaults |->
           CASE f = "failure_predicates" ->
                    IF ~replaces THEN DefaultFailurePredicates
                    ELSE IF Has(f) THEN p[f] ELSE NoPredicates
             [] f = "scheduled_start" /\ Has(f) ->
                    <<(p[f][1] \div Microsecond) * Microsecond>>
             [] f = "encap_port" /\ Has("tunnel_uri") -> EncapPort
             [] f \notin {"failure_predicates", "scheduled_start", "encap_port",
                          "tunnel_tls_context"} /\ Has(f) -> p[f]
             [] OTHER -> Defaults[f]]

acceptsProto(p) ==
    LET o == fromProto(p)
        multiple == "experimental_h2_use_multiple_connections"
    IN  /\ multiple \in DOMAIN p => ~p[multiple]
        /\ o.rate_limiter_plugin_config # <<>> => o.burst_size = 0 /\ o.jitter_uniform = 0
        /\ validate(o)

(***************************************************************************)
(* What the rest of the program reads of the options.                      *)
(***************************************************************************)
protocol(o) ==
    CASE o.h2 \/ o.protocol = "http2" -> "http2"
      [] ~o.h2 /\ o.protocol = "http3" -> "http3"
      [] OTHER -> "http1"

Tunnelling(o) == o.tunnel_uri # <<>>
StatsFlush(o) ==
    IF o.stats_flush_interval_duration > 0
    THEN <<"duration", o.stats_flush_interval_duration>>
    ELSE <<"seconds", o.stats_flush_interval>>
=============================================================================
