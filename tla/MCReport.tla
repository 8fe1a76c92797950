----------------------------- MODULE MCReport ------------------------------
(* A few command lines, each with up to two more options. *)
EXTENDS Report

Uri(scheme, host, port) == [scheme |-> scheme, host |-> host, port |-> port]
Web == Uri(<<"https">>, "web", <<>>)

Lookups == ({"web", "other", "localhost"} \X {"v4"}) \cup {<<"other", "v6">>}

OneTarget == [uri |-> <<Web>>]
Bases ==
    {OneTarget,
     OneTarget @@ [concurrency |-> <<2>>,
                   user_defined_plugin_configs |->
                       <<[name |-> "a", valid |-> TRUE], [name |-> "b", valid |-> TRUE]>>],
     OneTarget @@ [concurrency |-> <<2>>, nighthawk_service |-> <<Uri(<<>>, "other", <<>>)>>],
     [multi_target_endpoints |-> <<[host |-> "web", port |-> 1], [host |-> "other", port |-> 2]>>,
      multi_target_path |-> "/"]}

Values ==
    {[output_format |-> f] : f \in Formats} \cup
    {[requests_per_second |-> 2], [requests_per_second |-> 0], [connections |-> 7],
     [concurrency |-> <<>>], [duration |-> 9], [no_duration |-> TRUE], [h2 |-> TRUE],
     [protocol |-> "http3"], [http3_protocol_options |-> <<50>>], [max_concurrent_streams |-> 3],
     [burst_size |-> 3], [jitter_uniform |-> 4], [rate_limiter_plugin_config |-> <<"linear">>],
     [request_headers |-> <<[key |-> "host", value |-> "h"]>>],
     [request_headers |-> <<[key |-> "", value |-> "h"]>>],
     [request_body_size |-> 6], [request_source |-> <<Uri(<<"grpc">>, "other", <<>>)>>],
     [request_source_plugin_config |-> <<"list">>],
     [multi_target_endpoints |-> <<[host |-> "web", port |-> 0]>>], [multi_target_use_https |-> TRUE],
     [tls_context |-> <<"ctx">>], [transport_socket |-> <<"ts">>],
     [no_default_failure_predicates |-> TRUE],
     [failure_predicates |-> ("benchmark.http_4xx" :> 3)],
     [termination_predicates |-> ("benchmark.http_2xx" :> 3)],
     [stats_sinks |-> <<"statsd">>], [stats_flush_interval |-> 2],
     [stats_flush_interval_duration |-> 2], [address_family |-> "v6"],
     [trace |-> <<Uri(<<"zipkin">>, "nowhere", <<>>)>>],
     [nighthawk_service |-> <<Uri(<<"ftp">>, "other", <<>>)>>],
     [user_defined_plugin_configs |-> <<[name |-> "a", valid |-> FALSE]>>]}

Tunnel(protocol_name, uri) == [tunnel_protocol |-> protocol_name, tunnel_uri |-> <<uri>>]
Tunnels ==
    {Tunnel("http2", Uri(<<>>, "other", <<9>>)),
     Tunnel("http1", Uri(<<>>, "nowhere", <<9>>)),
     Tunnel("http3", Uri(<<>>, "other", <<9>>)) @@ [tunnel_tls_context |-> <<"tctx">>]}

Typed ==
    {[flags |-> x @@ y @@ b, unparsable |-> {}] : x \in Values, y \in Values \cup Tunnels, b \in Bases}
    \cup {[flags |-> OneTarget, unparsable |-> {"tls_context"}]}

Measurements ==
    {[latencies |-> <<15, 1000>>, sizes |-> <<2, 5>>, duration |-> 40, start |-> <<3>>,
      failed |-> FALSE, plugin_fails |-> FALSE],
     [latencies |-> <<1001, 120, 120>>, sizes |-> <<4>>, duration |-> 41, start |-> <<2>>,
      failed |-> TRUE, plugin_fails |-> TRUE],
     [latencies |-> <<>>, sizes |-> <<>>, duration |-> 0, start |-> <<>>,
      failed |-> FALSE, plugin_fails |-> FALSE]}
=============================================================================
