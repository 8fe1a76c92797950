-------------------------- MODULE MCServerFilters --------------------------
(* Instances of ServerFilters for TLC.                                      *)
EXTENDS ServerFilters, TLC

NoOptions == [f \in {} |-> 0]
Config(copies, parses, valid, options) ==
    [copies |-> copies, parses |-> parses, valid |-> valid, options |-> options]

\* The server delays by load, emits deltas and adds a header.
MCStartup ==
    [ response_body_size |-> 10, emit |-> TRUE, echo_request_headers |-> TRUE, headers |-> {"v2"},
      delay |-> [kind |-> "linear", minimal |-> 1, factor |-> 2] ]

\* No header; one that overrides size and delay; one that asks for no body; one with headers
\* of the other kind; one without JSON, one out of range; two.
MCConfigs ==
    { Config(0, FALSE, FALSE, NoOptions),
      Config(1, TRUE, TRUE, ("response_body_size" :> 20) @@ ("delay" :> [kind |-> "static", ms |-> 0])),
      Config(1, TRUE, TRUE, ("response_body_size" :> 0)),
      Config(1, TRUE, TRUE, ("headers" :> {"v3"})),
      Config(1, FALSE, FALSE, NoOptions),
      Config(1, TRUE, FALSE, ("response_body_size" :> 30)),
      Config(2, TRUE, TRUE, NoOptions) }
=============================================================================
