-------------------------- MODULE MCRequestSource --------------------------
(* Instances of RequestSource for TLC.                                     *)
EXTENDS RequestSource

MCOptionHeaders == ("x-option" :> "option") @@ (":authority" :> "option")

\* A v3 list with a path that the field overrides; a v2 list that counts; one of both lists.
MCSpecifiers ==
    { [v3 |-> (":path" :> "v3") @@ ("x-option" :> "v3"), v2 |-> NoHeaders, fields |-> (":path" :> "field")],
      [v3 |-> NoHeaders, v2 |-> ("x-option" :> "v2"), fields |-> NoHeaders] }

\* An entry with a JSON body, one with a body size, and one without a body.
Entry(method, body_size, json, headers) ==
    [method |-> method, body_size |-> body_size, json |-> json, headers |-> headers]
MCOptionsList ==
    << Entry("POST", 0, TRUE, ":path" :> "first"),
       Entry("PUT", 5, FALSE, "x-option" :> "second"),
       Entry("GET", 0, FALSE, ":method" :> "third") >>
=============================================================================
