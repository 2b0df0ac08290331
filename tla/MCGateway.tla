----------------------------- MODULE MCGateway -----------------------------
(****************************************************************************)
(* Ten routes that differ from one another by as little as matching can     *)
(* tell: prefix and exact matchers of the same and of nested paths,         *)
(* overlapping and disjoint methods, hosts and headers, equal and different *)
(* priorities.  A configuration is any three of them, or fewer, in any      *)
(* order, the ambiguous ones among them included: Accepted is to reject     *)
(* those.                                                                   *)
(****************************************************************************)
EXTENDS Gateway

Default == [name |-> "default", path |-> <<"">>, exact |-> FALSE,
            methods |-> {}, hosts |-> {}, headers |-> <<>>, priority |-> 0,
            policies |-> {}, action |-> "upstream", status |-> 200]

AtA == [Default EXCEPT !.path = <<"a">>]

Environment(value) == [environment |-> value]

MCRoutes == {
    [Default EXCEPT !.policies = {"strip_path_prefix"}],
    [Default EXCEPT !.name = "root", !.exact = TRUE, !.methods = {"GET"},
                    !.action = "redirect", !.status = 301],
    [AtA EXCEPT !.name = "a",
                !.policies = {"rate_limit", "body_limit", "strip_path_prefix"}],
    [AtA EXCEPT !.name = "a_get", !.methods = {"GET"}, !.priority = 1],
    [AtA EXCEPT !.name = "a_post_h", !.methods = {"POST"}, !.hosts = {"h"},
                !.priority = 1],
    [AtA EXCEPT !.name = "a_prod", !.methods = {"GET"},
                !.headers = Environment("prod")],
    [AtA EXCEPT !.name = "a_test", !.headers = Environment("test"),
                !.priority = -1],
    [AtA EXCEPT !.name = "a_beta", !.headers = [channel |-> "beta"]],
    [AtA EXCEPT !.name = "a_exact", !.exact = TRUE, !.methods = {"POST"},
                !.action = "direct_response", !.policies = {"rate_limit"}],
    [AtA EXCEPT !.name = "a_b", !.path = <<"a", "b">>, !.hosts = {"h"}]}

MCConfigurations ==
    UNION {[1 .. n -> MCRoutes] : n \in 1 .. 2}
    \cup {config \in [1 .. 3 -> MCRoutes] :
            config[1].name # config[2].name /\ config[2].name # config[3].name}

MCMethods == {"GET", "POST"}

Hosts == {[name |-> "h", port |-> "8080"], [name |-> "i", port |-> "none"]}

Paths == {<<>>, <<"">>, <<"a">>, <<"a", "">>, <<"a", "b">>, <<"ab">>}

Headers == {
    <<>>,
    Environment(<<"prod", "test">>),
    [environment |-> <<"test">>, channel |-> <<"beta">>],
    [environment |-> <<"prod">>, channel |-> <<"beta">>]}

\* The escaped form of a path matters below "/a" only.
MCRequests ==
    {[method |-> method, host |-> host, path |-> path, headers |-> headers,
      escaped |-> escaped] :
        method \in MCMethods, host \in Hosts, path \in Paths,
        headers \in Headers, escaped \in {FALSE}}
    \cup
    {[method |-> "GET", host |-> host, path |-> <<"a", "b">>, headers |-> <<>>,
      escaped |-> TRUE] : host \in Hosts}

MCNoRequest == [method |-> "none"]

MCUpstreamStatuses == {200, 404}

=============================================================================
