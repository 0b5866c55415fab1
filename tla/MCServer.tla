-------------------------------- MODULE MCServer --------------------------------
EXTENDS Server

CONSTANTS r1, r2, r3, c1

Request(path, query, method, cookie, malformed) ==
    [path |-> path, query |-> query, method |-> method, cookie |-> cookie,
     malformed |-> malformed]

Either(endpoint, entrypoint) == [endpoint |-> endpoint, entrypoint |-> entrypoint]

\* examples/basic_routing.cpp: connections_ only, a page asked for with and
\* without a query string.
Routing ==
    [custom |-> FALSE,
     handlers |-> (<<"json">> :> "custom") @@ (<<"html">> :> "custom"),
     otherwise |-> Either("null", "null"),
     added |-> <<>>,
     asks |-> (r1 :> Request(<<"json">>, FALSE, "GET", None, FALSE)) @@
              (r2 :> Request(<<"json">>, TRUE, "GET", None, FALSE)) @@
              (r3 :> Request(<<"html">>, FALSE, "GET", None, TRUE))]

\* examples/backend_api.cpp and fullstack.cpp, with two methods of one endpoint,
\* both called by a session, and a path with an empty segment.
Api ==
    [custom |-> TRUE,
     handlers |-> <<"api", "file">> :> "backend",
     otherwise |-> Either("backend", "custom"),
     added |-> <<[endpoint |-> <<"api", "products">>, method |-> "get", type |-> "custom"],
                 [endpoint |-> <<"api", "products">>, method |-> "post", type |-> "json"],
                 [endpoint |-> <<"api", "file">>, method |-> "get", type |-> "file"]>>,
     asks |-> (r1 :> Request(<<"api", "products">>, TRUE, "GET", c1, FALSE)) @@
              (r2 :> Request(<<"api", "products">>, FALSE, "POST", c1, FALSE)) @@
              (r3 :> Request(<<"api", "", "file">>, FALSE, "GET", c1, FALSE))]

\* Requests without a session, a malformed one, and one of a JSON function.
Strangers ==
    [Api EXCEPT
       !.added = <<[endpoint |-> <<"api", "products">>, method |-> "get", type |-> "json"]>>,
       !.asks = (r1 :> Request(<<"api", "products">>, FALSE, "GET", None, FALSE)) @@
                (r2 :> Request(<<"api", "products">>, FALSE, "GET", c1, TRUE)) @@
                (r3 :> Request(<<"api", "products">>, FALSE, "GET", c1, FALSE))]

\* examples/websocket.cpp: two sockets and the page.
Sockets ==
    [custom |-> TRUE,
     handlers |-> <<"ws">> :> "socket",
     otherwise |-> Either("custom", "custom"),
     added |-> <<>>,
     asks |-> (r1 :> Request(<<"ws">>, FALSE, "GET", None, FALSE)) @@
              (r2 :> Request(<<"ws">>, FALSE, "GET", None, FALSE)) @@
              (r3 :> Request(<<>>, FALSE, "GET", None, FALSE))]

MCApplications == {Routing, Api, Strangers, Sockets}

MCGetMethod == ("GET" :> "get") @@ ("POST" :> "post")

===============================================================================
