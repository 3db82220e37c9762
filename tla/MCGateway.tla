----------------------------- MODULE MCGateway -----------------------------
(***************************************************************************)
(* Gateway with requests of every kind on both endpoints, and on others.   *)
(***************************************************************************)
EXTENDS Gateway

CONSTANTS r1, r2

MCReqs == {r1, r2}

Request(p, k, b, x) == [path |-> p, key |-> k, body |-> b, risk |-> x]

\* Requests that pass, requests that are stopped at one of the gates, a probe and one
\* for a path that has no handler.  On the stream endpoint the one that can pass is a
\* body of undeclared length.
MCInputs ==
    {Request("complete", "known", "ok", "tag"), Request("stream", "known", "chunked", "pass"),
     Request("probe", "unknown", "ok", "pass"), Request("other", "known", "ok", "pass"),
     Request("complete", "unknown", "ok", "pass")}
        \cup UNION {{Request(p, "known", "bad", "pass"), Request(p, "known", "large", "pass"),
                     Request(p, "known", "ok", "block")} :
                        p \in {"complete", "stream"}}
=============================================================================
