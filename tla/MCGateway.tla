------------------------------ MODULE MCGateway ------------------------------
(* Requests for Gateway: deliveries of one client over its quota; refusals   *)
(* of every kind; admin calls through both prefixes.                         *)
EXTENDS Gateway

CONSTANTS r1, r2, r3

Webhook(source, bad, probe) ==
    [path |-> "webhook", ip |-> "a", source |-> source, bad |-> bad, probe |-> probe, sent |-> 0, set |-> FALSE]

Call(path, ip, bad, set) ==
    [path |-> path, ip |-> ip, source |-> "", bad |-> bad, probe |-> FALSE, sent |-> 0, set |-> set]

Delivery == Webhook("github", {}, FALSE)

Smoke(bad) == [Webhook("github", bad, FALSE) EXCEPT !.path = "smoke"]

Outdated == Webhook("github", {"version"}, FALSE)

MCDeployments == {[limiter |-> "memory", store |-> "file"], [limiter |-> "redis", store |-> "postgres"]}

MCPlans ==
    {[r \in Requests |-> CASE r = r1 -> p[1] [] r = r2 -> p[2] [] r = r3 -> p[3]] : p \in
        {<<Delivery, Delivery, Delivery>>,
         <<Webhook("github", {"signature"}, FALSE), Call("admin", "a", {}, TRUE), Outdated>>,
         <<Webhook("gitlab", {"method"}, FALSE), Call("adminV1", "a", {"jwt"}, TRUE), Call("admin", "b", {"cidr"}, FALSE)>>,
         <<Webhook("slack", {}, FALSE), Webhook("slack", {}, FALSE), Outdated>>,
         <<Webhook("teams", {}, TRUE), Call("other", "b", {}, FALSE), Outdated>>,
         <<Webhook("slack", {}, TRUE), Webhook("github", {"body"}, FALSE), Outdated>>,
         <<Webhook("teams", {"schema"}, FALSE), Call("adminV1", "a", {}, FALSE), Outdated>>,
         <<Smoke({}), Smoke({"wrapper"}), Outdated>>,
         <<Call("admin", "a", {"body"}, TRUE), Call("admin", "a", {}, TRUE), Outdated>>}}
=============================================================================
