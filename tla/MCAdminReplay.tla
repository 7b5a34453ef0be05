---------------------------- MODULE MCAdminReplay ----------------------------
(* Requests for AdminReplay: a batch that names an event twice, a dry run,   *)
(* a single event, one with a header that is not allowed, and requests that  *)
(* are refused before anything is read.                                      *)
EXTENDS AdminReplay

CONSTANTS e1, e2, r1, r2

Request(kind, ids, dry, denied, decodes) ==
    [kind |-> kind, ids |-> ids, dry |-> dry, denied |-> denied, decodes |-> decodes]

MCPlans ==
    {[r \in Requests |-> IF r = r1 THEN p[1] ELSE p[2]] : p \in
        {<<Request("batch", <<e1, e2, e1>>, FALSE, FALSE, TRUE), Request("cli", <<e1>>, FALSE, FALSE, TRUE)>>,
         <<Request("batch", <<e2>>, TRUE, FALSE, TRUE), Request("single", <<e1>>, FALSE, FALSE, TRUE)>>,
         <<Request("single", <<e1>>, FALSE, FALSE, FALSE), Request("single", <<e1>>, FALSE, TRUE, TRUE)>>,
         <<Request("clifile", <<e1>>, FALSE, FALSE, TRUE), Request("batch", <<e2, Blank>>, FALSE, FALSE, TRUE)>>,
         <<Request("clifile", <<e1>>, FALSE, FALSE, FALSE), Request("cli", <<e1>>, TRUE, FALSE, TRUE)>>}}

MCEarlier == {[id |-> 2, at |-> 0, who |-> "before", event |-> e1, result |-> "accepted"]}

MCQueries == {[sort |-> "asc", limit |-> 1, result |-> AnyResult], [sort |-> "desc", limit |-> 1, result |-> "accepted"]}
=============================================================================
