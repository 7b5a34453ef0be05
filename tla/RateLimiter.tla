----------------------------- MODULE RateLimiter -----------------------------
(***************************************************************************)
(* The request limiters (internal/httpx and internal/handlers/ui_rate.go): *)
(* a call with a key, a limit and a time that was read before the call, on *)
(* a table of counters.                                                    *)
(*                                                                         *)
(* The limiter in memory has one counter per key, for the window of the    *)
(* last call; the one in Redis has one per key and window; the one of the  *)
(* smoke tests one per client, for a window that began with a call. Every  *)
(* call gives [ok, table]: the answer and the table it leaves.             *)
(***************************************************************************)
EXTENDS Integers, Functions

CONSTANT WindowSec  \* length of a window

ASSUME WindowAssumption == WindowSec \in Nat \ {0}

windowStart(now) == now - (now % WindowSec)

Put(table, key, entry) ==
    [k \in DOMAIN table \cup {key} |-> IF k = key THEN entry ELSE table[k]]

Mut_Cleaned(table, start) ==
    Restrict(table, {k \in DOMAIN table : table[k].start > start})

(* Counters more than a window older than the caller's are dropped. *)
Cleaned(table, start) ==
    Restrict(table, {k \in DOMAIN table : start <= table[k].start + WindowSec})

Mut_MemoryAllow(table, key, limit, now, sweep) ==
    LET start == windowStart(now)
        fresh == key \notin DOMAIN table \/ table[key].start < start
        count == IF fresh THEN 1 ELSE table[key].count + 1
        after == Put(table, key, [start |-> start, count |-> count])
    IN  IF limit <= 0 \/ (~fresh /\ table[key].count >= limit)
        THEN [ok |-> FALSE, table |-> table]
        ELSE [ok |-> TRUE, table |-> IF sweep THEN Cleaned(after, start) ELSE after]

(* IPRateLimiter.AllowWithInfo, with maybeCleanupLocked: a counter of any    *)
(* other window, later ones included, is begun again. sweep says that this  *)
(* admission is the one in every N that looks for stale counters.           *)
MemoryAllow(table, key, limit, now, sweep) ==
    LET start == windowStart(now)
        fresh == key \notin DOMAIN table \/ table[key].start # start
        count == IF fresh THEN 1 ELSE table[key].count + 1
        after == Put(table, key, [start |-> start, count |-> count])
    IN  IF limit <= 0 \/ (~fresh /\ table[key].count >= limit)
        THEN [ok |-> FALSE, table |-> table]
        ELSE [ok |-> TRUE, table |-> IF sweep THEN Cleaned(after, start) ELSE after]

(* RedisRateLimiter.AllowWithInfo: every call counts, refused ones too; the *)
(* counter's life of one window begins with its first call. made is the     *)
(* time on the server.                                                      *)
RedisAllow(table, key, limit, now, made) ==
    LET k     == <<key, windowStart(now)>>
        count == IF k \in DOMAIN table THEN table[k].count + 1 ELSE 1
        from  == IF k \in DOMAIN table THEN table[k].made ELSE made
    IN  IF limit <= 0 THEN [ok |-> FALSE, table |-> table]
        ELSE [ok |-> count <= limit, table |-> Put(table, k, [made |-> from, count |-> count])]

(* Redis drops the counters whose life is over. *)
RedisExpired(table, now) ==
    Restrict(table, {k \in DOMAIN table : now < table[k].made + WindowSec})

(* uiSmokeRateLimiterState.allow, on [entries, cleaned]: once in a window   *)
(* the entries of two windows ago are dropped; a call whose time is before  *)
(* the entry's window counts in that window.                                *)
uiAllow(table, ip, limit, now) ==
    LET young == {k \in DOMAIN table.entries : now - table.entries[k].start < 2 * WindowSec}
        swept == IF now - table.cleaned < WindowSec THEN table
                 ELSE [entries |-> Restrict(table.entries, young), cleaned |-> now]
        known == ip \in DOMAIN swept.entries /\ now - swept.entries[ip].start < WindowSec
        entry == IF known THEN [swept.entries[ip] EXCEPT !.count = @ + 1] ELSE [start |-> now, count |-> 1]
    IN  IF entry.count > limit THEN [ok |-> FALSE, table |-> swept]
        ELSE [ok |-> TRUE, table |-> [swept EXCEPT !.entries = Put(@, ip, entry)]]
=============================================================================
