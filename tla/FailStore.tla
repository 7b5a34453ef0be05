------------------------------- MODULE FailStore -------------------------------
(***************************************************************************)
(* What the two failed-event stores compute (internal/failstore). The      *)
(* content of a store is a sequence of records, oldest failure first: the  *)
(* parsable lines of the JSONL file, or the rows of failed_events by       *)
(* failed_at. A record keeps the event and its RetryCount; the payload,    *)
(* the reason and the headers travel with the event.                       *)
(***************************************************************************)
EXTENDS Integers, Sequences, FiniteSets

CONSTANTS Events,
          Backend          \* "file" (FileStore) or "postgres" (PostgresStore)

ASSUME BackendAssumption == Backend \in {"file", "postgres"}

Rec(ev, n) == [ev |-> ev, retries |-> n]

Has(recs, ev)     == \E i \in DOMAIN recs : recs[i].ev = ev
Places(recs, ev)  == {i \in DOMAIN recs : recs[i].ev = ev}
FirstOf(recs, ev) == CHOOSE i \in Places(recs, ev) : \A j \in Places(recs, ev) : i <= j
LastOf(recs, ev)  == CHOOSE i \in Places(recs, ev) : \A j \in Places(recs, ev) : j <= i

\* The k-th of a set of places, and what a sequence has at these places, in order.
Nth(S, k)       == CHOOSE i \in S : Cardinality({j \in S : j < i}) = k - 1
Picked(recs, S) == [k \in 1..Cardinality(S) |-> recs[Nth(S, k)]]

\* readAllLocked and the filter of Delete; DELETE FROM failed_events.
Without(recs, ev) == Picked(recs, DOMAIN recs \ Places(recs, ev))

\* FileStore.Save appends a record with RetryCount 0 whether or not the event has
\* one already.
SaveFile(recs, ev) == Append(recs, Rec(ev, 0))

\* PostgresStore.Save: one row per event; a conflict counts a retry and moves the
\* row to the new failed_at.
SavePostgres(recs, ev) ==
    IF Has(recs, ev)
    THEN Append(Without(recs, ev), Rec(ev, recs[FirstOf(recs, ev)].retries + 1))
    ELSE Append(recs, Rec(ev, 0))

Save(recs, ev) == IF Backend = "file" THEN SaveFile(recs, ev) ELSE SavePostgres(recs, ev)

\* Mutant of Delete: it stops at the first match, as UpdateRetryCount does.
Mut_Delete(recs, ev) ==
    IF Has(recs, ev)
    THEN [i \in 1..(Len(recs) - 1) |->
             IF i < FirstOf(recs, ev) THEN recs[i] ELSE recs[i + 1]]
    ELSE recs

\* Delete: every record of the event goes; ErrNotFound when there is none.
Delete(recs, ev) == Without(recs, ev)

\* UpdateRetryCount: the first record of the event only; ErrNotFound without one.
UpdateRetryCount(recs, ev, n) ==
    IF Has(recs, ev) THEN [recs EXCEPT ![FirstOf(recs, ev)].retries = n] ELSE recs

\* deduplicateEvents: a repeated event keeps its first place and takes its last
\* record. The result is listed newest first.
Firsts(recs) == {i \in DOMAIN recs : FirstOf(recs, recs[i].ev) = i}

\* Mutant of deduplicateEvents: duplicates are kept.
Mut_deduplicateNewestFirst(recs) ==
    [k \in 1..Len(recs) |-> recs[Len(recs) + 1 - k]]

deduplicateNewestFirst(recs) ==
    [k \in 1..Cardinality(Firsts(recs)) |->
        LET i == Nth(Firsts(recs), Cardinality(Firsts(recs)) + 1 - k)
        IN  recs[LastOf(recs, recs[i].ev)]]

LastRecords(recs, limit) ==
    SubSeq(recs, IF Len(recs) > limit THEN Len(recs) - limit + 1 ELSE 1, Len(recs))

\* FileStore.ListRecent: the last limit records, deduplicated, newest first.
ListRecentFile(recs, limit) == deduplicateNewestFirst(LastRecords(recs, limit))

\* PostgresStore.ListRecent: ORDER BY failed_at DESC LIMIT limit.
ListRecentPostgres(recs, limit) ==
    LET last == LastRecords(recs, limit)
    IN  [k \in 1..Len(last) |-> last[Len(last) + 1 - k]]

ListRecent(recs, limit) ==
    IF Backend = "file" THEN ListRecentFile(recs, limit) ELSE ListRecentPostgres(recs, limit)
===============================================================================
