---------------------------- MODULE SecurityAudit ----------------------------
(***************************************************************************)
(* The security audit store (internal/securityaudit): a file of records in *)
(* the order they were written, pruned now and then by the Save that comes *)
(* first after an interval, or a table in Postgres that is never pruned.   *)
(*                                                                         *)
(* A record is [who, at]. A store is [lines, torn, pruned]: its readable   *)
(* records, whether it ends in a part of a line, when it was last pruned.  *)
(***************************************************************************)
EXTENDS Integers, Sequences, SequencesExt, FiniteSets

CONSTANTS
    Retention,      \* how long a record is kept
    PruneInterval,  \* at most one pruning in this time
    NeverPruned     \* lastPruned is zero: nothing was pruned by this process

ASSUME SecurityAuditAssumption == Retention \in Nat \ {0} /\ PruneInterval \in Nat \ {0}

EmptyStore == [lines |-> <<>>, torn |-> FALSE, pruned |-> NeverPruned]

isExpired(rec, now) == rec.at < now - Retention

(* The k-th of a set of places, and the lines of a store that are not       *)
(* expired, in order.                                                       *)
Nth(S, k) == CHOOSE i \in S : Cardinality({j \in S : j < i}) = k - 1

Live(lines, now) == {i \in DOMAIN lines : ~isExpired(lines[i], now)}

LiveLines(lines, now) ==
    [k \in 1 .. Cardinality(Live(lines, now)) |-> lines[Nth(Live(lines, now), k)]]

PruneDue(st, now) == st.pruned = NeverPruned \/ now - st.pruned >= PruneInterval

Mut_pruneExpired(st, now) ==
    IF ~PruneDue(st, now) THEN st
    ELSE [lines |-> SelectSeq(st.lines, LAMBDA rec : rec.at > now - Retention), torn |-> FALSE, pruned |-> now]

(* pruneExpiredLocked: when there is something to drop the file is written  *)
(* again, without the lines that cannot be read; otherwise it is left as it *)
(* is.                                                                      *)
pruneExpired(st, now) ==
    LET kept == LiveLines(st.lines, now)
    IN  IF ~PruneDue(st, now) THEN st
        ELSE IF Len(kept) = Len(st.lines) THEN [st EXCEPT !.pruned = now]
        ELSE [lines |-> kept, torn |-> FALSE, pruned |-> now]

(* A line after a part of a line continues it, and neither can be read. *)
AddLine(st, rec) ==
    IF st.torn THEN [st EXCEPT !.torn = FALSE] ELSE [st EXCEPT !.lines = Append(@, rec)]

(* With an ended context pruning fails at the first line it reads. *)
PruneBlocked(st, now, ended) == ended /\ PruneDue(st, now) /\ (st.lines # <<>> \/ st.torn)

(* FileStore.Save by the record's own time, which was read before the lock; *)
(* the stores it may leave when it fails: pruning failed, or the file was   *)
(* pruned and the line not written, written in part, or not synced.         *)
Saved(st, rec) == AddLine(pruneExpired(st, rec.at), rec)

FailedSaves(st, rec, ended) ==
    LET pruned == pruneExpired(st, rec.at)
    IN  {st} \cup IF PruneBlocked(st, rec.at, ended) THEN {}
                  ELSE {pruned, [pruned EXCEPT !.torn = TRUE], AddLine(pruned, rec)}

(* FileStore.ListRecent: the last limit records that are not expired, the   *)
(* latest line first.                                                       *)
ListRecent(st, now, limit) ==
    LET live == LiveLines(st.lines, now)
        from == IF Len(live) > limit THEN Len(live) - limit + 1 ELSE 1
    IN  Reverse(SubSeq(live, from, Len(live)))
=============================================================================
