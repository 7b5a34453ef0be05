----------------------------- MODULE ReplayAudit -----------------------------
(***************************************************************************)
(* Listing the replay audit page by page (internal/replayaudit): the file  *)
(* store sorts all records and looks for the record the cursor names, the  *)
(* Postgres store asks for the records after the cursor's key.             *)
(*                                                                         *)
(* A record is [id, at, who, event, result]; its id is random, at is the   *)
(* time it was built. Ids are numbers here, for their order.               *)
(***************************************************************************)
EXTENDS Naturals, Sequences, FiniteSets, SequencesExt

(* A query without a cursor asks for the first page, and AnyResult for      *)
(* records of every result.                                                 *)
CONSTANTS NoCursor, AnyResult

NotFound == [found |-> FALSE]

matchesRecord(rec, q) == q.result \in {AnyResult, rec.result}

Matching(records, q) == {rec \in records : matchesRecord(rec, q)}

(* The order of a query: by time, equal times by id. *)
Before(a, b, order) ==
    LET earlier(x, y) == x.at < y.at \/ (x.at = y.at /\ x.id < y.id)
    IN  IF order = "asc" THEN earlier(a, b) ELSE earlier(b, a)

(* The k-th record is the one that k - 1 others come before. *)
sortRecords(records, order) ==
    [k \in 1 .. Cardinality(records) |->
        CHOOSE rec \in records : Cardinality({a \in records : Before(a, rec, order)}) = k - 1]

(* A page and, when there are more records, the cursor of the next one: its *)
(* last record, by id in the file store, by time and id in Postgres.        *)
Page(page, more) ==
    [found |-> TRUE, records |-> page, next |-> IF more /\ page # <<>> THEN Last(page) ELSE NoCursor]

(* FileStore.List: the record with the cursor's id is looked up among the   *)
(* sorted records; when it is not there the query is refused.               *)
FileList(records, q, cursor) ==
    LET all   == sortRecords(Matching(records, q), q.sort)
        found == {i \in DOMAIN all : cursor # NoCursor /\ all[i].id = cursor.id}
        start == IF found = {} THEN 0 ELSE CHOOSE i \in found : TRUE
        end   == IF start + q.limit > Len(all) THEN Len(all) ELSE start + q.limit
        page  == SubSeq(all, start + 1, end)
    IN  IF cursor # NoCursor /\ found = {} THEN NotFound ELSE Page(page, end < Len(all))

Mut_PostgresList(records, q, cursor) ==
    LET after == {rec \in Matching(records, q) :
                    cursor = NoCursor \/ (IF q.sort = "asc" THEN cursor.at < rec.at ELSE rec.at < cursor.at)}
        rows  == sortRecords(after, q.sort)
        more  == Len(rows) > q.limit
    IN  Page(IF more THEN SubSeq(rows, 1, q.limit) ELSE rows, more)

(* PostgresStore.List: the cursor is a time and an id, and one row more     *)
(* than the limit is read to know whether there is a further page.          *)
PostgresList(records, q, cursor) ==
    LET after == {rec \in Matching(records, q) : cursor = NoCursor \/ Before(cursor, rec, q.sort)}
        rows  == sortRecords(after, q.sort)
        read  == SubSeq(rows, 1, IF Len(rows) < q.limit + 1 THEN Len(rows) ELSE q.limit + 1)
        more  == Len(read) > q.limit
        page  == IF more THEN SubSeq(read, 1, q.limit) ELSE read
    IN  Page(page, more)

List(backend, records, q, cursor) ==
    IF backend = "file" THEN FileList(records, q, cursor) ELSE PostgresList(records, q, cursor)
=============================================================================
