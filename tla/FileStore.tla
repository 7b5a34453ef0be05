------------------------------- MODULE FileStore -------------------------------
(***************************************************************************)
(* The JSONL file of failed events (internal/failstore/file_store.go) and  *)
(* what failed or interrupted operations leave in it. Save appends a line; *)
(* Delete and UpdateRetryCount read the whole file, write a new one beside *)
(* it and rename it over the old one. s.mu makes the operations of one     *)
(* process exclusive: op is the one that holds it. A crash ends the        *)
(* operation and a new process opens the same file.                        *)
(***************************************************************************)
EXTENDS FailStore

CONSTANTS Long,            \* events whose line is longer than the scanner's 2 MiB buffer
          ShortWrites,     \* whether a failed write can leave a part of the line
          Limit,           \* the limit ListRecent is called with
          MaxLines,        \* bound: lines in the file
          MaxFailures      \* bound: failed or interrupted writes

ASSUME FileAssumption ==
    /\ Long \subseteq Events
    /\ ShortWrites \in BOOLEAN
    /\ Limit \in Nat \ {0}

VARIABLES file,            \* the lines, oldest first
          open,            \* the last line does not end in a newline
          op,              \* the operation that holds s.mu
          failures,        \* Save calls that failed or were interrupted
          saved,           \* events whose last Save returned nil, not deleted since
          deleted          \* events whose Delete returned nil, not saved since

fileVars == <<file, open, op, failures, saved, deleted>>

Idle == [kind |-> "idle"]

Line(ev, n) == [ev |-> ev, retries |-> n, kind |-> IF ev \in Long THEN "long" ELSE "json"]
BadLine(ev) == [ev |-> ev, retries |-> 0, kind |-> "bad"]

\* scanner.Err() is nil: no line is too long.
Scannable(lines) == \A i \in DOMAIN lines : lines[i].kind # "long"

\* readAllLocked: a line that json.Unmarshal refuses is skipped.
readAllLocked(lines) ==
    LET good == Picked(lines, {i \in DOMAIN lines : lines[i].kind = "json"})
    IN  [i \in DOMAIN good |-> Rec(good[i].ev, good[i].retries)]

\* What GetByID returns: the scan meets the event, or a line that is too long, or
\* the end of the file.
GetResult(ev) ==
    LET hit(i)  == file[i].kind = "json" /\ file[i].ev = ev
        stop(i) == file[i].kind = "long"
    IN  IF \E i \in DOMAIN file : hit(i) /\ \A j \in 1..i : ~stop(j) THEN "found"
        ELSE IF Scannable(file) THEN "ErrNotFound" ELSE "scan error"

FileInit ==
    /\ file = <<>>
    /\ open = FALSE
    /\ op = Idle
    /\ failures = 0
    /\ saved = {}
    /\ deleted = {}

\* O_APPEND: on a last line without a newline the text continues that line, and
\* the two records in one are no JSON document.
Joined(a, b) ==
    [BadLine(b.ev) EXCEPT !.kind = IF "long" \in {a.kind, b.kind} THEN "long" ELSE "bad"]

AppendLine(line) ==
    IF open THEN [file EXCEPT ![Len(file)] = Joined(@, line)] ELSE Append(file, line)

\* Save returns nil: the line, its newline and the Sync all succeeded.
SaveReturns(ev) ==
    /\ op = Idle
    /\ Len(file) < MaxLines
    /\ file' = AppendLine(Line(ev, 0))
    /\ open' = FALSE
    /\ saved' = saved \cup {ev}
    /\ deleted' = deleted \ {ev}
    /\ UNCHANGED <<op, failures>>

\* Write or Sync returns an error, or the process stops inside Save: the file
\* keeps nothing, the whole line, or a part of it (at most all but the newline).
SaveFails(ev) ==
    /\ op = Idle
    /\ Len(file) < MaxLines
    /\ failures < MaxFailures
    /\ failures' = failures + 1
    /\ \/ UNCHANGED <<file, open>>
       \/ file' = AppendLine(Line(ev, 0)) /\ open' = FALSE
       \/ /\ ShortWrites
          /\ \E part \in {BadLine(ev), Line(ev, 0)} : file' = AppendLine(part)
          /\ open' = TRUE
    /\ deleted' = deleted \ {ev}
    /\ UNCHANGED <<op, saved>>

\* Mutant of RewriteBegin: the file itself is created anew instead of path.tmp.
Mut_RewriteBegin(kind, ev, n) ==
    /\ op = Idle
    /\ Scannable(file)
    /\ Has(readAllLocked(file), ev)
    /\ op' = [kind |-> kind, ev |-> ev,
              recs |-> IF kind = "delete" THEN Delete(readAllLocked(file), ev)
                       ELSE UpdateRetryCount(readAllLocked(file), ev, n)]
    /\ file' = <<>>
    /\ open' = FALSE
    /\ UNCHANGED <<failures, saved, deleted>>

\* Delete and UpdateRetryCount up to the rename: readAllLocked, the change, and
\* the new content in path.tmp. Without a record of the event (ErrNotFound) or
\* with a line that is too long they return and change nothing.
RewriteBegin(kind, ev, n) ==
    /\ op = Idle
    /\ Scannable(file)
    /\ Has(readAllLocked(file), ev)
    /\ op' = [kind |-> kind, ev |-> ev,
              recs |-> IF kind = "delete" THEN Delete(readAllLocked(file), ev)
                       ELSE UpdateRetryCount(readAllLocked(file), ev, n)]
    /\ UNCHANGED <<file, open, failures, saved, deleted>>

\* rewriteFileLocked renames path.tmp over the file.
RewriteRename ==
    /\ op # Idle
    /\ file' = [i \in DOMAIN op.recs |-> Line(op.recs[i].ev, op.recs[i].retries)]
    /\ open' = FALSE
    /\ saved' = IF op.kind = "delete" THEN saved \ {op.ev} ELSE saved
    /\ deleted' = IF op.kind = "delete" THEN deleted \cup {op.ev} ELSE deleted
    /\ op' = Idle
    /\ UNCHANGED failures

\* An error or a crash before the rename: what is in path.tmp is removed, or
\* truncated by the next os.Create.
RewriteFails ==
    /\ op # Idle
    /\ op' = Idle
    /\ UNCHANGED <<file, open, failures, saved, deleted>>

FileNext ==
    \/ \E ev \in Events : \/ SaveReturns(ev)
                          \/ SaveFails(ev)
                          \/ RewriteBegin("delete", ev, 0)
                          \/ RewriteBegin("update", ev, 1)
    \/ RewriteRename
    \/ RewriteFails

FileSpec == FileInit /\ [][FileNext]_fileVars

-------------------------------------------------------------------------------
(* Properties. *)

\* What failures cost: a failed or interrupted Save spoils at most one record
\* that another Save reported as stored (the one appended to its unfinished
\* line), and a rewrite that fails or is interrupted costs nothing.
LossBoundedByFailures ==
    Cardinality({ev \in saved : GetResult(ev) # "found"}) <= failures

\* After Delete returned nil no record of the event is left in the file, however
\* many lines it had and whatever crashes came between: no retry of it follows.
DeletedStaysDeleted ==
    \A ev \in deleted : GetResult(ev) # "found"

\* ListRecent lists every event at most once, with the newest of its records,
\* and leaves out only events whose records are all older than the last Limit
\* records.
ListsNewestOnce ==
    LET recs   == readAllLocked(file)
        list   == ListRecent(recs, Limit)
        recent == {i \in DOMAIN recs : i > Len(recs) - Limit}
    IN  /\ \A i, j \in DOMAIN list : i # j => list[i].ev # list[j].ev
        /\ \A i \in DOMAIN list : list[i] = recs[LastOf(recs, list[i].ev)]
        /\ {list[i].ev : i \in DOMAIN list} = {recs[i].ev : i \in recent}
===============================================================================
