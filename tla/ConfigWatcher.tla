---------------------------- MODULE ConfigWatcher ----------------------------
(***************************************************************************)
(* The start of the gateway with its configuration and the reload of       *)
(* CONFIG_FILE while it runs (internal/config/watcher.go, run() in         *)
(* cmd/server/main.go).                                                    *)
(*                                                                         *)
(* One goroutine takes file-system events, reads the file, validates what  *)
(* it read and stores it; meanwhile the file is truncated, written in      *)
(* parts, replaced or removed, and the queue of events may overflow.       *)
(***************************************************************************)
EXTENDS Config, Sequences

CONSTANTS
    Environments,  \* environments the process may be started in
    Contents,      \* what is written to the file, parsed into settings
    NoFile,        \* there is no file, or nothing is being written
    MaxWrites,     \* bound: changes of the file
    MaxEvents      \* capacity of the event queue

ASSUME WatcherAssumption ==
    /\ NoFile \notin Contents
    /\ MaxWrites \in Nat
    /\ MaxEvents \in Nat \ {0}

VARIABLES
    proc,      \* run(): boot, up, exited
    env,       \* the environment of the process
    file,      \* CONFIG_FILE as it is on disk
    writing,   \* the content an unfinished write will leave, or NoFile
    writes,
    events,    \* file-system events the loop has not taken
    overflow,  \* an event was dropped because the queue was full
    touched,   \* the file was written or created since the loop began
    loop,      \* watchLoop: none, idle, read, check, notify, ended
    newCfg,    \* the configuration reload has read
    current,   \* Watcher.current
    level,     \* the level of the logger
    stopped    \* Stop was called

vars == <<proc, env, file, writing, writes, events, overflow, touched, loop, newCfg, current, level, stopped>>
fileVars == <<file, writing, writes, events, overflow, touched>>

Init ==
    /\ proc = "boot"
    /\ env \in Environments
    /\ file \in Contents \cup {NoFile}
    /\ writing = NoFile
    /\ writes = 0
    /\ events = <<>>
    /\ overflow = FALSE
    /\ touched = FALSE
    /\ loop = "none"
    /\ current = LoadFromEnv(env)
    /\ newCfg = current
    /\ level = ParseLevel(current.LOG_LEVEL)
    /\ stopped = FALSE

----------------------------------------------------------------------------
(* The file system *)

(* An event reaches the watcher once it watches the directory. *)
Notify(op) ==
    IF loop \in {"none", "ended"} THEN UNCHANGED <<events, overflow, touched>>
    ELSE /\ touched' = (touched \/ op # "remove")
         /\ IF Len(events) < MaxEvents
            THEN events' = Append(events, op) /\ UNCHANGED overflow
            ELSE overflow' = TRUE /\ UNCHANGED events

Change == writes < MaxWrites /\ writes' = writes + 1

(* The file is truncated and written up to some line. *)
WriteBegin(f) ==
    /\ Change /\ writing = NoFile /\ file # NoFile
    /\ \E written \in SUBSET DOMAIN f : file' = [k \in written |-> f[k]]
    /\ writing' = f
    /\ Notify("write")
    /\ UNCHANGED <<proc, env, loop, newCfg, current, level, stopped>>

WriteEnd ==
    /\ writing # NoFile
    /\ file' = writing
    /\ writing' = NoFile
    /\ Notify("write")
    /\ UNCHANGED <<proc, env, writes, loop, newCfg, current, level, stopped>>

(* Another file is renamed to it, or it is created. *)
Replace(f) ==
    /\ Change /\ writing = NoFile
    /\ file' = f
    /\ Notify("create")
    /\ UNCHANGED <<proc, env, writing, loop, newCfg, current, level, stopped>>

Remove ==
    /\ Change /\ writing = NoFile /\ file # NoFile
    /\ file' = NoFile
    /\ Notify("remove")
    /\ UNCHANGED <<proc, env, writing, loop, newCfg, current, level, stopped>>

----------------------------------------------------------------------------
(* run() *)

(* An invalid configuration ends the process. *)
Boot ==
    /\ proc = "boot"
    /\ proc' = IF Validate(current) THEN "up" ELSE "exited"
    /\ UNCHANGED <<env, loop, newCfg, current, level, stopped>> /\ UNCHANGED fileVars

(* NewWatcher and Start, which does not load the file; when there is none
   the process goes on without a loop. *)
StartWatcher ==
    /\ proc = "up" /\ loop = "none"
    /\ loop' = IF file # NoFile THEN "idle" ELSE "ended"
    /\ UNCHANGED <<proc, env, newCfg, current, level, stopped>> /\ UNCHANGED fileVars

Stop ==
    /\ proc = "up" /\ loop # "none" /\ ~stopped
    /\ stopped' = TRUE
    /\ UNCHANGED <<proc, env, loop, newCfg, current, level>> /\ UNCHANGED fileVars

----------------------------------------------------------------------------
(* watchLoop and reload *)

Mut_TakeEvent ==
    /\ loop = "idle" /\ events # <<>>
    /\ events' = Tail(events)
    /\ loop' = IF Head(events) = "write" THEN "read" ELSE "idle"
    /\ UNCHANGED <<proc, env, file, writing, writes, overflow, touched, newCfg, current, level, stopped>>

(* The loop takes an event, if it likes even after Stop. *)
TakeEvent ==
    /\ loop = "idle" /\ events # <<>>
    /\ events' = Tail(events)
    /\ loop' = IF Head(events) \in {"write", "create"} THEN "read" ELSE "idle"
    /\ UNCHANGED <<proc, env, file, writing, writes, overflow, touched, newCfg, current, level, stopped>>

ExitLoop ==
    /\ loop = "idle" /\ stopped
    /\ loop' = "ended"
    /\ UNCHANGED <<proc, env, newCfg, current, level, stopped>> /\ UNCHANGED fileVars

(* LoadFromFile *)
ReadFile ==
    /\ loop = "read"
    /\ IF file = NoFile
       THEN loop' = "idle" /\ UNCHANGED newCfg
       ELSE loop' = "check" /\ newCfg' = LoadFromMap(file, env)
    /\ UNCHANGED <<proc, env, current, level, stopped>> /\ UNCHANGED fileVars

Mut_StoreUnchecked ==
    /\ loop = "check"
    /\ IF ~configsEqual(current, newCfg)
       THEN loop' = "notify" /\ current' = newCfg
       ELSE loop' = "idle" /\ UNCHANGED current
    /\ UNCHANGED <<proc, env, newCfg, level, stopped>> /\ UNCHANGED fileVars

Mut_StoreFirst ==
    /\ loop = "check"
    /\ IF Validate(newCfg)
       THEN /\ current' = newCfg
            /\ loop' = IF configsEqual(current, newCfg) THEN "idle" ELSE "notify"
       ELSE loop' = "idle" /\ UNCHANGED current
    /\ UNCHANGED <<proc, env, newCfg, level, stopped>> /\ UNCHANGED fileVars

(* Validate, compare with the current configuration, Store. *)
StoreConfig ==
    /\ loop = "check"
    /\ IF Validate(newCfg) /\ ~configsEqual(current, newCfg)
       THEN loop' = "notify" /\ current' = newCfg
       ELSE loop' = "idle" /\ UNCHANGED current
    /\ UNCHANGED <<proc, env, newCfg, level, stopped>> /\ UNCHANGED fileVars

OnChange ==
    /\ loop = "notify"
    /\ loop' = "idle"
    /\ level' = ParseLevel(newCfg.LOG_LEVEL)
    /\ UNCHANGED <<proc, env, newCfg, current, stopped>> /\ UNCHANGED fileVars

Loop == TakeEvent \/ ExitLoop \/ ReadFile \/ StoreConfig \/ OnChange

Next ==
    \/ \E f \in Contents : WriteBegin(f) \/ Replace(f)
    \/ WriteEnd \/ Remove
    \/ Boot \/ StartWatcher \/ Stop
    \/ Loop

(* The goroutine of the loop runs, and a write that was begun is finished. *)
Fairness == WF_vars(Loop) /\ WF_vars(WriteEnd)

Spec == Init /\ [][Next]_vars /\ Fairness

----------------------------------------------------------------------------
(* Properties *)

(* A running gateway has a valid configuration whatever a reload met: an
   empty, half-written, missing or wrong file. *)
CurrentAlwaysValid == proc = "up" => Validate(current)

(* The logger has the level of the current configuration, except between
   Store and onChange: a reload that is skipped as unchanged leaves both. *)
LevelMatchesCurrent == loop # "notify" => level = ParseLevel(current.LOG_LEVEL)

FileIsCurrent == configsEqual(current, LoadFromMap(file, env))

(* When a file that was changed under the loop has come to rest with a valid
   content, that content is current in every setting but the level, however
   the reads fell between the steps of the writers - unless the loop was
   stopped or an event was dropped on overflow. *)
Converges ==
    <>[](touched /\ loop # "ended" /\ ~overflow /\ file # NoFile
            => FileIsCurrent \/ ~Validate(LoadFromMap(file, env)))

=============================================================================
