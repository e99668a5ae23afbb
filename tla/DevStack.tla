------------------------------- MODULE DevStack -------------------------------
(***************************************************************************)
(* The commands that prepare a database and the development servers that   *)
(* stand on it: the migration runner, the seed, the start of the native    *)
(* and of the WASI stack, their end by Ctrl-C, and the commands that stop  *)
(* a stack or test it.  Commands are processes of their own: they meet in  *)
(* the database, in the container's name and in one file.                  *)
(***************************************************************************)
EXTENDS Naturals, FiniteSets

CONSTANTS
    File,         \* the migrations, by their versions
    Command,      \* processes; each runs one command
    Caller,       \* who started a database that was there before
    NoCommand,    \* nobody
    StackScenes   \* which commands run together

ASSUME StackAssumption ==
    File \subseteq Nat /\ IsFiniteSet(File) /\ {NoCommand, Caller} \cap Command = {}

VARIABLES
    container,    \* the handles of the one database; it runs while there is any
    applied,      \* how often the script of a migration was committed
    recorded,     \* rows of _migrations
    migrationLock,\* who holds the advisory lock
    rows,         \* what the seed has created
    apiKeys,      \* the commands whose seed created an API key
    child,        \* the running processes a command spawned
    runtime,      \* the runtime file: the command that wrote it
    command,      \* where each command is and what it holds
    stackScene

stackVars == <<container, applied, recorded, migrationLock, rows, apiKeys, child, runtime,
               command, stackScene>>

Servers == {"start", "wasm", "bare", "db_only"}
Service == {"backend", "frontend", "proxy"}

\* What a command starts after what: cmd_start, prepare_environment, cmd_wasm, cmd_db_only.
After == [start |-> [none |-> "backend", backend |-> "frontend", frontend |-> "proxy",
                     proxy |-> "file"],
          wasm |-> [none |-> "frontend", frontend |-> "backend", backend |-> "proxy",
                    proxy |-> "file"],
          bare |-> [none |-> "backend", backend |-> "ready"],
          db_only |-> [none |-> "ready"]]

\* The rows of seed_data, in its order.
SeedRows == {"realm", "admin", "role", "grant", "ui", "service"}
SeedAfter == [realm |-> "admin", admin |-> "role", role |-> "grant", grant |-> "ui",
              ui |-> "service", service |-> "key"]

StackPlaces == {"new", "lock", "files", "apply", "record", "commit", "find", "insert", "key",
                "wait", "file", "ready", "remove", "clear", "done"} \cup Service
StackWork == [kind : Servers \cup {"none", "migrate", "seed", "stop", "wasm_stop", "e2e"},
              at : StackPlaces, connected : BOOLEAN, rest : SUBSET File,
              row : SeedRows \cup {"none", "key"}, last : Service \cup {"none"},
              held : SUBSET Service,
              outcome : {"none", "failed", "collided", "complete", "stopped", "killed"}]

StackTypeOK ==
    /\ container \subseteq Command \cup {Caller}
    /\ applied \in [File -> 0 .. Cardinality(Command)] /\ recorded \subseteq File
    /\ migrationLock \in Command \cup {NoCommand}
    /\ rows \subseteq SeedRows /\ apiKeys \subseteq Command
    /\ child \subseteq Command \X Service
    /\ runtime \in Command \cup {NoCommand}
    /\ command \in [Command -> StackWork]
    /\ stackScene \in StackScenes

-----------------------------------------------------------------------------
database == <<container, applied, recorded, migrationLock, rows, apiKeys>>
host == <<child, runtime, stackScene>>

IdleCommand == [kind |-> "none", at |-> "new", connected |-> FALSE, rest |-> File,
                row |-> "none", last |-> "none", held |-> {}, outcome |-> "none"]

\* A handle that is dropped removes the container and its data, whoever else holds one:
\* whoever was connected is not any more.
Gone(q, new) ==
    /\ container' = {} /\ applied' = [f \in File |-> 0] /\ recorded' = {}
    /\ rows' = {} /\ apiKeys' = {} /\ migrationLock' = NoCommand
    /\ command' = [d \in Command |->
          IF d = q THEN new ELSE [command[d] EXCEPT !.connected = FALSE]]

StackAt(q, place) == command' = [command EXCEPT ![q].at = place]
Ended(q, outcome) ==
    [command[q] EXCEPT !.at = "done", !.connected = FALSE, !.outcome = outcome]

\* The end of a process closes its connection: the lock is free, the transaction undone.
Unlocked(q) == IF migrationLock = q THEN NoCommand ELSE migrationLock

Begin(q, kind, place) ==
    /\ command[q].at = "new" /\ kind \in stackScene
    /\ command' = [command EXCEPT ![q].kind = kind, ![q].at = place,
                                  ![q].connected = TRUE]

-----------------------------------------------------------------------------
\* oidc-migrate, and `seed` of the WASI stack, on a database that is there.
StartMigrate(q, kind) ==
    /\ kind \in {"migrate", "seed"} /\ container # {}
    /\ Begin(q, kind, "lock")
    /\ UNCHANGED <<database, host>>

\* start_database: the container's name is one; a container of that name is used again,
\* or its start fails.
StartDatabase(q, kind) ==
    /\ kind \in Servers
    /\ container' = container \cup {q}
    /\ Begin(q, kind, "lock")
    /\ UNCHANGED <<applied, recorded, migrationLock, rows, apiKeys, host>>

\* pg_advisory_lock, held as long as the connection.
LockFree(q) == migrationLock = NoCommand
AcquireMigrationLock(q) ==
    /\ command[q].at = "lock" /\ command[q].connected /\ LockFree(q)
    /\ migrationLock' = q
    /\ StackAt(q, "files")
    /\ UNCHANGED <<container, applied, recorded, rows, apiKeys, host>>

NextFile(q) == CHOOSE f \in command[q].rest : \A g \in command[q].rest : f <= g

\* The versions in their order; one that is recorded is skipped.
CheckFile(q) ==
    /\ command[q].at = "files" /\ command[q].connected /\ command[q].rest # {}
    /\ command' = IF NextFile(q) \in recorded
                  THEN [command EXCEPT ![q].rest = @ \ {NextFile(q)}]
                  ELSE [command EXCEPT ![q].at = "apply"]
    /\ UNCHANGED <<database, host>>

ApplyAtOnce(q) ==
    /\ command[q].at = "apply" /\ command[q].connected
    /\ applied' = [applied EXCEPT ![NextFile(q)] = @ + 1]
    /\ StackAt(q, "record")
    /\ UNCHANGED <<container, recorded, migrationLock, rows, apiKeys, host>>

\* BEGIN, batch_execute: what the script does is in the transaction.
Apply(q) ==
    /\ command[q].at = "apply" /\ command[q].connected
    /\ StackAt(q, "record")
    /\ UNCHANGED <<database, host>>

\* INSERT INTO _migrations: filename is UNIQUE.
RecordMigration(q) ==
    /\ command[q].at = "record" /\ command[q].connected
    /\ IF NextFile(q) \in recorded
       THEN command' = [command EXCEPT ![q] = Ended(q, "collided")]
       ELSE StackAt(q, "commit")
    /\ migrationLock' = IF NextFile(q) \in recorded THEN Unlocked(q) ELSE migrationLock
    /\ UNCHANGED <<container, applied, recorded, rows, apiKeys, host>>

Commit(q) ==
    /\ command[q].at = "commit" /\ command[q].connected
    /\ applied' = [applied EXCEPT ![NextFile(q)] = @ + 1]
    /\ recorded' = recorded \cup {NextFile(q)}
    /\ command' = [command EXCEPT ![q].at = "files", ![q].rest = @ \ {NextFile(q)}]
    /\ UNCHANGED <<container, migrationLock, rows, apiKeys, host>>

\* The connection is dropped with the function; oidc-migrate ends, the others seed.
FinishMigrations(q) ==
    /\ command[q].at = "files" /\ command[q].connected /\ command[q].rest = {}
    /\ migrationLock' = Unlocked(q)
    /\ command' = IF command[q].kind = "migrate"
                  THEN [command EXCEPT ![q] = Ended(q, "complete")]
                  ELSE [command EXCEPT ![q].at = "find", ![q].row = "realm"]
    /\ UNCHANGED <<container, applied, recorded, rows, apiKeys, host>>

-----------------------------------------------------------------------------
\* seed_data: a step finds its row or creates it, without a transaction around both.
SeedNext(q) ==
    LET next == SeedAfter[command[q].row] IN
    command' = [command EXCEPT ![q].row = next, ![q].at = IF next = "key" THEN "key" ELSE "find"]

FindRow(q) ==
    /\ command[q].at = "find" /\ command[q].connected
    /\ IF command[q].row \in rows THEN SeedNext(q) ELSE StackAt(q, "insert")
    /\ UNCHANGED <<database, host>>

\* Each has a UNIQUE constraint; the grant alone is inserted ON CONFLICT DO NOTHING.
InsertRow(q) ==
    /\ command[q].at = "insert" /\ command[q].connected
    /\ IF command[q].row \in rows \ {"grant"}
       THEN command' = [command EXCEPT ![q] = Ended(q, "failed")]
       ELSE SeedNext(q)
    /\ rows' = rows \cup {command[q].row}
    /\ UNCHANGED <<container, applied, recorded, migrationLock, apiKeys, host>>

\* The API key is best effort and within ten seconds: it may or may not be there after.
SeedKey(q) ==
    /\ command[q].at = "key"
    /\ apiKeys' \in IF command[q].connected THEN {apiKeys, apiKeys \cup {q}} ELSE {apiKeys}
    /\ command' = IF command[q].kind = "seed" THEN [command EXCEPT ![q] = Ended(q, "complete")]
                  ELSE [command EXCEPT ![q].at = After[command[q].kind].none]
    /\ UNCHANGED <<container, applied, recorded, migrationLock, rows, host>>

-----------------------------------------------------------------------------
\* A server is spawned, then asked over HTTP until it answers; only then is the process kept
\* for the shutdown.
Spawn(q, s) ==
    /\ command[q].at = s
    /\ child' = child \cup {<<q, s>>}
    /\ command' = [command EXCEPT ![q].at = "wait", ![q].last = s]
    /\ UNCHANGED <<database, runtime, stackScene>>

StartBackend(q) == command[q].kind = "start" /\ Spawn(q, "backend")
StartFrontendDev(q) == command[q].kind = "start" /\ Spawn(q, "frontend")
StartFrontendWasmtime(q) == command[q].kind = "wasm" /\ Spawn(q, "frontend")
StartBackendWasmtime(q) == command[q].kind = "wasm" /\ Spawn(q, "backend")
StartBare(q) == command[q].kind = "bare" /\ Spawn(q, "backend")
StartProxy(q) == Spawn(q, "proxy")

KeptNone(q) == command[q].held
Kept(q) == command[q].held \cup {command[q].last}

ServiceUp(q) ==
    /\ command[q].at = "wait" /\ <<q, command[q].last>> \in child
    /\ command' = [command EXCEPT ![q].held = Kept(q),
                                  ![q].at = After[command[q].kind][command[q].last]]
    /\ UNCHANGED <<database, host>>

WriteRuntimeState(q) ==
    /\ command[q].at = "file"
    /\ runtime' = q
    /\ StackAt(q, "ready")
    /\ UNCHANGED <<database, child, stackScene>>

\* shutdown_all: the processes that are kept, the container, then the files.
Shutdown(q) ==
    /\ command[q].at = "ready"
    /\ child' = child \ ({q} \X command[q].held)
    /\ IF q \in container
       THEN Gone(q, [command[q] EXCEPT !.at = "clear", !.connected = FALSE, !.held = {}])
       ELSE /\ command' = [command EXCEPT ![q].at = "clear", ![q].held = {}]
            /\ UNCHANGED database
    /\ UNCHANGED <<runtime, stackScene>>

RemoveFiles(q) ==
    /\ command[q].at = "clear"
    /\ runtime' = NoCommand
    /\ command' = [command EXCEPT ![q] = Ended(q, "stopped")]
    /\ UNCHANGED <<database, child, stackScene>>

\* An error ends the command without shutdown_all: its state is dropped, and with it the
\* container; the processes it spawned go on.
FailCommand(q) ==
    /\ command[q].at \in StackPlaces \ {"new", "done", "ready", "key", "remove", "clear"}
    /\ IF q \in container
       THEN Gone(q, Ended(q, "failed"))
       ELSE /\ command' = [command EXCEPT ![q] = Ended(q, "failed")]
            /\ migrationLock' = Unlocked(q)
            /\ UNCHANGED <<container, applied, recorded, rows, apiKeys>>
    /\ UNCHANGED host

\* Ctrl-C before the stack is ready, or kill: the process ends where it is.
KillCommand(q) ==
    /\ command[q].at \notin {"new", "done"}
    /\ command' = [command EXCEPT ![q] = Ended(q, "killed")]
    /\ migrationLock' = Unlocked(q)
    /\ UNCHANGED <<container, applied, recorded, rows, apiKeys, host>>

-----------------------------------------------------------------------------
\* `stop` kills by the name of the command line, whoever started it: what `start` runs and
\* every proxy; a wasmtime, whose command line names openid_connect_wasi.wasm, goes on.
\* Then it removes the container and the files.
KilledByName == {c \in child : command[c[1]].kind = "start" \/ c[2] = "proxy"}
StopProcesses(q) ==
    /\ child' = child \ KilledByName
    /\ Begin(q, "stop", "remove")
    /\ UNCHANGED <<database, runtime, stackScene>>

RemoveContainer(q) ==
    /\ command[q].at = "remove"
    /\ Gone(q, [command[q] EXCEPT !.at = "clear"])
    /\ UNCHANGED host

\* `stop` of the WASI stack is shutdown_all of a state that holds nothing.
StopNothing(q) ==
    /\ Begin(q, "wasm_stop", "clear")
    /\ UNCHANGED <<database, host>>

\* `e2e` reads the runtime file.
RunE2e(q) ==
    /\ command[q].at = "new" /\ "e2e" \in stackScene
    /\ command' = [command EXCEPT ![q] = [Ended(q, IF runtime = NoCommand THEN "failed"
                                                   ELSE "complete") EXCEPT !.kind = "e2e"]]
    /\ UNCHANGED <<database, host>>

-----------------------------------------------------------------------------
StackInit ==
    /\ stackScene \in StackScenes
    /\ container = IF stackScene \cap Servers = {} THEN {Caller} ELSE {}
    /\ applied = [f \in File |-> 0] /\ recorded = {}
    /\ migrationLock = NoCommand /\ rows = {} /\ apiKeys = {}
    /\ child = {} /\ runtime = NoCommand
    /\ command = [q \in Command |-> IdleCommand]

StackNext ==
    \E q \in Command :
        \/ \E kind \in {"migrate", "seed"} : StartMigrate(q, kind)
        \/ \E kind \in Servers : StartDatabase(q, kind)
        \/ AcquireMigrationLock(q)
        \/ CheckFile(q)
        \/ Apply(q)
        \/ RecordMigration(q)
        \/ Commit(q)
        \/ FinishMigrations(q)
        \/ FindRow(q)
        \/ InsertRow(q)
        \/ SeedKey(q)
        \/ StartBackend(q)
        \/ StartFrontendDev(q)
        \/ StartFrontendWasmtime(q)
        \/ StartBackendWasmtime(q)
        \/ StartBare(q)
        \/ StartProxy(q)
        \/ ServiceUp(q)
        \/ WriteRuntimeState(q)
        \/ Shutdown(q)
        \/ RemoveFiles(q)
        \/ FailCommand(q)
        \/ KillCommand(q)
        \/ StopProcesses(q)
        \/ RemoveContainer(q)
        \/ StopNothing(q)
        \/ RunE2e(q)

StackSpec == StackInit /\ [][StackNext]_stackVars

-----------------------------------------------------------------------------
\* The history of migrations is the history of the schema: whatever was interrupted and
\* whoever ran beside, a script is committed once exactly when it is recorded, no runner
\* meets the record of another, and a later version is never there without an earlier one.
MigrationsRecorded ==
    /\ \A f \in File : applied[f] = (IF f \in recorded THEN 1 ELSE 0)
    /\ \A q \in Command : command[q].outcome # "collided"
    /\ \A f, g \in File : f < g /\ g \in recorded => f \in recorded

\* A stack that says it is ready stands on a database with every migration and every row of
\* the seed, unless the database was taken away since; and Ctrl-C on it leaves neither a
\* process nor the container behind.
StacksWhole ==
    \A q \in Command :
        /\ command[q].at = "ready" /\ command[q].connected => rows = SeedRows /\ recorded = File
        /\ command[q].outcome = "stopped" =>
              q \notin container /\ \A s \in Service : <<q, s>> \notin child

\* Both, of every command.
StacksSound == MigrationsRecorded /\ StacksWhole
=============================================================================
