---------------------------- MODULE RunnerService ----------------------------
(***************************************************************************)
(* The single-slot operation runner of helpers/test-runner-service: the    *)
(* OperationCoordinator (worker.py), the AsyncioProcessRunner              *)
(* (processes.py), the StateStore (state.py) and the application lifespan  *)
(* (main.py), with the docker processes and containers they drive.         *)
(*                                                                         *)
(* The service is one asyncio event loop: what runs between two awaits is  *)
(* one action.  An operation drives up to two docker processes, one after  *)
(* the other: its "main" leg (docker build, docker pull or the docker run  *)
(* of the test container) and its "aux" leg (docker image inspect for the  *)
(* image operations, the Allure publisher container for a test run).       *)
(* Operation 0 stands for None.                                            *)
(***************************************************************************)
EXTENDS Naturals, Sequences, FiniteSets

CONSTANTS
    MaxOps,               \* bound: operations accepted over the whole behaviour
    Requests,             \* the kinds of operation that are asked for
    Clients,              \* requests that may ask for a cancellation
    NoClient,             \* nobody holds the coordinator's lock
    AllureEnabled,        \* settings.allure_enabled
    ReportPortalEnabled,  \* settings.reportportal_enabled
    MaxLines,             \* bound: lines in current.log
    MaxFaults             \* bound: file writes or docker stop calls that raise

ASSUME RunnerAssumption ==
    /\ MaxOps \in Nat
    /\ MaxLines \in Nat
    /\ MaxFaults \in Nat
    /\ Requests \subseteq {"build_image", "pull_image", "run_tests"}
    /\ NoClient \notin Clients
    /\ AllureEnabled \in BOOLEAN
    /\ ReportPortalEnabled \in BOOLEAN

VARIABLES
    life,             \* the lifespan of the application
    task,             \* coordinator._task: the operation its coroutine executes
    cancelRequested,  \* coordinator._cancel_requested
    lock,             \* holder of coordinator._lock across an await
    request,          \* progress of each POST /v1/current/cancel
    aim,              \* the container that a cancel or the shutdown stops
    attached,         \* process_runner._process: the operation that started it
    kind, stage, leg, \* per operation: its type and where its coroutine is
    disk,             \* current.json
    log,              \* current.log: the operation each line came from
    proc,             \* docker command line processes
    container,        \* docker containers
    faults,           \* calls that have raised so far
    ended,            \* history: the terminal status recorded for an operation
    reasons,          \* history: why an operation was asked to stop
    signalled         \* history: processes and containers asked to stop

world   == <<proc, container>>
history == <<ended, reasons, signalled>>
vars == <<life, task, cancelRequested, lock, request, aim, attached, kind,
          stage, leg, disk, log, proc, container, faults, ended, reasons,
          signalled>>

------------------------------------------------------------------------------

Ops == 1..MaxOps
Legs == {"main", "aux"}

(* OperationType and OperationStatus. *)
Kinds == {"build_image", "pull_image", "run_tests"}
ActiveStatus == {"building", "pulling", "running"}
TerminalStatus == {"succeeded", "passed", "failed", "cancelled", "timed_out",
                   "infrastructure_error", "interrupted"}
StartStatus == [build_image |-> "building", pull_image |-> "pulling",
                run_tests |-> "running"]

(* Where the coroutine of an operation is suspended.                       *)
(*   created     scheduled by create_task, not run yet                     *)
(*   spawning    awaiting create_subprocess_exec, _process not yet set     *)
(*   reading     awaiting output or the exit of _process                   *)
(*   lookup      awaiting the ReportPortal lookup after the run            *)
(*   stopping    timed out, docker stop issued                             *)
(*   stopped     timed out, docker stop has acted                          *)
(*   lateLookup  awaiting the ReportPortal lookup after a timeout          *)
(*   done        returned, raised or died with the service                 *)
ActiveStages == {"created", "spawning", "reading", "lookup", "stopping",
                 "stopped", "lateLookup"}
Stages == ActiveStages \cup {"none", "done"}

(* current.json: the fields that control the service.  container names the *)
(* leg whose container container_name designates.                          *)
NoState == [op |-> 0, status |-> "none", container |-> "none"]
StateRecords == [op : Ops, status : ActiveStatus \cup TerminalStatus,
                 container : Legs \cup {"none"}]
NoAim == [op |-> 0, leg |-> "main"]
Aims == [op : Ops, leg : Legs]

TypeOK ==
    /\ life \in {"down", "serving", "stopping", "stopped"}
    /\ task \in 0..MaxOps
    /\ cancelRequested \in BOOLEAN
    /\ lock \in Clients \cup {NoClient}
    /\ request \in [Clients -> {"idle", "waiting", "stopping", "stopped"}]
    /\ aim \in Aims \cup {NoAim}
    /\ attached \in 0..MaxOps
    /\ kind \in [Ops -> Kinds]
    /\ stage \in [Ops -> Stages]
    /\ leg \in [Ops -> Legs]
    /\ disk \in StateRecords \cup {NoState}
    /\ log \in Seq(Ops)
    /\ proc \in [Ops \X Legs -> {"none", "alive", "ok", "err"}]
    /\ container \in [Ops \X Legs -> {"none", "up", "down"}]
    /\ faults \in 0..MaxFaults
    /\ ended \in [Ops -> TerminalStatus \cup {"none"}]
    /\ reasons \in [Ops -> SUBSET {"cancel", "timeout", "shutdown"}]
    /\ signalled \in SUBSET (Ops \X Legs)

Init ==
    /\ life = "down"
    /\ task = 0
    /\ cancelRequested = FALSE
    /\ lock = NoClient
    /\ request = [c \in Clients |-> "idle"]
    /\ aim = NoAim
    /\ attached = 0
    /\ kind = [o \in Ops |-> "run_tests"]
    /\ stage = [o \in Ops |-> "none"]
    /\ leg = [o \in Ops |-> "main"]
    /\ disk = NoState
    /\ log = <<>>
    /\ proc = [p \in Ops \X Legs |-> "none"]
    /\ container = [p \in Ops \X Legs |-> "none"]
    /\ faults = 0
    /\ ended = [o \in Ops |-> "none"]
    /\ reasons = [o \in Ops |-> {}]
    /\ signalled = {}

------------------------------------------------------------------------------
(* Queries.                                                                *)

IsTerminal(state) == state.status \in TerminalStatus
Active(o) == stage[o] \in ActiveStages
TaskDone == task # 0 => stage[task] = "done"
Serving == life # "down"
IsRun(o) == kind[o] = "run_tests"
Here(o) == <<o, leg[o]>>

(* run() waits for the process itself once its output has ended.           *)
(* Mutant: the end of the output is taken for the end of the process.      *)
MutantExited(p) == proc[p] # "none"
Exited(p) == proc[p] \in {"ok", "err"}

(* The status of a test run, from the exit code of its main process.       *)
(* Mutants: the exit code of whatever ran last; no translation at all.     *)
MutantVerdictOfLast(o) == IF proc[Here(o)] = "ok" THEN "passed" ELSE "failed"
MutantRawVerdict(o) == proc[<<o, "main">>]
Verdict(o) == IF proc[<<o, "main">>] = "ok" THEN "passed" ELSE "failed"
Fault == faults < MaxFaults /\ faults' = faults + 1

(* uuid4 gives every operation a name of its own: the next unused one.     *)
Fresh(o) == stage[o] = "none" /\ \A p \in 1..(o - 1) : stage[p] # "none"

------------------------------------------------------------------------------
(* The process runner.                                                     *)

(* AsyncioProcessRunner.cancel, last lines: terminate self._process if it  *)
(* is still running, whoever's it is by then.                              *)
TerminateAttached ==
    signalled' = IF attached # 0 /\ proc[Here(attached)] = "alive"
                 THEN signalled \cup {Here(attached)}
                 ELSE signalled

(* docker stop: ends the container if it exists, fails silently otherwise. *)
DockerStop(p) ==
    IF container[p] = "up"
    THEN /\ container' = [container EXCEPT ![p] = "down"]
         /\ signalled' = signalled \cup {p}
    ELSE UNCHANGED <<container, signalled>>

(* create_subprocess_exec starts the process before it suspends.           *)
Spawn(o, l) ==
    /\ leg' = [leg EXCEPT ![o] = l]
    /\ stage' = [stage EXCEPT ![o] = "spawning"]
    /\ proc' = [proc EXCEPT ![<<o, l>>] = "alive"]

(* What the cancellation of run() leaves: its finally clause forgets the   *)
(* process; asyncio kills it only if create_subprocess_exec was pending.   *)
AbandonRun(o) ==
    /\ attached' = 0
    /\ proc' = IF stage[o] = "spawning" /\ proc[Here(o)] = "alive"
               THEN [proc EXCEPT ![Here(o)] = "err"]
               ELSE proc

------------------------------------------------------------------------------
(* OperationCoordinator._finish and StateStore.write.                      *)

(* The write of a terminal state: fsync of a temporary file and a rename.  *)
Record(o, status) ==
    /\ disk' = [op |-> o, status |-> status, container |-> "none"]
    /\ ended' = [ended EXCEPT ![o] = status]

(* The end of an operation's coroutine.  If the write raises inside the    *)
(* try of _execute_*, its handler tries to record infrastructure_error,    *)
(* which may raise as well; if it raises in a handler, nothing does.       *)
End(o, status, inTry) ==
    /\ stage' = [stage EXCEPT ![o] = "done"]
    /\ \/ Record(o, status) /\ UNCHANGED faults
       \/ /\ Fault
          /\ \/ UNCHANGED <<disk, ended>>
             \/ inTry /\ Record(o, "infrastructure_error")

(* The handlers record the two statuses below; the try block the others.   *)
Finish(o, status) ==
    End(o, status, status \notin {"timed_out", "infrastructure_error"})

(* A leg cannot be started: docker is missing or the fork fails.           *)
SpawnFails(o) ==
    /\ Finish(o, "infrastructure_error")
    /\ UNCHANGED <<leg, proc>>

------------------------------------------------------------------------------
(* Requests that start an operation: POST /v1/images/build,                *)
(* /v1/images/pull and /v1/runs.                                           *)

(* StateStore.reset_log: an empty file replaces current.log. *)
(* Mutant: the log of the previous operation is kept.                      *)
MutantKeepLog == UNCHANGED log
ResetLog == log' = <<>>

(* _start: under the lock, if no task is active.  A busy runner answers    *)
(* 409 and changes nothing.                                                *)
(* Mutants: one forgets to ask for the task, the other to take the lock.   *)
MutantStartIfUnlocked == life = "serving" /\ lock = NoClient
MutantStartUnlocked == life = "serving" /\ TaskDone
StartGuard == life = "serving" /\ lock = NoClient /\ TaskDone

Start(o, k) ==
    /\ StartGuard
    /\ Fresh(o)
    /\ kind' = [kind EXCEPT ![o] = k]
    /\ stage' = [stage EXCEPT ![o] = "created"]
    /\ cancelRequested' = FALSE
    /\ ResetLog
    /\ disk' = [op |-> o, status |-> StartStatus[k],
                container |-> IF k = "run_tests" THEN "main" ELSE "none"]
    /\ task' = o
    /\ UNCHANGED <<life, lock, request, aim, attached, leg, faults>>
    /\ UNCHANGED <<world, history>>

(* The log is already reset when the write of the new state raises.        *)
StartFails ==
    /\ StartGuard
    /\ Fault
    /\ cancelRequested' = FALSE
    /\ ResetLog
    /\ UNCHANGED <<life, task, lock, request, aim, attached, kind, stage,
                   leg, disk>>
    /\ UNCHANGED <<world, history>>

------------------------------------------------------------------------------
(* POST /v1/current/cancel.                                                *)

CancelRequest(c) ==
    /\ life = "serving"
    /\ request[c] = "idle"
    /\ request' = [request EXCEPT ![c] = "waiting"]
    /\ UNCHANGED <<life, task, cancelRequested, lock, aim, attached, kind,
                   stage, leg, disk, log, faults>>
    /\ UNCHANGED <<world, history>>

(* NoActiveOperationError: answered 409. *)
NothingToCancel == disk = NoState \/ IsTerminal(disk) \/ task = 0

CancelRejected(c) ==
    /\ request[c] = "waiting" /\ lock = NoClient
    /\ NothingToCancel
    /\ request' = [request EXCEPT ![c] = "idle"]
    /\ UNCHANGED <<life, task, cancelRequested, lock, aim, attached, kind,
                   stage, leg, disk, log, faults>>
    /\ UNCHANGED <<world, history>>

(* Accepted: an operation without a container is signalled at once, the    *)
(* container of any other is stopped while the lock stays held.            *)
CancelAccepted(c) ==
    /\ request[c] = "waiting" /\ lock = NoClient
    /\ ~NothingToCancel
    /\ cancelRequested' = TRUE
    /\ reasons' = [reasons EXCEPT ![disk.op] = @ \cup {"cancel"}]
    /\ IF disk.container = "none"
       THEN /\ request' = [request EXCEPT ![c] = "idle"]
            /\ TerminateAttached
            /\ UNCHANGED <<lock, aim>>
       ELSE /\ request' = [request EXCEPT ![c] = "stopping"]
            /\ lock' = c
            /\ aim' = [op |-> disk.op, leg |-> disk.container]
            /\ UNCHANGED signalled
    /\ UNCHANGED <<life, task, attached, kind, stage, leg, disk, log, faults,
                   ended>>
    /\ UNCHANGED world

CancelStops(c) ==
    /\ request[c] = "stopping"
    /\ DockerStop(<<aim.op, aim.leg>>)
    /\ request' = [request EXCEPT ![c] = "stopped"]
    /\ UNCHANGED <<life, task, cancelRequested, lock, aim, attached, kind,
                   stage, leg, disk, log, proc, faults, ended, reasons>>

(* docker stop is over: the attached process is terminated and the lock    *)
(* released.  Mutant: the lock stays held.                                 *)
MutantCancelKeepLock(c) ==
    /\ request[c] = "stopped"
    /\ request' = [request EXCEPT ![c] = "idle"]
    /\ TerminateAttached
    /\ UNCHANGED <<life, task, cancelRequested, lock, aim, attached, kind,
                   stage, leg, disk, log, faults, ended, reasons>>
    /\ UNCHANGED world
CancelReturns(c) ==
    /\ request[c] = "stopped"
    /\ request' = [request EXCEPT ![c] = "idle"]
    /\ lock' = NoClient
    /\ aim' = NoAim
    /\ TerminateAttached
    /\ UNCHANGED <<life, task, cancelRequested, attached, kind, stage, leg,
                   disk, log, faults, ended, reasons>>
    /\ UNCHANGED world

(* docker stop cannot be started: the request fails, the lock is released. *)
CancelFails(c) ==
    /\ request[c] = "stopping"
    /\ Fault
    /\ request' = [request EXCEPT ![c] = "idle"]
    /\ lock' = NoClient
    /\ aim' = NoAim
    /\ UNCHANGED <<life, task, cancelRequested, attached, kind, stage, leg,
                   disk, log>>
    /\ UNCHANGED <<world, history>>

------------------------------------------------------------------------------
(* The operation's coroutine: _execute_image_operation,                    *)
(* _execute_test_run, _publish_allure and the process runner's run.        *)

(* Variables no step of an operation's coroutine changes.                  *)
outside == <<life, task, cancelRequested, lock, request, aim, kind>>

(* The first step of the coroutine. *)
Launch(o) ==
    /\ stage[o] = "created"
    /\ \/ /\ Spawn(o, "main")
          /\ UNCHANGED <<disk, ended, faults>>
       \/ SpawnFails(o)
    /\ UNCHANGED <<outside, attached, log, container, reasons, signalled>>

(* create_subprocess_exec returns: self._process = process. *)
Attach(o) ==
    /\ stage[o] = "spawning"
    /\ stage' = [stage EXCEPT ![o] = "reading"]
    /\ attached' = o
    /\ UNCHANGED <<outside, leg, disk, log, faults>>
    /\ UNCHANGED <<world, history>>

(* The read loop appends one line of output to current.log. *)
ReadLine(o) ==
    /\ stage[o] = "reading"
    /\ Len(log) < MaxLines
    /\ log' = Append(log, o)
    /\ UNCHANGED <<outside, attached, stage, leg, disk, faults>>
    /\ UNCHANGED <<world, history>>

(* An image operation after its build or pull: the image is inspected      *)
(* unless the operation was cancelled or failed.                           *)
AfterBuild(o) ==
    IF cancelRequested THEN Finish(o, "cancelled") /\ UNCHANGED <<leg, proc>>
    ELSE IF proc[<<o, "main">>] = "err"
         THEN Finish(o, "failed") /\ UNCHANGED <<leg, proc>>
         ELSE \/ Spawn(o, "aux") /\ UNCHANGED <<disk, ended, faults>>
              \/ SpawnFails(o)

(* A test run once its container has ended and the ReportPortal lookup, if *)
(* any, is over.  The session directory, the Allure results and the reports'*)
(* paths are whatever the container left: publication may be skipped, its   *)
(* publisher may not start, and resolving a report path may raise, which    *)
(* the outer handler turns into infrastructure_error.                       *)
(* Mutants: the record keeps the name of the test container while the       *)
(* publisher runs; the cancellation is not looked at.                       *)
MutantAfterRunKeepName(o) ==
    IF cancelRequested THEN Finish(o, "cancelled") /\ UNCHANGED <<leg, proc>>
    ELSE \/ Finish(o, Verdict(o)) /\ UNCHANGED <<leg, proc>>
         \/ AllureEnabled /\ Spawn(o, "aux") /\ UNCHANGED <<disk, ended, faults>>
MutantAfterRunIgnoreCancel(o) ==
    \/ Finish(o, Verdict(o)) /\ UNCHANGED <<leg, proc>>
    \/ /\ AllureEnabled
       /\ disk' = [op |-> o, status |-> "running", container |-> "aux"]
       /\ Spawn(o, "aux")
       /\ UNCHANGED <<ended, faults>>
AfterRun(o) ==
    IF cancelRequested THEN Finish(o, "cancelled") /\ UNCHANGED <<leg, proc>>
    ELSE \/ Finish(o, Verdict(o)) /\ UNCHANGED <<leg, proc>>
         \/ Finish(o, "infrastructure_error") /\ UNCHANGED <<leg, proc>>
         \/ /\ AllureEnabled
            /\ disk' = [op |-> o, status |-> "running", container |-> "aux"]
            /\ Spawn(o, "aux")
            /\ UNCHANGED <<ended, faults>>

(* A test run after the attempt to publish, whatever came of it. *)
(* Mutant: a cancellation of the publisher is not looked at.               *)
MutantAfterPublishIgnoreCancel(o) ==
    Finish(o, Verdict(o)) /\ UNCHANGED <<leg, proc>>
AfterPublish(o) ==
    /\ Finish(o, IF cancelRequested THEN "cancelled" ELSE Verdict(o))
    /\ UNCHANGED <<leg, proc>>

(* An image operation after docker image inspect, which may print nothing: *)
(* the try block itself records infrastructure_error.                      *)
AfterInspect(o) ==
    /\ \/ proc[<<o, "aux">>] = "ok" /\ Finish(o, "succeeded")
       \/ End(o, "infrastructure_error", TRUE)
    /\ UNCHANGED <<leg, proc>>

(* run() sees the end of the output and the exit of its process. *)
MainReturns(o) ==
    /\ stage[o] = "reading" /\ leg[o] = "main" /\ Exited(<<o, "main">>)
    /\ attached' = 0
    /\ IF ~IsRun(o) THEN AfterBuild(o)
       ELSE IF ReportPortalEnabled
            THEN /\ stage' = [stage EXCEPT ![o] = "lookup"]
                 /\ UNCHANGED <<leg, proc, disk, ended, faults>>
            ELSE AfterRun(o)
    /\ UNCHANGED <<outside, log, container, reasons, signalled>>

AuxReturns(o) ==
    /\ stage[o] = "reading" /\ leg[o] = "aux" /\ Exited(<<o, "aux">>)
    /\ attached' = 0
    /\ IF IsRun(o) THEN AfterPublish(o) ELSE AfterInspect(o)
    /\ UNCHANGED <<outside, log, container, reasons, signalled>>

(* read_reportportal_result never raises. *)
LookupReturns(o) ==
    /\ stage[o] = "lookup"
    /\ AfterRun(o)
    /\ UNCHANGED <<outside, attached, log, container, reasons, signalled>>

(* The read loop raises: a line over the reader's limit, a full disk.      *)
RunRaises(o) ==
    /\ stage[o] = "reading"
    /\ AbandonRun(o)
    /\ Finish(o, IF ~IsRun(o) \/ leg[o] = "main" THEN "infrastructure_error"
                 ELSE IF cancelRequested THEN "cancelled" ELSE Verdict(o))
    /\ UNCHANGED <<outside, leg, log, container, reasons, signalled>>

(* asyncio.timeout(operation_timeout_seconds) cancels run().  The handler  *)
(* of an image operation calls cancel(None), which finds no process any    *)
(* more; the others issue docker stop.                                     *)
RunTimesOut(o) ==
    /\ stage[o] \in {"spawning", "reading"}
    /\ AbandonRun(o)
    /\ reasons' = [reasons EXCEPT ![o] = @ \cup {"timeout"}]
    /\ IF IsRun(o)
       THEN /\ stage' = [stage EXCEPT ![o] = "stopping"]
            /\ UNCHANGED <<disk, ended, faults>>
       ELSE Finish(o, "timed_out")
    /\ UNCHANGED <<outside, leg, log, container, signalled>>

TimeoutStops(o) ==
    /\ stage[o] = "stopping"
    /\ DockerStop(Here(o))
    /\ stage' = [stage EXCEPT ![o] = "stopped"]
    /\ UNCHANGED <<outside, attached, leg, disk, log, proc, faults, ended,
                   reasons>>

TimeoutReturns(o) ==
    /\ stage[o] = "stopped"
    /\ TerminateAttached
    /\ IF leg[o] = "aux" THEN AfterPublish(o)
       ELSE /\ IF ReportPortalEnabled
               THEN /\ stage' = [stage EXCEPT ![o] = "lateLookup"]
                    /\ UNCHANGED <<disk, ended, faults>>
               ELSE Finish(o, "timed_out")
            /\ UNCHANGED <<leg, proc>>
    /\ UNCHANGED <<outside, attached, log, container, reasons>>

(* docker stop cannot be started: raised out of the TimeoutError handler.  *)
(* That of the publisher is inside the outer try, whose handler records    *)
(* infrastructure_error if it can.                                         *)
TimeoutStopFails(o) ==
    /\ stage[o] = "stopping"
    /\ Fault
    /\ stage' = [stage EXCEPT ![o] = "done"]
    /\ \/ UNCHANGED <<disk, ended>>
       \/ leg[o] = "aux" /\ Record(o, "infrastructure_error")
    /\ UNCHANGED <<outside, attached, leg, log, reasons, signalled>>
    /\ UNCHANGED world

LateLookupReturns(o) ==
    /\ stage[o] = "lateLookup"
    /\ Finish(o, "timed_out")
    /\ UNCHANGED <<outside, attached, leg, log, reasons, signalled>>
    /\ UNCHANGED world

------------------------------------------------------------------------------
(* The lifespan: startup, shutdown, and the process dying in between.      *)

(* StateStore.mark_interrupted: the record of an operation that nobody     *)
(* executes any more is closed.                                            *)
(* Mutants: the record is left alone, or closed even if it is terminal.    *)
MutantNoMark == UNCHANGED <<disk, ended>>
MutantMarkAlways ==
    IF disk = NoState THEN UNCHANGED <<disk, ended>>
    ELSE /\ disk' = [disk EXCEPT !.status = "interrupted"]
         /\ ended' = [ended EXCEPT ![disk.op] = "interrupted"]
MarkInterrupted ==
    IF disk = NoState \/ IsTerminal(disk) THEN UNCHANGED <<disk, ended>>
    ELSE /\ disk' = [disk EXCEPT !.status = "interrupted"]
         /\ ended' = [ended EXCEPT ![disk.op] = "interrupted"]

(* A new coordinator has no task. *)
Startup ==
    /\ life = "down"
    /\ life' = "serving"
    /\ MarkInterrupted
    /\ UNCHANGED <<task, cancelRequested, lock, request, aim, attached, kind,
                   stage, leg, log, faults, reasons, signalled>>
    /\ UNCHANGED world

(* What a stopped service leaves: files, docker processes and containers.  *)
Forget ==
    /\ life' = "down"
    /\ task' = 0
    /\ cancelRequested' = FALSE
    /\ lock' = NoClient
    /\ request' = [c \in Clients |-> "idle"]
    /\ aim' = NoAim
    /\ attached' = 0
    /\ stage' = [o \in Ops |-> IF Active(o) THEN "done" ELSE stage[o]]

(* task.cancel(): CancelledError passes every handler of the coroutine.    *)
CancelTask ==
    proc' = IF task # 0 /\ stage[task] = "spawning"
                        /\ proc[Here(task)] = "alive"
            THEN [proc EXCEPT ![Here(task)] = "err"]
            ELSE proc

(* uvicorn runs the shutdown once no request is in flight.  An active      *)
(* image operation is signalled and cancelled; a container is stopped      *)
(* first.                                                                  *)
Shutdown ==
    /\ life = "serving"
    /\ \A c \in Clients : request[c] = "idle"
    /\ \/ /\ TaskDone
          /\ Forget
          /\ UNCHANGED <<proc, reasons, signalled>>
       \/ /\ ~TaskDone /\ disk.container = "none"
          /\ reasons' = [reasons EXCEPT ![disk.op] = @ \cup {"shutdown"}]
          /\ TerminateAttached
          /\ CancelTask
          /\ Forget
       \/ /\ ~TaskDone /\ disk.container # "none"
          /\ reasons' = [reasons EXCEPT ![disk.op] = @ \cup {"shutdown"}]
          /\ life' = "stopping"
          /\ aim' = [op |-> disk.op, leg |-> disk.container]
          /\ UNCHANGED <<task, cancelRequested, lock, request, attached,
                         stage, proc, signalled>>
    /\ UNCHANGED <<kind, leg, disk, log, container, faults, ended>>

ShutdownStops ==
    /\ life = "stopping"
    /\ DockerStop(<<aim.op, aim.leg>>)
    /\ life' = "stopped"
    /\ UNCHANGED <<task, cancelRequested, lock, request, aim, attached, kind,
                   stage, leg, disk, log, proc, faults, ended, reasons>>

ShutdownReturns ==
    /\ life = "stopped"
    /\ TerminateAttached
    /\ CancelTask
    /\ Forget
    /\ UNCHANGED <<kind, leg, disk, log, container, faults, ended, reasons>>

(* The service dies; inside _start it dies between the reset of the log    *)
(* and the write of the new state.                                         *)
Crash ==
    /\ Serving
    /\ Forget
    /\ \/ UNCHANGED log
       \/ StartGuard /\ ResetLog
    /\ UNCHANGED <<kind, leg, disk, faults>>
    /\ UNCHANGED <<world, history>>

------------------------------------------------------------------------------
(* Docker, as the service uses it.                                         *)

inside == <<life, task, cancelRequested, lock, request, aim, attached, kind,
            stage, leg, disk, log, faults>>

(* docker run creates its container while its process runs. *)
ContainerStarts(o, l) ==
    /\ IsRun(o) /\ proc[<<o, l>>] = "alive" /\ container[<<o, l>>] = "none"
    /\ container' = [container EXCEPT ![<<o, l>>] = "up"]
    /\ UNCHANGED <<inside, proc, history>>

ContainerEnds(o, l) ==
    /\ container[<<o, l>>] = "up"
    /\ container' = [container EXCEPT ![<<o, l>>] = "down"]
    /\ UNCHANGED <<inside, proc, history>>

(* An attached docker run returns when its container has ended, with the   *)
(* container's status, or fails before it created one.                     *)
ProcessExits(o, l) ==
    /\ proc[<<o, l>>] = "alive" /\ container[<<o, l>>] # "up"
    /\ \/ proc' = [proc EXCEPT ![<<o, l>>] = "err"]
       \/ /\ IsRun(o) => container[<<o, l>>] = "down"
          /\ proc' = [proc EXCEPT ![<<o, l>>] = "ok"]
    /\ UNCHANGED <<inside, container, history>>

------------------------------------------------------------------------------

OperationStep(o) ==
    \/ Launch(o) \/ Attach(o) \/ ReadLine(o)
    \/ MainReturns(o) \/ AuxReturns(o) \/ LookupReturns(o)
    \/ RunRaises(o)
    \/ RunTimesOut(o) \/ TimeoutStops(o) \/ TimeoutReturns(o)
    \/ TimeoutStopFails(o) \/ LateLookupReturns(o)

CancelStep(c) ==
    \/ CancelRequest(c) \/ CancelRejected(c) \/ CancelAccepted(c)
    \/ CancelStops(c) \/ CancelReturns(c) \/ CancelFails(c)

LifespanStep ==
    Startup \/ Shutdown \/ ShutdownStops \/ ShutdownReturns \/ Crash

DockerStep(o, l) ==
    ContainerStarts(o, l) \/ ContainerEnds(o, l) \/ ProcessExits(o, l)

Next ==
    \/ \E o \in Ops, k \in Requests : Start(o, k)
    \/ StartFails
    \/ \E c \in Clients : CancelStep(c)
    \/ \E o \in Ops : OperationStep(o)
    \/ LifespanStep
    \/ \E o \in Ops, l \in Legs : DockerStep(o, l)

Spec == Init /\ [][Next]_vars

(* Every await of an operation ends: a run is bounded by asyncio.timeout,  *)
(* docker stop kills after its grace period, the lookup has a timeout of   *)
(* its own.  The lock is granted in order of arrival.  compose.yaml        *)
(* restarts a service that died.                                           *)
Progress(o) ==
    \/ Launch(o) \/ Attach(o) \/ MainReturns(o) \/ AuxReturns(o)
    \/ LookupReturns(o) \/ RunTimesOut(o) \/ TimeoutStops(o)
    \/ TimeoutReturns(o) \/ LateLookupReturns(o)

Fairness ==
    /\ \A o \in Ops : WF_vars(Progress(o))
    /\ \A c \in Clients :
          /\ SF_vars(CancelRejected(c) \/ CancelAccepted(c))
          /\ WF_vars(CancelStops(c) \/ CancelReturns(c))
    /\ WF_vars(Startup)
    /\ WF_vars(ShutdownStops \/ ShutdownReturns)

FairSpec == Spec /\ Fairness

------------------------------------------------------------------------------
(* Properties.                                                             *)

(* One slot: the coroutine of at most one operation is unfinished, it is   *)
(* the coordinator's task, and self._process can only be its process.      *)
SingleOperation ==
    /\ \A o \in Ops : Active(o) => task = o
    /\ attached # 0 => attached = task /\ stage[attached] = "reading"

(* While an operation is unfinished current.json is its record, not        *)
(* terminal, and names the container of the leg it is in, so a cancel, a   *)
(* shutdown and a 409 answer all refer to what is really running.          *)
RecordOfTask ==
    \A o \in Ops : Active(o) =>
        /\ disk.op = o
        /\ disk.status = StartStatus[kind[o]]
        /\ disk.container = IF IsRun(o) THEN leg[o] ELSE "none"

(* current.log never mixes operations: each of its lines was printed by    *)
(* the operation current.json describes, also after a crash or a failed    *)
(* write in the middle of _start.                                          *)
LogOfRecord == \A i \in 1..Len(log) : log[i] = disk.op

(* No stray signal: whatever was terminated or stopped belongs to an       *)
(* operation that was itself cancelled, timed out or shut down; the cancel *)
(* of one operation never reaches the process of the next.                 *)
SignalsAreAimed == \A p \in signalled : reasons[p[1]] # {}

(* A test run whose cancellation was accepted is never recorded as passed  *)
(* or failed: the interrupted run is not mistaken for a verdict.           *)
CancelledRunHasNoVerdict ==
    \A o \in Ops : IsRun(o) /\ "cancel" \in reasons[o] =>
        ended[o] \notin {"passed", "failed"}

(* An operation that ended with a result or as cancelled left neither its  *)
(* main docker process nor its main container behind.                      *)
NothingLeftBehind ==
    \A o \in Ops :
        ended[o] \in {"passed", "failed", "succeeded", "cancelled"} =>
            Exited(<<o, "main">>) /\ container[<<o, "main">>] # "up"

(* The recorded verdict is that of the main process, whatever happened to  *)
(* the publisher; an image counts as prepared only if it was inspected.    *)
VerdictOfProcess ==
    \A o \in Ops :
        /\ ended[o] = "passed" => proc[<<o, "main">>] = "ok"
        /\ ended[o] = "failed" => proc[<<o, "main">>] = "err"
        /\ ended[o] = "succeeded" => \A l \in Legs : proc[<<o, l>>] = "ok"

(* As long as no write has failed, a service that accepts requests never   *)
(* shows an active operation nobody executes.                              *)
NoPhantomOperation ==
    life = "serving" /\ faults = 0 /\ disk # NoState /\ ~IsTerminal(disk)
        => Active(disk.op)

(* A terminal record is final: it is only ever replaced by the active      *)
(* record of a later operation.                                            *)
TerminalIsFinal ==
    [][IsTerminal(disk) /\ disk' # disk
          => disk'.op > disk.op /\ ~IsTerminal(disk)']_vars

(* The publisher is not launched for a run whose cancellation has been     *)
(* accepted, even if the run had already finished by itself.               *)
NoPublicationAfterCancel ==
    [][\A o \in Ops : IsRun(o) /\ "cancel" \in reasons[o]
          /\ proc[<<o, "aux">>] = "none" => proc'[<<o, "aux">>] = "none"]_vars

(* Every accepted operation gets a terminal record, through timeouts,      *)
(* cancellations, shutdowns and crashes, unless a file cannot be written.  *)
EveryOperationEnds ==
    \A o \in Ops : stage[o] = "created" ~> ended[o] # "none" \/ faults > 0

(* Every cancel request is answered: the lock is never held for ever.      *)
EveryCancelIsAnswered ==
    \A c \in Clients : request[c] = "waiting" ~> request[c] = "idle"

(* The service implements the single operation slot: every step of it      *)
(* accepts, prints, ends, abandons or interrupts one operation as the slot *)
(* allows, or changes neither file.                                        *)
Slot == INSTANCE OperationSlot WITH
            running <- \E o \in Ops : Active(o),
            record  <- [op |-> disk.op,
                        status |-> IF disk.status \in ActiveStatus
                                   THEN "active" ELSE disk.status]
ImplementsSlot == Slot!SlotSpec

(* "permits one active operation at a time": no two test containers of     *)
(* operations that this or an uninterrupted service ended run on the stand *)
(* together (an interrupted one is documented to be left alone).           *)
OneTestContainer ==
    \A o, p \in Ops :
        /\ container[<<o, "main">>] = "up" /\ ended[o] # "interrupted"
        /\ container[<<p, "main">>] = "up" /\ ended[p] # "interrupted"
        => o = p
==============================================================================
