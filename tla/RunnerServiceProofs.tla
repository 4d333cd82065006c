------------------------- MODULE RunnerServiceProofs -------------------------
(***************************************************************************)
(* Proofs about RunnerService, for every value of its constants: the type  *)
(* invariant, the single slot and what its record says, where signals go,  *)
(* that the service implements OperationSlot, and what it reports: the     *)
(* recorded result is that of the main process, nothing of a finished      *)
(* operation is left running, no active record outlives its operation, and *)
(* a cancelled run is not published.                                       *)
(***************************************************************************)
EXTENDS RunnerService, TLAPS

(* The parts that make the invariants of RunnerService inductive.          *)

(* A request that is past its acceptance holds the lock, and only a holder *)
(* of the lock or the shutdown has a container to stop.                    *)
LockInv ==
    /\ \A c \in Clients : request[c] \in {"stopping", "stopped"} => lock = c
    /\ life \in {"stopping", "stopped"} => \A c \in Clients : request[c] = "idle"
    /\ lock # NoClient \/ life \in {"stopping", "stopped"} => aim \in Aims

(* The coordinator's task is the operation of the record; a stopped        *)
(* service has none.                                                       *)
TaskInv ==
    /\ life = "down" => task = 0
    /\ task # 0 => disk.op = task
    /\ disk.op # 0 => stage[disk.op] # "none"
    /\ \A o \in Ops : /\ stage[o] = "created" => leg[o] = "main"
                      /\ stage[o] = "lookup" => IsRun(o)

(* Nothing is known of an operation that has not been accepted, and        *)
(* operations are accepted in the order of their numbers.                  *)
FreshInv ==
    \A o \in Ops : stage[o] = "none" =>
        /\ leg[o] = "main" /\ reasons[o] = {} /\ ended[o] = "none"
        /\ \A p \in Ops : p > o => stage[p] = "none"

(* An operation has a result only once its coroutine is over, and a record *)
(* that is not terminal has none.                                          *)
ResultInv ==
    \A o \in Ops : ended[o] # "none" =>
        ~Active(o) /\ (disk.op = o => IsTerminal(disk))

(* The lock keeps the slot as it was when the cancel was accepted; an      *)
(* operation that stops its own container has timed out.                   *)
AimInv ==
    /\ lock # NoClient \/ life \in {"stopping", "stopped"} =>
          aim.op = task /\ reasons[aim.op] # {}
    /\ \A o \in Ops : stage[o] = "stopping" => reasons[o] # {}

(* The flag still stands for an operation that was cancelled.              *)
CancelInv ==
    \A o \in Ops : Active(o) /\ "cancel" \in reasons[o] => cancelRequested

------------------------------------------------------------------------------
(* The building blocks of the actions keep the types.                      *)

(* The end of a coroutine, whichever write fails, keeps the types. *)
LEMMA FinishType ==
  ASSUME TypeOK, NEW o \in Ops, NEW s \in TerminalStatus,
         Finish(o, s) \/ End(o, s, TRUE)
  PROVE  /\ stage' \in [Ops -> Stages]
         /\ disk' \in StateRecords \cup {NoState}
         /\ ended' \in [Ops -> TerminalStatus \cup {"none"}]
         /\ faults' \in 0..MaxFaults
<1> USE RunnerAssumption DEF RunnerAssumption, TypeOK, Finish, End
<1>1. "infrastructure_error" \in TerminalStatus
  BY DEF TerminalStatus
<1>2. stage' \in [Ops -> Stages]
  BY DEF Stages
<1>3. disk' \in StateRecords \cup {NoState}
  BY <1>1 DEF Record, StateRecords
<1>4. ended' \in [Ops -> TerminalStatus \cup {"none"}]
  BY <1>1 DEF Record
<1>5. faults' \in 0..MaxFaults
  BY DEF Fault
<1> QED BY <1>2, <1>3, <1>4, <1>5

(* Starting a docker process keeps the types. *)
LEMMA SpawnType ==
  ASSUME TypeOK, NEW o \in Ops, NEW l \in Legs, Spawn(o, l)
  PROVE  /\ stage' \in [Ops -> Stages]
         /\ leg' \in [Ops -> Legs]
         /\ proc' \in [Ops \X Legs -> {"none", "alive", "ok", "err"}]
  BY DEF TypeOK, Spawn, Stages, ActiveStages

(* docker stop of a known container keeps the types. *)
LEMMA DockerStopType ==
  ASSUME TypeOK, NEW p \in Ops \X Legs, DockerStop(p)
  PROVE  /\ container' \in [Ops \X Legs -> {"none", "up", "down"}]
         /\ signalled' \in SUBSET (Ops \X Legs)
<1>1. container' \in [Ops \X Legs -> {"none", "up", "down"}]
  BY DEF TypeOK, DockerStop
<1>2. signalled' \in SUBSET (Ops \X Legs)
  BY DEF TypeOK, DockerStop
<1> QED BY <1>1, <1>2

(* Only a process the service started is terminated. *)
LEMMA TerminateType ==
  ASSUME TypeOK, TerminateAttached
  PROVE  signalled' \in SUBSET (Ops \X Legs)
<1>1. attached # 0 => Here(attached) \in Ops \X Legs
  BY RunnerAssumption DEF RunnerAssumption, TypeOK, Here, Ops
<1> QED BY <1>1 DEF TypeOK, TerminateAttached

(* A cancelled or failed run() keeps the types. *)
LEMMA AbandonType ==
  ASSUME TypeOK, NEW o \in Ops, AbandonRun(o)
  PROVE  /\ attached' \in 0..MaxOps
         /\ proc' \in [Ops \X Legs -> {"none", "alive", "ok", "err"}]
<1>1. attached' \in 0..MaxOps
  BY RunnerAssumption DEF RunnerAssumption, AbandonRun
<1>2. proc' \in [Ops \X Legs -> {"none", "alive", "ok", "err"}]
  BY DEF TypeOK, AbandonRun, Here
<1> QED BY <1>1, <1>2

(* The end of the service process keeps the types. *)
LEMMA ForgetType ==
  ASSUME TypeOK, Forget
  PROVE  /\ life' \in {"down", "serving", "stopping", "stopped"}
         /\ task' \in 0..MaxOps
         /\ cancelRequested' \in BOOLEAN
         /\ lock' \in Clients \cup {NoClient}
         /\ request' \in [Clients -> {"idle", "waiting", "stopping", "stopped"}]
         /\ aim' \in Aims \cup {NoAim}
         /\ attached' \in 0..MaxOps
         /\ stage' \in [Ops -> Stages]
<1>1. stage' \in [Ops -> Stages]
  BY DEF TypeOK, Forget, Stages
<1>2. request' \in [Clients -> {"idle", "waiting", "stopping", "stopped"}]
  BY DEF Forget
<1>3. task' \in 0..MaxOps /\ attached' \in 0..MaxOps
  BY RunnerAssumption DEF RunnerAssumption, Forget
<1> QED BY <1>1, <1>2, <1>3 DEF Forget

(* task.cancel() keeps the types. *)
LEMMA CancelTaskType ==
  ASSUME TypeOK, CancelTask
  PROVE  proc' \in [Ops \X Legs -> {"none", "alive", "ok", "err"}]
<1>1. task # 0 => Here(task) \in Ops \X Legs
  BY RunnerAssumption DEF RunnerAssumption, TypeOK, Here, Ops
<1> QED BY <1>1 DEF TypeOK, CancelTask

(* Handling the result of a leg keeps the types. *)
LEMMA RunStepType ==
  ASSUME TypeOK, NEW o \in Ops,
         AfterBuild(o) \/ AfterRun(o) \/ AfterPublish(o) \/ AfterInspect(o)
  PROVE  /\ stage' \in [Ops -> Stages]
         /\ leg' \in [Ops -> Legs]
         /\ proc' \in [Ops \X Legs -> {"none", "alive", "ok", "err"}]
         /\ disk' \in StateRecords \cup {NoState}
         /\ ended' \in [Ops -> TerminalStatus \cup {"none"}]
         /\ faults' \in 0..MaxFaults
<1> DEFINE Ends == \E s \in TerminalStatus :
                      /\ Finish(o, s) \/ End(o, s, TRUE)
                      /\ UNCHANGED <<leg, proc>>
           Goes == Spawn(o, "aux") /\ UNCHANGED <<ended, faults>>
                   /\ (UNCHANGED disk \/ disk' = [op |-> o, status |-> "running",
                                                  container |-> "aux"])
<1>1. Verdict(o) \in TerminalStatus /\ "cancelled" \in TerminalStatus
      /\ "failed" \in TerminalStatus /\ "succeeded" \in TerminalStatus
      /\ "infrastructure_error" \in TerminalStatus
  BY DEF Verdict, TerminalStatus
<1>2. Ends \/ Goes
  <2>1. CASE AfterBuild(o)
    BY <1>1, <2>1 DEF AfterBuild, SpawnFails
  <2>2. CASE AfterRun(o)
    BY <1>1, <2>2 DEF AfterRun
  <2>3. CASE AfterPublish(o)
    BY <1>1, <2>3 DEF AfterPublish
  <2>4. CASE AfterInspect(o)
    BY <1>1, <2>4 DEF AfterInspect
  <2> QED BY <2>1, <2>2, <2>3, <2>4
<1>3. CASE Ends
  BY <1>3, FinishType DEF TypeOK
<1>4. CASE Goes
  <2>1. "aux" \in Legs
    BY DEF Legs
  <2>2. disk' \in StateRecords \cup {NoState}
    BY <1>4 DEF TypeOK, StateRecords, ActiveStatus, Legs
  <2> QED BY <1>4, <2>1, <2>2, SpawnType DEF TypeOK
<1> QED BY <1>2, <1>3, <1>4

------------------------------------------------------------------------------
(* Every action keeps the types.                                           *)

(* An accepted start request. *)
LEMMA TypeStart ==
  ASSUME TypeOK, NEW o \in Ops, NEW k \in Requests, Start(o, k)
  PROVE  TypeOK'
<1> USE RunnerAssumption DEF RunnerAssumption, TypeOK, Start, ResetLog
<1>1. k \in Kinds
  BY DEF Kinds
<1>2. disk' \in StateRecords
  BY <1>1 DEF StateRecords, StartStatus, ActiveStatus, Kinds, Legs
<1>3. task' \in 0..MaxOps
  BY DEF Ops
<1>4. kind' \in [Ops -> Kinds]
  BY <1>1
<1>5. stage' \in [Ops -> Stages]
  BY DEF Stages, ActiveStages
<1>6. log' \in Seq(Ops)
  OBVIOUS
<1>7. cancelRequested' \in BOOLEAN
  OBVIOUS
<1> QED BY <1>2, <1>3, <1>4, <1>5, <1>6, <1>7 DEF world, history

(* A start request whose state cannot be written. *)
LEMMA TypeStartFails ==
  ASSUME TypeOK, StartFails
  PROVE  TypeOK'
<1> USE RunnerAssumption DEF RunnerAssumption, TypeOK, StartFails, ResetLog
<1>1. log' \in Seq(Ops)
  OBVIOUS
<1>2. faults' \in 0..MaxFaults
  BY DEF Fault
<1> QED BY <1>1, <1>2 DEF world, history

(* A cancel request; docker stop needs LockInv to have a target. *)
LEMMA TypeCancel ==
  ASSUME TypeOK, LockInv, NEW c \in Clients, CancelStep(c)
  PROVE  TypeOK'
<1> USE RunnerAssumption DEF RunnerAssumption, TypeOK
<1>1. CASE CancelRequest(c)
  BY <1>1 DEF CancelRequest, world, history
<1>2. CASE CancelRejected(c)
  BY <1>2 DEF CancelRejected, world, history
<1>3. CASE CancelAccepted(c)
  <2> USE <1>3 DEF CancelAccepted
  <2>1. disk \in StateRecords
    BY DEF NothingToCancel
  <2>2. reasons' \in [Ops -> SUBSET {"cancel", "timeout", "shutdown"}]
    BY <2>1 DEF StateRecords
  <2>3. CASE disk.container = "none"
    <3>1. signalled' \in SUBSET (Ops \X Legs)
      BY <2>3, TerminateType
    <3> QED BY <2>2, <2>3, <3>1 DEF world
  <2>4. CASE disk.container # "none"
    <3>1. aim' \in Aims
      BY <2>1, <2>4 DEF StateRecords, Aims
    <3> QED BY <2>2, <2>4, <3>1 DEF world
  <2> QED BY <2>3, <2>4
<1>4. CASE CancelStops(c)
  <2>1. aim \in Aims
    BY <1>4, RunnerAssumption DEF RunnerAssumption, LockInv, CancelStops
  <2>2. <<aim.op, aim.leg>> \in Ops \X Legs
    BY <2>1 DEF Aims
  <2>3. /\ container' \in [Ops \X Legs -> {"none", "up", "down"}]
        /\ signalled' \in SUBSET (Ops \X Legs)
    BY <1>4, <2>2, DockerStopType DEF CancelStops
  <2> QED BY <1>4, <2>3 DEF CancelStops
<1>5. CASE CancelReturns(c)
  <2>1. signalled' \in SUBSET (Ops \X Legs)
    BY <1>5, TerminateType DEF CancelReturns
  <2> QED BY <1>5, <2>1 DEF CancelReturns, world
<1>6. CASE CancelFails(c)
  <2>1. faults' \in 0..MaxFaults
    BY <1>6 DEF CancelFails, Fault
  <2> QED BY <1>6, <2>1 DEF CancelFails, world, history
<1> QED BY <1>1, <1>2, <1>3, <1>4, <1>5, <1>6 DEF CancelStep

(* Startup, shutdown and crashes. *)
LEMMA TypeLifespan ==
  ASSUME TypeOK, LockInv, LifespanStep
  PROVE  TypeOK'
<1> USE RunnerAssumption DEF RunnerAssumption, TypeOK
<1>1. CASE Startup
  <2>1. "interrupted" \in TerminalStatus
    BY DEF TerminalStatus
  <2>2. disk' \in StateRecords \cup {NoState}
    BY <1>1, <2>1 DEF Startup, MarkInterrupted, StateRecords
  <2>3. ended' \in [Ops -> TerminalStatus \cup {"none"}]
    BY <1>1, <2>1 DEF Startup, MarkInterrupted
  <2> QED BY <1>1, <2>2, <2>3 DEF Startup, MarkInterrupted, world
<1>2. CASE Shutdown
  <2> USE <1>2 DEF Shutdown
  <2>1. CASE TaskDone /\ Forget /\ UNCHANGED <<proc, reasons, signalled>>
    BY <2>1, ForgetType
  <2>2. CASE /\ ~TaskDone /\ disk.container = "none"
             /\ reasons' = [reasons EXCEPT ![disk.op] = @ \cup {"shutdown"}]
             /\ TerminateAttached
             /\ CancelTask
             /\ Forget
    <3>1. reasons' \in [Ops -> SUBSET {"cancel", "timeout", "shutdown"}]
      BY <2>2
    <3> QED BY <2>2, <3>1, ForgetType, TerminateType, CancelTaskType
  <2>3. CASE /\ ~TaskDone /\ disk.container # "none"
             /\ reasons' = [reasons EXCEPT ![disk.op] = @ \cup {"shutdown"}]
             /\ life' = "stopping"
             /\ aim' = [op |-> disk.op, leg |-> disk.container]
             /\ UNCHANGED <<task, cancelRequested, lock, request, attached,
                            stage, proc, signalled>>
    <3>1. reasons' \in [Ops -> SUBSET {"cancel", "timeout", "shutdown"}]
      BY <2>3
    <3>2. aim' \in Aims
      BY <2>3 DEF StateRecords, NoState, Aims
    <3> QED BY <2>3, <3>1, <3>2
  <2> QED BY <2>1, <2>2, <2>3
<1>3. CASE ShutdownStops
  <2>1. aim \in Aims
    BY <1>3, RunnerAssumption DEF RunnerAssumption, LockInv, ShutdownStops
  <2>2. <<aim.op, aim.leg>> \in Ops \X Legs
    BY <2>1 DEF Aims
  <2>3. /\ container' \in [Ops \X Legs -> {"none", "up", "down"}]
        /\ signalled' \in SUBSET (Ops \X Legs)
    BY <1>3, <2>2, DockerStopType DEF ShutdownStops
  <2> QED BY <1>3, <2>3 DEF ShutdownStops
<1>4. CASE ShutdownReturns
  BY <1>4, ForgetType, TerminateType, CancelTaskType DEF ShutdownReturns
<1>5. CASE Crash
  <2>1. CASE UNCHANGED log
    BY <1>5, <2>1, ForgetType DEF Crash, ResetLog, world, history
  <2>2. CASE log' = <<>>
    <3>1. log' \in Seq(Ops)
      BY <2>2
    <3> QED BY <1>5, <3>1, ForgetType DEF Crash, ResetLog, world, history
  <2> QED BY <1>5, <2>1, <2>2 DEF Crash, ResetLog
<1> QED BY <1>1, <1>2, <1>3, <1>4, <1>5 DEF LifespanStep

(* The steps of an operation's coroutine. *)
LEMMA TypeOperation ==
  ASSUME TypeOK, NEW o \in Ops, OperationStep(o)
  PROVE  TypeOK'
<1> USE RunnerAssumption DEF RunnerAssumption, TypeOK, outside
<1>0. /\ "infrastructure_error" \in TerminalStatus
      /\ "timed_out" \in TerminalStatus
      /\ "cancelled" \in TerminalStatus
      /\ Verdict(o) \in TerminalStatus
  BY DEF Verdict, TerminalStatus
<1>1. CASE Launch(o)
  <2>1. "main" \in Legs
    BY DEF Legs
  <2>2. CASE Spawn(o, "main") /\ UNCHANGED <<disk, ended, faults>>
    BY <1>1, <2>1, <2>2, SpawnType DEF Launch
  <2>3. CASE SpawnFails(o)
    BY <1>0, <1>1, <2>3, FinishType DEF Launch, SpawnFails
  <2> QED BY <1>1, <2>2, <2>3 DEF Launch
<1>2. CASE Attach(o)
  <2>1. attached' \in 0..MaxOps
    BY <1>2 DEF Attach, Ops
  <2>2. stage' \in [Ops -> Stages]
    BY <1>2 DEF Attach, Stages, ActiveStages
  <2> QED BY <1>2, <2>1, <2>2 DEF Attach, world, history
<1>3. CASE ReadLine(o)
  <2>1. log' \in Seq(Ops)
    BY <1>3 DEF ReadLine
  <2> QED BY <1>3, <2>1 DEF ReadLine, world, history
<1>4. CASE MainReturns(o)
  <2> USE <1>4 DEF MainReturns
  <2>1. attached' \in 0..MaxOps
    OBVIOUS
  <2>2. CASE IsRun(o) /\ ReportPortalEnabled
    <3>1. stage' \in [Ops -> Stages]
      BY <2>2 DEF Stages, ActiveStages
    <3> QED BY <2>1, <2>2, <3>1
  <2>3. CASE AfterBuild(o) \/ AfterRun(o)
    BY <2>1, <2>3, RunStepType
  <2> QED BY <2>2, <2>3
<1>5. CASE AuxReturns(o)
  BY <1>5, RunStepType DEF AuxReturns
<1>6. CASE LookupReturns(o)
  BY <1>6, RunStepType DEF LookupReturns
<1>7. CASE RunRaises(o)
  <2>1. PICK s \in TerminalStatus : Finish(o, s)
    BY <1>0, <1>7 DEF RunRaises
  <2> QED BY <1>7, <2>1, FinishType, AbandonType DEF RunRaises
<1>8. CASE RunTimesOut(o)
  <2> USE <1>8 DEF RunTimesOut
  <2>1. reasons' \in [Ops -> SUBSET {"cancel", "timeout", "shutdown"}]
    OBVIOUS
  <2>2. CASE IsRun(o)
    <3>1. stage' \in [Ops -> Stages]
      BY <2>2 DEF Stages, ActiveStages
    <3> QED BY <2>1, <2>2, <3>1, AbandonType
  <2>3. CASE ~IsRun(o)
    BY <1>0, <2>1, <2>3, FinishType, AbandonType
  <2> QED BY <2>2, <2>3
<1>9. CASE TimeoutStops(o)
  <2>1. Here(o) \in Ops \X Legs
    BY DEF Here
  <2>2. stage' \in [Ops -> Stages]
    BY <1>9 DEF TimeoutStops, Stages, ActiveStages
  <2> QED BY <1>9, <2>1, <2>2, DockerStopType DEF TimeoutStops
<1>10. CASE TimeoutReturns(o)
  <2> USE <1>10 DEF TimeoutReturns
  <2>1. signalled' \in SUBSET (Ops \X Legs)
    BY TerminateType
  <2>2. CASE leg[o] = "aux"
    BY <2>1, <2>2, RunStepType
  <2>3. CASE leg[o] # "aux" /\ ReportPortalEnabled
    <3>1. stage' \in [Ops -> Stages]
      BY <2>3 DEF Stages, ActiveStages
    <3> QED BY <2>1, <2>3, <3>1
  <2>4. CASE leg[o] # "aux" /\ ~ReportPortalEnabled
    BY <1>0, <2>1, <2>4, FinishType
  <2> QED BY <2>2, <2>3, <2>4
<1>11. CASE TimeoutStopFails(o)
  <2> USE <1>11 DEF TimeoutStopFails
  <2>1. stage' \in [Ops -> Stages]
    BY DEF Stages
  <2>2. faults' \in 0..MaxFaults
    BY DEF Fault
  <2>3. disk' \in StateRecords \cup {NoState}
    BY <1>0 DEF Record, StateRecords
  <2>4. ended' \in [Ops -> TerminalStatus \cup {"none"}]
    BY <1>0 DEF Record
  <2> QED BY <2>1, <2>2, <2>3, <2>4 DEF world
<1>12. CASE LateLookupReturns(o)
  BY <1>0, <1>12, FinishType DEF LateLookupReturns, world
<1> QED BY <1>1, <1>2, <1>3, <1>4, <1>5, <1>6, <1>7, <1>8, <1>9, <1>10,
           <1>11, <1>12 DEF OperationStep

(* Docker's own steps. *)
LEMMA TypeDocker ==
  ASSUME TypeOK, NEW o \in Ops, NEW l \in Legs, DockerStep(o, l)
  PROVE  TypeOK'
<1> USE DEF TypeOK, inside, history
<1>1. CASE ContainerStarts(o, l)
  BY <1>1 DEF ContainerStarts
<1>2. CASE ContainerEnds(o, l)
  BY <1>2 DEF ContainerEnds
<1>3. CASE ProcessExits(o, l)
  BY <1>3 DEF ProcessExits
<1> QED BY <1>1, <1>2, <1>3 DEF DockerStep

(* The initial state. *)
LEMMA TypeInit == Init => TypeOK
<1> SUFFICES ASSUME Init PROVE TypeOK
  OBVIOUS
<1> USE RunnerAssumption DEF RunnerAssumption, Init
<1>1. /\ kind \in [Ops -> Kinds]
      /\ stage \in [Ops -> Stages]
      /\ leg \in [Ops -> Legs]
  BY DEF Kinds, Stages, Legs
<1>2. /\ task \in 0..MaxOps
      /\ attached \in 0..MaxOps
      /\ faults \in 0..MaxFaults
  OBVIOUS
<1>3. request \in [Clients -> {"idle", "waiting", "stopping", "stopped"}]
  OBVIOUS
<1>4. proc \in [Ops \X Legs -> {"none", "alive", "ok", "err"}]
  OBVIOUS
<1>5. container \in [Ops \X Legs -> {"none", "up", "down"}]
  OBVIOUS
<1>6. ended \in [Ops -> TerminalStatus \cup {"none"}]
  OBVIOUS
<1>7. reasons \in [Ops -> SUBSET {"cancel", "timeout", "shutdown"}]
  OBVIOUS
<1>8. log \in Seq(Ops)
  OBVIOUS
<1> QED BY <1>1, <1>2, <1>3, <1>4, <1>5, <1>6, <1>7, <1>8 DEF TypeOK

------------------------------------------------------------------------------
(* The lock and the container that its holder stops.                       *)

(* No step lets a cancel proceed without the lock. *)
LEMMA LockStep ==
  ASSUME TypeOK, LockInv, Next
  PROVE  LockInv'
<1> USE RunnerAssumption DEF RunnerAssumption, LockInv
<1>1. ASSUME NEW o \in Ops, NEW k \in Requests, Start(o, k) PROVE LockInv'
  BY <1>1 DEF Start, ResetLog
<1>2. CASE StartFails
  BY <1>2 DEF StartFails, ResetLog
<1>3. ASSUME NEW c \in Clients, CancelStep(c) PROVE LockInv'
  <2> USE DEF TypeOK
  <2>1. CASE CancelRequest(c)
    BY <2>1 DEF CancelRequest
  <2>2. CASE CancelRejected(c)
    BY <2>2 DEF CancelRejected
  <2>3. CASE CancelAccepted(c)
    <3>1. disk \in StateRecords
      BY <2>3 DEF CancelAccepted, NothingToCancel
    <3>2. CASE disk.container = "none"
      BY <2>3, <3>2 DEF CancelAccepted
    <3>3. CASE disk.container # "none"
      <4>1. aim' \in Aims
        BY <2>3, <3>1, <3>3 DEF CancelAccepted, StateRecords, Aims
      <4> QED BY <2>3, <3>3, <4>1 DEF CancelAccepted
    <3> QED BY <3>2, <3>3
  <2>4. CASE CancelStops(c)
    BY <2>4 DEF CancelStops
  <2>5. CASE CancelReturns(c)
    BY <2>5 DEF CancelReturns
  <2>6. CASE CancelFails(c)
    BY <2>6 DEF CancelFails
  <2> QED BY <1>3, <2>1, <2>2, <2>3, <2>4, <2>5, <2>6 DEF CancelStep
<1>4. ASSUME NEW o \in Ops, OperationStep(o) PROVE LockInv'
  <2>1. UNCHANGED outside
    BY <1>4 DEF OperationStep, Launch, Attach, ReadLine, MainReturns,
       AuxReturns, LookupReturns, RunRaises, RunTimesOut, TimeoutStops,
       TimeoutReturns, TimeoutStopFails, LateLookupReturns
  <2> QED BY <2>1 DEF outside
<1>5. CASE LifespanStep
  <2>1. CASE Forget
    BY <2>1 DEF Forget
  <2>2. CASE Startup
    BY <2>2 DEF Startup, MarkInterrupted
  <2>3. CASE Shutdown /\ ~Forget
    <3>1. aim' \in Aims
      BY <2>3 DEF Shutdown, TypeOK, StateRecords, NoState, Aims
    <3> QED BY <2>3, <3>1 DEF Shutdown
  <2>4. CASE ShutdownStops
    BY <2>4 DEF ShutdownStops
  <2> QED BY <1>5, <2>1, <2>2, <2>3, <2>4
          DEF LifespanStep, ShutdownReturns, Crash, ResetLog
<1>6. ASSUME NEW o \in Ops, NEW l \in Legs, DockerStep(o, l) PROVE LockInv'
  BY <1>6 DEF DockerStep, ContainerStarts, ContainerEnds, ProcessExits, inside
<1> QED BY <1>1, <1>2, <1>3, <1>4, <1>5, <1>6 DEF Next

(* Every step keeps the types. *)
LEMMA TypeStep ==
  ASSUME TypeOK, LockInv, Next
  PROVE  TypeOK'
  BY TypeStart, TypeStartFails, TypeCancel, TypeOperation, TypeLifespan,
     TypeDocker DEF Next

(* The variables keep their types: in particular docker stop is only ever  *)
(* issued for a container that a state record named.                       *)
THEOREM TypeCorrect == Spec => [](TypeOK /\ LockInv)
<1>1. Init => TypeOK /\ LockInv
  BY TypeInit DEF Init, LockInv
<1>2. TypeOK /\ LockInv /\ [Next]_vars => (TypeOK /\ LockInv)'
  <2>1. CASE Next
    BY <2>1, TypeStep, LockStep
  <2>2. CASE UNCHANGED vars
    BY <2>2 DEF vars, TypeOK, LockInv
  <2> QED BY <2>1, <2>2
<1> QED BY <1>1, <1>2, PTL DEF Spec

------------------------------------------------------------------------------
(* What a step of an operation's coroutine amounts to, given the           *)
(* invariants: the operation goes on under its own record, or it ends, and *)
(* nobody else is touched.                                                 *)

SlotInv ==
    /\ SingleOperation /\ RecordOfTask /\ LogOfRecord
    /\ TaskInv /\ FreshInv /\ ResultInv

StopInv ==
    SignalsAreAimed /\ AimInv /\ CancelInv /\ CancelledRunHasNoVerdict

Others(o) ==
    \A p \in Ops : p # o =>
        /\ stage'[p] = stage[p] /\ leg'[p] = leg[p]
        /\ ended'[p] = ended[p] /\ reasons'[p] = reasons[p]

GoesOn(o) ==
    /\ stage'[o] \in ActiveStages
    /\ UNCHANGED ended
    /\ disk'.op = o /\ disk'.status = disk.status
    /\ disk'.container = IF IsRun(o) THEN leg'[o] ELSE "none"

Over(o) ==
    /\ stage'[o] = "done"
    /\ \/ UNCHANGED <<disk, ended>>
       \/ \E s \in TerminalStatus \ {"interrupted"} :
             /\ disk' = [op |-> o, status |-> s, container |-> "none"]
             /\ ended' = [ended EXCEPT ![o] = s]
             /\ s \in {"passed", "failed"} => ~cancelRequested

Effect(o) ==
    /\ stage[o] \in ActiveStages
    /\ UNCHANGED outside
    /\ Others(o)
    /\ GoesOn(o) \/ Over(o)
    /\ attached' # 0 => attached' = o /\ stage'[o] = "reading"
    /\ \/ UNCHANGED log
       \/ /\ GoesOn(o) /\ UNCHANGED disk
          /\ Len(log) < MaxLines /\ log' = Append(log, o)
    /\ stage'[o] = "stopping" => reasons'[o] # {}
    /\ stage'[o] = "lookup" => IsRun(o)

StopEffect(o) ==
    /\ reasons'[o] \in {reasons[o], reasons[o] \cup {"timeout"}}
    /\ \A p \in signalled' : p \in signalled \/ (p[1] = o /\ reasons[o] # {})

(* A finished coroutine leaves a record of its own or none. *)
LEMMA FinishEffect ==
  ASSUME TypeOK, NEW o \in Ops, NEW s \in TerminalStatus \ {"interrupted"},
         Finish(o, s) \/ End(o, s, TRUE),
         s \in {"passed", "failed"} => ~cancelRequested
  PROVE  /\ Over(o)
         /\ \A p \in Ops : p # o => stage'[p] = stage[p] /\ ended'[p] = ended[p]
<1>1. stage'[o] = "done" /\ \A p \in Ops : p # o => stage'[p] = stage[p]
  BY DEF TypeOK, Finish, End
<1>2. CASE UNCHANGED <<disk, ended>>
  BY <1>1, <1>2 DEF Over
<1>3. CASE Record(o, s)
  BY <1>1, <1>3 DEF Over, Record, TypeOK
<1>4. CASE Record(o, "infrastructure_error")
  <2>1. "infrastructure_error" \in TerminalStatus \ {"interrupted"}
    BY DEF TerminalStatus
  <2> QED BY <1>1, <1>4, <2>1 DEF Over, Record, TypeOK
<1> QED BY <1>2, <1>3, <1>4 DEF Finish, End

(* A started leg changes its own operation only. *)
LEMMA SpawnEffect ==
  ASSUME TypeOK, NEW o \in Ops, NEW l \in Legs, Spawn(o, l)
  PROVE  /\ stage'[o] = "spawning" /\ leg'[o] = l
         /\ \A p \in Ops : p # o => stage'[p] = stage[p] /\ leg'[p] = leg[p]
  BY DEF TypeOK, Spawn

(* The four ways a leg's result is handled. *)
LEMMA RunStepEffect ==
  ASSUME TypeOK, SlotInv, NEW o \in Ops, stage[o] \in ActiveStages,
         \/ ~IsRun(o) /\ (AfterBuild(o) \/ AfterInspect(o))
         \/ IsRun(o) /\ (AfterRun(o) \/ AfterPublish(o)),
         UNCHANGED kind
  PROVE  /\ GoesOn(o) \/ Over(o)
         /\ stage'[o] \in {"spawning", "done"}
         /\ \A p \in Ops : p # o => /\ stage'[p] = stage[p] /\ leg'[p] = leg[p]
                                    /\ ended'[p] = ended[p]
<1> DEFINE Ends == \E s \in TerminalStatus \ {"interrupted"} :
                      /\ Finish(o, s) \/ End(o, s, TRUE)
                      /\ s \in {"passed", "failed"} => ~cancelRequested
                      /\ UNCHANGED <<leg, proc>>
           Goes == /\ Spawn(o, "aux") /\ UNCHANGED ended
                   /\ \/ ~IsRun(o) /\ UNCHANGED disk
                      \/ IsRun(o) /\ disk' = [op |-> o, status |-> "running",
                                              container |-> "aux"]
<1>1. Verdict(o) \in TerminalStatus \ {"interrupted"}
      /\ "cancelled" \in TerminalStatus \ {"interrupted"}
      /\ "failed" \in TerminalStatus \ {"interrupted"}
      /\ "succeeded" \in TerminalStatus \ {"interrupted"}
      /\ "infrastructure_error" \in TerminalStatus \ {"interrupted"}
  BY DEF Verdict, TerminalStatus
<1>2. Ends \/ Goes
  <2>1. CASE AfterBuild(o) /\ ~IsRun(o)
    BY <1>1, <2>1 DEF AfterBuild, SpawnFails
  <2>2. CASE AfterRun(o) /\ IsRun(o)
    BY <1>1, <2>2 DEF AfterRun
  <2>3. CASE AfterPublish(o)
    BY <1>1, <2>3 DEF AfterPublish
  <2>4. CASE AfterInspect(o)
    BY <1>1, <2>4 DEF AfterInspect
  <2> QED BY <2>1, <2>2, <2>3, <2>4
<1>3. CASE Ends
  <2>1. Over(o) /\ \A p \in Ops : p # o => stage'[p] = stage[p] /\ ended'[p] = ended[p]
    BY <1>3, FinishEffect
  <2> QED BY <1>3, <2>1 DEF Over
<1>4. CASE Goes
  <2>1. "aux" \in Legs
    BY DEF Legs
  <2>2. /\ stage'[o] = "spawning" /\ leg'[o] = "aux"
        /\ \A p \in Ops : p # o => stage'[p] = stage[p] /\ leg'[p] = leg[p]
    BY <1>4, <2>1, SpawnEffect
  <2>3. disk.op = o /\ disk.status = StartStatus[kind[o]]
        /\ disk.container = IF IsRun(o) THEN leg[o] ELSE "none"
    BY DEF SlotInv, RecordOfTask, Active
  <2>4. disk'.op = o /\ disk'.status = disk.status
        /\ disk'.container = IF IsRun(o) THEN leg'[o] ELSE "none"
    BY <1>4, <2>2, <2>3 DEF IsRun, StartStatus
  <2> QED BY <1>4, <2>2, <2>4 DEF GoesOn, ActiveStages
<1> QED BY <1>2, <1>3, <1>4

(* Each step of an operation's coroutine has the stated effect. *)
LEMMA OperationEffect ==
  ASSUME TypeOK, SlotInv, NEW o \in Ops, OperationStep(o)
  PROVE  Effect(o)
<1> USE DEF TypeOK, outside
<1>a. stage[o] \in ActiveStages => /\ disk.op = o
                                   /\ disk.container = IF IsRun(o) THEN leg[o] ELSE "none"
                                   /\ stage[o] # "reading" => attached = 0
  BY DEF SlotInv, RecordOfTask, SingleOperation, Active
<1>b. /\ "infrastructure_error" \in TerminalStatus \ {"interrupted"}
      /\ "timed_out" \in TerminalStatus \ {"interrupted"}
      /\ "cancelled" \in TerminalStatus \ {"interrupted"}
      /\ Verdict(o) \in TerminalStatus \ {"interrupted"}
  BY DEF Verdict, TerminalStatus
<1>1. CASE Launch(o)
  <2>0. stage[o] \in ActiveStages /\ attached' = 0
    BY <1>1, <1>a DEF Launch, ActiveStages
  <2>1. CASE Spawn(o, "main") /\ UNCHANGED <<disk, ended, faults>>
    <3>1. "main" \in Legs
      BY DEF Legs
    <3>2. /\ stage'[o] = "spawning" /\ leg'[o] = "main"
          /\ \A p \in Ops : p # o => stage'[p] = stage[p] /\ leg'[p] = leg[p]
      BY <2>1, <3>1, SpawnEffect
    <3>3. leg[o] = "main" \/ ~IsRun(o)
      BY <1>1 DEF Launch, SlotInv, TaskInv
    <3> QED BY <1>1, <1>a, <2>0, <2>1, <3>2, <3>3
            DEF Launch, Effect, Others, GoesOn, IsRun, ActiveStages
  <2>2. CASE SpawnFails(o)
    <3>1. Over(o) /\ \A p \in Ops : p # o => stage'[p] = stage[p] /\ ended'[p] = ended[p]
      BY <1>b, <2>2, FinishEffect DEF SpawnFails
    <3> QED BY <1>1, <2>0, <2>2, <3>1
            DEF Launch, SpawnFails, Effect, Others, Over
  <2> QED BY <1>1, <2>1, <2>2 DEF Launch
<1>2. CASE Attach(o)
  BY <1>2, <1>a DEF Attach, Effect, Others, GoesOn, IsRun, ActiveStages, world,
     history
<1>3. CASE ReadLine(o)
  <2>1. stage[o] \in ActiveStages
    BY <1>3 DEF ReadLine, ActiveStages
  <2>2. attached' # 0 => attached' = o /\ stage'[o] = "reading"
    BY <1>3, <2>1 DEF ReadLine, SlotInv, SingleOperation, Active
  <2>3. GoesOn(o) /\ Others(o)
    BY <1>3, <1>a, <2>1 DEF ReadLine, Others, GoesOn, IsRun, history
  <2> QED BY <1>3, <2>1, <2>2, <2>3 DEF ReadLine, Effect
<1>4. CASE MainReturns(o)
  <2>0. stage[o] \in ActiveStages
    BY <1>4 DEF MainReturns, ActiveStages
  <2>1. CASE IsRun(o) /\ ReportPortalEnabled
    BY <1>4, <1>a, <2>0, <2>1
       DEF MainReturns, Effect, Others, GoesOn, IsRun, ActiveStages
  <2>2. CASE ~(IsRun(o) /\ ReportPortalEnabled)
    <3>1. /\ GoesOn(o) \/ Over(o)
          /\ stage'[o] \in {"spawning", "done"}
          /\ \A p \in Ops : p # o => /\ stage'[p] = stage[p] /\ leg'[p] = leg[p]
                                     /\ ended'[p] = ended[p]
      BY <1>4, <2>0, <2>2, RunStepEffect DEF MainReturns
    <3> QED BY <1>4, <2>0, <2>2, <3>1 DEF MainReturns, Effect, Others
  <2> QED BY <2>1, <2>2
<1>5. CASE AuxReturns(o)
  <2>0. stage[o] \in ActiveStages
    BY <1>5 DEF AuxReturns, ActiveStages
  <2>1. /\ GoesOn(o) \/ Over(o)
        /\ stage'[o] \in {"spawning", "done"}
        /\ \A p \in Ops : p # o => /\ stage'[p] = stage[p] /\ leg'[p] = leg[p]
                                   /\ ended'[p] = ended[p]
    BY <1>5, <2>0, RunStepEffect DEF AuxReturns
  <2> QED BY <1>5, <2>0, <2>1 DEF AuxReturns, Effect, Others
<1>6. CASE LookupReturns(o)
  <2>0. stage[o] \in ActiveStages /\ attached' = 0 /\ IsRun(o)
    BY <1>6, <1>a DEF LookupReturns, ActiveStages, SlotInv, TaskInv, IsRun
  <2>1. /\ GoesOn(o) \/ Over(o)
        /\ stage'[o] \in {"spawning", "done"}
        /\ \A p \in Ops : p # o => /\ stage'[p] = stage[p] /\ leg'[p] = leg[p]
                                   /\ ended'[p] = ended[p]
    BY <1>6, <2>0, RunStepEffect DEF LookupReturns
  <2> QED BY <1>6, <2>0, <2>1 DEF LookupReturns, Effect, Others
<1>7. CASE RunRaises(o)
  <2>1. PICK s \in TerminalStatus \ {"interrupted"} :
           Finish(o, s) /\ (s \in {"passed", "failed"} => ~cancelRequested)
    BY <1>b, <1>7 DEF RunRaises
  <2>2. Over(o) /\ \A p \in Ops : p # o => stage'[p] = stage[p] /\ ended'[p] = ended[p]
    BY <2>1, FinishEffect
  <2> QED BY <1>7, <2>2
          DEF RunRaises, AbandonRun, Effect, Others, Over, ActiveStages
<1>8. CASE RunTimesOut(o)
  <2>1. CASE IsRun(o)
    BY <1>8, <1>a, <2>1
       DEF RunTimesOut, AbandonRun, Effect, Others, GoesOn, IsRun, ActiveStages
  <2>2. CASE ~IsRun(o)
    <3>1. Over(o) /\ \A p \in Ops : p # o => stage'[p] = stage[p] /\ ended'[p] = ended[p]
      BY <1>8, <1>b, <2>2, FinishEffect DEF RunTimesOut
    <3> QED BY <1>8, <2>2, <3>1
            DEF RunTimesOut, AbandonRun, Effect, Others, Over, ActiveStages
  <2> QED BY <2>1, <2>2
<1>9. CASE TimeoutStops(o)
  BY <1>9, <1>a
     DEF TimeoutStops, Effect, Others, GoesOn, IsRun, ActiveStages
<1>10. CASE TimeoutReturns(o)
  <2>0. stage[o] \in ActiveStages /\ attached' = 0
    BY <1>10, <1>a DEF TimeoutReturns, ActiveStages
  <2>1. CASE leg[o] # "aux" /\ ReportPortalEnabled
    BY <1>10, <1>a, <2>0, <2>1
       DEF TimeoutReturns, Effect, Others, GoesOn, IsRun, ActiveStages
  <2>2. CASE leg[o] = "aux" \/ ~ReportPortalEnabled
    <3>1. PICK s \in TerminalStatus \ {"interrupted"} :
             /\ Finish(o, s) /\ (s \in {"passed", "failed"} => ~cancelRequested)
             /\ UNCHANGED leg
      BY <1>10, <1>b, <2>2 DEF TimeoutReturns, AfterPublish
    <3>2. Over(o) /\ \A p \in Ops : p # o => stage'[p] = stage[p] /\ ended'[p] = ended[p]
      BY <3>1, FinishEffect
    <3> QED BY <1>10, <2>0, <3>1, <3>2 DEF TimeoutReturns, Effect, Others, Over
  <2> QED BY <2>1, <2>2
<1>11. CASE TimeoutStopFails(o)
  <2>0. stage[o] \in ActiveStages /\ attached' = 0
    BY <1>11, <1>a DEF TimeoutStopFails, ActiveStages
  <2>1. stage'[o] = "done" /\ Over(o)
    BY <1>11, <1>b DEF TimeoutStopFails, Over, Record
  <2>2. Others(o)
    BY <1>11 DEF TimeoutStopFails, Others, Record
  <2> QED BY <1>11, <2>0, <2>1, <2>2 DEF TimeoutStopFails, Effect
<1>12. CASE LateLookupReturns(o)
  <2>0. stage[o] \in ActiveStages /\ attached' = 0
    BY <1>12, <1>a DEF LateLookupReturns, ActiveStages
  <2>1. Over(o) /\ \A p \in Ops : p # o => stage'[p] = stage[p] /\ ended'[p] = ended[p]
    BY <1>12, <1>b, FinishEffect DEF LateLookupReturns
  <2> QED BY <1>12, <2>0, <2>1 DEF LateLookupReturns, Effect, Others, Over
<1> QED BY <1>1, <1>2, <1>3, <1>4, <1>5, <1>6, <1>7, <1>8, <1>9, <1>10,
           <1>11, <1>12 DEF OperationStep

------------------------------------------------------------------------------
(* The slot and its record.                                                *)

(* A start takes a slot nobody occupies. *)
LEMMA SlotStart ==
  ASSUME TypeOK, SlotInv, NEW o \in Ops, NEW k \in Requests, Start(o, k)
  PROVE  SlotInv'
<1> USE RunnerAssumption DEF RunnerAssumption, TypeOK, Start, ResetLog, StartGuard
<1>1. \A p \in Ops : stage[p] \notin ActiveStages
  BY DEF SlotInv, SingleOperation, Active, TaskDone, ActiveStages, Ops
<1>2. /\ \A p \in Ops : p # o => stage'[p] = stage[p]
      /\ stage'[o] = "created" /\ "created" \in ActiveStages
      /\ UNCHANGED <<leg, reasons, ended, attached>>
  BY DEF ActiveStages, history
<1>3. stage[o] = "none" /\ leg[o] = "main" /\ ended[o] = "none"
  BY DEF Fresh, SlotInv, FreshInv
<1>4. disk' = [op |-> o, status |-> StartStatus[k],
               container |-> IF k = "run_tests" THEN "main" ELSE "none"]
      /\ kind'[o] = k
  OBVIOUS
<1>5. SingleOperation'
  <2>1. attached = 0
    BY <1>1 DEF SlotInv, SingleOperation, ActiveStages, Ops
  <2> QED BY <1>1, <1>2, <2>1 DEF SingleOperation, Active
<1>6. RecordOfTask'
  BY <1>1, <1>2, <1>3, <1>4 DEF RecordOfTask, Active, IsRun
<1>7. LogOfRecord'
  BY DEF LogOfRecord
<1>8. TaskInv'
  <2>1. \A p \in Ops : stage'[p] = "created" => leg'[p] = "main"
    BY <1>2, <1>3 DEF SlotInv, TaskInv
  <2>2. \A p \in Ops : stage'[p] = "lookup" => p # o /\ stage[p] \in ActiveStages
    BY <1>2 DEF ActiveStages
  <2> QED BY <1>1, <1>2, <1>4, <2>1, <2>2 DEF TaskInv
<1>9. FreshInv'
  <2>1. \A p \in Ops : p < o => stage[p] # "none"
    BY DEF Fresh, Ops
  <2> QED BY <1>2, <2>1 DEF SlotInv, FreshInv, Ops
<1>10. ResultInv'
  BY <1>1, <1>2, <1>3, <1>4 DEF SlotInv, ResultInv, Active
<1> QED BY <1>5, <1>6, <1>7, <1>8, <1>9, <1>10 DEF SlotInv

(* A cancel leaves the slot and its record as they are. *)
LEMMA SlotCancel ==
  ASSUME TypeOK, SlotInv, NEW c \in Clients, CancelStep(c)
  PROVE  SlotInv'
<1>1. UNCHANGED <<life, task, attached, kind, stage, leg, disk, log, ended>>
  BY DEF CancelStep, CancelRequest, CancelRejected, CancelAccepted, CancelStops,
     CancelReturns, CancelFails, history
<1>2. \A o \in Ops : stage[o] = "none" => reasons'[o] = reasons[o]
  <2>1. CASE CancelAccepted(c)
    <3>1. disk.op \in Ops /\ stage[disk.op] # "none"
      BY <2>1, RunnerAssumption
         DEF RunnerAssumption, CancelAccepted, NothingToCancel, TypeOK,
             StateRecords, SlotInv, TaskInv, Ops
    <3> QED BY <2>1, <3>1 DEF CancelAccepted, TypeOK
  <2>2. CASE ~CancelAccepted(c)
    BY <2>2 DEF CancelStep, CancelRequest, CancelRejected, CancelStops,
       CancelReturns, CancelFails, history
  <2> QED BY <2>1, <2>2
<1>3. FreshInv'
  BY <1>1, <1>2 DEF SlotInv, FreshInv
<1> QED BY <1>1, <1>3 DEF SlotInv, SingleOperation, RecordOfTask, LogOfRecord,
           TaskInv, ResultInv, Active, IsRun

(* An operation only moves within its slot or leaves it. *)
LEMMA SlotOperation ==
  ASSUME TypeOK, SlotInv, NEW o \in Ops, OperationStep(o)
  PROVE  SlotInv'
<1>1. Effect(o)
  BY OperationEffect
<1>2. TypeOK'
  BY TypeOperation
<1> USE <1>1 DEF Effect, TypeOK, outside
<1>3. /\ disk.op = o /\ task = o
      /\ disk.status = StartStatus[kind[o]]
      /\ ended[o] = "none"
      /\ \A p \in Ops : p # o => stage[p] \notin ActiveStages
  BY DEF SlotInv, RecordOfTask, SingleOperation, ResultInv, Active
<1>4. disk'.op = o
  BY <1>3 DEF GoesOn, Over
<1>5. SingleOperation'
  BY <1>3 DEF SingleOperation, Active, Others
<1>6. RecordOfTask'
  <2>1. CASE GoesOn(o)
    BY <1>3, <2>1 DEF RecordOfTask, Active, Others, GoesOn, IsRun
  <2>2. CASE Over(o)
    BY <1>3, <2>2 DEF RecordOfTask, Active, Others, Over, ActiveStages
  <2> QED BY <2>1, <2>2
<1>7. LogOfRecord'
  BY <1>3, <1>4 DEF SlotInv, LogOfRecord
<1>8. stage'[o] \notin {"none", "created"}
  BY DEF OperationStep, Launch, Attach, ReadLine, MainReturns,
       AuxReturns, LookupReturns, RunRaises, RunTimesOut, TimeoutStops,
       TimeoutReturns, TimeoutStopFails, LateLookupReturns,
       AfterBuild, AfterRun, AfterPublish, AfterInspect, Spawn, SpawnFails, Finish,
       End
<1>9. TaskInv'
  BY <1>3, <1>4, <1>8 DEF SlotInv, TaskInv, Others, IsRun
<1>10. FreshInv'
  BY <1>3, <1>8 DEF SlotInv, FreshInv, Others, ActiveStages
<1>11. ResultInv'
  <2>1. CASE GoesOn(o)
    BY <1>3, <2>1 DEF SlotInv, ResultInv, Active, GoesOn, Others
  <2>2. CASE Over(o)
    BY <1>3, <2>2 DEF SlotInv, ResultInv, Active, Over, Others, IsTerminal, ActiveStages
  <2> QED BY <2>1, <2>2
<1> QED BY <1>5, <1>6, <1>7, <1>9, <1>10, <1>11 DEF SlotInv

(* A stop of the service empties the slot, a startup keeps it empty. *)
LEMMA SlotLifespan ==
  ASSUME TypeOK, SlotInv, LifespanStep
  PROVE  SlotInv'
<1> USE RunnerAssumption DEF RunnerAssumption, TypeOK
<1>1. CASE Startup
  <2> USE <1>1 DEF Startup, MarkInterrupted
  <2>1. \A o \in Ops : stage[o] \notin ActiveStages
    BY DEF SlotInv, TaskInv, SingleOperation, Active, Ops
  <2>2. disk'.op = disk.op
    BY DEF StateRecords
  <2>3. SingleOperation' /\ RecordOfTask' /\ LogOfRecord'
    BY <2>1, <2>2 DEF SlotInv, SingleOperation, RecordOfTask, LogOfRecord, Active
  <2>4. TaskInv'
    BY <2>2 DEF SlotInv, TaskInv, IsRun
  <2>5. CASE UNCHANGED <<disk, ended>>
    BY <2>3, <2>4, <2>5 DEF SlotInv, FreshInv, ResultInv, Active
  <2>6. CASE /\ disk # NoState
             /\ disk' = [disk EXCEPT !.status = "interrupted"]
             /\ ended' = [ended EXCEPT ![disk.op] = "interrupted"]
    <3>1. disk.op \in Ops /\ stage[disk.op] # "none"
      BY <2>6 DEF StateRecords, SlotInv, TaskInv, Ops
    <3>2. FreshInv'
      BY <2>6, <3>1 DEF SlotInv, FreshInv
    <3>3. ResultInv'
      BY <2>1, <2>6, <3>1 DEF SlotInv, ResultInv, Active, IsTerminal, TerminalStatus,
         StateRecords
    <3> QED BY <2>3, <2>4, <3>2, <3>3 DEF SlotInv
  <2> QED BY <2>5, <2>6
<1>2. ASSUME Forget, UNCHANGED <<kind, leg, disk, ended>>,
             log' \in {log, <<>>},
             \A o \in Ops : stage[o] = "none" => reasons'[o] = reasons[o]
      PROVE  SlotInv'
  <2> USE <1>2 DEF Forget
  <2>1. \A o \in Ops : /\ stage'[o] \notin ActiveStages
                       /\ stage'[o] = "none" <=> stage[o] = "none"
                       /\ stage'[o] # "created" /\ stage'[o] # "lookup"
    BY DEF Active, Stages, ActiveStages
  <2>2. SingleOperation' /\ RecordOfTask'
    BY <2>1 DEF SingleOperation, RecordOfTask, Active
  <2>3. LogOfRecord'
    BY DEF SlotInv, LogOfRecord
  <2>4. TaskInv'
    <3>1. disk.op # 0 => disk.op \in Ops
      BY DEF StateRecords, NoState
    <3> QED BY <2>1, <3>1 DEF SlotInv, TaskInv
  <2>5. FreshInv'
    BY <2>1 DEF SlotInv, FreshInv
  <2>6. ResultInv'
    BY <2>1 DEF SlotInv, ResultInv, Active
  <2> QED BY <2>2, <2>3, <2>4, <2>5, <2>6 DEF SlotInv
<1>3. CASE Shutdown
  <2> USE <1>3 DEF Shutdown
  <2>1. \A o \in Ops : stage[o] = "none" => reasons'[o] = reasons[o]
    <3>1. CASE TaskDone
      BY <3>1
    <3>2. CASE ~TaskDone
      <4>1. disk.op \in Ops /\ stage[disk.op] # "none"
        BY <3>2 DEF TaskDone, SlotInv, TaskInv, Ops
      <4> QED BY <3>2, <4>1
    <3> QED BY <3>1, <3>2
  <2>2. CASE Forget
    BY <1>2, <2>1, <2>2
  <2>3. CASE ~Forget
    <3>1. FreshInv'
      BY <2>1, <2>3 DEF SlotInv, FreshInv
    <3> QED BY <2>3, <3>1 DEF SlotInv, SingleOperation, RecordOfTask, LogOfRecord,
               TaskInv, ResultInv, Active, IsRun
  <2> QED BY <2>2, <2>3
<1>4. CASE ShutdownStops
  BY <1>4 DEF ShutdownStops, SlotInv, SingleOperation, RecordOfTask, LogOfRecord,
     TaskInv, FreshInv, ResultInv, Active, IsRun
<1>5. CASE ShutdownReturns
  BY <1>2, <1>5 DEF ShutdownReturns
<1>6. CASE Crash
  BY <1>2, <1>6 DEF Crash, ResetLog, history
<1> QED BY <1>1, <1>3, <1>4, <1>5, <1>6 DEF LifespanStep

(* Every step keeps the slot's invariant. *)
LEMMA SlotStep ==
  ASSUME TypeOK, SlotInv, Next
  PROVE  SlotInv'
<1>1. CASE StartFails
  <2>1. LogOfRecord'
    BY <1>1 DEF StartFails, ResetLog, LogOfRecord
  <2> QED BY <1>1, <2>1 DEF StartFails, ResetLog, SlotInv, SingleOperation, RecordOfTask,
             TaskInv, FreshInv, ResultInv, Active, IsRun, history
<1>2. ASSUME NEW o \in Ops, NEW l \in Legs, DockerStep(o, l) PROVE SlotInv'
  BY <1>2 DEF DockerStep, ContainerStarts, ContainerEnds, ProcessExits, inside,
     history, SlotInv, SingleOperation, RecordOfTask, LogOfRecord, TaskInv,
     FreshInv, ResultInv, Active, IsRun
<1> QED BY <1>1, <1>2, SlotStart, SlotCancel, SlotOperation, SlotLifespan DEF Next

(* The slot's invariant with what its induction needs: operations are      *)
(* numbered in the order of acceptance, an unaccepted one has left no      *)
(* trace and a result exists only for a finished one.                      *)
LEMMA SlotInvariant == Spec => [](TypeOK /\ LockInv /\ SlotInv)
<1>1. Init => SlotInv
  BY DEF Init, SlotInv, SingleOperation, RecordOfTask, LogOfRecord, TaskInv,
     FreshInv, ResultInv, Active, ActiveStages, NoState
<1>2. TypeOK /\ SlotInv /\ [Next]_vars => SlotInv'
  <2>1. CASE Next
    BY <2>1, SlotStep
  <2>2. CASE UNCHANGED vars
    BY <2>2 DEF vars, SlotInv, SingleOperation, RecordOfTask, LogOfRecord, TaskInv,
       FreshInv, ResultInv, Active, IsRun, IsTerminal
  <2> QED BY <2>1, <2>2
<1> QED BY <1>1, <1>2, TypeCorrect, PTL DEF Spec

(* One global slot: at most one operation is unfinished, it is the         *)
(* coordinator's task, and self._process can only be its process.          *)
THEOREM SlotCorrect == Spec => []SingleOperation
<1>1. SlotInv => SingleOperation
  BY DEF SlotInv
<1> QED BY <1>1, SlotInvariant, PTL

(* While an operation is unfinished current.json is its record and names   *)
(* the container of the leg it is in, which is what a cancel stops.        *)
THEOREM RecordCorrect == Spec => []RecordOfTask
<1>1. SlotInv => RecordOfTask
  BY DEF SlotInv
<1> QED BY <1>1, SlotInvariant, PTL

(* current.log holds only lines of the operation current.json describes,   *)
(* through crashes and failing writes.                                     *)
THEOREM LogCorrect == Spec => []LogOfRecord
<1>1. SlotInv => LogOfRecord
  BY DEF SlotInv
<1> QED BY <1>1, SlotInvariant, PTL

------------------------------------------------------------------------------
(* Cancellation, timeouts and shutdown reach the right operation.          *)

(* An operation signals only itself, and only once it timed out. *)
LEMMA OperationStopEffect ==
  ASSUME TypeOK, SlotInv, StopInv, NEW o \in Ops, OperationStep(o)
  PROVE  /\ StopEffect(o)
         /\ \A p \in Ops : p # o => reasons'[p] = reasons[p]
<1> USE DEF TypeOK
<1>1. CASE RunTimesOut(o)
  BY <1>1 DEF RunTimesOut, StopEffect
<1>2. CASE TimeoutStops(o)
  <2>1. reasons[o] # {}
    BY <1>2 DEF TimeoutStops, StopInv, AimInv
  <2>2. Here(o)[1] = o
    BY DEF Here
  <2> QED BY <1>2, <2>1, <2>2 DEF TimeoutStops, DockerStop, StopEffect
<1>3. CASE TimeoutReturns(o)
  <2>1. attached = 0
    BY <1>3 DEF TimeoutReturns, SlotInv, SingleOperation, Active, ActiveStages
  <2> QED BY <1>3, <2>1 DEF TimeoutReturns, TerminateAttached, StopEffect
<1>4. CASE ~(RunTimesOut(o) \/ TimeoutStops(o) \/ TimeoutReturns(o))
  <2>1. UNCHANGED <<reasons, signalled>>
    BY <1>4 DEF OperationStep, Launch, Attach, ReadLine, MainReturns,
       AuxReturns, LookupReturns, RunRaises, TimeoutStopFails,
       LateLookupReturns, history
  <2> QED BY <2>1 DEF StopEffect
<1> QED BY <1>1, <1>2, <1>3, <1>4

(* The steps of an operation keep the stop invariant. *)
LEMMA StopOperation ==
  ASSUME TypeOK, SlotInv, StopInv, NEW o \in Ops, OperationStep(o)
  PROVE  StopInv'
<1>1. Effect(o)
  BY OperationEffect
<1>2. /\ StopEffect(o)
      /\ \A p \in Ops : p # o => reasons'[p] = reasons[p]
  BY OperationStopEffect
<1>3. TypeOK'
  BY TypeOperation
<1> USE <1>1, <1>2, <1>3 DEF Effect, TypeOK, outside
<1>4. \A p \in Ops : reasons[p] \subseteq reasons'[p]
  <2>1. reasons[o] \subseteq reasons'[o]
    BY DEF StopEffect
  <2>2. \A p \in Ops : p # o => reasons[p] \subseteq reasons'[p]
    OBVIOUS
  <2> QED BY <2>1, <2>2
<1>5. \A p \in Ops : "cancel" \in reasons'[p] => "cancel" \in reasons[p]
  BY DEF StopEffect
<1>6. SignalsAreAimed'
  <2>1. \A p \in signalled' : p[1] \in Ops
    OBVIOUS
  <2> QED BY <1>4, <2>1 DEF StopEffect, StopInv, SignalsAreAimed
<1>7. AimInv'
  <2>1. lock # NoClient \/ life \in {"stopping", "stopped"} =>
           aim.op = task /\ reasons'[aim.op] # {}
    <3>1. task = o
      BY DEF SlotInv, SingleOperation, Active
    <3> QED BY <1>4, <3>1 DEF StopInv, AimInv
  <2>2. \A p \in Ops : stage'[p] = "stopping" => reasons'[p] # {}
    BY <1>4 DEF StopInv, AimInv, Others
  <2> QED BY <2>1, <2>2 DEF AimInv
<1>8. CancelInv'
  BY <1>5 DEF StopInv, CancelInv, Others, Active
<1>9. CancelledRunHasNoVerdict'
  <2>1. ended[o] = "none" /\ ("cancel" \in reasons[o] => cancelRequested)
    BY DEF SlotInv, ResultInv, StopInv, CancelInv, Active
  <2>2. ended'[o] \in {"passed", "failed"} => ~cancelRequested
    BY <2>1 DEF GoesOn, Over
  <2> QED BY <1>5, <2>1, <2>2 DEF StopInv, CancelledRunHasNoVerdict, Others, IsRun
<1> QED BY <1>6, <1>7, <1>8, <1>9 DEF StopInv

(* A start cannot inherit the cancellation of an earlier operation. *)
LEMMA StopStart ==
  ASSUME TypeOK, LockInv, SlotInv, StopInv,
         NEW o \in Ops, NEW k \in Requests, Start(o, k)
  PROVE  StopInv'
<1> USE DEF TypeOK, Start, ResetLog, StartGuard, history
<1>1. /\ \A p \in Ops : p # o => stage'[p] = stage[p] /\ kind'[p] = kind[p]
                                 /\ stage[p] \notin ActiveStages
      /\ stage'[o] = "created"
      /\ reasons[o] = {} /\ ended[o] = "none"
  BY RunnerAssumption
     DEF RunnerAssumption, SlotInv, SingleOperation, FreshInv, Fresh, Active,
         TaskDone, ActiveStages, Ops
<1>2. SignalsAreAimed'
  BY DEF StopInv, SignalsAreAimed
<1>3. AimInv'
  BY <1>1 DEF StopInv, AimInv
<1>4. CancelInv'
  BY <1>1 DEF CancelInv, Active
<1>5. CancelledRunHasNoVerdict'
  BY <1>1 DEF StopInv, CancelledRunHasNoVerdict, IsRun
<1> QED BY <1>2, <1>3, <1>4, <1>5 DEF StopInv

(* A cancel reaches only the operation it was accepted for. *)
LEMMA StopCancel ==
  ASSUME TypeOK, LockInv, SlotInv, StopInv, NEW c \in Clients, CancelStep(c)
  PROVE  StopInv'
<1> USE RunnerAssumption DEF RunnerAssumption, TypeOK
<1>0. UNCHANGED <<life, task, kind, stage, ended, attached, leg>>
  BY DEF CancelStep, CancelRequest, CancelRejected, CancelAccepted, CancelStops,
     CancelReturns, CancelFails, history
<1>1. CASE CancelAccepted(c)
  <2> USE <1>1 DEF CancelAccepted
  <2>1. disk \in StateRecords /\ task # 0
    BY DEF NothingToCancel
  <2>2. disk.op \in Ops /\ disk.op = task
    BY <2>1 DEF StateRecords, SlotInv, TaskInv
  <2>3. /\ \A p \in Ops : reasons[p] \subseteq reasons'[p]
        /\ reasons'[task] # {}
        /\ \A p \in Ops : p # task => reasons'[p] = reasons[p]
    BY <2>2
  <2>4. \A p \in signalled' : p \in signalled \/ p[1] = task
    BY DEF TerminateAttached, Here, SlotInv, SingleOperation
  <2>5. SignalsAreAimed'
    <3>1. \A p \in signalled' : p[1] \in Ops
      BY TypeCancel
    <3> QED BY <2>3, <2>4, <3>1 DEF StopInv, SignalsAreAimed
  <2>6. AimInv'
    <3>1. \A p \in Ops : stage'[p] = "stopping" => reasons'[p] # {}
      BY <1>0, <2>3 DEF StopInv, AimInv
    <3>2. CASE disk.container = "none"
      BY <1>0, <2>2, <2>3, <3>1, <3>2 DEF StopInv, AimInv
    <3>3. CASE disk.container # "none"
      <4>1. aim'.op = task
        BY <2>2, <3>3
      <4> QED BY <1>0, <2>3, <3>1, <4>1 DEF AimInv
    <3> QED BY <3>2, <3>3
  <2>7. CancelInv'
    BY DEF CancelInv
  <2>8. CancelledRunHasNoVerdict'
    <3>1. ended[task] = "none"
      BY <2>1, <2>2 DEF SlotInv, ResultInv, NothingToCancel
    <3> QED BY <1>0, <2>2, <2>3, <3>1 DEF StopInv, CancelledRunHasNoVerdict, IsRun
  <2> QED BY <2>5, <2>6, <2>7, <2>8 DEF StopInv
<1>2. CASE CancelStops(c)
  <2>1. aim \in Aims /\ aim.op = task /\ reasons[task] # {}
    BY <1>2 DEF CancelStops, LockInv, StopInv, AimInv
  <2>2. <<aim.op, aim.leg>>[1] = task
    BY <2>1
  <2>3. SignalsAreAimed'
    BY <1>2, <2>1, <2>2 DEF CancelStops, DockerStop, StopInv, SignalsAreAimed
  <2> QED BY <1>0, <1>2, <2>3 DEF CancelStops, StopInv, AimInv, CancelInv,
             CancelledRunHasNoVerdict, Active, IsRun
<1>3. CASE CancelReturns(c)
  <2>1. aim.op = task /\ reasons[task] # {}
    BY <1>3 DEF CancelReturns, LockInv, StopInv, AimInv
  <2>a. life \notin {"stopping", "stopped"}
    BY <1>3 DEF CancelReturns, LockInv
  <2>2. attached # 0 => Here(attached)[1] = task
    BY DEF Here, SlotInv, SingleOperation
  <2>3. SignalsAreAimed'
    BY <1>3, <2>1, <2>2 DEF CancelReturns, TerminateAttached, StopInv, SignalsAreAimed
  <2> QED BY <1>0, <1>3, <2>a, <2>3 DEF CancelReturns, StopInv, AimInv, CancelInv,
             CancelledRunHasNoVerdict, Active, IsRun
<1>4. CASE CancelRequest(c) \/ CancelRejected(c) \/ CancelFails(c)
  <2>1. /\ UNCHANGED <<cancelRequested, reasons, signalled>>
        /\ lock' \in {lock, NoClient}
        /\ aim' = aim \/ (lock' = NoClient /\ life \notin {"stopping", "stopped"})
    BY <1>4 DEF CancelRequest, CancelRejected, CancelFails, history, LockInv
  <2> QED BY <1>0, <2>1 DEF StopInv, SignalsAreAimed, AimInv, CancelInv,
             CancelledRunHasNoVerdict, Active, IsRun
<1> QED BY <1>1, <1>2, <1>3, <1>4 DEF CancelStep

(* A shutdown reaches only the active operation. *)
LEMMA StopLifespan ==
  ASSUME TypeOK, LockInv, SlotInv, StopInv, LifespanStep
  PROVE  StopInv'
<1> USE RunnerAssumption DEF RunnerAssumption, TypeOK
<1>1. CASE Startup
  <2> USE <1>1 DEF Startup, MarkInterrupted
  <2>1. \A o \in Ops : ended'[o] \in {"passed", "failed"} => ended'[o] = ended[o]
    OBVIOUS
  <2>2. CancelledRunHasNoVerdict'
    BY <2>1 DEF StopInv, CancelledRunHasNoVerdict, IsRun
  <2> QED BY <2>2 DEF StopInv, SignalsAreAimed, AimInv, CancelInv, Active
<1>2. ASSUME Forget, UNCHANGED <<kind, ended>>,
             \A o \in Ops : /\ reasons[o] \subseteq reasons'[o]
                            /\ "cancel" \in reasons'[o] => "cancel" \in reasons[o],
             SignalsAreAimed'
      PROVE  StopInv'
  <2> USE <1>2 DEF Forget
  <2>1. \A o \in Ops : stage'[o] \notin ActiveStages
    BY DEF Active, ActiveStages
  <2>2. AimInv' /\ CancelInv'
    BY <2>1 DEF AimInv, CancelInv, Active, ActiveStages
  <2>3. CancelledRunHasNoVerdict'
    BY DEF StopInv, CancelledRunHasNoVerdict, IsRun
  <2> QED BY <2>2, <2>3 DEF StopInv
<1>3. ASSUME TerminateAttached, task # 0 => reasons'[task] # {},
             \A o \in Ops : reasons[o] \subseteq reasons'[o]
      PROVE  SignalsAreAimed'
  <2>1. \A p \in signalled' : p \in signalled \/ (attached # 0 /\ p[1] = task)
    BY <1>3 DEF TerminateAttached, Here, SlotInv, SingleOperation
  <2>2. \A p \in signalled : p[1] \in Ops /\ reasons[p[1]] # {}
    BY DEF StopInv, SignalsAreAimed
  <2>3. attached # 0 => task # 0
    BY DEF SlotInv, SingleOperation
  <2>4. \A p \in signalled : reasons'[p[1]] # {}
    BY <1>3, <2>2
  <2> QED BY <1>3, <2>1, <2>3, <2>4 DEF SignalsAreAimed
<1>4. CASE Shutdown
  <2> USE <1>4 DEF Shutdown
  <2>1. CASE TaskDone
    BY <1>2, <2>1 DEF StopInv, SignalsAreAimed
  <2>2. CASE ~TaskDone
    <3>1. task \in Ops /\ disk.op = task
      BY <2>2 DEF TaskDone, SlotInv, TaskInv, Ops
    <3>2. /\ \A o \in Ops : /\ reasons[o] \subseteq reasons'[o]
                            /\ "cancel" \in reasons'[o] => "cancel" \in reasons[o]
          /\ reasons'[task] # {}
      <4>1. reasons' = [reasons EXCEPT ![task] = @ \cup {"shutdown"}]
        BY <2>2, <3>1
      <4>2. reasons'[task] = reasons[task] \cup {"shutdown"}
            /\ \A o \in Ops : o # task => reasons'[o] = reasons[o]
        BY <3>1, <4>1
      <4> QED BY <4>2
    <3>3. CASE disk.container = "none"
      BY <1>2, <1>3, <2>2, <3>2, <3>3
    <3>4. CASE disk.container # "none"
      <4>1. aim'.op = task /\ UNCHANGED <<task, stage, signalled, cancelRequested>>
        BY <2>2, <3>1, <3>4
      <4>2. SignalsAreAimed'
        BY <3>2, <4>1 DEF StopInv, SignalsAreAimed
      <4>3. AimInv'
        BY <3>2, <4>1 DEF StopInv, AimInv
      <4>4. CancelInv' /\ CancelledRunHasNoVerdict'
        BY <3>2, <4>1 DEF StopInv, CancelInv, CancelledRunHasNoVerdict, Active, IsRun
      <4> QED BY <4>2, <4>3, <4>4 DEF StopInv
    <3> QED BY <3>3, <3>4
  <2> QED BY <2>1, <2>2
<1>5. CASE ShutdownStops
  <2>1. aim.op = task /\ reasons[task] # {}
    BY <1>5 DEF ShutdownStops, StopInv, AimInv
  <2>2. <<aim.op, aim.leg>>[1] = task
    BY <2>1
  <2>3. SignalsAreAimed'
    <3>1. signalled' \subseteq signalled \cup {<<aim.op, aim.leg>>} /\ reasons' = reasons
      BY <1>5 DEF ShutdownStops, DockerStop
    <3>2. \A p \in signalled : reasons[p[1]] # {}
      BY DEF StopInv, SignalsAreAimed
    <3> QED BY ONLY <2>1, <2>2, <3>1, <3>2 DEF SignalsAreAimed
  <2> QED BY <1>5, <2>3 DEF ShutdownStops, StopInv, AimInv, CancelInv,
             CancelledRunHasNoVerdict, Active, IsRun
<1>6. CASE ShutdownReturns
  <2>1. reasons[task] # {} /\ UNCHANGED reasons
    BY <1>6 DEF ShutdownReturns, StopInv, AimInv
  <2>2. SignalsAreAimed'
    BY <1>3, <1>6, <2>1 DEF ShutdownReturns
  <2> QED BY <1>2, <1>6, <2>1, <2>2 DEF ShutdownReturns
<1>7. CASE Crash
  BY <1>2, <1>7 DEF Crash, ResetLog, history, StopInv, SignalsAreAimed
<1> QED BY <1>1, <1>4, <1>5, <1>6, <1>7 DEF LifespanStep

(* Every step keeps the stop invariant. *)
LEMMA StopStep ==
  ASSUME TypeOK, LockInv, SlotInv, StopInv, Next
  PROVE  StopInv'
<1>1. CASE StartFails
  <2>1. \A o \in Ops : stage[o] \notin ActiveStages
    BY <1>1, RunnerAssumption
       DEF RunnerAssumption, StartFails, ResetLog, StartGuard, TypeOK, TaskDone, SlotInv,
           SingleOperation, Active, ActiveStages, Ops
  <2> QED BY <1>1, <2>1 DEF StartFails, ResetLog, StopInv, SignalsAreAimed, AimInv, CancelInv,
             CancelledRunHasNoVerdict, Active, IsRun, history
<1>2. ASSUME NEW o \in Ops, NEW l \in Legs, DockerStep(o, l) PROVE StopInv'
  BY <1>2 DEF DockerStep, ContainerStarts, ContainerEnds, ProcessExits, inside,
     history, StopInv, SignalsAreAimed, AimInv, CancelInv, CancelledRunHasNoVerdict,
     Active, IsRun
<1> QED BY <1>1, <1>2, StopStart, StopCancel, StopOperation, StopLifespan DEF Next

(* The induction rests on the lock: between the acceptance of a cancel and *)
(* its last step the slot is not given away.                               *)
LEMMA StopInvariant == Spec => []StopInv
<1>1. Init => StopInv
  BY DEF Init, StopInv, SignalsAreAimed, AimInv, CancelInv,
     CancelledRunHasNoVerdict, Active, ActiveStages
<1>2. TypeOK /\ LockInv /\ SlotInv /\ StopInv /\ [Next]_vars => StopInv'
  <2>1. CASE Next
    BY <2>1, StopStep
  <2>2. CASE UNCHANGED vars
    BY <2>2 DEF vars, StopInv, SignalsAreAimed, AimInv, CancelInv,
       CancelledRunHasNoVerdict, Active, IsRun
  <2> QED BY <2>1, <2>2
<1> QED BY <1>1, <1>2, SlotInvariant, PTL DEF Spec

(* A cancel, a timeout or a shutdown only ever reaches processes and       *)
(* containers of the operation it was meant for.                           *)
THEOREM SignalsCorrect == Spec => []SignalsAreAimed
<1>1. StopInv => SignalsAreAimed
  BY DEF StopInv
<1> QED BY <1>1, StopInvariant, PTL

(* A test run whose cancellation was accepted gets no verdict, at whatever *)
(* step of the run and of its reports that happens.                        *)
THEOREM CancelCorrect == Spec => []CancelledRunHasNoVerdict
<1>1. StopInv => CancelledRunHasNoVerdict
  BY DEF StopInv
<1> QED BY <1>1, StopInvariant, PTL

------------------------------------------------------------------------------
(* RunnerService implements OperationSlot, and a terminal record is final. *)

(* The mapped state. *)
Busy == \E o \in Ops : Active(o)
Shown == [op |-> disk.op,
          status |-> IF disk.status \in ActiveStatus THEN "active" ELSE disk.status]

(* Active and terminal statuses are disjoint, as is_terminal says. *)
LEMMA StatusFacts ==
  /\ TerminalStatus \ {"interrupted"} = Slot!Results
  /\ ActiveStatus \cap TerminalStatus = {}
  /\ "none" \notin ActiveStatus \cup TerminalStatus
  BY DEF TerminalStatus, ActiveStatus, Slot!Results

(* Steps that change neither file and do not end an operation. *)
LEMMA SilentStep ==
  ASSUME UNCHANGED <<stage, disk, log>>
  PROVE  UNCHANGED Slot!slotVars
  BY DEF Slot!slotVars, Active

(* An accepted start takes the abstract slot. *)
LEMMA StartRefines ==
  ASSUME TypeOK, SlotInv, NEW o \in Ops, NEW k \in Requests, Start(o, k)
  PROVE  Slot!Accept(o)
<1> USE RunnerAssumption DEF RunnerAssumption, TypeOK, Start, ResetLog, StartGuard
<1>1. ~Busy
  BY DEF Busy, SlotInv, SingleOperation, Active, TaskDone, ActiveStages, Ops
<1>2. Busy'
  BY DEF Busy, Active, ActiveStages
<1>3. o > disk.op
  <2>1. disk.op # 0 => disk.op \in Ops
    BY DEF StateRecords, NoState
  <2> QED BY <2>1 DEF SlotInv, TaskInv, FreshInv, Fresh, Ops
<1>4. Shown' = [op |-> o, status |-> "active"]
  <2>1. StartStatus[k] \in ActiveStatus
    BY DEF StartStatus, ActiveStatus
  <2> QED BY <2>1 DEF Shown
<1> QED BY <1>1, <1>2, <1>3, <1>4 DEF Slot!Accept, Busy, Shown

(* A coroutine step prints, ends, abandons or is invisible. *)
LEMMA OperationRefines ==
  ASSUME TypeOK, SlotInv, NEW o \in Ops, OperationStep(o)
  PROVE  Slot!SlotNext \/ UNCHANGED Slot!slotVars
<1>1. Effect(o)
  BY OperationEffect
<1> USE <1>1 DEF Effect, TypeOK
<1>2. /\ Busy /\ disk.op = o
      /\ disk.status \in ActiveStatus
      /\ \A p \in Ops : p # o => stage[p] \notin ActiveStages
  BY DEF Busy, SlotInv, SingleOperation, RecordOfTask, Active, StartStatus,
     ActiveStatus, Kinds
<1>3. CASE GoesOn(o)
  <2>1. Busy' /\ Shown' = Shown
    BY <1>2, <1>3 DEF Busy, Active, Shown, GoesOn
  <2>2. CASE UNCHANGED log
    BY <1>2, <2>1, <2>2 DEF Slot!slotVars, Busy, Shown
  <2>3. CASE Len(log) < MaxLines /\ log' = Append(log, o)
    BY <1>2, <2>1, <2>3 DEF Slot!SlotNext, Slot!Output, Busy, Shown
  <2> QED BY <2>2, <2>3
<1>4. CASE Over(o)
  <2>1. ~Busy' /\ UNCHANGED log
    BY <1>2, <1>4 DEF Busy, Active, Over, GoesOn, Others, ActiveStages
  <2>2. CASE UNCHANGED disk
    BY <1>2, <2>1, <2>2 DEF Slot!SlotNext, Slot!Abandon, Busy
  <2>3. ASSUME NEW s \in TerminalStatus \ {"interrupted"},
               disk' = [op |-> o, status |-> s, container |-> "none"]
        PROVE  Slot!SlotNext
    <3>1. s \in Slot!Results /\ s \notin ActiveStatus
      BY StatusFacts
    <3>2. Shown' = [Shown EXCEPT !.status = s]
      BY <1>2, <2>3, <3>1 DEF Shown
    <3> QED BY <1>2, <2>1, <3>1, <3>2 DEF Slot!SlotNext, Slot!End, Busy, Shown
  <2> QED BY <1>4, <2>2, <2>3 DEF Over
<1> QED BY <1>3, <1>4

(* Startup interrupts, a stop abandons, a crash may clear the log. *)
LEMMA LifespanRefines ==
  ASSUME TypeOK, SlotInv, LifespanStep
  PROVE  Slot!SlotNext \/ UNCHANGED Slot!slotVars
<1> USE RunnerAssumption DEF RunnerAssumption, TypeOK
<1>1. CASE Startup
  <2>1. CASE UNCHANGED disk
    BY <1>1, <2>1, SilentStep DEF Startup, MarkInterrupted
  <2>2. CASE /\ disk # NoState /\ ~IsTerminal(disk)
             /\ disk' = [disk EXCEPT !.status = "interrupted"]
    <3>1. ~Busy /\ ~Busy' /\ UNCHANGED log
      BY <1>1 DEF Startup, MarkInterrupted, Busy, SlotInv, TaskInv, SingleOperation, Active, Ops
    <3>2. disk \in StateRecords /\ disk.status \in ActiveStatus
      BY <2>2 DEF StateRecords, IsTerminal
    <3>3. "interrupted" \notin ActiveStatus
      BY DEF ActiveStatus
    <3>4. Shown.status = "active" /\ Shown' = [Shown EXCEPT !.status = "interrupted"]
      BY <2>2, <3>2, <3>3 DEF Shown, StateRecords
    <3> QED BY <3>1, <3>4 DEF Slot!SlotNext, Slot!Interrupt, Busy, Shown
  <2> QED BY <1>1, <2>1, <2>2 DEF Startup, MarkInterrupted
<1>2. ASSUME Forget, UNCHANGED disk, UNCHANGED log \/ (~Busy /\ log' = <<>>)
      PROVE  Slot!SlotNext \/ UNCHANGED Slot!slotVars
  <2>1. ~Busy'
    BY <1>2 DEF Forget, Busy, Active, ActiveStages
  <2>2. CASE Busy
    BY <1>2, <2>1, <2>2 DEF Slot!SlotNext, Slot!Abandon, Busy
  <2>3. CASE ~Busy
    BY <1>2, <2>1, <2>3 DEF Slot!SlotNext, Slot!ClearLog, Slot!slotVars, Busy
  <2> QED BY <2>2, <2>3
<1>3. CASE Shutdown
  BY <1>2, <1>3, SilentStep DEF Shutdown
<1>4. CASE ShutdownStops
  BY <1>4, SilentStep DEF ShutdownStops
<1>5. CASE ShutdownReturns
  BY <1>2, <1>5 DEF ShutdownReturns
<1>6. CASE Crash
  <2>1. StartGuard => ~Busy
    BY DEF StartGuard, Busy, SlotInv, SingleOperation, Active, TaskDone,
       ActiveStages, Ops
  <2> QED BY <1>2, <1>6, <2>1 DEF Crash, ResetLog
<1> QED BY <1>1, <1>3, <1>4, <1>5, <1>6 DEF LifespanStep

(* Every step of the service is a step of the slot or invisible. *)
LEMMA StepRefines ==
  ASSUME TypeOK, SlotInv, [Next]_vars
  PROVE  [Slot!SlotNext]_Slot!slotVars
<1>1. ASSUME NEW o \in Ops, NEW k \in Requests, Start(o, k)
      PROVE  Slot!SlotNext
  BY <1>1, StartRefines DEF Slot!SlotNext, Ops
<1>2. CASE StartFails
  <2>1. ~Busy /\ ~Busy'
    BY <1>2, RunnerAssumption
       DEF RunnerAssumption, StartFails, ResetLog, StartGuard, TypeOK, Busy, SlotInv,
           SingleOperation, Active, TaskDone, ActiveStages, Ops
  <2> QED BY <1>2, <2>1 DEF StartFails, ResetLog, Slot!SlotNext, Slot!ClearLog, Busy
<1>3. ASSUME NEW c \in Clients, CancelStep(c) PROVE UNCHANGED Slot!slotVars
  BY <1>3, SilentStep
     DEF CancelStep, CancelRequest, CancelRejected, CancelAccepted, CancelStops,
         CancelReturns, CancelFails
<1>4. ASSUME NEW o \in Ops, NEW l \in Legs, DockerStep(o, l)
      PROVE  UNCHANGED Slot!slotVars
  BY <1>4, SilentStep
     DEF DockerStep, ContainerStarts, ContainerEnds, ProcessExits, inside
<1>5. CASE UNCHANGED vars
  BY <1>5, SilentStep DEF vars
<1> QED BY <1>1, <1>2, <1>3, <1>4, <1>5, OperationRefines, LifespanRefines DEF Next

(* The service implements the abstract operation slot: whatever the        *)
(* interleaving of requests, coroutine steps, faults and crashes, its two  *)
(* files only change the way OperationSlot allows.                         *)
THEOREM SlotRefinement == Spec => ImplementsSlot
<1>1. Init => Slot!SlotInit
  BY DEF Init, Slot!SlotInit, Active, ActiveStages, NoState, ActiveStatus
<1>2. TypeOK /\ SlotInv /\ [Next]_vars => [Slot!SlotNext]_Slot!slotVars
  BY StepRefines
<1> QED BY <1>1, <1>2, SlotInvariant, PTL DEF Spec, ImplementsSlot, Slot!SlotSpec

(* A terminal record is final: no late step of a finished operation, no    *)
(* second handler and no restart rewrites it.                              *)
THEOREM TerminalFinal == Spec => TerminalIsFinal
<1> DEFINE Final == IsTerminal(disk) /\ disk' # disk
                      => disk'.op > disk.op /\ ~IsTerminal(disk)'
<1>1. ASSUME TypeOK, SlotInv, [Next]_vars PROVE Final
  <2> SUFFICES ASSUME IsTerminal(disk), disk' # disk
               PROVE  disk'.op > disk.op /\ ~IsTerminal(disk)'
    OBVIOUS
  <2>1. \A o \in Ops : stage[o] \notin ActiveStages
    BY <1>1, StatusFacts DEF SlotInv, RecordOfTask, Active, IsTerminal, StartStatus,
       ActiveStatus, TypeOK, Kinds
  <2>2. ASSUME NEW o \in Ops, OperationStep(o) PROVE FALSE
    BY <1>1, <2>1, <2>2, OperationEffect DEF Effect
  <2>3. CASE LifespanStep
    BY <2>3 DEF LifespanStep, Startup, MarkInterrupted, Shutdown, ShutdownStops,
                ShutdownReturns, Crash, ResetLog
  <2>4. ASSUME NEW o \in Ops, NEW k \in Requests, Start(o, k)
        PROVE  disk'.op > disk.op /\ ~IsTerminal(disk)'
    <3>1. Slot!Accept(o)
      BY <1>1, <2>4, StartRefines
    <3>2. o > disk.op
      BY <3>1 DEF Slot!Accept
    <3>3. disk'.op = o /\ disk'.status = StartStatus[k]
      BY <2>4 DEF Start, ResetLog
    <3>4. StartStatus[k] \in ActiveStatus
      BY RunnerAssumption DEF RunnerAssumption, StartStatus, ActiveStatus
    <3> QED BY <3>2, <3>3, <3>4, StatusFacts DEF IsTerminal
  <2> QED BY <1>1, <2>2, <2>3, <2>4 DEF Next, StartFails, ResetLog, CancelStep, CancelRequest,
             CancelRejected, CancelAccepted, CancelStops, CancelReturns, CancelFails,
             DockerStep, ContainerStarts, ContainerEnds, ProcessExits, inside, vars
<1>2. TypeOK /\ SlotInv /\ [Next]_vars => [Final]_vars
  BY <1>1
<1> QED BY <1>2, SlotInvariant, PTL DEF Spec, TerminalIsFinal
------------------------------------------------------------------------------
(* What the service reports.                                               *)

(* An operation past its main leg leaves an exited main process; an image  *)
(* is only inspected if that process succeeded.  A container outlives its  *)
(* process only where asyncio killed the process while it was starting,    *)
(* and then the operation is on its way to end without a result.           *)
ExitInv ==
    \A o \in Ops :
        /\ stage[o] = "lookup" => Exited(<<o, "main">>)
        /\ Active(o) /\ leg[o] = "aux" =>
              Exited(<<o, "main">>) /\ (IsRun(o) \/ proc[<<o, "main">>] = "ok")
        /\ Exited(<<o, "main">>) /\ container[<<o, "main">>] = "up" =>
              /\ leg[o] = "main"
              /\ stage[o] \in {"stopping", "stopped", "lateLookup", "done"}
              /\ ended[o] \notin {"passed", "failed", "succeeded", "cancelled"}

------------------------------------------------------------------------------
(* The invariant, one operation at a time.                                 *)

Results == {"passed", "failed", "succeeded", "cancelled"}

ReportInv == ExitInv /\ VerdictOfProcess /\ NothingLeftBehind

(* What ReportInv says of operation o. *)
Report(o) ==
    /\ stage[o] = "lookup" => Exited(<<o, "main">>)
    /\ stage[o] \in ActiveStages /\ leg[o] = "aux" =>
          Exited(<<o, "main">>) /\ (IsRun(o) \/ proc[<<o, "main">>] = "ok")
    /\ Exited(<<o, "main">>) /\ container[<<o, "main">>] = "up" =>
          /\ leg[o] = "main"
          /\ stage[o] \in {"stopping", "stopped", "lateLookup", "done"}
          /\ ended[o] \notin Results
    /\ ended[o] = "passed" => proc[<<o, "main">>] = "ok"
    /\ ended[o] = "failed" => proc[<<o, "main">>] = "err"
    /\ ended[o] = "succeeded" =>
          proc[<<o, "main">>] = "ok" /\ proc[<<o, "aux">>] = "ok"
    /\ ended[o] \in Results =>
          Exited(<<o, "main">>) /\ container[<<o, "main">>] # "up"

(* A step that leaves alone everything Report(o) mentions. *)
Same(o) ==
    /\ stage'[o] = stage[o] /\ leg'[o] = leg[o] /\ kind'[o] = kind[o]
    /\ ended'[o] = ended[o]
    /\ \A l \in Legs : /\ proc'[<<o, l>>] = proc[<<o, l>>]
                       /\ container'[<<o, l>>] = container[<<o, l>>]

(* The invariant is the conjunction of what it says of each operation. *)
LEMMA ReportPerOperation == ReportInv <=> \A o \in Ops : Report(o)
<1>1. ReportInv => \A o \in Ops : Report(o)
  BY DEF ReportInv, ExitInv, VerdictOfProcess, NothingLeftBehind, Report, Active,
     Results, Legs
<1>2. (\A o \in Ops : Report(o)) => ReportInv
  BY DEF ReportInv, ExitInv, VerdictOfProcess, NothingLeftBehind, Report, Active,
     Results, Legs
<1> QED BY <1>1, <1>2

(* The same after a step. *)
LEMMA ReportPerOperationNext == (\A o \in Ops : Report(o)') => ReportInv'
  BY DEF ReportInv, ExitInv, VerdictOfProcess, NothingLeftBehind, Report, Active,
     Results, Legs

(* An untouched operation keeps its part of the invariant. *)
LEMMA ReportSame ==
  ASSUME NEW o \in Ops, Report(o), Same(o)
  PROVE  Report(o)'
  BY DEF Report, Same, Exited, IsRun, Legs

------------------------------------------------------------------------------
(* The steps of an operation's coroutine.                                  *)

(* The end of a coroutine: it is done, and has the given result, the       *)
(* fallback one or none.                                                   *)
LEMMA FinishResult ==
  ASSUME TypeOK, NEW o \in Ops, NEW s \in TerminalStatus,
         Finish(o, s) \/ End(o, s, TRUE)
  PROVE  /\ stage'[o] = "done"
         /\ ended'[o] \in {ended[o], s, "infrastructure_error"}
         /\ faults' = faults => IsTerminal(disk')
<1>1. stage'[o] = "done" /\ ended'[o] \in {ended[o], s, "infrastructure_error"}
  BY DEF TypeOK, Finish, End, Record
<1>2. faults' = faults => IsTerminal(disk')
  BY DEF TypeOK, Finish, End, Record, Fault, IsTerminal
<1> QED BY <1>1, <1>2

(* An operation may end with a result if its processes agree with it. *)
LEMMA FinishReport ==
  ASSUME TypeOK, SlotInv, NEW o \in Ops, stage[o] \in ActiveStages,
         NEW s \in TerminalStatus, Finish(o, s) \/ End(o, s, TRUE),
         UNCHANGED <<leg, container>>,
         Exited(<<o, "main">>)' /\ container[<<o, "main">>] = "up" =>
             leg[o] = "main" /\ s \notin Results,
         s = "passed" => proc'[<<o, "main">>] = "ok",
         s = "failed" => proc'[<<o, "main">>] = "err",
         s = "succeeded" => proc'[<<o, "main">>] = "ok" /\ proc'[<<o, "aux">>] = "ok",
         s \in Results => Exited(<<o, "main">>)'
  PROVE  Report(o)'
<1>1. ended[o] = "none"
  BY DEF SlotInv, ResultInv, Active
<1>2. stage'[o] = "done" /\ ended'[o] \in {"none", s, "infrastructure_error"}
  BY <1>1, FinishResult
<1> QED BY <1>2 DEF Report, Results, ActiveStages

(* The start of a leg. *)
LEMMA SpawnReport ==
  ASSUME TypeOK, SlotInv, NEW o \in Ops, stage[o] \in ActiveStages,
         NEW l \in Legs, Spawn(o, l), UNCHANGED <<container, ended, kind>>,
         l = "aux" => /\ Exited(<<o, "main">>)
                      /\ container[<<o, "main">>] # "up"
                      /\ IsRun(o) \/ proc[<<o, "main">>] = "ok"
  PROVE  Report(o)'
<1>1. ended'[o] = "none" /\ stage'[o] = "spawning" /\ leg'[o] = l
  BY DEF SlotInv, ResultInv, Active, Spawn, TypeOK
<1>2. CASE l = "main"
  <2>1. proc'[<<o, "main">>] = "alive"
    BY <1>2 DEF Spawn, TypeOK
  <2> QED BY <1>1, <1>2, <2>1 DEF Report, Exited, Results
<1>3. CASE l = "aux"
  <2>1. proc'[<<o, "main">>] = proc[<<o, "main">>]
    BY <1>3 DEF Spawn, TypeOK, Legs
  <2> QED BY <1>1, <1>3, <2>1 DEF Report, Exited, Results, IsRun
<1> QED BY <1>2, <1>3 DEF Legs

(* The four ways a leg's result is handled, once the main process has      *)
(* exited and its container is down.                                       *)
LEMMA RunStepReport ==
  ASSUME TypeOK, SlotInv, NEW o \in Ops, stage[o] \in ActiveStages,
         UNCHANGED <<container, kind>>,
         Exited(<<o, "main">>), container[<<o, "main">>] # "up",
         \/ ~IsRun(o) /\ AfterBuild(o)
         \/ ~IsRun(o) /\ proc[<<o, "main">>] = "ok" /\ AfterInspect(o)
         \/ IsRun(o) /\ (AfterRun(o) \/ AfterPublish(o))
  PROVE  Report(o)'
<1> DEFINE Ends == \E s \in TerminalStatus :
                      /\ Finish(o, s) \/ End(o, s, TRUE)
                      /\ UNCHANGED <<leg, proc>>
                      /\ s = "passed" => proc[<<o, "main">>] = "ok"
                      /\ s = "failed" => proc[<<o, "main">>] = "err"
                      /\ s = "succeeded" => /\ proc[<<o, "main">>] = "ok"
                                            /\ proc[<<o, "aux">>] = "ok"
           Goes == /\ Spawn(o, "aux") /\ UNCHANGED ended
                   /\ IsRun(o) \/ proc[<<o, "main">>] = "ok"
<1>1. /\ Verdict(o) = "passed" => proc[<<o, "main">>] = "ok"
      /\ Verdict(o) = "failed" => proc[<<o, "main">>] = "err"
      /\ Verdict(o) \in {"passed", "failed"}
      /\ proc[<<o, "main">>] # "err" => proc[<<o, "main">>] = "ok"
  BY DEF Verdict, Exited
<1>2. {"passed", "failed", "cancelled", "succeeded", "infrastructure_error"}
        \subseteq TerminalStatus
  BY DEF TerminalStatus
<1>3. Ends \/ Goes
  <2>1. CASE ~IsRun(o) /\ AfterBuild(o)
    BY <1>1, <1>2, <2>1 DEF AfterBuild, SpawnFails
  <2>2. CASE ~IsRun(o) /\ proc[<<o, "main">>] = "ok" /\ AfterInspect(o)
    BY <1>2, <2>2 DEF AfterInspect
  <2>3. CASE IsRun(o) /\ AfterRun(o)
    BY <1>1, <1>2, <2>3 DEF AfterRun
  <2>4. CASE AfterPublish(o)
    BY <1>1, <1>2, <2>4 DEF AfterPublish
  <2> QED BY <2>1, <2>2, <2>3, <2>4
<1>4. CASE Ends
  <2>1. PICK s \in TerminalStatus :
            /\ Finish(o, s) \/ End(o, s, TRUE)
            /\ UNCHANGED <<leg, proc>>
            /\ s = "passed" => proc[<<o, "main">>] = "ok"
            /\ s = "failed" => proc[<<o, "main">>] = "err"
            /\ s = "succeeded" => /\ proc[<<o, "main">>] = "ok"
                                  /\ proc[<<o, "aux">>] = "ok"
    BY <1>4
  <2>2. Exited(<<o, "main">>)'
    BY <2>1 DEF Exited
  <2> QED BY <2>1, <2>2, FinishReport
<1>5. CASE Goes
  <2>1. "aux" \in Legs
    BY DEF Legs
  <2> QED BY <1>5, <2>1, SpawnReport
<1> QED BY <1>3, <1>4, <1>5

(* run() is abandoned: only the process of the current leg may have been   *)
(* killed.                                                                 *)
LEMMA AbandonProc ==
  ASSUME TypeOK, NEW o \in Ops, AbandonRun(o)
  PROVE  /\ \A l \in Legs : l # leg[o] => proc'[<<o, l>>] = proc[<<o, l>>]
         /\ \A p \in Ops, l \in Legs : p # o => proc'[<<p, l>>] = proc[<<p, l>>]
  BY DEF TypeOK, AbandonRun, Here

(* Each step of an operation's coroutine keeps its part of the invariant.  *)
LEMMA OperationReport ==
  ASSUME TypeOK, SlotInv, NEW o \in Ops, Report(o), OperationStep(o)
  PROVE  Report(o)'
<1> USE DEF outside
<1>a. /\ "infrastructure_error" \in TerminalStatus \ Results
      /\ "timed_out" \in TerminalStatus \ Results
      /\ "cancelled" \in TerminalStatus
      /\ Verdict(o) \in TerminalStatus
  BY DEF Verdict, TerminalStatus, Results
<1>b. stage[o] \in ActiveStages /\ leg[o] \in Legs
  BY OperationEffect DEF Effect, TypeOK
<1>c. ended[o] = "none"
  BY <1>b DEF SlotInv, ResultInv, Active
<1>d. leg[o] = "aux" => container[<<o, "main">>] # "up"
  BY <1>b DEF Report
<1>1. CASE Launch(o)
  <2>1. CASE Spawn(o, "main") /\ UNCHANGED ended
    <3>1. "main" \in Legs
      BY DEF Legs
    <3> QED BY <1>1, <1>b, <2>1, <3>1, SpawnReport DEF Launch
  <2>2. CASE SpawnFails(o)
    <3>1. Exited(<<o, "main">>) /\ container[<<o, "main">>] = "up" => FALSE
      BY <1>1 DEF Launch, Report
    <3>2. UNCHANGED <<leg, proc, container>>
      BY <1>1, <2>2 DEF Launch, SpawnFails
    <3>3. Finish(o, "infrastructure_error")
      BY <2>2 DEF SpawnFails
    <3> QED BY <1>a, <1>b, <3>1, <3>2, <3>3, FinishReport DEF Exited, Results
  <2> QED BY <1>1, <2>1, <2>2 DEF Launch
<1>2. CASE Attach(o)
  BY <1>2, <1>b, <1>c DEF Attach, Report, TypeOK, world, history, Exited, IsRun, ActiveStages
<1>3. CASE ReadLine(o)
  BY <1>3 DEF ReadLine, Report, world, history, Exited, IsRun
<1>4. CASE MainReturns(o)
  <2>1. Exited(<<o, "main">>) /\ container[<<o, "main">>] # "up"
    BY <1>4 DEF MainReturns, Report
  <2>2. CASE IsRun(o) /\ ReportPortalEnabled
    BY <1>4, <1>c, <2>1, <2>2 DEF MainReturns, Report, TypeOK, Exited, IsRun
  <2>3. CASE ~IsRun(o)
    BY <1>4, <1>b, <2>1, <2>3, RunStepReport DEF MainReturns
  <2>4. CASE IsRun(o) /\ ~ReportPortalEnabled
    BY <1>4, <1>b, <2>1, <2>4, RunStepReport DEF MainReturns
  <2> QED BY <2>2, <2>3, <2>4
<1>5. CASE AuxReturns(o)
  <2>1. /\ Exited(<<o, "main">>) /\ container[<<o, "main">>] # "up"
        /\ IsRun(o) \/ proc[<<o, "main">>] = "ok"
    BY <1>5, <1>b, <1>d DEF AuxReturns, Report
  <2> QED BY <1>5, <1>b, <2>1, RunStepReport DEF AuxReturns
<1>6. CASE LookupReturns(o)
  <2>1. IsRun(o) /\ Exited(<<o, "main">>) /\ container[<<o, "main">>] # "up"
    BY <1>6 DEF LookupReturns, Report, SlotInv, TaskInv
  <2> QED BY <1>6, <1>b, <2>1, RunStepReport DEF LookupReturns
<1>7. CASE RunRaises(o)
  <2> DEFINE s == IF ~IsRun(o) \/ leg[o] = "main" THEN "infrastructure_error"
                  ELSE IF cancelRequested THEN "cancelled" ELSE Verdict(o)
  <2>1. Finish(o, s) /\ AbandonRun(o) /\ UNCHANGED <<leg, container>>
    BY <1>7 DEF RunRaises
  <2>2. CASE s = "infrastructure_error"
    BY <1>a, <1>b, <1>d, <2>1, <2>2, FinishReport DEF Legs, Results
  <2>3. CASE s # "infrastructure_error"
    <3>1. leg[o] = "aux" /\ Exited(<<o, "main">>) /\ s \in {"cancelled", Verdict(o)}
      BY <1>b, <2>3 DEF Report, Legs
    <3>2. proc'[<<o, "main">>] = proc[<<o, "main">>]
      BY <2>1, <3>1, AbandonProc DEF Legs
    <3>3. /\ s = "passed" => proc[<<o, "main">>] = "ok"
          /\ s = "failed" => proc[<<o, "main">>] = "err"
          /\ s # "succeeded" /\ s \in TerminalStatus
      BY <1>a, <3>1 DEF Verdict, Exited
    <3>4. Exited(<<o, "main">>)'
      BY <3>1, <3>2 DEF Exited
    <3> HIDE DEF s
    <3> QED BY <1>b, <1>d, <2>1, <3>1, <3>2, <3>3, <3>4, FinishReport
  <2> QED BY <2>2, <2>3
<1>8. CASE RunTimesOut(o)
  <2> USE <1>8 DEF RunTimesOut
  <2>1. CASE IsRun(o)
    <3>1. /\ stage'[o] = "stopping" /\ ended'[o] = "none"
          /\ UNCHANGED <<leg, container, kind>>
      BY <1>c, <2>1 DEF TypeOK
    <3>2. leg[o] = "aux" => proc'[<<o, "main">>] = proc[<<o, "main">>]
      BY AbandonProc DEF Legs
    <3> QED BY <1>b, <1>d, <2>1, <3>1, <3>2 DEF Report, Exited, IsRun, Results, Legs
  <2>2. CASE ~IsRun(o)
    BY <1>a, <1>b, <1>d, <2>2, FinishReport DEF Legs, Results
  <2> QED BY <2>1, <2>2
<1>9. CASE TimeoutStops(o)
  <2>1. container'[<<o, "main">>] \in {container[<<o, "main">>], "down"}
    <3>1. <<o, "main">> \in Ops \X Legs
      BY DEF Legs
    <3> QED BY <1>9, <3>1 DEF TimeoutStops, DockerStop, TypeOK
  <2>2. stage'[o] = "stopped" /\ UNCHANGED <<leg, proc, ended, kind>>
    BY <1>9 DEF TimeoutStops, TypeOK
  <2> QED BY <1>b, <1>c, <2>1, <2>2 DEF Report, Exited, IsRun, Results
<1>10. CASE TimeoutReturns(o)
  <2> USE <1>10 DEF TimeoutReturns
  <2>1. CASE leg[o] = "aux"
    <3>1. Exited(<<o, "main">>)
      BY <1>b, <2>1 DEF Report
    <3> DEFINE s == IF cancelRequested THEN "cancelled" ELSE Verdict(o)
    <3>2. Finish(o, s) /\ UNCHANGED <<leg, proc, container>>
      BY <2>1 DEF AfterPublish
    <3>3. /\ s = "passed" => proc[<<o, "main">>] = "ok"
          /\ s = "failed" => proc[<<o, "main">>] = "err"
          /\ s # "succeeded" /\ s \in TerminalStatus
      BY <1>a, <3>1 DEF Verdict, Exited
    <3>4. Exited(<<o, "main">>)'
      BY <3>1, <3>2 DEF Exited
    <3> HIDE DEF s
    <3> QED BY <1>b, <1>d, <2>1, <3>2, <3>3, <3>4, FinishReport
  <2>2. CASE leg[o] # "aux" /\ ReportPortalEnabled
    <3>1. stage'[o] = "lateLookup" /\ UNCHANGED <<leg, proc, container, ended, kind>>
      BY <2>2 DEF TypeOK
    <3> QED BY <1>b, <1>c, <2>2, <3>1 DEF Report, Exited, IsRun, Results
  <2>3. CASE leg[o] # "aux" /\ ~ReportPortalEnabled
    BY <1>a, <1>b, <2>3, FinishReport DEF Legs, Results
  <2> QED BY <2>1, <2>2, <2>3
<1>11. CASE TimeoutStopFails(o)
  <2>1. /\ stage'[o] = "done" /\ ended'[o] \in {"none", "infrastructure_error"}
        /\ UNCHANGED <<leg, proc, container, kind>>
    BY <1>11, <1>c DEF TimeoutStopFails, TypeOK, Record, world
  <2> QED BY <1>b, <2>1 DEF Report, Exited, IsRun, Results, ActiveStages
<1>12. CASE LateLookupReturns(o)
  <2>1. Exited(<<o, "main">>)' /\ container[<<o, "main">>] = "up" => leg[o] = "main"
    BY <1>12 DEF LateLookupReturns, world, Exited, Report
  <2>2. Finish(o, "timed_out") /\ UNCHANGED <<leg, container>>
    BY <1>12 DEF LateLookupReturns, world
  <2> QED BY <1>a, <1>b, <2>1, <2>2, FinishReport DEF Results
<1> QED BY <1>1, <1>2, <1>3, <1>4, <1>5, <1>6, <1>7, <1>8, <1>9, <1>10,
           <1>11, <1>12 DEF OperationStep

(* A step of one operation's coroutine leaves every other operation alone. *)
LEMMA OperationFrame ==
  ASSUME TypeOK, SlotInv, NEW o \in Ops, OperationStep(o),
         NEW p \in Ops, p # o
  PROVE  Same(p)
<1>1. Others(o) /\ UNCHANGED kind
  BY OperationEffect DEF Effect, outside
<1>2. \A l \in Legs : container'[<<p, l>>] = container[<<p, l>>]
  BY DEF OperationStep, Launch, Attach, ReadLine, MainReturns, AuxReturns,
     LookupReturns, RunRaises, RunTimesOut, TimeoutStops, TimeoutReturns,
     TimeoutStopFails, LateLookupReturns, DockerStop, Here, TypeOK, world
<1>3. \A l \in Legs : proc'[<<p, l>>] = proc[<<p, l>>]
  <2>1. ASSUME NEW m \in Legs, Spawn(o, m)
        PROVE  \A l \in Legs : proc'[<<p, l>>] = proc[<<p, l>>]
    BY <2>1 DEF Spawn, TypeOK
  <2>2. "main" \in Legs /\ "aux" \in Legs
    BY DEF Legs
  <2>3. Spawn(o, "main") \/ Spawn(o, "aux") \/ AbandonRun(o) \/ UNCHANGED proc
    BY DEF OperationStep, Launch, Attach, ReadLine, MainReturns, AuxReturns,
       LookupReturns, RunRaises, RunTimesOut, TimeoutStops, TimeoutReturns,
       TimeoutStopFails, LateLookupReturns, SpawnFails, AfterBuild, AfterRun,
       AfterPublish, AfterInspect, world
  <2> QED BY <2>1, <2>2, <2>3, AbandonProc
<1> QED BY <1>1, <1>2, <1>3 DEF Same, Others

------------------------------------------------------------------------------
(* The steps of everybody else.                                            *)

(* A new operation has left no trace: it was never started. *)
LEMMA ReportStart ==
  ASSUME TypeOK, SlotInv, \A p \in Ops : Report(p),
         NEW o \in Ops, NEW k \in Requests, Start(o, k)
  PROVE  \A p \in Ops : Report(p)'
<1>1. UNCHANGED <<leg, proc, container, ended>>
  BY DEF Start, world, history
<1>2. Report(o)'
  <2>1. stage[o] = "none" /\ leg[o] = "main" /\ ended[o] = "none"
        /\ stage'[o] = "created"
    BY DEF Start, Fresh, SlotInv, FreshInv, TypeOK
  <2> QED BY <1>1, <2>1 DEF Report, Exited, Results
<1>3. ASSUME NEW p \in Ops, p # o PROVE Report(p)'
  <2>1. Same(p)
    BY <1>1, <1>3 DEF Start, Same, TypeOK
  <2> QED BY <2>1, ReportSame
<1> QED BY <1>2, <1>3

(* docker stop can only help: a container goes down. *)
LEMMA ReportDockerStop ==
  ASSUME TypeOK, NEW p \in Ops \X Legs, DockerStop(p),
         UNCHANGED <<stage, leg, kind, ended, proc>>,
         \A o \in Ops : Report(o)
  PROVE  \A o \in Ops : Report(o)'
<1>1. \A o \in Ops : container'[<<o, "main">>] = "up" => container[<<o, "main">>] = "up"
  <2>1. \A o \in Ops : <<o, "main">> \in Ops \X Legs
    BY DEF Legs
  <2> QED BY <2>1 DEF DockerStop, TypeOK
<1> QED BY <1>1 DEF Report, Exited, IsRun

(* The cancel requests. *)
LEMMA ReportCancel ==
  ASSUME TypeOK, LockInv, \A o \in Ops : Report(o), NEW c \in Clients, CancelStep(c)
  PROVE  \A o \in Ops : Report(o)'
<1>0. UNCHANGED <<stage, leg, kind, ended, proc>>
  BY DEF CancelStep, CancelRequest, CancelRejected, CancelAccepted, CancelStops,
     CancelReturns, CancelFails, world, history
<1>1. CASE CancelStops(c)
  <2>1. aim \in Aims
    BY <1>1, RunnerAssumption DEF RunnerAssumption, LockInv, CancelStops
  <2>2. <<aim.op, aim.leg>> \in Ops \X Legs
    BY <2>1 DEF Aims
  <2> QED BY <1>0, <1>1, <2>2, ReportDockerStop DEF CancelStops
<1>2. CASE ~CancelStops(c)
  <2>1. UNCHANGED container
    BY <1>2 DEF CancelStep, CancelRequest, CancelRejected, CancelAccepted,
       CancelReturns, CancelFails, world
  <2> QED BY <1>0, <2>1, ReportSame DEF Same
<1> QED BY <1>1, <1>2

(* The end of the service process: an operation it abandons has no result. *)
LEMMA ReportForget ==
  ASSUME TypeOK, SlotInv, \A o \in Ops : Report(o),
         Forget, UNCHANGED <<leg, kind, container, ended>>,
         CancelTask \/ UNCHANGED proc
  PROVE  \A o \in Ops : Report(o)'
<1> SUFFICES ASSUME NEW o \in Ops PROVE Report(o)'
  OBVIOUS
<1>0. stage'[o] = IF stage[o] \in ActiveStages THEN "done" ELSE stage[o]
  BY DEF Forget, Active
<1>1. CASE stage[o] \in ActiveStages
  <2>1. ended[o] = "none"
    BY <1>1 DEF SlotInv, ResultInv, Active
  <2>2. proc'[<<o, "main">>] = proc[<<o, "main">>] \/ leg[o] = "main"
    <3>1. task = o /\ <<o, "main">> \in Ops \X Legs
      BY <1>1 DEF SlotInv, SingleOperation, Active, Legs
    <3> QED BY <3>1 DEF CancelTask, Here, TypeOK
  <2>3. stage'[o] = "done"
    BY <1>0, <1>1
  <2> QED BY <2>1, <2>2, <2>3 DEF Report, Results, ActiveStages, Exited
<1>2. CASE stage[o] \notin ActiveStages
  <2>1. \A l \in Legs : proc'[<<o, l>>] = proc[<<o, l>>]
    BY <1>2 DEF CancelTask, Here, TypeOK, ActiveStages
  <2>2. stage'[o] = stage[o]
    BY <1>0, <1>2
  <2> QED BY <2>1, <2>2, ReportSame DEF Same
<1> QED BY <1>1, <1>2

(* Startup, shutdown and crashes. *)
LEMMA ReportLifespan ==
  ASSUME TypeOK, LockInv, SlotInv, \A o \in Ops : Report(o), LifespanStep
  PROVE  \A o \in Ops : Report(o)'
<1>1. CASE Startup
  <2>1. UNCHANGED <<stage, leg, kind, proc, container>>
    BY <1>1 DEF Startup, world
  <2>2. \A o \in Ops : ended'[o] \in {ended[o], "interrupted"}
    BY <1>1 DEF Startup, MarkInterrupted, TypeOK
  <2> QED BY <2>1, <2>2 DEF Report, Exited, IsRun, Results
<1>2. CASE Forget
  <2>1. UNCHANGED <<leg, kind, container, ended>> /\ (CancelTask \/ UNCHANGED proc)
    BY <1>2 DEF LifespanStep, Startup, Shutdown, ShutdownStops, ShutdownReturns,
       Crash, Forget, world, history
  <2> QED BY <1>2, <2>1, ReportForget
<1>3. CASE Shutdown /\ ~Forget
  <2>1. UNCHANGED <<stage, leg, kind, proc, container, ended>>
    BY <1>3 DEF Shutdown
  <2> QED BY <2>1, ReportSame DEF Same
<1>4. CASE ShutdownStops
  <2>1. aim \in Aims
    BY <1>4 DEF LockInv, ShutdownStops
  <2>2. <<aim.op, aim.leg>> \in Ops \X Legs
    BY <2>1 DEF Aims
  <2> QED BY <1>4, <2>2, ReportDockerStop DEF ShutdownStops
<1> QED BY <1>1, <1>2, <1>3, <1>4 DEF LifespanStep, ShutdownReturns, Crash

(* Docker: a main process only exits once its container is down, and a     *)
(* process that has exited stays as it is.                                 *)
LEMMA ReportDocker ==
  ASSUME TypeOK, SlotInv, \A p \in Ops : Report(p),
         NEW o \in Ops, NEW l \in Legs, DockerStep(o, l)
  PROVE  \A p \in Ops : Report(p)'
<1>0. UNCHANGED <<stage, leg, kind, ended>>
  BY DEF DockerStep, ContainerStarts, ContainerEnds, ProcessExits, inside, history
<1>1. ASSUME NEW p \in Ops
      PROVE  \/ Same(p)
             \/ /\ \A m \in Legs : proc'[<<p, m>>] = proc[<<p, m>>]
                /\ container'[<<p, "main">>] = "up" =>
                      container[<<p, "main">>] = "up" \/ proc[<<p, "main">>] = "alive"
             \/ /\ UNCHANGED container
                /\ \A m \in Legs : \/ proc'[<<p, m>>] = proc[<<p, m>>]
                                   \/ /\ proc[<<p, m>>] = "alive"
                                      /\ container[<<p, m>>] # "up"
  <2>1. \A m \in Legs : <<p, m>> \in Ops \X Legs
    OBVIOUS
  <2>2. "main" \in Legs
    BY DEF Legs
  <2>3. CASE ContainerStarts(o, l)
    BY <2>1, <2>2, <2>3 DEF ContainerStarts, TypeOK
  <2>4. CASE ContainerEnds(o, l)
    BY <2>1, <2>2, <2>4 DEF ContainerEnds, TypeOK
  <2>5. CASE ProcessExits(o, l)
    BY <2>1, <2>2, <2>5 DEF ProcessExits, TypeOK
  <2> QED BY <2>3, <2>4, <2>5 DEF DockerStep
<1>2. ASSUME NEW p \in Ops PROVE Report(p)'
  BY <1>0, <1>1, ReportSame DEF Report, Exited, IsRun, Legs, Results
<1> QED BY <1>2

(* Every step keeps the invariant. *)
LEMMA ReportStep ==
  ASSUME TypeOK, LockInv, SlotInv, ReportInv, Next
  PROVE  ReportInv'
<1>0. \A o \in Ops : Report(o)
  BY ReportPerOperation
<1> SUFFICES \A o \in Ops : Report(o)'
  BY ReportPerOperationNext
<1>1. CASE StartFails
  BY <1>0, <1>1, ReportSame DEF StartFails, Same, world, history
<1>2. ASSUME NEW o \in Ops, OperationStep(o) PROVE \A p \in Ops : Report(p)'
  BY <1>0, <1>2, OperationReport, OperationFrame, ReportSame
<1> QED BY <1>0, <1>1, <1>2, ReportStart, ReportCancel, ReportLifespan,
           ReportDocker DEF Next

LEMMA ReportInvariant == Spec => []ReportInv
<1>1. Init => ReportInv
  BY DEF Init, ReportInv, ExitInv, VerdictOfProcess, NothingLeftBehind, Active,
     ActiveStages, Exited, Legs
<1>2. TypeOK /\ LockInv /\ SlotInv /\ ReportInv /\ [Next]_vars => ReportInv'
  <2>1. CASE Next
    BY <2>1, ReportStep
  <2>2. CASE UNCHANGED vars
    BY <2>2 DEF vars, ReportInv, ExitInv, VerdictOfProcess, NothingLeftBehind,
       Active, Exited, IsRun
  <2> QED BY <2>1, <2>2
<1> QED BY <1>1, <1>2, SlotInvariant, PTL DEF Spec

(* A recorded verdict is that of the main process, and an image counts as  *)
(* prepared only if both of its processes succeeded, whatever timeouts,    *)
(* cancellations, failed writes and crashes came in between.               *)
THEOREM VerdictCorrect == Spec => []VerdictOfProcess
<1>1. ReportInv => VerdictOfProcess
  BY DEF ReportInv
<1> QED BY <1>1, ReportInvariant, PTL

(* An operation that ended with a result or as cancelled left neither its  *)
(* main process nor its main container running.                            *)
THEOREM NothingLeft == Spec => []NothingLeftBehind
<1>1. ReportInv => NothingLeftBehind
  BY DEF ReportInv
<1> QED BY <1>1, ReportInvariant, PTL

------------------------------------------------------------------------------
(* Phantom operations and late publications.                               *)

(* Unless a write fails, a coroutine that ends leaves a terminal record.   *)
LEMMA OverRecords ==
  ASSUME TypeOK, SlotInv, NEW o \in Ops, OperationStep(o), faults' = faults
  PROVE  stage'[o] \in ActiveStages \/ IsTerminal(disk')
<1>1. {"passed", "failed", "cancelled", "succeeded", "infrastructure_error",
       "timed_out", Verdict(o)} \subseteq TerminalStatus
  BY DEF TerminalStatus, Verdict
<1>2. (\E s \in TerminalStatus : Finish(o, s) \/ End(o, s, TRUE)) => IsTerminal(disk')
  BY FinishResult
<1>3. Spawn(o, "main") \/ Spawn(o, "aux") => stage'[o] \in ActiveStages
  BY DEF Spawn, TypeOK, ActiveStages
<1>4. TimeoutStopFails(o) => faults' # faults
  BY DEF TimeoutStopFails, Fault, TypeOK
<1>5. CASE ReadLine(o) \/ Attach(o) \/ TimeoutStops(o)
  BY <1>5 DEF ReadLine, Attach, TimeoutStops, TypeOK, ActiveStages
<1>6. CASE Launch(o) \/ MainReturns(o) \/ AuxReturns(o) \/ LookupReturns(o)
  <2>1. \/ \E s \in TerminalStatus : Finish(o, s) \/ End(o, s, TRUE)
        \/ Spawn(o, "main") \/ Spawn(o, "aux")
        \/ stage' = [stage EXCEPT ![o] = "lookup"]
    BY <1>1, <1>6 DEF Launch, MainReturns, AuxReturns, LookupReturns, SpawnFails,
       AfterBuild, AfterRun, AfterPublish, AfterInspect
  <2> QED BY <1>2, <1>3, <2>1 DEF TypeOK, ActiveStages
<1>7. CASE RunRaises(o) \/ RunTimesOut(o) \/ TimeoutReturns(o) \/ LateLookupReturns(o)
  <2>1. \/ \E s \in TerminalStatus : Finish(o, s) \/ End(o, s, TRUE)
        \/ stage' = [stage EXCEPT ![o] = "stopping"]
        \/ stage' = [stage EXCEPT ![o] = "lateLookup"]
    BY <1>1, <1>7 DEF RunRaises, RunTimesOut, TimeoutReturns, LateLookupReturns,
       AfterPublish
  <2> QED BY <1>2, <2>1 DEF TypeOK, ActiveStages
<1> QED BY <1>4, <1>5, <1>6, <1>7 DEF OperationStep

(* As long as no write has failed, a serving runner shows an active record *)
(* only of an operation it executes: after a crash the record is closed    *)
(* before the first request is served.                                     *)
THEOREM NoPhantom == Spec => []NoPhantomOperation
<1>1. Init => NoPhantomOperation
  BY DEF Init, NoPhantomOperation
<1>2. ASSUME TypeOK, SlotInv, NoPhantomOperation, Next
      PROVE  NoPhantomOperation'
  <2> SUFFICES ASSUME life' = "serving", faults' = 0, disk' # NoState,
                      ~IsTerminal(disk)'
               PROVE  stage'[disk'.op] \in ActiveStages
    BY DEF NoPhantomOperation, Active
  <2>0. ASSUME UNCHANGED <<life, disk, stage>>, faults = 0
        PROVE  stage'[disk'.op] \in ActiveStages
    BY <1>2, <2>0 DEF NoPhantomOperation, Active, IsTerminal
  <2>1. ASSUME NEW o \in Ops, NEW k \in Requests, Start(o, k)
        PROVE  stage'[disk'.op] \in ActiveStages
    BY <1>2, <2>1 DEF Start, TypeOK, ActiveStages
  <2>2. ~StartFails
    BY <1>2, RunnerAssumption DEF RunnerAssumption, StartFails, Fault, TypeOK
  <2>3. ASSUME NEW c \in Clients, CancelStep(c)
        PROVE  stage'[disk'.op] \in ActiveStages
    <3>1. UNCHANGED <<life, disk, stage>>
      BY <2>3 DEF CancelStep, CancelRequest, CancelRejected, CancelAccepted,
         CancelStops, CancelReturns, CancelFails
    <3>2. faults = 0
      BY <1>2, <2>3 DEF CancelStep, CancelRequest, CancelRejected, CancelAccepted,
         CancelStops, CancelReturns, CancelFails, Fault, TypeOK
    <3> QED BY <2>0, <3>1, <3>2
  <2>4. ASSUME NEW o \in Ops, OperationStep(o)
        PROVE  stage'[disk'.op] \in ActiveStages
    <3>1. GoesOn(o) \/ Over(o)
      BY <1>2, <2>4, OperationEffect DEF Effect
    <3>2. faults' = faults
      BY <1>2, <2>4 DEF OperationStep, Launch, Attach, ReadLine, MainReturns,
         AuxReturns, LookupReturns, RunRaises, RunTimesOut, TimeoutStops,
         TimeoutReturns, TimeoutStopFails, LateLookupReturns, SpawnFails, AfterBuild,
         AfterRun, AfterPublish, AfterInspect, Finish, End, Fault, TypeOK
    <3>3. stage'[o] \in ActiveStages
      BY <1>2, <2>4, <3>2, OverRecords DEF IsTerminal
    <3> QED BY <3>1, <3>3 DEF GoesOn, Over, ActiveStages
  <2>5. ~LifespanStep
    <3>1. ~Startup
      BY <1>2 DEF Startup, MarkInterrupted, IsTerminal, TypeOK, StateRecords,
         TerminalStatus
    <3> QED BY <3>1 DEF LifespanStep, Shutdown, ShutdownStops, ShutdownReturns,
               Crash, Forget
  <2>6. ASSUME NEW o \in Ops, NEW l \in Legs, DockerStep(o, l)
        PROVE  stage'[disk'.op] \in ActiveStages
    BY <2>0, <2>6 DEF DockerStep, ContainerStarts, ContainerEnds, ProcessExits, inside
  <2> QED BY <1>2, <2>1, <2>2, <2>3, <2>4, <2>5, <2>6 DEF Next
<1>3. NoPhantomOperation /\ UNCHANGED vars => NoPhantomOperation'
  BY DEF vars, NoPhantomOperation, Active, IsTerminal
<1> QED BY <1>1, <1>2, <1>3, SlotInvariant, PTL DEF Spec

(* The publisher container of a test run is never launched once the        *)
(* cancellation of the run has been accepted.                              *)
THEOREM NoLatePublication == Spec => NoPublicationAfterCancel
<1> DEFINE Quiet == \A o \in Ops : IsRun(o) /\ "cancel" \in reasons[o]
                       /\ proc[<<o, "aux">>] = "none" => proc'[<<o, "aux">>] = "none"
<1>1. ASSUME TypeOK, SlotInv, StopInv, Next PROVE Quiet
  <2> SUFFICES ASSUME NEW o \in Ops, IsRun(o), "cancel" \in reasons[o],
                      proc[<<o, "aux">>] = "none"
               PROVE  proc'[<<o, "aux">>] = "none"
    OBVIOUS
  <2>0. <<o, "aux">> \in Ops \X Legs
    BY DEF Legs
  <2>1. ASSUME NEW p \in Ops, OperationStep(p) PROVE proc'[<<o, "aux">>] = "none"
    <3>1. CASE p # o
      BY <1>1, <2>1, <3>1, OperationFrame DEF Same, Legs
    <3>2. CASE p = o
      <4>1. cancelRequested
        BY <1>1, <2>1, <3>2, OperationEffect DEF Effect, StopInv, CancelInv, Active
      <4>2. Spawn(o, "main") \/ AbandonRun(o) \/ UNCHANGED proc
        BY <1>1, <2>1, <3>2, <4>1 DEF OperationStep, Launch, Attach, ReadLine,
           MainReturns, AuxReturns, LookupReturns, RunRaises, RunTimesOut,
           TimeoutStops, TimeoutReturns, TimeoutStopFails, LateLookupReturns,
           SpawnFails, AfterRun, AfterPublish, AfterInspect, world
      <4> QED BY <1>1, <2>0, <4>2 DEF Spawn, AbandonRun, Here, TypeOK
    <3> QED BY <3>1, <3>2
  <2>2. ASSUME NEW p \in Ops, NEW l \in Legs, DockerStep(p, l)
        PROVE  proc'[<<o, "aux">>] = "none"
    BY <1>1, <2>0, <2>2 DEF DockerStep, ContainerStarts, ContainerEnds, ProcessExits, TypeOK
  <2>3. CASE LifespanStep
    BY <1>1, <2>0, <2>3 DEF LifespanStep, Startup, Shutdown, ShutdownStops,
       ShutdownReturns, Crash, CancelTask, world, TypeOK
  <2> QED BY <1>1, <2>1, <2>2, <2>3 DEF Next, Start, StartFails, CancelStep,
             CancelRequest, CancelRejected, CancelAccepted, CancelStops,
             CancelReturns, CancelFails, world
<1>2. TypeOK /\ SlotInv /\ StopInv /\ [Next]_vars => [Quiet]_vars
  BY <1>1
<1> QED BY <1>2, SlotInvariant, StopInvariant, PTL DEF Spec, NoPublicationAfterCancel
==============================================================================
