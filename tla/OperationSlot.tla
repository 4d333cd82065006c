---------------------------- MODULE OperationSlot ----------------------------
(***************************************************************************)
(* What the runner promises to those who only see its two files: one       *)
(* global operation slot, whose current.json and current.log always speak  *)
(* of the same operation (README.md of helpers/test-runner-service).       *)
(* RunnerService implements this specification; EventStream reads it.      *)
(***************************************************************************)
EXTENDS Naturals, Sequences

CONSTANTS
    MaxOps,    \* bound: operations accepted over the whole behaviour
    MaxLines   \* bound: lines in current.log

ASSUME SlotAssumption == MaxOps \in Nat /\ MaxLines \in Nat

VARIABLES
    running,   \* an operation occupies the slot
    record,    \* current.json: which operation, and how it ended if it has
    log        \* current.log: the operation each line came from

slotVars == <<running, record, log>>

(* How an operation can end: is_terminal of OperationStatus. *)
Results == {"succeeded", "passed", "failed", "cancelled", "timed_out",
            "infrastructure_error"}
Outcomes == Results \cup {"interrupted"}

SlotTypeOK ==
    /\ running \in BOOLEAN
    /\ record \in [op : 0..MaxOps, status : Outcomes \cup {"active", "none"}]
    /\ log \in Seq(1..MaxOps)

SlotInit ==
    /\ running = FALSE
    /\ record = [op |-> 0, status |-> "none"]
    /\ log = <<>>

(* A request takes the free slot for an operation never seen before. *)
Accept(o) ==
    /\ ~running
    /\ o > record.op
    /\ running' = TRUE
    /\ record' = [op |-> o, status |-> "active"]
    /\ log' = <<>>

(* The operation in the slot prints a line. *)
Output ==
    /\ running
    /\ Len(log) < MaxLines
    /\ log' = Append(log, record.op)
    /\ UNCHANGED <<running, record>>

(* The operation frees the slot and its result is recorded. *)
End(result) ==
    /\ running
    /\ running' = FALSE
    /\ record' = [record EXCEPT !.status = result]
    /\ UNCHANGED log

(* The operation frees the slot without a result: the service is shut down *)
(* or dies, or the result cannot be written.                               *)
Abandon ==
    /\ running
    /\ running' = FALSE
    /\ UNCHANGED <<record, log>>

(* A request fails after it reset the log and before it took the slot. *)
ClearLog ==
    /\ ~running
    /\ log' = <<>>
    /\ UNCHANGED <<running, record>>

(* A restarted service closes the record of an abandoned operation. *)
Interrupt ==
    /\ ~running
    /\ record.status = "active"
    /\ record' = [record EXCEPT !.status = "interrupted"]
    /\ UNCHANGED <<running, log>>

SlotNext ==
    \/ \E o \in 1..MaxOps : Accept(o)
    \/ Output
    \/ \E result \in Results : End(result)
    \/ Abandon
    \/ ClearLog
    \/ Interrupt

SlotSpec == SlotInit /\ [][SlotNext]_slotVars
==============================================================================
