----------------------------- MODULE EventStream -----------------------------
(***************************************************************************)
(* GET /v1/current/events: the generator _event_stream of api.py, which    *)
(* follows current.log and current.json while the runner, seen as the      *)
(* abstract OperationSlot, replaces them.  The generator is suspended at   *)
(* each yield and while it sleeps; what it does in between is one action.  *)
(* Offsets are counted in lines.                                           *)
(***************************************************************************)
EXTENDS OperationSlot

CONSTANT Readers          \* connected browsers or curl processes

VARIABLES
    phase,     \* where each generator is suspended
    label,     \* its operation_id, read once at the start
    offset,    \* how much of the file named current.log it has read
    handle,    \* the contents it has open if the file was replaced since
    got,       \* the output events it has sent: whose line each one carries
    outcome,   \* its last event
    intact     \* history: no failed request has emptied the current log

streamVars == <<phase, label, offset, handle, got, outcome>>
eventVars == <<running, record, log, phase, label, offset, handle, got,
               outcome, intact>>

(* The open file is still the one named current.log. *)
Live == [replaced |-> FALSE, lines |-> <<>>]
Replaced(lines) == [replaced |-> TRUE, lines |-> lines]

StreamTypeOK ==
    /\ SlotTypeOK
    /\ phase \in [Readers -> {"idle", "yielding", "sleeping", "ended"}]
    /\ label \in [Readers -> 0..MaxOps]
    /\ offset \in [Readers -> Nat]
    /\ handle \in [Readers -> [replaced : BOOLEAN, lines : Seq(1..MaxOps)]]
    /\ got \in [Readers -> Seq(1..MaxOps)]
    /\ outcome \in [Readers -> {"none", "reset", "status", "closed"}]
    /\ intact \in BOOLEAN

EventInit ==
    /\ SlotInit
    /\ phase = [r \in Readers |-> "idle"]
    /\ label = [r \in Readers |-> 0]
    /\ offset = [r \in Readers |-> 0]
    /\ handle = [r \in Readers |-> Live]
    /\ got = [r \in Readers |-> <<>>]
    /\ outcome = [r \in Readers |-> "none"]
    /\ intact = TRUE

------------------------------------------------------------------------------
(* The generator.                                                          *)

Contents(r) == IF handle[r].replaced THEN handle[r].lines ELSE log

(* The event that ends the stream at the end of the file, if any: "reset"  *)
(* when the record is another operation's, "status" when it is terminal,   *)
(* none at all when there is no record.                                    *)
(* Mutants: the operation is not compared; interrupted is not terminal.    *)
MutantAnyOperation(id) ==
    IF record.op = 0 THEN "closed"
    ELSE IF record.status \in Outcomes THEN "status" ELSE "none"
MutantInterruptedIsActive(id) ==
    IF record.op # 0 /\ record.op # id THEN "reset"
    ELSE IF record.op = 0 THEN "closed"
    ELSE IF record.status \in Results THEN "status" ELSE "none"
FinalEvent(id) ==
    IF record.op # 0 /\ record.op # id THEN "reset"
    ELSE IF record.op = 0 THEN "closed"
    ELSE IF record.status \in Outcomes THEN "status"
    ELSE "none"

(* From one suspension to the next: yield the next line, or at the end of  *)
(* the file look at the record and return or sleep.  The file is closed    *)
(* before the record is read.                                              *)
(* Mutant: the record is looked at before the rest of the file.            *)
MutantRecordFirst(r, id, start, sent, file) ==
    IF start < Len(file) /\ FinalEvent(id) = "none"
    THEN /\ phase' = [phase EXCEPT ![r] = "yielding"]
         /\ offset' = [offset EXCEPT ![r] = start + 1]
         /\ got' = [got EXCEPT ![r] = Append(sent, file[start + 1])]
         /\ UNCHANGED outcome
    ELSE /\ phase' = [phase EXCEPT ![r] = IF FinalEvent(id) = "none"
                                          THEN "sleeping" ELSE "ended"]
         /\ outcome' = [outcome EXCEPT ![r] = FinalEvent(id)]
         /\ offset' = [offset EXCEPT ![r] = start]
         /\ got' = [got EXCEPT ![r] = sent]
Advance(r, id, start, sent, file) ==
    IF start < Len(file)
    THEN /\ phase' = [phase EXCEPT ![r] = "yielding"]
         /\ offset' = [offset EXCEPT ![r] = start + 1]
         /\ got' = [got EXCEPT ![r] = Append(sent, file[start + 1])]
         /\ UNCHANGED outcome
    ELSE /\ phase' = [phase EXCEPT ![r] = IF FinalEvent(id) = "none"
                                          THEN "sleeping" ELSE "ended"]
         /\ outcome' = [outcome EXCEPT ![r] = FinalEvent(id)]
         /\ offset' = [offset EXCEPT ![r] = start]
         /\ got' = [got EXCEPT ![r] = sent]

Connect(r) ==
    /\ phase[r] = "idle"
    /\ label' = [label EXCEPT ![r] = record.op]
    /\ Advance(r, record.op, 0, <<>>, log)
    /\ UNCHANGED <<running, record, log, handle, intact>>

(* The transport took the event: the loop goes on in the file it has open. *)
Resume(r) ==
    /\ phase[r] = "yielding"
    /\ Advance(r, label[r], offset[r], got[r], Contents(r))
    /\ handle' = [handle EXCEPT ![r] = IF phase'[r] = "yielding" THEN @ ELSE Live]
    /\ UNCHANGED <<running, record, log, label, intact>>

(* The poll interval is over: current.log is opened by name again and read *)
(* from the offset reached before.                                         *)
Wake(r) ==
    /\ phase[r] = "sleeping"
    /\ Advance(r, label[r], offset[r], got[r], log)
    /\ UNCHANGED <<running, record, log, label, handle, intact>>

(* The client goes away, in the middle of a stream or after its end. *)
Disconnect(r) ==
    /\ phase[r] # "idle"
    /\ phase' = [phase EXCEPT ![r] = "idle"]
    /\ label' = [label EXCEPT ![r] = 0]
    /\ offset' = [offset EXCEPT ![r] = 0]
    /\ handle' = [handle EXCEPT ![r] = Live]
    /\ got' = [got EXCEPT ![r] = <<>>]
    /\ outcome' = [outcome EXCEPT ![r] = "none"]
    /\ UNCHANGED <<running, record, log, intact>>

------------------------------------------------------------------------------
(* The runner, as the streams see it.  reset_log renames an empty file     *)
(* over current.log: a reader that has the old file open keeps its lines.  *)

KeepOldFile ==
    handle' = [r \in Readers |->
                  IF phase[r] = "yielding" /\ ~handle[r].replaced
                  THEN Replaced(log) ELSE handle[r]]

Begin ==
    /\ \E o \in 1..MaxOps : Accept(o)
    /\ KeepOldFile
    /\ intact' = TRUE
    /\ UNCHANGED <<phase, label, offset, got, outcome>>

BeginFails ==
    /\ ClearLog
    /\ KeepOldFile
    /\ intact' = FALSE
    /\ UNCHANGED <<phase, label, offset, got, outcome>>

Work ==
    /\ Output \/ Abandon \/ \E result \in Results : End(result)
    /\ UNCHANGED <<streamVars, intact>>

(* No stream outlives the service process. *)
Restart ==
    /\ Interrupt
    /\ phase' = [r \in Readers |-> "idle"]
    /\ label' = [r \in Readers |-> 0]
    /\ offset' = [r \in Readers |-> 0]
    /\ handle' = [r \in Readers |-> Live]
    /\ got' = [r \in Readers |-> <<>>]
    /\ outcome' = [r \in Readers |-> "none"]
    /\ UNCHANGED intact

EventNext ==
    \/ Begin \/ BeginFails \/ Work \/ Restart
    \/ \E r \in Readers : Connect(r) \/ Resume(r) \/ Wake(r) \/ Disconnect(r)

(* A generator is resumed after each event its client takes and after each *)
(* poll interval.                                                          *)
EventSpec ==
    /\ EventInit
    /\ [][EventNext]_eventVars
    /\ \A r \in Readers : WF_eventVars(Resume(r) \/ Wake(r))

------------------------------------------------------------------------------
(* Properties.                                                             *)

(* A stream that ends with the "status" event has delivered the whole log  *)
(* of that operation, in order, and not one line of another operation: the *)
(* end of the file and the terminal record are observed together.          *)
StatusIsComplete ==
    [][\A r \in Readers :
          outcome[r] # "status" /\ outcome'[r] = "status" /\ intact
             => got'[r] = log /\ label'[r] = record.op]_eventVars

(* Lines of two operations can reach one stream only if the second began   *)
(* while the stream slept; they never come back to the first operation,    *)
(* and such a stream can only end with "reset".                            *)
MixedStreamIsReset ==
    \A r \in Readers :
        (\E i \in 1..Len(got[r]) : got[r][i] # label[r])
            => /\ outcome[r] \in {"none", "reset"}
               /\ record.op # label[r]
               /\ \A i, j \in 1..Len(got[r]) :
                     i < j /\ got[r][i] # label[r] => got[r][j] # label[r]

(* A stream does not stay open once its operation is over. *)
StreamEnds ==
    \A r \in Readers :
        phase[r] \in {"yielding", "sleeping"} /\ record.status \in Outcomes
            ~> phase[r] \in {"idle", "ended"}
==============================================================================
