-------------------------- MODULE EventStreamProofs --------------------------
(***************************************************************************)
(* Proofs about EventStream, for every number of operations, log lines and *)
(* readers: what a stream of GET /v1/current/events has sent when it ends, *)
(* whatever the runner did to current.log and current.json meanwhile.      *)
(***************************************************************************)
EXTENDS EventStream, SequenceTheorems, TLAPS

(* What makes MixedStreamIsReset and StatusIsComplete inductive: an open   *)
(* file holds the lines of one operation, a stream can only fall behind    *)
(* the record, and it counts what it has sent for as long as its operation *)
(* is the current one.                                                     *)
OneOperation(r) == \A i \in 1..Len(got[r]) : got[r][i] = label[r]
ReaderInv(r) ==
    /\ phase[r] = "idle" => got[r] = <<>> /\ outcome[r] = "none"
    /\ phase[r] \in {"yielding", "sleeping"} => outcome[r] = "none"
    /\ label[r] <= record.op
    /\ handle[r].replaced =>
          /\ phase[r] = "yielding"
          /\ \/ /\ OneOperation(r)
                /\ \A i \in 1..Len(handle[r].lines) : handle[r].lines[i] = label[r]
             \/ /\ record.op # label[r]
                /\ \A i \in 1..Len(handle[r].lines) : handle[r].lines[i] # label[r]
    /\ intact /\ record.op = label[r] /\ phase[r] \in {"yielding", "sleeping"} =>
          ~handle[r].replaced /\ offset[r] = Len(got[r]) /\ offset[r] <= Len(log)
EventInv ==
    /\ \A i \in 1..Len(log) : log[i] = record.op
    /\ running => record.op # 0
    /\ \A r \in Readers : ReaderInv(r)

------------------------------------------------------------------------------
(* Sequences of lines, each the number of the operation that printed it.   *)

All(s, l) == \A i \in 1..Len(s) : s[i] = l
Without(s, l) == \A i \in 1..Len(s) : s[i] # l

(* Once a line is not of operation l, none after it is. *)
NeverBack(s, l) == \A i, j \in 1..Len(s) : i < j /\ s[i] # l => s[j] # l

(* One more line of the same operation. *)
LEMMA AppendSame ==
  ASSUME NEW s \in Seq(1..MaxOps), NEW l \in Nat, NEW x \in 1..MaxOps,
         All(s, l), x = l
  PROVE  All(Append(s, x), l)
  BY DEF All

(* One more line of another operation. *)
LEMMA AppendOther ==
  ASSUME NEW s \in Seq(1..MaxOps), NEW l \in Nat, NEW x \in 1..MaxOps,
         NeverBack(s, l), x # l
  PROVE  NeverBack(Append(s, x), l)
<1> DEFINE t == Append(s, x)
<1>1. Len(t) = Len(s) + 1 /\ t[Len(s) + 1] = x /\ \A i \in 1..Len(s) : t[i] = s[i]
  OBVIOUS
<1>2. Len(s) \in Nat
  OBVIOUS
<1> HIDE DEF t
<1>3. \A i, j \in 1..Len(t) : i < j /\ t[i] # l => t[j] # l
  BY <1>1, <1>2 DEF NeverBack
<1> QED BY <1>3 DEF NeverBack, t

(* Two logs of one operation are equal if they have the same length. *)
LEMMA SameLog ==
  ASSUME NEW s \in Seq(1..MaxOps), NEW t \in Seq(1..MaxOps), NEW l,
         All(s, l), All(t, l), Len(s) = Len(t)
  PROVE  s = t
<1>1. \A i \in 1..Len(s) : s[i] = t[i]
  BY DEF All
<1> QED BY <1>1

------------------------------------------------------------------------------
(* The invariant, one reader at a time.                                    *)

StreamInv == StreamTypeOK /\ EventInv /\ MixedStreamIsReset

(* What StreamInv says of reader r. *)
Reader(r) ==
    /\ ReaderInv(r)
    /\ ~All(got[r], label[r]) =>
          /\ outcome[r] \in {"none", "reset"}
          /\ record.op # label[r]
          /\ NeverBack(got[r], label[r])

(* What StreamInv says of the slot. *)
LogInv == All(log, record.op) /\ (running => record.op # 0)

(* The invariant is the conjunction of what it says of each reader. *)
LEMMA PerReader ==
  StreamInv <=> StreamTypeOK /\ LogInv /\ \A r \in Readers : Reader(r)
  BY DEF StreamInv, EventInv, MixedStreamIsReset, LogInv, Reader, All, NeverBack

(* The same after a step. *)
LEMMA PerReaderNext ==
  StreamTypeOK' /\ LogInv' /\ (\A r \in Readers : Reader(r)') => StreamInv'
  BY DEF StreamInv, EventInv, MixedStreamIsReset, LogInv, Reader, All, NeverBack

(* A step that neither concerns a reader nor replaces a file. *)
SameReader(r) ==
    /\ phase'[r] = phase[r] /\ label'[r] = label[r] /\ offset'[r] = offset[r]
    /\ handle'[r] = handle[r] /\ got'[r] = got[r] /\ outcome'[r] = outcome[r]

LEMMA ReaderSame ==
  ASSUME NEW r \in Readers, Reader(r), SameReader(r),
         UNCHANGED intact, record'.op = record.op,
         intact /\ offset[r] <= Len(log) => offset[r] <= Len(log')
  PROVE  Reader(r)'
  BY DEF Reader, ReaderInv, SameReader, All, NeverBack, OneOperation

(* Between two suspensions a generator sends one more line, or all of its  *)
(* file has been sent and the record decides.                              *)
LEMMA AdvanceEffect ==
  ASSUME StreamTypeOK, NEW r \in Readers, NEW id, NEW start \in Nat,
         NEW sent \in Seq(1..MaxOps), NEW file \in Seq(1..MaxOps),
         Advance(r, id, start, sent, file)
  PROVE  /\ \/ /\ start < Len(file)
               /\ phase'[r] = "yielding" /\ offset'[r] = start + 1
               /\ got'[r] = Append(sent, file[start + 1])
               /\ outcome'[r] = outcome[r]
            \/ /\ start >= Len(file)
               /\ phase'[r] = IF FinalEvent(id) = "none" THEN "sleeping" ELSE "ended"
               /\ offset'[r] = start /\ got'[r] = sent
               /\ outcome'[r] = FinalEvent(id)
         /\ \A q \in Readers : q # r => /\ phase'[q] = phase[q] /\ got'[q] = got[q]
                                        /\ offset'[q] = offset[q]
                                        /\ outcome'[q] = outcome[q]
         /\ phase' \in [Readers -> {"idle", "yielding", "sleeping", "ended"}]
         /\ offset' \in [Readers -> Nat]
         /\ got' \in [Readers -> Seq(1..MaxOps)]
         /\ outcome' \in [Readers -> {"none", "reset", "status", "closed"}]
<1>0. Len(file) \in Nat
  OBVIOUS
<1>1. CASE start < Len(file)
  <2>1. start + 1 \in 1..Len(file)
    BY <1>0, <1>1
  <2>2. file[start + 1] \in 1..MaxOps
    BY <2>1, ElementOfSeq
  <2>3. Append(sent, file[start + 1]) \in Seq(1..MaxOps)
    BY <2>2
  <2> DEFINE more == Append(sent, file[start + 1])
  <2>4. /\ phase' = [phase EXCEPT ![r] = "yielding"]
        /\ offset' = [offset EXCEPT ![r] = start + 1]
        /\ got' = [got EXCEPT ![r] = more]
        /\ UNCHANGED outcome
    BY <1>1 DEF Advance
  <2>5. more \in Seq(1..MaxOps)
    BY <2>3
  <2> HIDE DEF more
  <2>6. /\ got'[r] = more /\ got' \in [Readers -> Seq(1..MaxOps)]
        /\ \A q \in Readers : q # r => got'[q] = got[q]
    BY <2>4, <2>5 DEF StreamTypeOK
  <2>7. /\ phase'[r] = "yielding" /\ offset'[r] = start + 1
        /\ \A q \in Readers : q # r => phase'[q] = phase[q] /\ offset'[q] = offset[q]
        /\ phase' \in [Readers -> {"idle", "yielding", "sleeping", "ended"}]
        /\ offset' \in [Readers -> Nat]
    BY <2>4 DEF StreamTypeOK
  <2> QED BY <1>1, <2>4, <2>6, <2>7 DEF StreamTypeOK, more
<1>2. CASE ~(start < Len(file))
  <2>1. FinalEvent(id) \in {"none", "reset", "status", "closed"}
    BY DEF FinalEvent
  <2>2. start >= Len(file)
    BY <1>0, <1>2
  <2> QED BY <1>2, <2>1, <2>2 DEF Advance, StreamTypeOK
<1> QED BY <1>1, <1>2

(* The generator keeps its part of the invariant if the file it reads has  *)
(* the lines of one operation, and of its own only while it has sent no    *)
(* others.                                                                 *)
LEMMA AdvanceReader ==
  ASSUME StreamTypeOK, NEW r \in Readers, NEW id \in Nat, NEW start \in Nat,
         NEW sent \in Seq(1..MaxOps), NEW file \in Seq(1..MaxOps),
         Advance(r, id, start, sent, file), UNCHANGED <<record, log, intact>>,
         label'[r] = id, id <= record.op, outcome[r] = "none",
         NeverBack(sent, id), ~All(sent, id) => record.op # id,
         \/ All(sent, id) /\ All(file, id)
         \/ Without(file, id) /\ record.op # id,
         handle'[r].replaced => handle'[r].lines = file /\ phase'[r] = "yielding",
         intact /\ record.op = id =>
             /\ start = Len(sent) /\ start <= Len(log)
             /\ file = log /\ ~handle'[r].replaced
  PROVE  Reader(r)'
<1> DEFINE More == /\ start < Len(file)
                   /\ phase'[r] = "yielding" /\ offset'[r] = start + 1
                   /\ got'[r] = Append(sent, file[start + 1])
                   /\ outcome'[r] = outcome[r]
           Stop == /\ start >= Len(file)
                   /\ phase'[r] = IF FinalEvent(id) = "none" THEN "sleeping" ELSE "ended"
                   /\ offset'[r] = start /\ got'[r] = sent
                   /\ outcome'[r] = FinalEvent(id)
<1>1. More \/ Stop
  BY AdvanceEffect
<1>2. Len(file) \in Nat /\ Len(sent) \in Nat /\ Len(log) \in Nat
  BY DEF StreamTypeOK, SlotTypeOK
<1>3. CASE More
  <2> DEFINE x == file[start + 1]
  <2>1. start + 1 \in 1..Len(file)
    BY <1>2, <1>3
  <2>2. x \in 1..MaxOps
    BY <2>1, ElementOfSeq
  <2>3. CASE All(sent, id) /\ All(file, id)
    <3>1. x = id
      BY <2>1, <2>3 DEF All
    <3>2. All(got'[r], id)
      BY <1>3, <2>2, <2>3, <3>1, AppendSame
    <3> QED BY <1>2, <1>3, <2>3, <3>2 DEF Reader, ReaderInv, OneOperation, All
  <2>4. CASE Without(file, id) /\ record.op # id
    <3>1. x # id
      BY <2>1, <2>4 DEF Without
    <3>2. NeverBack(got'[r], id)
      BY <1>3, <2>2, <3>1, AppendOther
    <3> QED BY <1>2, <1>3, <2>4, <3>2
            DEF Reader, ReaderInv, OneOperation, Without, NeverBack
  <2> QED BY <2>3, <2>4
<1>4. CASE Stop
  <2>1. ~handle'[r].replaced
    BY <1>4
  <2>2. record.op # id => outcome'[r] \in {"none", "reset"}
    BY <1>4 DEF FinalEvent, StreamTypeOK, SlotTypeOK
  <2> QED BY <1>2, <1>4, <2>1, <2>2 DEF Reader, ReaderInv, OneOperation, All, NeverBack
<1> QED BY <1>1, <1>3, <1>4

------------------------------------------------------------------------------
(* The steps of the generators.                                            *)

(* The other readers do not notice. *)
LEMMA GeneratorFrame ==
  ASSUME StreamTypeOK, LogInv, \A q \in Readers : Reader(q), NEW r \in Readers,
         NEW id, NEW start \in Nat,
         NEW sent \in Seq(1..MaxOps), NEW file \in Seq(1..MaxOps),
         Advance(r, id, start, sent, file),
         UNCHANGED <<running, record, log, intact>>,
         label' \in [Readers -> 0..MaxOps],
         handle' \in [Readers -> [replaced : BOOLEAN, lines : Seq(1..MaxOps)]],
         \A q \in Readers : q # r => label'[q] = label[q] /\ handle'[q] = handle[q],
         Reader(r)'
  PROVE  StreamTypeOK' /\ LogInv' /\ \A q \in Readers : Reader(q)'
<1>0. /\ \A q \in Readers : q # r => /\ phase'[q] = phase[q] /\ got'[q] = got[q]
                                     /\ offset'[q] = offset[q]
                                     /\ outcome'[q] = outcome[q]
      /\ phase' \in [Readers -> {"idle", "yielding", "sleeping", "ended"}]
      /\ offset' \in [Readers -> Nat]
      /\ got' \in [Readers -> Seq(1..MaxOps)]
      /\ outcome' \in [Readers -> {"none", "reset", "status", "closed"}]
  BY AdvanceEffect
<1>1. \A q \in Readers : q # r => SameReader(q)
  BY <1>0 DEF SameReader
<1>2. \A q \in Readers : q # r => Reader(q)'
  BY <1>1, ReaderSame
<1>3. StreamTypeOK'
  BY <1>0 DEF StreamTypeOK, SlotTypeOK
<1>4. LogInv'
  BY DEF LogInv, All
<1> QED BY <1>2, <1>3, <1>4

(* Connect, Resume and Wake. *)
LEMMA GeneratorStep ==
  ASSUME StreamTypeOK, LogInv, \A q \in Readers : Reader(q), NEW r \in Readers,
         Connect(r) \/ Resume(r) \/ Wake(r)
  PROVE  StreamTypeOK' /\ LogInv' /\ \A q \in Readers : Reader(q)'
<1>0. UNCHANGED <<running, record, log, intact>>
  BY DEF Connect, Resume, Wake
<1>b. record.op \in Nat /\ log \in Seq(1..MaxOps) /\ record.op \in 0..MaxOps
  BY SlotAssumption DEF SlotAssumption, StreamTypeOK, SlotTypeOK
<1>c. Reader(r)
  OBVIOUS
<1>d. /\ label[r] \in Nat /\ offset[r] \in Nat /\ got[r] \in Seq(1..MaxOps)
      /\ handle[r].lines \in Seq(1..MaxOps) /\ handle[r].replaced \in BOOLEAN
  BY SlotAssumption DEF SlotAssumption, StreamTypeOK
<1>1. CASE Connect(r)
  <2> DEFINE sent == <<>>
             start == 0
  <2>1. /\ Advance(r, record.op, start, sent, log)
        /\ label' = [label EXCEPT ![r] = record.op]
        /\ UNCHANGED handle
    BY <1>1 DEF Connect
  <2>2. outcome[r] = "none" /\ ~handle'[r].replaced
    BY <1>1, <1>c, <2>1 DEF Connect, Reader, ReaderInv
  <2>3. sent \in Seq(1..MaxOps) /\ start \in Nat /\ start = Len(sent) /\ start <= Len(log)
    BY <1>b
  <2>4. All(sent, record.op) /\ NeverBack(sent, record.op) /\ All(log, record.op)
    BY DEF All, NeverBack, LogInv
  <2>5. /\ label' \in [Readers -> 0..MaxOps] /\ label'[r] = record.op
        /\ \A q \in Readers : q # r => label'[q] = label[q]
    BY <1>b, <2>1 DEF StreamTypeOK
  <2> HIDE DEF sent, start
  <2>6. Reader(r)'
    BY <1>0, <1>b, <2>1, <2>2, <2>3, <2>4, <2>5, AdvanceReader
  <2> QED BY <1>0, <1>b, <2>1, <2>3, <2>5, <2>6, GeneratorFrame DEF StreamTypeOK
<1>2. CASE Resume(r) \/ Wake(r)
  <2> DEFINE file == IF handle[r].replaced THEN handle[r].lines ELSE log
  <2>1. Advance(r, label[r], offset[r], got[r], file) /\ UNCHANGED label
    BY <1>2, <1>c DEF Resume, Wake, Contents, Reader, ReaderInv
  <2>2. /\ file \in Seq(1..MaxOps)
        /\ handle[r].replaced => file = handle[r].lines
        /\ ~handle[r].replaced => file = log
    BY <1>b, <1>d
  <2>3. outcome[r] = "none" /\ label[r] <= record.op
    BY <1>2, <1>c DEF Resume, Wake, Reader, ReaderInv
  <2>4. NeverBack(got[r], label[r]) /\ (~All(got[r], label[r]) => record.op # label[r])
    BY <1>c DEF Reader, All, NeverBack
  <2>5. \/ All(got[r], label[r]) /\ All(file, label[r])
        \/ Without(file, label[r]) /\ record.op # label[r]
    <3>1. CASE handle[r].replaced
      BY <1>c, <2>2, <3>1 DEF Reader, ReaderInv, OneOperation, All, Without
    <3>2. CASE ~handle[r].replaced
      BY <1>c, <2>2, <2>4, <3>2 DEF LogInv, All, Without
    <3> QED BY <3>1, <3>2
  <2> HIDE DEF file
  <2>6. Live \in [replaced : BOOLEAN, lines : Seq(1..MaxOps)] /\ ~Live.replaced
    BY DEF Live
  <2>7. /\ handle' \in [Readers -> [replaced : BOOLEAN, lines : Seq(1..MaxOps)]]
        /\ \A q \in Readers : q # r => handle'[q] = handle[q]
        /\ handle'[r].replaced => handle'[r] = handle[r] /\ phase'[r] = "yielding"
    <3>1. CASE Resume(r)
      BY <2>6, <3>1 DEF Resume, StreamTypeOK
    <3>2. CASE Wake(r)
      BY <1>c, <3>2 DEF Wake, StreamTypeOK, Reader, ReaderInv
    <3> QED BY <1>2, <3>1, <3>2
  <2>8. intact /\ record.op = label[r] =>
             /\ offset[r] = Len(got[r]) /\ offset[r] <= Len(log)
             /\ file = log /\ ~handle'[r].replaced
    BY <1>2, <1>c, <2>2, <2>7 DEF Resume, Wake, Reader, ReaderInv
  <2>9. Reader(r)'
    BY <1>0, <1>d, <2>1, <2>2, <2>3, <2>4, <2>5, <2>7, <2>8, AdvanceReader
  <2> QED BY <1>0, <1>d, <2>1, <2>2, <2>7, <2>9, GeneratorFrame DEF StreamTypeOK
<1> QED BY <1>1, <1>2

(* A reader that starts afresh. *)
LEMMA FreshReader ==
  ASSUME NEW r \in Readers, phase'[r] = "idle", label'[r] = 0, offset'[r] = 0,
         handle'[r] = Live, got'[r] = <<>>, outcome'[r] = "none",
         record'.op \in Nat
  PROVE  Reader(r)'
  BY DEF Reader, ReaderInv, All, NeverBack, Live

(* The client goes away. *)
LEMMA DisconnectStep ==
  ASSUME StreamTypeOK, LogInv, \A q \in Readers : Reader(q), NEW r \in Readers,
         Disconnect(r)
  PROVE  StreamTypeOK' /\ LogInv' /\ \A q \in Readers : Reader(q)'
<1>0. Live \in [replaced : BOOLEAN, lines : Seq(1..MaxOps)]
      /\ <<>> \in Seq(1..MaxOps) /\ 0 \in 0..MaxOps
  BY SlotAssumption DEF SlotAssumption, Live
<1>1. StreamTypeOK'
  BY <1>0 DEF Disconnect, StreamTypeOK, SlotTypeOK
<1>2. LogInv'
  BY DEF Disconnect, LogInv, All
<1>3. record'.op \in Nat
  BY SlotAssumption DEF SlotAssumption, Disconnect, StreamTypeOK, SlotTypeOK
<1>4. Reader(r)'
  BY <1>3, FreshReader DEF Disconnect, StreamTypeOK
<1>5. \A q \in Readers : q # r => SameReader(q)
  BY DEF Disconnect, StreamTypeOK, SameReader
<1>6. \A q \in Readers : q # r => Reader(q)'
  BY <1>5, ReaderSame DEF Disconnect
<1> QED BY <1>1, <1>2, <1>4, <1>6

------------------------------------------------------------------------------
(* The steps of the runner.                                                *)

(* The old log stays with the readers that have it open. *)
LEMMA KeepFacts ==
  ASSUME StreamTypeOK, KeepOldFile
  PROVE  /\ handle' \in [Readers -> [replaced : BOOLEAN, lines : Seq(1..MaxOps)]]
         /\ \A r \in Readers :
               \/ handle'[r] = handle[r]
               \/ /\ phase[r] = "yielding" /\ ~handle[r].replaced
                  /\ handle'[r].replaced /\ handle'[r].lines = log
<1>1. log \in Seq(1..MaxOps)
  BY DEF StreamTypeOK, SlotTypeOK
<1>2. Replaced(log) \in [replaced : BOOLEAN, lines : Seq(1..MaxOps)]
      /\ Replaced(log).replaced /\ Replaced(log).lines = log
  BY <1>1 DEF Replaced
<1> QED BY <1>2 DEF KeepOldFile, StreamTypeOK

(* A new log, with or without a new operation. *)
LEMMA NewFile ==
  ASSUME StreamTypeOK, LogInv, NEW r \in Readers, Reader(r),
         KeepOldFile, UNCHANGED <<phase, label, offset, got, outcome>>,
         record'.op \in Nat,
         \/ record'.op > record.op
         \/ record'.op = record.op /\ ~intact'
  PROVE  Reader(r)'
<1>0. record.op \in Nat /\ label[r] \in Nat
  BY SlotAssumption DEF SlotAssumption, StreamTypeOK, SlotTypeOK
<1>1. label[r] <= record'.op /\ (record.op # label[r] => record'.op # label[r])
      /\ ~(intact' /\ record'.op = label[r])
  BY <1>0 DEF Reader, ReaderInv
<1>2. CASE handle'[r] = handle[r]
  BY <1>1, <1>2 DEF Reader, ReaderInv, All, NeverBack, OneOperation
<1>3. CASE /\ phase[r] = "yielding" /\ ~handle[r].replaced
           /\ handle'[r].replaced /\ handle'[r].lines = log
  <2>1. \/ OneOperation(r) /\ \A i \in 1..Len(log) : log[i] = label[r]
        \/ record.op # label[r] /\ \A i \in 1..Len(log) : log[i] # label[r]
    BY DEF Reader, OneOperation, All, LogInv
  <2> QED BY <1>1, <1>3, <2>1 DEF Reader, ReaderInv, All, NeverBack, OneOperation
<1> QED BY <1>2, <1>3, KeepFacts

(* Begin and BeginFails. *)
LEMMA BeginStep ==
  ASSUME StreamTypeOK, LogInv, \A q \in Readers : Reader(q), Begin \/ BeginFails
  PROVE  StreamTypeOK' /\ LogInv' /\ \A q \in Readers : Reader(q)'
<1> USE SlotAssumption DEF SlotAssumption
<1>0. KeepOldFile /\ UNCHANGED <<phase, label, offset, got, outcome>>
  BY DEF Begin, BeginFails
<1>a. log' = <<>>
  BY DEF Begin, Accept, BeginFails, ClearLog
<1>1. log' \in Seq(1..MaxOps) /\ All(log', record'.op)
  BY <1>a DEF All
<1>2. /\ record' \in [op : 0..MaxOps, status : Outcomes \cup {"active", "none"}]
      /\ running' \in BOOLEAN /\ intact' \in BOOLEAN
      /\ running' => record'.op # 0
      /\ \/ record'.op > record.op
         \/ record'.op = record.op /\ ~intact'
  <2>1. CASE Begin
    BY <2>1 DEF Begin, Accept, StreamTypeOK, SlotTypeOK
  <2>2. CASE BeginFails
    BY <2>2 DEF BeginFails, ClearLog, StreamTypeOK, SlotTypeOK
  <2> QED BY <2>1, <2>2
<1>3. StreamTypeOK'
  BY <1>0, <1>1, <1>2, KeepFacts DEF StreamTypeOK, SlotTypeOK
<1>4. LogInv'
  BY <1>1, <1>2 DEF LogInv
<1>5. record'.op \in Nat
  BY <1>2
<1>6. \A q \in Readers : Reader(q)'
  BY <1>0, <1>2, <1>5, NewFile
<1> QED BY <1>3, <1>4, <1>6

(* The operation prints a line, ends or is abandoned. *)
LEMMA WorkStep ==
  ASSUME StreamTypeOK, LogInv, \A q \in Readers : Reader(q), Work
  PROVE  StreamTypeOK' /\ LogInv' /\ \A q \in Readers : Reader(q)'
<1> USE SlotAssumption DEF SlotAssumption
<1>0. UNCHANGED <<phase, label, offset, handle, got, outcome, intact>>
  BY DEF Work, streamVars
<1>1. /\ record' \in [op : 0..MaxOps, status : Outcomes \cup {"active", "none"}]
      /\ record'.op = record.op /\ running' \in BOOLEAN
      /\ running' => running
  <2>1. CASE Output \/ Abandon
    BY <2>1 DEF Output, Abandon, StreamTypeOK, SlotTypeOK
  <2>2. ASSUME NEW result \in Results, End(result)
        PROVE  /\ record' \in [op : 0..MaxOps, status : Outcomes \cup {"active", "none"}]
               /\ record'.op = record.op /\ running' \in BOOLEAN
               /\ running' => running
    <3>1. result \in Outcomes
      BY <2>2 DEF Outcomes
    <3> QED BY <2>2, <3>1 DEF End, StreamTypeOK, SlotTypeOK
  <2> QED BY <2>1, <2>2 DEF Work
<1>2. /\ log' \in Seq(1..MaxOps) /\ All(log', record.op)
      /\ Len(log) \in Nat /\ Len(log') \in Nat /\ Len(log) <= Len(log')
  <2>0. log \in Seq(1..MaxOps)
    BY DEF StreamTypeOK, SlotTypeOK
  <2>1. CASE Output
    <3>1. record.op \in 1..MaxOps /\ record.op \in Nat
      BY <2>1 DEF Output, LogInv, StreamTypeOK, SlotTypeOK
    <3>2. log' = Append(log, record.op)
      BY <2>1 DEF Output
    <3>3. All(log', record.op)
      BY <2>0, <3>1, <3>2, AppendSame DEF LogInv
    <3> QED BY <2>0, <3>1, <3>2, <3>3
  <2>2. CASE UNCHANGED log
    BY <2>0, <2>2 DEF LogInv
  <2> QED BY <2>1, <2>2 DEF Work, Abandon, End
<1>3. StreamTypeOK'
  BY <1>0, <1>1, <1>2 DEF StreamTypeOK, SlotTypeOK
<1>4. LogInv'
  BY <1>1, <1>2 DEF LogInv
<1>5. ASSUME NEW q \in Readers PROVE Reader(q)'
  <2>1. offset[q] \in Nat
    BY DEF StreamTypeOK
  <2> QED BY <1>0, <1>1, <1>2, <2>1, ReaderSame DEF SameReader
<1> QED BY <1>3, <1>4, <1>5

(* The service restarts: every stream is gone. *)
LEMMA RestartStep ==
  ASSUME StreamTypeOK, LogInv, Restart
  PROVE  StreamTypeOK' /\ LogInv' /\ \A q \in Readers : Reader(q)'
<1> USE SlotAssumption DEF SlotAssumption
<1>0. Live \in [replaced : BOOLEAN, lines : Seq(1..MaxOps)]
      /\ <<>> \in Seq(1..MaxOps)
  BY DEF Live
<1>1. /\ record' \in [op : 0..MaxOps, status : Outcomes \cup {"active", "none"}]
      /\ record'.op = record.op /\ UNCHANGED <<running, log, intact>>
  BY DEF Restart, Interrupt, StreamTypeOK, SlotTypeOK, Outcomes
<1>2. StreamTypeOK'
  BY <1>0, <1>1 DEF Restart, StreamTypeOK, SlotTypeOK
<1>3. LogInv'
  BY <1>1 DEF LogInv, All
<1>4. \A q \in Readers : Reader(q)'
  BY <1>1, FreshReader DEF Restart
<1> QED BY <1>2, <1>3, <1>4

------------------------------------------------------------------------------
(* The theorems.                                                           *)

(* Initially nobody is connected. *)
LEMMA StreamInit == EventInit => StreamInv
<1> SUFFICES ASSUME EventInit PROVE StreamInv
  OBVIOUS
<1> USE SlotAssumption DEF SlotAssumption, EventInit, SlotInit
<1>1. Live \in [replaced : BOOLEAN, lines : Seq(1..MaxOps)]
      /\ <<>> \in Seq(1..MaxOps)
  BY DEF Live
<1>2. StreamTypeOK
  <2>1. record \in [op : 0..MaxOps, status : Outcomes \cup {"active", "none"}]
    OBVIOUS
  <2>2. SlotTypeOK
    BY <1>1, <2>1 DEF SlotTypeOK
  <2>3. /\ got \in [Readers -> Seq(1..MaxOps)]
        /\ handle \in [Readers -> [replaced : BOOLEAN, lines : Seq(1..MaxOps)]]
    BY <1>1
  <2> QED BY <2>2, <2>3 DEF StreamTypeOK
<1>3. LogInv
  BY DEF LogInv, All
<1>4. \A r \in Readers : Reader(r)
  BY DEF Reader, ReaderInv, All, NeverBack, Live
<1> QED BY <1>2, <1>3, <1>4, PerReader

LEMMA StreamStep == StreamInv /\ [EventNext]_eventVars => StreamInv'
<1> SUFFICES ASSUME StreamTypeOK, LogInv, \A r \in Readers : Reader(r),
                    [EventNext]_eventVars
             PROVE  StreamTypeOK' /\ LogInv' /\ \A r \in Readers : Reader(r)'
  BY PerReader, PerReaderNext
<1>1. CASE UNCHANGED eventVars
  <2>1. \A r \in Readers : Reader(r)'
    BY <1>1, ReaderSame DEF eventVars, SameReader
  <2> QED BY <1>1, <2>1 DEF eventVars, StreamTypeOK, SlotTypeOK, LogInv, All
<1> QED BY <1>1, GeneratorStep, DisconnectStep, BeginStep, WorkStep, RestartStep
        DEF EventNext

(* Whatever the runner does to the two files while clients connect, read   *)
(* and leave: the types, and what each stream has sent so far.             *)
THEOREM StreamInvariant == EventSpec => []StreamInv
  BY StreamInit, StreamStep, PTL DEF EventSpec

(* A stream that carries lines of two operations never returns to the      *)
(* first and can only end with "reset".                                    *)
THEOREM MixedIsReset == EventSpec => []MixedStreamIsReset
<1>1. StreamInv => MixedStreamIsReset
  BY DEF StreamInv
<1> QED BY <1>1, StreamInvariant, PTL

(* A stream that does not send a line has sent all of its file. *)
LEMMA AdvanceEnds ==
  ASSUME StreamTypeOK, NEW r \in Readers, NEW id, NEW start \in Nat,
         NEW sent \in Seq(1..MaxOps), NEW file \in Seq(1..MaxOps),
         Advance(r, id, start, sent, file)
  PROVE  \/ outcome'[r] = outcome[r]
         \/ start >= Len(file) /\ got'[r] = sent /\ outcome'[r] = FinalEvent(id)
  BY AdvanceEffect

(* A stream that ends with "status" has sent the whole log of its own      *)
(* operation, in order, and sent else.                                  *)
THEOREM StatusComplete == EventSpec => StatusIsComplete
<1> DEFINE Complete == \A r \in Readers :
               outcome[r] # "status" /\ outcome'[r] = "status" /\ intact
                  => got'[r] = log /\ label'[r] = record.op
<1>1. ASSUME StreamInv, EventNext PROVE Complete
  <2> SUFFICES ASSUME NEW r \in Readers, outcome[r] # "status",
                      outcome'[r] = "status", intact
               PROVE  got'[r] = log /\ label'[r] = record.op
    OBVIOUS
  <2>0. StreamTypeOK /\ LogInv /\ Reader(r)
    BY <1>1, PerReader
  <2>1. /\ log \in Seq(1..MaxOps) /\ got[r] \in Seq(1..MaxOps) /\ offset[r] \in Nat
        /\ Len(log) \in Nat
    BY <2>0 DEF StreamTypeOK, SlotTypeOK
  <2>2. Connect(r) \/ Resume(r) \/ Wake(r)
    <3>1. ASSUME NEW q \in Readers, q # r, Connect(q) \/ Resume(q) \/ Wake(q)
          PROVE  FALSE
      BY <2>0, <3>1 DEF Connect, Resume, Wake, Advance, StreamTypeOK
    <3>2. ASSUME NEW q \in Readers, Disconnect(q) PROVE FALSE
      BY <2>0, <3>2 DEF Disconnect, StreamTypeOK
    <3>3. ~(Begin \/ BeginFails \/ Work \/ Restart)
      BY DEF Begin, BeginFails, Work, Restart, streamVars
    <3> QED BY <1>1, <3>1, <3>2, <3>3 DEF EventNext
  <2>3. CASE Connect(r)
    <3>1. ~(0 < Len(log))
      BY <2>3 DEF Connect, Advance
    <3>2. got' = [got EXCEPT ![r] = <<>>] /\ label' = [label EXCEPT ![r] = record.op]
      BY <2>3, <3>1 DEF Connect, Advance
    <3>3. got'[r] = <<>> /\ label'[r] = record.op
      BY <2>0, <3>2 DEF StreamTypeOK
    <3>4. log = <<>>
      BY <2>1, <3>1
    <3> QED BY <3>3, <3>4
  <2>4. CASE Resume(r) \/ Wake(r)
    <3> DEFINE file == IF Resume(r) THEN Contents(r) ELSE log
    <3>1. Advance(r, label[r], offset[r], got[r], file) /\ label'[r] = label[r]
      BY <2>4 DEF Resume, Wake
    <3>2. file \in Seq(1..MaxOps)
      BY <2>0, <2>1 DEF Contents, StreamTypeOK
    <3>3. offset[r] >= Len(file) /\ got'[r] = got[r] /\ FinalEvent(label[r]) = "status"
      <4> DEFINE id == label[r]
                 start == offset[r]
                 sent == got[r]
      <4>1. /\ start \in Nat /\ sent \in Seq(1..MaxOps) /\ file \in Seq(1..MaxOps)
            /\ Advance(r, id, start, sent, file) /\ StreamTypeOK
        BY <2>0, <2>1, <3>1, <3>2
      <4> HIDE DEF id, start, sent, file
      <4>2. \/ outcome'[r] = outcome[r]
            \/ start >= Len(file) /\ got'[r] = sent /\ outcome'[r] = FinalEvent(id)
        BY <4>1, AdvanceEnds
      <4> QED BY <4>2 DEF id, start, sent
    <3>4. record.op = label[r]
      BY <3>3 DEF FinalEvent
    <3>5. /\ ~handle[r].replaced /\ offset[r] = Len(got[r]) /\ offset[r] <= Len(log)
      BY <2>0, <2>4, <3>4 DEF Reader, ReaderInv, Resume, Wake
    <3>6. file = log
      BY <3>5 DEF Contents
    <3>7. All(got[r], record.op) /\ All(log, record.op)
      BY <2>0, <3>4 DEF Reader, LogInv
    <3>8. Len(got[r]) = Len(log)
      BY <2>1, <3>3, <3>5, <3>6
    <3>9. got[r] = log
      BY <2>1, <3>7, <3>8, SameLog
    <3> QED BY <3>1, <3>3, <3>4, <3>9
  <2> QED BY <2>2, <2>3, <2>4
<1>2. StreamInv /\ [EventNext]_eventVars => [Complete]_eventVars
  BY <1>1
<1> QED BY <1>2, StreamInvariant, PTL DEF EventSpec, StatusIsComplete
==============================================================================
