-------------------------- MODULE SerialLinkProofs --------------------------
(***************************************************************************)
(* That commands reach the board in their order across reconnections, that *)
(* a command returns only on a link that is in step, that it returns all   *)
(* of its output, and nothing else as long as nothing has failed: for any  *)
(* number of sessions, commands and timeouts.                              *)
(***************************************************************************)
EXTENDS SerialLink, SequenceTheorems, TLAPS

(* The parts that make BoardOrder inductive.  A session submits commands   *)
(* only after its request to open the device has been answered, so that an *)
(* agent that has the device for the first time has none before it; and    *)
(* until then it has one request or one response under way.                *)
Writes(q) == {i \in 1..Len(q) : q[i].kind = "write" /\ q[i].cmd # 0}
Opens(q) == {i \in 1..Len(q) : q[i].kind = "open"}
OneUnderWay(s) == Len(requests[s]) + Len(responses[s]) <= 1
OrderInv ==
    /\ \A s, t \in holders : s = t
    /\ \A j \in 1..Len(ran) : ran[j] <= command
    /\ \A s \in Sessions : \A i \in Writes(requests[s]) :
          /\ requests[s][i].cmd <= command
          /\ Opens(requests[s]) = {}
          /\ \A k \in Writes(requests[s]) : i < k => requests[s][i].cmd < requests[s][k].cmd
          /\ s \in holders => \A j \in 1..Len(ran) : ran[j] < requests[s][i].cmd
SessionInv ==
    /\ \A s \in Sessions : channel[s] = "none" => requests[s] = <<>> /\ responses[s] = <<>>
    /\ doing = "idle" <=> awaiting = "none"
    /\ doing # "idle" => session # 0
    /\ session # 0 => channel[session] # "none"
    /\ doing = "connect" <=> awaiting \in {"hello", "open"}
    /\ doing = "connect" => OneUnderWay(session)
    /\ session # 0 /\ doing # "connect" => Opens(requests[session]) = {}

(* And those of ReturnsInStep.  Unless the only thing under way is the     *)
(* read the client waits for, nothing it has received or will receive      *)
(* before the answer to its own write stems from its command: either       *)
(* nothing does, or the answer is still to come, where a read is waited    *)
(* for, or the link is down.                                               *)
Sources(text) == {text[i].cmd : i \in 1..Len(text)}
Unheard(s, c, n) == \A j \in 1..n : c \notin Sources(responses[s][j].data)
Unanswered(s, c) ==
    \/ /\ c \notin Sources(board) \cup Sources(uart)
       /\ Unheard(s, c, Len(responses[s]))
    \/ \E p \in 1..Len(responses[s]) :
          /\ responses[s][p].kind = "written"
          /\ Unheard(s, c, p - 1)
          /\ awaiting = "write" => p = Len(responses[s]) /\ requests[s] = <<>>
    \/ channel[s] # "open" /\ Unheard(s, c, Len(responses[s]))
KnownInv ==
    /\ Sources(board) \cup Sources(uart) \subseteq 0..command
    /\ \A s \in Sessions : \A i \in 1..Len(responses[s]) :
          Sources(responses[s][i].data) \subseteq 0..command
WriteInv ==
    doing = "execute" =>
        /\ command # 0 /\ awaiting \in {"write", "read"}
        /\ \A s \in Sessions : \A i \in Writes(requests[s]) :
              requests[s][i].cmd = command =>
                  s = session /\ (awaiting = "write" => i = Len(requests[s]))
AnswerInv ==
    doing = "execute" =>
        \/ awaiting = "read" /\ OneUnderWay(session)
        \/ command \notin Sources(buffer) /\ Unanswered(session, command)
StepInv == KnownInv /\ WriteInv /\ AnswerInv

(* The types of what the arguments are about. *)
Shape ==
    /\ session \in 0..MaxSessions
    /\ doing \in {"idle", "connect", "prepare", "execute", "close", "abort"}
    /\ awaiting \in RequestKinds \cup {"none"}
    /\ command \in 0..MaxCommands
    /\ buffer \in Seq(Items) /\ uart \in Seq(Items) /\ board \in Seq(Items)
    /\ channel \in [Sessions -> {"none", "open", "closed"}]
    /\ requests \in [Sessions -> Seq(Requests)]
    /\ responses \in [Sessions -> Seq(Responses)]
    /\ holders \in SUBSET Sessions
    /\ ran \in Seq(Commands)

(* The inductive invariant of BoardOrder. *)
CommandInv == Shape /\ OrderInv /\ SessionInv /\ BoardOrder

------------------------------------------------------------------------------
(* Request lines.                                                          *)

LEMMA RequestSent ==
  ASSUME NEW q \in Seq(Requests), NEW r \in Requests
  PROVE  LET t == Append(q, r) IN
         /\ t \in Seq(Requests) /\ Len(t) = Len(q) + 1
         /\ \A i \in Writes(t) : i \in Nat /\ t[i].cmd \in 0..MaxCommands /\
               \/ i \in Writes(q) /\ t[i] = q[i] /\ i <= Len(q)
               \/ i = Len(q) + 1 /\ t[i] = r /\ r.kind = "write" /\ r.cmd # 0
         /\ \A i \in Opens(t) : i \in Opens(q) \/ r.kind = "open"
<1> DEFINE t == Append(q, r)
<1>1. /\ t \in Seq(Requests) /\ Len(t) = Len(q) + 1 /\ t[Len(q) + 1] = r /\ Len(q) \in Nat
      /\ \A i \in 1..Len(q) : t[i] = q[i]
      /\ \A i \in 1..Len(t) : t[i] \in Requests
  OBVIOUS
<1> HIDE DEF t
<1>2. \A i \in 1..Len(t) : i \in 1..Len(q) \/ i = Len(q) + 1
  BY <1>1
<1>3. \A i \in Writes(t) : i \in Nat /\ t[i].cmd \in 0..MaxCommands /\
               \/ i \in Writes(q) /\ t[i] = q[i] /\ i <= Len(q)
               \/ i = Len(q) + 1 /\ t[i] = r /\ r.kind = "write" /\ r.cmd # 0
  BY <1>1, <1>2 DEF Writes, Requests
<1>4. \A i \in Opens(t) : i \in Opens(q) \/ r.kind = "open"
  BY <1>1, <1>2 DEF Opens
<1> QED BY <1>1, <1>3, <1>4 DEF t

LEMMA RequestTaken ==
  ASSUME NEW q \in Seq(Requests), q # <<>>
  PROVE  LET t == Tail(q) IN
         /\ t \in Seq(Requests) /\ Len(t) = Len(q) - 1 /\ Head(q) \in Requests
         /\ Head(q) = q[1] /\ Len(q) \in Nat \ {0}
         /\ \A i \in Writes(t) : i \in Nat \ {0} /\ i + 1 \in Writes(q) /\ t[i] = q[i + 1]
         /\ \A i \in Opens(t) : i + 1 \in Opens(q)
         /\ Head(q).kind = "write" /\ Head(q).cmd # 0 => 1 \in Writes(q)
         /\ Head(q).kind = "open" => 1 \in Opens(q)
<1> DEFINE t == Tail(q)
<1>1. /\ t \in Seq(Requests) /\ Len(t) = Len(q) - 1 /\ Len(q) \in Nat \ {0}
      /\ Head(q) = q[1] /\ 1 \in 1..Len(q) /\ Head(q) \in Requests
      /\ \A i \in 1..Len(t) : i \in Nat \ {0} /\ i + 1 \in 1..Len(q) /\ t[i] = q[i + 1]
  OBVIOUS
<1> HIDE DEF t
<1>2. \A i \in Writes(t) : i \in Nat \ {0} /\ i + 1 \in Writes(q) /\ t[i] = q[i + 1]
  BY <1>1 DEF Writes
<1>3. \A i \in Opens(t) : i + 1 \in Opens(q)
  BY <1>1 DEF Opens
<1>4. /\ Head(q).kind = "write" /\ Head(q).cmd # 0 => 1 \in Writes(q)
      /\ Head(q).kind = "open" => 1 \in Opens(q)
  BY <1>1 DEF Writes, Opens
<1> QED BY <1>1, <1>2, <1>3, <1>4 DEF t

LEMMA NoRequest == Writes(<<>>) = {} /\ Opens(<<>>) = {}
  BY DEF Writes, Opens

LEMMA RequestTypes ==
  ASSUME Shape, NEW s \in Sessions
  PROVE  /\ requests[s] \in Seq(Requests) /\ Len(requests[s]) \in Nat
         /\ \A i \in Writes(requests[s]) :
               i \in 1..Len(requests[s]) /\ requests[s][i].cmd \in 0..MaxCommands
<1> DEFINE q == requests[s]
<1>1. q \in Seq(Requests)
  BY DEF Shape
<1> HIDE DEF q
<1>2. \A i \in 1..Len(q) : q[i] \in Requests
  BY <1>1, ElementOfSeq
<1>3. \A i \in Writes(q) : i \in 1..Len(q) /\ q[i].cmd \in 0..MaxCommands
  BY <1>2 DEF Writes, Requests
<1> QED BY <1>1, <1>3 DEF q

(* A request is added to those of its session. *)
LEMMA SendFacts ==
  ASSUME Shape, NEW s \in Sessions, NEW kind \in RequestKinds,
         NEW c \in 0..MaxCommands, Send(s, kind, c)
  PROVE  /\ requests' \in [Sessions -> Seq(Requests)]
         /\ awaiting' = kind
         /\ Len(requests'[s]) = Len(requests[s]) + 1
         /\ \A t \in Sessions : t # s => requests'[t] = requests[t]
         /\ \A i \in Writes(requests'[s]) : i \in Nat /\ requests'[s][i].cmd \in 0..MaxCommands /\
               \/ i \in Writes(requests[s]) /\ requests'[s][i] = requests[s][i] /\ i <= Len(requests[s])
               \/ i = Len(requests[s]) + 1 /\ requests'[s][i].cmd = c /\ kind = "write" /\ c # 0
         /\ \A i \in Opens(requests'[s]) : i \in Opens(requests[s]) \/ kind = "open"
<1> DEFINE r == [kind |-> kind, cmd |-> c]
           q == requests[s]
<1>1. r \in Requests /\ r.kind = kind /\ r.cmd = c
  BY DEF Requests
<1>2. q \in Seq(Requests) /\ requests \in [Sessions -> Seq(Requests)]
  BY DEF Shape
<1>3. requests' = [requests EXCEPT ![s] = Append(q, r)] /\ awaiting' = kind
  BY DEF Send
<1> HIDE DEF r
<1>4. /\ Append(q, r) \in Seq(Requests) /\ requests'[s] = Append(q, r)
      /\ \A t \in Sessions : t # s => requests'[t] = requests[t]
  BY <1>1, <1>2, <1>3
<1>5. requests' \in [Sessions -> Seq(Requests)]
  BY <1>2, <1>3, <1>4
<1> HIDE DEF q
<1>6. /\ Len(Append(q, r)) = Len(q) + 1
      /\ \A i \in Writes(Append(q, r)) :
            i \in Nat /\ Append(q, r)[i].cmd \in 0..MaxCommands /\
               \/ i \in Writes(q) /\ Append(q, r)[i] = q[i] /\ i <= Len(q)
               \/ i = Len(q) + 1 /\ Append(q, r)[i] = r /\ r.kind = "write" /\ r.cmd # 0
      /\ \A i \in Opens(Append(q, r)) : i \in Opens(q) \/ r.kind = "open"
  BY <1>1, <1>2, RequestSent
<1> QED BY <1>1, <1>3, <1>4, <1>5, <1>6 DEF q

------------------------------------------------------------------------------
(* The client and the order of the commands.                               *)

(* The client leaves the world alone, and consumes responses. *)
ClientFrame ==
    /\ Shape'
    /\ UNCHANGED world
    /\ \A s \in Sessions :
          /\ Len(responses'[s]) <= Len(responses[s])
          /\ responses[s] = <<>> => responses'[s] = <<>>
          /\ channel'[s] = "none" => channel[s] = "none"

(* A step of the client that sends nothing ends its call. *)
LEMMA ClientRests ==
  ASSUME CommandInv, ClientFrame, UNCHANGED <<requests, command>>,
         doing' = "idle", awaiting' = "none",
         session' = 0 \/ (session' = session /\ doing # "connect" /\ UNCHANGED channel)
  PROVE  CommandInv'
<1>1. OrderInv' /\ BoardOrder' /\ Shape'
  BY DEF CommandInv, ClientFrame, world, OrderInv, BoardOrder
<1>2. SessionInv'
  BY DEF CommandInv, ClientFrame, SessionInv
<1> QED BY <1>1, <1>2 DEF CommandInv

(* A step that sends a request of the same session, which is no command.   *)
LEMMA ClientSends ==
  ASSUME CommandInv, ClientFrame, session # 0, NEW kind \in RequestKinds \ {"hello"},
         Send(session, kind, 0), UNCHANGED <<session, command, channel>>,
         IF kind = "open"
         THEN /\ doing = "connect" /\ doing' = "connect"
              /\ requests[session] = <<>> /\ responses'[session] = <<>>
         ELSE doing' \notin {"idle", "connect"} /\ Opens(requests[session]) = {}
  PROVE  CommandInv'
<1> DEFINE s == session
<1>0. s \in Sessions /\ 0 \in 0..MaxCommands
  BY LinkAssumption DEF CommandInv, Shape, Sessions, LinkAssumption
<1>1. Send(s, kind, 0)
  OBVIOUS
<1>2. /\ awaiting' = kind
      /\ Len(requests'[s]) = Len(requests[s]) + 1
      /\ \A t \in Sessions : t # s => requests'[t] = requests[t]
      /\ \A i \in Writes(requests'[s]) :
            i \in Writes(requests[s]) /\ requests'[s][i] = requests[s][i]
      /\ \A i \in Opens(requests'[s]) : i \in Opens(requests[s]) \/ kind = "open"
  <2> HIDE DEF s
  <2> DEFINE z == 0
  <2>1. z \in 0..MaxCommands /\ Send(s, kind, z) /\ z = 0
    BY <1>0, <1>1
  <2> HIDE DEF z
  <2> QED BY <1>0, <2>1, SendFacts DEF CommandInv
<1>3. command' = command /\ ran' = ran /\ holders' = holders
  BY DEF ClientFrame, world
<1>4. OrderInv'
  <2>1. ASSUME NEW t \in Sessions, NEW i \in Writes(requests'[t])
        PROVE  /\ requests'[t][i].cmd <= command'
               /\ Opens(requests'[t]) = {}
               /\ \A k \in Writes(requests'[t]) :
                     i < k => requests'[t][i].cmd < requests'[t][k].cmd
               /\ t \in holders' => \A j \in 1..Len(ran') : ran'[j] < requests'[t][i].cmd
    <3>1. CASE t # s
      BY <1>2, <1>3, <3>1 DEF CommandInv, OrderInv
    <3>2. CASE t = s
      <4>1. i \in Writes(requests[s])
        BY <1>2, <3>2
      <4>2. kind # "open" /\ Opens(requests[s]) = {}
        BY <4>1, NoRequest, <1>0 DEF CommandInv, OrderInv
      <4> QED BY <1>0, <1>2, <1>3, <3>2, <4>1, <4>2 DEF CommandInv, OrderInv
    <3> QED BY <3>1, <3>2
  <2> QED BY <1>3, <2>1 DEF CommandInv, OrderInv
<1>5. SessionInv'
  <2>1. \A t \in Sessions : channel'[t] = "none" => requests'[t] = <<>> /\ responses'[t] = <<>>
    BY <1>0, <1>2 DEF CommandInv, SessionInv, ClientFrame
  <2>2. kind = "open" => OneUnderWay(session)' /\ awaiting' = "open"
    <3> SUFFICES ASSUME kind = "open"
                 PROVE  OneUnderWay(session)' /\ awaiting' = "open"
      OBVIOUS
    <3>1. requests[session] = <<>> /\ responses'[session] = <<>> /\ session' = session
      OBVIOUS
    <3>2. Len(requests'[session]) = 1
      BY <1>2, <3>1
    <3>3. Len(responses'[session]) = 0
      BY <3>1
    <3> QED BY <1>2, <3>1, <3>2, <3>3 DEF OneUnderWay
  <2>3. kind # "open" => Opens(requests'[session']) = {}
    BY <1>2
  <2>4. session' # 0 /\ channel'[session'] # "none"
    BY DEF CommandInv, SessionInv
  <2>5. doing' # "idle" /\ awaiting' # "none" /\ awaiting' # "hello"
    BY <1>2 DEF RequestKinds
  <2>6. (kind = "open") <=> (doing' = "connect")
    OBVIOUS
  <2> QED BY <1>2, <2>1, <2>2, <2>3, <2>4, <2>5, <2>6 DEF SessionInv
<1>6. BoardOrder' /\ Shape'
  BY <1>3 DEF CommandInv, BoardOrder, ClientFrame
<1> QED BY <1>4, <1>5, <1>6 DEF CommandInv

(* A response is consumed, or none is. *)
Consumes ==
    \/ UNCHANGED responses
    \/ /\ responses[session] # <<>>
       /\ responses' = [responses EXCEPT ![session] = Tail(@)]

LEMMA Consumed ==
  ASSUME Shape, session # 0, Consumes
  PROVE  /\ responses' \in [Sessions -> Seq(Responses)]
         /\ \A s \in Sessions : /\ Len(responses'[s]) <= Len(responses[s])
                                /\ responses[s] = <<>> => responses'[s] = <<>>
<1>0. session \in Sessions
  BY LinkAssumption DEF Shape, Sessions, LinkAssumption
<1>1. CASE UNCHANGED responses
  BY <1>1 DEF Shape
<1>2. CASE /\ responses[session] # <<>>
           /\ responses' = [responses EXCEPT ![session] = Tail(@)]
  <2> DEFINE q == responses[session]
  <2>1. q \in Seq(Responses) /\ q # <<>> /\ responses \in [Sessions -> Seq(Responses)]
    BY <1>0, <1>2 DEF Shape
  <2>2. Tail(q) \in Seq(Responses) /\ Len(Tail(q)) <= Len(q)
    BY <2>1
  <2>3. responses' = [responses EXCEPT ![session] = Tail(q)]
    BY <1>2
  <2> HIDE DEF q
  <2>4. responses' \in [Sessions -> Seq(Responses)]
    BY <2>1, <2>2, <2>3
  <2>5. responses'[session] = Tail(q) /\ \A s \in Sessions : s # session => responses'[s] = responses[s]
    BY <1>0, <2>1, <2>3
  <2>6. \A s \in Sessions : Len(responses[s]) \in Nat
    BY <2>1
  <2>7. ASSUME NEW s \in Sessions
        PROVE  /\ Len(responses'[s]) <= Len(responses[s])
               /\ responses[s] = <<>> => responses'[s] = <<>>
    <3>1. CASE s = session
      BY <2>1, <2>2, <2>5, <3>1 DEF q
    <3>2. CASE s # session
      BY <2>5, <2>6, <3>2
    <3> QED BY <3>1, <3>2
  <2> QED BY <2>4, <2>7
<1> QED BY <1>1, <1>2 DEF Consumes

(* An exception, whichever method it is raised in. *)
LEMMA RaiseOrdered ==
  ASSUME CommandInv, Raise, Consumes, UNCHANGED command, buffer' = <<>>, UNCHANGED world
  PROVE  CommandInv'
<1>0. doing # "idle" /\ session # 0 /\ session \in Sessions /\ Shape
  <2>1. doing # "idle"
    BY DEF Raise
  <2>2. session # 0 /\ Shape
    BY <2>1 DEF CommandInv, SessionInv
  <2> QED BY <2>1, <2>2, LinkAssumption DEF Shape, Sessions, LinkAssumption
<1>1. /\ responses' \in [Sessions -> Seq(Responses)]
      /\ \A s \in Sessions : /\ Len(responses'[s]) <= Len(responses[s])
                             /\ responses[s] = <<>> => responses'[s] = <<>>
  BY <1>0, Consumed
<1>2. CASE Hangup
  <2>1. Shape'
    <3>1. 0 \in 0..MaxSessions
      BY LinkAssumption DEF LinkAssumption
    <3>2. channel' \in [Sessions -> {"none", "open", "closed"}]
      BY <1>0, <1>2 DEF Shape, Hangup
    <3> QED BY <1>0, <1>1, <1>2, <3>1, <3>2 DEF Shape, Hangup, world
  <2>2. ClientFrame
    BY <1>0, <1>1, <1>2, <2>1 DEF ClientFrame, Hangup, Shape
  <2> QED BY <1>2, <2>2, ClientRests DEF Hangup
<1>3. CASE doing = "prepare" /\ doing' = "abort" /\ Send(session, "close", 0)
           /\ UNCHANGED <<session, channel>>
  <2>1. requests' \in [Sessions -> Seq(Requests)] /\ awaiting' = "close"
    BY <1>0, <1>3, SendFacts, LinkAssumption DEF RequestKinds, LinkAssumption
  <2>2. Shape'
    BY <1>0, <1>1, <1>3, <2>1 DEF Shape, world, RequestKinds
  <2>3. ClientFrame
    BY <1>1, <1>3, <2>2 DEF ClientFrame
  <2>4. Opens(requests[session]) = {}
    BY <1>0, <1>3 DEF CommandInv, SessionInv
  <2> DEFINE k == "close"
  <2>5. k \in RequestKinds \ {"hello"} /\ k # "open" /\ Send(session, k, 0)
    BY <1>3 DEF RequestKinds
  <2> HIDE DEF k
  <2> QED BY <1>0, <1>3, <2>3, <2>4, <2>5, ClientSends
<1>4. CASE doing \in {"execute", "abort"} /\ doing' = "idle" /\ awaiting' = "none"
           /\ UNCHANGED <<session, channel, requests>>
  <2>1. Shape'
    BY <1>1, <1>4, <1>0 DEF Shape, world
  <2>2. ClientFrame
    BY <1>1, <1>4, <2>1 DEF ClientFrame
  <2> QED BY <1>4, <2>2, ClientRests
<1> QED BY <1>2, <1>3, <1>4 DEF Raise

(* A new connection has no request but its first. *)
LEMMA ConnectOrdered ==
  ASSUME CommandInv, NEW s \in Sessions, Connect(s)
  PROVE  CommandInv'
<1>1. /\ Send(s, "hello", 0) /\ Shape /\ "hello" \in RequestKinds /\ 0 \in 0..MaxCommands
      /\ requests[s] = <<>> /\ responses[s] = <<>>
  BY LinkAssumption DEF CommandInv, SessionInv, Connect, RequestKinds, LinkAssumption
<1>2. /\ requests' \in [Sessions -> Seq(Requests)] /\ awaiting' = "hello"
      /\ Len(requests'[s]) = Len(requests[s]) + 1
      /\ \A t \in Sessions : t # s => requests'[t] = requests[t]
      /\ \A i \in Writes(requests'[s]) : i \in Writes(requests[s])
  <2> DEFINE k == "hello"
  <2>1. k = "hello" /\ k \in RequestKinds /\ k # "write" /\ Send(s, k, 0)
    BY <1>1
  <2> HIDE DEF k
  <2> QED BY <1>1, <2>1, SendFacts
<1>3. Shape'
  <2>1. channel' \in [Sessions -> {"none", "open", "closed"}] /\ session' \in 0..MaxSessions
    BY <1>1, LinkAssumption DEF Shape, Connect, Sessions, LinkAssumption
  <2> QED BY <1>1, <1>2, <2>1 DEF Shape, Connect, world, RequestKinds
<1>4. Writes(requests'[s]) = {}
  BY <1>1, <1>2, NoRequest
<1>5. OrderInv' /\ BoardOrder'
  BY <1>2, <1>4 DEF CommandInv, OrderInv, BoardOrder, Connect, world
<1>6. SessionInv'
  <2>1. /\ session' = s /\ doing' = "connect" /\ channel'[s] = "open" /\ s # 0
        /\ responses' = responses /\ \A t \in Sessions : t # s => channel'[t] = channel[t]
    BY <1>1 DEF Connect, Shape, Sessions
  <2>2. OneUnderWay(session)'
    <3>1. Len(requests'[s]) = 1 /\ Len(responses[s]) = 0
      BY <1>1, <1>2
    <3> QED BY <2>1, <3>1 DEF OneUnderWay
  <2>3. \A t \in Sessions : channel'[t] = "none" => requests'[t] = <<>> /\ responses'[t] = <<>>
    BY <1>2, <2>1 DEF CommandInv, SessionInv
  <2> QED BY <1>2, <2>1, <2>2, <2>3 DEF SessionInv
<1> QED BY <1>3, <1>5, <1>6 DEF CommandInv

(* A new command is larger than any before it. *)
LEMMA ExecuteOrdered ==
  ASSUME CommandInv, Execute
  PROVE  CommandInv'
<1> DEFINE s == session
           c == command + 1
<1>1. /\ Send(s, "write", c) /\ Shape /\ "write" \in RequestKinds /\ c \in 0..MaxCommands
      /\ s \in Sessions /\ s # 0
  <2>1. Send(s, "write", c) /\ Shape /\ "write" \in RequestKinds /\ s # 0
    BY DEF CommandInv, Execute, RequestKinds
  <2>2. s \in Sessions /\ c \in 0..MaxCommands
    BY <2>1, LinkAssumption DEF LinkAssumption, Execute, Shape, Sessions
  <2> QED BY <2>1, <2>2
<1>2. /\ requests' \in [Sessions -> Seq(Requests)] /\ awaiting' = "write"
      /\ \A t \in Sessions : t # s => requests'[t] = requests[t]
      /\ \A i \in Writes(requests'[s]) : i \in Nat /\ requests'[s][i].cmd \in 0..MaxCommands /\
               \/ i \in Writes(requests[s]) /\ requests'[s][i] = requests[s][i] /\ i <= Len(requests[s])
               \/ i = Len(requests[s]) + 1 /\ requests'[s][i].cmd = c
      /\ \A i \in Opens(requests'[s]) : i \in Opens(requests[s])
  <2> DEFINE k == "write"
  <2>1. k = "write" /\ k \in RequestKinds /\ k # "open" /\ Send(s, k, c)
    BY <1>1
  <2> HIDE DEF k, s, c
  <2> QED BY <1>1, <2>1, SendFacts
<1>3. Shape'
  BY <1>1, <1>2 DEF Shape, Execute, world, RequestKinds
<1>4. /\ UNCHANGED <<session, channel, responses, holders, ran>> /\ command' = c
      /\ doing = "idle" /\ doing' = "execute"
  BY DEF Execute, world
<1>5. Opens(requests[s]) = {} /\ Opens(requests'[s]) = {}
  BY <1>1, <1>2, <1>4 DEF CommandInv, SessionInv
<1>6. OrderInv'
  <2>0. command \in Nat /\ \A j \in 1..Len(ran) : ran[j] \in Nat /\ ran[j] < c
    <3>1. \A j \in 1..Len(ran) : ran[j] \in Commands
      BY <1>1, ElementOfSeq DEF Shape
    <3>2. command \in Nat /\ \A j \in 1..Len(ran) : ran[j] <= command
      BY <1>1 DEF Shape, CommandInv, OrderInv
    <3> QED BY <3>1, <3>2 DEF Commands
  <2>1. ASSUME NEW t \in Sessions, NEW i \in Writes(requests'[t])
        PROVE  /\ requests'[t][i].cmd <= command'
               /\ Opens(requests'[t]) = {}
               /\ \A k \in Writes(requests'[t]) :
                     i < k => requests'[t][i].cmd < requests'[t][k].cmd
               /\ t \in holders' => \A j \in 1..Len(ran') : ran'[j] < requests'[t][i].cmd
    <3>1. CASE t # s
      <4>1. requests'[t] = requests[t]
        BY <1>2, <3>1
      <4>2. requests[t][i].cmd \in Nat
        BY <1>1, <4>1, RequestTypes
      <4>3. /\ requests[t][i].cmd <= command
            /\ Opens(requests[t]) = {}
            /\ \A k \in Writes(requests[t]) : i < k => requests[t][i].cmd < requests[t][k].cmd
            /\ t \in holders => \A j \in 1..Len(ran) : ran[j] < requests[t][i].cmd
        BY <4>1 DEF CommandInv, OrderInv
      <4> QED BY <1>4, <2>0, <4>1, <4>2, <4>3
    <3>2. CASE t = s
      <4>1. \A k \in Writes(requests[s]) : requests[s][k].cmd <= command
        BY <1>1 DEF CommandInv, OrderInv
      <4>2. requests'[s][i].cmd <= c
        BY <1>2, <2>0, <3>2, <4>1
      <4>3. ASSUME NEW k \in Writes(requests'[s]), i < k
            PROVE  requests'[s][i].cmd < requests'[s][k].cmd
        <5>1. Len(requests[s]) \in Nat
          BY <1>1 DEF Shape
        <5>2. i \in Writes(requests[s]) /\ requests'[s][i] = requests[s][i]
          BY <1>2, <3>2, <4>3, <5>1
        <5>3. CASE k \in Writes(requests[s]) /\ requests'[s][k] = requests[s][k]
          BY <1>1, <4>3, <5>2, <5>3 DEF CommandInv, OrderInv
        <5>4. CASE requests'[s][k].cmd = c
          BY <1>2, <2>0, <3>2, <4>1, <5>2, <5>4
        <5> QED BY <1>2, <5>3, <5>4
      <4>4. ASSUME s \in holders, NEW j \in 1..Len(ran)
            PROVE  ran[j] < requests'[s][i].cmd
        <5>1. CASE i \in Writes(requests[s]) /\ requests'[s][i] = requests[s][i]
          BY <1>1, <4>4, <5>1 DEF CommandInv, OrderInv
        <5>2. CASE requests'[s][i].cmd = c
          BY <2>0, <5>2
        <5> QED BY <1>2, <3>2, <5>1, <5>2
      <4> QED BY <1>4, <1>5, <3>2, <4>2, <4>3, <4>4
    <3> QED BY <3>1, <3>2
  <2>2. \A x, y \in holders' : x = y
    BY <1>4 DEF CommandInv, OrderInv
  <2>3. \A j \in 1..Len(ran') : ran'[j] <= command'
    BY <1>4, <2>0
  <2> QED BY <2>1, <2>2, <2>3 DEF OrderInv
<1>7. SessionInv'
  <2>1. \A t \in Sessions : channel'[t] = "none" => requests'[t] = <<>> /\ responses'[t] = <<>>
    BY <1>1, <1>2, <1>4 DEF CommandInv, SessionInv
  <2> QED BY <1>1, <1>2, <1>4, <1>5, <2>1 DEF CommandInv, SessionInv
<1>8. BoardOrder'
  BY <1>4 DEF CommandInv, BoardOrder
<1> QED BY <1>3, <1>6, <1>7, <1>8 DEF CommandInv

LEMMA CloseOrdered ==
  ASSUME CommandInv, Close
  PROVE  CommandInv'
<1> DEFINE k == "close"
<1>1. /\ Send(session, k, 0) /\ Shape /\ 0 \in 0..MaxCommands
      /\ k \in RequestKinds \ {"hello"} /\ k # "open"
      /\ session \in Sessions /\ session # 0
  BY LinkAssumption DEF CommandInv, Close, RequestKinds, LinkAssumption, Shape, Sessions
<1> HIDE DEF k
<1>2. requests' \in [Sessions -> Seq(Requests)] /\ awaiting' = k
  BY <1>1, SendFacts
<1>3. Shape'
  BY <1>1, <1>2 DEF Shape, Close, world
<1>4. ClientFrame
  <2>1. \A s \in Sessions : Len(responses[s]) \in Nat
    BY <1>1 DEF Shape
  <2> QED BY <1>3, <2>1 DEF ClientFrame, Close
<1>5. Opens(requests[session]) = {}
  BY <1>1 DEF CommandInv, SessionInv, Close
<1> QED BY <1>1, <1>4, <1>5, ClientSends DEF Close

(* The text received so far. *)
LEMMA TextReceived ==
  ASSUME NEW text \in Seq(Items), NEW q \in Seq(Responses), q # <<>>
  PROVE  /\ Head(q) \in Responses /\ Head(q).data \in Seq(Items)
         /\ text \o Head(q).data \in Seq(Items)
<1>1. Head(q) \in Responses
  OBVIOUS
<1> DEFINE d == Head(q).data
<1>2. d \in Seq(Items)
  BY <1>1 DEF Responses
<1> HIDE DEF d
<1>3. text \o d \in Seq(Items)
  BY <1>2
<1> QED BY <1>1, <1>2, <1>3 DEF d

LEMMA ReceiveOrdered ==
  ASSUME CommandInv, Receive
  PROVE  CommandInv'
<1> DEFINE r == Head(responses[session])
           m == IF awaiting = "read" THEN r ELSE [r EXCEPT !.data = <<>>]
<1>0. awaiting # "none" /\ doing # "idle" /\ session # 0 /\ session \in Sessions /\ Shape
  <2>1. awaiting # "none"
    BY DEF Receive
  <2>2. doing # "idle" /\ session # 0 /\ Shape
    BY <2>1 DEF CommandInv, SessionInv
  <2>3. session \in 0..MaxSessions
    BY <2>2 DEF Shape
  <2>4. session \in Sessions
    BY <2>2, <2>3, LinkAssumption DEF Sessions, LinkAssumption
  <2> QED BY <2>1, <2>2, <2>4
<1>1. Consumes /\ UNCHANGED world /\ UNCHANGED command
  BY DEF Receive, Consumes
<1>2. /\ responses' \in [Sessions -> Seq(Responses)]
      /\ \A s \in Sessions : /\ Len(responses'[s]) <= Len(responses[s])
                             /\ responses[s] = <<>> => responses'[s] = <<>>
  BY <1>0, <1>1, Consumed
<1>3. CASE Raise /\ buffer' = <<>> /\ UNCHANGED result
  BY <1>1, <1>3, RaiseOrdered
<1>4. CASE Hangup /\ UNCHANGED buffer /\ awaiting = "close"
  <2>1. Shape'
    <3>1. 0 \in 0..MaxSessions
      BY LinkAssumption DEF LinkAssumption
    <3>2. channel' \in [Sessions -> {"none", "open", "closed"}]
      BY <1>0, <1>4 DEF Shape, Hangup
    <3> QED BY <1>0, <1>1, <1>2, <1>4, <3>1, <3>2 DEF Shape, Hangup, world
  <2>2. ClientFrame
    BY <1>0, <1>1, <1>2, <1>4, <2>1 DEF ClientFrame, Hangup, Shape
  <2> QED BY <1>1, <1>4, <2>2, ClientRests DEF Hangup
<1>5. CASE Proceed(m)
  <2>0. 0 \in 0..MaxCommands /\ <<>> \in Seq(Items) /\ awaiting # "close"
    BY <1>5, LinkAssumption DEF LinkAssumption, Proceed
  <2>1. UNCHANGED <<session, channel>> /\ awaiting \in {"hello", "open", "write", "read"}
    BY <1>5 DEF Proceed
  <2>2. buffer' \in Seq(Items)
    <3>1. CASE awaiting = "read"
      <4>1. buffer' = buffer \o r.data
        BY <1>5, <3>1 DEF Proceed
      <4>2. responses[session] # <<>> /\ responses[session] \in Seq(Responses) /\ buffer \in Seq(Items)
        BY <1>0 DEF Receive, Shape
      <4> QED BY <4>1, <4>2, TextReceived
    <3>2. CASE awaiting # "read"
      BY <1>0, <1>5, <2>0, <3>2 DEF Proceed, Shape
    <3> QED BY <3>1, <3>2
  <2>3. ASSUME NEW kind \in RequestKinds \ {"hello"}, Send(session, kind, 0), doing' # "idle",
               doing' \in {"connect", "prepare", "execute", "close", "abort"},
               IF kind = "open"
               THEN /\ doing = "connect" /\ doing' = "connect"
                    /\ requests[session] = <<>> /\ responses'[session] = <<>>
               ELSE doing' \notin {"idle", "connect"} /\ Opens(requests[session]) = {}
        PROVE  CommandInv'
    <3>1. requests' \in [Sessions -> Seq(Requests)] /\ awaiting' = kind
      BY <1>0, <2>0, <2>3, SendFacts
    <3>2. Shape'
      BY <1>0, <1>1, <1>2, <2>1, <2>2, <2>3, <3>1 DEF Shape, world
    <3>3. ClientFrame
      BY <1>1, <1>2, <2>1, <3>2 DEF ClientFrame
    <3> QED BY <1>0, <1>1, <2>1, <2>3, <3>3, ClientSends
  <2>4. awaiting \in {"hello", "open"} =>
          /\ doing = "connect" /\ requests[session] = <<>> /\ responses'[session] = <<>>
    <3> SUFFICES ASSUME awaiting \in {"hello", "open"}
                 PROVE  doing = "connect" /\ requests[session] = <<>> /\ responses'[session] = <<>>
      OBVIOUS
    <3>1. doing = "connect" /\ OneUnderWay(session)
      BY DEF CommandInv, SessionInv
    <3> DEFINE q == responses[session]
    <3>2. /\ q \in Seq(Responses) /\ q # <<>> /\ responses'[session] = Tail(q)
          /\ requests[session] \in Seq(Requests)
      BY <1>0 DEF Shape, Receive
    <3>3. Len(requests[session]) + Len(q) <= 1
      BY <3>1 DEF OneUnderWay
    <3> HIDE DEF q
    <3>4. Len(q) \in Nat /\ Len(q) >= 1 /\ Len(requests[session]) \in Nat
      BY <3>2
    <3>5. Len(requests[session]) = 0 /\ Len(q) = 1
      <4> DEFINE a == Len(requests[session])
                 b == Len(q)
      <4>1. a \in Nat /\ b \in Nat /\ b >= 1 /\ a + b <= 1
        BY <3>3, <3>4
      <4> HIDE DEF a, b
      <4>2. a = 0 /\ b = 1
        BY <4>1
      <4> QED BY <4>2 DEF a, b
    <3>6. requests[session] = <<>> /\ Tail(q) = <<>>
      BY <3>2, <3>5
    <3> QED BY <3>1, <3>2, <3>6
  <2>5. awaiting \in {"write", "read"} =>
           doing \in {"prepare", "execute", "close", "abort"} /\ Opens(requests[session]) = {}
    BY <1>0 DEF CommandInv, SessionInv, Shape
  <2>6. CASE awaiting = "hello"
    <3>1. Send(session, "open", 0) /\ doing' = doing
      BY <1>5, <2>6 DEF Proceed
    <3> DEFINE k == "open"
    <3>2. k \in RequestKinds \ {"hello"} /\ k = "open" /\ Send(session, k, 0)
      BY <3>1 DEF RequestKinds
    <3> HIDE DEF k
    <3> QED BY <2>3, <2>4, <2>6, <3>1, <3>2
  <2>7. CASE awaiting = "open"
    <3>1. Send(session, "write", 0) /\ doing' = "prepare"
      BY <1>5, <2>7 DEF Proceed
    <3> DEFINE k == "write"
    <3>2. k \in RequestKinds \ {"hello"} /\ k # "open" /\ Send(session, k, 0)
      BY <3>1 DEF RequestKinds
    <3> HIDE DEF k
    <3>3. Opens(requests[session]) = {}
      BY <2>4, <2>7, NoRequest
    <3> QED BY <2>3, <3>1, <3>2, <3>3
  <2>8. CASE awaiting = "write" \/ (awaiting = "read" /\ Send(session, "read", 0) /\ doing' = doing)
    <3>1. Send(session, "read", 0) /\ doing' = doing
      BY <1>5, <2>8 DEF Proceed
    <3> DEFINE k == "read"
    <3>2. k \in RequestKinds \ {"hello"} /\ k # "open" /\ Send(session, k, 0)
      BY <3>1 DEF RequestKinds
    <3> HIDE DEF k
    <3> QED BY <2>3, <2>5, <2>8, <3>1, <3>2
  <2>9. CASE awaiting = "read" /\ doing' = "idle" /\ awaiting' = "none" /\ UNCHANGED requests
    <3>1. Shape'
      BY <1>0, <1>1, <1>2, <2>1, <2>2, <2>9 DEF Shape, world
    <3>2. ClientFrame
      BY <1>1, <1>2, <2>1, <3>1 DEF ClientFrame
    <3> QED BY <1>1, <2>1, <2>5, <2>9, <3>2, ClientRests
  <2> QED BY <1>5, <2>1, <2>6, <2>7, <2>8, <2>9 DEF Proceed
<1> QED BY <1>3, <1>4, <1>5 DEF Receive

(* The other ways for a request to end. *)
LEMMA FailureOrdered ==
  ASSUME CommandInv, TimeOut \/ SeeEnd \/ GiveUp
  PROVE  CommandInv'
<1>1. Raise /\ Consumes /\ UNCHANGED command /\ buffer' = <<>> /\ UNCHANGED world
  BY DEF TimeOut, SeeEnd, GiveUp, Consumes
<1> QED BY <1>1, RaiseOrdered

------------------------------------------------------------------------------
(* Texts, and where they stem from.                                        *)

LEMMA NoSource == Sources(<<>>) = {}
  BY DEF Sources

LEMMA JoinedSources ==
  ASSUME NEW a \in Seq(Items), NEW b \in Seq(Items)
  PROVE  Sources(a \o b) \subseteq Sources(a) \cup Sources(b)
<1> DEFINE t == a \o b
<1>1. /\ Len(a) \in Nat /\ Len(b) \in Nat /\ Len(t) = Len(a) + Len(b)
      /\ \A i \in 1..Len(t) : t[i] = IF i <= Len(a) THEN a[i] ELSE b[i - Len(a)]
  BY ConcatProperties
<1> HIDE DEF t
<1>2. \A i \in 1..Len(t) : \/ i \in 1..Len(a) /\ t[i] = a[i]
                           \/ i - Len(a) \in 1..Len(b) /\ t[i] = b[i - Len(a)]
  BY <1>1
<1>3. Sources(t) \subseteq Sources(a) \cup Sources(b)
  BY <1>2 DEF Sources
<1> QED BY <1>3 DEF t

LEMMA TailSources ==
  ASSUME NEW t \in Seq(Items), t # <<>>
  PROVE  /\ Sources(Tail(t)) \subseteq Sources(t) /\ Head(t).cmd \in Sources(t)
         /\ \A u \in Seq(Items) : Sources(Append(u, Head(t))) \subseteq Sources(u) \cup Sources(t)
<1>1. /\ \A i \in 1..Len(Tail(t)) : i + 1 \in 1..Len(t) /\ Tail(t)[i] = t[i + 1]
      /\ 1 \in 1..Len(t) /\ Head(t) = t[1] /\ Head(t) \in Items
  OBVIOUS
<1>2. Sources(Tail(t)) \subseteq Sources(t) /\ Head(t).cmd \in Sources(t)
  BY <1>1 DEF Sources
<1> DEFINE h == Head(t)
<1>3. ASSUME NEW u \in Seq(Items)
      PROVE  Sources(Append(u, h)) \subseteq Sources(u) \cup {h.cmd}
  <2> HIDE DEF h
  <2>1. \A i \in 1..Len(Append(u, h)) : \/ i \in 1..Len(u) /\ Append(u, h)[i] = u[i]
                                        \/ Append(u, h)[i] = h
    OBVIOUS
  <2> QED BY <2>1 DEF Sources
<1> QED BY <1>2, <1>3

LEMMA PrintedSources ==
  ASSUME NEW c \in 0..MaxCommands
  PROVE  Printed(c) \in Seq(Items) /\ Sources(Printed(c)) \subseteq {c}
<1>1. /\ [cmd |-> c, part |-> "prompt"] \in Items
      /\ [cmd |-> c, part |-> "output"] \in Items /\ [cmd |-> c, part |-> "exit"] \in Items
  BY DEF Items
<1>2. Printed(c) \in Seq(Items)
  BY <1>1 DEF Printed
<1>3. \A i \in 1..Len(Printed(c)) : Printed(c)[i].cmd = c
  BY DEF Printed
<1> QED BY <1>2, <1>3 DEF Sources

(* Responses that are consumed. *)
LEMMA ResponseTaken ==
  ASSUME NEW q \in Seq(Responses), q # <<>>
  PROVE  LET t == Tail(q) IN
         /\ t \in Seq(Responses) /\ Len(q) \in Nat \ {0} /\ Len(t) = Len(q) - 1
         /\ Head(q) = q[1] /\ 1 \in 1..Len(q)
         /\ \A i \in 1..Len(t) : i \in Nat \ {0} /\ i + 1 \in 1..Len(q) /\ t[i] = q[i + 1]
  OBVIOUS

------------------------------------------------------------------------------
(* The stand and the order of the commands.                                *)

LEMMA AnswerFacts ==
  ASSUME Shape, NEW s \in Sessions, NEW kind \in {"version", "ok", "written", "data", "error"},
         NEW c \in 0..MaxCommands, NEW data \in Seq(Items), Answer(s, kind, c, data)
  PROVE  LET a == [kind |-> kind, cmd |-> c, data |-> data] IN
         /\ responses' \in [Sessions -> Seq(Responses)]
         /\ \A t \in Sessions : t # s => responses'[t] = responses[t]
         /\ \/ channel[s] # "open" /\ responses'[s] = responses[s]
            \/ channel[s] = "open" /\ responses'[s] = Append(responses[s], a)
         /\ Len(responses'[s]) <= Len(responses[s]) + 1
<1> DEFINE a == [kind |-> kind, cmd |-> c, data |-> data]
           q == responses[s]
           p == IF channel[s] = "open" THEN Append(q, a) ELSE q
<1>1. responses \in [Sessions -> Seq(Responses)] /\ q \in Seq(Responses) /\ a \in Responses
  BY DEF Shape, Responses
<1>2. responses' = [responses EXCEPT ![s] = p]
  BY DEF Answer
<1> HIDE DEF a, q
<1>3. p \in Seq(Responses) /\ Len(p) <= Len(q) + 1
  BY <1>1
<1> HIDE DEF p
<1>4. responses' \in [Sessions -> Seq(Responses)] /\ responses'[s] = p
      /\ \A t \in Sessions : t # s => responses'[t] = responses[t]
  BY <1>1, <1>2, <1>3
<1>5. \/ channel[s] # "open" /\ responses'[s] = responses[s]
      \/ channel[s] = "open" /\ responses'[s] = Append(responses[s], a)
  BY <1>4 DEF p, q
<1> QED BY <1>3, <1>4, <1>5 DEF a, q

(* The agent of s has taken its next request. *)
Takes(s) ==
    /\ requests[s] # <<>>
    /\ requests' = [requests EXCEPT ![s] = Tail(@)]
    /\ UNCHANGED <<session, doing, awaiting, command, buffer, channel>>
    /\ board' \in Seq(Items) /\ uart' \in Seq(Items)
    /\ responses' \in [Sessions -> Seq(Responses)]
    /\ \A t \in Sessions : t # s => responses'[t] = responses[t]
    /\ Len(responses'[s]) <= Len(responses[s]) + 1

(* What it may do to the device: only the first request of a session that  *)
(* opens it finds the port free, and only its holder writes.               *)
Effect(s, r) ==
    \/ holders' \subseteq holders /\ ran' = ran
    \/ r.kind = "open" /\ holders = {} /\ holders' = {s} /\ ran' = ran
    \/ /\ r.kind = "write" /\ r.cmd # 0 /\ s \in holders
       /\ holders' = holders /\ ran' = Append(ran, r.cmd)

LEMMA TakeOrdered ==
  ASSUME CommandInv, NEW s \in Sessions, Takes(s), Effect(s, Head(requests[s]))
  PROVE  CommandInv'
<1> DEFINE q == requests[s]
           r == Head(q)
<1>1. /\ q \in Seq(Requests) /\ q # <<>> /\ Shape
      /\ requests' = [requests EXCEPT ![s] = Tail(q)]
      /\ requests \in [Sessions -> Seq(Requests)]
  BY DEF CommandInv, Shape, Takes
<1> HIDE DEF q
<1>2. /\ Tail(q) \in Seq(Requests) /\ Len(Tail(q)) = Len(q) - 1 /\ r \in Requests
      /\ Len(q) \in Nat \ {0}
      /\ r = q[1]
      /\ \A i \in Writes(Tail(q)) : i \in Nat \ {0} /\ i + 1 \in Writes(q) /\ Tail(q)[i] = q[i + 1]
      /\ \A i \in Opens(Tail(q)) : i + 1 \in Opens(q)
      /\ r.kind = "write" /\ r.cmd # 0 => 1 \in Writes(q)
      /\ r.kind = "open" => 1 \in Opens(q)
  BY <1>1, RequestTaken
<1>3. /\ requests' \in [Sessions -> Seq(Requests)] /\ requests'[s] = Tail(q)
      /\ \A t \in Sessions : t # s => requests'[t] = requests[t]
  BY <1>1, <1>2
<1>4. /\ UNCHANGED <<session, doing, awaiting, command, buffer, channel>>
      /\ Effect(s, r) /\ \A t \in Sessions : t # s => responses'[t] = responses[t]
  BY DEF Takes, q
<1>5. ran' \in Seq(Commands) /\ holders' \in SUBSET Sessions
  <2>1. r.kind = "write" /\ r.cmd # 0 => r.cmd \in Commands
    BY <1>2 DEF Requests, Commands
  <2>2. ran \in Seq(Commands) /\ holders \in SUBSET Sessions
    BY <1>1 DEF Shape
  <2> QED BY <1>4, <2>1, <2>2 DEF Effect
<1>6. Shape'
  BY <1>1, <1>3, <1>4, <1>5 DEF Shape, Takes
<1>7. SessionInv'
  <2>1. \A t \in Sessions : channel'[t] = "none" => requests'[t] = <<>> /\ responses'[t] = <<>>
    BY <1>1, <1>3, <1>4 DEF CommandInv, SessionInv, q
  <2>2. doing = "connect" => OneUnderWay(session)'
    <3> SUFFICES ASSUME doing = "connect"
                 PROVE  OneUnderWay(session)'
      OBVIOUS
    <3>1. OneUnderWay(session) /\ session \in Sessions /\ session' = session
      <4>1. session # 0 /\ OneUnderWay(session)
        BY DEF CommandInv, SessionInv
      <4> QED BY <1>1, <1>4, <4>1, LinkAssumption DEF LinkAssumption, Shape, Sessions
    <3>2. CASE session # s
      BY <1>3, <1>4, <3>1, <3>2 DEF OneUnderWay
    <3>3. CASE session = s
      <4> DEFINE a == Len(q)
                 b == Len(responses[s])
                 d == Len(responses'[s])
      <4>1. a \in Nat /\ b \in Nat /\ d \in Nat /\ d <= b + 1 /\ a + b <= 1
        BY <1>1, <1>2, <1>6, <3>1, <3>3 DEF Takes, Shape, OneUnderWay, q
      <4>2. Len(requests'[s]) = a - 1
        BY <1>2, <1>3
      <4> HIDE DEF a, b, d
      <4>3. Len(requests'[s]) + d <= 1
        BY <4>1, <4>2
      <4> QED BY <3>1, <3>3, <4>3 DEF OneUnderWay, d
    <3> QED BY <3>2, <3>3
  <2>3. session # 0 /\ doing # "connect" => Opens(requests'[session]) = {}
    <3>1. session # 0 /\ doing # "connect" => Opens(requests[session]) = {} /\ session \in Sessions
      BY <1>1, LinkAssumption DEF CommandInv, SessionInv, LinkAssumption, Shape, Sessions
    <3> QED BY <1>2, <1>3, <3>1 DEF q
  <2> QED BY <1>4, <2>1, <2>2, <2>3 DEF CommandInv, SessionInv
<1>8. \A x, y \in holders' : x = y
  BY <1>4 DEF CommandInv, OrderInv, Effect
<1>9. \A t \in Sessions : \A i \in Writes(requests'[t]) :
         /\ requests'[t][i].cmd <= command'
         /\ Opens(requests'[t]) = {}
         /\ \A k \in Writes(requests'[t]) : i < k => requests'[t][i].cmd < requests'[t][k].cmd
  <2> SUFFICES ASSUME NEW t \in Sessions, NEW i \in Writes(requests'[t])
               PROVE  /\ requests'[t][i].cmd <= command
                      /\ Opens(requests'[t]) = {}
                      /\ \A k \in Writes(requests'[t]) :
                            i < k => requests'[t][i].cmd < requests'[t][k].cmd
    BY <1>4
  <2>1. CASE t # s
    BY <1>3, <2>1 DEF CommandInv, OrderInv
  <2>2. CASE t = s
    <3>1. /\ \A x \in Writes(q) : /\ q[x].cmd <= command /\ Opens(q) = {}
                                  /\ \A k \in Writes(q) : x < k => q[x].cmd < q[k].cmd
      BY DEF CommandInv, OrderInv, q
    <3>2. i \in Nat /\ i + 1 \in Writes(q) /\ requests'[t][i] = q[i + 1]
      BY <1>2, <1>3, <2>2
    <3>3. Opens(requests'[t]) = {}
      BY <1>2, <1>3, <2>2, <3>1, <3>2
    <3>4. ASSUME NEW k \in Writes(requests'[t]), i < k
          PROVE  requests'[t][i].cmd < requests'[t][k].cmd
      <4>1. k \in Nat /\ k + 1 \in Writes(q) /\ requests'[t][k] = q[k + 1]
        BY <1>2, <1>3, <2>2
      <4>2. i + 1 < k + 1
        BY <3>2, <3>4, <4>1
      <4> QED BY <3>1, <3>2, <4>1, <4>2
    <3> QED BY <3>1, <3>2, <3>3, <3>4
  <2> QED BY <2>1, <2>2
<1>10. ASSUME NEW t \in holders', NEW i \in Writes(requests'[t])
       PROVE  \A j \in 1..Len(ran') : ran'[j] < requests'[t][i].cmd
  <2>1. CASE holders' \subseteq holders /\ ran' = ran
    <3>1. t \in Sessions /\ t \in holders
      BY <1>5, <2>1, <1>10
    <3>2. CASE t # s
      BY <1>3, <2>1, <3>1, <3>2 DEF CommandInv, OrderInv
    <3>3. CASE t = s
      <4>1. i + 1 \in Writes(requests[s]) /\ requests'[s][i] = requests[s][i + 1]
        BY <1>2, <1>3, <3>3 DEF q
      <4> QED BY <2>1, <3>1, <3>3, <4>1 DEF CommandInv, OrderInv
    <3> QED BY <3>2, <3>3
  <2>2. CASE r.kind = "open" /\ holders = {} /\ holders' = {s} /\ ran' = ran
    <3>1. t = s /\ 1 \in Opens(requests[s])
      BY <1>2, <2>2 DEF q
    <3>2. i + 1 \in Writes(requests[s])
      BY <1>2, <1>3, <3>1 DEF q
    <3> QED BY <3>1, <3>2 DEF CommandInv, OrderInv
  <2>3. CASE /\ r.kind = "write" /\ r.cmd # 0 /\ s \in holders
             /\ holders' = holders /\ ran' = Append(ran, r.cmd)
    <3>1. t = s
      BY <2>3 DEF CommandInv, OrderInv
    <3>2. /\ i \in Nat \ {0} /\ i + 1 \in Writes(q) /\ requests'[t][i] = q[i + 1]
          /\ 1 \in Writes(q) /\ r = q[1]
      BY <1>2, <1>3, <2>3, <3>1
    <3>3. r.cmd < q[i + 1].cmd
      <4>1. 1 < i + 1
        BY <3>2
      <4> QED BY <3>2, <4>1 DEF CommandInv, OrderInv, q
    <3>4. \A j \in 1..Len(ran) : ran[j] < q[i + 1].cmd
      BY <2>3, <3>2 DEF CommandInv, OrderInv, q
    <3>5. ran \in Seq(Commands)
      BY <1>1 DEF Shape
    <3>6. \A j \in 1..Len(ran') : ran'[j] = r.cmd \/ (j \in 1..Len(ran) /\ ran'[j] = ran[j])
      BY <2>3, <3>5
    <3> QED BY <3>2, <3>3, <3>4, <3>6
  <2> QED BY <1>4, <2>1, <2>2, <2>3 DEF Effect
<1>11. (\A j \in 1..Len(ran') : ran'[j] <= command') /\ BoardOrder'
  <2>1. CASE ran' = ran
    BY <1>4, <2>1 DEF CommandInv, OrderInv, BoardOrder
  <2>2. CASE /\ r.kind = "write" /\ r.cmd # 0 /\ s \in holders
             /\ ran' = Append(ran, r.cmd)
    <3>1. 1 \in Writes(q) /\ r = q[1] /\ ran \in Seq(Commands)
      BY <1>1, <1>2, <2>2 DEF Shape
    <3>2. r.cmd <= command /\ \A j \in 1..Len(ran) : ran[j] < r.cmd /\ ran[j] <= command
      BY <2>2, <3>1 DEF CommandInv, OrderInv, q
    <3> DEFINE c == r.cmd
    <3> HIDE DEF c
    <3>3. /\ \A j \in 1..Len(ran') : \/ j \in 1..Len(ran) /\ ran'[j] = ran[j]
                                     \/ j = Len(ran) + 1 /\ ran'[j] = c
          /\ Len(ran) \in Nat
      BY <2>2, <3>1 DEF c
    <3>4. \A j \in 1..Len(ran') : ran'[j] <= command'
      BY <1>4, <3>2, <3>3 DEF c
    <3>5. ASSUME NEW i \in 1..Len(ran'), NEW j \in 1..Len(ran'), i < j
          PROVE  ran'[i] < ran'[j]
      <4>1. i \in 1..Len(ran) /\ ran'[i] = ran[i]
        BY <3>3, <3>5
      <4> QED BY <3>2, <3>3, <3>5, <4>1 DEF CommandInv, BoardOrder, c
    <3> QED BY <3>4, <3>5 DEF BoardOrder
  <2> QED BY <1>4, <2>1, <2>2 DEF Effect
<1>12. OrderInv'
  BY <1>8, <1>9, <1>10, <1>11 DEF OrderInv
<1> QED BY <1>6, <1>7, <1>11, <1>12 DEF CommandInv

LEMMA ServeOrdered ==
  ASSUME CommandInv, NEW s \in Sessions, Serve(s)
  PROVE  CommandInv'
<1> DEFINE r == Head(requests[s])
<1>1. /\ Shape /\ requests[s] # <<>> /\ Handle(s, r) /\ r \in Requests
      /\ requests' = [requests EXCEPT ![s] = Tail(@)]
      /\ UNCHANGED <<session, doing, awaiting, command, buffer, channel>>
  BY DEF CommandInv, Serve, Shape
<1>2. /\ 0 \in 0..MaxCommands /\ <<>> \in Seq(Items) /\ r.cmd \in 0..MaxCommands
      /\ board \in Seq(Items) /\ uart \in Seq(Items)
  BY <1>1, LinkAssumption DEF LinkAssumption, Requests, Shape
<1> HIDE DEF r
<1>3. ASSUME NEW kind \in {"version", "ok", "written", "data", "error"},
             NEW c \in 0..MaxCommands, NEW data \in Seq(Items), Answer(s, kind, c, data)
      PROVE  /\ responses' \in [Sessions -> Seq(Responses)]
             /\ \A t \in Sessions : t # s => responses'[t] = responses[t]
             /\ Len(responses'[s]) <= Len(responses[s]) + 1
  BY <1>1, <1>3, AnswerFacts
<1> DEFINE Answered == /\ responses' \in [Sessions -> Seq(Responses)]
                       /\ \A t \in Sessions : t # s => responses'[t] = responses[t]
                       /\ Len(responses'[s]) <= Len(responses[s]) + 1
<1>4. Answered /\ board' \in Seq(Items) /\ uart' \in Seq(Items) /\ Effect(s, r)
  <2>1. CASE r.kind = "hello" /\ Answer(s, "version", 0, <<>>) /\ UNCHANGED <<agent, world>>
    <3>1. Answered
      BY <1>2, <1>3, <2>1
    <3> QED BY <1>2, <2>1, <3>1 DEF Effect, world
  <2>2. CASE /\ r.kind = "open" /\ Free /\ holders' = holders \cup {s} /\ uart' = <<>>
             /\ Answer(s, "ok", 0, <<>>) /\ UNCHANGED <<agent, board, ran>>
    <3>1. Answered
      BY <1>2, <1>3, <2>2
    <3> QED BY <1>2, <2>2, <3>1 DEF Effect, Free
  <2>3. CASE /\ r.kind = "write" /\ s \in holders /\ board' = board \o Printed(r.cmd)
             /\ ran' = (IF r.cmd = 0 THEN ran ELSE Append(ran, r.cmd))
             /\ Answer(s, "written", r.cmd, <<>>) /\ UNCHANGED <<agent, holders, uart>>
    <3>1. Answered
      BY <1>2, <1>3, <2>3
    <3>2. Printed(r.cmd) \in Seq(Items)
      BY <1>2, PrintedSources
    <3>3. board' \in Seq(Items)
      <4> DEFINE p == Printed(r.cmd)
      <4>1. p \in Seq(Items) /\ board' = board \o p
        BY <2>3, <3>2
      <4> HIDE DEF p
      <4> QED BY <1>2, <4>1
    <3> QED BY <1>2, <2>3, <3>1, <3>3 DEF Effect
  <2>4. CASE /\ r.kind = "read" /\ s \in holders /\ uart' = <<>> /\ Answer(s, "data", 0, uart)
             /\ UNCHANGED <<agent, holders, board, ran>>
    <3>1. Answered
      BY <1>2, <1>3, <2>4
    <3> QED BY <1>2, <2>4, <3>1 DEF Effect
  <2>5. CASE /\ r.kind = "close" /\ Release(s) /\ Answer(s, "ok", 0, <<>>)
             /\ UNCHANGED <<board, ran>>
    <3>1. Answered
      BY <1>2, <1>3, <2>5
    <3> QED BY <1>2, <2>5, <3>1 DEF Effect, Release
  <2>6. CASE Refuse(s, r)
    <3>1. Answered
      BY <1>2, <1>3, <2>6 DEF Refuse
    <3>2. board' = board /\ ran' = ran /\ (uart' = uart \/ uart' = <<>>) /\ holders' \subseteq holders
      BY <2>6 DEF Refuse, Release
    <3> QED BY <1>2, <3>1, <3>2 DEF Effect
  <2> QED BY <1>1, <2>1, <2>2, <2>3, <2>4, <2>5, <2>6 DEF Handle
<1>5. Takes(s) /\ Effect(s, Head(requests[s]))
  BY <1>1, <1>4 DEF Takes, r
<1> QED BY <1>5, TakeOrdered

(* What changes neither requests nor commands leaves the order alone. *)
LEMMA StandOrdered ==
  ASSUME CommandInv, Shape', UNCHANGED <<session, doing, awaiting, command, requests, ran>>,
         holders' \subseteq holders,
         \A t \in Sessions : /\ Len(responses'[t]) <= Len(responses[t])
                             /\ responses[t] = <<>> => responses'[t] = <<>>
                             /\ channel[t] = "none" <=> channel'[t] = "none"
  PROVE  CommandInv'
<1>1. OrderInv' /\ BoardOrder'
  BY DEF CommandInv, OrderInv, BoardOrder
<1>2. session \in 0..MaxSessions /\ (session # 0 => session \in Sessions)
  BY LinkAssumption DEF CommandInv, Shape, Sessions, LinkAssumption
<1>3. doing = "connect" => OneUnderWay(session)'
  <2> SUFFICES ASSUME doing = "connect"
               PROVE  OneUnderWay(session)'
    OBVIOUS
  <2>1. session # 0 /\ OneUnderWay(session)
    BY DEF CommandInv, SessionInv
  <2> DEFINE a == Len(requests[session])
             b == Len(responses[session])
             d == Len(responses'[session])
  <2>2. a \in Nat /\ b \in Nat /\ d \in Nat /\ a + b <= 1 /\ d <= b
    BY <1>2, <2>1 DEF OneUnderWay, CommandInv, Shape
  <2>3. OneUnderWay(session)' <=> a + d <= 1
    BY DEF OneUnderWay
  <2> HIDE DEF a, b, d
  <2> QED BY <2>2, <2>3
<1>4. SessionInv'
  BY <1>2, <1>3 DEF CommandInv, SessionInv
<1> QED BY <1>1, <1>4 DEF CommandInv

LEMMA ReleaseOrdered ==
  ASSUME CommandInv, NEW s \in Sessions, EndOfFile(s) \/ Die(s)
  PROVE  CommandInv'
<1>1. /\ Release(s) /\ UNCHANGED <<session, doing, awaiting, command, buffer, channel, requests,
                                     responses, board, ran>>
      /\ Shape
  BY DEF EndOfFile, Die, CommandInv
<1>2. /\ holders' \subseteq holders /\ uart' \in Seq(Items) /\ holders' \in SUBSET Sessions
      /\ \A t \in Sessions : Len(responses[t]) \in Nat
  <2>1. uart \in Seq(Items) /\ <<>> \in Seq(Items) /\ holders \in SUBSET Sessions
    BY <1>1 DEF Shape
  <2>2. holders' \subseteq holders /\ uart' \in Seq(Items)
    BY <1>1, <2>1 DEF Release
  <2> QED BY <1>1, <2>1, <2>2 DEF Shape
<1>3. Shape'
  BY <1>1, <1>2 DEF Shape
<1> QED BY <1>1, <1>2, <1>3, StandOrdered

LEMMA LoseLinkOrdered ==
  ASSUME CommandInv, NEW s \in Sessions, LoseLink(s)
  PROVE  CommandInv'
<1>1. PICK n \in 0..Len(responses[s]) : responses' = [responses EXCEPT ![s] = SubSeq(@, 1, n)]
  BY DEF LoseLink
<1> DEFINE q == responses[s]
           p == SubSeq(q, 1, n)
<1>2. /\ q \in Seq(Responses) /\ responses \in [Sessions -> Seq(Responses)] /\ Shape
      /\ responses' = [responses EXCEPT ![s] = p] /\ n \in 0..Len(q)
      /\ channel[s] = "open" /\ channel' = [channel EXCEPT ![s] = "closed"]
      /\ UNCHANGED <<session, doing, awaiting, command, buffer, requests>> /\ UNCHANGED world
      /\ channel \in [Sessions -> {"none", "open", "closed"}]
  BY <1>1 DEF CommandInv, Shape, LoseLink
<1> HIDE DEF q
<1>3. p \in Seq(Responses) /\ Len(p) = n /\ Len(q) \in Nat /\ (q = <<>> => p = <<>>)
  BY <1>2
<1> HIDE DEF p
<1>4. /\ responses' \in [Sessions -> Seq(Responses)] /\ responses'[s] = p
      /\ \A t \in Sessions : t # s => responses'[t] = responses[t]
      /\ \A t \in Sessions : Len(responses[t]) \in Nat
  BY <1>2, <1>3
<1>5. \A t \in Sessions : /\ Len(responses'[t]) <= Len(responses[t])
                          /\ responses[t] = <<>> => responses'[t] = <<>>
  <2> TAKE t \in Sessions
  <2>1. CASE t = s
    BY <1>2, <1>3, <1>4, <2>1 DEF q
  <2>2. CASE t # s
    BY <1>4, <2>2
  <2> QED BY <2>1, <2>2
<1>6. /\ channel' \in [Sessions -> {"none", "open", "closed"}]
      /\ \A t \in Sessions : channel[t] = "none" <=> channel'[t] = "none"
  BY <1>2
<1>7. Shape'
  BY <1>2, <1>4, <1>6 DEF Shape, world
<1> QED BY <1>2, <1>5, <1>6, <1>7, StandOrdered DEF world

LEMMA BoardPrintsOrdered ==
  ASSUME CommandInv, BoardPrints
  PROVE  CommandInv'
<1>1. /\ UNCHANGED <<session, doing, awaiting, command, buffer, channel, requests, responses,
                      holders, ran>>
      /\ board \in Seq(Items) /\ board # <<>> /\ uart \in Seq(Items) /\ Shape
      /\ board' = Tail(board)
      /\ uart' = (IF holders # {} THEN Append(uart, Head(board)) ELSE uart)
  BY DEF BoardPrints, CommandInv, Shape
<1>2. board' \in Seq(Items) /\ uart' \in Seq(Items)
  BY <1>1
<1>3. Shape' /\ \A t \in Sessions : Len(responses[t]) \in Nat
  BY <1>1, <1>2 DEF Shape
<1> QED BY <1>1, <1>3, StandOrdered

(* Every step, and the theorem. *)
LEMMA CommandStep ==
  ASSUME CommandInv, [Next]_vars
  PROVE  CommandInv'
<1>1. CASE Next
  <2>1. CASE ClientStep
    BY <2>1, ConnectOrdered, ExecuteOrdered, CloseOrdered, ReceiveOrdered, FailureOrdered
       DEF ClientStep
  <2>2. CASE \E s \in Sessions : StandStep(s)
    BY <2>2, ServeOrdered, ReleaseOrdered, LoseLinkOrdered DEF StandStep
  <2>3. CASE BoardPrints
    BY <2>3, BoardPrintsOrdered
  <2> QED BY <1>1, <2>1, <2>2, <2>3 DEF Next
<1>2. CASE UNCHANGED vars
  <2>1. /\ UNCHANGED <<session, doing, awaiting, command, buffer, channel>>
        /\ UNCHANGED <<requests, responses, holders, uart, board, ran>>
    BY <1>2 DEF vars
  <2>2. Shape' /\ BoardOrder'
    BY <2>1 DEF CommandInv, Shape, BoardOrder
  <2>3. OrderInv' /\ SessionInv'
    BY <2>1 DEF CommandInv, OrderInv, SessionInv, OneUnderWay
  <2> QED BY <2>2, <2>3 DEF CommandInv
<1> QED BY <1>1, <1>2

LEMMA CommandInit == Init => CommandInv
<1> SUFFICES ASSUME Init
             PROVE  CommandInv
  OBVIOUS
<1>1. Shape
  <2>1. /\ 0 \in 0..MaxSessions /\ 0 \in 0..MaxCommands
        /\ <<>> \in Seq(Items) /\ <<>> \in Seq(Requests) /\ <<>> \in Seq(Responses)
        /\ <<>> \in Seq(Commands)
    BY LinkAssumption DEF LinkAssumption
  <2> QED BY <2>1 DEF Init, Shape
<1>2. \A s \in Sessions : requests[s] = <<>> /\ responses[s] = <<>>
  BY DEF Init
<1>3. OrderInv
  <2>1. \A s \in Sessions : Writes(requests[s]) = {}
    BY <1>2, NoRequest
  <2>2. holders = {} /\ ran = <<>> /\ 1..Len(ran) = {}
    BY DEF Init
  <2> QED BY <2>1, <2>2 DEF OrderInv
<1>4. SessionInv
  BY <1>2 DEF Init, SessionInv
<1>5. BoardOrder
  BY DEF Init, BoardOrder
<1> QED BY <1>1, <1>3, <1>4, <1>5 DEF CommandInv

(* Commands reach the board in the order in which they were submitted,     *)
(* whatever timed out, broke or reconnected in between: an agent that an   *)
(* abandoned session leaves behind either lost the device or never wrote.  *)
THEOREM CommandsInOrder == Spec => []BoardOrder
<1>1. CommandInv => BoardOrder
  BY DEF CommandInv
<1> QED BY CommandInit, CommandStep, <1>1, PTL DEF Spec
------------------------------------------------------------------------------
(* The client and the step of the link.                                    *)

(* The inductive invariant of ReturnsInStep. *)
LinkInv == CommandInv /\ StepInv

LEMMA ClientKnown ==
  ASSUME LinkInv, Consumes, UNCHANGED responses \/ session # 0, UNCHANGED world,
         command' \in Nat, command' >= command
  PROVE  KnownInv'
<1>0. command \in Nat /\ 0..command \subseteq 0..command' /\ Shape /\ KnownInv
  <2>1. command \in Nat /\ Shape /\ KnownInv
    BY DEF LinkInv, StepInv, CommandInv, Shape
  <2> QED BY <2>1
<1>1. Sources(board') \cup Sources(uart') \subseteq 0..command'
  BY <1>0 DEF KnownInv, world
<1>2. CASE UNCHANGED responses
  BY <1>0, <1>1, <1>2 DEF KnownInv
<1>3. CASE /\ session # 0 /\ responses[session] # <<>>
           /\ responses' = [responses EXCEPT ![session] = Tail(@)]
  <2> DEFINE q == responses[session]
  <2>1. /\ session \in Sessions /\ q \in Seq(Responses) /\ q # <<>>
        /\ responses'[session] = Tail(q)
        /\ \A s \in Sessions : s # session => responses'[s] = responses[s]
    BY <1>0, <1>3, LinkAssumption DEF Shape, Sessions, LinkAssumption
  <2> HIDE DEF q
  <2>2. \A i \in 1..Len(Tail(q)) : i + 1 \in 1..Len(q) /\ Tail(q)[i] = q[i + 1]
    BY <2>1, ResponseTaken
  <2>3. \A i \in 1..Len(q) : Sources(q[i].data) \subseteq 0..command'
    BY <1>0, <2>1 DEF KnownInv, q
  <2>4. ASSUME NEW s \in Sessions, NEW i \in 1..Len(responses'[s])
        PROVE  Sources(responses'[s][i].data) \subseteq 0..command'
    <3>1. CASE s = session
      BY <2>1, <2>2, <2>3, <3>1
    <3>2. CASE s # session
      BY <1>0, <2>1, <3>2 DEF KnownInv
    <3> QED BY <3>1, <3>2
  <2> QED BY <1>1, <2>4 DEF KnownInv
<1> QED BY <1>2, <1>3 DEF Consumes

(* A step after which no command is being executed. *)
LEMMA ClientLeaves ==
  ASSUME LinkInv, CommandInv', Consumes, UNCHANGED responses \/ session # 0, UNCHANGED world,
         UNCHANGED command, doing' # "execute"
  PROVE  LinkInv'
<1>1. command \in Nat
  BY DEF LinkInv, CommandInv, Shape
<1>2. KnownInv'
  BY <1>1, ClientKnown
<1> QED BY <1>2 DEF LinkInv, StepInv, WriteInv, AnswerInv

LEMMA RaiseLeaves ==
  ASSUME LinkInv, Raise
  PROVE  doing' # "execute" /\ session # 0
<1>1. doing # "idle" /\ doing' # "execute"
  BY DEF Raise, Hangup
<1> QED BY <1>1 DEF LinkInv, CommandInv, SessionInv

LEMMA ExecuteInStep ==
  ASSUME LinkInv, Execute
  PROVE  LinkInv'
<1>0. CommandInv'
  BY ExecuteOrdered DEF LinkInv
<1> DEFINE c == command + 1
           s == session
<1>1. /\ command \in Nat /\ c \in 0..MaxCommands /\ s \in Sessions /\ Shape
      /\ command' = c /\ UNCHANGED <<session, responses>> /\ UNCHANGED world
      /\ buffer' = <<>> /\ Send(s, "write", c)
  <2>1. /\ command' = c /\ UNCHANGED <<session, responses>> /\ UNCHANGED world /\ Shape
        /\ buffer' = <<>> /\ Send(s, "write", c) /\ command < MaxCommands /\ session # 0
    BY DEF Execute, LinkInv, CommandInv
  <2>2. command \in Nat /\ c \in 0..MaxCommands /\ s \in Sessions
    BY <2>1, LinkAssumption DEF Shape, Sessions, LinkAssumption
  <2> QED BY <2>1, <2>2
<1>2. KnownInv'
  BY <1>1, ClientKnown DEF Consumes
<1>3. /\ awaiting' = "write" /\ Len(requests'[s]) = Len(requests[s]) + 1
      /\ \A t \in Sessions : t # s => requests'[t] = requests[t]
      /\ \A i \in Writes(requests'[s]) :
            \/ i \in Writes(requests[s]) /\ requests'[s][i] = requests[s][i]
            \/ i = Len(requests[s]) + 1
  <2> DEFINE k == "write"
  <2>1. k = "write" /\ k \in RequestKinds /\ Send(s, k, c)
    BY <1>1 DEF RequestKinds
  <2> HIDE DEF k, s, c
  <2> QED BY <1>1, <2>1, SendFacts
<1>4. \A t \in Sessions : \A i \in Writes(requests[t]) : requests[t][i].cmd # c
  <2> TAKE t \in Sessions
  <2> TAKE i \in Writes(requests[t])
  <2>1. requests[t][i].cmd <= command /\ requests[t][i].cmd \in 0..MaxCommands
    BY <1>1, RequestTypes DEF LinkInv, CommandInv, OrderInv
  <2> QED BY <1>1, <2>1
<1>5. WriteInv'
  <2>1. command' # 0
    BY <1>1
  <2>2. ASSUME NEW t \in Sessions, NEW i \in Writes(requests'[t]), requests'[t][i].cmd = c
        PROVE  t = s /\ i = Len(requests'[t])
    BY <1>3, <1>4, <2>2
  <2> QED BY <1>1, <1>3, <2>1, <2>2 DEF WriteInv
<1>6. AnswerInv'
  <2>1. c \notin 0..command
    BY <1>1
  <2>2. c \notin Sources(board) \cup Sources(uart) /\ Unheard(s, c, Len(responses[s]))
    BY <1>1, <2>1 DEF LinkInv, StepInv, KnownInv, Unheard
  <2>3. Unanswered(session, command)'
    BY <1>1, <2>2 DEF Unanswered, Unheard, world
  <2> QED BY <1>1, <2>3, NoSource DEF AnswerInv
<1> QED BY <1>0, <1>2, <1>5, <1>6 DEF LinkInv, StepInv

(* While the link is out of step, a response the client takes is none of   *)
(* its command's, and the answer to its write is still to come.            *)
LEMMA TakesAnother ==
  ASSUME LinkInv, doing = "execute", responses[session] # <<>>,
         responses' = [responses EXCEPT ![session] = Tail(@)],
         Fits(Head(responses[session])), ~(awaiting = "read" /\ OneUnderWay(session))
  PROVE  /\ awaiting = "read" => command \notin Sources(Head(responses[session]).data)
         /\ command \notin Sources(buffer)
         /\ UNCHANGED <<session, command, channel>> /\ UNCHANGED world /\ awaiting' = "read" =>
               \/ Unanswered(session, command)'
               \/ awaiting = "write" /\ requests[session] = <<>> /\ responses'[session] = <<>>
<1> DEFINE q == responses[session]
           t == Tail(q)
<1>1. session \in Sessions /\ Shape /\ awaiting \in {"write", "read"}
  <2>1. session # 0 /\ Shape /\ awaiting \in {"write", "read"}
    BY DEF LinkInv, CommandInv, SessionInv, StepInv, WriteInv
  <2> QED BY <2>1, LinkAssumption DEF Shape, Sessions, LinkAssumption
<1>2. q \in Seq(Responses) /\ q # <<>> /\ responses'[session] = t
  BY <1>1 DEF Shape
<1>3. command \notin Sources(buffer) /\ Unanswered(session, command)
  BY DEF LinkInv, StepInv, AnswerInv
<1> HIDE DEF q
<1>4. /\ Len(q) \in Nat \ {0} /\ Len(t) = Len(q) - 1 /\ Head(q) = q[1] /\ 1 \in 1..Len(q)
      /\ \A i \in 1..Len(t) : i \in Nat \ {0} /\ i + 1 \in 1..Len(q) /\ t[i] = q[i + 1]
      /\ t \in Seq(Responses)
  BY <1>2, ResponseTaken
<1> HIDE DEF t
<1> DEFINE Steady == UNCHANGED <<session, command, channel>> /\ UNCHANGED world /\ awaiting' = "read"
<1>5. CASE /\ Unheard(session, command, Len(q))
           /\ \/ command \notin Sources(board) \cup Sources(uart)
              \/ channel[session] # "open"
  <2>1. \A j \in 1..Len(q) : command \notin Sources(q[j].data)
    BY <1>5 DEF Unheard, q
  <2>2. \A j \in 1..Len(t) : command \notin Sources(t[j].data)
    BY <1>4, <2>1
  <2>3. Steady => Unheard(session, command, Len(responses[session]))'
    BY <1>2, <2>2 DEF Unheard
  <2>4. Steady => Unanswered(session, command)'
    BY <1>5, <2>3 DEF Unanswered, world
  <2> QED BY <1>3, <1>4, <2>1, <2>4 DEF q
<1>6. CASE \E p \in 1..Len(q) :
             /\ q[p].kind = "written"
             /\ Unheard(session, command, p - 1)
             /\ awaiting = "write" => p = Len(q) /\ requests[session] = <<>>
  <2>1. PICK p \in 1..Len(q) :
             /\ q[p].kind = "written"
             /\ Unheard(session, command, p - 1)
             /\ awaiting = "write" => p = Len(q) /\ requests[session] = <<>>
    BY <1>6
  <2>2. \A j \in 1..(p - 1) : command \notin Sources(q[j].data)
    BY <2>1 DEF Unheard, q
  <2>3. awaiting = "read" => p # 1
    BY <1>4, <2>1 DEF Fits, q
  <2>4. CASE p = 1
    <3>1. awaiting = "write" /\ Len(q) = 1 /\ requests[session] = <<>>
      BY <1>1, <2>1, <2>3, <2>4
    <3>2. t = <<>>
      BY <1>4, <3>1
    <3> QED BY <1>2, <1>3, <3>1, <3>2
  <2>5. CASE p # 1
    <3>1. /\ p - 1 \in 1..Len(t) /\ t[p - 1] = q[p] /\ 1 \in 1..(p - 1)
          /\ \A j \in 1..(p - 2) : j \in 1..Len(t) /\ j + 1 \in 1..(p - 1) /\ t[j] = q[j + 1]
      <4>1. p \in Nat /\ p >= 2 /\ p <= Len(q)
        BY <1>4, <2>5
      <4>2. p - 1 \in 1..Len(t) /\ (p - 1) + 1 = p /\ 1 \in 1..(p - 1)
        BY <1>4, <4>1
      <4>3. \A j \in 1..(p - 2) : j \in 1..Len(t) /\ j + 1 \in 1..(p - 1)
        BY <1>4, <4>1
      <4> QED BY <1>4, <4>2, <4>3
    <3> DEFINE n == p - 1
    <3>2. n \in 1..Len(t) /\ t[n].kind = "written" /\ n - 1 = p - 2
      BY <1>4, <2>1, <3>1
    <3>3. \A j \in 1..(n - 1) : command \notin Sources(t[j].data)
      BY <2>2, <3>1, <3>2
    <3> HIDE DEF n
    <3>4. Steady => Unheard(session, command, n - 1)'
      BY <1>2, <3>3 DEF Unheard
    <3>5. Steady => Unanswered(session, command)'
      <4> SUFFICES ASSUME Steady
                   PROVE  Unanswered(session, command)'
        OBVIOUS
      <4>1. /\ n \in 1..Len(responses'[session']) /\ responses'[session'][n].kind = "written"
            /\ Unheard(session, command, n - 1)' /\ awaiting' # "write"
        BY <1>2, <3>2, <3>4
      <4> QED BY <4>1 DEF Unanswered
    <3>6. command \notin Sources(Head(q).data)
      BY <1>4, <2>2, <3>1
    <3> QED BY <1>3, <3>5, <3>6 DEF q
  <2> QED BY <2>4, <2>5
<1> QED BY <1>3, <1>5, <1>6 DEF Unanswered, q

LEMMA ReceiveInStep ==
  ASSUME LinkInv, Receive
  PROVE  LinkInv'
<1> DEFINE r == Head(responses[session])
           m == IF awaiting = "read" THEN r ELSE [r EXCEPT !.data = <<>>]
<1>0. CommandInv'
  BY ReceiveOrdered DEF LinkInv
<1>1. awaiting # "none" /\ doing # "idle" /\ session # 0 /\ session \in Sessions /\ Shape
  <2>1. awaiting # "none"
    BY DEF Receive
  <2>2. doing # "idle" /\ session # 0 /\ Shape
    BY <2>1 DEF LinkInv, CommandInv, SessionInv
  <2>3. session \in 0..MaxSessions
    BY <2>2 DEF Shape
  <2>4. session \in Sessions
    BY <2>2, <2>3, LinkAssumption DEF Sessions, LinkAssumption
  <2> QED BY <2>1, <2>2, <2>4
<1>2. /\ Consumes /\ UNCHANGED world /\ UNCHANGED command /\ responses[session] # <<>>
      /\ responses' = [responses EXCEPT ![session] = Tail(@)]
  BY DEF Receive, Consumes
<1>3. CASE doing' # "execute"
  BY <1>0, <1>1, <1>2, <1>3, ClientLeaves
<1>4. CASE doing' = "execute"
  <2>1. Fits(r) /\ Proceed(m)
    BY <1>4 DEF Receive, Raise, Hangup
  <2>2. doing = "execute" /\ awaiting \in {"write", "read"} /\ UNCHANGED <<session, channel>>
    <3>1. doing = "execute" /\ UNCHANGED <<session, channel>>
      BY <1>4, <2>1 DEF Proceed
    <3> QED BY <3>1 DEF LinkInv, StepInv, WriteInv
  <2>3. Send(session, "read", 0)
    BY <1>4, <2>1, <2>2 DEF Proceed
  <2>4. /\ awaiting = "write" => buffer' = buffer
        /\ awaiting = "read" => buffer' = buffer \o r.data
    BY <2>1 DEF Proceed
  <2>5. /\ awaiting' = "read" /\ Len(requests'[session]) = Len(requests[session]) + 1
        /\ \A s \in Sessions : s # session => requests'[s] = requests[s]
        /\ \A i \in Writes(requests'[session]) :
              i \in Writes(requests[session]) /\ requests'[session][i] = requests[session][i]
    <3> DEFINE k == "read"
               z == 0
    <3>1. /\ k = "read" /\ k \in RequestKinds /\ k # "write" /\ Send(session, k, z)
          /\ z \in 0..MaxCommands
      BY <2>3, LinkAssumption DEF RequestKinds, LinkAssumption
    <3> HIDE DEF k, z
    <3> QED BY <1>1, <3>1, SendFacts
  <2>6. KnownInv'
    <3>1. command \in Nat
      BY <1>1 DEF Shape
    <3> QED BY <1>1, <1>2, <3>1, ClientKnown
  <2>7. WriteInv'
    BY <1>2, <2>2, <2>5 DEF LinkInv, StepInv, WriteInv
  <2>8. ASSUME requests[session] = <<>>, responses'[session] = <<>>
        PROVE  AnswerInv'
    <3>1. Len(requests'[session]) = 1 /\ Len(responses'[session]) = 0
      BY <2>5, <2>8
    <3>2. OneUnderWay(session)'
      BY <2>2, <3>1 DEF OneUnderWay
    <3> QED BY <2>5, <3>2 DEF AnswerInv
  <2>9. CASE awaiting = "read" /\ OneUnderWay(session)
    <3> DEFINE a == Len(requests[session])
               q == responses[session]
               b == Len(q)
    <3>1. a \in Nat /\ q \in Seq(Responses) /\ q # <<>> /\ a + b <= 1 /\ requests[session] \in Seq(Requests)
          /\ responses'[session] = Tail(q)
      BY <1>1, <1>2, <2>9, RequestTypes DEF Shape, OneUnderWay
    <3>2. b \in Nat /\ b >= 1
      BY <3>1
    <3>3. a = 0 /\ b = 1
      <4> HIDE DEF a, b
      <4> QED BY <3>1, <3>2
    <3>4. requests[session] = <<>>
      BY <3>1, <3>3
    <3>5. Tail(q) = <<>>
      <4> HIDE DEF q
      <4> QED BY <3>1, <3>3
    <3> QED BY <2>6, <2>7, <2>8, <3>1, <3>4, <3>5, <1>0 DEF LinkInv, StepInv
  <2>10. CASE ~(awaiting = "read" /\ OneUnderWay(session))
    <3>1. /\ awaiting = "read" => command \notin Sources(r.data)
          /\ command \notin Sources(buffer)
          /\ \/ Unanswered(session, command)'
             \/ awaiting = "write" /\ requests[session] = <<>> /\ responses'[session] = <<>>
      BY <1>2, <2>1, <2>2, <2>5, <2>10, TakesAnother
    <3>2. command \notin Sources(buffer')
      <4>1. CASE awaiting = "write"
        BY <2>4, <3>1, <4>1
      <4>2. CASE awaiting = "read"
        <5> DEFINE d == r.data
        <5>1. responses[session] \in Seq(Responses) /\ buffer \in Seq(Items)
          BY <1>1 DEF Shape
        <5>2. d \in Seq(Items) /\ buffer' = buffer \o d
          BY <1>2, <2>4, <4>2, <5>1, TextReceived
        <5> HIDE DEF d
        <5>3. Sources(buffer \o d) \subseteq Sources(buffer) \cup Sources(d)
          BY <5>1, <5>2, JoinedSources
        <5> QED BY <3>1, <4>2, <5>2, <5>3 DEF d
      <4> QED BY <2>2, <4>1, <4>2
    <3>3. AnswerInv'
      BY <1>2, <2>8, <3>1, <3>2 DEF AnswerInv
    <3> QED BY <1>0, <2>6, <2>7, <3>3 DEF LinkInv, StepInv
  <2> QED BY <2>9, <2>10
<1> QED BY <1>3, <1>4

LEMMA ClientInStep ==
  ASSUME LinkInv, ClientStep
  PROVE  LinkInv'
<1>1. CASE \E s \in Sessions : Connect(s)
  <2>1. PICK s \in Sessions : Connect(s)
    BY <1>1
  <2>2. CommandInv'
    BY <2>1, ConnectOrdered DEF LinkInv
  <2>3. Consumes /\ UNCHANGED <<responses, command>> /\ UNCHANGED world /\ doing' # "execute"
    BY <2>1 DEF Connect, Consumes
  <2> QED BY <2>2, <2>3, ClientLeaves
<1>2. CASE Execute
  BY <1>2, ExecuteInStep
<1>3. CASE Close
  <2>1. CommandInv'
    BY <1>3, CloseOrdered DEF LinkInv
  <2>2. Consumes /\ UNCHANGED <<responses, command>> /\ UNCHANGED world /\ doing' # "execute"
    BY <1>3 DEF Close, Consumes
  <2> QED BY <2>1, <2>2, ClientLeaves
<1>4. CASE Receive
  BY <1>4, ReceiveInStep
<1>5. CASE TimeOut \/ SeeEnd \/ GiveUp
  <2>1. CommandInv'
    BY <1>5, FailureOrdered DEF LinkInv
  <2>2. Consumes /\ UNCHANGED command /\ UNCHANGED world /\ Raise
    BY <1>5 DEF TimeOut, SeeEnd, GiveUp, Consumes
  <2> QED BY <2>1, <2>2, RaiseLeaves, ClientLeaves
<1> QED BY <1>1, <1>2, <1>3, <1>4, <1>5 DEF ClientStep

------------------------------------------------------------------------------
(* The stand and the step of the link.                                     *)

(* What the request r of s does to the port and the board, and the kind    *)
(* and the data of its answer.                                             *)
Outcome(s, r, kind, data) ==
    \/ r.kind # "close" /\ data = <<>> /\ UNCHANGED <<agent, holders, uart, board>>
    \/ /\ r.kind = "open" /\ holders = {} /\ holders' = {s}
       /\ uart' = <<>> /\ data = <<>> /\ UNCHANGED <<agent, board>>
    \/ /\ r.kind = "write" /\ kind = "written" /\ s \in holders
       /\ board' = board \o Printed(r.cmd) /\ data = <<>> /\ UNCHANGED <<agent, holders, uart>>
    \/ /\ r.kind = "read" /\ kind = "data" /\ s \in holders
       /\ uart' = <<>> /\ data = uart /\ UNCHANGED <<agent, holders, board>>
    \/ /\ r.kind = "close" /\ Release(s) /\ data = <<>> /\ UNCHANGED board
       /\ \/ agent' = [agent EXCEPT ![s] = "exited"]
          \/ kind = "error" /\ UNCHANGED agent

(* The agent of s has handled r and answered a, unless nobody can hear it. *)
Serves(s, r, a) ==
    /\ UNCHANGED <<session, doing, awaiting, command, buffer, channel>>
    /\ requests' = [requests EXCEPT ![s] = Tail(@)]
    /\ \A t \in Sessions : t # s => responses'[t] = responses[t]
    /\ \/ channel[s] # "open" /\ responses'[s] = responses[s]
       \/ channel[s] = "open" /\ responses'[s] = Append(responses[s], a)
    /\ Outcome(s, r, a.kind, a.data)

LEMMA ServeSummary ==
  ASSUME CommandInv, NEW s \in Sessions, Serve(s)
  PROVE  \E a \in Responses : Serves(s, Head(requests[s]), a)
<1> DEFINE r == Head(requests[s])
<1>1. /\ Shape /\ requests[s] # <<>> /\ Handle(s, r) /\ r \in Requests
      /\ requests' = [requests EXCEPT ![s] = Tail(@)]
      /\ UNCHANGED <<session, doing, awaiting, command, buffer, channel>>
  BY DEF CommandInv, Serve, Shape
<1>2. /\ 0 \in 0..MaxCommands /\ <<>> \in Seq(Items) /\ r.cmd \in 0..MaxCommands
      /\ uart \in Seq(Items)
  BY <1>1, LinkAssumption DEF LinkAssumption, Requests, Shape
<1> HIDE DEF r
<1> DEFINE Served == \E a \in Responses : Serves(s, r, a)
<1>3. ASSUME NEW kind \in {"version", "ok", "written", "data", "error"},
             NEW c \in 0..MaxCommands, NEW data \in Seq(Items), Answer(s, kind, c, data),
             Outcome(s, r, kind, data)
      PROVE  Served
  <2> DEFINE a == [kind |-> kind, cmd |-> c, data |-> data]
  <2>1. a \in Responses /\ a.kind = kind /\ a.data = data
    BY DEF Responses
  <2>2. /\ \A t \in Sessions : t # s => responses'[t] = responses[t]
        /\ \/ channel[s] # "open" /\ responses'[s] = responses[s]
           \/ channel[s] = "open" /\ responses'[s] = Append(responses[s], a)
    BY <1>1, <1>3, AnswerFacts
  <2> HIDE DEF a
  <2>3. Serves(s, r, a)
    BY <1>1, <1>3, <2>1, <2>2 DEF Serves
  <2> QED BY <2>1, <2>3
<1> SUFFICES Served
  BY DEF r
<1> HIDE DEF Served
<1> DEFINE e == <<>>
           z == 0
<1>4. e \in Seq(Items) /\ z \in 0..MaxCommands
  BY <1>2
<1>5. CASE r.kind = "hello" /\ Answer(s, "version", z, e) /\ UNCHANGED <<agent, world>>
  <2> DEFINE k == "version"
  <2>1. k \in {"version", "ok", "written", "data", "error"} /\ Answer(s, k, z, e)
    BY <1>5
  <2>2. Outcome(s, r, k, e)
    BY <1>5 DEF Outcome, world
  <2> HIDE DEF k, e, z
  <2> QED BY <1>3, <1>4, <2>1, <2>2
<1>6. CASE /\ r.kind = "open" /\ Free /\ holders' = holders \cup {s} /\ uart' = e
           /\ Answer(s, "ok", z, e) /\ UNCHANGED <<agent, board, ran>>
  <2> DEFINE k == "ok"
  <2>1. k \in {"version", "ok", "written", "data", "error"} /\ Answer(s, k, z, e)
    BY <1>6
  <2>2. Outcome(s, r, k, e)
    BY <1>6 DEF Outcome, Free
  <2> HIDE DEF k, e, z
  <2> QED BY <1>3, <1>4, <2>1, <2>2
<1>7. CASE /\ r.kind = "write" /\ s \in holders /\ board' = board \o Printed(r.cmd)
           /\ Answer(s, "written", r.cmd, e) /\ UNCHANGED <<agent, holders, uart>>
  <2> DEFINE k == "written"
             c == r.cmd
  <2>1. /\ k \in {"version", "ok", "written", "data", "error"} /\ c \in 0..MaxCommands
        /\ Answer(s, k, c, e)
    BY <1>2, <1>7
  <2>2. Outcome(s, r, k, e)
    BY <1>7 DEF Outcome
  <2> HIDE DEF k, c, e
  <2> QED BY <1>3, <1>4, <2>1, <2>2
<1>8. CASE /\ r.kind = "read" /\ s \in holders /\ uart' = e /\ Answer(s, "data", z, uart)
           /\ UNCHANGED <<agent, holders, board, ran>>
  <2> DEFINE k == "data"
  <2>1. k \in {"version", "ok", "written", "data", "error"} /\ Answer(s, k, z, uart)
    BY <1>8
  <2>2. Outcome(s, r, k, uart)
    BY <1>8 DEF Outcome
  <2> HIDE DEF k, e, z
  <2> QED BY <1>2, <1>3, <1>4, <2>1, <2>2
<1>9. CASE /\ r.kind = "close" /\ Release(s) /\ Answer(s, "ok", z, e)
           /\ agent' = [agent EXCEPT ![s] = "exited"] /\ UNCHANGED <<board, ran>>
  <2> DEFINE k == "ok"
  <2>1. k \in {"version", "ok", "written", "data", "error"} /\ Answer(s, k, z, e)
    BY <1>9
  <2>2. Outcome(s, r, k, e)
    BY <1>9 DEF Outcome
  <2> HIDE DEF k, e, z
  <2> QED BY <1>3, <1>4, <2>1, <2>2
<1>10. CASE Refuse(s, r)
  <2> DEFINE k == "error"
  <2>1. k \in {"version", "ok", "written", "data", "error"} /\ Answer(s, k, z, e)
    BY <1>10 DEF Refuse
  <2>2. Outcome(s, r, k, e)
    BY <1>10 DEF Outcome, Refuse, world
  <2> HIDE DEF k, e, z
  <2> QED BY <1>3, <1>4, <2>1, <2>2
<1> QED BY <1>1, <1>5, <1>6, <1>7, <1>8, <1>9, <1>10 DEF Handle

(* An answer holds what was read from the board, and the board has more to *)
(* print only after a write that is answered as such.                      *)
LEMMA OutcomeSources ==
  ASSUME Shape, NEW s, NEW r \in Requests, NEW kind, NEW data, Outcome(s, r, kind, data)
  PROVE  /\ Sources(uart') \cup Sources(data) \subseteq Sources(uart)
         /\ \/ board' = board
            \/ /\ r.kind = "write" /\ kind = "written"
               /\ Sources(board') \subseteq Sources(board) \cup {r.cmd}
<1>1. Sources(uart') \cup Sources(data) \subseteq Sources(uart)
  BY NoSource DEF Outcome, Release
<1>2. CASE r.kind = "write" /\ kind = "written" /\ board' = board \o Printed(r.cmd)
  <2> DEFINE p == Printed(r.cmd)
  <2>1. r.cmd \in 0..MaxCommands /\ board \in Seq(Items)
    BY DEF Requests, Shape
  <2>2. p \in Seq(Items) /\ Sources(p) \subseteq {r.cmd} /\ board' = board \o p
    BY <1>2, <2>1, PrintedSources
  <2> HIDE DEF p
  <2>3. Sources(board') \subseteq Sources(board) \cup {r.cmd}
    BY <2>1, <2>2, JoinedSources
  <2> QED BY <1>1, <1>2, <2>3
<1>3. CASE board' = board
  BY <1>1, <1>3
<1> QED BY <1>2, <1>3 DEF Outcome

(* A step that leaves the link of the session in use as it is, and that    *)
(* brings nothing of its command to the board.                             *)
LEMMA StandQuiet ==
  ASSUME LinkInv, CommandInv', KnownInv', WriteInv',
         UNCHANGED <<session, doing, awaiting, command, buffer>>,
         session \in Sessions => /\ requests'[session] = requests[session]
                                 /\ responses'[session] = responses[session]
                                 /\ channel'[session] = channel[session],
         doing = "execute" =>
            (Sources(board') \cup Sources(uart')) \ (Sources(board) \cup Sources(uart))
               \subseteq 0..MaxCommands \ {command}
  PROVE  LinkInv'
<1> SUFFICES ASSUME doing = "execute"
             PROVE  AnswerInv'
  BY DEF LinkInv, StepInv, AnswerInv
<1>1. session \in Sessions
  <2>1. session # 0 /\ session \in 0..MaxSessions
    BY DEF LinkInv, CommandInv, SessionInv, Shape
  <2> QED BY <2>1, LinkAssumption DEF Sessions, LinkAssumption
<1>2. CASE awaiting = "read" /\ OneUnderWay(session)
  BY <1>1, <1>2 DEF AnswerInv, OneUnderWay
<1>3. CASE command \notin Sources(buffer) /\ Unanswered(session, command)
  <2>1. Unanswered(session, command)'
    BY <1>1, <1>3 DEF Unanswered, Unheard
  <2> QED BY <1>3, <2>1 DEF AnswerInv
<1> QED BY <1>2, <1>3 DEF LinkInv, StepInv, AnswerInv

LEMMA ServeInStep ==
  ASSUME LinkInv, NEW s \in Sessions, Serve(s)
  PROVE  LinkInv'
<1> DEFINE q == requests[s]
           r == Head(q)
<1>0. CommandInv'
  BY ServeOrdered DEF LinkInv
<1>1. PICK a \in Responses : Serves(s, r, a)
  BY ServeSummary DEF LinkInv
<1>2. q \in Seq(Requests) /\ q # <<>> /\ Shape /\ KnownInv /\ WriteInv /\ command \in Nat
  BY DEF LinkInv, CommandInv, Shape, StepInv, Serve
<1>3. requests'[s] = Tail(q) /\ \A t \in Sessions : t # s => requests'[t] = requests[t]
  BY <1>1, <1>2 DEF Shape, Serves
<1>4. /\ UNCHANGED <<session, doing, awaiting, command, buffer, channel>>
      /\ \A t \in Sessions : t # s => responses'[t] = responses[t]
      /\ \/ channel[s] # "open" /\ responses'[s] = responses[s]
         \/ channel[s] = "open" /\ responses'[s] = Append(responses[s], a)
      /\ Sources(uart') \cup Sources(a.data) \subseteq Sources(uart)
      /\ \/ board' = board
         \/ /\ r.kind = "write" /\ a.kind = "written"
            /\ Sources(board') \subseteq Sources(board) \cup {r.cmd}
  <2>1. r \in Requests /\ Outcome(s, r, a.kind, a.data)
    BY <1>1, <1>2, RequestTaken DEF Serves
  <2>2. /\ Sources(uart') \cup Sources(a.data) \subseteq Sources(uart)
        /\ \/ board' = board
           \/ /\ r.kind = "write" /\ a.kind = "written"
              /\ Sources(board') \subseteq Sources(board) \cup {r.cmd}
    <3> HIDE DEF r
    <3> QED BY <1>2, <2>1, OutcomeSources
  <2> QED BY <1>1, <2>2 DEF Serves
<1> HIDE DEF q
<1>5. /\ r \in Requests /\ r = q[1] /\ Len(q) \in Nat \ {0} /\ Len(Tail(q)) = Len(q) - 1
      /\ \A i \in Writes(Tail(q)) : i \in Nat \ {0} /\ i + 1 \in Writes(q) /\ Tail(q)[i] = q[i + 1]
      /\ r.kind = "write" /\ r.cmd # 0 => 1 \in Writes(q)
  BY <1>2, RequestTaken
<1> HIDE DEF r
<1>6. r.kind = "write" => r.cmd \in 0..command
  <2>1. r.cmd \in 0..MaxCommands
    BY <1>5 DEF Requests
  <2>2. r.kind = "write" /\ r.cmd # 0 => r.cmd <= command
    BY <1>5 DEF LinkInv, CommandInv, OrderInv, q
  <2> QED BY <1>2, <2>1, <2>2
<1> DEFINE p == responses[s]
<1>7. p \in Seq(Responses) /\ Len(p) \in Nat
  BY <1>2 DEF Shape
<1>8. KnownInv'
  <2>1. Sources(board') \cup Sources(uart') \subseteq 0..command
    BY <1>2, <1>4, <1>6 DEF KnownInv
  <2>2. ASSUME NEW t \in Sessions, NEW i \in 1..Len(responses'[t])
        PROVE  Sources(responses'[t][i].data) \subseteq 0..command
    <3>1. CASE responses'[t] = responses[t]
      BY <1>2, <3>1 DEF KnownInv
    <3>2. CASE t = s /\ responses'[s] = Append(p, a)
      <4>1. \A j \in 1..Len(p) : Sources(p[j].data) \subseteq 0..command
        BY <1>2 DEF KnownInv
      <4>2. Sources(a.data) \subseteq 0..command
        BY <1>2, <1>4 DEF KnownInv
      <4>3. i \in 1..Len(Append(p, a))
        BY <3>2
      <4> HIDE DEF p
      <4>4. (i \in 1..Len(p) /\ Append(p, a)[i] = p[i]) \/ Append(p, a)[i] = a
        BY <1>7, <4>3
      <4> QED BY <3>2, <4>1, <4>2, <4>4
    <3> QED BY <1>4, <3>1, <3>2
  <2> QED BY <1>4, <2>1, <2>2 DEF KnownInv
<1>9. WriteInv'
  <2> SUFFICES ASSUME doing = "execute", NEW t \in Sessions, NEW i \in Writes(requests'[t]),
                      requests'[t][i].cmd = command
               PROVE  t = session /\ (awaiting = "write" => i = Len(requests'[t]))
    BY <1>2, <1>4 DEF WriteInv
  <2>1. CASE t # s
    BY <1>2, <1>3, <2>1 DEF WriteInv
  <2>2. CASE t = s
    <3>1. /\ i \in Nat /\ i + 1 \in Writes(requests[s]) /\ requests[s][i + 1].cmd = command
          /\ Len(requests'[t]) = Len(q) - 1 /\ Len(q) \in Nat
      BY <1>3, <1>5, <2>2 DEF q
    <3>2. s = session /\ (awaiting = "write" => i + 1 = Len(q))
      BY <1>2, <3>1 DEF WriteInv, q
    <3> QED BY <2>2, <3>1, <3>2
  <2> QED BY <2>1, <2>2
<1>10. AnswerInv'
  <2> SUFFICES ASSUME doing = "execute"
               PROVE  AnswerInv'
    BY <1>4 DEF AnswerInv
  <2>1. command # 0 /\ awaiting \in {"write", "read"} /\ session \in Sessions
    <3>1. session # 0
      BY DEF LinkInv, CommandInv, SessionInv
    <3> QED BY <1>2, <3>1, LinkAssumption DEF WriteInv, Shape, Sessions, LinkAssumption
  <2>2. r.kind = "write" /\ r.cmd = command =>
           s = session /\ (awaiting = "write" => Tail(q) = <<>>)
    <3> SUFFICES ASSUME r.kind = "write", r.cmd = command
                 PROVE  s = session /\ (awaiting = "write" => Tail(q) = <<>>)
      OBVIOUS
    <3>1. 1 \in Writes(requests[s]) /\ requests[s][1].cmd = command
      BY <1>5, <2>1 DEF q
    <3>2. s = session /\ (awaiting = "write" => Len(q) = 1)
      BY <1>2, <3>1 DEF WriteInv, q
    <3>3. Tail(q) \in Seq(Requests)
      BY <1>2
    <3> DEFINE u == Tail(q)
    <3>4. u \in Seq(Requests) /\ (Len(q) = 1 => Len(u) = 0)
      BY <1>5, <3>3
    <3> HIDE DEF u
    <3>5. Len(q) = 1 => u = <<>>
      BY <3>4
    <3> QED BY <3>2, <3>5 DEF u
  <2>3. CASE s # session
    <3>1. /\ requests'[session] = requests[session] /\ responses'[session] = responses[session]
          /\ channel' = channel /\ (r.kind = "write" => r.cmd # command)
      BY <1>3, <1>4, <2>1, <2>2, <2>3
    <3>2. (Sources(board') \cup Sources(uart')) \ (Sources(board) \cup Sources(uart))
             \subseteq 0..MaxCommands \ {command}
      BY <1>4, <1>5, <3>1 DEF Requests
    <3>3. LinkInv'
      BY <1>0, <1>4, <1>8, <1>9, <3>1, <3>2, StandQuiet
    <3> QED BY <3>3 DEF LinkInv, StepInv
  <2>4. CASE s = session
    <3>1. CASE awaiting = "read" /\ OneUnderWay(session)
      <4> DEFINE x == Len(q)
                 y == Len(p)
                 d == Len(responses'[s])
      <4>1. x \in Nat \ {0} /\ y \in Nat /\ x + y <= 1 /\ Len(requests'[s]) = x - 1
        BY <1>3, <1>5, <1>7, <2>4, <3>1 DEF OneUnderWay, q
      <4>2. d = y \/ d = y + 1
        <5> HIDE DEF y
        <5>1. CASE responses'[s] = p
          BY <5>1 DEF y
        <5>2. CASE responses'[s] = Append(p, a)
          <6> HIDE DEF p
          <6> QED BY <1>7, <5>2 DEF y
        <5> QED BY <1>4, <5>1, <5>2
      <4> HIDE DEF x, y, d
      <4>3. Len(requests'[s]) + d <= 1
        BY <4>1, <4>2
      <4> QED BY <1>4, <2>4, <3>1, <4>3 DEF AnswerInv, OneUnderWay, d
    <3>2. CASE command \notin Sources(buffer) /\ Unanswered(session, command)
      <4> SUFFICES Unanswered(session, command)'
        BY <1>4, <3>2 DEF AnswerInv
      <4>1. CASE channel[s] # "open" /\ responses'[s] = p
        <5>1. CASE \E n \in 1..Len(p) :
                      /\ p[n].kind = "written" /\ Unheard(s, command, n - 1)
                      /\ awaiting = "write" => n = Len(p) /\ requests[s] = <<>>
          <6>1. PICK n \in 1..Len(p) : /\ p[n].kind = "written" /\ Unheard(s, command, n - 1)
                                       /\ awaiting # "write"
            BY <1>2, <5>1 DEF q
          <6>2. Unheard(session, command, n - 1)'
            BY <1>4, <2>4, <4>1, <6>1 DEF Unheard
          <6> QED BY <1>4, <2>4, <4>1, <6>1, <6>2 DEF Unanswered
        <5>2. CASE Unheard(s, command, Len(p))
          <6>1. Unheard(session, command, Len(responses[session]))'
            BY <1>4, <2>4, <4>1, <5>2 DEF Unheard
          <6> QED BY <1>4, <2>4, <4>1, <6>1 DEF Unanswered
        <5> QED BY <2>4, <3>2, <5>1, <5>2 DEF Unanswered
      <4>2. CASE channel[s] = "open" /\ responses'[s] = Append(p, a)
        <5> DEFINE g == Append(p, a)
        <5>1. /\ Len(g) = Len(p) + 1 /\ g[Len(p) + 1] = a
              /\ \A j \in 1..Len(p) : g[j] = p[j] /\ j \in 1..Len(g)
              /\ \A j \in 1..Len(g) : j \in 1..Len(p) \/ j = Len(p) + 1
          <6> HIDE DEF p
          <6> QED BY <1>7
        <5> HIDE DEF g
        <5>2. responses'[session'] = g /\ session' = s
          BY <1>4, <2>4, <4>2 DEF g
        <5>3. CASE \E n \in 1..Len(p) :
                      /\ p[n].kind = "written" /\ Unheard(s, command, n - 1)
                      /\ awaiting = "write" => n = Len(p) /\ requests[s] = <<>>
          <6>1. PICK n \in 1..Len(p) : /\ p[n].kind = "written" /\ Unheard(s, command, n - 1)
                                       /\ awaiting # "write"
            BY <1>2, <5>3 DEF q
          <6>2. \A j \in 1..(n - 1) : j \in 1..Len(p)
            BY <1>7
          <6>3. Unheard(session, command, n - 1)'
            BY <1>4, <5>1, <5>2, <6>1, <6>2 DEF Unheard
          <6> QED BY <1>4, <5>1, <5>2, <6>1, <6>3 DEF Unanswered
        <5>4. CASE /\ command \notin Sources(board) \cup Sources(uart)
                   /\ Unheard(s, command, Len(p))
          <6>1. command \notin Sources(uart') /\ command \notin Sources(a.data)
            BY <1>4, <5>4
          <6>2. CASE r.kind = "write" /\ r.cmd = command /\ a.kind = "written"
            <7>0. PICK n \in Nat : n = Len(p) + 1
              BY <1>7
            <7>1. n \in 1..Len(g) /\ g[n].kind = "written" /\ n - 1 = Len(p) /\ n = Len(g)
              BY <1>7, <5>1, <6>2, <7>0
            <7>2. Unheard(session, command, n - 1)'
              BY <1>4, <5>1, <5>2, <5>4, <7>1 DEF Unheard
            <7>3. awaiting' = "write" => requests'[session'] = <<>>
              BY <1>3, <1>4, <2>2, <5>2, <6>2
            <7>4. /\ n \in 1..Len(responses'[session']) /\ responses'[session'][n].kind = "written"
                  /\ awaiting' = "write" => n = Len(responses'[session']) /\ requests'[session'] = <<>>
              BY <5>2, <7>1, <7>3
            <7> QED BY <7>2, <7>4 DEF Unanswered
          <6>3. CASE command \notin Sources(board')
            <7>1. Unheard(session, command, Len(responses[session]))'
              BY <1>4, <5>1, <5>2, <5>4, <6>1 DEF Unheard
            <7> QED BY <1>4, <6>1, <6>3, <7>1 DEF Unanswered
          <6> QED BY <1>4, <5>4, <6>2, <6>3
        <5> QED BY <2>4, <3>2, <4>2, <5>3, <5>4 DEF Unanswered
      <4> QED BY <1>4, <4>1, <4>2
    <3> QED BY <3>1, <3>2 DEF LinkInv, StepInv, AnswerInv
  <2> QED BY <2>3, <2>4
<1> QED BY <1>0, <1>8, <1>9, <1>10 DEF LinkInv, StepInv

LEMMA ReleaseInStep ==
  ASSUME LinkInv, NEW s \in Sessions, EndOfFile(s) \/ Die(s)
  PROVE  LinkInv'
<1>0. CommandInv'
  BY ReleaseOrdered DEF LinkInv
<1>1. /\ Release(s) /\ UNCHANGED <<session, doing, awaiting, command, buffer, channel, requests,
                                     responses, board>>
  BY DEF EndOfFile, Die
<1>2. Sources(board') = Sources(board) /\ Sources(uart') \subseteq Sources(uart)
  BY <1>1, NoSource DEF Release
<1>3. KnownInv' /\ WriteInv'
  BY <1>1, <1>2 DEF LinkInv, StepInv, KnownInv, WriteInv
<1> QED BY <1>0, <1>1, <1>2, <1>3, StandQuiet

LEMMA BoardPrintsInStep ==
  ASSUME LinkInv, BoardPrints
  PROVE  LinkInv'
<1>0. CommandInv'
  BY BoardPrintsOrdered DEF LinkInv
<1>1. /\ board \in Seq(Items) /\ board # <<>> /\ uart \in Seq(Items)
      /\ board' = Tail(board)
      /\ uart' = uart \/ uart' = Append(uart, Head(board))
      /\ UNCHANGED <<session, doing, awaiting, command, buffer, channel, requests, responses>>
  BY DEF LinkInv, CommandInv, Shape, BoardPrints
<1>2. Sources(board') \cup Sources(uart') \subseteq Sources(board) \cup Sources(uart)
  BY <1>1, TailSources
<1>3. KnownInv' /\ WriteInv'
  BY <1>1, <1>2 DEF LinkInv, StepInv, KnownInv, WriteInv
<1> QED BY <1>0, <1>1, <1>2, <1>3, StandQuiet

LEMMA LoseLinkInStep ==
  ASSUME LinkInv, NEW s \in Sessions, LoseLink(s)
  PROVE  LinkInv'
<1>0. CommandInv'
  BY LoseLinkOrdered DEF LinkInv
<1>1. PICK n \in 0..Len(responses[s]) : responses' = [responses EXCEPT ![s] = SubSeq(@, 1, n)]
  BY DEF LoseLink
<1> DEFINE q == responses[s]
           g == SubSeq(q, 1, n)
<1>2. /\ q \in Seq(Responses) /\ n \in 0..Len(q) /\ responses'[s] = g
      /\ \A t \in Sessions : t # s => responses'[t] = responses[t] /\ channel'[t] = channel[t]
      /\ channel'[s] = "closed" /\ channel[s] = "open"
      /\ UNCHANGED <<session, doing, awaiting, command, buffer, requests>> /\ UNCHANGED world
  BY <1>1 DEF LinkInv, CommandInv, Shape, LoseLink
<1> HIDE DEF q
<1>3. /\ Len(g) = n /\ Len(q) \in Nat /\ n \in Nat /\ n <= Len(q)
      /\ \A j \in 1..n : g[j] = q[j] /\ j \in 1..Len(q)
  BY <1>2
<1> HIDE DEF g
<1>4. KnownInv'
  <2>1. ASSUME NEW t \in Sessions, NEW i \in 1..Len(responses'[t])
        PROVE  Sources(responses'[t][i].data) \subseteq 0..command
    BY <1>2, <1>3 DEF LinkInv, StepInv, KnownInv, q
  <2> QED BY <1>2, <2>1 DEF LinkInv, StepInv, KnownInv, world
<1>5. WriteInv'
  BY <1>2 DEF LinkInv, StepInv, WriteInv
<1>6. CASE s # session
  BY <1>0, <1>2, <1>4, <1>5, <1>6, StandQuiet DEF world
<1>7. CASE s = session
  <2> SUFFICES ASSUME doing = "execute"
               PROVE  AnswerInv'
    BY <1>0, <1>2, <1>4, <1>5 DEF LinkInv, StepInv, AnswerInv
  <2>1. CASE awaiting = "read" /\ OneUnderWay(session)
    <3> DEFINE x == Len(requests[s])
               y == Len(q)
    <3>1. x \in Nat /\ y \in Nat /\ x + y <= 1 /\ n <= y
      BY <1>2, <1>3, <1>7, <2>1, RequestTypes DEF OneUnderWay, LinkInv, CommandInv, q
    <3> HIDE DEF x, y
    <3>2. x + n <= 1
      BY <1>3, <3>1
    <3> QED BY <1>2, <1>3, <1>7, <2>1, <3>2 DEF AnswerInv, OneUnderWay, x
  <2>2. CASE command \notin Sources(buffer) /\ Unanswered(session, command)
    <3>1. ASSUME Unheard(s, command, n)
          PROVE  Unanswered(session, command)'
      <4>1. Unheard(session, command, Len(responses[session]))'
        BY <1>2, <1>3, <1>7, <3>1 DEF Unheard, q
      <4> QED BY <1>2, <1>7, <4>1 DEF Unanswered
    <3>2. CASE Unheard(s, command, Len(q))
      BY <1>2, <1>3, <2>2, <3>1, <3>2 DEF Unheard, AnswerInv
    <3>3. CASE \E m \in 1..Len(q) :
                  /\ q[m].kind = "written" /\ Unheard(s, command, m - 1)
                  /\ awaiting = "write" => m = Len(q) /\ requests[s] = <<>>
      <4>1. PICK m \in 1..Len(q) :
                  /\ q[m].kind = "written" /\ Unheard(s, command, m - 1)
                  /\ awaiting = "write" => m = Len(q) /\ requests[s] = <<>>
        BY <3>3
      <4>2. CASE m <= n
        <5>1. m \in 1..n /\ g[m] = q[m] /\ (m = Len(q) => m = n) /\ \A j \in 1..(m - 1) : j \in 1..n
          BY <1>3, <4>2
        <5>2. Unheard(session, command, m - 1)'
          BY <1>2, <1>3, <1>7, <4>1, <5>1 DEF Unheard, q
        <5>3. /\ m \in 1..Len(responses'[session']) /\ responses'[session'][m].kind = "written"
              /\ awaiting' = "write" => m = Len(responses'[session']) /\ requests'[session'] = <<>>
          BY <1>2, <1>3, <1>7, <4>1, <5>1
        <5>4. Unanswered(session, command)'
          BY <5>2, <5>3 DEF Unanswered
        <5> QED BY <1>2, <2>2, <5>4 DEF AnswerInv
      <4>3. CASE ~(m <= n)
        <5>1. \A j \in 1..n : j \in 1..(m - 1)
          BY <1>3, <4>3
        <5>2. Unheard(s, command, n)
          BY <4>1, <5>1 DEF Unheard
        <5> QED BY <1>2, <2>2, <3>1, <5>2 DEF AnswerInv
      <4> QED BY <4>2, <4>3
    <3> QED BY <1>7, <2>2, <3>2, <3>3 DEF Unanswered, q
  <2> QED BY <2>1, <2>2 DEF LinkInv, StepInv, AnswerInv
<1> QED BY <1>6, <1>7

------------------------------------------------------------------------------

LEMMA LinkStep ==
  ASSUME LinkInv, [Next]_vars
  PROVE  LinkInv'
<1>1. CASE ClientStep
  BY <1>1, ClientInStep
<1>2. CASE \E s \in Sessions : StandStep(s)
  BY <1>2, ServeInStep, ReleaseInStep, LoseLinkInStep DEF StandStep
<1>3. CASE BoardPrints
  BY <1>3, BoardPrintsInStep
<1>4. CASE UNCHANGED vars
  <2>1. CommandInv'
    BY <1>4, CommandStep DEF LinkInv
  <2>2. /\ UNCHANGED <<session, doing, awaiting, command, buffer, channel>>
        /\ UNCHANGED <<requests, responses, uart, board>>
    BY <1>4 DEF vars
  <2>3. KnownInv' /\ WriteInv'
    BY <2>2 DEF LinkInv, StepInv, KnownInv, WriteInv
  <2> QED BY <2>1, <2>2, <2>3, StandQuiet
<1> QED BY <1>1, <1>2, <1>3, <1>4 DEF Next

LEMMA LinkInit == Init => LinkInv
<1> SUFFICES ASSUME Init
             PROVE  LinkInv
  OBVIOUS
<1>1. CommandInv
  BY CommandInit
<1>2. Sources(board) = {} /\ Sources(uart) = {} /\ doing # "execute"
  BY NoSource DEF Init
<1>3. \A s \in Sessions : 1..Len(responses[s]) = {}
  BY DEF Init
<1>4. StepInv
  BY <1>2, <1>3 DEF StepInv, KnownInv, WriteInv, AnswerInv
<1> QED BY <1>1, <1>4 DEF LinkInv

(* Only the text of a complete read makes a command return, and only while *)
(* that read is all there is under way.                                    *)
LEMMA ReturnStep ==
  ASSUME LinkInv, [Next]_vars, NEW c \in Commands, ~result[c].done, result'[c].done
  PROVE  requests[session] = <<>> /\ responses'[session] = <<>>
<1>1. Receive /\ UNCHANGED command /\ result' # result
  <2>1. result' # result
    OBVIOUS
  <2>2. ASSUME NEW s \in Sessions, Connect(s) \/ StandStep(s)
        PROVE  FALSE
    BY <2>1, <2>2 DEF Connect, StandStep, Serve, EndOfFile, Die, LoseLink
  <2>3. ~Execute /\ ~Close /\ ~TimeOut /\ ~SeeEnd /\ ~GiveUp /\ ~BoardPrints /\ ~UNCHANGED vars
    BY <2>1 DEF Execute, Close, TimeOut, SeeEnd, GiveUp, BoardPrints, vars
  <2> QED BY <2>1, <2>2, <2>3 DEF Next, ClientStep, Receive
<1> DEFINE q == responses[session]
           r == Head(q)
           m == IF awaiting = "read" THEN r ELSE [r EXCEPT !.data = <<>>]
<1>2. /\ Fits(r) /\ Proceed(m) /\ q # <<>>
      /\ responses' = [responses EXCEPT ![session] = Tail(@)]
  BY <1>1 DEF Receive
<1>3. awaiting = "read" /\ doing = "execute" /\ Complete(buffer \o r.data)
  <2>1. awaiting = "read" /\ Complete(buffer') /\ buffer' = buffer \o m.data /\ doing = "execute"
    BY <1>1, <1>2 DEF Proceed
  <2> QED BY <2>1 DEF Complete
<1>4. /\ session \in Sessions /\ Shape /\ q \in Seq(Responses) /\ buffer \in Seq(Items)
      /\ responses'[session] = Tail(q)
  <2>1. session # 0 /\ Shape
    BY <1>3 DEF LinkInv, CommandInv, SessionInv
  <2>2. session \in Sessions
    BY <2>1, LinkAssumption DEF Shape, Sessions, LinkAssumption
  <2> QED BY <1>2, <2>1, <2>2 DEF Shape
<1>5. command \in Sources(buffer) \cup Sources(r.data)
  <2> DEFINE d == r.data
  <2>1. d \in Seq(Items)
    BY <1>2, <1>4, TextReceived
  <2>2. \E i \in 1..Len(buffer \o d) : (buffer \o d)[i].cmd = command
    BY <1>3 DEF Complete
  <2> HIDE DEF d
  <2>3. command \in Sources(buffer \o d)
    BY <2>2 DEF Sources
  <2>4. command \in Sources(buffer) \cup Sources(d)
    BY <1>4, <2>1, <2>3, JoinedSources
  <2> QED BY <2>4 DEF d
<1>6. OneUnderWay(session)
  <2> SUFFICES ASSUME ~OneUnderWay(session)
               PROVE  FALSE
    OBVIOUS
  <2>1. command \notin Sources(r.data) /\ command \notin Sources(buffer)
    BY <1>2, <1>3, TakesAnother
  <2> QED BY <1>5, <2>1
<1> DEFINE x == Len(requests[session])
           y == Len(q)
<1>7. x \in Nat /\ requests[session] \in Seq(Requests) /\ x + y <= 1
  BY <1>4, <1>6, RequestTypes DEF OneUnderWay
<1>8. y \in Nat /\ y >= 1
  BY <1>2, <1>4
<1>9. x = 0 /\ y = 1
  <2> HIDE DEF x, y
  <2> QED BY <1>7, <1>8
<1>10. requests[session] = <<>>
  BY <1>7, <1>9
<1>11. Tail(q) = <<>>
  <2>1. q \in Seq(Responses) /\ q # <<>> /\ Len(q) = 1
    BY <1>2, <1>4, <1>9
  <2> HIDE DEF q
  <2>2. Tail(q) \in Seq(Responses) /\ Len(Tail(q)) = Len(q) - 1
    BY <2>1, ResponseTaken
  <2> DEFINE u == Tail(q)
  <2>3. u \in Seq(Responses) /\ Len(u) = 0
    BY <2>1, <2>2
  <2> HIDE DEF u
  <2>4. u = <<>>
    BY <2>3
  <2> QED BY <2>4 DEF u
<1> QED BY <1>4, <1>10, <1>11

(* No command returns on a link that is out of step: while a response of   *)
(* an earlier request is still to come, what execute() reads is never its  *)
(* own exit marker, however many requests have timed out before it.        *)
THEOREM OnlyInStep == Spec => ReturnsInStep
<1> DEFINE Steps == \A c \in Commands : ~result[c].done /\ result'[c].done
                       => requests[session] = <<>> /\ responses'[session] = <<>>
<1>1. LinkInv /\ [Next]_vars => Steps
  BY ReturnStep
<1>2. LinkInv /\ [Next]_vars => [Steps]_vars
  BY <1>1
<1> HIDE DEF Steps
<1>3. Spec => [][Steps]_vars
  BY LinkInit, LinkStep, <1>2, PTL DEF Spec
<1> QED BY <1>3 DEF ReturnsInStep, Steps

------------------------------------------------------------------------------
(* The output of a command.                                                *)

(* What of command c a text holds, and that it holds it in the order in    *)
(* which the board printed it, each part once.                             *)
Follows(x, y) ==
    \/ x = "output" /\ y \in {"exit", "prompt"}
    \/ x = "exit" /\ y = "prompt"
Parts(c, text) == {text[i].part : i \in {j \in 1..Len(text) : text[j].cmd = c}}
InOrder(c, text) ==
    \A i, j \in 1..Len(text) :
        i < j /\ text[i].cmd = c /\ text[j].cmd = c => Follows(text[i].part, text[j].part)
Before(P, Q) == \A x \in P, y \in Q : Follows(x, y)
Begins(P) == P = {} \/ "output" \in P

(* Four texts that follow each other on the way from the board to the      *)
(* console: what a command printed stays in order and begins with its      *)
(* output, in what was read and, where nothing was lost, in all of it.     *)
Flow(c, read, next, port, rest, whole) ==
    /\ InOrder(c, read) /\ InOrder(c, next) /\ InOrder(c, port) /\ InOrder(c, rest)
    /\ Before(Parts(c, read), Parts(c, next))
    /\ Before(Parts(c, read) \cup Parts(c, next), Parts(c, port) \cup Parts(c, rest))
    /\ Before(Parts(c, port), Parts(c, rest))
    /\ Begins(Parts(c, read) \cup Parts(c, next))
    /\ whole => Begins((Parts(c, read) \cup Parts(c, next)) \cup (Parts(c, port) \cup Parts(c, rest)))

(* What the client will read next, where one answer at most is under way.  *)
Pending(s) == IF responses[s] = <<>> THEN <<>> ELSE responses[s][1].data

(* Only the answer to a read holds data. *)
DataInv ==
    \A s \in Sessions : \A i \in 1..Len(responses[s]) :
        responses[s][i].kind # "data" => responses[s][i].data = <<>>

(* Nothing stems from a command that has not reached the board. *)
FreshInv ==
    doing = "execute" /\ (\E i \in Writes(requests[session]) : requests[session][i].cmd = command)
        => /\ command \notin Sources(buffer) \cup Sources(uart) \cup Sources(board)
           /\ Unheard(session, command, Len(responses[session]))

(* What the board prints of a command stays in order on its way, through   *)
(* the port, the answer under way and the buffer; and as long as the agent *)
(* has the port and can be heard, nothing is lost from the front.          *)
Heard(s) == s \in holders /\ channel[s] = "open"
FlowInv ==
    doing = "execute" =>
        /\ Flow(command, <<>>, <<>>, uart, board, FALSE)
        /\ OneUnderWay(session) =>
              Flow(command, buffer, Pending(session), uart, board, Heard(session))

(* As long as nothing has failed: no agent is left of an earlier session;  *)
(* one line at most is under way, the request whose answer the client      *)
(* awaits or that answer, and an agent that has closed well is gone;       *)
(* the console is quiet between calls; and all that is on its way belongs  *)
(* to the call that is under way.                                          *)
Awaited ==
    [kind |-> awaiting,
     cmd |-> IF awaiting = "write" /\ doing = "execute" THEN command ELSE 0]
OnItsWay(s) == Len(buffer) + Len(Pending(s)) + (Len(uart) + Len(board))
Alone == \A s \in Sessions : s # session => agent[s] # "up"
Turns ==
    session # 0 =>
        \/ requests[session] = <<>> /\ responses[session] = <<>>
        \/ doing # "idle" /\ requests[session] = <<Awaited>> /\ responses[session] = <<>>
        \/ /\ doing # "idle" /\ requests[session] = <<>> /\ Len(responses[session]) = 1
           /\ awaiting = "close" =>
                 agent[session] # "up" \/ responses[session][1].kind = "error"
Quiet == doing \in {"idle", "connect", "close", "abort"} => uart = <<>> /\ board = <<>>
Prompted ==
    doing = "prepare" =>
        /\ OnItsWay(session) <= 1
        /\ awaiting = "write" /\ requests[session] # <<>> => OnItsWay(session) = 0
Own ==
    doing = "execute" =>
        (Sources(buffer) \cup Sources(Pending(session))) \cup (Sources(uart) \cup Sources(board))
            \subseteq {command}
Unspoilt == Alone /\ Turns /\ Quiet /\ Prompted /\ Own
SmoothInv == smooth => Unspoilt


LEMMA NoParts == \A c : Parts(c, <<>>) = {} /\ InOrder(c, <<>>)
  BY DEF Parts, InOrder

LEMMA PartsIn ==
  ASSUME NEW c, NEW t \in Seq(Items)
  PROVE  /\ Parts(c, t) # {} => c \in Sources(t)
         /\ c \notin Sources(t) => Parts(c, t) = {} /\ InOrder(c, t)
         /\ \A i \in 1..Len(t) : t[i].cmd = c => t[i].part \in Parts(c, t)
         /\ \A x \in Parts(c, t) : \E i \in 1..Len(t) : t[i].cmd = c /\ t[i].part = x
  BY DEF Parts, Sources, InOrder

LEMMA PartTypes ==
  ASSUME NEW c, NEW t \in Seq(Items)
  PROVE  Parts(c, t) \subseteq {"output", "exit", "prompt"}
<1>0. \A i \in 1..Len(t) : t[i] \in Items
  BY ElementOfSeq
<1>1. \A i \in 1..Len(t) : t[i].part \in {"output", "exit", "prompt"}
  BY <1>0 DEF Items
<1> QED BY <1>1 DEF Parts

LEMMA JoinedParts ==
  ASSUME NEW c, NEW a \in Seq(Items), NEW b \in Seq(Items)
  PROVE  LET t == a \o b IN
         /\ t \in Seq(Items)
         /\ Parts(c, t) = Parts(c, a) \cup Parts(c, b)
         /\ InOrder(c, a) /\ InOrder(c, b) /\ Before(Parts(c, a), Parts(c, b)) => InOrder(c, t)
<1> DEFINE t == a \o b
<1>1. /\ Len(a) \in Nat /\ Len(b) \in Nat /\ Len(t) = Len(a) + Len(b) /\ t \in Seq(Items)
      /\ \A i \in 1..Len(t) : t[i] = IF i <= Len(a) THEN a[i] ELSE b[i - Len(a)]
  BY ConcatProperties
<1> HIDE DEF t
<1>2. \A i \in 1..Len(t) : \/ i \in 1..Len(a) /\ t[i] = a[i]
                           \/ i - Len(a) \in 1..Len(b) /\ t[i] = b[i - Len(a)] /\ i > Len(a)
  BY <1>1
<1>3. (\A i \in 1..Len(a) : i \in 1..Len(t) /\ t[i] = a[i])
  BY <1>1
<1>4. ASSUME NEW j \in 1..Len(b) PROVE Len(a) + j \in 1..Len(t) /\ t[Len(a) + j] = b[j]
  <2>1. Len(a) + j \in 1..Len(t) /\ ~(Len(a) + j <= Len(a)) /\ (Len(a) + j) - Len(a) = j
    BY <1>1
  <2> QED BY <1>1, <2>1
<1>5. Parts(c, t) \subseteq Parts(c, a) \cup Parts(c, b)
  BY <1>2 DEF Parts
<1>6. Parts(c, a) \subseteq Parts(c, t)
  BY <1>3 DEF Parts
<1>7. Parts(c, b) \subseteq Parts(c, t)
  BY <1>4 DEF Parts
<1>8. ASSUME InOrder(c, a), InOrder(c, b), Before(Parts(c, a), Parts(c, b)) PROVE InOrder(c, t)
  <2> SUFFICES ASSUME NEW i \in 1..Len(t), NEW j \in 1..Len(t), i < j, t[i].cmd = c, t[j].cmd = c
               PROVE  Follows(t[i].part, t[j].part)
    BY DEF InOrder
  <2>1. CASE j \in 1..Len(a) /\ t[j] = a[j]
    <3>1. i \in 1..Len(a) /\ t[i] = a[i]
      BY <1>1, <1>2, <2>1
    <3> QED BY <1>8, <2>1, <3>1 DEF InOrder
  <2>2. CASE j - Len(a) \in 1..Len(b) /\ t[j] = b[j - Len(a)]
    <3>1. CASE i \in 1..Len(a) /\ t[i] = a[i]
      <4>1. t[i].part \in Parts(c, a)
        BY <3>1, PartsIn
      <4>2. t[j].part \in Parts(c, b)
        BY <2>2, PartsIn
      <4> QED BY <1>8, <4>1, <4>2 DEF Before
    <3>2. CASE i - Len(a) \in 1..Len(b) /\ t[i] = b[i - Len(a)]
      <4>1. i - Len(a) < j - Len(a)
        BY <1>1
      <4> QED BY <1>8, <2>2, <3>2, <4>1 DEF InOrder
    <3> QED BY <1>2, <3>1, <3>2
  <2> QED BY <1>2, <2>1, <2>2
<1>9. /\ t \in Seq(Items)
      /\ Parts(c, t) = Parts(c, a) \cup Parts(c, b)
      /\ InOrder(c, a) /\ InOrder(c, b) /\ Before(Parts(c, a), Parts(c, b)) => InOrder(c, t)
  BY <1>1, <1>5, <1>6, <1>7, <1>8
<1> QED BY <1>9 DEF t

(* The board prints the first of what it has to print. *)
LEMMA TailParts ==
  ASSUME NEW c, NEW t \in Seq(Items), t # <<>>
  PROVE  LET h == <<Head(t)>>
             u == Tail(t)
         IN  /\ h \in Seq(Items) /\ u \in Seq(Items) /\ InOrder(c, h)
             /\ Parts(c, t) = Parts(c, h) \cup Parts(c, u)
             /\ InOrder(c, t) => InOrder(c, u) /\ Before(Parts(c, h), Parts(c, u))
<1> DEFINE h == <<Head(t)>>
           u == Tail(t)
<1>1. /\ h \in Seq(Items) /\ u \in Seq(Items) /\ Len(h) = 1 /\ h[1] = t[1]
      /\ Len(t) \in Nat \ {0} /\ Len(u) = Len(t) - 1 /\ Len(u) \in Nat
      /\ \A i \in 1..Len(u) : i + 1 \in 1..Len(t) /\ u[i] = t[i + 1]
  BY HeadTailProperties
<1> HIDE DEF h, u
<1>2. InOrder(c, h)
  BY <1>1 DEF InOrder
<1>3. ASSUME NEW i \in 1..Len(t), i # 1 PROVE i - 1 \in 1..Len(u) /\ u[i - 1] = t[i]
  <2>1. i - 1 \in 1..Len(u) /\ (i - 1) + 1 = i
    BY <1>1, <1>3
  <2> QED BY <1>1, <2>1
<1>4. 1 \in 1..Len(h) /\ 1 \in 1..Len(t) /\ \A i \in 1..Len(h) : i = 1
  BY <1>1
<1>5. Parts(c, h) \cup Parts(c, u) \subseteq Parts(c, t)
  BY <1>1, <1>4 DEF Parts
<1>6. Parts(c, t) \subseteq Parts(c, h) \cup Parts(c, u)
  <2> SUFFICES ASSUME NEW i \in 1..Len(t), t[i].cmd = c
               PROVE  t[i].part \in Parts(c, h) \cup Parts(c, u)
    BY DEF Parts
  <2>1. CASE i = 1
    BY <1>1, <1>4, <2>1 DEF Parts
  <2>2. CASE i # 1
    BY <1>3, <2>2 DEF Parts
  <2> QED BY <2>1, <2>2
<1>7. ASSUME InOrder(c, t) PROVE InOrder(c, u) /\ Before(Parts(c, h), Parts(c, u))
  <2>1. InOrder(c, u)
    <3> SUFFICES ASSUME NEW i \in 1..Len(u), NEW j \in 1..Len(u), i < j, u[i].cmd = c, u[j].cmd = c
                 PROVE  Follows(u[i].part, u[j].part)
      BY DEF InOrder
    <3>1. i + 1 < j + 1
      BY <1>1
    <3> QED BY <1>1, <1>7, <3>1 DEF InOrder
  <2>2. ASSUME NEW x \in Parts(c, h), NEW y \in Parts(c, u) PROVE Follows(x, y)
    <3>1. t[1].cmd = c /\ t[1].part = x
      BY <1>1, <1>4, PartsIn
    <3>2. PICK j \in 1..Len(u) : u[j].cmd = c /\ u[j].part = y
      BY <1>1, PartsIn
    <3>3. j + 1 \in 1..Len(t) /\ t[j + 1] = u[j] /\ 1 < j + 1
      BY <1>1
    <3> QED BY <1>4, <1>7, <3>1, <3>2, <3>3 DEF InOrder
  <2> QED BY <2>1, <2>2 DEF Before
<1>8. /\ h \in Seq(Items) /\ u \in Seq(Items) /\ InOrder(c, h)
      /\ Parts(c, t) = Parts(c, h) \cup Parts(c, u)
      /\ InOrder(c, t) => InOrder(c, u) /\ Before(Parts(c, h), Parts(c, u))
  BY <1>1, <1>2, <1>5, <1>6, <1>7
<1> QED BY <1>8 DEF h, u

LEMMA PrintedParts ==
  ASSUME NEW c \in 0..MaxCommands, NEW k \in 0..MaxCommands
  PROVE  /\ Printed(k) \in Seq(Items) /\ InOrder(c, Printed(k))
         /\ k # c => Parts(c, Printed(k)) = {}
         /\ k = c /\ c # 0 => "output" \in Parts(c, Printed(k))
<1> DEFINE t == Printed(k)
<1>1. t \in Seq(Items) /\ Sources(t) \subseteq {k}
  BY PrintedSources
<1>2. CASE k # c
  <2> HIDE DEF t
  <2>1. c \notin Sources(t)
    BY <1>1, <1>2
  <2>2. Parts(c, t) = {} /\ InOrder(c, t)
    BY <1>1, <2>1, PartsIn
  <2> QED BY <1>1, <1>2, <2>2 DEF t
<1>3. CASE k = c /\ c # 0
  <2>1. /\ Len(t) = 3 /\ t[1] = [cmd |-> k, part |-> "output"]
        /\ t[2] = [cmd |-> k, part |-> "exit"] /\ t[3] = [cmd |-> k, part |-> "prompt"]
    BY <1>3 DEF Printed
  <2> HIDE DEF t
  <2>2. \A i \in 1..Len(t) : i = 1 \/ i = 2 \/ i = 3
    BY <2>1
  <2>3. InOrder(c, t)
    <3> SUFFICES ASSUME NEW i \in 1..Len(t), NEW j \in 1..Len(t), i < j
                 PROVE  Follows(t[i].part, t[j].part)
      BY DEF InOrder
    <3>1. (i = 1 /\ j = 2) \/ (i = 1 /\ j = 3) \/ (i = 2 /\ j = 3)
      BY <2>2
    <3> QED BY <2>1, <3>1 DEF Follows
  <2>4. "output" \in Parts(c, t)
    <3>1. 1 \in 1..Len(t) /\ t[1].cmd = c /\ t[1].part = "output"
      BY <1>3, <2>1
    <3> QED BY <3>1 DEF Parts
  <2> QED BY <1>1, <1>3, <2>3, <2>4 DEF t
<1>4. CASE k = c /\ c = 0
  <2>1. Len(t) = 1
    BY <1>4 DEF Printed
  <2> HIDE DEF t
  <2>2. InOrder(c, t)
    BY <2>1 DEF InOrder
  <2> QED BY <1>1, <1>4, <2>2 DEF t
<1> QED BY <1>2, <1>3, <1>4

(* What precedes something that begins with the output holds the output. *)
LEMMA FrontBegins ==
  ASSUME NEW P, NEW Q, Before(P, Q), Begins(P \cup Q), P \subseteq {"output", "exit", "prompt"}
  PROVE  Begins(P)
  BY DEF Before, Begins, Follows

(* What happens to the texts on the way. *)
Texts == Seq(Items)

(* Nothing of the command is anywhere. *)
LEMMA FlowNone ==
  ASSUME NEW c, NEW read \in Texts, NEW next \in Texts, NEW port \in Texts, NEW rest \in Texts,
         NEW whole, c \notin Sources(read), c \notin Sources(next),
         c \notin Sources(port), c \notin Sources(rest)
  PROVE  Flow(c, read, next, port, rest, whole)
<1>1. /\ Parts(c, read) = {} /\ InOrder(c, read) /\ Parts(c, next) = {} /\ InOrder(c, next)
      /\ Parts(c, port) = {} /\ InOrder(c, port) /\ Parts(c, rest) = {} /\ InOrder(c, rest)
  BY PartsIn DEF Texts
<1> QED BY <1>1 DEF Flow, Before, Begins

(* The port is lost, or its agent can no longer be heard. *)
LEMMA FlowLost ==
  ASSUME NEW c, NEW read \in Texts, NEW next \in Texts, NEW port \in Texts, NEW rest \in Texts,
         NEW whole, Flow(c, read, next, port, rest, whole)
  PROVE  /\ Flow(c, read, next, port, rest, FALSE)
         /\ Flow(c, read, next, <<>>, rest, FALSE)
  BY NoParts DEF Flow, Before

(* The answer under way is lost. *)
LEMMA FlowUnheard ==
  ASSUME NEW c, NEW read \in Texts, NEW next \in Texts, NEW port \in Texts, NEW rest \in Texts,
         NEW whole, Flow(c, read, next, port, rest, whole)
  PROVE  Flow(c, read, <<>>, port, rest, FALSE)
<1>1. Begins(Parts(c, read))
  <2>1. Parts(c, read) \subseteq {"output", "exit", "prompt"}
    BY PartTypes DEF Texts
  <2> QED BY <2>1, FrontBegins DEF Flow
<1>2. Parts(c, <<>>) = {} /\ InOrder(c, <<>>)
  BY NoParts
<1> QED BY <1>1, <1>2 DEF Flow, Before

(* A text in which nothing of the command was read. *)
LEMMA FlowApart ==
  ASSUME NEW c, NEW read \in Texts, NEW next \in Texts, NEW port \in Texts, NEW rest \in Texts,
         Flow(c, <<>>, <<>>, port, rest, FALSE), c \notin Sources(read), c \notin Sources(next)
  PROVE  Flow(c, read, next, port, rest, FALSE)
<1>1. /\ Parts(c, read) = {} /\ InOrder(c, read) /\ Parts(c, next) = {} /\ InOrder(c, next)
  BY PartsIn DEF Texts
<1> QED BY <1>1 DEF Flow, Before, Begins

(* The agent reads the port. *)
LEMMA FlowTaken ==
  ASSUME NEW c, NEW read \in Texts, NEW port \in Texts, NEW rest \in Texts,
         Flow(c, read, <<>>, port, rest, TRUE)
  PROVE  Flow(c, read, port, <<>>, rest, TRUE)
<1>0. Parts(c, <<>>) = {} /\ InOrder(c, <<>>)
  BY NoParts
<1> DEFINE P == Parts(c, read)
           Q == Parts(c, port)
           R == Parts(c, rest)
<1>1. /\ Before(P, Q) /\ Before(P, R) /\ Before(Q, R) /\ Begins(P \cup (Q \cup R))
      /\ InOrder(c, read) /\ InOrder(c, port) /\ InOrder(c, rest)
  BY <1>0 DEF Flow, Before, Begins
<1>2. P \subseteq {"output", "exit", "prompt"} /\ Q \subseteq {"output", "exit", "prompt"}
  BY PartTypes DEF Texts
<1>3. Begins(P \cup Q)
  <2> HIDE DEF P, Q, R
  <2>1. Before(P \cup Q, R) /\ Begins((P \cup Q) \cup R)
    BY <1>1 DEF Before, Begins
  <2> QED BY <1>2, <2>1, FrontBegins
<1> QED BY <1>0, <1>1, <1>3 DEF Flow, Before, Begins

(* The client appends the answer to its buffer. *)
LEMMA FlowReceived ==
  ASSUME NEW c, NEW read \in Texts, NEW next \in Texts, NEW port \in Texts, NEW rest \in Texts,
         NEW whole, Flow(c, read, next, port, rest, whole)
  PROVE  LET text == read \o next IN text \in Texts /\ Flow(c, text, <<>>, port, rest, whole)
<1>0. Parts(c, <<>>) = {} /\ InOrder(c, <<>>)
  BY NoParts
<1> DEFINE text == read \o next
<1>1. /\ text \in Seq(Items)
      /\ Parts(c, text) = Parts(c, read) \cup Parts(c, next)
      /\ InOrder(c, read) /\ InOrder(c, next) /\ Before(Parts(c, read), Parts(c, next))
            => InOrder(c, text)
  BY JoinedParts DEF Texts
<1> HIDE DEF text
<1>2. text \in Texts /\ Flow(c, text, <<>>, port, rest, whole)
  BY <1>0, <1>1 DEF Flow, Before, Begins, Texts
<1> QED BY <1>2 DEF text

(* The board prints, and somebody listens. *)
LEMMA FlowPrinted ==
  ASSUME NEW c, NEW read \in Texts, NEW next \in Texts, NEW port \in Texts, NEW rest \in Texts,
         NEW whole, Flow(c, read, next, port, rest, whole), rest # <<>>
  PROVE  LET p == port \o <<Head(rest)>>
             u == Tail(rest)
         IN  /\ p \in Texts /\ u \in Texts
             /\ Flow(c, read, next, p, u, whole)
             /\ Flow(c, read, next, port, u, FALSE)
<1> DEFINE h == <<Head(rest)>>
           p == port \o h
           u == Tail(rest)
<1>1. /\ h \in Seq(Items) /\ u \in Seq(Items) /\ InOrder(c, h)
      /\ Parts(c, rest) = Parts(c, h) \cup Parts(c, u)
      /\ InOrder(c, rest) => InOrder(c, u) /\ Before(Parts(c, h), Parts(c, u))
  BY TailParts DEF Texts
<1> HIDE DEF h, u
<1>2. /\ p \in Seq(Items)
      /\ Parts(c, p) = Parts(c, port) \cup Parts(c, h)
      /\ InOrder(c, port) /\ InOrder(c, h) /\ Before(Parts(c, port), Parts(c, h)) => InOrder(c, p)
  BY <1>1, JoinedParts DEF Texts
<1> HIDE DEF p
<1>3. /\ Parts(c, port) \cup Parts(c, rest) = Parts(c, p) \cup Parts(c, u)
      /\ InOrder(c, p) /\ InOrder(c, u) /\ Before(Parts(c, p), Parts(c, u))
      /\ Parts(c, u) \subseteq Parts(c, rest)
  BY <1>1, <1>2 DEF Flow, Before
<1>4. Flow(c, read, next, p, u, whole)
  BY <1>3 DEF Flow
<1>5. Flow(c, read, next, port, u, FALSE)
  BY <1>3 DEF Flow, Before
<1>6. /\ p \in Texts /\ u \in Texts
      /\ Flow(c, read, next, p, u, whole) /\ Flow(c, read, next, port, u, FALSE)
  BY <1>1, <1>2, <1>4, <1>5 DEF Texts
<1> QED BY <1>6 DEF p, u, h

(* A command reaches the board: another one, or this one for the first     *)
(* time.                                                                   *)
LEMMA FlowWritten ==
  ASSUME NEW c \in 0..MaxCommands, NEW read \in Texts, NEW next \in Texts, NEW port \in Texts,
         NEW rest \in Texts, NEW whole, Flow(c, read, next, port, rest, whole),
         NEW k \in 0..MaxCommands, c # 0,
         k = c => /\ c \notin Sources(read) /\ c \notin Sources(next)
                  /\ c \notin Sources(port) /\ c \notin Sources(rest)
  PROVE  LET b == rest \o Printed(k) IN b \in Texts /\ Flow(c, read, next, port, b, whole)
<1> DEFINE p == Printed(k)
           b == rest \o p
<1>1. /\ p \in Seq(Items) /\ InOrder(c, p)
      /\ k # c => Parts(c, p) = {}
      /\ k = c => "output" \in Parts(c, p)
  BY PrintedParts
<1> HIDE DEF p
<1>2. /\ b \in Seq(Items)
      /\ Parts(c, b) = Parts(c, rest) \cup Parts(c, p)
      /\ InOrder(c, rest) /\ InOrder(c, p) /\ Before(Parts(c, rest), Parts(c, p)) => InOrder(c, b)
  BY <1>1, JoinedParts DEF Texts
<1> HIDE DEF b
<1>3. CASE k # c
  <2>1. Parts(c, b) = Parts(c, rest) /\ InOrder(c, b)
    BY <1>1, <1>2, <1>3 DEF Flow, Before
  <2>2. b \in Texts /\ Flow(c, read, next, port, b, whole)
    BY <1>2, <2>1 DEF Flow, Texts
  <2> QED BY <2>2 DEF b, p
<1>4. CASE k = c
  <2>1. /\ Parts(c, read) = {} /\ InOrder(c, read) /\ Parts(c, next) = {} /\ InOrder(c, next)
        /\ Parts(c, port) = {} /\ InOrder(c, port) /\ Parts(c, rest) = {} /\ InOrder(c, rest)
    BY <1>4, PartsIn DEF Texts
  <2>2. "output" \in Parts(c, b) /\ InOrder(c, b)
    BY <1>1, <1>2, <1>4, <2>1 DEF Before
  <2>3. b \in Texts /\ Flow(c, read, next, port, b, whole)
    BY <1>2, <2>1, <2>2 DEF Flow, Texts, Before, Begins
  <2> QED BY <2>3 DEF b, p
<1> QED BY <1>3, <1>4

------------------------------------------------------------------------------
(* What execute() returns.                                                 *)

(* The first part of a text, up to the marker of the command: its output,  *)
(* once, and perhaps what came before it.                                  *)
LEMMA StdoutText ==
  ASSUME NEW text \in Texts, InOrder(command, text), Begins(Parts(command, text)),
         NEW k \in 1..Len(text), text[k] = [cmd |-> command, part |-> "exit"]
  PROVE  LET out == Stdout(text) IN
         /\ out \in Texts /\ Sources(out) \subseteq Sources(text)
         /\ \E n \in 1..Len(out) :
               /\ out[n] = [cmd |-> command, part |-> "output"]
               /\ \A m \in 1..Len(out) : out[m].cmd = command => m = n
<1> DEFINE marks == {i \in 1..Len(text) : text[i].part = "exit"}
           Mine(i) == text[i].cmd = command \/ \A j \in marks : text[j].cmd # command
           e == CHOOSE i \in marks : Mine(i)
           out == SubSeq(text, 1, e - 1)
<1>1. Stdout(text) = out
  BY DEF Stdout
<1>2. k \in marks /\ Mine(k) /\ text[k].cmd = command
  OBVIOUS
<1>3. e \in marks /\ Mine(e)
  <2> HIDE DEF Mine, marks
  <2> QED BY <1>2
<1>4. e \in 1..Len(text) /\ text[e].cmd = command /\ text[e].part = "exit"
  <2> HIDE DEF e
  <2> QED BY <1>2, <1>3
<1> HIDE DEF e, marks, Mine
<1>5. Len(text) \in Nat /\ \A j \in 1..Len(text) : text[j] \in Items
  BY ElementOfSeq DEF Texts
<1>6. /\ out \in Seq(Items) /\ Len(out) = e - 1
      /\ \A j \in 1..Len(out) : j \in 1..Len(text) /\ j < e /\ out[j] = text[j]
      /\ \A j \in 1..Len(text) : j < e => j \in 1..Len(out)
  BY <1>4, <1>5 DEF Texts
<1> HIDE DEF out
<1>7. Sources(out) \subseteq Sources(text)
  BY <1>6 DEF Sources
<1>8. "output" \in Parts(command, text)
  <2>1. Parts(command, text) # {}
    BY <1>4 DEF Parts
  <2> QED BY <2>1 DEF Begins
<1>9. PICK n \in 1..Len(text) : text[n].cmd = command /\ text[n].part = "output"
  BY <1>8, PartsIn DEF Texts
<1>10. n < e
  <2>1. n # e
    BY <1>4, <1>9
  <2>2. ~(e < n)
    <3> SUFFICES ASSUME e < n
                 PROVE  FALSE
      OBVIOUS
    <3>1. Follows("exit", "output")
      BY <1>4, <1>9 DEF InOrder
    <3> QED BY <3>1 DEF Follows
  <2> QED BY <1>4, <1>5, <2>1, <2>2
<1>11. n \in 1..Len(out) /\ out[n] = [cmd |-> command, part |-> "output"]
  <2>1. n \in 1..Len(out) /\ out[n] = text[n] /\ text[n] \in Items
    BY <1>5, <1>6, <1>10
  <2> QED BY <1>9, <2>1 DEF Items
<1>12. ASSUME NEW m \in 1..Len(out), out[m].cmd = command
       PROVE  m = n
  <2>1. m \in 1..Len(text) /\ m < e /\ text[m].cmd = command
    BY <1>6, <1>12
  <2>2. text[m].part = "output"
    <3>1. Follows(text[m].part, "exit")
      BY <1>4, <2>1 DEF InOrder
    <3> QED BY <3>1 DEF Follows
  <2>3. ~(m < n) /\ ~(n < m)
    <3>1. ~Follows("output", "output")
      BY DEF Follows
    <3> QED BY <1>9, <2>1, <2>2, <3>1 DEF InOrder
  <2> QED BY <1>5, <2>1, <2>3
<1>13. /\ out \in Texts /\ Sources(out) \subseteq Sources(text)
       /\ \E x \in 1..Len(out) :
             /\ out[x] = [cmd |-> command, part |-> "output"]
             /\ \A m \in 1..Len(out) : out[m].cmd = command => m = x
  BY <1>6, <1>7, <1>11, <1>12 DEF Texts
<1> QED BY <1>1, <1>13

(* A call is under way in some session. *)
LEMMA Busy ==
  ASSUME LinkInv, doing # "idle"
  PROVE  /\ session \in Sessions /\ session # 0 /\ Shape
         /\ requests[session] \in Seq(Requests) /\ Len(requests[session]) \in Nat
         /\ responses[session] \in Seq(Responses) /\ Len(responses[session]) \in Nat
         /\ buffer \in Texts /\ uart \in Texts /\ board \in Texts
<1>1. session # 0 /\ Shape
  BY DEF LinkInv, CommandInv, SessionInv
<1>2. session \in Sessions
  BY <1>1, LinkAssumption DEF Shape, Sessions, LinkAssumption
<1>3. /\ requests[session] \in Seq(Requests) /\ responses[session] \in Seq(Responses)
      /\ buffer \in Texts /\ uart \in Texts /\ board \in Texts
  BY <1>1, <1>2 DEF Shape, Texts
<1> QED BY <1>1, <1>2, <1>3

LEMMA PendingText ==
  ASSUME Shape, NEW s \in Sessions
  PROVE  /\ Pending(s) \in Texts
         /\ responses[s] # <<>> => /\ 1 \in 1..Len(responses[s])
                                   /\ Pending(s) = responses[s][1].data
                                   /\ Head(responses[s]) = responses[s][1]
<1> DEFINE q == responses[s]
<1>1. q \in Seq(Responses)
  BY DEF Shape
<1>2. <<>> \in Texts
  BY DEF Texts
<1>3. Pending(s) = IF q = <<>> THEN <<>> ELSE q[1].data
  BY DEF Pending
<1> HIDE DEF q
<1>4. ASSUME q # <<>>
      PROVE  1 \in 1..Len(q) /\ Head(q) = q[1] /\ q[1] \in Responses
  BY <1>1, <1>4
<1>5. q # <<>> => q[1].data \in Texts
  BY <1>4 DEF Responses, Texts
<1> QED BY <1>2, <1>3, <1>4, <1>5 DEF q

(* On a link that is out of step nothing of the command has been heard. *)
LEMMA OutOfStep ==
  ASSUME LinkInv, DataInv, doing = "execute", ~OneUnderWay(session)
  PROVE  command \notin Sources(buffer) /\ command \notin Sources(Pending(session))
<1>1. session \in Sessions /\ Shape
  BY Busy
<1>2. command \notin Sources(buffer) /\ Unanswered(session, command)
  BY DEF LinkInv, StepInv, AnswerInv
<1>3. CASE responses[session] = <<>>
  BY <1>2, <1>3, NoSource DEF Pending
<1>4. CASE responses[session] # <<>>
  <2> DEFINE q == responses[session]
  <2>1. 1 \in 1..Len(q) /\ Pending(session) = q[1].data /\ Len(q) \in Nat
    BY <1>1, <1>4, PendingText, Busy
  <2> HIDE DEF q
  <2>2. CASE Unheard(session, command, Len(responses[session]))
    BY <1>2, <2>1, <2>2 DEF Unheard, q
  <2>3. CASE \E p \in 1..Len(q) : q[p].kind = "written" /\ Unheard(session, command, p - 1)
    <3>1. PICK p \in 1..Len(q) : q[p].kind = "written" /\ Unheard(session, command, p - 1)
      BY <2>3
    <3>2. CASE p = 1
      <4>1. q[1].data = <<>>
        BY <1>1, <2>1, <3>1, <3>2 DEF DataInv, q
      <4> QED BY <1>2, <2>1, <4>1, NoSource
    <3>3. CASE p # 1
      <4>1. 1 \in 1..(p - 1)
        BY <2>1, <3>3
      <4> QED BY <1>2, <2>1, <3>1, <4>1 DEF Unheard, q
    <3> QED BY <3>2, <3>3
  <2> QED BY <1>2, <2>2, <2>3 DEF Unanswered, q
<1> QED BY <1>3, <1>4

------------------------------------------------------------------------------
(* The client and the texts.                                               *)

(* A response that lets execute() go on. *)
LEMMA GoesOn ==
  ASSUME LinkInv, Receive, doing' = "execute"
  PROVE  /\ doing = "execute" /\ awaiting \in {"write", "read"} /\ awaiting' = "read"
         /\ UNCHANGED <<session, command, channel, result>> /\ UNCHANGED world
         /\ responses[session] # <<>> /\ Fits(Head(responses[session]))
         /\ responses' = [responses EXCEPT ![session] = Tail(@)]
         /\ responses'[session] = Tail(responses[session])
         /\ Send(session, "read", 0)
         /\ Len(requests'[session]) = Len(requests[session]) + 1
         /\ \A i \in Writes(requests'[session]) :
               i \in Writes(requests[session]) /\ requests'[session][i] = requests[session][i]
         /\ awaiting = "write" => buffer' = buffer
         /\ awaiting = "read" => buffer' = buffer \o Head(responses[session]).data
<1> DEFINE r == Head(responses[session])
           m == IF awaiting = "read" THEN r ELSE [r EXCEPT !.data = <<>>]
<1>1. Fits(r) /\ Proceed(m)
  BY DEF Receive, Raise, Hangup
<1>2. doing = "execute" /\ awaiting \in {"write", "read"} /\ UNCHANGED <<session, channel>>
  <2>1. doing = "execute" /\ UNCHANGED <<session, channel>>
    BY <1>1 DEF Proceed
  <2> QED BY <2>1 DEF LinkInv, StepInv, WriteInv
<1>3. Send(session, "read", 0) /\ result' = result
  BY <1>1, <1>2 DEF Proceed
<1>4. /\ awaiting = "write" => buffer' = buffer
      /\ awaiting = "read" => buffer' = buffer \o r.data
  BY <1>1 DEF Proceed
<1>5. session \in Sessions /\ Shape
  BY <1>2, Busy
<1>6. /\ awaiting' = "read" /\ Len(requests'[session]) = Len(requests[session]) + 1
      /\ \A i \in Writes(requests'[session]) :
            i \in Writes(requests[session]) /\ requests'[session][i] = requests[session][i]
  <2> DEFINE k == "read"
             z == 0
  <2>1. /\ k = "read" /\ k \in RequestKinds /\ k # "write" /\ Send(session, k, z)
        /\ z \in 0..MaxCommands
    BY <1>3, LinkAssumption DEF RequestKinds, LinkAssumption
  <2> HIDE DEF k, z
  <2> QED BY <1>5, <2>1, SendFacts
<1>7. /\ responses[session] # <<>> /\ UNCHANGED command /\ UNCHANGED world
      /\ responses' = [responses EXCEPT ![session] = Tail(@)]
  BY DEF Receive
<1>8. responses'[session] = Tail(responses[session])
  BY <1>5, <1>7 DEF Shape
<1> QED BY <1>1, <1>2, <1>3, <1>4, <1>6, <1>7, <1>8

(* The one response under way is taken. *)
LEMMA OnlyResponse ==
  ASSUME LinkInv, doing # "idle", OneUnderWay(session), responses[session] # <<>>
  PROVE  requests[session] = <<>> /\ Tail(responses[session]) = <<>>
<1> DEFINE q == responses[session]
           p == requests[session]
           a == Len(p)
           b == Len(q)
<1>1. /\ q \in Seq(Responses) /\ q # <<>> /\ p \in Seq(Requests) /\ a \in Nat /\ b \in Nat
      /\ a + b <= 1
  BY Busy DEF OneUnderWay
<1>2. b >= 1
  <2> HIDE DEF q
  <2> QED BY <1>1
<1>3. a = 0 /\ b = 1
  <2> HIDE DEF a, b
  <2> QED BY <1>1, <1>2
<1> HIDE DEF p, q
<1>4. p = <<>>
  BY <1>1, <1>3
<1> DEFINE u == Tail(q)
<1>5. u \in Seq(Responses) /\ Len(u) = 0
  BY <1>1, <1>3, ResponseTaken
<1> HIDE DEF u
<1>6. u = <<>>
  BY <1>5
<1> QED BY <1>4, <1>6 DEF p, q, u

LEMMA ClientData ==
  ASSUME LinkInv, DataInv, Consumes, UNCHANGED responses \/ session # 0
  PROVE  DataInv'
<1>1. CASE UNCHANGED responses
  BY <1>1 DEF DataInv
<1>2. CASE /\ session # 0 /\ responses[session] # <<>>
           /\ responses' = [responses EXCEPT ![session] = Tail(@)]
  <2> DEFINE q == responses[session]
  <2>1. /\ session \in Sessions /\ q \in Seq(Responses) /\ q # <<>>
        /\ responses'[session] = Tail(q)
        /\ \A s \in Sessions : s # session => responses'[s] = responses[s]
    BY <1>2, LinkAssumption DEF LinkInv, CommandInv, Shape, Sessions, LinkAssumption
  <2>2. \A i \in 1..Len(q) : q[i].kind # "data" => q[i].data = <<>>
    BY <2>1 DEF DataInv
  <2> HIDE DEF q
  <2>3. \A i \in 1..Len(Tail(q)) : i + 1 \in 1..Len(q) /\ Tail(q)[i] = q[i + 1]
    BY <2>1, ResponseTaken
  <2>4. ASSUME NEW s \in Sessions, NEW i \in 1..Len(responses'[s])
        PROVE  responses'[s][i].kind # "data" => responses'[s][i].data = <<>>
    <3>1. CASE s = session
      BY <2>1, <2>2, <2>3, <3>1
    <3>2. CASE s # session
      BY <2>1, <3>2 DEF DataInv
    <3> QED BY <3>1, <3>2
  <2> QED BY <2>4 DEF DataInv
<1> QED BY <1>1, <1>2 DEF Consumes

(* The inductive invariant of OutputIsComplete, without the property. *)
TextInv == LinkInv /\ DataInv /\ FreshInv /\ FlowInv

LEMMA ExecuteFlows ==
  ASSUME TextInv, Execute
  PROVE  TextInv'
<1>0. LinkInv'
  BY ExecuteInStep DEF TextInv
<1> DEFINE c == command + 1
<1>1. /\ command \in Nat /\ Shape /\ KnownInv /\ session \in Sessions
      /\ command' = c /\ UNCHANGED <<session, responses, channel>> /\ UNCHANGED world
      /\ buffer' = <<>> /\ c \notin 0..command
  <2>1. /\ Shape /\ KnownInv /\ session # 0 /\ command' = c
        /\ UNCHANGED <<session, responses, channel>> /\ UNCHANGED world /\ buffer' = <<>>
    BY DEF Execute, TextInv, LinkInv, CommandInv, StepInv
  <2>2. command \in Nat /\ session \in Sessions
    BY <2>1, LinkAssumption DEF Shape, Sessions, LinkAssumption
  <2>3. c \notin 0..command
    BY <2>2
  <2> QED BY <2>1, <2>2, <2>3
<1> HIDE DEF c
<1>2. DataInv'
  BY <1>1 DEF TextInv, DataInv
<1>3. /\ c \notin Sources(board) /\ c \notin Sources(uart)
      /\ \A j \in 1..Len(responses[session]) : c \notin Sources(responses[session][j].data)
  BY <1>1 DEF KnownInv
<1>4. FreshInv'
  <2>1. c \notin Sources(buffer')
    BY <1>1, NoSource
  <2> QED BY <1>1, <1>3, <2>1 DEF FreshInv, Unheard, world
<1>5. FlowInv'
  <2>1. Pending(session)' = Pending(session) /\ uart' = uart /\ board' = board
    BY <1>1 DEF Pending, world
  <2>2. Pending(session) \in Texts /\ uart \in Texts /\ board \in Texts
    BY <1>1, PendingText DEF Shape, Texts
  <2>3. c \notin Sources(Pending(session))
    <3>1. CASE responses[session] = <<>>
      BY <3>1, NoSource DEF Pending
    <3>2. CASE responses[session] # <<>>
      BY <1>1, <1>3, <3>2, PendingText
    <3> QED BY <3>1, <3>2
  <2> DEFINE e == <<>>
             n == Pending(session)
  <2>4. e \in Texts /\ c \notin Sources(e)
    BY NoSource DEF Texts
  <2> HIDE DEF e, n
  <2>5. ASSUME NEW w
        PROVE  Flow(c, e, e, uart, board, w) /\ Flow(c, e, n, uart, board, w)
    BY <1>3, <2>2, <2>3, <2>4, FlowNone DEF n
  <2>6. Flow(c, e, e, uart, board, FALSE) /\ Flow(c, e, n, uart, board, Heard(session)')
    BY <2>5
  <2> QED BY <1>1, <2>1, <2>6 DEF FlowInv, e, n
<1> QED BY <1>0, <1>2, <1>4, <1>5 DEF TextInv

LEMMA ReceiveFlows ==
  ASSUME TextInv, Receive
  PROVE  TextInv'
<1>0. LinkInv /\ DataInv /\ LinkInv'
  BY ReceiveInStep DEF TextInv
<1>1. DataInv'
  <2>1. Consumes /\ awaiting # "none"
    BY DEF Receive, Consumes
  <2>2. session # 0
    BY <1>0, <2>1 DEF LinkInv, CommandInv, SessionInv
  <2> QED BY <1>0, <2>1, <2>2, ClientData
<1>2. CASE doing' # "execute"
  BY <1>0, <1>1, <1>2 DEF TextInv, FreshInv, FlowInv
<1>3. CASE doing' = "execute"
  <2> DEFINE q == responses[session]
             d == Head(q).data
  <2>1. /\ doing = "execute" /\ awaiting \in {"write", "read"} /\ awaiting' = "read"
        /\ UNCHANGED <<session, command, channel>> /\ UNCHANGED world
        /\ q # <<>> /\ Fits(Head(q))
        /\ responses'[session] = Tail(q)
        /\ Len(requests'[session]) = Len(requests[session]) + 1
        /\ \A i \in Writes(requests'[session]) :
              i \in Writes(requests[session]) /\ requests'[session][i] = requests[session][i]
        /\ awaiting = "write" => buffer' = buffer
        /\ awaiting = "read" => buffer' = buffer \o d
    BY <1>0, <1>3, GoesOn
  <2>2. /\ session \in Sessions /\ Shape /\ q \in Seq(Responses) /\ buffer \in Texts
        /\ uart \in Texts /\ board \in Texts /\ Len(requests[session]) \in Nat
    BY <1>0, <2>1, Busy
  <2>3. d = q[1].data /\ 1 \in 1..Len(q) /\ Pending(session) = d /\ d \in Texts
    BY <2>1, <2>2, PendingText
  <2>4. awaiting = "write" => d = <<>>
    BY <1>0, <2>1, <2>2, <2>3 DEF Fits, DataInv
  <2>5. FreshInv'
    <3> SUFFICES ASSUME \E i \in Writes(requests'[session]) : requests'[session][i].cmd = command
                 PROVE  /\ command \notin Sources(buffer') \cup Sources(uart') \cup Sources(board')
                        /\ Unheard(session, command, Len(responses[session]))'
      BY <2>1 DEF FreshInv
    <3>1. \E i \in Writes(requests[session]) : requests[session][i].cmd = command
      BY <2>1
    <3>2. /\ command \notin Sources(buffer) \cup Sources(uart) \cup Sources(board)
          /\ \A j \in 1..Len(q) : command \notin Sources(q[j].data)
      BY <2>1, <3>1 DEF TextInv, FreshInv, Unheard
    <3>3. command \notin Sources(buffer')
      <4>1. command \notin Sources(d)
        BY <2>3, <3>2
      <4> HIDE DEF d
      <4>2. Sources(buffer \o d) \subseteq Sources(buffer) \cup Sources(d)
        BY <2>2, <2>3, JoinedSources DEF Texts
      <4> QED BY <2>1, <3>2, <4>1, <4>2
    <3>4. Unheard(session, command, Len(responses[session]))'
      <4>1. \A j \in 1..Len(Tail(q)) : command \notin Sources(Tail(q)[j].data)
        <5> HIDE DEF q
        <5>1. \A j \in 1..Len(Tail(q)) : j + 1 \in 1..Len(q) /\ Tail(q)[j] = q[j + 1]
          BY <2>1, <2>2, ResponseTaken
        <5> QED BY <3>2, <5>1
      <4> QED BY <2>1, <4>1 DEF Unheard
    <3> QED BY <2>1, <3>2, <3>3, <3>4 DEF world
  <2>6. FlowInv'
    <3>1. uart' = uart /\ board' = board /\ Heard(session)' = Heard(session)
      BY <2>1 DEF world, Heard
    <3>2. Flow(command, <<>>, <<>>, uart, board, FALSE)
      BY <2>1 DEF TextInv, FlowInv
    <3>3. ASSUME OneUnderWay(session)'
          PROVE  Flow(command, buffer', Pending(session)', uart, board, Heard(session))
      <4>1. OneUnderWay(session)
        <5> DEFINE a == Len(requests[session])
                   b == Len(q)
        <5>1. Len(Tail(q)) = b - 1 /\ b \in Nat
          BY <2>1, <2>2, ResponseTaken
        <5>2. (a + 1) + (b - 1) <= 1 /\ a \in Nat
          BY <2>1, <2>2, <3>3, <5>1 DEF OneUnderWay
        <5>3. a + b <= 1
          <6> HIDE DEF a, b
          <6> QED BY <5>1, <5>2
        <5> QED BY <5>3 DEF OneUnderWay
      <4>2. Flow(command, buffer, d, uart, board, Heard(session))
        BY <2>1, <2>3, <4>1 DEF TextInv, FlowInv
      <4>3. Pending(session)' = <<>>
        <5>1. Tail(q) = <<>>
          BY <1>0, <2>1, <4>1, OnlyResponse
        <5> QED BY <2>1, <5>1 DEF Pending
      <4>4. CASE awaiting = "write"
        BY <2>1, <2>4, <4>2, <4>3, <4>4
      <4>5. CASE awaiting = "read"
        <5> DEFINE w == Heard(session)
        <5>1. buffer' = buffer \o d /\ Flow(command, buffer, d, uart, board, w)
          BY <2>1, <4>2, <4>5
        <5> HIDE DEF d, w
        <5>2. Flow(command, buffer \o d, <<>>, uart, board, w)
          BY <2>2, <2>3, <5>1, FlowReceived
        <5> QED BY <4>3, <5>1, <5>2 DEF w
      <4> QED BY <2>1, <4>4, <4>5
    <3> QED BY <2>1, <3>1, <3>2, <3>3 DEF FlowInv
  <2> QED BY <1>0, <1>1, <2>5, <2>6 DEF TextInv
<1> QED BY <1>2, <1>3

LEMMA ClientFlows ==
  ASSUME TextInv, ClientStep
  PROVE  TextInv'
<1>0. LinkInv /\ DataInv /\ LinkInv'
  BY ClientInStep DEF TextInv
<1>1. ASSUME Consumes, UNCHANGED responses \/ session # 0, doing' # "execute"
      PROVE  TextInv'
  BY <1>0, <1>1, ClientData DEF TextInv, FreshInv, FlowInv
<1>2. CASE \E s \in Sessions : Connect(s)
  <2>1. Consumes /\ UNCHANGED responses /\ doing' # "execute"
    BY <1>2 DEF Connect, Consumes
  <2> QED BY <1>1, <2>1
<1>3. CASE Execute
  BY <1>3, ExecuteFlows
<1>4. CASE Close
  <2>1. Consumes /\ UNCHANGED responses /\ doing' # "execute"
    BY <1>4 DEF Close, Consumes
  <2> QED BY <1>1, <2>1
<1>5. CASE Receive
  BY <1>5, ReceiveFlows
<1>6. CASE TimeOut \/ SeeEnd \/ GiveUp
  <2>1. Consumes /\ Raise
    BY <1>6 DEF TimeOut, SeeEnd, GiveUp, Consumes
  <2> QED BY <1>0, <1>1, <2>1, RaiseLeaves
<1> QED BY <1>2, <1>3, <1>4, <1>5, <1>6 DEF ClientStep

------------------------------------------------------------------------------
(* The stand and the texts.                                                *)

(* The port may be wiped, which is the end of the whole, or another        *)
(* command written.                                                        *)
LEMMA FlowServed ==
  ASSUME NEW c \in 0..MaxCommands, c # 0, NEW read \in Texts, NEW next \in Texts,
         NEW port \in Texts, NEW rest \in Texts, NEW whole, Flow(c, read, next, port, rest, whole),
         NEW p, NEW b, NEW w \in BOOLEAN, w => whole, NEW k \in 0..MaxCommands,
         p = port \/ (p = <<>> /\ ~w),
         \/ b = rest
         \/ /\ b = rest \o Printed(k) /\ p = port
            /\ k = c => /\ c \notin Sources(read) /\ c \notin Sources(next)
                        /\ c \notin Sources(port) /\ c \notin Sources(rest)
  PROVE  Flow(c, read, next, p, b, w)
<1>1. Flow(c, read, next, port, rest, w)
  BY DEF Flow
<1>2. CASE b = rest
  <2>1. CASE p = port
    BY <1>1, <1>2, <2>1
  <2>2. CASE p = <<>> /\ ~w
    <3>1. Flow(c, read, next, <<>>, rest, FALSE) /\ w = FALSE
      BY <1>1, <2>2, FlowLost
    <3> QED BY <1>2, <2>2, <3>1
  <2> QED BY <2>1, <2>2
<1>3. CASE /\ b = rest \o Printed(k) /\ p = port
           /\ k = c => /\ c \notin Sources(read) /\ c \notin Sources(next)
                       /\ c \notin Sources(port) /\ c \notin Sources(rest)
  BY <1>1, <1>3, FlowWritten
<1> QED BY <1>2, <1>3

(* What the agent of s does with its next request. *)
LEMMA Served ==
  ASSUME LinkInv, NEW s \in Sessions, Serve(s)
  PROVE  LET q == requests[s] IN
         \E a \in Responses :
            /\ q \in Seq(Requests) /\ q # <<>> /\ Head(q) \in Requests /\ Head(q) = q[1]
            /\ Serves(s, Head(q), a) /\ requests'[s] = Tail(q)
            /\ \A t \in Sessions : t # s => requests'[t] = requests[t]
            /\ Len(q) \in Nat \ {0} /\ Len(Tail(q)) = Len(q) - 1
            /\ \A i \in Writes(Tail(q)) : i \in Nat \ {0} /\ i + 1 \in Writes(q) /\ Tail(q)[i] = q[i + 1]
            /\ Head(q).kind = "write" /\ Head(q).cmd # 0 => 1 \in Writes(q)
            /\ Head(q).kind = "open" => 1 \in Opens(q)
<1> DEFINE q == requests[s]
<1>1. q \in Seq(Requests) /\ q # <<>>
  BY DEF LinkInv, CommandInv, Shape, Serve
<1>2. PICK a \in Responses : Serves(s, Head(q), a)
  BY ServeSummary DEF LinkInv
<1>3. requests'[s] = Tail(q) /\ \A t \in Sessions : t # s => requests'[t] = requests[t]
  BY <1>2 DEF LinkInv, CommandInv, Shape, Serves
<1> HIDE DEF q
<1>4. /\ Head(q) \in Requests /\ Head(q) = q[1] /\ Len(q) \in Nat \ {0} /\ Len(Tail(q)) = Len(q) - 1
      /\ \A i \in Writes(Tail(q)) : i \in Nat \ {0} /\ i + 1 \in Writes(q) /\ Tail(q)[i] = q[i + 1]
      /\ Head(q).kind = "write" /\ Head(q).cmd # 0 => 1 \in Writes(q)
      /\ Head(q).kind = "open" => 1 \in Opens(q)
  BY <1>1, RequestTaken
<1> QED BY <1>1, <1>2, <1>3, <1>4 DEF q

LEMMA ServeData ==
  ASSUME LinkInv, DataInv, NEW s \in Sessions, NEW r, NEW a \in Responses, Serves(s, r, a)
  PROVE  DataInv'
<1>1. a.kind # "data" => a.data = <<>>
  BY DEF Serves, Outcome
<1> DEFINE p == responses[s]
<1>2. p \in Seq(Responses) /\ \A i \in 1..Len(p) : p[i].kind # "data" => p[i].data = <<>>
  BY DEF LinkInv, CommandInv, Shape, DataInv
<1> SUFFICES ASSUME NEW t \in Sessions, NEW i \in 1..Len(responses'[t])
             PROVE  responses'[t][i].kind # "data" => responses'[t][i].data = <<>>
  BY DEF DataInv
<1>3. CASE responses'[t] = responses[t]
  BY <1>3 DEF DataInv
<1>4. CASE t = s /\ responses'[s] = Append(p, a)
  <2>1. i \in 1..Len(Append(p, a)) /\ responses'[t][i] = Append(p, a)[i]
    BY <1>4
  <2> HIDE DEF p
  <2>2. (i \in 1..Len(p) /\ Append(p, a)[i] = p[i]) \/ Append(p, a)[i] = a
    BY <1>2, <2>1
  <2> QED BY <1>1, <1>2, <2>1, <2>2
<1> QED BY <1>3, <1>4 DEF Serves

LEMMA ServeFresh ==
  ASSUME TextInv, NEW s \in Sessions, Serve(s)
  PROVE  FreshInv'
<1> DEFINE q == requests[s]
           r == Head(q)
<1>0. LinkInv /\ FreshInv /\ Shape /\ WriteInv /\ OrderInv
  BY DEF TextInv, LinkInv, CommandInv, StepInv
<1>1. PICK a \in Responses :
            /\ q \in Seq(Requests) /\ q # <<>> /\ r \in Requests /\ r = q[1]
            /\ Serves(s, r, a) /\ requests'[s] = Tail(q)
            /\ \A t \in Sessions : t # s => requests'[t] = requests[t]
            /\ \A i \in Writes(Tail(q)) : i \in Nat \ {0} /\ i + 1 \in Writes(q) /\ Tail(q)[i] = q[i + 1]
            /\ r.kind = "write" /\ r.cmd # 0 => 1 \in Writes(q)
  BY <1>0, Served
<1>2. /\ UNCHANGED <<session, doing, awaiting, command, buffer, channel>>
      /\ \A t \in Sessions : t # s => responses'[t] = responses[t]
      /\ responses'[s] = responses[s] \/ responses'[s] = Append(responses[s], a)
      /\ Outcome(s, r, a.kind, a.data)
  BY <1>1 DEF Serves
<1> HIDE DEF q, r
<1>3. /\ Sources(uart') \cup Sources(a.data) \subseteq Sources(uart)
      /\ \/ board' = board
         \/ /\ r.kind = "write"
            /\ Sources(board') \subseteq Sources(board) \cup {r.cmd}
  BY <1>0, <1>1, <1>2, OutcomeSources
<1> SUFFICES ASSUME doing = "execute", NEW i \in Writes(requests'[session]),
                    requests'[session][i].cmd = command
             PROVE  /\ command \notin Sources(buffer) \cup Sources(uart') \cup Sources(board')
                    /\ Unheard(session, command, Len(responses[session]))'
  BY <1>2 DEF FreshInv
<1>4. session \in Sessions /\ command # 0 /\ responses[session] \in Seq(Responses)
  BY <1>0, Busy DEF WriteInv
<1>5. \E j \in Writes(requests[session]) : requests[session][j].cmd = command
  <2>1. CASE session = s
    BY <1>1, <2>1 DEF q
  <2>2. CASE session # s
    BY <1>1, <1>4, <2>2
  <2> QED BY <2>1, <2>2
<1>6. /\ command \notin Sources(buffer) \cup Sources(uart) \cup Sources(board)
      /\ \A j \in 1..Len(responses[session]) : command \notin Sources(responses[session][j].data)
  BY <1>0, <1>5 DEF FreshInv, Unheard
<1>7. ~(r.kind = "write" /\ r.cmd = command)
  <2> SUFFICES ASSUME r.kind = "write", r.cmd = command
               PROVE  FALSE
    OBVIOUS
  <2>1. 1 \in Writes(requests[s]) /\ requests[s][1].cmd = command
    BY <1>1, <1>4 DEF q
  <2>2. s = session
    BY <1>0, <2>1 DEF WriteInv
  <2>3. i \in Nat \ {0} /\ i + 1 \in Writes(requests[s]) /\ requests[s][i + 1].cmd = command
    BY <1>1, <2>2 DEF q
  <2>4. 1 < i + 1 /\ ~(command < command) /\ command \in Nat
    BY <1>0, <2>3 DEF Shape
  <2> QED BY <1>0, <2>1, <2>3, <2>4 DEF OrderInv
<1>8. command \notin Sources(buffer) \cup Sources(uart') \cup Sources(board')
  BY <1>3, <1>6, <1>7
<1>9. Unheard(session, command, Len(responses[session]))'
  <2>1. CASE responses'[session] = responses[session]
    BY <1>2, <1>6, <2>1 DEF Unheard
  <2>2. CASE responses'[session] = Append(responses[session], a)
    <3> DEFINE p == responses[session]
               g == Append(p, a)
    <3>1. \A j \in 1..Len(g) : (j \in 1..Len(p) /\ g[j] = p[j]) \/ g[j] = a
      <4> HIDE DEF p
      <4> QED BY <1>4 DEF p
    <3>2. command \notin Sources(a.data)
      BY <1>3, <1>6
    <3> HIDE DEF g
    <3>3. \A j \in 1..Len(g) : command \notin Sources(g[j].data)
      BY <1>6, <3>1, <3>2
    <3> QED BY <1>2, <2>2, <3>3 DEF Unheard, g
  <2> QED BY <1>2, <1>4, <2>1, <2>2
<1> QED BY <1>8, <1>9

LEMMA ServeFlow ==
  ASSUME TextInv, NEW s \in Sessions, Serve(s)
  PROVE  FlowInv'
<1> DEFINE q == requests[s]
           r == Head(q)
<1>0. /\ LinkInv /\ DataInv /\ FreshInv /\ FlowInv /\ Shape /\ WriteInv /\ OrderInv /\ SessionInv
  BY DEF TextInv, LinkInv, CommandInv, StepInv
<1>1. PICK a \in Responses :
            /\ q \in Seq(Requests) /\ q # <<>> /\ r \in Requests /\ r = q[1]
            /\ Serves(s, r, a) /\ requests'[s] = Tail(q)
            /\ \A t \in Sessions : t # s => requests'[t] = requests[t]
            /\ Len(q) \in Nat \ {0} /\ Len(Tail(q)) = Len(q) - 1
            /\ r.kind = "write" /\ r.cmd # 0 => 1 \in Writes(q)
            /\ r.kind = "open" => 1 \in Opens(q)
  BY <1>0, Served
<1>2. /\ UNCHANGED <<session, doing, awaiting, command, buffer, channel>>
      /\ \A t \in Sessions : t # s => responses'[t] = responses[t]
      /\ \/ channel[s] # "open" /\ responses'[s] = responses[s]
         \/ channel[s] = "open" /\ responses'[s] = Append(responses[s], a)
      /\ Outcome(s, r, a.kind, a.data)
  BY <1>1 DEF Serves
<1> HIDE DEF r
<1> SUFFICES ASSUME doing = "execute"
             PROVE  /\ Flow(command, <<>>, <<>>, uart', board', FALSE)
                    /\ OneUnderWay(session)' =>
                          Flow(command, buffer, Pending(session)', uart', board', Heard(session)')
  BY <1>2 DEF FlowInv
<1>3. /\ session \in Sessions /\ responses[session] \in Seq(Responses)
      /\ Len(responses[session]) \in Nat
      /\ buffer \in Texts /\ uart \in Texts /\ board \in Texts /\ Pending(session) \in Texts
      /\ command # 0 /\ command \in 0..MaxCommands /\ r.cmd \in 0..MaxCommands
  BY <1>0, <1>1, Busy, PendingText DEF WriteInv, Shape, Requests
<1>4. r.kind = "write" /\ r.cmd = command =>
         /\ s = session
         /\ command \notin Sources(buffer) /\ command \notin Sources(uart) /\ command \notin Sources(board)
         /\ command \notin Sources(Pending(session))
  <2> SUFFICES ASSUME r.kind = "write", r.cmd = command
               PROVE  /\ s = session
                      /\ command \notin Sources(buffer) /\ command \notin Sources(uart)
                      /\ command \notin Sources(board)
                      /\ command \notin Sources(Pending(session))
    OBVIOUS
  <2>1. 1 \in Writes(requests[s]) /\ requests[s][1].cmd = command
    BY <1>1, <1>3 DEF r
  <2>2. s = session
    BY <1>0, <2>1 DEF WriteInv
  <2>3. /\ command \notin Sources(buffer) /\ command \notin Sources(uart) /\ command \notin Sources(board)
        /\ \A j \in 1..Len(responses[session]) : command \notin Sources(responses[session][j].data)
    BY <1>0, <2>1, <2>2 DEF FreshInv, Unheard
  <2>4. command \notin Sources(Pending(session))
    <3>1. CASE responses[session] = <<>>
      BY <3>1, NoSource DEF Pending
    <3>2. CASE responses[session] # <<>>
      BY <1>0, <1>3, <2>3, <3>2, PendingText
    <3> QED BY <3>1, <3>2
  <2> QED BY <2>2, <2>3, <2>4
<1>5. /\ uart' = uart \/ uart' = <<>>
      /\ \/ board' = board
         \/ board' = board \o Printed(r.cmd) /\ uart' = uart /\ r.kind = "write"
  BY <1>2 DEF Outcome, Release
<1> DEFINE e == <<>>
<1>6. e \in Texts /\ command \notin Sources(e)
  BY NoSource DEF Texts
<1>7. Flow(command, e, e, uart, board, FALSE)
  BY <1>0 DEF FlowInv
<1>8. Flow(command, e, e, uart', board', FALSE)
  <2> DEFINE k == r.cmd
             w == FALSE
             p == uart'
             b == board'
  <2>1. /\ p = uart \/ (p = <<>> /\ ~w)
        /\ \/ b = board
           \/ /\ b = board \o Printed(k) /\ p = uart
              /\ k = command => /\ command \notin Sources(e)
                                /\ command \notin Sources(uart) /\ command \notin Sources(board)
    BY <1>4, <1>5, <1>6
  <2>2. k \in 0..MaxCommands /\ w \in BOOLEAN /\ Flow(command, e, e, uart, board, w) /\ w = FALSE
    BY <1>3, <1>7
  <2> HIDE DEF k, w, p, b, e
  <2>3. Flow(command, e, e, p, b, w)
    BY <1>3, <1>6, <2>1, <2>2, FlowServed
  <2> QED BY <2>2, <2>3 DEF p, b
<1>9. ASSUME NEW next \in Texts, Flow(command, buffer, next, uart, board, Heard(session)),
             r.kind = "write" /\ r.cmd = command => command \notin Sources(next),
             Heard(session)' => Heard(session) /\ uart' = uart
      PROVE  Flow(command, buffer, next, uart', board', Heard(session)')
  <2> DEFINE k == r.cmd
             w == Heard(session)'
             h == Heard(session)
             p == uart'
             b == board'
  <2>1. /\ p = uart \/ (p = <<>> /\ ~w)
        /\ \/ b = board
           \/ /\ b = board \o Printed(k) /\ p = uart
              /\ k = command => /\ command \notin Sources(buffer) /\ command \notin Sources(next)
                                /\ command \notin Sources(uart) /\ command \notin Sources(board)
    BY <1>4, <1>5, <1>9
  <2>2. /\ k \in 0..MaxCommands /\ w \in BOOLEAN /\ Flow(command, buffer, next, uart, board, h)
        /\ w => h
    BY <1>3, <1>9 DEF Heard
  <2> HIDE DEF k, w, p, b, h
  <2>3. Flow(command, buffer, next, uart, board, w)
    BY <2>2 DEF Flow
  <2>4. CASE b = board
    <3>1. Flow(command, buffer, next, <<>>, board, FALSE)
      BY <1>3, <2>3, FlowLost
    <3>2. ~w => w = FALSE
      BY <2>2
    <3> QED BY <2>1, <2>3, <2>4, <3>1, <3>2 DEF p, b, w
  <2>5. CASE b # board
    <3>1. Flow(command, buffer, next, uart, board \o Printed(k), w)
      BY <1>3, <2>1, <2>2, <2>3, <2>5, FlowWritten
    <3> QED BY <2>1, <2>5, <3>1 DEF p, b, w
  <2> QED BY <2>4, <2>5
<1>10. s # session => (Heard(session)' => Heard(session) /\ uart' = uart)
  <2> SUFFICES ASSUME s # session, session \in holders', channel[session] = "open"
               PROVE  session \in holders /\ uart' = uart
    BY <1>2 DEF Heard
  <2>1. session \in holders
    BY <1>2 DEF Outcome, Release
  <2>2. s \notin holders
    BY <1>0, <2>1 DEF OrderInv
  <2> QED BY <1>2, <2>1, <2>2 DEF Outcome, Release
<1>11. CASE s # session
  <2>1. /\ Pending(session)' = Pending(session) /\ (OneUnderWay(session)' => OneUnderWay(session))
    BY <1>1, <1>2, <1>3, <1>11 DEF Pending, OneUnderWay
  <2> SUFFICES ASSUME OneUnderWay(session)
               PROVE  Flow(command, buffer, Pending(session), uart', board', Heard(session)')
    BY <1>8, <2>1
  <2>2. Flow(command, buffer, Pending(session), uart, board, Heard(session))
    BY <1>0 DEF FlowInv
  <2> QED BY <1>3, <1>4, <1>9, <1>10, <1>11, <2>2
<1>12. CASE s = session
  <2>0. r.kind # "open"
    BY <1>0, <1>1, <1>3, <1>12 DEF SessionInv
  <2> DEFINE x == Len(q)
             y == Len(responses[session])
             d == Len(responses'[session])
  <2>1. /\ x \in Nat \ {0} /\ y \in Nat
        /\ OneUnderWay(session)' <=> (x - 1) + d <= 1
        /\ OneUnderWay(session) <=> x + y <= 1
    BY <1>1, <1>2, <1>3, <1>12 DEF OneUnderWay
  <2>2. /\ channel[s] # "open" => d = y
        /\ channel[s] = "open" => d = y + 1
    <3> DEFINE g == responses[session]
    <3>1. Len(Append(g, a)) = Len(g) + 1
      <4> HIDE DEF g
      <4> QED BY <1>3 DEF g
    <3> QED BY <1>2, <1>12, <3>1
  <2>3. CASE OneUnderWay(session)
    <3>1. y = 0
      <4> HIDE DEF x, y
      <4> QED BY <2>1, <2>3
    <3>2. responses[session] = <<>>
      BY <1>3, <3>1
    <3>3. Pending(session) = e
      BY <3>2 DEF Pending
    <3>4. Pending(session)' = IF channel[s] = "open" THEN a.data ELSE e
      <4>1. CASE channel[s] # "open"
        BY <1>2, <1>12, <3>2, <4>1 DEF Pending
      <4>2. CASE channel[s] = "open"
        <5>1. responses'[session] = Append(<<>>, a)
          BY <1>2, <1>12, <3>2, <4>2
        <5>2. Append(<<>>, a) # <<>> /\ Append(<<>>, a)[1] = a
          OBVIOUS
        <5>3. Pending(session)' = a.data
          BY <1>2, <5>1, <5>2 DEF Pending
        <5> QED BY <4>2, <5>3
      <4> QED BY <4>1, <4>2
    <3>5. Flow(command, buffer, e, uart, board, Heard(session))
      BY <1>0, <2>3, <3>3 DEF FlowInv
    <3>6. CASE /\ r.kind = "read" /\ s \in holders /\ channel[s] = "open"
               /\ uart' = <<>> /\ a.data = uart /\ UNCHANGED <<holders, board>>
      <4>1. Heard(session) = TRUE /\ Heard(session)' = TRUE /\ Pending(session)' = uart
        BY <1>2, <1>12, <3>4, <3>6 DEF Heard
      <4>2. Flow(command, buffer, <<>>, uart, board, TRUE)
        BY <3>5, <4>1
      <4>3. Flow(command, buffer, uart, <<>>, board, TRUE)
        BY <1>3, <4>2, FlowTaken
      <4> QED BY <1>8, <3>6, <4>1, <4>3
    <3>7. CASE ~(r.kind = "read" /\ s \in holders /\ channel[s] = "open" /\ a.data = uart)
      <4>1. Heard(session)' => Heard(session) /\ uart' = uart
        BY <1>2, <1>12, <2>0, <3>7 DEF Heard, Outcome, Release
      <4>2. Pending(session)' = e
        BY <1>2, <3>4, <3>7 DEF Outcome
      <4>3. Flow(command, buffer, e, uart', board', Heard(session)')
        <5> HIDE DEF e
        <5> QED BY <1>6, <1>9, <3>5, <4>1
      <4> QED BY <1>8, <4>2, <4>3
    <3>8. CASE /\ r.kind = "read" /\ s \in holders /\ channel[s] = "open" /\ a.data = uart
               /\ ~(uart' = <<>> /\ UNCHANGED <<holders, board>>)
      <4>1. a.data = <<>> /\ uart' = uart /\ holders' = holders
        BY <1>2, <3>8 DEF Outcome
      <4>2. Heard(session)' => Heard(session) /\ uart' = uart
        BY <1>2, <4>1 DEF Heard
      <4>3. Flow(command, buffer, e, uart', board', Heard(session)')
        <5> HIDE DEF e
        <5> QED BY <1>6, <1>9, <3>5, <4>2
      <4> QED BY <1>8, <3>4, <4>1, <4>3
    <3> QED BY <3>6, <3>7, <3>8
  <2>4. CASE ~OneUnderWay(session)
    <3> SUFFICES ASSUME OneUnderWay(session)'
                 PROVE  Flow(command, buffer, Pending(session)', uart', board', Heard(session)')
      BY <1>8
    <3>1. channel[s] # "open"
      <4> HIDE DEF x, y, d
      <4> QED BY <2>1, <2>2, <2>4
    <3>2. Pending(session)' = Pending(session) /\ Heard(session)' = FALSE
      BY <1>2, <1>12, <3>1 DEF Pending, Heard
    <3>3. command \notin Sources(buffer) /\ command \notin Sources(Pending(session))
      BY <1>0, <2>4, OutOfStep
    <3> DEFINE p == uart'
               b == board'
               n == Pending(session)
    <3>4. p \in Texts /\ b \in Texts /\ Flow(command, <<>>, <<>>, p, b, FALSE)
      <4>1. Shape'
        BY <1>0, ServeInStep DEF LinkInv, CommandInv
      <4> QED BY <1>8, <4>1 DEF Shape, Texts
    <3> HIDE DEF p, b, n
    <3>5. Flow(command, buffer, n, p, b, FALSE)
      BY <1>3, <3>3, <3>4, FlowApart DEF n
    <3> QED BY <3>2, <3>5 DEF p, b, n
  <2> QED BY <2>3, <2>4
<1> QED BY <1>11, <1>12

LEMMA ServeFlows ==
  ASSUME TextInv, NEW s \in Sessions, Serve(s)
  PROVE  TextInv'
<1>1. LinkInv /\ DataInv
  BY DEF TextInv
<1>2. \E a \in Responses : Serves(s, Head(requests[s]), a)
  BY <1>1, ServeSummary DEF LinkInv
<1>3. DataInv'
  BY <1>1, <1>2, ServeData
<1> QED BY <1>1, <1>3, ServeInStep, ServeFresh, ServeFlow DEF TextInv

LEMMA ReleaseFlows ==
  ASSUME TextInv, NEW s \in Sessions, EndOfFile(s) \/ Die(s)
  PROVE  TextInv'
<1>0. LinkInv /\ LinkInv' /\ OrderInv
  BY ReleaseInStep DEF TextInv, LinkInv, CommandInv
<1>1. /\ Release(s)
      /\ UNCHANGED <<session, doing, awaiting, command, buffer, channel, requests, responses, board>>
  BY DEF EndOfFile, Die
<1>2. DataInv' /\ Pending(session)' = Pending(session) /\ OneUnderWay(session)' = OneUnderWay(session)
  BY <1>1 DEF TextInv, DataInv, Pending, OneUnderWay
<1>3. FreshInv'
  <2>1. Sources(uart') \subseteq Sources(uart)
    BY <1>1, NoSource DEF Release
  <2> QED BY <1>1, <2>1 DEF TextInv, FreshInv, Unheard
<1>4. FlowInv'
  <2> SUFFICES ASSUME doing = "execute"
               PROVE  /\ Flow(command, <<>>, <<>>, uart', board, FALSE)
                      /\ OneUnderWay(session) =>
                            Flow(command, buffer, Pending(session), uart', board, Heard(session)')
    BY <1>1, <1>2 DEF FlowInv
  <2>1. /\ buffer \in Texts /\ uart \in Texts /\ board \in Texts /\ Pending(session) \in Texts
        /\ <<>> \in Texts
    BY <1>0, Busy, PendingText DEF Texts
  <2>2. /\ Flow(command, <<>>, <<>>, uart, board, FALSE)
        /\ OneUnderWay(session) => Flow(command, buffer, Pending(session), uart, board, Heard(session))
    BY DEF TextInv, FlowInv
  <2>3. CASE s \notin holders
    <3>1. uart' = uart /\ Heard(session)' = Heard(session)
      BY <1>1, <2>3 DEF Release, Heard
    <3> QED BY <2>2, <3>1
  <2>4. CASE s \in holders
    <3>1. uart' = <<>> /\ Heard(session)' = FALSE
      BY <1>0, <1>1, <2>4 DEF Release, Heard, OrderInv
    <3> DEFINE e == <<>>
               n == Pending(session)
               h == Heard(session)
    <3> HIDE DEF e, n, h
    <3>2. Flow(command, e, e, <<>>, board, FALSE)
      BY <2>1, <2>2, FlowLost DEF e
    <3>3. OneUnderWay(session) => Flow(command, buffer, n, <<>>, board, FALSE)
      BY <2>1, <2>2, FlowLost DEF n, h
    <3> QED BY <3>1, <3>2, <3>3 DEF e, n
  <2> QED BY <2>3, <2>4
<1> QED BY <1>0, <1>2, <1>3, <1>4 DEF TextInv

LEMMA LoseLinkFlows ==
  ASSUME TextInv, NEW s \in Sessions, LoseLink(s)
  PROVE  TextInv'
<1>0. LinkInv /\ DataInv /\ LinkInv'
  BY LoseLinkInStep DEF TextInv
<1>1. PICK n \in 0..Len(responses[s]) : responses' = [responses EXCEPT ![s] = SubSeq(@, 1, n)]
  BY DEF LoseLink
<1> DEFINE q == responses[s]
           g == SubSeq(q, 1, n)
<1>2. /\ q \in Seq(Responses) /\ n \in 0..Len(q) /\ responses'[s] = g
      /\ \A t \in Sessions : t # s => responses'[t] = responses[t] /\ channel'[t] = channel[t]
      /\ channel'[s] = "closed"
      /\ UNCHANGED <<session, doing, awaiting, command, buffer, requests>> /\ UNCHANGED world
  BY <1>0, <1>1 DEF LinkInv, CommandInv, Shape, LoseLink
<1>3. \A j \in 1..Len(q) : q[j].kind # "data" => q[j].data = <<>>
  BY <1>0 DEF DataInv
<1> HIDE DEF q
<1>4. /\ Len(g) = n /\ Len(q) \in Nat /\ n \in Nat /\ n <= Len(q)
      /\ \A j \in 1..n : g[j] = q[j] /\ j \in 1..Len(q)
      /\ g = <<>> \/ (g # <<>> /\ q # <<>> /\ g[1] = q[1])
  <2>1. /\ Len(g) = n /\ Len(q) \in Nat /\ n \in Nat /\ n <= Len(q) /\ g \in Seq(Responses)
        /\ \A j \in 1..n : g[j] = q[j] /\ j \in 1..Len(q)
    BY <1>2
  <2> HIDE DEF g
  <2>2. g # <<>> => 1 \in 1..n
    BY <2>1
  <2>3. 1 \in 1..n => q # <<>>
    BY <2>1, <1>2
  <2> QED BY <2>1, <2>2, <2>3
<1> HIDE DEF g
<1>5. DataInv'
  <2>1. ASSUME NEW t \in Sessions, NEW i \in 1..Len(responses'[t])
        PROVE  responses'[t][i].kind # "data" => responses'[t][i].data = <<>>
    <3>1. CASE t = s
      BY <1>2, <1>3, <1>4, <3>1
    <3>2. CASE t # s
      BY <1>0, <1>2, <3>2 DEF DataInv
    <3> QED BY <3>1, <3>2
  <2> QED BY <2>1 DEF DataInv
<1>6. FreshInv'
  <2> SUFFICES ASSUME doing = "execute",
                      \E i \in Writes(requests[session]) : requests[session][i].cmd = command
               PROVE  /\ command \notin Sources(buffer) \cup Sources(uart) \cup Sources(board)
                      /\ Unheard(session, command, Len(responses[session]))'
    BY <1>2 DEF FreshInv, world
  <2>1. /\ command \notin Sources(buffer) \cup Sources(uart) \cup Sources(board)
        /\ \A j \in 1..Len(responses[session]) : command \notin Sources(responses[session][j].data)
    BY DEF TextInv, FreshInv, Unheard
  <2>2. session \in Sessions
    BY <1>0, Busy
  <2>3. Unheard(session, command, Len(responses[session]))'
    <3>1. CASE session = s
      BY <1>2, <1>4, <2>1, <3>1 DEF Unheard, q
    <3>2. CASE session # s
      BY <1>2, <2>1, <2>2, <3>2 DEF Unheard
    <3> QED BY <3>1, <3>2
  <2> QED BY <2>1, <2>3
<1>7. FlowInv'
  <2> SUFFICES ASSUME doing = "execute"
               PROVE  /\ Flow(command, <<>>, <<>>, uart, board, FALSE)
                      /\ OneUnderWay(session)' =>
                            Flow(command, buffer, Pending(session)', uart, board, Heard(session)')
    BY <1>2 DEF FlowInv, world
  <2>1. /\ session \in Sessions /\ buffer \in Texts /\ uart \in Texts /\ board \in Texts
        /\ Pending(session) \in Texts /\ <<>> \in Texts
    BY <1>0, Busy, PendingText DEF Texts
  <2>2. /\ Flow(command, <<>>, <<>>, uart, board, FALSE)
        /\ OneUnderWay(session) => Flow(command, buffer, Pending(session), uart, board, Heard(session))
    BY DEF TextInv, FlowInv
  <2>3. CASE session # s
    <3>1. /\ Pending(session)' = Pending(session) /\ Heard(session)' = Heard(session)
          /\ OneUnderWay(session)' => OneUnderWay(session)
      BY <1>2, <2>1, <2>3 DEF Pending, Heard, OneUnderWay, world
    <3> QED BY <2>2, <3>1
  <2>4. CASE session = s
    <3>1. Heard(session)' = FALSE
      BY <1>2, <2>4 DEF Heard
    <3>2. Pending(session)' = <<>> \/ Pending(session)' = Pending(session)
      BY <1>2, <1>4, <2>4 DEF Pending, q
    <3> DEFINE e == <<>>
               p == Pending(session)
               h == Heard(session)
    <3>3. ASSUME NEW z \in {e, p}
          PROVE  Flow(command, buffer, z, uart, board, FALSE)
      <4>1. CASE OneUnderWay(session)
        <5>1. Flow(command, buffer, p, uart, board, h) /\ p \in Texts
          BY <2>1, <2>2, <4>1
        <5> HIDE DEF p, h
        <5>2. Flow(command, buffer, p, uart, board, FALSE)
          BY <2>1, <5>1, FlowLost
        <5>3. Flow(command, buffer, e, uart, board, FALSE)
          BY <2>1, <5>1, FlowUnheard
        <5> QED BY <3>3, <5>2, <5>3
      <4>2. CASE ~OneUnderWay(session)
        <5>1. command \notin Sources(buffer) /\ command \notin Sources(p)
          BY <1>0, <4>2, OutOfStep
        <5>2. command \notin Sources(z) /\ z \in Texts
          BY <2>1, <5>1, NoSource
        <5> HIDE DEF e, p
        <5> QED BY <2>1, <2>2, <5>1, <5>2, FlowApart
      <4> QED BY <4>1, <4>2
    <3>4. Flow(command, buffer, Pending(session)', uart, board, FALSE)
      BY <3>2, <3>3
    <3> QED BY <2>2, <3>1, <3>4
  <2> QED BY <2>3, <2>4
<1> QED BY <1>0, <1>5, <1>6, <1>7 DEF TextInv

LEMMA BoardPrintsFlows ==
  ASSUME TextInv, BoardPrints
  PROVE  TextInv'
<1>0. LinkInv /\ DataInv /\ LinkInv'
  BY BoardPrintsInStep DEF TextInv
<1>1. /\ UNCHANGED <<session, doing, awaiting, command, buffer, channel, requests, responses, holders>>
      /\ board # <<>> /\ board' = Tail(board) /\ board \in Seq(Items) /\ uart \in Seq(Items)
      /\ uart' = (IF holders # {} THEN Append(uart, Head(board)) ELSE uart)
  BY <1>0 DEF BoardPrints, LinkInv, CommandInv, Shape
<1>2. /\ DataInv' /\ Pending(session)' = Pending(session) /\ Heard(session)' = Heard(session)
      /\ OneUnderWay(session)' = OneUnderWay(session)
  BY <1>0, <1>1 DEF DataInv, Pending, Heard, OneUnderWay
<1>3. FreshInv'
  <2>1. Sources(board') \cup Sources(uart') \subseteq Sources(board) \cup Sources(uart)
    BY <1>1, TailSources
  <2> QED BY <1>1, <2>1 DEF TextInv, FreshInv, Unheard
<1>4. FlowInv'
  <2> SUFFICES ASSUME doing = "execute"
               PROVE  /\ Flow(command, <<>>, <<>>, uart', board', FALSE)
                      /\ OneUnderWay(session) =>
                            Flow(command, buffer, Pending(session), uart', board', Heard(session))
    BY <1>1, <1>2 DEF FlowInv
  <2> DEFINE e == <<>>
             n == Pending(session)
             h == Heard(session)
  <2>1. /\ buffer \in Texts /\ uart \in Texts /\ board \in Texts /\ n \in Texts /\ e \in Texts
    BY <1>0, Busy, PendingText DEF Texts
  <2>2. /\ Flow(command, e, e, uart, board, FALSE)
        /\ OneUnderWay(session) => Flow(command, buffer, n, uart, board, h)
    BY DEF TextInv, FlowInv
  <2>3. Append(uart, Head(board)) = uart \o <<Head(board)>>
    <3>1. Head(board) \in Items
      BY <1>1
    <3> QED BY <1>1, <3>1, AppendIsConcat
  <2>4. holders = {} => h = FALSE
    BY DEF Heard
  <2> HIDE DEF e, n, h
  <2>5. ASSUME NEW read \in Texts, NEW next \in Texts, NEW w, Flow(command, read, next, uart, board, w),
               holders = {} => w = FALSE
        PROVE  Flow(command, read, next, uart', board', w)
    <3>1. /\ Flow(command, read, next, uart \o <<Head(board)>>, Tail(board), w)
          /\ Flow(command, read, next, uart, Tail(board), FALSE)
      BY <1>1, <2>1, <2>5, FlowPrinted
    <3> QED BY <1>1, <2>3, <2>5, <3>1
  <2>6. Flow(command, e, e, uart', board', FALSE)
    BY <2>1, <2>2, <2>5
  <2>7. OneUnderWay(session) => Flow(command, buffer, n, uart', board', h)
    BY <2>1, <2>2, <2>4, <2>5
  <2> QED BY <2>6, <2>7 DEF e, n, h
<1> QED BY <1>0, <1>2, <1>3, <1>4 DEF TextInv

LEMMA TextStep ==
  ASSUME TextInv, [Next]_vars
  PROVE  TextInv'
<1>1. CASE ClientStep
  BY <1>1, ClientFlows
<1>2. CASE \E s \in Sessions : StandStep(s)
  BY <1>2, ServeFlows, ReleaseFlows, LoseLinkFlows DEF StandStep
<1>3. CASE BoardPrints
  BY <1>3, BoardPrintsFlows
<1>4. CASE UNCHANGED vars
  <2>1. LinkInv'
    BY LinkStep DEF TextInv
  <2>2. /\ UNCHANGED <<session, doing, awaiting, command, buffer, channel>>
        /\ UNCHANGED <<requests, responses, uart, board, holders>>
    BY <1>4 DEF vars
  <2>3. DataInv' /\ FreshInv'
    BY <2>2 DEF TextInv, DataInv, FreshInv, Unheard
  <2>4. /\ Pending(session)' = Pending(session) /\ Heard(session)' = Heard(session)
        /\ OneUnderWay(session)' = OneUnderWay(session)
    BY <2>2 DEF Pending, Heard, OneUnderWay
  <2>5. FlowInv'
    BY <2>2, <2>4 DEF TextInv, FlowInv
  <2> QED BY <2>1, <2>3, <2>5 DEF TextInv
<1> QED BY <1>1, <1>2, <1>3, <1>4 DEF Next

LEMMA TextInit == Init => TextInv
<1> SUFFICES ASSUME Init
             PROVE  TextInv
  OBVIOUS
<1>1. LinkInv /\ doing # "execute"
  BY LinkInit DEF Init
<1>2. \A s \in Sessions : 1..Len(responses[s]) = {}
  BY DEF Init
<1> QED BY <1>1, <1>2 DEF TextInv, DataInv, FreshInv, FlowInv

------------------------------------------------------------------------------
(* What a command that returns has returned.                               *)

(* The command returns, having read the text. *)
Completes(text) ==
    /\ doing = "execute" /\ doing' = "idle" /\ awaiting = "read" /\ awaiting' = "none"
    /\ OneUnderWay(session) /\ responses[session] # <<>>
    /\ text = buffer \o Pending(session)
    /\ Last(text).part = "prompt" /\ text # <<>>
    /\ \E i \in 1..Len(text) : text[i] = [cmd |-> command, part |-> "exit"]
    /\ Flow(command, text, <<>>, uart, board, Heard(session))
    /\ result' = [result EXCEPT ![command] = Returned(Stdout(text))]

LEMMA ResultStep ==
  ASSUME TextInv, Receive, doing = "execute", doing' = "idle", Fits(Head(responses[session]))
  PROVE  \E text \in Texts : Completes(text)
<1> DEFINE q == responses[session]
           r == Head(q)
           d == r.data
           text == buffer \o d
           m == IF awaiting = "read" THEN r ELSE [r EXCEPT !.data = <<>>]
<1>0. LinkInv /\ FlowInv
  BY DEF TextInv
<1>1. /\ Fits(r) /\ Proceed(m) /\ q # <<>>
      /\ responses' = [responses EXCEPT ![session] = Tail(@)]
  BY <1>0 DEF Receive, LinkInv, StepInv, WriteInv
<1>2. /\ awaiting = "read" /\ doing = "execute" /\ doing' = "idle" /\ awaiting' = "none"
      /\ Complete(text) /\ result' = [result EXCEPT ![command] = Returned(Stdout(text))]
  <2>1. /\ awaiting = "read" /\ doing = "execute" /\ doing' = "idle" /\ awaiting' = "none"
        /\ buffer' = text /\ Complete(buffer')
        /\ result' = [result EXCEPT ![command] = Returned(Stdout(buffer'))]
    BY <1>1 DEF Proceed
  <2> QED BY <2>1 DEF Complete, Stdout
<1>3. /\ session \in Sessions /\ Shape /\ q \in Seq(Responses) /\ buffer \in Texts
      /\ uart \in Texts /\ board \in Texts
  BY <1>0, <1>2, Busy
<1>4. d \in Texts /\ Pending(session) = d
  BY <1>1, <1>3, PendingText
<1>5. /\ Last(text).part = "prompt" /\ text # <<>>
      /\ \E i \in 1..Len(text) : text[i] = [cmd |-> command, part |-> "exit"]
  BY <1>2 DEF Complete
<1>6. OneUnderWay(session)
  <2> SUFFICES ASSUME ~OneUnderWay(session)
               PROVE  FALSE
    OBVIOUS
  <2>1. command \notin Sources(d) /\ command \notin Sources(buffer)
    BY <1>0, <1>1, <1>2, TakesAnother
  <2>2. \E i \in 1..Len(text) : text[i].cmd = command
    BY <1>5
  <2>3. command \in Sources(text)
    <3> HIDE DEF text
    <3> QED BY <2>2 DEF Sources
  <2>4. Sources(text) \subseteq Sources(buffer) \cup Sources(d)
    <3> HIDE DEF d
    <3> QED BY <1>3, <1>4, JoinedSources DEF Texts
  <2> QED BY <2>1, <2>3, <2>4
<1>7. text \in Texts /\ Flow(command, text, <<>>, uart, board, Heard(session))
  <2> DEFINE h == Heard(session)
  <2>1. Flow(command, buffer, d, uart, board, h)
    BY <1>0, <1>2, <1>4, <1>6 DEF FlowInv
  <2> HIDE DEF h, d
  <2>2. text \in Texts /\ Flow(command, text, <<>>, uart, board, h)
    BY <1>3, <1>4, <2>1, FlowReceived
  <2> QED BY <2>2 DEF h
<1>8. Completes(text)
  <2>1. text = buffer \o Pending(session)
    BY <1>4
  <2> HIDE DEF text, d
  <2> QED BY <1>1, <1>2, <1>5, <1>6, <1>7, <2>1 DEF Completes
<1> HIDE DEF text
<1> QED BY <1>7, <1>8

(* Only a command that reads its text returns. *)
LEMMA OnlyReceives ==
  ASSUME [Next]_vars, result' # result
  PROVE  Receive /\ doing = "execute" /\ doing' = "idle" /\ Fits(Head(responses[session]))
<1>1. ASSUME NEW s \in Sessions, Connect(s) \/ StandStep(s)
      PROVE  FALSE
  BY <1>1 DEF Connect, StandStep, Serve, EndOfFile, Die, LoseLink
<1>2. ~Execute /\ ~Close /\ ~TimeOut /\ ~SeeEnd /\ ~GiveUp /\ ~BoardPrints /\ ~UNCHANGED vars
  BY DEF Execute, Close, TimeOut, SeeEnd, GiveUp, BoardPrints, vars
<1>3. Receive
  BY <1>1, <1>2 DEF Next, ClientStep
<1> QED BY <1>3 DEF Receive, Proceed

Results == {Failed} \cup [done : {TRUE}, text : Seq(Items)]

(* The inductive invariant of OutputIsComplete. *)
CompleteInv == TextInv /\ result \in [Commands -> Results] /\ OutputIsComplete

LEMMA CompleteStep ==
  ASSUME CompleteInv, [Next]_vars
  PROVE  CompleteInv'
<1>0. TextInv /\ TextInv' /\ result \in [Commands -> Results]
  BY TextStep DEF CompleteInv
<1>1. CASE result' = result
  BY <1>0, <1>1 DEF CompleteInv, OutputIsComplete
<1>2. CASE result' # result
  <2>1. PICK text \in Texts : Completes(text)
    BY <1>0, <1>2, OnlyReceives, ResultStep
  <2> DEFINE out == Stdout(text)
             x == Returned(out)
  <2>2. /\ InOrder(command, text) /\ Begins(Parts(command, text))
        /\ doing = "execute" /\ result' = [result EXCEPT ![command] = x]
    <3>1. /\ Flow(command, text, <<>>, uart, board, Heard(session)) /\ doing = "execute"
          /\ result' = [result EXCEPT ![command] = x]
      BY <2>1 DEF Completes
    <3>2. Parts(command, <<>>) = {}
      BY NoParts
    <3>3. Begins(Parts(command, text))
      BY <3>1, <3>2 DEF Flow, Begins
    <3> QED BY <3>1, <3>3 DEF Flow
  <2>3. PICK k \in 1..Len(text) : text[k] = [cmd |-> command, part |-> "exit"]
    BY <2>1 DEF Completes
  <2>4. /\ out \in Texts
        /\ \E n \in 1..Len(out) :
              /\ out[n] = [cmd |-> command, part |-> "output"]
              /\ \A m \in 1..Len(out) : out[m].cmd = command => m = n
    BY <2>2, <2>3, StdoutText
  <2>5. command \in Commands
    <3>1. command # 0 /\ command \in 0..MaxCommands
      BY <1>0, <2>2 DEF TextInv, LinkInv, CommandInv, Shape, StepInv, WriteInv
    <3> QED BY <3>1, LinkAssumption DEF Commands, LinkAssumption
  <2> HIDE DEF out
  <2>6. x \in Results /\ x.text = out
    BY <2>4 DEF Returned, Results, Texts
  <2> HIDE DEF x
  <2>7. result' \in [Commands -> Results] /\ result'[command] = x
        /\ \A c \in Commands : c # command => result'[c] = result[c]
    BY <1>0, <2>2, <2>5, <2>6
  <2>8. OutputIsComplete'
    <3> SUFFICES ASSUME NEW c \in Commands, result'[c].done
                 PROVE  \E n \in 1..Len(result'[c].text) :
                           /\ result'[c].text[n] = [cmd |-> c, part |-> "output"]
                           /\ \A m \in 1..Len(result'[c].text) : result'[c].text[m].cmd = c => m = n
      BY DEF OutputIsComplete
    <3>1. CASE c = command
      BY <2>4, <2>6, <2>7, <3>1
    <3>2. CASE c # command
      BY <2>7, <3>2 DEF CompleteInv, OutputIsComplete
    <3> QED BY <3>1, <3>2
  <2> QED BY <1>0, <2>7, <2>8 DEF CompleteInv
<1> QED BY <1>1, <1>2

LEMMA CompleteInit == Init => CompleteInv
<1> SUFFICES ASSUME Init
             PROVE  CompleteInv
  OBVIOUS
<1>1. result = [c \in Commands |-> Failed] /\ Failed \in Results /\ ~Failed.done
  BY DEF Init, Results, Failed
<1>2. result \in [Commands -> Results] /\ \A c \in Commands : ~result[c].done
  BY <1>1
<1> QED BY <1>2, TextInit DEF CompleteInv, OutputIsComplete

(* A command that returns has returned all of its own output and once,     *)
(* however many requests timed out, links broke or sessions were opened    *)
(* before it: execute() never returns on the strength of a response that   *)
(* is not its own.                                                         *)
THEOREM OutputComplete == Spec => []OutputIsComplete
<1>1. CompleteInv => OutputIsComplete
  BY DEF CompleteInv
<1> QED BY CompleteInit, CompleteStep, <1>1, PTL DEF Spec

------------------------------------------------------------------------------
(* As long as nothing has failed.                                          *)

LEMMA TextLength ==
  ASSUME NEW t \in Texts
  PROVE  /\ Len(t) \in Nat /\ Len(<<>>) = 0
         /\ Len(t) = 0 => t = <<>>
         /\ t = <<>> => Len(t) = 0
  BY DEF Texts

(* The first request of a session that has none. *)
LEMMA OneRequest ==
  ASSUME Shape, NEW s \in Sessions, requests[s] = <<>>, NEW kind, NEW c, Send(s, kind, c)
  PROVE  requests'[s] = <<[kind |-> kind, cmd |-> c]>> /\ awaiting' = kind
<1> DEFINE r == [kind |-> kind, cmd |-> c]
           q == requests[s]
<1>1. requests'[s] = Append(q, r) /\ awaiting' = kind
  BY DEF Send, Shape
<1>2. Append(q, r) = <<r>>
  <2>1. q = <<>>
    OBVIOUS
  <2> HIDE DEF r, q
  <2> QED BY <2>1
<1> QED BY <1>1, <1>2

(* Every agent has one of its states, and close() waits for its own answer. *)
CallInv ==
    /\ agent \in [Sessions -> {"none", "up", "exited"}]
    /\ doing \in {"close", "abort"} <=> awaiting = "close"

LEMMA ConnectSmooth ==
  ASSUME LinkInv, CallInv, Unspoilt, NEW s \in Sessions, Connect(s)
  PROVE  Unspoilt'
<1>1. /\ doing = "idle" /\ session = 0 /\ channel[s] = "none" /\ session' = s
      /\ doing' = "connect" /\ agent' = [agent EXCEPT ![s] = "up"] /\ Send(s, "hello", 0)
      /\ UNCHANGED responses /\ UNCHANGED world
  BY DEF Connect
<1>2. /\ Shape /\ requests[s] = <<>> /\ responses[s] = <<>> /\ s # 0
  BY <1>1, LinkAssumption DEF LinkInv, CommandInv, SessionInv, Sessions, LinkAssumption
<1>3. Alone'
  BY <1>1 DEF Unspoilt, Alone, CallInv, Sessions
<1>4. Turns'
  <2>1. requests'[s] = <<[kind |-> "hello", cmd |-> 0]>> /\ awaiting' = "hello"
    BY <1>1, <1>2, OneRequest
  <2>2. Awaited' = [kind |-> "hello", cmd |-> 0]
    BY <1>1, <2>1 DEF Awaited
  <2> QED BY <1>1, <1>2, <2>1, <2>2 DEF Turns
<1>5. Quiet' /\ Prompted' /\ Own'
  BY <1>1 DEF Unspoilt, Quiet, Prompted, Own, world
<1> QED BY <1>3, <1>4, <1>5 DEF Unspoilt

LEMMA InUse ==
  ASSUME LinkInv, session # 0
  PROVE  /\ session \in Sessions /\ Shape
         /\ responses[session] \in Seq(Responses)
         /\ buffer \in Texts /\ uart \in Texts /\ board \in Texts /\ Pending(session) \in Texts
<1>1. Shape
  BY DEF LinkInv, CommandInv
<1>2. session \in Sessions
  BY <1>1, LinkAssumption DEF Shape, Sessions, LinkAssumption
<1> QED BY <1>1, <1>2, PendingText DEF Shape, Texts

LEMMA CallSmooth ==
  ASSUME LinkInv, CallInv, Unspoilt, Execute \/ Close
  PROVE  Unspoilt'
<1>0. doing = "idle" /\ session # 0 /\ UNCHANGED <<session, agent, responses>> /\ UNCHANGED world
  BY DEF Execute, Close
<1>1. session \in Sessions /\ Shape
  BY <1>0, InUse
<1>2. requests[session] = <<>> /\ responses[session] = <<>> /\ uart = <<>> /\ board = <<>>
  BY <1>0 DEF Unspoilt, Turns, Quiet
<1>3. Alone'
  BY <1>0 DEF Unspoilt, Alone
<1>4. uart' = <<>> /\ board' = <<>> /\ Pending(session)' = <<>>
  BY <1>0, <1>2 DEF Pending, world
<1>5. CASE Execute
  <2> DEFINE c == command + 1
  <2>1. doing' = "execute" /\ command' = c /\ buffer' = <<>> /\ Send(session, "write", c)
    BY <1>5 DEF Execute
  <2>2. requests'[session] = <<[kind |-> "write", cmd |-> c]>> /\ awaiting' = "write"
    <3> HIDE DEF c
    <3> QED BY <1>1, <1>2, <2>1, OneRequest
  <2>3. Awaited' = [kind |-> "write", cmd |-> c]
    BY <2>1, <2>2 DEF Awaited
  <2>4. Turns'
    BY <1>0, <1>2, <2>1, <2>2, <2>3 DEF Turns
  <2>5. Quiet' /\ Prompted' /\ Own'
    BY <1>4, <2>1, NoSource DEF Quiet, Prompted, Own
  <2> QED BY <1>3, <2>4, <2>5 DEF Unspoilt
<1>6. CASE Close
  <2>1. doing' = "close" /\ Send(session, "close", 0)
    BY <1>6 DEF Close
  <2>2. requests'[session] = <<[kind |-> "close", cmd |-> 0]>> /\ awaiting' = "close"
    BY <1>1, <1>2, <2>1, OneRequest
  <2>3. Awaited' = [kind |-> "close", cmd |-> 0]
    BY <2>1, <2>2 DEF Awaited
  <2>4. Turns'
    BY <1>0, <1>2, <2>1, <2>2, <2>3 DEF Turns
  <2>5. Quiet' /\ Prompted' /\ Own'
    BY <1>4, <2>1 DEF Quiet, Prompted, Own
  <2> QED BY <1>3, <2>4, <2>5 DEF Unspoilt
<1> QED BY <1>5, <1>6

(* A text of one command that ends with its prompt is the last of it. *)
LEMMA NothingAfter ==
  ASSUME NEW c, NEW text \in Texts, text # <<>>, Sources(text) \subseteq {c}, Last(text).part = "prompt",
         NEW t \in Texts, Sources(t) \subseteq {c}, Before(Parts(c, text), Parts(c, t))
  PROVE  t = <<>>
<1>1. Len(text) \in 1..Len(text) /\ Last(text) = text[Len(text)]
  BY DEF Texts, Last
<1>2. text[Len(text)].cmd = c
  BY <1>1 DEF Sources
<1>3. "prompt" \in Parts(c, text)
  BY <1>1, <1>2 DEF Parts
<1>4. \A x : ~Follows("prompt", x)
  BY DEF Follows
<1>5. Parts(c, t) = {}
  BY <1>3, <1>4 DEF Before
<1>6. 1..Len(t) = {}
  BY <1>5 DEF Parts, Sources
<1>7. Len(t) \in Nat /\ (Len(t) = 0 => t = <<>>)
  BY TextLength
<1> DEFINE n == Len(t)
<1>8. n = 0
  <2>1. n \in Nat /\ 1..n = {}
    BY <1>6, <1>7
  <2> HIDE DEF n
  <2>2. n # 0 => 1 \in 1..n
    BY <2>1
  <2> QED BY <2>1, <2>2
<1> QED BY <1>7, <1>8

(* A text that holds one item of one command is that item. *)
LEMMA OnlyItem ==
  ASSUME NEW c, NEW out \in Texts, Sources(out) \subseteq {c}, NEW n \in 1..Len(out),
         \A m \in 1..Len(out) : out[m].cmd = c => m = n
  PROVE  out = <<out[n]>>
<1>1. \A m \in 1..Len(out) : m = n
  <2>1. \A m \in 1..Len(out) : out[m].cmd \in Sources(out)
    BY DEF Sources
  <2>2. \A m \in 1..Len(out) : out[m].cmd = c
    BY <2>1
  <2> QED BY <2>2
<1>2. Len(out) \in Nat
  BY TextLength
<1>3. 1 \in 1..Len(out) /\ Len(out) \in 1..Len(out)
  BY <1>2
<1>4. Len(out) = 1 /\ n = 1
  BY <1>1, <1>3
<1> QED BY <1>4 DEF Texts

(* The command that returns has returned its output, and the console is    *)
(* quiet.                                                                  *)
LEMMA CleanReturn ==
  ASSUME LinkInv, Own, NEW text \in Texts, Completes(text)
  PROVE  /\ uart = <<>> /\ board = <<>>
         /\ Stdout(text) = <<[cmd |-> command, part |-> "output"]>>
<1> DEFINE d == Pending(session)
<1>1. /\ doing = "execute" /\ text = buffer \o d /\ Last(text).part = "prompt" /\ text # <<>>
      /\ \E i \in 1..Len(text) : text[i] = [cmd |-> command, part |-> "exit"]
      /\ Flow(command, text, <<>>, uart, board, Heard(session))
  BY DEF Completes
<1>2. session # 0
  BY <1>1, Busy
<1>3. buffer \in Texts /\ d \in Texts /\ uart \in Texts /\ board \in Texts
  BY <1>2, InUse
<1>4. /\ Sources(buffer) \subseteq {command} /\ Sources(d) \subseteq {command}
      /\ Sources(uart) \subseteq {command} /\ Sources(board) \subseteq {command}
  BY <1>1 DEF Own
<1> HIDE DEF d
<1>5. Sources(text) \subseteq {command}
  <2>1. Sources(buffer \o d) \subseteq Sources(buffer) \cup Sources(d)
    BY <1>3, JoinedSources DEF Texts
  <2> QED BY <1>1, <1>4, <2>1
<1>6. /\ Before(Parts(command, text), Parts(command, uart))
      /\ Before(Parts(command, text), Parts(command, board))
      /\ InOrder(command, text) /\ Begins(Parts(command, text))
  <2>1. Parts(command, <<>>) = {}
    BY NoParts
  <2>2. /\ Before(Parts(command, text) \cup Parts(command, <<>>),
                  Parts(command, uart) \cup Parts(command, board))
        /\ Begins(Parts(command, text) \cup Parts(command, <<>>)) /\ InOrder(command, text)
    BY <1>1 DEF Flow
  <2>3. Parts(command, text) \cup Parts(command, <<>>) = Parts(command, text)
    BY <2>1
  <2> QED BY <2>2, <2>3 DEF Before
<1>7. uart = <<>>
  BY <1>1, <1>3, <1>4, <1>5, <1>6, NothingAfter
<1>8. board = <<>>
  BY <1>1, <1>3, <1>4, <1>5, <1>6, NothingAfter
<1>9. PICK k \in 1..Len(text) : text[k] = [cmd |-> command, part |-> "exit"]
  BY <1>1
<1> DEFINE out == Stdout(text)
           x == [cmd |-> command, part |-> "output"]
<1>10. /\ out \in Texts /\ Sources(out) \subseteq Sources(text)
       /\ \E n \in 1..Len(out) :
             /\ out[n] = x
             /\ \A m \in 1..Len(out) : out[m].cmd = command => m = n
  BY <1>6, <1>9, StdoutText
<1>11. Sources(out) \subseteq {command}
  BY <1>5, <1>10
<1> HIDE DEF out, x
<1>12. PICK n \in 1..Len(out) : out[n] = x /\ \A m \in 1..Len(out) : out[m].cmd = command => m = n
  BY <1>10
<1>13. out = <<out[n]>>
  BY <1>10, <1>11, <1>12, OnlyItem
<1> QED BY <1>7, <1>8, <1>12, <1>13 DEF out, x

LEMMA TakesOnly ==
  ASSUME LinkInv, Turns, Receive
  PROVE  /\ session \in Sessions /\ session # 0 /\ doing # "idle" /\ Shape
         /\ requests[session] = <<>> /\ responses'[session] = <<>>
         /\ Pending(session) = Head(responses[session]).data
         /\ UNCHANGED <<command, agent>> /\ UNCHANGED world
         /\ awaiting = "close" =>
               agent[session] # "up" \/ Head(responses[session]).kind = "error"
<1>1. /\ awaiting # "none" /\ responses[session] # <<>>
      /\ responses' = [responses EXCEPT ![session] = Tail(@)]
      /\ UNCHANGED <<command, agent>> /\ UNCHANGED world
  BY DEF Receive
<1>2. doing # "idle"
  BY <1>1 DEF LinkInv, CommandInv, SessionInv
<1>3. session \in Sessions /\ session # 0 /\ Shape
  BY <1>2, Busy
<1>4. /\ requests[session] = <<>> /\ Len(responses[session]) = 1
      /\ awaiting = "close" =>
            agent[session] # "up" \/ responses[session][1].kind = "error"
  BY <1>1, <1>3 DEF Turns
<1>5. Tail(responses[session]) = <<>>
  <2> DEFINE q == responses[session]
             u == Tail(q)
  <2>1. q \in Seq(Responses) /\ q # <<>> /\ Len(q) = 1
    BY <1>1, <1>3, <1>4 DEF Shape
  <2> HIDE DEF q
  <2>2. u \in Seq(Responses) /\ Len(u) = 0
    BY <2>1, ResponseTaken
  <2> HIDE DEF u
  <2>3. u = <<>>
    BY <2>2
  <2> QED BY <2>3 DEF u, q
<1>6. responses'[session] = <<>>
  BY <1>1, <1>3, <1>5 DEF Shape
<1>7. Pending(session) = Head(responses[session]).data
  BY <1>1, <1>3, PendingText
<1>8. Head(responses[session]) = responses[session][1]
  BY <1>1, <1>3 DEF Shape
<1> QED BY <1>1, <1>2, <1>3, <1>4, <1>6, <1>7, <1>8

(* The next request of the same call. *)
LEMMA NextRequest ==
  ASSUME Shape, session \in Sessions, requests[session] = <<>>, responses'[session] = <<>>,
         NEW kind, Send(session, kind, 0), session' = session, doing' # "idle",
         kind # "write" \/ doing' # "execute"
  PROVE  Turns' /\ Pending(session)' = <<>> /\ awaiting' = kind
<1> DEFINE z == 0
<1>1. requests'[session] = <<[kind |-> kind, cmd |-> z]>> /\ awaiting' = kind
  <2>1. Send(session, kind, z)
    OBVIOUS
  <2> HIDE DEF z
  <2> QED BY <2>1, OneRequest
<1>2. Awaited' = [kind |-> kind, cmd |-> z]
  BY <1>1 DEF Awaited
<1>3. Turns'
  BY <1>1, <1>2 DEF Turns
<1>4. Pending(session)' = <<>>
  BY DEF Pending
<1> QED BY <1>1, <1>3, <1>4

LEMMA ReceiveSmooth ==
  ASSUME TextInv, CallInv, Unspoilt, Receive, smooth'
  PROVE  Unspoilt'
<1> DEFINE r == Head(responses[session])
           d == r.data
           m == IF awaiting = "read" THEN r ELSE [r EXCEPT !.data = <<>>]
<1>0. /\ LinkInv /\ DataInv /\ Alone /\ Turns /\ Quiet /\ Prompted /\ Own /\ SessionInv
      /\ WriteInv
  BY DEF TextInv, Unspoilt, LinkInv, CommandInv, StepInv
<1>1. /\ session \in Sessions /\ session # 0 /\ doing # "idle" /\ Shape
      /\ requests[session] = <<>> /\ responses'[session] = <<>> /\ Pending(session) = d
      /\ UNCHANGED <<command, agent>> /\ UNCHANGED world
      /\ awaiting = "close" => agent[session] # "up" \/ r.kind = "error"
      /\ buffer \in Texts /\ uart \in Texts /\ board \in Texts /\ d \in Texts
  BY <1>0, TakesOnly, InUse
<1>2. uart' = uart /\ board' = board
  BY <1>1 DEF world
<1>3. CASE awaiting = "close"
  <2>1. Hangup /\ doing \in {"close", "abort"} /\ agent[session] # "up"
    BY <1>1, <1>3 DEF Receive, CallInv
  <2>2. session' = 0 /\ doing' = "idle"
    BY <2>1 DEF Hangup
  <2>3. Alone'
    BY <1>0, <1>1, <2>1 DEF Alone
  <2> QED BY <1>0, <1>2, <2>1, <2>2, <2>3 DEF Unspoilt, Turns, Quiet, Prompted, Own
<1>4. CASE awaiting # "close"
  <2>1. Fits(r) /\ Proceed(m)
    BY <1>4 DEF Receive
  <2>2. session' = session /\ doing \notin {"close", "abort"}
    BY <1>4, <2>1 DEF Proceed, CallInv
  <2>3. Alone'
    BY <1>0, <1>1, <2>2 DEF Alone
  <2>4. CASE awaiting = "hello"
    <3>1. /\ Send(session, "open", 0) /\ doing' = doing /\ doing = "connect"
      BY <1>0, <2>1, <2>4 DEF Proceed, SessionInv
    <3>2. Turns'
      BY <1>1, <2>2, <3>1, NextRequest
    <3> QED BY <1>0, <1>2, <2>3, <3>1, <3>2 DEF Unspoilt, Quiet, Prompted, Own
  <2>5. CASE awaiting = "open"
    <3>1. /\ Send(session, "write", 0) /\ doing' = "prepare" /\ doing = "connect" /\ buffer' = <<>>
      BY <1>0, <2>1, <2>5 DEF Proceed, SessionInv
    <3>2. Turns' /\ Pending(session)' = <<>>
      BY <1>1, <2>2, <3>1, NextRequest
    <3>3. OnItsWay(session)' = 0
      <4>1. uart' = <<>> /\ board' = <<>>
        BY <1>0, <1>2, <3>1 DEF Quiet
      <4>2. OnItsWay(session)' = Len(<<>>) + Len(<<>>) + (Len(<<>>) + Len(<<>>))
        BY <3>1, <3>2, <4>1, <2>2 DEF OnItsWay
      <4> QED BY <1>1, <4>2, TextLength
    <3>4. Prompted'
      BY <2>2, <3>3 DEF Prompted
    <3> QED BY <2>3, <3>1, <3>2, <3>4 DEF Unspoilt, Quiet, Own
  <2>6. CASE awaiting = "write"
    <3>1. Send(session, "read", 0) /\ doing' = doing /\ buffer' = buffer
      BY <2>1, <2>6 DEF Proceed
    <3>2. Turns' /\ Pending(session)' = <<>> /\ awaiting' = "read"
      BY <1>1, <2>2, <3>1, NextRequest
    <3>3. d = <<>>
      <4>1. r.kind = "written" /\ r = responses[session][1] /\ 1 \in 1..Len(responses[session])
        BY <1>1, <2>1, <2>6, PendingText DEF Fits, Receive
      <4> QED BY <1>0, <1>1, <4>1 DEF DataInv
    <3>4. Prompted' /\ Own'
      <4>1. Pending(session)' = Pending(session)
        BY <1>1, <3>2, <3>3
      <4>2. OnItsWay(session)' = OnItsWay(session)
        BY <1>2, <2>2, <3>1, <4>1 DEF OnItsWay
      <4> QED BY <1>0, <1>1, <1>2, <2>2, <3>1, <3>2, <4>1, <4>2 DEF Prompted, Own
    <3>5. Quiet'
      BY <1>0, <1>2, <3>1 DEF Quiet
    <3> QED BY <2>3, <3>2, <3>4, <3>5 DEF Unspoilt
  <2>7. CASE awaiting = "read"
    <3>0. doing \in {"prepare", "execute"}
      BY <1>0, <1>1, <2>2, <2>7 DEF SessionInv, Shape
    <3>1. buffer' = buffer \o d
      BY <2>1, <2>7 DEF Proceed
    <3>2. /\ Len(buffer') = Len(buffer) + Len(d)
          /\ Sources(buffer') \subseteq Sources(buffer) \cup Sources(d)
      <4> HIDE DEF d
      <4> QED BY <1>1, <3>1, JoinedSources DEF Texts
    <3>3. /\ doing = "prepare" => Len(buffer) + Len(d) + (Len(uart) + Len(board)) <= 1
          /\ doing = "execute" =>
                (Sources(buffer) \cup Sources(d)) \cup (Sources(uart) \cup Sources(board)) \subseteq {command}
      BY <1>0, <1>1 DEF Prompted, Own, OnItsWay
    <3>4. CASE Send(session, "read", 0) /\ doing' = doing
      <4>1. Turns' /\ Pending(session)' = <<>> /\ awaiting' = "read"
        BY <1>1, <2>2, <3>4, NextRequest
      <4>2. Quiet'
        BY <3>0, <3>4 DEF Quiet
      <4>3. Prompted'
        <5> SUFFICES ASSUME doing = "prepare"
                     PROVE  OnItsWay(session)' <= 1
          BY <2>2, <3>4, <4>1 DEF Prompted
        <5>1. OnItsWay(session)' = (Len(buffer) + Len(d)) + Len(<<>>) + (Len(uart) + Len(board))
          BY <1>2, <2>2, <3>2, <4>1 DEF OnItsWay
        <5> DEFINE n == Len(buffer) + Len(d)
                   k == Len(uart) + Len(board)
        <5>2. /\ n \in Nat /\ k \in Nat /\ n + k <= 1 /\ Len(<<>>) = 0
              /\ OnItsWay(session)' = n + Len(<<>>) + k
          <6>1. /\ Len(buffer) \in Nat /\ Len(d) \in Nat /\ Len(uart) \in Nat /\ Len(board) \in Nat
                /\ Len(<<>>) = 0
            BY <1>1, TextLength
          <6> HIDE DEF d
          <6> QED BY <3>3, <5>1, <6>1
        <5> HIDE DEF n, k
        <5> QED BY <5>2
      <4>4. Own'
        BY <1>1, <1>2, <2>2, <3>2, <3>3, <3>4, <4>1, NoSource DEF Own
      <4> QED BY <2>3, <4>1, <4>2, <4>3, <4>4 DEF Unspoilt
    <3>5. CASE d # <<>> /\ doing' = "idle" /\ requests' = requests
      <4>1. Turns'
        BY <1>1, <2>2, <3>5 DEF Turns
      <4>2. uart = <<>> /\ board = <<>>
        <5>1. CASE doing = "prepare"
          <6> DEFINE n == Len(buffer)
                     k == Len(d)
                     i == Len(uart)
                     j == Len(board)
          <6>1. n \in Nat /\ k \in Nat /\ i \in Nat /\ j \in Nat /\ n + k + (i + j) <= 1 /\ k # 0
            <7> HIDE DEF d
            <7> QED BY <1>1, <3>3, <3>5, <5>1, TextLength
          <6>2. i = 0 /\ j = 0
            <7> HIDE DEF n, k, i, j
            <7> QED BY <6>1
          <6> QED BY <1>1, <6>2, TextLength
        <5>2. CASE doing = "execute"
          <6>1. PICK text \in Texts : Completes(text)
            BY <2>1, <3>5, <5>2, ResultStep
          <6> QED BY <1>0, <6>1, CleanReturn
        <5> QED BY <3>0, <5>1, <5>2
      <4> QED BY <1>2, <2>3, <3>5, <4>1, <4>2 DEF Unspoilt, Quiet, Prompted, Own
    <3> QED BY <2>1, <2>7, <3>4, <3>5 DEF Proceed
  <2> QED BY <2>1, <2>4, <2>5, <2>6, <2>7 DEF Proceed
<1> QED BY <1>3, <1>4

LEMMA ReleaseSmooth ==
  ASSUME LinkInv, CallInv, Unspoilt, NEW s \in Sessions, EndOfFile(s) \/ Die(s)
  PROVE  Unspoilt'
<1>1. /\ Release(s) /\ agent' = [agent EXCEPT ![s] = "exited"]
      /\ UNCHANGED <<session, doing, awaiting, command, buffer, channel, requests, responses, board>>
  BY DEF EndOfFile, Die
<1>2. /\ uart' = <<>> \/ uart' = uart
      /\ Pending(session)' = Pending(session) /\ Awaited' = Awaited
      /\ \A t \in Sessions : agent'[t] = agent[t] \/ agent'[t] # "up"
  BY <1>1 DEF Release, Pending, Awaited, CallInv
<1>3. Alone' /\ Quiet'
  BY <1>1, <1>2 DEF Unspoilt, Alone, Quiet
<1>4. Turns'
  <2>1. session # 0 => session \in Sessions
    BY InUse
  <2> QED BY <1>1, <1>2, <2>1 DEF Unspoilt, Turns
<1>5. Own'
  <2>1. Sources(uart') \subseteq Sources(uart)
    BY <1>2, NoSource
  <2> QED BY <1>1, <1>2, <2>1 DEF Unspoilt, Own
<1>6. Prompted'
  <2> SUFFICES ASSUME doing = "prepare"
               PROVE  OnItsWay(session)' <= OnItsWay(session)
                      /\ OnItsWay(session)' \in Nat /\ OnItsWay(session) \in Nat
    BY <1>1 DEF Unspoilt, Prompted
  <2> DEFINE p == Pending(session)
             h == Len(buffer) + Len(p)
             i == Len(uart)
             j == Len(board)
             k == Len(uart')
  <2>1. session # 0
    BY Busy
  <2>2. Len(buffer) \in Nat /\ Len(p) \in Nat /\ i \in Nat /\ j \in Nat
    BY <2>1, InUse, TextLength
  <2>3. k = 0 \/ k = i
    BY <1>2, <2>1, InUse, TextLength
  <2>4. OnItsWay(session) = h + (i + j) /\ OnItsWay(session)' = h + (k + j)
    BY <1>1, <1>2 DEF OnItsWay
  <2>5. h \in Nat
    <3> HIDE DEF p
    <3> QED BY <2>2
  <2> HIDE DEF h, i, j, k
  <2> QED BY <2>2, <2>3, <2>4, <2>5
<1> QED BY <1>3, <1>4, <1>5, <1>6 DEF Unspoilt

LEMMA LoseLinkSmooth ==
  ASSUME LinkInv, CallInv, Unspoilt, NEW s \in Sessions, LoseLink(s)
  PROVE  Unspoilt'
<1>0. Shape /\ Alone /\ Turns /\ Quiet /\ Prompted /\ Own
  BY DEF LinkInv, CommandInv, Unspoilt
<1>1. PICK n \in 0..Len(responses[s]) : responses' = [responses EXCEPT ![s] = SubSeq(@, 1, n)]
  BY DEF LoseLink
<1> DEFINE q == responses[s]
           g == SubSeq(q, 1, n)
<1>2. /\ q \in Seq(Responses) /\ n \in 0..Len(q) /\ responses'[s] = g
      /\ \A t \in Sessions : t # s => responses'[t] = responses[t]
      /\ UNCHANGED <<session, doing, awaiting, command, buffer, agent, requests>> /\ UNCHANGED world
  BY <1>0, <1>1 DEF Shape, LoseLink
<1>3. Len(q) <= 1 => g = <<>> \/ g = q
  <2> HIDE DEF q
  <2>1. /\ g \in Seq(Responses) /\ Len(g) = n /\ q \in Seq(Responses) /\ Len(q) \in Nat /\ n \in 0..Len(q)
        /\ \A j \in 1..n : g[j] = q[j]
    BY <1>2
  <2> HIDE DEF g
  <2>2. n = 0 => g = <<>>
    BY <2>1
  <2>3. n = Len(q) => g = q
    BY <2>1
  <2> QED BY <2>1, <2>2, <2>3
<1> HIDE DEF g
<1>4. session # 0 => responses'[session] = <<>> \/ responses'[session] = responses[session]
  <2> SUFFICES ASSUME session # 0, session = s
               PROVE  responses'[session] = <<>> \/ responses'[session] = responses[session]
    BY <1>2, InUse
  <2>1. Len(q) <= 1
    <3>1. q = <<>> \/ Len(q) = 1
      BY <1>0 DEF Turns
    <3> DEFINE k == Len(q)
    <3>2. k = 0 \/ k = 1
      BY <3>1
    <3> HIDE DEF k
    <3>3. k <= 1
      BY <3>2
    <3> QED BY <3>3 DEF k
  <2> QED BY <1>2, <1>3, <2>1
<1> HIDE DEF q
<1>5. Alone' /\ Quiet' /\ Awaited' = Awaited
  BY <1>0, <1>2 DEF Alone, Quiet, Awaited, world
<1>6. Turns'
  BY <1>0, <1>2, <1>4, <1>5 DEF Turns
<1>7. session # 0 => Pending(session)' = <<>> \/ Pending(session)' = Pending(session)
  BY <1>2, <1>4 DEF Pending
<1>8. doing # "idle" => session # 0
  BY Busy
<1>9. Own'
  <2>1. doing = "execute" => Sources(Pending(session)') \subseteq Sources(Pending(session))
    BY <1>7, <1>8, NoSource
  <2> QED BY <1>0, <1>2, <2>1 DEF Own, world
<1>10. Prompted'
  <2> SUFFICES ASSUME doing = "prepare"
               PROVE  OnItsWay(session)' <= OnItsWay(session)
                      /\ OnItsWay(session)' \in Nat /\ OnItsWay(session) \in Nat
    BY <1>0, <1>2 DEF Prompted
  <2> DEFINE p == Pending(session)
             h == Len(buffer)
             i == Len(p)
             j == Len(uart) + Len(board)
             k == Len(Pending(session)')
  <2>1. /\ h \in Nat /\ i \in Nat /\ Len(uart) \in Nat /\ Len(board) \in Nat
        /\ k = 0 \/ k = i
    BY <1>7, <1>8, InUse, TextLength
  <2>2. OnItsWay(session) = h + i + j /\ OnItsWay(session)' = h + k + j
    BY <1>2 DEF OnItsWay, world
  <2>3. j \in Nat
    BY <2>1
  <2> HIDE DEF h, i, j, k
  <2> QED BY <2>1, <2>2, <2>3
<1> QED BY <1>5, <1>6, <1>9, <1>10 DEF Unspoilt

LEMMA BoardPrintsSmooth ==
  ASSUME LinkInv, CallInv, Unspoilt, BoardPrints
  PROVE  Unspoilt'
<1>0. Shape /\ Alone /\ Turns /\ Quiet /\ Prompted /\ Own
  BY DEF LinkInv, CommandInv, Unspoilt
<1>1. /\ UNCHANGED <<session, doing, awaiting, command, buffer, channel, agent, requests, responses>>
      /\ board # <<>> /\ board' = Tail(board) /\ board \in Seq(Items) /\ uart \in Seq(Items)
      /\ uart' = (IF holders # {} THEN Append(uart, Head(board)) ELSE uart)
  BY <1>0 DEF BoardPrints, Shape
<1>2. Pending(session)' = Pending(session) /\ Awaited' = Awaited
  BY <1>1 DEF Pending, Awaited
<1>3. Alone' /\ Turns' /\ Quiet'
  BY <1>0, <1>1, <1>2 DEF Alone, Turns, Quiet
<1>4. Own'
  <2>1. Sources(board') \cup Sources(uart') \subseteq Sources(uart) \cup Sources(board)
    BY <1>1, TailSources
  <2> QED BY <1>0, <1>1, <1>2, <2>1 DEF Own
<1>5. Prompted'
  <2> SUFFICES ASSUME doing = "prepare"
               PROVE  OnItsWay(session)' <= OnItsWay(session)
                      /\ OnItsWay(session)' \in Nat /\ OnItsWay(session) \in Nat
    BY <1>0, <1>1 DEF Prompted
  <2> DEFINE p == Pending(session)
             h == Len(buffer) + Len(p)
             i == Len(uart)
             j == Len(board)
             k == Len(uart')
             m == Len(board')
  <2>1. session # 0
    BY Busy
  <2>2. Len(buffer) \in Nat /\ Len(p) \in Nat /\ i \in Nat /\ j \in Nat
    BY <2>1, InUse, TextLength
  <2>3. m = j - 1 /\ j # 0 /\ (k = i + 1 \/ k = i)
    BY <1>1
  <2>4. OnItsWay(session) = h + (i + j) /\ OnItsWay(session)' = h + (k + m)
    BY <1>1, <1>2 DEF OnItsWay
  <2>5. h \in Nat
    <3> HIDE DEF p
    <3> QED BY <2>2
  <2> HIDE DEF h, i, j, k, m
  <2> QED BY <2>2, <2>3, <2>4, <2>5
<1> QED BY <1>3, <1>4, <1>5 DEF Unspoilt

(* The agent answers the one request there is. *)
LEMMA ServesOnly ==
  ASSUME LinkInv, CallInv, Unspoilt, NEW s \in Sessions, Serve(s)
  PROVE  \E a \in Responses :
            /\ s = session /\ session # 0 /\ doing # "idle" /\ Awaited \in Requests
            /\ requests'[s] = <<>> /\ responses[s] = <<>>
            /\ responses'[s] = <<>> \/ responses'[s] = <<a>>
            /\ UNCHANGED <<session, doing, awaiting, command, buffer>>
            /\ Outcome(s, Awaited, a.kind, a.data)
<1> DEFINE w == Awaited
           q == requests[s]
<1>0. Shape /\ session \in 0..MaxSessions /\ s # 0
  BY LinkAssumption DEF LinkInv, CommandInv, Shape, Sessions, LinkAssumption
<1>1. s = session
  BY DEF Unspoilt, Alone, Serve
<1>2. q = <<w>> /\ responses[s] = <<>> /\ doing # "idle"
  <2>1. requests[session] # <<>> /\ session # 0
    BY <1>0, <1>1 DEF Serve
  <2> QED BY <1>1, <2>1 DEF Unspoilt, Turns
<1>3. PICK a \in Responses :
        /\ q # <<>> /\ Head(q) \in Requests /\ Serves(s, Head(q), a) /\ requests'[s] = Tail(q)
  BY Served
<1>4. Head(q) = w /\ Tail(q) = <<>>
  <2> HIDE DEF w, q
  <2> QED BY <1>2
<1>5. /\ responses'[s] = responses[s] \/ responses'[s] = Append(responses[s], a)
      /\ UNCHANGED <<session, doing, awaiting, command, buffer>>
      /\ Outcome(s, w, a.kind, a.data)
  <2>1. Serves(s, w, a)
    BY <1>3, <1>4
  <2> HIDE DEF w, q
  <2> QED BY <2>1 DEF Serves
<1>6. responses'[s] = <<>> \/ responses'[s] = <<a>>
  BY <1>2, <1>5
<1> HIDE DEF w, q
<1>7. w \in Requests /\ requests'[s] = <<>>
  BY <1>3, <1>4
<1> QED BY <1>0, <1>1, <1>2, <1>5, <1>6, <1>7 DEF w

LEMMA ServeSmooth ==
  ASSUME LinkInv, CallInv, Unspoilt, NEW s \in Sessions, Serve(s)
  PROVE  Unspoilt'
<1>0. Shape /\ SessionInv /\ Alone /\ Turns /\ Quiet /\ Prompted /\ Own
  BY DEF LinkInv, CommandInv, Unspoilt
<1> DEFINE w == Awaited
<1>1. PICK a \in Responses :
            /\ s = session /\ session # 0 /\ doing # "idle" /\ w \in Requests
            /\ requests'[s] = <<>> /\ responses[s] = <<>>
            /\ responses'[s] = <<>> \/ responses'[s] = <<a>>
            /\ UNCHANGED <<session, doing, awaiting, command, buffer>>
            /\ Outcome(s, w, a.kind, a.data)
  BY ServesOnly
<1>2. /\ w.kind = awaiting
      /\ w.cmd = IF awaiting = "write" /\ doing = "execute" THEN command ELSE 0
  BY DEF Awaited
<1>3. requests[session] # <<>>
  BY <1>1 DEF Serve
<1> HIDE DEF w
<1>4. /\ uart' = uart \/ uart' = <<>>
      /\ board' = board \/ awaiting = "write"
      /\ \A t \in Sessions : agent'[t] = agent[t] \/ agent'[t] # "up"
      /\ awaiting = "close" => agent'[s] # "up" \/ a.kind = "error"
  BY <1>1, <1>2 DEF Outcome, Release, CallInv
<1>5. Alone' /\ Quiet'
  <2>1. doing \in {"idle", "connect", "close", "abort"} => awaiting # "write"
    BY <1>0 DEF SessionInv, CallInv
  <2> QED BY <1>0, <1>1, <1>4, <2>1 DEF Alone, Quiet
<1>6. Turns'
  <2>1. \/ Len(responses'[s]) = 1 /\ responses'[s][1] = a
        \/ responses'[s] = <<>>
    <3>1. CASE responses'[s] = <<a>>
      <4>1. Len(<<a>>) = 1 /\ <<a>>[1] = a
        OBVIOUS
      <4> QED BY <3>1, <4>1
    <3> QED BY <1>1, <3>1
  <2> QED BY <1>1, <1>4, <2>1 DEF Turns
<1>7. /\ Pending(session) = <<>> /\ a.data \in Texts
      /\ Pending(session)' = <<>> \/ Pending(session)' = a.data
  <2>1. a.data \in Texts
    BY DEF Responses, Texts
  <2>2. Pending(session) = <<>>
    BY <1>1 DEF Pending
  <2>3. CASE responses'[s] = <<>>
    BY <1>1, <2>1, <2>2, <2>3 DEF Pending
  <2>4. CASE responses'[s] = <<a>>
    <3>1. responses'[s] # <<>> /\ responses'[s][1] = a
      BY <2>4
    <3>2. Pending(session)' = a.data
      BY <1>1, <3>1 DEF Pending
    <3> QED BY <2>1, <2>2, <3>2
  <2> QED BY <1>1, <2>3, <2>4
<1>8. Own'
  <2> SUFFICES ASSUME doing = "execute"
               PROVE  (Sources(buffer) \cup Sources(Pending(session)')) \cup (Sources(uart') \cup Sources(board'))
                         \subseteq {command}
    BY <1>1 DEF Own
  <2> DEFINE k == a.kind
             d == a.data
  <2>1. /\ Sources(uart') \cup Sources(d) \subseteq Sources(uart)
        /\ \/ board' = board
           \/ w.kind = "write" /\ Sources(board') \subseteq Sources(board) \cup {w.cmd}
    <3> HIDE DEF k, d
    <3> QED BY <1>0, <1>1, OutcomeSources DEF k, d
  <2>2. Sources(Pending(session)') \subseteq Sources(uart)
    BY <1>7, <2>1, NoSource
  <2>3. Sources(board') \subseteq Sources(board) \cup {command}
    BY <1>2, <2>1
  <2> QED BY <1>0, <2>1, <2>2, <2>3 DEF Own
<1>9. Prompted'
  <2> SUFFICES ASSUME doing = "prepare"
               PROVE  OnItsWay(session)' <= 1
    BY <1>1 DEF Prompted
  <2> DEFINE h == Len(buffer)
             i == Len(uart)
             j == Len(board)
             x == Len(Pending(session)')
             i2 == Len(uart')
             j2 == Len(board')
             z == Len(Pending(session))
  <2>1. /\ h \in Nat /\ i \in Nat /\ j \in Nat /\ z = 0
        /\ uart \in Texts /\ board \in Texts
    BY <1>1, <1>7, InUse, TextLength
  <2>2. OnItsWay(session) = h + z + (i + j) /\ OnItsWay(session)' = h + x + (i2 + j2)
    BY <1>1 DEF OnItsWay
  <2>3. /\ h + z + (i + j) <= 1
        /\ awaiting = "write" => h + z + (i + j) = 0
    BY <1>0, <1>3, <2>2 DEF Prompted
  <2>4. \/ x = 0 /\ (i2 = i \/ i2 = 0) /\ j2 = j
        \/ x = 0 /\ i2 = i /\ j2 = j + 1 /\ awaiting = "write"
        \/ (x = 0 \/ x = i) /\ i2 = 0 /\ j2 = j
    <3>0. Len(<<>>) = 0
      BY <2>1, TextLength
    <3>1. CASE a.data = <<>> /\ board' = board
      BY <1>4, <1>7, <3>0, <3>1
    <3>2. CASE a.data = uart /\ uart' = <<>> /\ board' = board
      BY <1>7, <3>0, <3>2
    <3>3. CASE w.kind = "write" /\ a.data = <<>> /\ board' = board \o Printed(w.cmd) /\ uart' = uart
      <4>1. w.cmd = 0 /\ awaiting = "write"
        BY <1>2, <3>3
      <4> DEFINE u == Printed(w.cmd)
      <4>2. u = <<[cmd |-> 0, part |-> "prompt"]>>
        BY <4>1 DEF Printed
      <4>3. Len(u) = 1
        BY <4>2
      <4>4. u \in Seq(Items)
        BY <1>1, PrintedSources DEF Requests
      <4> HIDE DEF u
      <4>5. Len(board \o u) = Len(board) + Len(u)
        BY <2>1, <4>4, ConcatProperties DEF Texts
      <4> QED BY <1>7, <3>0, <3>3, <4>1, <4>3, <4>5 DEF u
    <3> QED BY <1>1, <3>1, <3>2, <3>3 DEF Outcome
  <2> HIDE DEF h, i, j, x, i2, j2, z
  <2> QED BY <2>1, <2>2, <2>3, <2>4
<1> QED BY <1>5, <1>6, <1>8, <1>9 DEF Unspoilt

(* The agents, and what close() waits for. *)
LEMMA CallStep ==
  ASSUME LinkInv, CallInv, [Next]_vars
  PROVE  CallInv'
<1>0. SessionInv
  BY DEF LinkInv, CommandInv
<1>1. ASSUME NEW s \in Sessions, Connect(s)
      PROVE  CallInv'
  BY <1>1 DEF Connect, Send, CallInv
<1>2. ASSUME Raise, awaiting # "none", UNCHANGED agent
      PROVE  CallInv'
  BY <1>2 DEF Raise, Hangup, Send, CallInv
<1>3. CASE Receive
  <2> DEFINE r == Head(responses[session])
             m == IF awaiting = "read" THEN r ELSE [r EXCEPT !.data = <<>>]
  <2>1. /\ awaiting # "none" /\ UNCHANGED agent
        /\ \/ awaiting # "close" /\ Proceed(m)
           \/ Raise
           \/ Hangup
    BY <1>3 DEF Receive
  <2> HIDE DEF m
  <2>2. CASE Hangup
    BY <2>1, <2>2 DEF Hangup, CallInv
  <2>3. CASE awaiting # "close" /\ Proceed(m)
    BY <2>1, <2>3 DEF Proceed, Send, CallInv
  <2> QED BY <1>2, <2>1, <2>2, <2>3
<1>4. CASE Execute \/ Close
  BY <1>4 DEF Execute, Close, Send, CallInv
<1>5. CASE TimeOut \/ SeeEnd \/ GiveUp
  BY <1>2, <1>5 DEF TimeOut, SeeEnd, GiveUp
<1>6. ASSUME NEW s \in Sessions, StandStep(s)
      PROVE  CallInv'
  <2>1. /\ UNCHANGED <<doing, awaiting>>
        /\ agent' = agent \/ agent' = [agent EXCEPT ![s] = "exited"]
    BY <1>6 DEF StandStep, Serve, Handle, Refuse, EndOfFile, Die, LoseLink
  <2> QED BY <2>1 DEF CallInv
<1>7. CASE BoardPrints \/ UNCHANGED vars
  BY <1>7 DEF BoardPrints, vars, CallInv
<1> QED BY <1>1, <1>3, <1>4, <1>5, <1>6, <1>7 DEF Next, ClientStep

(* What spoils the link is never forgotten. *)
LEMMA SmoothStep ==
  ASSUME TextInv, CallInv, SmoothInv, [Next]_vars
  PROVE  (smooth' => smooth) /\ SmoothInv'
<1>0. LinkInv
  BY DEF TextInv
<1>1. CASE \E s \in Sessions : Connect(s)
  <2>1. smooth' = smooth
    BY <1>1 DEF Connect
  <2> QED BY <1>0, <1>1, <2>1, ConnectSmooth DEF SmoothInv
<1>2. CASE Execute \/ Close
  <2>1. smooth' = smooth
    BY <1>2 DEF Execute, Close
  <2> QED BY <1>0, <1>2, <2>1, CallSmooth DEF SmoothInv
<1>3. CASE Receive
  <2>1. smooth' = smooth \/ smooth' = FALSE
    BY <1>3 DEF Receive
  <2> QED BY <1>3, <2>1, ReceiveSmooth DEF SmoothInv
<1>4. CASE TimeOut \/ SeeEnd \/ GiveUp
  BY <1>4 DEF TimeOut, SeeEnd, GiveUp, SmoothInv
<1>5. CASE \E s \in Sessions : StandStep(s)
  <2>1. smooth' = smooth
    BY <1>5 DEF StandStep, Serve, EndOfFile, Die, LoseLink
  <2> QED BY <1>0, <1>5, <2>1, ServeSmooth, ReleaseSmooth, LoseLinkSmooth DEF SmoothInv, StandStep
<1>6. CASE BoardPrints
  <2>1. smooth' = smooth
    BY <1>6 DEF BoardPrints
  <2> QED BY <1>0, <1>6, <2>1, BoardPrintsSmooth DEF SmoothInv
<1>7. CASE UNCHANGED vars
  <2>1. /\ UNCHANGED <<session, doing, awaiting, command, buffer, agent, requests, responses>>
        /\ UNCHANGED <<uart, board, smooth>>
    BY <1>7 DEF vars
  <2>2. Pending(session)' = Pending(session) /\ Awaited' = Awaited
    BY <2>1 DEF Pending, Awaited
  <2>3. OnItsWay(session)' = OnItsWay(session)
    BY <2>1, <2>2 DEF OnItsWay
  <2>4. Unspoilt => Unspoilt'
    BY <2>1, <2>2, <2>3 DEF Unspoilt, Alone, Turns, Quiet, Prompted, Own
  <2> QED BY <2>1, <2>4 DEF SmoothInv
<1> QED BY <1>1, <1>2, <1>3, <1>4, <1>5, <1>6, <1>7 DEF Next, ClientStep

(* The inductive invariant of OutputIsClean. *)
CleanInv == CompleteInv /\ CallInv /\ SmoothInv /\ OutputIsClean

LEMMA CleanStep ==
  ASSUME CleanInv, [Next]_vars
  PROVE  CleanInv'
<1>0. /\ TextInv /\ CompleteInv /\ CallInv /\ SmoothInv /\ LinkInv
      /\ result \in [Commands -> Results]
  BY DEF CleanInv, CompleteInv, TextInv
<1>1. CompleteInv' /\ CallInv' /\ SmoothInv' /\ (smooth' => smooth)
  BY <1>0, CompleteStep, CallStep, SmoothStep
<1>2. OutputIsClean'
  <2> SUFFICES ASSUME smooth', smooth, Own, NEW c \in Commands, result'[c].done
               PROVE  result'[c].text = <<[cmd |-> c, part |-> "output"]>>
    BY <1>0, <1>1 DEF OutputIsClean, SmoothInv, Unspoilt
  <2>1. CASE result' = result
    BY <2>1 DEF CleanInv, OutputIsClean
  <2>2. CASE result' # result
    <3>1. PICK text \in Texts : Completes(text)
      BY <1>0, <2>2, OnlyReceives, ResultStep
    <3> DEFINE x == Returned(Stdout(text))
    <3>2. result' = [result EXCEPT ![command] = x]
      BY <3>1 DEF Completes
    <3>3. x.text = <<[cmd |-> command, part |-> "output"]>>
      BY <1>0, <3>1, CleanReturn DEF Returned
    <3> HIDE DEF x
    <3>4. CASE c = command
      BY <1>0, <3>2, <3>3, <3>4
    <3>5. CASE c # command
      <4>1. result'[c] = result[c]
        BY <1>0, <3>2, <3>5
      <4> QED BY <4>1 DEF CleanInv, OutputIsClean
    <3> QED BY <3>4, <3>5
  <2> QED BY <2>1, <2>2
<1> QED BY <1>1, <1>2 DEF CleanInv

LEMMA CleanInit == Init => CleanInv
<1> SUFFICES ASSUME Init
             PROVE  CleanInv
  OBVIOUS
<1>1. CallInv
  BY DEF Init, CallInv
<1>2. Unspoilt
  BY DEF Init, Unspoilt, Alone, Turns, Quiet, Prompted, Own
<1>3. \A c \in Commands : ~result[c].done
  BY DEF Init, Failed
<1> QED BY <1>1, <1>2, <1>3, CompleteInit DEF CleanInv, SmoothInv, OutputIsClean

(* As long as no request has timed out, found the channel at its end or    *)
(* been refused, execute() returns the output of its command and nothing   *)
(* else: no prompt of prepare() and no output of an earlier command.       *)
THEOREM OutputClean == Spec => []OutputIsClean
<1>1. CleanInv => OutputIsClean
  BY DEF CleanInv
<1> QED BY CleanInit, CleanStep, <1>1, PTL DEF Spec

(* Every variable has its type; a request times out at most MaxTimeouts    *)
(* times.                                                                  *)
THEOREM LinkTypes == Spec => []LinkTypeOK
<1> DEFINE Types == timeouts \in 0..MaxTimeouts /\ smooth \in BOOLEAN
<1>1. Init => Types
  BY LinkAssumption DEF Init, LinkAssumption
<1>2. Types /\ [Next]_vars => Types'
  <2> SUFFICES ASSUME Types, [Next]_vars
               PROVE  Types'
    OBVIOUS
  <2>1. UNCHANGED timeouts \/ (timeouts < MaxTimeouts /\ timeouts' = timeouts + 1)
    BY DEF Next, ClientStep, StandStep, Connect, Execute, Close, Receive, TimeOut, SeeEnd, GiveUp,
           Serve, EndOfFile, Die, LoseLink, BoardPrints, vars
  <2>2. UNCHANGED smooth \/ smooth' = FALSE
    BY DEF Next, ClientStep, StandStep, Connect, Execute, Close, Receive, TimeOut, SeeEnd, GiveUp,
           Serve, EndOfFile, Die, LoseLink, BoardPrints, vars
  <2>3. timeouts' \in 0..MaxTimeouts
    BY <2>1, LinkAssumption DEF LinkAssumption
  <2> QED BY <2>2, <2>3
<1>3. CleanInv /\ Types => LinkTypeOK
  BY DEF CleanInv, CallInv, CompleteInv, TextInv, LinkInv, CommandInv, Shape, Results, LinkTypeOK
<1> QED BY CleanInit, CleanStep, <1>1, <1>2, <1>3, PTL DEF Spec
==============================================================================
