----------------------------- MODULE SerialLink -----------------------------
(***************************************************************************)
(* A board's console reached through the remote serial agent:              *)
(* PySerialOverSshTransport and SerialAgentChannel on the test machine,    *)
(* LinuxConsoleSession on top of them, and the helper process              *)
(* hardware_serial_agent on the stand.                                     *)
(*                                                                         *)
(* The protocol is one request line, one response line, and a response     *)
(* does not name its request.  A request that times out leaves its         *)
(* response to whoever reads next, and its command to the board.  The      *)
(* client is sequential (SynchronizedTransport), so what it does from one  *)
(* response to the next request is one action.                             *)
(*                                                                         *)
(* The console is taken to be logged in with the configured PS1.  Bytes    *)
(* are grouped into items: the output of a command, its exit marker, and   *)
(* the prompt after it.  Command 0 is the carriage return of prepare().    *)
(***************************************************************************)
EXTENDS Naturals, Sequences, SequencesExt

CONSTANTS
    MaxSessions,   \* bound: connections opened
    MaxCommands,   \* bound: commands executed
    Size,          \* the number of bytes submitted for each command
    MaxTimeouts    \* bound: requests that time out

ASSUME LinkAssumption ==
    /\ MaxSessions \in Nat /\ MaxCommands \in Nat /\ MaxTimeouts \in Nat
    /\ Size \in [0..MaxCommands -> Nat]

VARIABLES
    session,     \* the connection in use, 0 when there is none
    doing,       \* the transport's method that is executing
    awaiting,    \* the request that _read_response waits for
    command,     \* the last command submitted
    buffer,      \* the console's local buffer
    channel,     \* per session: the SSH channel
    agent,       \* per session: the agent process
    requests,    \* per session: request lines the agent has not read
    responses,   \* per session: response lines the client has not read
    holders,     \* the sessions whose agents have the serial device open
    uart,        \* what the board printed and the agent has not read
    board,       \* what the board's shell still has to print
    ran,         \* history: the commands that reached the board, in order
    result,      \* history: what execute() returned or raised
    timeouts,    \* requests that have timed out so far
    smooth       \* history: nothing has failed so far

world == <<holders, uart, board, ran>>
vars == <<session, doing, awaiting, command, buffer, channel, agent, requests,
          responses, holders, uart, board, ran, result, timeouts, smooth>>

Sessions == 1..MaxSessions
Commands == 1..MaxCommands
Items == [cmd : 0..MaxCommands, part : {"output", "exit", "prompt"}]
Printed(c) ==
    IF c = 0 THEN <<[cmd |-> 0, part |-> "prompt"]>>
    ELSE <<[cmd |-> c, part |-> "output"], [cmd |-> c, part |-> "exit"],
           [cmd |-> c, part |-> "prompt"]>>

RequestKinds == {"hello", "open", "write", "read", "close"}
Requests == [kind : RequestKinds, cmd : 0..MaxCommands]
Responses == [kind : {"version", "ok", "written", "data", "error"},
              cmd : 0..MaxCommands, data : Seq(Items)]
Failed == [done |-> FALSE, text |-> <<>>]
Returned(text) == [done |-> TRUE, text |-> text]

LinkTypeOK ==
    /\ session \in 0..MaxSessions
    /\ doing \in {"idle", "connect", "prepare", "execute", "close", "abort"}
    /\ awaiting \in RequestKinds \cup {"none"}
    /\ command \in 0..MaxCommands
    /\ buffer \in Seq(Items)
    /\ channel \in [Sessions -> {"none", "open", "closed"}]
    /\ agent \in [Sessions -> {"none", "up", "exited"}]
    /\ requests \in [Sessions -> Seq(Requests)]
    /\ responses \in [Sessions -> Seq(Responses)]
    /\ holders \in SUBSET Sessions
    /\ uart \in Seq(Items)
    /\ board \in Seq(Items)
    /\ ran \in Seq(Commands)
    /\ result \in [Commands -> {Failed} \cup [done : {TRUE}, text : Seq(Items)]]
    /\ timeouts \in 0..MaxTimeouts
    /\ smooth \in BOOLEAN

Init ==
    /\ session = 0
    /\ doing = "idle"
    /\ awaiting = "none"
    /\ command = 0
    /\ buffer = <<>>
    /\ channel = [s \in Sessions |-> "none"]
    /\ agent = [s \in Sessions |-> "none"]
    /\ requests = [s \in Sessions |-> <<>>]
    /\ responses = [s \in Sessions |-> <<>>]
    /\ holders = {}
    /\ uart = <<>>
    /\ board = <<>>
    /\ ran = <<>>
    /\ result = [c \in Commands |-> Failed]
    /\ timeouts = 0
    /\ smooth = TRUE

------------------------------------------------------------------------------
(* SerialAgentChannel._request: the line is sent, then the answer awaited. *)
(* On a channel that is closed or whose agent has exited the request fails *)
(* before it is sent, here once the client looks for the answer.           *)

Send(s, kind, c) ==
    /\ awaiting' = kind
    /\ requests' = [requests EXCEPT ![s] = Append(@, [kind |-> kind, cmd |-> c])]

(* The SSH client is closed, and with it the channel. *)
Hangup ==
    /\ channel' = [channel EXCEPT ![session] = "closed"]
    /\ session' = 0
    /\ doing' = "idle"
    /\ awaiting' = "none"
    /\ UNCHANGED requests

(* PySerialOverSshTransport.connect; with a client it returns at once. *)
Connect(s) ==
    /\ doing = "idle" /\ session = 0
    /\ channel[s] = "none" /\ \A t \in 1..(s - 1) : channel[t] # "none"
    /\ session' = s
    /\ doing' = "connect"
    /\ channel' = [channel EXCEPT ![s] = "open"]
    /\ agent' = [agent EXCEPT ![s] = "up"]
    /\ Send(s, "hello", 0)
    /\ UNCHANGED <<command, buffer, responses, result, timeouts, smooth>>
    /\ UNCHANGED world

(* LinuxConsoleSession.execute: a unique token marks this command's exit. *)
Execute ==
    /\ doing = "idle" /\ session # 0
    /\ command < MaxCommands
    /\ command' = command + 1
    /\ doing' = "execute"
    /\ buffer' = <<>>
    /\ Send(session, "write", command + 1)
    /\ UNCHANGED <<session, channel, agent, responses, result, timeouts, smooth>>
    /\ UNCHANGED world

(* PySerialOverSshTransport.close. *)
Close ==
    /\ doing = "idle" /\ session # 0
    /\ doing' = "close"
    /\ Send(session, "close", 0)
    /\ UNCHANGED <<session, command, buffer, channel, agent, responses, result,
                   timeouts, smooth>>
    /\ UNCHANGED world

------------------------------------------------------------------------------
(* What the client makes of a response, or of its absence.                 *)

(* An exception, by the method it is raised in: connect hangs up, asking   *)
(* the agent to close first ("abort") once the console exists; execute     *)
(* passes it to its caller and keeps the connection; close goes on hanging *)
(* up.  A close request that finds the socket closed raises an OSError,    *)
(* which leaves connect's handler before it has forgotten the client.  The *)
(* text read so far is a local variable, and lost.                         *)
(* Mutant: a connection whose console cannot be prepared is forgotten.     *)
MutantForgetSession ==
    \/ /\ doing = "prepare"
       /\ session' = 0
       /\ doing' = "idle"
       /\ awaiting' = "none"
       /\ UNCHANGED <<channel, requests>>
    \/ doing \in {"connect", "close", "abort"} /\ Hangup
    \/ /\ doing = "execute"
       /\ doing' = "idle"
       /\ awaiting' = "none"
       /\ UNCHANGED <<session, channel, requests>>
Raise ==
    \/ doing \in {"connect", "close", "abort"} /\ Hangup
    \/ /\ doing = "prepare"
       /\ doing' = "abort"
       /\ Send(session, "close", 0)
       /\ UNCHANGED <<session, channel>>
    \/ /\ doing = "execute" \/ (doing = "abort" /\ channel[session] = "closed")
       /\ doing' = "idle"
       /\ awaiting' = "none"
       /\ UNCHANGED <<session, channel, requests>>

(* The checks of negotiate, open, sendall and recv_ready on a response.    *)
(* Mutant: any successful response will do.                                *)
MutantFits(r) == r.kind # "error"
Fits(r) ==
    /\ r.kind # "error"
    /\ awaiting = "hello" => r.kind = "version"
    /\ awaiting = "write" =>
          /\ r.kind = "written"
          /\ Size[r.cmd] = Size[IF doing = "prepare" THEN 0 ELSE command]
    /\ awaiting = "read" => r.kind = "data"

(* prepare() waits for a text that ends with the prompt, execute() for its *)
(* own exit marker followed by a text that ends with the prompt.           *)
(* Mutants: any exit marker; no wait for the prompt.                       *)
MutantAnyMarker(text) ==
    /\ text # <<>> /\ Last(text).part = "prompt"
    /\ doing = "execute" =>
          \E i \in 1..Len(text) : text[i].part = "exit"
MutantNoPrompt(text) ==
    IF doing = "execute"
    THEN \E i \in 1..Len(text) : text[i] = [cmd |-> command, part |-> "exit"]
    ELSE text # <<>> /\ Last(text).part = "prompt"
Complete(text) ==
    /\ text # <<>> /\ Last(text).part = "prompt"
    /\ doing = "execute" =>
          \E i \in 1..Len(text) : text[i] = [cmd |-> command, part |-> "exit"]

(* What precedes the exit marker.                                          *)
Stdout(text) ==
    LET marks == {i \in 1..Len(text) : text[i].part = "exit"}
    IN  SubSeq(text, 1, (CHOOSE i \in marks :
            \/ text[i].cmd = command
            \/ \A j \in marks : text[j].cmd # command) - 1)

(* A response that fits: the next request of the same method, or its end.  *)
(* The console looks at its buffer only when something was received.       *)
Proceed(r) ==
    \/ /\ awaiting = "hello"
       /\ Send(session, "open", 0)
       /\ UNCHANGED <<session, doing, buffer, channel, result>>
    \/ /\ awaiting = "open"
       /\ doing' = "prepare"
       /\ buffer' = <<>>
       /\ Send(session, "write", 0)
       /\ UNCHANGED <<session, channel, result>>
    \/ /\ awaiting = "write"
       /\ Send(session, "read", 0)
       /\ UNCHANGED <<session, doing, buffer, channel, result>>
    \/ /\ awaiting = "read"
       /\ buffer' = buffer \o r.data
       /\ IF r.data # <<>> /\ Complete(buffer')
          THEN /\ doing' = "idle"
               /\ awaiting' = "none"
               /\ result' = IF doing = "execute"
                            THEN [result EXCEPT ![command] = Returned(Stdout(buffer'))]
                            ELSE result
               /\ UNCHANGED requests
          ELSE /\ Send(session, "read", 0)
               /\ UNCHANGED <<doing, result>>
       /\ UNCHANGED <<session, channel>>

(* _read_response finds a line.  close() ignores what it says. *)
Receive ==
    /\ awaiting # "none" /\ responses[session] # <<>>
    /\ responses' = [responses EXCEPT ![session] = Tail(@)]
    /\ LET r == Head(responses[session]) IN
       \/ /\ awaiting # "close" /\ Fits(r)
          /\ Proceed(IF awaiting = "read" THEN r ELSE [r EXCEPT !.data = <<>>])
          /\ UNCHANGED smooth
       \/ /\ awaiting # "close" /\ ~Fits(r)
          /\ Raise
          /\ smooth' = FALSE
          /\ buffer' = <<>>
          /\ UNCHANGED result
       \/ /\ awaiting = "close"
          /\ Hangup
          /\ smooth' = (smooth /\ r.kind # "error")
          /\ UNCHANGED <<buffer, result>>
    /\ UNCHANGED <<command, agent, timeouts>>
    /\ UNCHANGED world

(* The request's own deadline passes first. *)
TimeOut ==
    /\ awaiting # "none"
    /\ timeouts < MaxTimeouts
    /\ timeouts' = timeouts + 1
    /\ Raise
    /\ smooth' = FALSE
    /\ buffer' = <<>>
    /\ UNCHANGED <<command, agent, responses, result>>
    /\ UNCHANGED world

(* The channel has ended and nothing is left to read. *)
SeeEnd ==
    /\ awaiting # "none" /\ responses[session] = <<>>
    /\ agent[session] = "exited" \/ channel[session] = "closed"
    /\ Raise
    /\ smooth' = FALSE
    /\ buffer' = <<>>
    /\ UNCHANGED <<command, agent, responses, result, timeouts>>
    /\ UNCHANGED world

(* The console's deadline passes between two reads: the response to the    *)
(* last one has been consumed, and does not complete the text.             *)
(* Mutant: the console polls without a deadline.                           *)
MutantNoDeadline == FALSE /\ UNCHANGED vars
GiveUp ==
    /\ awaiting = "read" /\ responses[session] # <<>>
    /\ responses' = [responses EXCEPT ![session] = Tail(@)]
    /\ ~Complete(buffer \o Head(responses[session]).data)
    /\ Raise
    /\ smooth' = FALSE
    /\ buffer' = <<>>
    /\ UNCHANGED <<command, agent, result, timeouts>>
    /\ UNCHANGED world

------------------------------------------------------------------------------
(* hardware_serial_agent: run() reads a line, handles it, writes a line.   *)

Answer(s, kind, c, data) ==
    responses' = [responses EXCEPT ![s] = IF channel[s] = "open"
                     THEN Append(@, [kind |-> kind, cmd |-> c, data |-> data])
                     ELSE @]

(* SerialAgent.close: what the board has sent is lost with the port.       *)
Release(s) ==
    IF s \in holders THEN holders' = holders \ {s} /\ uart' = <<>>
                     ELSE UNCHANGED <<holders, uart>>

(* serial.Serial(exclusive=True) fails while another process has the port. *)
(* Mutant: the port is shared.                                             *)
MutantFree == TRUE
Free == holders = {}

(* AgentError: the fields are not valid, the device is not open or already *)
(* open, or pyserial raises.  An agent whose close raises has given up the *)
(* port and goes on reading requests.                                      *)
Refuse(s, r) ==
    /\ r.kind # "hello"
    /\ Answer(s, "error", 0, <<>>)
    /\ IF r.kind = "close" THEN Release(s) ELSE UNCHANGED <<holders, uart>>
    /\ UNCHANGED <<agent, board, ran>>

(* SerialAgent.handle and the methods it dispatches to. *)
Handle(s, r) ==
    \/ /\ r.kind = "hello"
       /\ Answer(s, "version", 0, <<>>)
       /\ UNCHANGED <<agent, world>>
    \/ /\ r.kind = "open" /\ Free
       /\ holders' = holders \cup {s}
       /\ uart' = <<>>
       /\ Answer(s, "ok", 0, <<>>)
       /\ UNCHANGED <<agent, board, ran>>
    \/ /\ r.kind = "write" /\ s \in holders
       /\ board' = board \o Printed(r.cmd)
       /\ ran' = IF r.cmd = 0 THEN ran ELSE Append(ran, r.cmd)
       /\ Answer(s, "written", r.cmd, <<>>)
       /\ UNCHANGED <<agent, holders, uart>>
    \/ /\ r.kind = "read" /\ s \in holders
       /\ uart' = <<>>
       /\ Answer(s, "data", 0, uart)
       /\ UNCHANGED <<agent, holders, board, ran>>
    \/ /\ r.kind = "close"
       /\ Release(s)
       /\ agent' = [agent EXCEPT ![s] = "exited"]
       /\ Answer(s, "ok", 0, <<>>)
       /\ UNCHANGED <<board, ran>>
    \/ Refuse(s, r)

Serve(s) ==
    /\ agent[s] = "up" /\ requests[s] # <<>>
    /\ Handle(s, Head(requests[s]))
    /\ requests' = [requests EXCEPT ![s] = Tail(@)]
    /\ UNCHANGED <<session, doing, awaiting, command, buffer, channel, result,
                   timeouts, smooth>>

(* The finally clause of run(): end of file on stdin. *)
EndOfFile(s) ==
    /\ agent[s] = "up" /\ requests[s] = <<>> /\ channel[s] = "closed"
    /\ agent' = [agent EXCEPT ![s] = "exited"]
    /\ Release(s)
    /\ UNCHANGED <<session, doing, awaiting, command, buffer, channel, requests,
                   responses, board, ran, result, timeouts, smooth>>

(* The agent is killed, cannot be started, or fails to write a response:   *)
(* the operating system closes its device.                                 *)
Die(s) ==
    /\ agent[s] = "up"
    /\ agent' = [agent EXCEPT ![s] = "exited"]
    /\ Release(s)
    /\ UNCHANGED <<session, doing, awaiting, command, buffer, channel, requests,
                   responses, board, ran, result, timeouts, smooth>>

(* The SSH connection breaks; responses on their way may be lost. *)
LoseLink(s) ==
    /\ channel[s] = "open"
    /\ channel' = [channel EXCEPT ![s] = "closed"]
    /\ \E n \in 0..Len(responses[s]) :
          responses' = [responses EXCEPT ![s] = SubSeq(@, 1, n)]
    /\ UNCHANGED <<session, doing, awaiting, command, buffer, agent, requests,
                   result, timeouts, smooth>>
    /\ UNCHANGED world

(* The board prints; nobody hears it while the port is closed. *)
BoardPrints ==
    /\ board # <<>>
    /\ board' = Tail(board)
    /\ uart' = IF holders # {} THEN Append(uart, Head(board)) ELSE uart
    /\ UNCHANGED <<session, doing, awaiting, command, buffer, channel, agent,
                   requests, responses, holders, ran, result, timeouts, smooth>>

------------------------------------------------------------------------------

ClientStep ==
    \/ \E s \in Sessions : Connect(s)
    \/ Execute \/ Close
    \/ Receive \/ TimeOut \/ SeeEnd \/ GiveUp

StandStep(s) == Serve(s) \/ EndOfFile(s) \/ Die(s) \/ LoseLink(s)

Next == ClientStep \/ (\E s \in Sessions : StandStep(s)) \/ BoardPrints

Spec == Init /\ [][Next]_vars

(* The agent answers: a read is bounded by its timeout, a write by the     *)
(* write timeout.  The client polls for its response, and its deadlines    *)
(* pass.                                                                   *)
Fairness ==
    /\ \A s \in Sessions : WF_vars(Serve(s) \/ EndOfFile(s))
    /\ WF_vars(Receive \/ SeeEnd)
    /\ SF_vars(GiveUp)

FairSpec == Spec /\ Fairness

------------------------------------------------------------------------------
(* Properties.                                                             *)

(* A command that returns has returned all of its own output, whatever     *)
(* timed out, failed or reconnected before it: late responses of earlier   *)
(* requests are never taken for its own.                                   *)
OutputIsComplete ==
    \A c \in Commands : result[c].done =>
        LET text == result[c].text IN
        \E n \in 1..Len(text) :
            /\ text[n] = [cmd |-> c, part |-> "output"]
            /\ \A m \in 1..Len(text) : text[m].cmd = c => m = n

(* As long as nothing has failed, a command returns its own output and     *)
(* nothing else: no prompt or output of an earlier one leaks into it.      *)
OutputIsClean ==
    smooth => \A c \in Commands : result[c].done =>
        result[c].text = <<[cmd |-> c, part |-> "output"]>>

(* No command returns on a link that is out of step: once a response has   *)
(* been left behind, every command fails until the transport is closed and *)
(* connected again.                                                        *)
ReturnsInStep ==
    [][\A c \in Commands : ~result[c].done /\ result'[c].done
          => requests[session] = <<>> /\ responses'[session] = <<>>]_vars

(* Commands reach the board in the order they were submitted, across       *)
(* reconnections: the agent of an abandoned session cannot write once that *)
(* of a later one has the device.                                          *)
BoardOrder == \A i, j \in 1..Len(ran) : i < j => ran[i] < ran[j]

(* "close the device when requested or when the SSH channel ends": the     *)
(* device of an abandoned session is released, so a retry can open it.     *)
DeviceReleased ==
    \A s \in Sessions : s \in holders /\ session # s ~> s \notin holders

(* connect, execute and close all return or raise. *)
CallsReturn == doing # "idle" ~> doing = "idle"
==============================================================================
