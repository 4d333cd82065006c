---------------------------- MODULE ConsoleLogin ----------------------------
(***************************************************************************)
(* Reaching a board's shell: LinuxConsoleSession.prepare() behind the      *)
(* PySerialTransport (a local port) and the PicocomOverSshTransport (a     *)
(* port that a remote picocom holds).                                      *)
(*                                                                         *)
(* prepare() types a carriage return and decides by the end of what it has *)
(* read so far; where a read ends is up to the serial line.  The board     *)
(* keeps its login state, the lines it has not read and the text it has    *)
(* not printed when the transport gives up and connects again.             *)
(*                                                                         *)
(* Text is reduced to what the console tells apart: the four configured    *)
(* markers, the exit marker of a command, and everything else.  An echoed  *)
(* line that quotes the prompt is an "echo" item, whose end looks like the *)
(* prompt, and the rest of the line.  Other text does not end in a marker, *)
(* as docs/picocom-over-ssh.md asks of the configured values.              *)
(***************************************************************************)
EXTENDS Naturals, Sequences

CONSTANTS
    MaxConnects,   \* bound: calls of connect()
    MaxCommands    \* bound: calls of execute()

ASSUME LoginAssumption == MaxConnects \in Nat /\ MaxCommands \in Nat

VARIABLES
    setup,       \* the transport, its console credentials, the board's account
    pc,          \* where the transport's connect() or execute() is
    port,        \* what each connection has of the serial device
    up,          \* the channel to the device works
    input,       \* what the device delivered and the console has not read
    marked,      \* the exit marker of the current command has been read
    stolen,      \* history: an earlier picocom read what this call waits for
    board,       \* who reads the board's console
    ps1,         \* the board's shell prints the configured prompt
    typed,       \* lines the board has not read
    printing,    \* what the board still has to print
    connects,    \* calls of connect() so far
    command,     \* the last command submitted
    outcome,     \* history: how the last connect() ended
    disturbed,   \* history: a prepare() was given up in the middle
    misread      \* history: commands that something other than a shell read

client == <<setup, pc, port, up, input, marked, stolen, connects, command,
            outcome, disturbed>>
console == <<board, ps1, typed, printing, misread>>
vars == <<setup, pc, port, up, input, marked, stolen, board, ps1, typed, printing,
          connects, command, outcome, disturbed, misread>>

Commands == 1..MaxCommands
Connections == 1..MaxConnects
Plain(text) == [text |-> text, cmd |-> 0]
Of(text, c) == [text |-> text, cmd |-> c]
Items == [text : {"login", "password", "initial", "prompt", "echo", "other", "exit"},
          cmd : 0..MaxCommands]
Lines == [text : {"enter", "username", "secret", "export", "command"},
          cmd : 0..MaxCommands]

(* The account of the board may have no password. *)
Setups == [kind : {"pyserial", "picocom"}, credentials : {"none", "good", "bad"},
           passwordless : BOOLEAN]

Detecting == {"state", "username", "password"}
Preparing == Detecting \cup {"prompt"}
Waiting == Preparing \cup {"execute"}

ConsoleTypeOK ==
    /\ setup \in Setups
    /\ pc \in Waiting \cup {"closed", "verify", "ready"}
    /\ port \in [Connections -> {"free", "held", "lingering"}]
    /\ input \in Seq(Items) /\ printing \in Seq(Items)
    /\ typed \in Seq(Lines)
    /\ board \in {"login", "password", "mistaken", "shell"}
    /\ {up, marked, stolen, ps1, disturbed} \subseteq BOOLEAN
    /\ connects \in 0..MaxConnects /\ command \in 0..MaxCommands
    /\ outcome \in {"none", "ready", "refused", "unable", "timeout", "lost"}
    /\ misread \subseteq Commands

(* The board waits at a login prompt, for a password somebody was asked    *)
(* for, or in a shell.                                                     *)
Init ==
    /\ setup \in Setups
    /\ pc = "closed" /\ port = [c \in Connections |-> "free"] /\ up = FALSE
    /\ input = <<>> /\ marked = FALSE /\ stolen = FALSE
    /\ board \in {"login", "password", "mistaken", "shell"} /\ ps1 = FALSE
    /\ typed = <<>> /\ printing = <<>>
    /\ connects = 0 /\ command = 0 /\ outcome = "none"
    /\ disturbed = FALSE /\ misread = {}

------------------------------------------------------------------------------
(* The transport and the console.                                          *)

(* sendall() reaches the board while the channel works. *)
Type(line) == typed' = IF up THEN Append(typed, line) ELSE typed

MutantKeepOpen ==
    /\ up' = FALSE
    /\ port' = port
    /\ input' = <<>>

(* close(): a local port is closed at once; the remote picocom ends after  *)
(* its channel has.                                                        *)
CloseDevice ==
    /\ up' = FALSE
    /\ port' = [port EXCEPT ![connects] =
                   IF setup.kind = "picocom" /\ @ # "free" THEN "lingering" ELSE "free"]
    /\ input' = <<>>

(* The except clauses of connect(). *)
Raise(how) ==
    /\ CloseDevice
    /\ pc' = "closed"
    /\ outcome' = how
    /\ disturbed' = (disturbed \/ how \in {"timeout", "lost"})

(* The device is open, what it had buffered is discarded, and prepare()    *)
(* types a carriage return.                                                *)
Opened(c) ==
    /\ port' = [port EXCEPT ![c] = "held"] /\ up' = TRUE /\ input' = <<>>
    /\ typed' = Append(typed, Plain("enter"))
    /\ stolen' = FALSE
    /\ pc' = "state"
    /\ UNCHANGED <<setup, marked, board, ps1, printing, command, disturbed, misread>>

(* connect() of a local port, which is opened for exclusive use. *)
OpenPort ==
    /\ pc = "closed" /\ connects < MaxConnects
    /\ setup.kind = "pyserial" /\ \A c \in Connections : port[c] = "free"
    /\ connects' = connects + 1 /\ outcome' = "none"
    /\ Opened(connects + 1)

(* connect() of a remote one: the SSH connection is there, and the remote  *)
(* host was asked to test the device.                                      *)
Connect ==
    /\ pc = "closed" /\ connects < MaxConnects
    /\ setup.kind = "picocom"
    /\ connects' = connects + 1 /\ outcome' = "none"
    /\ pc' = "verify"
    /\ UNCHANGED <<setup, port, up, input, marked, stolen, command, disturbed, console>>

(* The test has succeeded and picocom opens the device, which the picocom  *)
(* of an earlier connection may still have open.                           *)
StartPicocom ==
    /\ pc = "verify"
    /\ Opened(connects)
    /\ UNCHANGED <<connects, outcome>>

(* The host or the local port cannot be reached. *)
ConnectFails ==
    /\ pc = "closed" /\ connects < MaxConnects
    /\ connects' = connects + 1
    /\ outcome' = "lost"
    /\ UNCHANGED <<setup, pc, port, up, input, marked, stolen, command, disturbed, console>>

(* The test fails, the connection ends, or an earlier picocom has locked   *)
(* the device and the new one exits.                                       *)
VerifyFails ==
    /\ pc = "verify"
    /\ pc' = "closed"
    /\ outcome' = "lost"
    /\ UNCHANGED <<setup, port, up, input, marked, stolen, connects, command, disturbed, console>>

(* The marker that the text read so far ends with. *)
Marker(item) ==
    CASE item.text \in {"prompt", "echo"} -> "prompt"
      [] item.text \in {"login", "password", "initial"} -> item.text
      [] OTHER -> "none"

(* recv() returns some of what has arrived; these reads end in m. *)
Ends(m) == {n \in 1..Len(input) : Marker(input[n]) = m}
Reads(m) == \E n \in Ends(m) : input' = SubSeq(input, n + 1, Len(input))

(* No marker at the end of the buffer: _read_until_any goes on. *)
KeepReading ==
    /\ \/ pc \in Detecting /\ Reads("none")
       \/ pc = "prompt" /\ \E m \in {"none", "login", "password", "initial"} : Reads(m)
    /\ UNCHANGED <<setup, pc, port, up, marked, stolen, connects, command, outcome, disturbed, console>>

SendUsername ==
    /\ pc = "state" /\ Reads("login")
    /\ setup.credentials # "none"
    /\ Type(Plain("username"))
    /\ pc' = "username"
    /\ UNCHANGED <<setup, port, up, marked, stolen, board, ps1, printing,
                   connects, command, outcome, disturbed, misread>>

SendPassword ==
    /\ pc \in {"state", "username"} /\ Reads("password")
    /\ setup.credentials # "none"
    /\ Type(Plain("secret"))
    /\ pc' = "password"
    /\ UNCHANGED <<setup, port, up, marked, stolen, board, ps1, printing,
                   connects, command, outcome, disturbed, misread>>

(* A login is requested and no credentials are configured. *)
NoCredentials ==
    /\ pc = "state" /\ Ends("login") \cup Ends("password") # {}
    /\ setup.credentials = "none"
    /\ Raise("unable")
    /\ UNCHANGED <<setup, marked, stolen, connects, command, console>>

MutantRejectedTwice ==
    \/ pc \in {"state", "username"} /\ Ends("login") # {}
    \/ pc = "password" /\ Ends("login") \cup Ends("password") # {}

(* The credentials were sent and a login or password prompt came back. *)
Rejected ==
    \/ pc = "username" /\ Ends("login") # {}
    \/ pc = "password" /\ Ends("login") \cup Ends("password") # {}

Refused ==
    /\ Rejected
    /\ Raise("refused")
    /\ UNCHANGED <<setup, marked, stolen, connects, command, console>>

MutantAfterPassword ==
    \/ pc \in Detecting /\ Reads("initial")
    \/ pc = "password" /\ Reads("login")

(* When the shell's own prompt is recognised, prepare() sets PS1. *)
ShellSeen == pc \in Detecting /\ Reads("initial")

SetPrompt ==
    /\ ShellSeen
    /\ Type(Plain("export"))
    /\ pc' = "prompt"
    /\ UNCHANGED <<setup, port, up, marked, stolen, board, ps1, printing,
                   connects, command, outcome, disturbed, misread>>

Prepared ==
    /\ pc \in Preparing /\ Reads("prompt")
    /\ pc' = "ready" /\ outcome' = "ready"
    /\ UNCHANGED <<setup, port, up, marked, stolen, connects, command, disturbed, console>>

(* The deadline of one _read_until_any passes. *)
PrepareTimesOut ==
    /\ pc \in Preparing
    /\ Raise("timeout")
    /\ UNCHANGED <<setup, marked, stolen, connects, command, console>>

(* Nothing more to read from a channel that has ended. *)
PrepareEnds ==
    /\ pc \in Preparing /\ ~up /\ input = <<>>
    /\ Raise("lost")
    /\ UNCHANGED <<setup, marked, stolen, connects, command, console>>

Execute ==
    /\ pc = "ready" /\ up /\ command < MaxCommands
    /\ command' = command + 1
    /\ Type(Of("command", command + 1))
    /\ marked' = FALSE /\ stolen' = FALSE
    /\ pc' = "execute"
    /\ UNCHANGED <<setup, port, up, input, board, ps1, printing, connects,
                   outcome, disturbed, misread>>

MutantForgetsMarker ==
    /\ pc = "execute"
    /\ \E n \in 1..Len(input) :
         /\ input' = SubSeq(input, n + 1, Len(input))
         /\ marked' = \E i \in 1..n : input[i] = Of("exit", command)
         /\ pc' = IF marked' /\ Marker(input[n]) = "prompt" THEN "ready" ELSE "execute"
    /\ UNCHANGED <<setup, port, up, stolen, connects, command, outcome, disturbed, console>>

(* _read_command_response: the exit marker of this command, and the prompt *)
(* at the end.                                                             *)
ReadResponse ==
    /\ pc = "execute"
    /\ \E n \in 1..Len(input) :
         /\ input' = SubSeq(input, n + 1, Len(input))
         /\ marked' = (marked \/ \E i \in 1..n : input[i] = Of("exit", command))
         /\ pc' = IF marked' /\ Marker(input[n]) = "prompt" THEN "ready" ELSE "execute"
    /\ UNCHANGED <<setup, port, up, stolen, connects, command, outcome, disturbed, console>>

(* The command times out or its channel ends; the transport stays as it is.*)
ExecuteRaises ==
    /\ pc = "execute"
    /\ pc' = "ready"
    /\ UNCHANGED <<setup, port, up, input, marked, stolen, connects, command, outcome, disturbed, console>>

Close ==
    /\ pc = "ready"
    /\ CloseDevice
    /\ pc' = "closed"
    /\ UNCHANGED <<setup, marked, stolen, connects, command, outcome, disturbed, console>>

------------------------------------------------------------------------------
(* The device and the board.                                               *)

(* picocom's terminal is gone. *)
PicocomExits(c) ==
    /\ port[c] = "lingering"
    /\ port' = [port EXCEPT ![c] = "free"]
    /\ UNCHANGED <<setup, pc, up, input, marked, stolen, connects, command,
                   outcome, disturbed, console>>

(* The SSH connection breaks, or the port's adapter is unplugged. *)
LoseChannel ==
    /\ up
    /\ up' = FALSE
    /\ port' = IF setup.kind = "picocom" THEN [port EXCEPT ![connects] = "lingering"] ELSE port
    /\ UNCHANGED <<setup, pc, input, marked, stolen, connects, command,
                   outcome, disturbed, console>>

(* A line that quotes the prompt is echoed with it. *)
Echo(line) ==
    IF line.text \in {"export", "command"} THEN <<Plain("echo"), Plain("other")>>
    ELSE <<Plain("other")>>

ShellPrompt(set) == Plain(IF set THEN "prompt" ELSE "initial")

(* getty takes a line for a user name.  An empty one it asks for again. *)
LoginReads(line) ==
    /\ board = "login"
    /\ UNCHANGED ps1
    /\ misread' = IF line.text = "command" THEN misread \cup {line.cmd} ELSE misread
    /\ \/ /\ line.text = "enter"
          /\ printing' = <<Plain("other"), Plain("login")>>
          /\ UNCHANGED board
       \/ /\ line.text = "username" /\ setup.credentials = "good" /\ setup.passwordless
          /\ printing' = Echo(line) \o <<Plain("initial")>>
          /\ board' = "shell"
       \/ /\ line.text # "enter"
          /\ ~(line.text = "username" /\ setup.credentials = "good" /\ setup.passwordless)
          /\ printing' = Echo(line) \o <<Plain("password")>>
          /\ board' = IF line.text = "username" THEN "password" ELSE "mistaken"

(* login takes a line for the password and does not echo it. *)
PasswordReads(line) ==
    /\ board \in {"password", "mistaken"}
    /\ UNCHANGED ps1
    /\ misread' = IF line.text = "command" THEN misread \cup {line.cmd} ELSE misread
    /\ IF board = "password" /\ line.text = "secret" /\ setup.credentials = "good"
       THEN board' = "shell" /\ printing' = <<Plain("other"), Plain("initial")>>
       ELSE board' = "login" /\ printing' = <<Plain("other"), Plain("login")>>

(* The shell echoes a line and then executes it.  Every command sets PS1   *)
(* again before it prints its exit marker.                                 *)
ShellReads(line) ==
    /\ board = "shell"
    /\ UNCHANGED <<board, ps1, misread>>
    /\ printing' =
         Echo(line)
         \o (IF line.text = "command"
             THEN <<Plain("other"), Of("exit", line.cmd)>> ELSE <<>>)
         \o <<ShellPrompt(ps1 \/ line.text \in {"export", "command"})>>

BoardReads ==
    /\ typed # <<>> /\ printing = <<>>
    /\ typed' = Tail(typed)
    /\ LoginReads(Head(typed)) \/ PasswordReads(Head(typed)) \/ ShellReads(Head(typed))
    /\ UNCHANGED client

(* Text that nobody is there to receive is lost, and a picocom that has    *)
(* not ended yet may read it instead of the new one.  PS1 is set by the    *)
(* time the first prompt is printed from it.                               *)
BoardPrints ==
    /\ printing # <<>>
    /\ printing' = Tail(printing)
    /\ ps1' = (ps1 \/ Head(printing).text = "prompt")
    /\ \/ up /\ input' = Append(input, Head(printing)) /\ UNCHANGED stolen
       \/ ~up /\ UNCHANGED <<input, stolen>>
       \/ /\ up /\ \E c \in Connections : port[c] = "lingering"
          /\ stolen' = (stolen \/ pc \in Waiting)
          /\ UNCHANGED input
    /\ UNCHANGED <<setup, pc, port, up, marked, connects, command, outcome, disturbed,
                   board, typed, misread>>

(* An idle shell logs out, or the board restarts, between two connections. *)
Logout ==
    /\ board = "shell" /\ pc \in {"closed", "verify"} /\ typed = <<>> /\ printing = <<>>
    /\ board' = "login" /\ ps1' = FALSE
    /\ UNCHANGED <<client, typed, printing, misread>>

------------------------------------------------------------------------------
PrepareStep ==
    \/ KeepReading \/ SendUsername \/ SendPassword \/ NoCredentials \/ Refused
    \/ SetPrompt \/ Prepared \/ PrepareTimesOut \/ PrepareEnds
ExecuteStep == Execute \/ ReadResponse \/ ExecuteRaises
BoardStep == BoardReads \/ BoardPrints \/ Logout

Next ==
    \/ OpenPort \/ Connect \/ StartPicocom \/ ConnectFails \/ VerifyFails
    \/ PrepareStep \/ ExecuteStep \/ Close
    \/ (\E c \in Connections : PicocomExits(c)) \/ LoseChannel \/ BoardStep

Spec == Init /\ [][Next]_vars

(* A picocom without a terminal ends.  Nothing else is needed: not that    *)
(* the remote host answers the test of the device, for which connect()     *)
(* waits without a deadline, nor that the board prints.                    *)
Fairness == \A c \in Connections : WF_vars(PicocomExits(c))

FairSpec == Spec /\ Fairness

------------------------------------------------------------------------------
(* Properties.                                                             *)

(* Every command is read by a shell of the board, never by getty as a user *)
(* name or by login as a password, whatever an earlier connection left     *)
(* typed or unprinted.                                                     *)
CommandsReachShell == misread = {}

(* prepare() reports failed authentication only to whom the board rejects, *)
(* unless an earlier login was given up in the middle and the board        *)
(* answers it late.                                                        *)
RefusalIsReal == outcome = "refused" => setup.credentials = "bad" \/ disturbed

(* prepare() and execute() never wait for what will not come: on a channel *)
(* that works, the text they wait for is still to be read, to be printed,  *)
(* or to be the answer to a line the board has yet to read, however the    *)
(* reads are cut and whatever an earlier connection left behind; unless an *)
(* earlier picocom read some of it.                                        *)
AnswerUnderWay ==
    pc \in Waiting /\ up /\ ~stolen => input # <<>> \/ printing # <<>> \/ typed # <<>>

(* A connection that ended or failed gives up the serial device, even when *)
(* the next one has begun.                                                 *)
DeviceIsFreed ==
    \A c \in Connections :
       port[c] # "free" /\ (pc = "closed" \/ c # connects) ~> port[c] = "free"

(* "Open SSH, start picocom, and establish a deterministic shell prompt."  *)
PromptEstablished == pc = "ready" /\ command = 0 => ps1
==============================================================================
