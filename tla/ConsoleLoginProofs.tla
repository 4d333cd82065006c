------------------------- MODULE ConsoleLoginProofs -------------------------
(***************************************************************************)
(* That a command reaches a shell, and a refusal is the board's, for any   *)
(* number of connections and commands and however the reads are cut.       *)
(*                                                                         *)
(* The first argument goes from the text to the board: outside a shell     *)
(* nothing looks like a prompt, so prepare() types nothing that only a     *)
(* shell may read, and the board leaves its shell only when all that was   *)
(* typed has been read.  The second follows one login: as long as none was *)
(* given up, the board outside a shell has at most one line to read or one *)
(* question to put, and the one that fits what the console has sent.  The  *)
(* third follows the text to its end: whatever the board prints ends in a  *)
(* marker, and in the one waited for once the last line typed was read.    *)
(***************************************************************************)
EXTENDS ConsoleLogin, SequenceTheorems, TLAPS

(* The texts of items or lines.                                            *)
TextsOf(s) == {s[i].text : i \in 1..Len(s)}

(* Only a shell prints its prompts, or echoes what quotes one; and nothing *)
(* that only a shell may read is typed before one has been seen.           *)
ShellInv ==
    /\ pc \in {"closed", "verify"} => ~up /\ input = <<>>
    /\ \/ board = "shell"
       \/ /\ pc \notin {"prompt", "ready", "execute"}
          /\ (TextsOf(input) \cup TextsOf(printing)) \cap {"initial", "prompt", "echo"} = {}
          /\ TextsOf(typed) \cap {"export", "command"} = {}

(* What asks for a user name or a password is the end of what the board    *)
(* has printed and prints, and asks for this.                              *)
Asks(s) == {i \in 1..Len(s) : s[i].text \in {"login", "password"}}
AsksLast(m) ==
    /\ Asks(input) \subseteq {Len(input)} /\ Asks(printing) \subseteq {Len(printing)}
    /\ \A i \in Asks(input) : input[i].text = m /\ printing = <<>>
    /\ \A i \in Asks(printing) : printing[i].text = m
AsksNothing == Asks(input) = {} /\ Asks(printing) = {}

(* While no login was given up and the credentials are good, the board     *)
(* outside a shell is one step behind the console or waits for it.         *)
InStep ==
    /\ pc \in {"closed", "verify"} => typed = <<>> /\ printing = <<>>
    /\ pc = "state" =>
          \/ typed = <<Plain("enter")>> /\ printing = <<>> /\ AsksNothing
          \/ typed = <<>> /\ board = "login" /\ AsksLast("login")
    /\ pc = "username" =>
          \/ typed = <<Plain("username")>> /\ board = "login" /\ printing = <<>> /\ AsksNothing
          \/ typed = <<>> /\ ~up /\ AsksNothing
          \/ typed = <<>> /\ board = "password" /\ AsksLast("password")
    /\ pc = "password" =>
          \/ typed = <<Plain("secret")>> /\ board = "password" /\ printing = <<>> /\ AsksNothing
          \/ typed = <<>> /\ ~up /\ AsksNothing
LoginInv ==
    /\ pc \in {"username", "password"} => setup.credentials # "none"
    /\ setup.credentials = "good" /\ ~disturbed =>
          IF board = "shell" THEN AsksNothing ELSE InStep

Shape ==
    /\ setup \in Setups
    /\ pc \in Waiting \cup {"closed", "verify", "ready"}
    /\ up \in BOOLEAN /\ disturbed \in BOOLEAN
    /\ input \in Seq(Items) /\ printing \in Seq(Items) /\ typed \in Seq(Lines)
    /\ board \in {"login", "password", "mistaken", "shell"}
    /\ command \in 0..MaxCommands

(* The inductive invariant. *)
ConsoleInv ==
    Shape /\ ShellInv /\ LoginInv /\ CommandsReachShell /\ RefusalIsReal

------------------------------------------------------------------------------
(* What is read, printed and typed.                                        *)

LEMMA NoText ==
  TextsOf(<<>>) = {} /\ Asks(<<>>) = {}
  BY DEF TextsOf, Asks

(* recv() leaves the end of the input. *)
LEMMA Suffix ==
  ASSUME NEW s \in Seq(Items), NEW n \in 1..Len(s)
  PROVE  LET t == SubSeq(s, n + 1, Len(s)) IN
         /\ t \in Seq(Items)
         /\ s[n].text \in TextsOf(s)
         /\ TextsOf(t) \subseteq TextsOf(s)
         /\ Asks(s) = {} => Asks(t) = {}
         /\ Asks(s) \subseteq {Len(s)} =>
               /\ Asks(t) \subseteq {Len(t)}
               /\ n \in Asks(s) => Asks(t) = {}
         /\ \A i \in Asks(t) : n + i \in Asks(s) /\ t[i] = s[n + i]
<1> DEFINE t == SubSeq(s, n + 1, Len(s))
<1>1. /\ t \in Seq(Items) /\ Len(t) = Len(s) - n /\ Len(s) \in Nat /\ n \in Nat
      /\ \A i \in 1..Len(t) : n + i \in 1..Len(s) /\ t[i] = s[n + i]
  OBVIOUS
<1> HIDE DEF t
<1>2. s[n].text \in TextsOf(s) /\ TextsOf(t) \subseteq TextsOf(s)
  BY <1>1 DEF TextsOf
<1>3. \A i \in Asks(t) : i \in 1..Len(t) /\ n + i \in Asks(s) /\ t[i] = s[n + i]
  BY <1>1 DEF Asks
<1>4. Asks(s) = {} => Asks(t) = {}
  BY <1>3
<1>5. ASSUME Asks(s) \subseteq {Len(s)}
      PROVE  /\ Asks(t) \subseteq {Len(t)}
             /\ n \in Asks(s) => Asks(t) = {}
  <2>1. \A i \in Asks(t) : n + i = Len(s)
    BY <1>3, <1>5
  <2>2. \A i \in Asks(t) : i = Len(t) /\ i >= 1
    BY <1>1, <1>3, <2>1
  <2>3. n \in Asks(s) => n = Len(s)
    BY <1>5
  <2> QED BY <1>1, <1>3, <2>2, <2>3
<1> QED BY <1>1, <1>2, <1>3, <1>4, <1>5 DEF t

(* One more item arrives, or one more line is typed. *)
LEMMA Longer ==
  ASSUME NEW S, NEW s \in Seq(S), NEW x \in S
  PROVE  LET t == Append(s, x) IN
         /\ t \in Seq(S) /\ Len(t) = Len(s) + 1 /\ t[Len(t)] = x
         /\ TextsOf(t) = TextsOf(s) \cup {x.text}
         /\ Asks(t) = Asks(s) \cup (IF x.text \in {"login", "password"} THEN {Len(t)} ELSE {})
         /\ \A i \in 1..Len(s) : t[i] = s[i]
<1> DEFINE t == Append(s, x)
<1>1. /\ t \in Seq(S) /\ Len(t) = Len(s) + 1 /\ t[Len(s) + 1] = x /\ Len(s) \in Nat
      /\ \A i \in 1..Len(s) : t[i] = s[i]
  OBVIOUS
<1> HIDE DEF t
<1>2. 1..Len(t) = 1..Len(s) \cup {Len(s) + 1}
  BY <1>1
<1>3. TextsOf(t) = TextsOf(s) \cup {x.text}
  BY <1>1, <1>2 DEF TextsOf
<1>4. Asks(t) = Asks(s) \cup (IF x.text \in {"login", "password"} THEN {Len(t)} ELSE {})
  BY <1>1, <1>2 DEF Asks
<1> QED BY <1>1, <1>3, <1>4 DEF t

(* The board takes the first of its lines, or prints the first of its      *)
(* items.                                                                  *)
LEMMA Shorter ==
  ASSUME NEW S, NEW s \in Seq(S), s # <<>>
  PROVE  LET t == Tail(s) IN
         /\ t \in Seq(S) /\ Head(s) \in S /\ Len(t) = Len(s) - 1
         /\ Head(s).text \in TextsOf(s) /\ TextsOf(t) \subseteq TextsOf(s)
         /\ \A i \in Asks(t) : i + 1 \in Asks(s) /\ t[i] = s[i + 1]
         /\ Head(s).text \in {"login", "password"} => 1 \in Asks(s) /\ s[1] = Head(s)
<1> DEFINE t == Tail(s)
<1>1. /\ t \in Seq(S) /\ Len(t) = Len(s) - 1 /\ Len(s) \in Nat \ {0}
      /\ \A i \in 1..Len(t) : i + 1 \in 1..Len(s) /\ t[i] = s[i + 1]
  OBVIOUS
<1>2. Head(s) = s[1] /\ 1 \in 1..Len(s) /\ Head(s) \in S
  BY <1>1
<1> HIDE DEF t
<1>3. Head(s).text \in TextsOf(s) /\ TextsOf(t) \subseteq TextsOf(s)
  BY <1>1, <1>2 DEF TextsOf
<1>4. \A i \in Asks(t) : i + 1 \in Asks(s) /\ t[i] = s[i + 1]
  BY <1>1 DEF Asks
<1>5. Head(s).text \in {"login", "password"} => 1 \in Asks(s)
  BY <1>2 DEF Asks
<1> QED BY <1>1, <1>2, <1>3, <1>4, <1>5 DEF t

------------------------------------------------------------------------------
(* The steps that only read.                                               *)

(* The end of the input is as good as the input for all that is said of    *)
(* it.                                                                     *)
LEMMA ReadKeeps ==
  ASSUME Shape, NEW n \in 1..Len(input), input' = SubSeq(input, n + 1, Len(input)),
         UNCHANGED printing
  PROVE  /\ input' \in Seq(Items)
         /\ input[n].text \in TextsOf(input)
         /\ TextsOf(input') \subseteq TextsOf(input)
         /\ AsksNothing => AsksNothing'
         /\ \A m : AsksLast(m) => AsksLast(m)'
         /\ \A m : AsksLast(m) /\ n \in Asks(input) =>
               input[n].text = m /\ printing = <<>> /\ AsksNothing'
<1>1. /\ input' \in Seq(Items)
      /\ input[n].text \in TextsOf(input)
      /\ TextsOf(input') \subseteq TextsOf(input)
      /\ Asks(input) = {} => Asks(input') = {}
      /\ Asks(input) \subseteq {Len(input)} =>
            /\ Asks(input') \subseteq {Len(input')}
            /\ n \in Asks(input) => Asks(input') = {}
      /\ \A i \in Asks(input') : n + i \in Asks(input) /\ input'[i] = input[n + i]
  <2>1. input \in Seq(Items)
    BY DEF Shape
  <2> DEFINE s == input
             t == SubSeq(s, n + 1, Len(s))
  <2>2. s \in Seq(Items) /\ n \in 1..Len(s) /\ input' = t
    BY <2>1
  <2> HIDE DEF s
  <2>3. /\ t \in Seq(Items)
        /\ s[n].text \in TextsOf(s)
        /\ TextsOf(t) \subseteq TextsOf(s)
        /\ Asks(s) = {} => Asks(t) = {}
        /\ Asks(s) \subseteq {Len(s)} =>
              /\ Asks(t) \subseteq {Len(t)}
              /\ n \in Asks(s) => Asks(t) = {}
        /\ \A i \in Asks(t) : n + i \in Asks(s) /\ t[i] = s[n + i]
    BY <2>2, Suffix, Zenon
  <2> HIDE DEF t
  <2> QED BY <2>2, <2>3, Zenon DEF s
<1>2. AsksNothing => AsksNothing'
  BY <1>1 DEF AsksNothing
<1>3. \A m : AsksLast(m) => AsksLast(m)'
  BY <1>1 DEF AsksLast
<1>4. ASSUME NEW m, AsksLast(m), n \in Asks(input)
      PROVE  input[n].text = m /\ printing = <<>> /\ AsksNothing'
  <2>1. input[n].text = m /\ printing = <<>> /\ Asks(input') = {}
    BY <1>1, <1>4 DEF AsksLast
  <2> QED BY <2>1, NoText DEF AsksNothing
<1> QED BY <1>1, <1>2, <1>3, <1>4

(* The item a read ends with. *)
LEMMA EndsWith ==
  ASSUME Shape, NEW m, NEW n \in Ends(m)
  PROVE  /\ n \in 1..Len(input)
         /\ m = "prompt" => input[n].text \in {"prompt", "echo"}
         /\ m \in {"login", "password", "initial"} => input[n].text = m
         /\ m \in {"login", "password"} => n \in Asks(input)
<1>1. n \in 1..Len(input) /\ Marker(input[n]) = m
  BY DEF Ends
<1>2. /\ m = "prompt" => input[n].text \in {"prompt", "echo"}
      /\ m \in {"login", "password", "initial"} => input[n].text = m
  BY <1>1 DEF Marker
<1> QED BY <1>1, <1>2 DEF Asks

(* A step that reads, or loses the channel, and changes pc at most within  *)
(* what a shell allows.                                                    *)
LEMMA QuietStep ==
  ASSUME ConsoleInv, UNCHANGED <<setup, board, typed, printing, misread>>,
         outcome' # "refused" \/ (outcome' = outcome),
         disturbed' = disturbed, up' \in {up, FALSE},
         command' = command, {pc, pc'} \cap {"closed", "verify"} = {},
         \/ input' = input
         \/ \E n \in 1..Len(input) : input' = SubSeq(input, n + 1, Len(input)),
         \/ pc' = pc
         \/ board = "shell" /\ pc' \in {"ready", "execute"}
  PROVE  ConsoleInv'
<1>1. /\ input' \in Seq(Items) /\ TextsOf(input') \subseteq TextsOf(input)
      /\ AsksNothing => AsksNothing'
      /\ \A m : AsksLast(m) => AsksLast(m)'
  <2>1. CASE input' = input
    BY <2>1 DEF ConsoleInv, Shape, AsksNothing, AsksLast
  <2>2. CASE \E n \in 1..Len(input) : input' = SubSeq(input, n + 1, Len(input))
    BY <2>2, ReadKeeps DEF ConsoleInv
  <2> QED BY <2>1, <2>2
<1>2. Shape'
  BY <1>1 DEF ConsoleInv, Shape, Waiting, Preparing, Detecting
<1>3. ShellInv'
  BY <1>1 DEF ConsoleInv, ShellInv
<1>4. LoginInv'
  <2>1. CASE pc' = pc
    <3>1. ~up => ~up'
      OBVIOUS
    <3>2. InStep => InStep'
      BY <1>1, <2>1, <3>1 DEF InStep
    <3> QED BY <1>1, <2>1, <3>2 DEF ConsoleInv, LoginInv
  <2>2. CASE board = "shell" /\ pc' \in {"ready", "execute"}
    BY <1>1, <2>2 DEF ConsoleInv, LoginInv
  <2> QED BY <2>1, <2>2
<1>5. CommandsReachShell' /\ RefusalIsReal'
  BY DEF ConsoleInv, CommandsReachShell, RefusalIsReal
<1> QED BY <1>2, <1>3, <1>4, <1>5 DEF ConsoleInv

(* A text that ends in a prompt is a shell's. *)
LEMMA PromptMeansShell ==
  ASSUME ConsoleInv, NEW m \in {"prompt", "initial"}, NEW n \in Ends(m)
  PROVE  board = "shell"
<1>1. n \in 1..Len(input) /\ input[n].text \in {"prompt", "echo", "initial"}
  BY EndsWith DEF ConsoleInv
<1>2. input[n].text \in TextsOf(input)
  BY <1>1 DEF TextsOf
<1> QED BY <1>1, <1>2 DEF ConsoleInv, ShellInv

(* connect() fails, or the connection is closed. *)
LEMMA CloseStep ==
  ASSUME ConsoleInv, CloseDevice, pc' = "closed",
         UNCHANGED <<setup, marked, stolen, connects, command, console>>,
         \/ outcome' \in {"timeout", "lost"} /\ disturbed' = TRUE
         \/ /\ outcome' \in {outcome, "unable"} /\ disturbed' = disturbed
            /\ board = "shell" \/ setup.credentials # "good"
         \/ outcome' = "refused" /\ disturbed' = disturbed /\ (setup.credentials = "bad" \/ disturbed)
  PROVE  ConsoleInv'
<1> USE DEF console, CloseDevice
<1>1. Shape'
  <2>1. input' = <<>> /\ up' = FALSE
    OBVIOUS
  <2>2. disturbed' \in BOOLEAN
    BY DEF ConsoleInv, Shape
  <2>3. <<>> \in Seq(Items)
    OBVIOUS
  <2>4. Shape /\ UNCHANGED <<setup, command, board, typed, printing>>
    BY DEF ConsoleInv
  <2> QED BY <2>1, <2>2, <2>3, <2>4, Zenon DEF Shape
<1>2. ShellInv'
  BY NoText DEF ConsoleInv, ShellInv
<1>3. LoginInv'
  BY NoText DEF ConsoleInv, LoginInv, Shape, AsksNothing
<1>4. CommandsReachShell' /\ RefusalIsReal'
  BY DEF ConsoleInv, CommandsReachShell, RefusalIsReal
<1> QED BY <1>1, <1>2, <1>3, <1>4 DEF ConsoleInv

------------------------------------------------------------------------------
(* The steps that type a line.                                             *)

LEMMA PlainLine ==
  \A x \in {"enter", "username", "secret", "export"} :
     Plain(x) \in Lines /\ Plain(x).text = x
  BY LoginAssumption DEF Plain, Lines, LoginAssumption

LEMMA TypeLine ==
  ASSUME Shape, NEW line \in Lines, Type(line)
  PROVE  /\ typed' \in Seq(Lines)
         /\ TextsOf(typed') \subseteq TextsOf(typed) \cup {line.text}
         /\ typed = <<>> => typed' = <<line>> \/ (typed' = <<>> /\ ~up)
<1>1. typed \in Seq(Lines)
  BY DEF Shape
<1>2. CASE up
  <2>1. typed' = Append(typed, line)
    BY <1>2 DEF Type
  <2>2. typed' \in Seq(Lines) /\ TextsOf(typed') = TextsOf(typed) \cup {line.text}
    BY <1>1, <2>1, Longer
  <2>3. typed = <<>> => typed' = <<line>>
    BY <2>1
  <2> QED BY <2>2, <2>3
<1>3. CASE ~up
  BY <1>1, <1>3 DEF Type
<1> QED BY <1>2, <1>3

LEMMA OpenedPreserves ==
  ASSUME ConsoleInv, NEW c, Opened(c), pc \in {"closed", "verify"},
         outcome' \in {"none", outcome}
  PROVE  ConsoleInv'
<1> USE DEF Opened
<1>1. Plain("enter") \in Lines /\ Plain("enter").text = "enter" /\ typed \in Seq(Lines)
  BY PlainLine DEF ConsoleInv, Shape
<1>2. typed' \in Seq(Lines) /\ TextsOf(typed') = TextsOf(typed) \cup {"enter"}
  BY <1>1, Longer
<1>3. typed = <<>> => typed' = <<Plain("enter")>>
  OBVIOUS
<1>4. Shape'
  <2>1. <<>> \in Seq(Items)
    OBVIOUS
  <2> QED BY <1>2, <2>1 DEF ConsoleInv, Shape, Waiting, Preparing, Detecting
<1>5. ShellInv'
  BY <1>2, NoText DEF ConsoleInv, ShellInv
<1>6. LoginInv'
  <2>1. AsksNothing' <=> Asks(printing) = {}
    BY NoText DEF AsksNothing
  <2> QED BY <1>3, <2>1, NoText DEF ConsoleInv, LoginInv, InStep, AsksNothing
<1>7. CommandsReachShell' /\ RefusalIsReal'
  BY DEF ConsoleInv, CommandsReachShell, RefusalIsReal
<1> QED BY <1>4, <1>5, <1>6, <1>7 DEF ConsoleInv

(* prepare() answers a question of the board: all but what it asks next. *)
LEMMA AnswerShape ==
  ASSUME ConsoleInv, NEW m \in {"login", "password", "initial"}, Reads(m),
         NEW line \in Lines, Type(line), line.text \in {"username", "secret"} \/ board = "shell",
         pc' \in {"username", "password"} \/ (board = "shell" /\ pc' = "prompt"),
         UNCHANGED <<setup, up, board, printing, command, outcome, disturbed, misread>>
  PROVE  Shape' /\ ShellInv' /\ CommandsReachShell' /\ RefusalIsReal'
<1>1. PICK n \in Ends(m) : input' = SubSeq(input, n + 1, Len(input))
  BY DEF Reads
<1>2. n \in 1..Len(input)
  BY EndsWith DEF ConsoleInv
<1>3. input' \in Seq(Items) /\ TextsOf(input') \subseteq TextsOf(input)
  BY <1>1, <1>2, ReadKeeps DEF ConsoleInv
<1>4. /\ typed' \in Seq(Lines)
      /\ TextsOf(typed') \subseteq TextsOf(typed) \cup {line.text}
  BY TypeLine DEF ConsoleInv
<1>5. Shape'
  BY <1>3, <1>4 DEF ConsoleInv, Shape, Waiting, Preparing, Detecting
<1>6. ShellInv'
  BY <1>3, <1>4 DEF ConsoleInv, ShellInv
<1>7. CommandsReachShell' /\ RefusalIsReal'
  BY DEF ConsoleInv, CommandsReachShell, RefusalIsReal
<1> QED BY <1>5, <1>6, <1>7

LEMMA UsernamePreserves ==
  ASSUME ConsoleInv, SendUsername
  PROVE  ConsoleInv'
<1> USE DEF SendUsername
<1> DEFINE line == Plain("username")
<1>1. line \in Lines /\ line.text = "username"
  BY PlainLine
<1>2. Type(line)
  OBVIOUS
<1>3. Shape' /\ ShellInv' /\ CommandsReachShell' /\ RefusalIsReal'
  BY <1>1, <1>2, AnswerShape
<1>4. PICK n \in Ends("login") : input' = SubSeq(input, n + 1, Len(input))
  BY DEF Reads
<1>5. n \in 1..Len(input) /\ n \in Asks(input)
  BY EndsWith DEF ConsoleInv
<1>6. /\ AsksNothing => AsksNothing'
      /\ AsksLast("login") => printing = <<>> /\ AsksNothing'
  BY <1>4, <1>5, ReadKeeps DEF ConsoleInv
<1>7. typed = <<>> => typed' = <<line>> \/ (typed' = <<>> /\ ~up)
  BY <1>1, <1>2, TypeLine DEF ConsoleInv
<1>8. LoginInv'
  <2>1. SUFFICES ASSUME setup.credentials = "good", ~disturbed, board # "shell"
                 PROVE  InStep'
    BY <1>6 DEF ConsoleInv, LoginInv
  <2>2. typed = <<>> /\ board = "login" /\ AsksLast("login")
    BY <1>5, <2>1 DEF ConsoleInv, LoginInv, InStep, AsksNothing
  <2>3. printing' = <<>> /\ board' = "login" /\ AsksNothing'
    BY <1>6, <2>2
  <2> QED BY <1>7, <2>2, <2>3 DEF InStep
<1> QED BY <1>3, <1>8 DEF ConsoleInv

LEMMA PasswordPreserves ==
  ASSUME ConsoleInv, SendPassword
  PROVE  ConsoleInv'
<1> USE DEF SendPassword
<1> DEFINE line == Plain("secret")
<1>1. line \in Lines /\ line.text = "secret"
  BY PlainLine
<1>2. Type(line)
  OBVIOUS
<1>3. Shape' /\ ShellInv' /\ CommandsReachShell' /\ RefusalIsReal'
  BY <1>1, <1>2, AnswerShape
<1>4. PICK n \in Ends("password") : input' = SubSeq(input, n + 1, Len(input))
  BY DEF Reads
<1>5. n \in 1..Len(input) /\ n \in Asks(input) /\ input[n].text = "password"
  BY EndsWith DEF ConsoleInv
<1>6. /\ AsksNothing => AsksNothing'
      /\ AsksLast("password") => printing = <<>> /\ AsksNothing'
      /\ ~AsksLast("login")
  BY <1>4, <1>5, ReadKeeps DEF ConsoleInv
<1>7. typed = <<>> => typed' = <<line>> \/ (typed' = <<>> /\ ~up)
  BY <1>1, <1>2, TypeLine DEF ConsoleInv
<1>8. LoginInv'
  <2>1. SUFFICES ASSUME setup.credentials = "good", ~disturbed, board # "shell"
                 PROVE  InStep'
    BY <1>6 DEF ConsoleInv, LoginInv
  <2>2. typed = <<>> /\ board = "password" /\ AsksLast("password")
    BY <1>5, <1>6, <2>1 DEF ConsoleInv, LoginInv, InStep, AsksNothing
  <2>3. printing' = <<>> /\ board' = "password" /\ AsksNothing'
    BY <1>6, <2>2
  <2> QED BY <1>7, <2>2, <2>3 DEF InStep
<1> QED BY <1>3, <1>8 DEF ConsoleInv

LEMMA SetPromptPreserves ==
  ASSUME ConsoleInv, SetPrompt
  PROVE  ConsoleInv'
<1> USE DEF SetPrompt, ShellSeen
<1> DEFINE line == Plain("export")
<1>1. line \in Lines /\ Type(line)
  BY PlainLine
<1>2. PICK n \in Ends("initial") : input' = SubSeq(input, n + 1, Len(input))
  BY DEF Reads
<1>3. board = "shell"
  BY PromptMeansShell
<1>4. Shape' /\ ShellInv' /\ CommandsReachShell' /\ RefusalIsReal'
  BY <1>1, <1>3, AnswerShape
<1>5. n \in 1..Len(input)
  BY EndsWith DEF ConsoleInv
<1>6. AsksNothing => AsksNothing'
  BY <1>2, <1>5, ReadKeeps DEF ConsoleInv
<1>7. LoginInv'
  BY <1>3, <1>6 DEF ConsoleInv, LoginInv
<1> QED BY <1>4, <1>7 DEF ConsoleInv

LEMMA ExecutePreserves ==
  ASSUME ConsoleInv, Execute
  PROVE  ConsoleInv'
<1> USE DEF Execute
<1> DEFINE line == Of("command", command + 1)
<1>1. board = "shell"
  BY DEF ConsoleInv, ShellInv
<1>2. command \in 0..MaxCommands /\ command + 1 \in 0..MaxCommands
  BY LoginAssumption DEF LoginAssumption, ConsoleInv, Shape
<1>3. line \in Lines /\ Type(line)
  BY <1>2 DEF Of, Lines
<1> HIDE DEF line
<1>4. typed' \in Seq(Lines)
  BY <1>3, TypeLine DEF ConsoleInv
<1>5. Shape' /\ ShellInv'
  BY <1>1, <1>2, <1>4 DEF ConsoleInv, Shape, Waiting, ShellInv
<1>6. LoginInv' /\ CommandsReachShell' /\ RefusalIsReal'
  BY <1>1 DEF ConsoleInv, LoginInv, AsksNothing, CommandsReachShell, RefusalIsReal
<1> QED BY <1>5, <1>6 DEF ConsoleInv

(* The board rejects only bad credentials, and late answers to a login     *)
(* that was given up.                                                      *)
LEMMA RefusedPreserves ==
  ASSUME ConsoleInv, Refused
  PROVE  ConsoleInv'
<1> USE DEF Refused
<1>0. PICK m \in {"login", "password"} :
         Ends(m) # {} /\ ((pc = "username" /\ m = "login") \/ pc = "password")
  BY DEF Rejected
<1>1. PICK n \in Ends(m) : TRUE
  BY <1>0
<1>2. n \in Asks(input) /\ input[n].text = m
  BY <1>1, EndsWith DEF ConsoleInv
<1>3. setup.credentials # "none" /\ setup.credentials \in {"none", "good", "bad"}
  BY <1>0 DEF ConsoleInv, LoginInv, Shape, Setups
<1>4. ~(setup.credentials = "good" /\ ~disturbed)
  <2> SUFFICES ASSUME setup.credentials = "good", ~disturbed PROVE FALSE
    OBVIOUS
  <2>1. ~AsksNothing
    BY <1>2 DEF AsksNothing
  <2>2. pc = "username" /\ m = "login" /\ AsksLast("password")
    BY <1>0, <2>1 DEF ConsoleInv, LoginInv, InStep
  <2> QED BY <1>2, <2>2 DEF AsksLast
<1>5. outcome' = "refused" /\ disturbed' = disturbed
  BY DEF Raise, ConsoleInv, Shape
<1> QED BY <1>3, <1>4, <1>5, CloseStep DEF Raise

------------------------------------------------------------------------------
(* The board.                                                              *)

(* It logs out when nothing is left to read or print. *)
LEMMA LogoutPreserves ==
  ASSUME ConsoleInv, Logout
  PROVE  ConsoleInv'
<1> USE DEF Logout, client
<1>1. input = <<>>
  BY DEF ConsoleInv, ShellInv
<1>2. Shape'
  BY DEF ConsoleInv, Shape
<1>3. ShellInv' /\ LoginInv'
  BY <1>1, NoText DEF ConsoleInv, ShellInv, LoginInv, InStep
<1>4. CommandsReachShell' /\ RefusalIsReal'
  BY DEF ConsoleInv, CommandsReachShell, RefusalIsReal
<1> QED BY <1>2, <1>3, <1>4 DEF ConsoleInv

LEMMA PrintsPreserves ==
  ASSUME ConsoleInv, BoardPrints
  PROVE  ConsoleInv'
<1> USE DEF BoardPrints
<1> DEFINE item == Head(printing)
<1>1. printing \in Seq(Items) /\ input \in Seq(Items) /\ printing # <<>>
  BY DEF ConsoleInv, Shape
<1>2. /\ printing' \in Seq(Items) /\ item \in Items /\ Len(printing') = Len(printing) - 1
      /\ item.text \in TextsOf(printing) /\ TextsOf(printing') \subseteq TextsOf(printing)
      /\ \A i \in Asks(printing') : i + 1 \in Asks(printing) /\ printing'[i] = printing[i + 1]
      /\ item.text \in {"login", "password"} => 1 \in Asks(printing) /\ printing[1] = item
  BY <1>1, Shorter
<1> HIDE DEF item
<1>3. /\ input' \in Seq(Items)
      /\ TextsOf(input') \subseteq TextsOf(input) \cup {item.text}
      /\ \A i \in Asks(input') :
            \/ i \in Asks(input)
            \/ /\ i = Len(input') /\ input'[i] = item
               /\ item.text \in {"login", "password"}
  <2>1. CASE input' = Append(input, Head(printing))
    <3>1. input' = Append(input, item)
      BY <2>1 DEF item
    <3> QED BY <1>1, <1>2, <3>1, Longer
  <2>2. CASE input' = input
    BY <1>1, <2>2
  <2> QED BY <2>1, <2>2
<1>4. AsksNothing => AsksNothing'
  BY <1>2, <1>3 DEF AsksNothing
<1>5. ASSUME NEW m, AsksLast(m) PROVE AsksLast(m)'
  <2>1. Asks(input) = {}
    BY <1>1, <1>5 DEF AsksLast
  <2>2. /\ Len(printing) \in Nat
        /\ Asks(printing) \subseteq {Len(printing)}
        /\ \A i \in Asks(printing) : printing[i].text = m
    BY <1>1, <1>5 DEF AsksLast
  <2>3. item.text \in {"login", "password"} => Len(printing) = 1 /\ item.text = m
    BY <1>2, <2>2
  <2>4. Len(printing) = 1 => printing' = <<>>
    BY <1>2
  <2>5. \A i \in Asks(input') : i = Len(input') /\ input'[i].text = m /\ printing' = <<>>
    BY <1>3, <2>1, <2>3, <2>4
  <2>6. \A i \in Asks(printing') : i = Len(printing') /\ printing'[i].text = m
    <3> DEFINE k == Len(printing)
    <3>1. \A i \in Asks(printing') : i \in Nat
      BY DEF Asks
    <3>2. \A i \in Asks(printing') : i + 1 = k /\ printing'[i].text = m
      BY <1>2, <2>2
    <3>3. k \in Nat /\ Len(printing') = k - 1
      BY <1>2, <2>2
    <3> HIDE DEF k
    <3>4. \A i \in Asks(printing') : i = Len(printing')
      <4> SUFFICES ASSUME NEW i \in Asks(printing') PROVE i = Len(printing')
        OBVIOUS
      <4>1. i \in Nat /\ i + 1 = k
        BY <3>1, <3>2
      <4> QED BY <3>3, <4>1
    <3> QED BY <3>2, <3>4
  <2> QED BY <2>5, <2>6 DEF AsksLast
<1>6. Shape'
  BY <1>2, <1>3 DEF ConsoleInv, Shape
<1>7. ShellInv'
  <2>1. pc \in {"closed", "verify"} => input' = input
    BY DEF ConsoleInv, ShellInv
  <2>2. TextsOf(input') \cup TextsOf(printing') \subseteq TextsOf(input) \cup TextsOf(printing)
    BY <1>2, <1>3
  <2> QED BY <2>1, <2>2 DEF ConsoleInv, ShellInv
<1>8. LoginInv'
  <2>1. board # "shell" /\ InStep => InStep'
    BY <1>1, <1>4, <1>5 DEF InStep
  <2> QED BY <1>4, <2>1 DEF ConsoleInv, LoginInv
<1>9. CommandsReachShell' /\ RefusalIsReal'
  BY DEF ConsoleInv, CommandsReachShell, RefusalIsReal
<1> QED BY <1>6, <1>7, <1>8, <1>9 DEF ConsoleInv

(* What getty and login print: a line, and a prompt at its end. *)
LEMMA Says ==
  ASSUME NEW m \in {"login", "password", "initial"}
  PROVE  LET s == <<Plain("other"), Plain(m)>> IN
         /\ s \in Seq(Items) /\ Len(s) = 2 /\ s # <<>> /\ s[2].text = m
         /\ TextsOf(s) = {"other", m}
         /\ Asks(s) = IF m = "initial" THEN {} ELSE {2}
<1> DEFINE s == <<Plain("other"), Plain(m)>>
<1>1. /\ Plain("other") \in Items /\ Plain(m) \in Items
      /\ Plain("other").text = "other" /\ Plain(m).text = m
  BY LoginAssumption DEF Plain, Items, LoginAssumption
<1>2. s \in Seq(Items) /\ Len(s) = 2 /\ s[1] = Plain("other") /\ s[2] = Plain(m) /\ s # <<>>
  BY <1>1
<1> HIDE DEF s
<1>3. 1..Len(s) = {1, 2}
  BY <1>2
<1>4. TextsOf(s) = {"other", m}
  BY <1>1, <1>2, <1>3 DEF TextsOf
<1>5. Asks(s) = IF m = "initial" THEN {} ELSE {2}
  BY <1>1, <1>2, <1>3 DEF Asks
<1> QED BY <1>1, <1>2, <1>4, <1>5 DEF s

(* What a shell prints asks for nothing. *)
Calm == {i \in Items : i.text \notin {"login", "password"}}

LEMMA ShellIsCalm ==
  ASSUME NEW line \in Lines, ShellReads(line)
  PROVE  printing' \in Seq(Items) /\ Asks(printing') = {}
<1>1. \A x \in {"echo", "other", "prompt", "initial"} : Plain(x) \in Calm
  BY LoginAssumption DEF Plain, Items, Calm, LoginAssumption
<1>2. Of("exit", line.cmd) \in Calm
  BY DEF Of, Items, Lines, Calm
<1>3. Echo(line) \in Seq(Calm)
  BY <1>1 DEF Echo
<1> DEFINE run == IF line.text = "command"
                  THEN <<Plain("other"), Of("exit", line.cmd)>> ELSE <<>>
           end == <<ShellPrompt(ps1 \/ line.text \in {"export", "command"})>>
<1>4. run \in Seq(Calm)
  BY <1>1, <1>2
<1>5. end \in Seq(Calm)
  BY <1>1 DEF ShellPrompt
<1>6. printing' = Echo(line) \o run \o end
  BY DEF ShellReads
<1> HIDE DEF run, end
<1>7. printing' \in Seq(Calm)
  BY <1>3, <1>4, <1>5, <1>6
<1>8. \A i \in 1..Len(printing') : printing'[i] \in Calm
  BY <1>7, ElementOfSeq
<1>9. printing' \in Seq(Items)
  BY <1>7 DEF Calm
<1>10. Asks(printing') = {}
  BY <1>8 DEF Asks, Calm
<1> QED BY <1>9, <1>10

(* getty or login reads a line that no shell is needed for. *)
LEMMA OutsideReads ==
  ASSUME ConsoleInv, NEW line \in Lines, line.text \notin {"export", "command"},
         LoginReads(line) \/ PasswordReads(line)
  PROVE  /\ board # "shell" /\ misread' = misread
         /\ \E m \in {"login", "password", "initial"} :
               /\ printing' = <<Plain("other"), Plain(m)>>
               /\ m = "initial" => board' = "shell"
               /\ m = "login" => board' = "login"
               /\ m = "password" => board' = IF line.text = "username"
                                             THEN "password" ELSE "mistaken"
               /\ line.text = "enter" => m = "login"
               /\ line.text = "username" /\ board = "login" => m # "login"
               /\ line.text = "secret" /\ board = "password" /\ setup.credentials = "good"
                     => m = "initial"
<1>1. \A m : Echo(line) \o <<Plain(m)>> = <<Plain("other"), Plain(m)>>
  <2>1. Echo(line) = <<Plain("other")>>
    BY DEF Echo
  <2>2. ASSUME NEW a, NEW b PROVE <<a>> \o <<b>> = <<a, b>>
    <3> DEFINE S == {a, b}
               s == <<a>>
               t == <<b>>
               c == s \o t
               d == <<a, b>>
    <3>1. /\ s \in Seq(S) /\ t \in Seq(S) /\ Len(s) = 1 /\ Len(t) = 1
          /\ s[1] = a /\ t[1] = b
          /\ d \in Seq(S) /\ Len(d) = 2 /\ d[1] = a /\ d[2] = b
      OBVIOUS
    <3> HIDE DEF s, t, d, S
    <3>2. /\ c \in Seq(S) /\ Len(c) = 2
          /\ \A i \in 1..2 : c[i] = IF i <= 1 THEN s[i] ELSE t[i - 1]
      BY <3>1, ConcatProperties
    <3> HIDE DEF c
    <3>3. c[1] = a /\ c[2] = b
      BY <3>1, <3>2
    <3>4. \A i \in 1..2 : c[i] = d[i]
      BY <3>1, <3>3
    <3>5. c = d
      BY <3>1, <3>2, <3>4, SeqEqual
    <3> QED BY <3>5 DEF c, d, s, t
  <2> QED BY <2>1, <2>2, Zenon
<1>2. CASE LoginReads(line)
  <2>1. board = "login" /\ misread' = misread
    BY <1>2 DEF LoginReads
  <2>2. CASE line.text = "enter" /\ printing' = <<Plain("other"), Plain("login")>> /\ UNCHANGED board
    BY <2>1, <2>2
  <2>3. CASE /\ line.text = "username"
             /\ printing' = Echo(line) \o <<Plain("initial")>> /\ board' = "shell"
    BY <1>1, <2>1, <2>3
  <2>4. CASE /\ line.text # "enter" /\ printing' = Echo(line) \o <<Plain("password")>>
             /\ board' = IF line.text = "username" THEN "password" ELSE "mistaken"
    BY <1>1, <2>1, <2>4
  <2> QED BY <1>2, <2>2, <2>3, <2>4 DEF LoginReads
<1>3. CASE PasswordReads(line)
  BY <1>3 DEF PasswordReads
<1> QED BY <1>2, <1>3

LEMMA ReadsPreserves ==
  ASSUME ConsoleInv, BoardReads
  PROVE  ConsoleInv'
<1> USE DEF BoardReads, client
<1> DEFINE line == Head(typed)
<1>1. typed \in Seq(Lines) /\ input \in Seq(Items) /\ typed # <<>> /\ printing = <<>>
  BY DEF ConsoleInv, Shape
<1>2. /\ typed' \in Seq(Lines) /\ line \in Lines
      /\ line.text \in TextsOf(typed) /\ TextsOf(typed') \subseteq TextsOf(typed)
  BY <1>1, Shorter
<1>3. \A x : typed = <<x>> => line = x /\ typed' = <<>>
  BY <1>1
<1>4. LoginReads(line) \/ PasswordReads(line) \/ ShellReads(line)
  OBVIOUS
<1> HIDE DEF line
<1>5. CASE ShellReads(line)
  <2>1. board = "shell" /\ board' = "shell" /\ misread' = misread
    BY <1>5 DEF ShellReads
  <2>2. printing' \in Seq(Items) /\ Asks(printing') = {}
    BY <1>2, <1>5, ShellIsCalm
  <2>3. Shape' /\ ShellInv'
    BY <1>2, <2>1, <2>2 DEF ConsoleInv, Shape, ShellInv
  <2>4. LoginInv' /\ CommandsReachShell' /\ RefusalIsReal'
    BY <2>1, <2>2 DEF ConsoleInv, LoginInv, AsksNothing, CommandsReachShell, RefusalIsReal
  <2> QED BY <2>3, <2>4 DEF ConsoleInv
<1>6. CASE LoginReads(line) \/ PasswordReads(line)
  <2>0. board # "shell"
    BY <1>6 DEF LoginReads, PasswordReads
  <2>1. line.text \notin {"export", "command"}
    BY <1>2, <2>0 DEF ConsoleInv, ShellInv
  <2>2. misread' = misread
    BY <1>2, <1>6, <2>1, OutsideReads
  <2>3. PICK m \in {"login", "password", "initial"} :
               /\ printing' = <<Plain("other"), Plain(m)>>
               /\ m = "initial" => board' = "shell"
               /\ m = "login" => board' = "login"
               /\ m = "password" => board' = IF line.text = "username"
                                             THEN "password" ELSE "mistaken"
               /\ line.text = "enter" => m = "login"
               /\ line.text = "username" /\ board = "login" => m # "login"
               /\ line.text = "secret" /\ board = "password" /\ setup.credentials = "good"
                     => m = "initial"
    BY <1>2, <1>6, <2>1, OutsideReads
  <2>4. /\ printing' \in Seq(Items) /\ Len(printing') = 2 /\ printing'[2].text = m
        /\ TextsOf(printing') = {"other", m}
        /\ Asks(printing') = IF m = "initial" THEN {} ELSE {2}
    BY <2>3, Says
  <2>5. Shape'
    BY <1>2, <2>3, <2>4 DEF ConsoleInv, Shape
  <2>6. ShellInv'
    BY <1>2, <2>0, <2>3, <2>4 DEF ConsoleInv, ShellInv
  <2>7. LoginInv'
    <3>1. SUFFICES ASSUME setup.credentials = "good", ~disturbed
                   PROVE  IF board' = "shell" THEN AsksNothing' ELSE InStep'
      BY DEF ConsoleInv, LoginInv
    <3>2. InStep /\ pc \in {"closed", "verify", "state", "username", "password"}
      BY <2>0, <3>1 DEF ConsoleInv, LoginInv, ShellInv, Shape, Waiting, Preparing, Detecting
    <3>3. /\ \/ pc = "state" /\ line = Plain("enter")
             \/ pc = "username" /\ line = Plain("username") /\ board = "login"
             \/ pc = "password" /\ line = Plain("secret") /\ board = "password"
          /\ typed' = <<>> /\ Asks(input) = {}
      BY <1>1, <1>3, <3>2 DEF InStep, AsksNothing
    <3>4. /\ pc = "state" => m = "login"
          /\ pc = "username" => m # "login" /\ line.text = "username"
          /\ pc = "password" => m = "initial"
      BY <2>3, <3>1, <3>3 DEF Plain
    <3>5. m = "initial" => AsksNothing'
      BY <2>4, <3>3 DEF AsksNothing
    <3>6. m # "initial" => AsksLast(m)'
      BY <2>4, <3>3 DEF AsksLast
    <3> QED BY <2>3, <3>3, <3>4, <3>5, <3>6 DEF InStep
  <2>8. CommandsReachShell' /\ RefusalIsReal'
    BY <2>2 DEF ConsoleInv, CommandsReachShell, RefusalIsReal
  <2> QED BY <2>5, <2>6, <2>7, <2>8 DEF ConsoleInv
<1> QED BY <1>4, <1>5, <1>6

------------------------------------------------------------------------------

LEMMA ConsoleInit == Init => ConsoleInv
<1> SUFFICES ASSUME Init PROVE ConsoleInv
  OBVIOUS
<1> USE DEF Init
<1>1. Shape
  <2>1. <<>> \in Seq(Items) /\ <<>> \in Seq(Lines) /\ 0 \in 0..MaxCommands
    BY LoginAssumption DEF LoginAssumption
  <2> QED BY <2>1 DEF Shape
<1>2. ShellInv /\ LoginInv
  BY NoText DEF ShellInv, LoginInv, InStep, AsksNothing
<1>3. CommandsReachShell /\ RefusalIsReal
  BY DEF CommandsReachShell, RefusalIsReal
<1> QED BY <1>1, <1>2, <1>3 DEF ConsoleInv

LEMMA ConsoleStep == ConsoleInv /\ [Next]_vars => ConsoleInv'
<1> SUFFICES ASSUME ConsoleInv, [Next]_vars PROVE ConsoleInv'
  OBVIOUS
<1>1. CASE OpenPort \/ StartPicocom \/ Execute
  <2>1. CASE OpenPort
    BY <2>1, OpenedPreserves DEF OpenPort
  <2>2. CASE StartPicocom
    BY <2>2, OpenedPreserves DEF StartPicocom
  <2> QED BY <1>1, <2>1, <2>2, ExecutePreserves
<1>2. CASE SendUsername \/ SendPassword \/ SetPrompt
  BY <1>2, UsernamePreserves, PasswordPreserves, SetPromptPreserves
<1>3. CASE KeepReading
  <2>1. \E n \in 1..Len(input) : input' = SubSeq(input, n + 1, Len(input))
    BY <1>3 DEF KeepReading, Reads, Ends
  <2> QED BY <1>3, <2>1, QuietStep DEF KeepReading, console, Detecting
<1>4. CASE Prepared
  <2>1. PICK n \in Ends("prompt") : input' = SubSeq(input, n + 1, Len(input))
    BY <1>4 DEF Prepared, Reads
  <2>2. board = "shell" /\ n \in 1..Len(input)
    BY PromptMeansShell DEF Ends
  <2> QED BY <1>4, <2>1, <2>2, QuietStep DEF Prepared, console, Preparing, Detecting
<1>5. CASE ReadResponse
  <2>1. board = "shell"
    BY <1>5 DEF ReadResponse, ConsoleInv, ShellInv
  <2> QED BY <1>5, <2>1, QuietStep DEF ReadResponse, console
<1>6. CASE ExecuteRaises
  <2>1. board = "shell"
    BY <1>6 DEF ExecuteRaises, ConsoleInv, ShellInv
  <2> QED BY <1>6, <2>1, QuietStep DEF ExecuteRaises, console
<1>7. CASE Close
  <2>1. board = "shell"
    BY <1>7 DEF Close, ConsoleInv, ShellInv
  <2> QED BY <1>7, <2>1, CloseStep DEF Close
<1>8. CASE NoCredentials
  <2>1. outcome' = "unable" /\ disturbed' = disturbed
    BY <1>8 DEF NoCredentials, Raise, ConsoleInv, Shape
  <2> QED BY <1>8, <2>1, CloseStep DEF NoCredentials, Raise
<1>9. CASE PrepareTimesOut \/ PrepareEnds
  <2>1. outcome' \in {"timeout", "lost"} /\ disturbed' = TRUE
    BY <1>9 DEF PrepareTimesOut, PrepareEnds, Raise
  <2> QED BY <1>9, <2>1, CloseStep DEF PrepareTimesOut, PrepareEnds, Raise
<1>10. CASE Refused
  BY <1>10, RefusedPreserves
<1>11. CASE Logout \/ BoardPrints \/ BoardReads
  BY <1>11, LogoutPreserves, PrintsPreserves, ReadsPreserves
<1>12. ASSUME pc' = pc \/ {pc, pc'} \subseteq {"closed", "verify"},
              UNCHANGED <<setup, input, command, disturbed, board, typed, printing, misread>>,
              up' \in {up, FALSE}, outcome' # "refused" \/ outcome' = outcome
       PROVE  ConsoleInv'
  <2>1. ~up => ~up'
    BY <1>12
  <2>2. Shape'
    BY <1>12 DEF ConsoleInv, Shape
  <2>3. ShellInv'
    BY <1>12, <2>1 DEF ConsoleInv, ShellInv
  <2>4. LoginInv'
    BY <1>12, <2>1 DEF ConsoleInv, LoginInv, InStep, AsksNothing, AsksLast
  <2>5. CommandsReachShell' /\ RefusalIsReal'
    BY <1>12 DEF ConsoleInv, CommandsReachShell, RefusalIsReal
  <2> QED BY <2>2, <2>3, <2>4, <2>5 DEF ConsoleInv
<1>13. CASE \/ Connect \/ ConnectFails \/ VerifyFails \/ LoseChannel
            \/ \E c \in Connections : PicocomExits(c)
  BY <1>12, <1>13 DEF Connect, ConnectFails, VerifyFails, PicocomExits, LoseChannel, console
<1>14. CASE UNCHANGED vars
  BY <1>12, <1>14 DEF vars
<1> QED BY <1>1, <1>2, <1>3, <1>4, <1>5, <1>6, <1>7, <1>8, <1>9, <1>10, <1>11, <1>13, <1>14
        DEF Next, PrepareStep, ExecuteStep, BoardStep

(* No command is taken for a user name or a password: execute() types one  *)
(* only after prepare() has seen a shell, and whatever an earlier          *)
(* connection left behind cannot look like one.                            *)
THEOREM CommandsSafe == Spec => []CommandsReachShell
<1>1. ConsoleInv => CommandsReachShell
  BY DEF ConsoleInv
<1> QED BY <1>1, ConsoleInit, ConsoleStep, PTL DEF Spec

(* prepare() raises failed authentication only for credentials the board   *)
(* rejects, or after a login was given up in the middle.                   *)
THEOREM RefusalsReal == Spec => []RefusalIsReal
<1>1. ConsoleInv => RefusalIsReal
  BY DEF ConsoleInv
<1> QED BY <1>1, ConsoleInit, ConsoleStep, PTL DEF Spec
------------------------------------------------------------------------------
(* What a call waits for.                                                  *)

End(s) == s[Len(s)]
Marks == {"login", "password", "initial", "prompt"}
Text == input \o printing
EndsIn(M) == Text # <<>> /\ End(Text).text \in M
ExitAhead == \E i \in 1..Len(Text) : Text[i] = Of("exit", command)

(* What the board prints ends in a marker.  prepare() reads its markers as *)
(* they come; after the line it has typed last, the shell answers that one *)
(* with the configured prompt, and a command with its exit marker before.  *)
WaitInv ==
    /\ printing # <<>> => End(printing).text \in Marks
    /\ up /\ ~stolen =>
          /\ pc \in Detecting => typed # <<>> \/ EndsIn(Marks)
          /\ pc = "prompt" =>
                IF typed # <<>> THEN End(typed).text = "export" ELSE EndsIn({"prompt"})
          /\ pc = "execute" =>
                IF typed # <<>> THEN End(typed) = Of("command", command)
                ELSE EndsIn({"prompt"}) /\ (marked \/ ExitAhead)

(* One text after the other. *)
LEMMA Joined ==
  ASSUME NEW a \in Seq(Items), NEW b \in Seq(Items)
  PROVE  LET c == a \o b IN
         /\ c \in Seq(Items) /\ Len(c) = Len(a) + Len(b) /\ Len(a) \in Nat /\ Len(b) \in Nat
         /\ \A i \in 1..Len(c) : c[i] = IF i <= Len(a) THEN a[i] ELSE b[i - Len(a)]
         /\ c # <<>> <=> Len(c) # 0
<1> DEFINE c == a \o b
<1>1. /\ c \in Seq(Items) /\ Len(c) = Len(a) + Len(b) /\ Len(a) \in Nat /\ Len(b) \in Nat
      /\ \A i \in 1..Len(c) : c[i] = IF i <= Len(a) THEN a[i] ELSE b[i - Len(a)]
  BY ConcatProperties
<1> HIDE DEF c
<1>2. c # <<>> <=> Len(c) # 0
  BY <1>1
<1> QED BY <1>1, <1>2 DEF c

(* Text that is read leaves the end of the text. *)
LEMMA ReadText ==
  ASSUME NEW s \in Seq(Items), NEW p \in Seq(Items), NEW n \in 1..Len(s)
  PROVE  LET t == SubSeq(s, n + 1, Len(s)) \o p
             u == s \o p IN
         /\ Len(t) = Len(u) - n /\ Len(u) \in Nat /\ Len(t) \in Nat
         /\ \A i \in 1..Len(t) : n + i \in 1..Len(u) /\ t[i] = u[n + i]
         /\ \A i \in 1..n : u[i] = s[i] /\ i \in 1..Len(u)
<1> DEFINE a == SubSeq(s, n + 1, Len(s))
           t == a \o p
           u == s \o p
<1>1. /\ a \in Seq(Items) /\ Len(a) = Len(s) - n /\ Len(s) \in Nat /\ n \in Nat /\ Len(p) \in Nat
      /\ \A i \in 1..Len(a) : n + i \in 1..Len(s) /\ a[i] = s[n + i]
  OBVIOUS
<1> HIDE DEF a
<1>2. /\ Len(t) = Len(a) + Len(p)
      /\ \A i \in 1..Len(t) : t[i] = IF i <= Len(a) THEN a[i] ELSE p[i - Len(a)]
  BY <1>1, Joined
<1>3. /\ Len(u) = Len(s) + Len(p)
      /\ \A i \in 1..Len(u) : u[i] = IF i <= Len(s) THEN s[i] ELSE p[i - Len(s)]
  BY <1>1, Joined
<1> HIDE DEF t, u
<1>4. Len(t) = Len(u) - n /\ Len(u) \in Nat /\ Len(t) \in Nat
  BY <1>1, <1>2, <1>3
<1>5. ASSUME NEW i \in 1..Len(t) PROVE n + i \in 1..Len(u) /\ t[i] = u[n + i]
  <2>1. i \in Nat /\ i >= 1 /\ n + i \in 1..Len(u) /\ (i <= Len(a) <=> n + i <= Len(s))
        /\ i - Len(a) = (n + i) - Len(s)
    BY <1>1, <1>4, <1>5
  <2>2. CASE i <= Len(a)
    <3>1. t[i] = a[i] /\ a[i] = s[n + i]
      BY <1>1, <1>2, <1>5, <2>1, <2>2
    <3>2. u[n + i] = s[n + i]
      BY <1>3, <2>1, <2>2
    <3> QED BY <2>1, <3>1, <3>2
  <2>3. CASE ~(i <= Len(a))
    <3>1. t[i] = p[i - Len(a)]
      BY <1>2, <1>5, <2>3
    <3>2. u[n + i] = p[(n + i) - Len(s)]
      BY <1>3, <2>1, <2>3
    <3> QED BY <2>1, <3>1, <3>2
  <2> QED BY <2>2, <2>3
<1>6. \A i \in 1..n : u[i] = s[i] /\ i \in 1..Len(u)
  BY <1>1, <1>3
<1> QED BY <1>4, <1>5, <1>6 DEF t, u, a

(* Text that is printed is still the same text. *)
LEMMA PrintText ==
  ASSUME NEW s \in Seq(Items), NEW p \in Seq(Items), p # <<>>
  PROVE  Append(s, Head(p)) \o Tail(p) = s \o p
<1> DEFINE a == Append(s, Head(p))
           b == Tail(p)
           t == a \o b
           u == s \o p
<1>1. /\ a \in Seq(Items) /\ Len(a) = Len(s) + 1 /\ Len(s) \in Nat
      /\ \A i \in 1..Len(s) : a[i] = s[i]
      /\ a[Len(s) + 1] = p[1]
  OBVIOUS
<1>2. /\ b \in Seq(Items) /\ Len(b) = Len(p) - 1 /\ Len(p) \in Nat \ {0}
      /\ \A i \in 1..Len(b) : b[i] = p[i + 1]
  OBVIOUS
<1> HIDE DEF a, b
<1>3. /\ t \in Seq(Items) /\ Len(t) = Len(a) + Len(b)
      /\ \A i \in 1..Len(t) : t[i] = IF i <= Len(a) THEN a[i] ELSE b[i - Len(a)]
  BY <1>1, <1>2, Joined
<1>4. /\ u \in Seq(Items) /\ Len(u) = Len(s) + Len(p)
      /\ \A i \in 1..Len(u) : u[i] = IF i <= Len(s) THEN s[i] ELSE p[i - Len(s)]
  BY <1>1, <1>2, Joined
<1> HIDE DEF t, u
<1>5. Len(t) = Len(u)
  BY <1>1, <1>2, <1>3, <1>4
<1>6. ASSUME NEW i \in 1..Len(t) PROVE t[i] = u[i]
  <2>1. CASE i <= Len(s)
    <3>1. i \in 1..Len(s) /\ i <= Len(a) /\ i \in 1..Len(u)
      BY <1>1, <1>2, <1>4, <1>5, <1>6, <2>1
    <3>2. t[i] = a[i] /\ u[i] = s[i]
      BY <1>3, <1>4, <1>6, <2>1, <3>1
    <3> QED BY <1>1, <3>1, <3>2
  <2>2. CASE i = Len(s) + 1
    <3>1. t[i] = a[i] /\ u[i] = p[i - Len(s)] /\ i - Len(s) = 1
      BY <1>1, <1>2, <1>3, <1>4, <1>5, <1>6, <2>2
    <3> QED BY <1>1, <2>2, <3>1
  <2>3. CASE i > Len(s) + 1
    <3> DEFINE j == i - Len(a)
    <3>1. t[i] = b[j] /\ u[i] = p[i - Len(s)] /\ j + 1 = i - Len(s) /\ j \in 1..Len(b)
      BY <1>1, <1>2, <1>3, <1>4, <1>5, <1>6, <2>3
    <3> HIDE DEF j
    <3> QED BY <1>2, <3>1
  <2> QED BY <1>1, <2>1, <2>2, <2>3
<1>7. t = u
  BY <1>3, <1>4, <1>5, <1>6, SeqEqual
<1> QED BY <1>7 DEF t, u, a, b

(* The end of a sequence. *)
LEMMA EndOf ==
  ASSUME NEW S, NEW s \in Seq(S)
  PROVE  /\ \A x \in S : End(Append(s, x)) = x /\ Append(s, x) # <<>>
         /\ s # <<>> /\ Tail(s) # <<>> => End(Tail(s)) = End(s)
         /\ s # <<>> /\ Tail(s) = <<>> => End(s) = Head(s)
<1>1. ASSUME NEW x \in S PROVE End(Append(s, x)) = x /\ Append(s, x) # <<>>
  BY DEF End
<1> DEFINE t == Tail(s)
<1>2. ASSUME s # <<>>
      PROVE  /\ t \in Seq(S) /\ Len(t) = Len(s) - 1 /\ Len(s) \in Nat \ {0} /\ Head(s) = s[1]
             /\ \A i \in 1..Len(t) : i + 1 \in 1..Len(s) /\ t[i] = s[i + 1]
  BY <1>2
<1> HIDE DEF t
<1>3. ASSUME s # <<>>, t # <<>> PROVE End(t) = End(s)
  <2>1. Len(t) \in Nat /\ Len(t) # 0
    BY <1>2, <1>3
  <2>2. Len(t) \in 1..Len(t) /\ Len(t) + 1 = Len(s)
    BY <1>2, <1>3, <2>1
  <2> QED BY <1>2, <1>3, <2>2 DEF End
<1>4. ASSUME s # <<>>, t = <<>> PROVE End(s) = Head(s)
  <2>1. Len(t) = 0
    BY <1>4
  <2>2. Len(s) = 1
    BY <1>2, <1>4, <2>1
  <2> QED BY <1>2, <1>4, <2>2 DEF End
<1> QED BY <1>1, <1>3, <1>4 DEF t

(* The end of a text is the end of what comes last in it. *)
LEMMA EndOfBoth ==
  ASSUME NEW S, NEW a \in Seq(S), NEW b \in Seq(S)
  PROVE  LET c == a \o b IN
         /\ c \in Seq(S) /\ Len(c) = Len(a) + Len(b)
         /\ b # <<>> => c # <<>> /\ End(c) = End(b)
         /\ \A i \in 1..Len(a) : i \in 1..Len(c) /\ c[i] = a[i]
         /\ \A i \in 1..Len(b) : Len(a) + i \in 1..Len(c) /\ c[Len(a) + i] = b[i]
<1> DEFINE c == a \o b
<1>1. /\ c \in Seq(S) /\ Len(c) = Len(a) + Len(b) /\ Len(a) \in Nat /\ Len(b) \in Nat
      /\ \A i \in 1..Len(c) : c[i] = IF i <= Len(a) THEN a[i] ELSE b[i - Len(a)]
  BY ConcatProperties
<1>2. b # <<>> => Len(b) # 0
  OBVIOUS
<1>3. c # <<>> <=> Len(c) # 0
  BY <1>1
<1> HIDE DEF c
<1>4. \A i \in 1..Len(a) : i \in 1..Len(c) /\ c[i] = a[i]
  BY <1>1
<1>5. \A i \in 1..Len(b) : Len(a) + i \in 1..Len(c) /\ c[Len(a) + i] = b[i]
  <2> SUFFICES ASSUME NEW i \in 1..Len(b)
               PROVE  Len(a) + i \in 1..Len(c) /\ c[Len(a) + i] = b[i]
    OBVIOUS
  <2> DEFINE j == Len(a) + i
  <2>1. j \in 1..Len(c) /\ ~(j <= Len(a)) /\ j - Len(a) = i
    BY <1>1
  <2> HIDE DEF j
  <2>2. c[j] = b[i]
    BY <1>1, <2>1
  <2> QED BY <2>1, <2>2 DEF j
<1>6. ASSUME b # <<>> PROVE c # <<>> /\ End(c) = End(b)
  <2>1. Len(b) \in 1..Len(b) /\ Len(c) # 0
    BY <1>1, <1>2, <1>6
  <2>2. c[Len(a) + Len(b)] = b[Len(b)]
    BY <1>5, <2>1
  <2> QED BY <1>1, <1>3, <2>1, <2>2 DEF End
<1> QED BY <1>1, <1>4, <1>5, <1>6 DEF c

(* What the board prints in answer to a line. *)
LEMMA AnswerEnds ==
  ASSUME NEW line \in Lines, LoginReads(line) \/ PasswordReads(line) \/ ShellReads(line)
  PROVE  /\ printing' \in Seq(Items) /\ printing' # <<>> /\ End(printing').text \in Marks
         /\ ShellReads(line) /\ line.text \in {"export", "command"} => End(printing').text = "prompt"
         /\ ShellReads(line) /\ line.text = "command" =>
               \E i \in 1..Len(printing') : printing'[i] = Of("exit", line.cmd)
<1>1. /\ \A x \in {"echo", "other", "prompt", "initial", "login", "password"} :
            Plain(x) \in Items /\ Plain(x).text = x
      /\ Of("exit", line.cmd) \in Items
  BY LoginAssumption DEF Plain, Of, Items, Lines, LoginAssumption
<1>2. Echo(line) \in Seq(Items)
  BY <1>1 DEF Echo
<1>3. \A x \in Items : <<x>> \in Seq(Items) /\ <<x>> # <<>> /\ End(<<x>>) = x
  BY DEF End
<1>4. \A x \in Items : /\ Echo(line) \o <<x>> \in Seq(Items)
                       /\ Echo(line) \o <<x>> # <<>> /\ End(Echo(line) \o <<x>>) = x
  BY <1>2, <1>3, EndOfBoth
<1>5. \A x \in {"login", "initial"} :
         LET s == <<Plain("other"), Plain(x)>> IN
         s \in Seq(Items) /\ s # <<>> /\ End(s) = Plain(x)
  BY <1>1 DEF End
<1>6. CASE LoginReads(line)
  <2>1. ~ShellReads(line)
    BY <1>6 DEF LoginReads, ShellReads
  <2>2. \/ printing' = <<Plain("other"), Plain("login")>>
        \/ printing' = Echo(line) \o <<Plain("initial")>>
        \/ printing' = Echo(line) \o <<Plain("password")>>
    BY <1>6 DEF LoginReads
  <2> QED BY <1>1, <1>4, <1>5, <2>1, <2>2 DEF Marks
<1>7. CASE PasswordReads(line)
  <2>1. ~ShellReads(line)
    BY <1>7 DEF PasswordReads, ShellReads
  <2>2. \/ printing' = <<Plain("other"), Plain("login")>>
        \/ printing' = <<Plain("other"), Plain("initial")>>
    BY <1>7 DEF PasswordReads
  <2> QED BY <1>1, <1>5, <2>1, <2>2 DEF Marks
<1>8. CASE ShellReads(line)
  <2> DEFINE run == IF line.text = "command"
                    THEN <<Plain("other"), Of("exit", line.cmd)>> ELSE <<>>
             x == ShellPrompt(ps1 \/ line.text \in {"export", "command"})
             head == Echo(line) \o run
  <2>1. printing' = head \o <<x>>
    BY <1>8 DEF ShellReads
  <2>2. /\ x \in Items /\ x.text \in Marks
        /\ line.text \in {"export", "command"} => x.text = "prompt"
    BY <1>1 DEF ShellPrompt, Marks
  <2>3. run \in Seq(Items)
    BY <1>1
  <2>4. line.text = "command" => Len(run) = 2 /\ run[2] = Of("exit", line.cmd)
    BY <1>1
  <2> HIDE DEF run, x
  <2>5. /\ head \in Seq(Items)
        /\ \A i \in 1..Len(run) : Len(Echo(line)) + i \in 1..Len(head)
                                  /\ head[Len(Echo(line)) + i] = run[i]
    BY <1>2, <2>3, EndOfBoth
  <2> HIDE DEF head
  <2>6. /\ printing' \in Seq(Items) /\ printing' # <<>> /\ End(printing') = x
        /\ \A i \in 1..Len(head) : i \in 1..Len(printing') /\ printing'[i] = head[i]
    <3> DEFINE one == <<x>>
    <3>1. one \in Seq(Items) /\ one # <<>> /\ End(one) = x
      BY <1>3, <2>2
    <3> HIDE DEF one
    <3>2. /\ head \o one \in Seq(Items) /\ head \o one # <<>> /\ End(head \o one) = x
          /\ \A i \in 1..Len(head) : i \in 1..Len(head \o one) /\ (head \o one)[i] = head[i]
      BY <2>5, <3>1, EndOfBoth
    <3>3. printing' = head \o one
      BY <2>1 DEF one
    <3> QED BY <3>2, <3>3
  <2>7. line.text = "command" => \E i \in 1..Len(printing') : printing'[i] = Of("exit", line.cmd)
    <3> SUFFICES ASSUME line.text = "command"
                 PROVE  \E i \in 1..Len(printing') : printing'[i] = Of("exit", line.cmd)
      OBVIOUS
    <3>1. 2 \in 1..Len(run) /\ run[2] = Of("exit", line.cmd)
      BY <2>4
    <3> DEFINE i == Len(Echo(line)) + 2
    <3>2. i \in 1..Len(head) /\ head[i] = Of("exit", line.cmd)
      BY <2>5, <3>1
    <3> HIDE DEF i
    <3> QED BY <2>6, <3>2
  <2> QED BY <2>2, <2>6, <2>7
<1> QED BY <1>6, <1>7, <1>8

(* Steps that read: the end of the text stays unless all of it was read.   *)
LEMMA ReadingText ==
  ASSUME Shape, NEW n \in 1..Len(input), input' = SubSeq(input, n + 1, Len(input)),
         UNCHANGED <<printing, command>>, Text # <<>>
  PROVE  /\ IF Text' = <<>> THEN input[n] = End(Text) ELSE End(Text') = End(Text)
         /\ ExitAhead => ExitAhead' \/ \E i \in 1..n : input[i] = Of("exit", command)
<1>1. input \in Seq(Items) /\ printing \in Seq(Items)
  BY DEF Shape
<1> DEFINE u == input \o printing
           t == SubSeq(input, n + 1, Len(input)) \o printing
<1>2. /\ Len(t) = Len(u) - n /\ Len(u) \in Nat /\ Len(t) \in Nat
      /\ \A i \in 1..Len(t) : n + i \in 1..Len(u) /\ t[i] = u[n + i]
      /\ \A i \in 1..n : u[i] = input[i] /\ i \in 1..Len(u)
  BY <1>1, ReadText
<1>3. Text = u /\ Text' = t
  BY DEF Text
<1>4. t # <<>> <=> Len(t) # 0
  <2> DEFINE a == SubSeq(input, n + 1, Len(input))
  <2>1. a \in Seq(Items)
    BY <1>1
  <2> HIDE DEF a
  <2>2. a \o printing # <<>> <=> Len(a \o printing) # 0
    BY <1>1, <2>1, Joined
  <2> QED BY <2>2 DEF a
<1> HIDE DEF t, u
<1>5. n \in Nat /\ n >= 1
  BY <1>1
<1>6. CASE Len(t) = 0
  <2>1. n = Len(u) /\ n \in 1..n
    BY <1>2, <1>5, <1>6
  <2>2. input[n] = u[Len(u)]
    BY <1>2, <2>1
  <2>3. ExitAhead => \E i \in 1..n : input[i] = Of("exit", command)
    BY <1>2, <1>3, <2>1 DEF ExitAhead
  <2> QED BY <1>3, <1>4, <1>6, <2>2, <2>3 DEF End
<1>7. CASE Len(t) # 0
  <2>1. Len(t) \in 1..Len(t) /\ n + Len(t) = Len(u)
    BY <1>2, <1>5, <1>7
  <2>2. t[Len(t)] = u[Len(u)]
    BY <1>2, <2>1
  <2>3. ASSUME ExitAhead PROVE ExitAhead' \/ \E i \in 1..n : input[i] = Of("exit", command)
    <3>1. PICK i \in 1..Len(u) : u[i] = Of("exit", command)
      BY <1>3, <2>3 DEF ExitAhead
    <3>2. CASE i <= n
      <4>1. i \in 1..n
        BY <3>2, <1>5
      <4> QED BY <1>2, <3>1, <4>1
    <3>3. CASE ~(i <= n)
      <4> DEFINE j == i - n
      <4>1. j \in 1..Len(t) /\ n + j = i
        BY <1>2, <1>5, <3>3
      <4> HIDE DEF j
      <4>2. t[j] = Of("exit", command)
        BY <1>2, <3>1, <4>1
      <4>3. ExitAhead'
        BY <1>3, <4>1, <4>2 DEF ExitAhead
      <4> QED BY <4>3
    <3> QED BY <3>2, <3>3
  <2> QED BY <1>3, <1>4, <1>7, <2>2, <2>3 DEF End
<1> QED BY <1>6, <1>7

LEMMA WaitReads ==
  ASSUME ConsoleInv, WaitInv, KeepReading \/ ReadResponse
  PROVE  WaitInv'
<1> USE DEF ConsoleInv
<1>1. PICK n \in 1..Len(input) :
         /\ input' = SubSeq(input, n + 1, Len(input))
         /\ \/ KeepReading /\ pc \in Detecting /\ Marker(input[n]) = "none"
            \/ KeepReading /\ pc = "prompt" /\ Marker(input[n]) # "prompt"
            \/ /\ ReadResponse
               /\ marked' = (marked \/ \E i \in 1..n : input[i] = Of("exit", command))
               /\ pc' = IF marked' /\ Marker(input[n]) = "prompt" THEN "ready" ELSE "execute"
  BY DEF KeepReading, Reads, Ends, ReadResponse
<1>2. UNCHANGED <<printing, command, typed, up, stolen>>
  BY DEF KeepReading, ReadResponse, console
<1>3. Text # <<>> =>
         /\ IF Text' = <<>> THEN input[n] = End(Text) ELSE End(Text') = End(Text)
         /\ ExitAhead => ExitAhead' \/ \E i \in 1..n : input[i] = Of("exit", command)
  BY <1>1, <1>2, ReadingText
<1>4. printing' # <<>> => End(printing').text \in Marks
  BY <1>2 DEF WaitInv
<1>5. SUFFICES ASSUME up, ~stolen
               PROVE  /\ pc' \in Detecting => typed' # <<>> \/ EndsIn(Marks)'
                      /\ pc' = "prompt" =>
                            IF typed' # <<>> THEN End(typed').text = "export"
                            ELSE EndsIn({"prompt"})'
                      /\ pc' = "execute" =>
                            IF typed' # <<>> THEN End(typed') = Of("command", command')
                            ELSE EndsIn({"prompt"})' /\ (marked' \/ ExitAhead')
  BY <1>2, <1>4 DEF WaitInv
<1>6. CASE KeepReading /\ pc \in Detecting /\ Marker(input[n]) = "none"
  <2>1. pc' = pc /\ pc' \notin {"prompt", "execute"}
    BY <1>6 DEF KeepReading, Detecting
  <2>2. typed # <<>> \/ (Text # <<>> /\ End(Text).text \in Marks)
    BY <1>5, <1>6 DEF WaitInv, EndsIn
  <2>3. input[n].text \notin Marks
    BY <1>6 DEF Marker, Marks
  <2> QED BY <1>2, <1>3, <2>1, <2>2, <2>3 DEF EndsIn
<1>7. CASE KeepReading /\ pc = "prompt" /\ Marker(input[n]) # "prompt"
  <2>1. pc' = "prompt"
    BY <1>7 DEF KeepReading
  <2>2. IF typed # <<>> THEN End(typed).text = "export"
        ELSE Text # <<>> /\ End(Text).text = "prompt"
    BY <1>5, <1>7 DEF WaitInv, EndsIn
  <2>3. input[n].text # "prompt"
    BY <1>7 DEF Marker
  <2> QED BY <1>2, <1>3, <2>1, <2>2, <2>3 DEF EndsIn, Detecting
<1>8. CASE /\ ReadResponse
           /\ marked' = (marked \/ \E i \in 1..n : input[i] = Of("exit", command))
           /\ pc' = IF marked' /\ Marker(input[n]) = "prompt" THEN "ready" ELSE "execute"
  <2>1. pc = "execute"
    BY <1>8 DEF ReadResponse
  <2>2. IF typed # <<>> THEN End(typed) = Of("command", command)
        ELSE Text # <<>> /\ End(Text).text = "prompt" /\ (marked \/ ExitAhead)
    BY <1>5, <2>1 DEF WaitInv, EndsIn
  <2>3. pc' \in {"ready", "execute"}
    BY <1>8
  <2>4. SUFFICES ASSUME pc' = "execute", typed = <<>>
                 PROVE  EndsIn({"prompt"})' /\ (marked' \/ ExitAhead')
    BY <1>2, <2>2, <2>3 DEF Detecting
  <2>5. marked' \/ ExitAhead'
    BY <1>3, <1>8, <2>2, <2>4
  <2>6. ASSUME Text' = <<>> PROVE FALSE
    <3>1. Marker(input[n]) = "prompt"
      BY <1>3, <2>2, <2>4, <2>6 DEF Marker
    <3>2. ~marked'
      BY <1>8, <2>4, <3>1
    <3>3. ExitAhead /\ ~\E i \in 1..n : input[i] = Of("exit", command)
      BY <1>8, <2>2, <2>4, <3>2
    <3>4. ExitAhead'
      BY <1>3, <2>2, <2>4, <3>3
    <3>5. 1..Len(Text') = {}
      BY <2>6
    <3> QED BY <3>4, <3>5 DEF ExitAhead
  <2> QED BY <1>3, <2>2, <2>4, <2>5, <2>6 DEF EndsIn
<1> QED BY <1>1, <1>6, <1>7, <1>8

LEMMA WaitPrints ==
  ASSUME ConsoleInv, WaitInv, BoardPrints
  PROVE  WaitInv'
<1> USE DEF BoardPrints
<1>1. input \in Seq(Items) /\ printing \in Seq(Items) /\ printing # <<>>
  BY DEF ConsoleInv, Shape
<1>2. printing' # <<>> => End(printing').text \in Marks
  BY <1>1, EndOf DEF WaitInv
<1>3. UNCHANGED <<pc, up, typed, marked, command>>
  OBVIOUS
<1>4. CASE up /\ input' = Append(input, Head(printing)) /\ UNCHANGED stolen
  <2>1. Text' = Text
    BY <1>1, <1>4, PrintText DEF Text
  <2>2. /\ \A M : EndsIn(M)' <=> EndsIn(M)
        /\ ExitAhead' <=> ExitAhead
    BY <1>3, <2>1 DEF EndsIn, ExitAhead
  <2> QED BY <1>2, <1>3, <1>4, <2>2 DEF WaitInv
<1>5. CASE ~up
  BY <1>2, <1>3, <1>5 DEF WaitInv
<1>6. CASE stolen' = (stolen \/ pc \in Waiting)
  BY <1>2, <1>3, <1>6 DEF WaitInv, Waiting, Preparing
<1> QED BY <1>4, <1>5, <1>6

LEMMA WaitBoard ==
  ASSUME ConsoleInv, WaitInv, BoardReads
  PROVE  WaitInv'
<1> USE DEF BoardReads, client
<1> DEFINE line == Head(typed)
<1>1. typed \in Seq(Lines) /\ input \in Seq(Items) /\ typed # <<>> /\ printing = <<>>
  BY DEF ConsoleInv, Shape
<1>2. /\ line \in Lines
      /\ typed' # <<>> => End(typed') = End(typed)
      /\ typed' = <<>> => End(typed) = line
  BY <1>1, EndOf
<1>3. LoginReads(line) \/ PasswordReads(line) \/ ShellReads(line)
  OBVIOUS
<1> HIDE DEF line
<1>4. /\ printing' \in Seq(Items) /\ printing' # <<>> /\ End(printing').text \in Marks
      /\ ShellReads(line) /\ line.text \in {"export", "command"} => End(printing').text = "prompt"
      /\ ShellReads(line) /\ line.text = "command" =>
            \E i \in 1..Len(printing') : printing'[i] = Of("exit", line.cmd)
  BY <1>2, <1>3, AnswerEnds
<1>5. UNCHANGED <<pc, up, stolen, marked, command, input>>
  OBVIOUS
<1> DEFINE c == input \o printing'
<1>6. /\ c # <<>> /\ End(c) = End(printing')
      /\ \A i \in 1..Len(printing') : Len(input) + i \in 1..Len(c) /\ c[Len(input) + i] = printing'[i]
  BY <1>1, <1>4, EndOfBoth
<1>7. Text' = c
  BY <1>5 DEF Text
<1> HIDE DEF c
<1>8. SUFFICES ASSUME up, ~stolen
               PROVE  /\ pc \in Detecting => typed' # <<>> \/ EndsIn(Marks)'
                      /\ pc = "prompt" =>
                            IF typed' # <<>> THEN End(typed').text = "export"
                            ELSE EndsIn({"prompt"})'
                      /\ pc = "execute" =>
                            IF typed' # <<>> THEN End(typed') = Of("command", command)
                            ELSE EndsIn({"prompt"})' /\ (marked \/ ExitAhead')
  BY <1>4, <1>5 DEF WaitInv
<1>9. EndsIn(Marks)'
  BY <1>4, <1>6, <1>7 DEF EndsIn
<1>10. pc \in {"prompt", "execute"} => ShellReads(line)
  BY <1>3 DEF ConsoleInv, ShellInv, LoginReads, PasswordReads
<1>11. ASSUME pc = "prompt"
       PROVE  IF typed' # <<>> THEN End(typed').text = "export" ELSE EndsIn({"prompt"})'
  <2>1. End(typed).text = "export"
    BY <1>1, <1>8, <1>11 DEF WaitInv
  <2>2. typed' = <<>> => End(printing').text = "prompt"
    BY <1>2, <1>4, <1>10, <1>11, <2>1
  <2> QED BY <1>2, <1>6, <1>7, <2>1, <2>2 DEF EndsIn
<1>12. ASSUME pc = "execute"
       PROVE  IF typed' # <<>> THEN End(typed') = Of("command", command)
              ELSE EndsIn({"prompt"})' /\ (marked \/ ExitAhead')
  <2>1. End(typed) = Of("command", command)
    BY <1>1, <1>8, <1>12 DEF WaitInv
  <2>2. SUFFICES ASSUME typed' = <<>> PROVE EndsIn({"prompt"})' /\ ExitAhead'
    BY <1>2, <2>1
  <2>3. line.text = "command" /\ line.cmd = command
    BY <1>2, <2>1, <2>2 DEF Of
  <2>4. EndsIn({"prompt"})'
    BY <1>4, <1>6, <1>7, <1>10, <1>12, <2>3 DEF EndsIn
  <2>5. PICK i \in 1..Len(printing') : printing'[i] = Of("exit", command)
    BY <1>4, <1>10, <1>12, <2>3
  <2>6. Len(input) + i \in 1..Len(c) /\ c[Len(input) + i] = Of("exit", command)
    BY <1>6, <2>5
  <2>7. ExitAhead'
    BY <1>5, <1>7, <2>6 DEF ExitAhead
  <2> QED BY <2>4, <2>7
<1> QED BY <1>9, <1>11, <1>12

LEMMA WaitTypes ==
  ASSUME ConsoleInv, WaitInv, NEW line \in Lines,
         typed' = Append(typed, line) \/ ~up', UNCHANGED printing,
         \/ pc' \in Detecting
         \/ pc' = "prompt" /\ line.text = "export"
         \/ pc' = "execute" /\ line = Of("command", command')
  PROVE  WaitInv'
<1>1. typed \in Seq(Lines)
  BY DEF ConsoleInv, Shape
<1>2. typed' = Append(typed, line) => typed' # <<>> /\ End(typed') = line
  BY <1>1, EndOf
<1> QED BY <1>2 DEF WaitInv, Detecting

LEMMA WaitStep == ConsoleInv /\ WaitInv /\ [Next]_vars => WaitInv'
<1> SUFFICES ASSUME ConsoleInv, WaitInv, [Next]_vars PROVE WaitInv'
  OBVIOUS
<1>1. ASSUME NEW c, Opened(c) PROVE WaitInv'
  <2>1. Plain("enter") \in Lines
    BY PlainLine
  <2> QED BY <1>1, <2>1, WaitTypes DEF Opened, Detecting
<1>2. CASE OpenPort \/ StartPicocom
  BY <1>1, <1>2 DEF OpenPort, StartPicocom
<1>3. CASE SendUsername \/ SendPassword \/ SetPrompt
  <2>1. /\ Plain("username") \in Lines /\ Plain("secret") \in Lines /\ Plain("export") \in Lines
        /\ Plain("export").text = "export"
    BY PlainLine
  <2>2. CASE SendUsername
    BY <2>1, <2>2, WaitTypes DEF SendUsername, Type, Detecting
  <2>3. CASE SendPassword
    BY <2>1, <2>3, WaitTypes DEF SendPassword, Type, Detecting
  <2>4. CASE SetPrompt
    BY <2>1, <2>4, WaitTypes DEF SetPrompt, Type
  <2> QED BY <1>3, <2>2, <2>3, <2>4
<1>4. CASE Execute
  <2>1. command + 1 \in 0..MaxCommands
    BY <1>4, LoginAssumption DEF Execute, LoginAssumption, ConsoleInv, Shape
  <2>2. Of("command", command + 1) \in Lines
    BY <2>1 DEF Of, Lines
  <2> QED BY <1>4, <2>2, WaitTypes DEF Execute, Type
<1>5. CASE KeepReading \/ ReadResponse
  BY <1>5, WaitReads
<1>6. CASE BoardPrints \/ BoardReads
  BY <1>6, WaitPrints, WaitBoard
<1>7. ASSUME UNCHANGED printing, pc' \in {"closed", "verify", "ready"} PROVE WaitInv'
  BY <1>7 DEF WaitInv, Detecting
<1>8. CASE NoCredentials \/ Refused \/ Prepared \/ PrepareTimesOut \/ PrepareEnds
  BY <1>7, <1>8 DEF NoCredentials, Refused, Prepared, PrepareTimesOut, PrepareEnds, Raise, console
<1>9. CASE Connect \/ VerifyFails \/ ConnectFails \/ ExecuteRaises \/ Close
  BY <1>7, <1>9 DEF Connect, VerifyFails, ConnectFails, ExecuteRaises, Close, console
<1>10. CASE Logout
  BY <1>7, <1>10 DEF Logout, client
<1>11. ASSUME UNCHANGED <<pc, input, marked, stolen, command, typed, printing>>,
              up' \in {up, FALSE}
       PROVE  WaitInv'
  <2>1. Text' = Text
    BY <1>11 DEF Text
  <2>2. (\A M : EndsIn(M)' <=> EndsIn(M)) /\ (ExitAhead' <=> ExitAhead)
    BY <1>11, <2>1 DEF EndsIn, ExitAhead
  <2>3. up' => up
    BY <1>11
  <2> QED BY <1>11, <2>2, <2>3 DEF WaitInv
<1>12. CASE LoseChannel \/ (\E c \in Connections : PicocomExits(c)) \/ UNCHANGED vars
  BY <1>11, <1>12 DEF LoseChannel, PicocomExits, vars, console
<1> QED BY <1>2, <1>3, <1>4, <1>5, <1>6, <1>8, <1>9, <1>10, <1>12
        DEF Next, PrepareStep, ExecuteStep, BoardStep

(* prepare() and execute() never wait in vain on a working channel: the    *)
(* text ends in what they wait for, or a line that brings it is unread.    *)
THEOREM WaitsAreAnswered == Spec => []AnswerUnderWay
<1>1. Init => WaitInv
  BY DEF Init, WaitInv
<1>2. ConsoleInv /\ WaitInv => AnswerUnderWay
  <2> SUFFICES ASSUME ConsoleInv, WaitInv, pc \in Waiting, up, ~stolen,
                      input = <<>>, printing = <<>>, typed = <<>>
               PROVE  FALSE
    BY DEF AnswerUnderWay
  <2>1. Text = <<>>
    BY DEF Text
  <2> QED BY <2>1 DEF WaitInv, Waiting, Preparing, EndsIn
<1> QED BY <1>1, <1>2, ConsoleInit, ConsoleStep, WaitStep, PTL DEF Spec
==============================================================================
