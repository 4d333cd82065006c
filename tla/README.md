# TLA+ verification of the hardware test template

The repository drives hardware under test from two sides. A pytest framework
(`src/src/hardware_test`) connects a *stand* of devices through SSH or serial
consoles and runs tests on them. Helper programs surround it: a *runner
service* (`helpers/test-runner-service`) that accepts one operation at a time
over HTTP and executes it as docker processes, and a *serial agent*
(`helpers/serial-agent`) that owns a serial port on a remote host. The modules
here model the parts of both sides in which steps of several actors interleave,
things fail halfway, or state survives a crash.

Paths below are relative to the repository root.

## Inventory

### Runner service

| Component | State | Operations |
|---|---|---|
| `worker.py` `OperationCoordinator` | `_task`, `_lock`, `_cancel_requested` | `start_build`, `start_pull`, `start_run`, `cancel`, `shutdown`, the coroutines `_execute_image_operation`, `_execute_test_run`, `_publish_allure` |
| `processes.py` `AsyncioProcessRunner` | `_process` | `run` (spawn, read loop, wait), `cancel` (docker stop, then terminate) |
| `state.py` `StateStore` | `current.json`, `current.log` | `read`, `write`, `reset_log`, `append_log`, `mark_interrupted` |
| `main.py` lifespan | started or not | startup marks an unfinished record, shutdown stops the operation |
| `api.py` event stream | offset and operation of each follower | poll the log and the record until a terminal status |
| `reportportal.py` | none | one lookup with a 5 s timeout |
| `auth.py` | none of its own: signed cookies in the browser | `/login`, `/auth/login`, `/auth/callback`, `/auth/logout`, the middleware with one authenticator for each mode |
| `oidc.py` `OidcClient` | discovery document, key set and its load time | `exchange_code`, `verify_id_token`, `verify_access_token`, key refresh |
| `artifacts.py`, `docker_commands.py`, `settings.py` | none | listing, argument lists, validation |

The coordinator, the process runner and the state store share one asyncio event
loop: what runs between two awaits is atomic, and every await is a place where
another request, the timeout or the shutdown may step in. They interact through
the lock, through `_process` (which is whatever process runs *now*, not the one
the caller had in mind), through the two files, and through docker, whose
containers outlive the coroutine and the service that started them. The hard
behaviours are a cancel racing the natural end of a run, a cancel that waits for
`docker stop` while the operation changes leg, timeouts, a failing write in the
middle of an operation, a shutdown that stops the container before it cancels
the task, and a crash at any await.

It is correct if the slot is exclusive, the two files always describe the same
operation, a signal only ever reaches the operation it was meant for, a
cancelled run gets no verdict, a terminal record is final, and every accepted
operation gets one.

Authentication keeps nothing in the service. A session is a signed cookie with
roles, a time and the expiry of a token; a login in progress is another one, and
all tabs of a browser share both. Requests carry what the browser had when they
were sent, responses change it when they arrive, the provider's clock is not the
runner's, and the provider may withdraw a role at any moment. It is correct if a
withdrawn role ends with its token, overlapping logins do not all fail, and a
successful login is not answered with another login.

### Framework

| Component | State | Operations |
|---|---|---|
| `transport/serial_agent.py` channel and `helpers/serial-agent` | two byte streams, the agent's port | request/response with timeouts, `open`, `write`, `read`, `close`, end of file |
| `transport/pyserial_over_ssh.py`, `picocom_over_ssh.py`, `pyserial.py`, `console.py` | session, buffered output | `connect` with cleanup, `prepare` (login, password, `PS1`), `execute`, `close` |
| `transport/synchronized.py` | a reentrant lock | `connect`, `execute`, `close`, `exclusive` |
| `transport/ssh.py` | the SSH client | `connect`, `execute`, `close` |
| `inventory`, `factory` | none | loading files, validating references, building one device for each physical device |
| `stand/stand.py`, `tests/hardware/conftest.py` | connected devices | `connect` with rollback, `close` |
| `pytest_plugin.py`, `scenarios.py` | marker sequence, run directory | selection, ordering, fail-fast, directory allocation |
| `devices`, `models`, `logging` | none | values and thin wrappers |

The channel's responses carry no identity, so a request that times out leaves an
answer that the next request would read; the console recognises the end of a
command by a marker and a prompt in a stream that may still carry an earlier
command's output. Devices are shared between roles and threads, connects and
closes raise, and the session must still leave nothing open. Two roles of one
physical device must share one transport, since its lock is all that orders
their calls.

It is correct if a command returns its own output and nothing else's, reaches a
shell and reaches the board in order; if a wrong inventory touches no device; if
a device executes one call at a time, is never closed under its user
and never stays open or locked by an error after its session; if a scenario runs its steps
in order and is green only when it came to all the tests that pytest left it.

## Modules

| Module | Models |
|---|---|
| `RunnerService` | coordinator, process runner, state store, lifespan, and docker as their environment |
| `OperationSlot` | what the service promises to a reader of its two files |
| `EventStream` | followers of `GET /v1/current/events` over an `OperationSlot` |
| `SerialLink` | console, channel, SSH streams, serial agent, port and board |
| `ConsoleLogin` | `prepare()` behind the picocom and pyserial transports, and the board's login |
| `StandSession` | inventory, factories, stand, synchronized transports, session fixture and the tests' threads |
| `ScenarioOrder` | the pytest plugin over one session |
| `JwksCache` | the key set of `OidcClient` under concurrent verifications |
| `BrowserSession` | authentication: the middleware, logins, sessions and sign-out, with browser and provider as their environment |
| `RunnerServiceProofs` | theorems about `RunnerService`: the slot, signals and the refinement; verdicts and what is left behind |
| `EventStreamProofs`, `SerialLinkProofs`, `ConsoleLoginProofs`, `StandSessionProofs`, `ScenarioOrderProofs`, `JwksCacheProofs`, `BrowserSessionProofs` | theorems about the module of that name, with the inductive invariants they need |
| `MC...` | instances for TLC |

Composition: `RunnerService` is shown to implement `OperationSlot` (by TLC and
by proof); `EventStream` extends `OperationSlot` instead of the whole service,
so the followers are checked against everything the service may do to its
files. The framework's modules meet at the transport interface: `StandSession`
takes connect, execute and close as calls that may raise, and `SerialLink` and
`ConsoleLogin` model what those calls do. `BrowserSession` takes the verification
of a token as a call that returns or raises; `JwksCache` models what it does.

### RunnerService

One action per stretch of code between awaits. `stage[o]` says where the
coroutine of operation `o` is suspended; `leg[o]` which of its two docker
processes it is at (build, pull or test container; then image inspect or Allure
publisher). `disk` is `current.json` reduced to operation, status and the
container it names; `log` is the owner of every line of `current.log`. `attached`
is `_process`. `proc` and `container` are docker's. `ended`, `reasons` and
`signalled` are history variables for the properties and guard nothing.

`Start` is `_start` under the lock; `CancelRequest` to `CancelReturns` is
`cancel`, with the lock held across `docker stop`; `Launch`, `Attach`,
`ReadLine`, the exits, `Timeout...` and the report steps are the coroutines;
`Shutdown...`, `Crash` and `Startup` the lifespan. A write that raises is a
disjunct of the action that writes, counted by `faults`; `End` has the second
write, by the handler, if the first raised inside the try block. Operation identifiers
(uuid4) are successive naturals; JUnit summaries and URLs are left out.

### OperationSlot and EventStream

`OperationSlot` has the record and the log only: an operation takes the slot
(the log becomes empty, then the record changes), appends lines, ends once. An
`EventStream` reader has the offset, the operation it follows and what it has
sent; it reopens the log by name after each sleep, which is why a replaced log
matters.

### SerialLink

Two streams between channel and agent, the agent's loop over one request at a
time, the serial port with what the board has still to send, and the console's
wait for marker and prompt. Timeouts of a request, of the command and of the
prompt, death of the agent and loss of the link are actions. So is what an error
in closing does: an agent whose `close` raises has given up the port and reads
on until the channel ends (`Refuse`), and a channel whose `close()` raises an
`OSError` in the handler of `connect()` leaves the transport with a client that
is not forgotten and a channel that is closed (`Raise`, from `"abort"`). Text is abstracted
to who sent it: output, marker or prompt of command `c`. The console is already
logged in here; `ConsoleLogin` is the other half.

### ConsoleLogin

The console decides by the end of what it has read so far. Every item of text
is reduced to what that decision tells apart, and `Reads(m)` lets a read end
after any item that has arrived. The echo of a line that quotes the prompt is
two items, because a read may end between them. The board (external) reads typed
lines as getty, login or shell, prints one item at a time, and keeps all of that
when the transport gives up and connects again. `connect()` over picocom first
waits for the remote `test -c` of the device (`pc = "verify"`), in
`recv_exit_status()` and without a deadline, so nothing makes it leave that
stage. An earlier picocom whose terminal is gone may still have the device
(`port[c] = "lingering"`) when the next one opens it, as
`docs/picocom-over-ssh.md` warns, and then takes part of what the board prints
(`stolen`); a local port is opened for exclusive use. Two assumptions about it: other
text does not end in a configured marker, as `docs/picocom-over-ssh.md` asks of
the configuration, and a shell logs out only between connections.

### StandSession

An inventory is which devices each file defines, the roles of the selected stand,
what other stands refer to, and the devices whose credentials and types are
known. `LoadInventory` reads the files in order and checks references;
`CreateStand` is `get_stand` with the factories, which build one device for the
first role of each physical device, so a device object is the number of that
role. Then the fixture thread walks through connect, rollback, use and close;
worker threads call `execute` and enter `exclusive()` of any devices, one inside
another and in any order. A thread first says what it `wants` and then waits for
the lock, so that threads can wait for each other. Each transport
has a reentrant lock with an owner and a depth. Connects, closes and executes may
raise; a connection behaves as `SSHTransport` does, which keeps its client when
closing it raises.

### ScenarioOrder

The initial state chooses the options and the collected tests; `Configure`,
`Collect` and the two refusals are the plugin's hooks, `RunTest` and
`FinishSession` pytest's loop with its `maxfail`. A test passes, fails or is
skipped. What `-k`, `-m` and `--deselect` leave is chosen freely (`matched`) and
applied after the plugin's hook has ordered the tests (`Left`). Marker names are values that
are registered, unknown or malformed.

### JwksCache

A verification is suspended while it discovers the endpoints (`discovering`),
until the provider has composed an answer (`asking`) and while the answer
travels (`receiving`); the cache is shared, and whoever receives stores. `now`
is read where the code reads it, before the request, which is what bounds the
age of a stored set. `gap` and `lastPublished` are history.

### BrowserSession

`session` and `tx` are the browser's two cookies with the time it keeps them,
`tab` what is under way for each tab: a request with the cookies it was sent
with, a token, or a response with the cookie it will set. `Serve` is the
middleware at the moment it decides; `Authenticate` the four authenticators;
`LoginPage`, `Callback`, `Exchanged`, `Verified` and `LoginFails` the login up to
each of its awaits; `Welcomed` and `Redirected` the arrival of the responses. The
deployment (mode and drift of the provider's clock) is chosen initially; neither
the drift nor the skew is bounded by the life of a token, since nothing in
`settings.py` bounds them. A token is `Accepted` as `jwt.decode` does it: neither
issued in the future nor expired, with the skew as leeway for both. A
signature is taken as unforgeable, so only cookies the runner made exist.
`lastHeld` (when the account last had each role) and `round` (how the overlapping
logins went) are history.

## Runs

| Run | Checks | Instance |
|---|---|---|
| `RunnerSlot` | `SingleOperation`, `LogOfRecord`, `SignalsAreAimed`, `TerminalIsFinal`, `ImplementsSlot` | two operations and two cancelling clients, with timeouts, shutdowns and crashes |
| `RunnerReports` | `TypeOK`, `RecordOfTask`, `CancelledRunHasNoVerdict`, `NothingLeftBehind`, `VerdictOfProcess`, `NoPhantomOperation`, `NoPublicationAfterCancel`, `EveryOperationEnds`, `EveryCancelIsAnswered` | one operation of any kind, both report stages, one fault |
| `EventStream` | `MixedStreamIsReset`, `StatusIsComplete`, `StreamEnds` | one follower, three operations of two lines |
| `SerialLink` | `OutputIsComplete`, `OutputIsClean`, `BoardOrder`, `ReturnsInStep`, `DeviceReleased`, `CallsReturn` | two sessions, two commands, one request timeout |
| `ConsoleLogin` | `CommandsReachShell`, `RefusalIsReal`, `AnswerUnderWay`, `DeviceIsFreed` | two connections, one command, every transport, account and initial board |
| `StandSession` | `Serialized`, `OpenWhileUsed`, `NothingLeftOpen`, `WrongIsUntouched`, `SessionEnds` | eight inventories, six of them wrong in one place; three devices, one with two roles; two threads, each up to twice in `exclusive()` of each device |
| `ScenarioOrder` | `RunsInOrder`, `GreenCameToAll` | up to three tests of five kinds, two steps, any of the tests deselected |
| `JwksCache` | `BoundedStaleness`, `NoFalseRefusal`, `VerificationEnds` | two verifications, one key, three seconds |
| `BrowserSession` | `SomeTabGetsIn`, `RolesAreFresh`, `OpenSettles` | two tabs, one with an API client, four modes, a provider whose clock is ahead or behind, one change of roles |
| `RunnerOverlap` | `OneTestContainer` | violated, see Findings |
| `StandRollback` | `AlwaysClosed` | violated |
| `ConsolePrompt` | `PromptEstablished` | violated |

Each property is stated, with the code it is about, above its definition. Every
property of a passing run has a mutant (`Mutant...` in the modules, listed in
`PROJECT.json`): a definition changed as a plausible slip in the code would
change it, under which the property fails. They show that the properties depend
on the code they are about.

### Bounds

- *Operations.* The slot relates an operation to the one before it: two show
  every interaction, and the theorems remove the bound. The reports run has one
  operation because the report stages multiply its states and its properties
  speak of one operation at a time. Two clients let a cancel wait for another.
- *Followers.* Followers do not interact, so one is enough; three operations let
  the log be replaced twice between two polls. Two lines tell an offset within
  the old log from one beyond the new one.
- *Serial link.* Two sessions and two commands give a late response or late
  output somebody else to be mistaken for. One timeout is enough to lose step.
- *Login.* Two connections: one that is given up anywhere, and one that reads its
  leftovers and meets its picocom. A third, or a second command, exceeds what TLC
  does in minutes; the invariants are theorems for any number of both.
- *Stand.* Three devices give a rollback a first, a middle and a last one, the
  shared role a device that is met twice; two threads can compete for a lock the
  fixture wants, and wait for each other. `MaxNested` bounds how deep a thread is
  in `exclusive()` of one device; two is a context inside itself. How often the
  threads call is not bounded.
- *Scenario.* Two steps and three tests give a step two tests, a test both steps
  and an unmarked test beside them.
- *Keys.* A lookup never relates two keys, so one suffices. Three seconds pass
  the cache time of two by one.
- *Sessions.* Two tabs are enough for a login to be overtaken, and a third would
  only be overtaken as well. In two seconds a token of two seconds from a
  provider one second behind expires while its request or its session is still
  under way, and a transaction of one second expires; `Skew` of one lets a token
  be accepted after its expiry. One change of roles is the withdrawal. The
  provider's clock is right, one second ahead or behind, two ahead (its tokens
  are accepted only later), two behind (they are past when issued, and accepted)
  and three behind (never accepted).

The theorems below remove these bounds for the properties they state.

`CHECK_DEADLOCK FALSE` stands where a run stops at a bound or a session simply
ends: after the last connection, the end of a pytest session or of a fixture.

### Fairness

- Runner: the coroutine of an operation goes on (`Progress`), because every
  process it waits for is bounded by `asyncio.timeout`, `docker stop` by its
  grace period and the ReportPortal lookup by 5 s; the lock is first come, first
  served, hence strong fairness for a waiting cancel; a service that died starts
  again (`compose.yaml`: `restart: unless-stopped`). Crashes, shutdowns and
  requests have none.
- Event stream: a follower is resumed after each event its client takes and
  after each sleep. The operation owes nothing: `StreamEnds` speaks of streams
  whose operation is over.
- Serial link: the agent answers (its reads and writes have timeouts), the
  client polls, and the console's deadline passes however often it is delayed by
  another read. Board and link owe nothing.
- Console login: a picocom without a terminal ends, and nothing else. The waits of
  `prepare()` and `execute()` have deadlines, the test of the device before them
  has none (`picocom_over_ssh.py:100`), and no property rests on either. The board
  owes nothing.
- Stand: the fixture goes on between its calls, the tests end, a lock that is and
  stays free is given to a thread that waits for it, and a thread that makes no
  more calls leaves its contexts. That a call returns is not assumed
  (`recv_exit_status()` has no timeout, `ssh.py:59` and `picocom_over_ssh.py:100`),
  nor that a lock which others take again and again is ever given to one that
  waits. `SessionEnds` therefore names what may keep the fixture from its end: a
  call that never returns, threads that hold what the others want (`Entangled`:
  nested `exclusive()` in opposite orders, which the code does not prevent), and a
  thread that never stops calling.
- Keys: a call of the provider returns or raises (`urlopen` has a timeout).
- Sessions: requests and responses arrive, the calls of the provider return or
  raise, and the provider sends a user it knows to the callback. What a user
  decides has no fairness, and neither has the clock. As the clock stops at
  `MaxTime`, `OpenSettles` excludes a loop of logins that goes on by itself; one
  in which every login takes longer than its token lasts needs endless time and
  is not covered. It excepts one deployment (`PastButAccepted`): the clock of the
  provider is behind by at least the life of a token, and the skew
  (`settings.py:54`, which has no upper bound) makes the tokens accepted all the
  same. Every session cookie then has `max_age=0`, and `/`, `/login` and the
  provider redirect in a circle; without the exception TLC finds it.

## Theorems

TLAPS proves the following for every value of the constants, from the named
assumptions of the module alone (constants are numbers and sets of the expected
kind). The inductive invariants are defined in the proof modules, and TLC has
checked each of them on the instance of the component's run, in an MC module
that extends the proof module instead of the model. A step lemma has a case for
each action, and what the helpers of the actions do is stated in lemmas of
their own.

`RunnerService`, from `RunnerAssumption`:

- `TypeCorrect`: `TypeOK` and `LockInv`;
- `SlotCorrect`, `RecordCorrect`, `LogCorrect`: `SingleOperation`,
  `RecordOfTask`, `LogOfRecord`;
- `SignalsCorrect`, `CancelCorrect`: `SignalsAreAimed`,
  `CancelledRunHasNoVerdict`;
- `SlotRefinement`: the service implements `OperationSlot`;
- `TerminalFinal`: `TerminalIsFinal`;
- `VerdictCorrect`, `NothingLeft`, `NoPhantom`, `NoLatePublication`:
  `VerdictOfProcess`, `NothingLeftBehind`, `NoPhantomOperation`,
  `NoPublicationAfterCancel`.

The inductive invariant has layers. `TypeOK` with `LockInv` (a request
past its acceptance holds the lock, and only such a request or the shutdown has
a container to stop) is inductive alone. `SlotInv` adds that the task is the
operation of the record (`TaskInv`), that nothing is known of an operation that
was not accepted (`FreshInv`) and that a result means a finished coroutine
(`ResultInv`): without the first, a start could leave two unfinished operations;
without the last, the writing of a terminal record could not be told from a
second one. `StopInv` adds that what a cancel aims at is still the operation of
the slot when `docker stop` returns (`AimInv`, the lock's whole purpose) and that
the flag stands as long as its operation runs (`CancelInv`), from which no
verdict follows. The refinement uses the first two layers: each step maps to one
step of the slot or to none. `ReportInv` rests on `ExitInv`: an operation past
its main leg has left an exited main process, and a container outlives its
process only where asyncio killed the process while it was starting, on the way
to an end without a result.

`EventStream`, from `SlotAssumption`:

- `MixedIsReset`: `MixedStreamIsReset`;
- `StatusComplete`: `StatusIsComplete`;
- `StreamInvariant`: the invariant behind them.

A follower that holds a log open past its replacement still reads the old file
(`handle.replaced`), and that file holds lines of one operation only; a label
never runs ahead of the record; and as long as no failed request has emptied the
current log, its offset counts exactly what it has sent (`ReaderInv`).

`SerialLink`, from `LinkAssumption`:

- `LinkTypes`: `LinkTypeOK`;
- `CommandsInOrder`: `BoardOrder`;
- `OnlyInStep`: `ReturnsInStep`;
- `OutputComplete`: `OutputIsComplete`;
- `OutputClean`: `OutputIsClean`.

The order needs to know why an agent left behind by an abandoned session cannot
write late: only one agent has the port, what it has still to write is larger
than anything that ran (`OrderInv`), and a session that has not yet opened the
port has submitted nothing, because until then it has one request or one
response under way (`SessionInv`). For `ReturnsInStep` the invariant `StepInv`
says what being out of step means: unless its own read is all that is under
way, nothing of its own command has been received, and nothing will be before
the answer to its own write, which no read accepts (`Unanswered`). So a link out
of step can only fail until it is closed, however many requests have timed out.

What a command returns is followed from the board through the port and the
answer under way to the console's buffer. `TextInv` adds to the above that only
the answer to a read holds data (`DataInv`), that nothing stems from a command
whose write the agent has not read (`FreshInv`), and that on a link in step what
the board prints of the command stays in order and, while the agent has the port
and can be heard, loses nothing from its front (`FlowInv`). So a text with the
command's exit marker has its output before it, once. For `OutputIsClean` the
invariant `SmoothInv` says what holds as long as no call has failed: no earlier
agent is left, one line is under way at most and it belongs to the call that is
waiting (`Turns`), the port and the board are silent between calls (`Quiet`), and
during a call they hold nothing of another (`Prompted`, `Own`). That they are
silent again when `execute()` returns rests on `FlowInv`: nothing of a command
follows its prompt.

`ConsoleLogin`, from `LoginAssumption`:

- `CommandsSafe`: `CommandsReachShell`;
- `RefusalsReal`: `RefusalIsReal`;
- `WaitsAreAnswered`: `AnswerUnderWay`.

Only a shell prints a prompt or echoes a line that quotes one, and nothing is
typed that only a shell may read before one was seen (`ShellInv`). For refusals,
`LoginInv` keeps the board one step behind the console as long as no login was
given up (`InStep`): a question is always the last thing printed. That a wait has
something to wait for is `WaitInv`: what the board prints ends in a marker, and as
long as the line typed last is not read, or once the board has answered it, that
line, or the prompt it is answered with, is the last thing under way; for a
command its exit marker was seen or is ahead of that prompt. It says nothing of
text that a lingering picocom took.

`StandSession`, from `StandAssumption`:

- `CallsSerialized`: `Serialized`;
- `ConnectionStaysOpen`: `OpenWhileUsed`;
- `AllClosed`: `NothingLeftOpen`;
- `WrongUntouched`: `WrongIsUntouched`;
- `SessionInvariant`: the invariant behind them.

`LockInv` says that a lock counts the call and the reservations of its owner,
`StandInv` that different devices of a stand are different physical devices,
`OpenInv` where in connect, rollback and close an open device is still to be
closed, `RightInv` what the files read so far have been checked for. That
`UniqueDevices` lists every device of the stand once, and that reading the files
in order finds any two that define one device, are facts about sequences of any
length; they are proved from a least counterexample (`LeastNatural`), since an
induction over data cannot be instantiated here.

`ScenarioOrder`, from `ScenarioAssumption`:

- `ScenarioRunsInOrder`: `RunsInOrder`;
- `GreenScenarioCameToAll`: `GreenCameToAll`;
- `ScenarioTypes`: `ScenarioTypeOK`.

A green session promises no more than that it came to every test that pytest's own
options left of its steps: a test that skips itself is green, and `-k` or `-m` may
take a whole step after the plugin has checked that each has a test.

The invariant `ScenarioInv` says what the plugin has arranged when pytest starts
to run tests, and that what has run is a beginning of what was left of it. The work is in the
operators: that `Group` lists the tests of one marker in the order of collection
(`GroupLists`), that flattening the groups runs through them one after another
(`FlattenSteps`), and that, no test having two of the markers, each position of
the result is one test of one step (`ArrangedSteps`). These hold for sequences of
any length. As the library's induction theorems cannot be instantiated, they are
proved by an induction over a set (`SetInduction`), which needs no operator as a
parameter.

`JwksCache`, from `JwksAssumption`:

- `JwksTypeCorrect`: `JwksTypeOK`;
- `StalenessBounded`: `BoundedStaleness`;
- `RefusalJustified`: `NoFalseRefusal`.

The invariant `FreshInv` says that a published key was last published now
(`PublicationInv`), that every cached key was published at the cache's own time
or later (`CacheInv`), and the same of an answer on its way (`AnswerInv`), so
that storing an older answer also stores its older time. A verification that has
refreshed and not found its key had it missing from an answer that was composed
after it began, which is `gap`.

`BrowserSession`, from `SessionAssumption` (which also says that "no expiry" is
not a number, and that a transaction lasts longer than no time: its cookie has
`max_age=600`) and `NoneAssumption` (an absent value is no cookie):

- `RolesFresh`: `RolesAreFresh`;
- `OneTabGetsIn`: `SomeTabGetsIn`.

The invariant `RolesInv` follows a set of roles from the token to the request: a
token, and every cookie of the Keycloak modes, wherever it is under way, expires
no later than one lifetime after the account last had what its roles allow
(`Young`, `Fresh`, `TabInv`). `HeldInv` makes it true of a token when it is issued
and, as `lastHeld` only grows, it stays true. That the cookies of these modes all
stem from tokens needs the password form to be unreachable there. A request that
is served was then allowed by something that had not expired.

`LoginInv` finds in every open round a login that is on course (`OnCourse`): it
will get the transaction cookie, has it, or has passed the check of it. A
redirect that overwrites the cookie of another tab puts its own tab on course,
and a cookie the browser drops had a transaction that was over before.

Only model-checked is liveness, since the prover has no fairness reasoning:
`StreamEnds`, `EveryOperationEnds`, `EveryCancelIsAnswered`, `DeviceReleased`,
`CallsReturn`, `DeviceIsFreed`, `SessionEnds`, `VerificationEnds` and
`OpenSettles`. Every invariant and every action property that a passing run
checks is a theorem.

## Findings

- `RunnerOverlap`: an exception in the read loop frees the slot while the test
  container still runs; the next run is accepted beside it.
- `StandRollback`: a `close()` that raises during the rollback of `connect()`
  leaves the devices connected before it open.
- `ConsolePrompt`: a read that ends inside the echo of `export PS1='...'` is taken
  for the prompt. `connect()` returns early, and the rest of the echo and the real
  prompt end up in the first command's stdout.

Smaller observations are in the models without a run of their own:

- the shutdown's own `docker stop` can end a run that is then recorded as
  `failed`, and not found unfinished by the next start (`ShutdownStops`, then
  `MainReturns`);
- a report path that cannot be resolved turns a completed run into
  `infrastructure_error` (`AfterRun`), although ADR 0002 says that an exit code
  once obtained is preserved; `VerdictOfProcess` does not speak of a verdict that
  is lost;
- a terminal record whose write raises is written again with another status, and
  if that raises as well the record stays active until the next start (`End`);
- two threads that nest `exclusive()` of two devices in opposite orders wait for
  each other and keep the fixture from closing the stand (`Entangled`);
- a skew that covers the life of a token from a provider whose clock is behind
  sends a user in a circle between `/` and `/login` (`PastButAccepted`);
- `connect()` over picocom may wait for ever for the test of the device
  (`"verify"`), although its other waits have deadlines;
- an empty `--marker-sequence` is taken for one that was not given (option kind
  `blank`), although `docs/ordered-test-runs.md` lists it as a usage error;
- signing out in a Keycloak mode awaits the provider's endpoints first; when they
  cannot be read the request fails and the session cookie stays (`Logout`).

## Not modelled

- `artifacts.py`, `docker_commands.py`, `settings.py`: listings, argument lists
  and validation of configuration; they keep no state, and what they refuse is
  refused before anything else happens.
- The fields of a device in `inventory/models.py` and the encoding and signature
  of cookies in `auth.py`: data that no property tells apart.
- The streams of a command in `transport/ssh.py`: `stdout` is read to its end
  before `stderr`, inside the SSH library's flow control. Whether that ends
  depends on the remote command; `StandSession` does not assume it does.
- The texts of results: JUnit summaries, report URLs, normalisation and echo
  removal; partial serial writes (a write that times out at `agent.py:105` may have
  sent some of its bytes); byte limits of the agent's protocol.
- Shell scripts, CI, the virtual stand and the reporting back ends.

## Plan

The response's text in `ConsoleLogin`, so that what a swallowed echo does to
stdout is a property and not only a remark.
