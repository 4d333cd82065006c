---------------------------- MODULE StandSession ----------------------------
(***************************************************************************)
(* The devices of a stand in one pytest session: the inventory is loaded,  *)
(* the factories build one device with a SynchronizedTransport for every   *)
(* physical device of the selected stand, the session-scoped fixture       *)
(* "stand" connects them, the tests use them, possibly from several        *)
(* threads, and the fixture closes them.  A SynchronizedTransport is one   *)
(* reentrant lock for connect, execute, close and the exclusive() context. *)
(***************************************************************************)
EXTENDS Naturals, Sequences, FiniteSets, SequencesExt

CONSTANTS
    Names,         \* identifiers of physical devices
    Inventories,   \* what the inventory files may say
    Main,          \* the thread that runs pytest
    Workers,       \* threads in which the tests use devices
    NoThread,      \* nobody holds a lock
    NoDevice,      \* a thread is in no transport, or waits for none
    MaxRoles,      \* bound: roles of a stand
    MaxNested      \* bound: exclusive() contexts of one thread on one device

Threads == Workers \cup {Main}

(* An inventory: the identifiers that each device file defines, in the     *)
(* order of device_files; whether the selected stand exists, the device of *)
(* each of its roles, and the devices that other stands refer to; and the  *)
(* devices whose credentials the settings have and whose type is known.    *)
Schema ==
    [files : Seq(SUBSET Names), known : BOOLEAN, roles : Seq(Names),
     others : SUBSET Names, credentials : SUBSET Names, types : SUBSET Names]

ASSUME StandAssumption ==
    /\ Main \notin Workers
    /\ NoThread \notin Threads
    /\ MaxRoles \in Nat
    /\ NoDevice \notin 1..MaxRoles
    /\ \A inv \in Inventories : inv \in Schema /\ Len(inv.roles) <= MaxRoles
    /\ MaxNested \in Nat

VARIABLES
    inventory,  \* what the files say
    stand,      \* the device of each role, as TestStand.devices has them
    phase,      \* where the session is
    pos,        \* the device the fixture is at
    connected,  \* connect()'s list of the devices connected so far
    conn,       \* per device: its connection
    holder,     \* per device: the thread that owns its lock
    depth,      \* per device: how often that thread has acquired it
    inside,     \* per thread: the device whose transport it is executing
    reserved,   \* per worker and device: the exclusive() contexts it is in
    wants,      \* per worker: the device whose lock it has asked for
    aborted     \* history: a close() raised while connect() rolled back

composed == <<inventory, stand>>
fixture == <<phase, pos, connected, aborted>>
locks == <<holder, depth, inside, reserved>>
vars == <<composed, fixture, conn, locks, wants>>

(* A device object is identified by the first role it was built for.       *)
Devices == 1..MaxRoles
Physical(d) == inventory.roles[d]

(* TestStand._unique_devices: each device once, in the order of its first  *)
(* role, which is the number of the device.                                *)
Increasing(u) == \A i, j \in DOMAIN u : i < j => u[i] < u[j]
UniqueDevices ==
    LET devices == ToSet(stand) IN
    CHOOSE u \in [1..Cardinality(devices) -> devices] : Increasing(u)

StandTypeOK ==
    /\ inventory \in Inventories
    /\ stand \in Seq(Devices)
    /\ phase \in {"loading", "creating", "connecting", "rollback", "running",
                  "closing", "over"}
    /\ pos \in 0..(MaxRoles + 1)
    /\ connected \in Seq(Devices)
    /\ conn \in [Devices -> {"closed", "open", "failed"}]
    /\ holder \in [Devices -> Threads \cup {NoThread}]
    /\ depth \in [Devices -> 0..(MaxNested + 1)]
    /\ inside \in [Threads -> Devices \cup {NoDevice}]
    /\ reserved \in [Workers -> [Devices -> 0..MaxNested]]
    /\ wants \in [Workers -> Devices \cup {NoDevice}]
    /\ aborted \in BOOLEAN

Init ==
    /\ inventory \in Inventories
    /\ stand = <<>>
    /\ phase = "loading"
    /\ pos = 1
    /\ connected = <<>>
    /\ conn = [d \in Devices |-> "closed"]
    /\ holder = [d \in Devices |-> NoThread]
    /\ depth = [d \in Devices |-> 0]
    /\ inside = [t \in Threads |-> NoDevice]
    /\ reserved = [t \in Workers |-> [d \in Devices |-> 0]]
    /\ wants = [t \in Workers |-> NoDevice]
    /\ aborted = FALSE

------------------------------------------------------------------------------
(* Loading and building.  Nothing is connected, so an error ends the       *)
(* session with nothing to undo.                                           *)

(* _load_inventory reads the device files one after the other; no two may  *)
(* define the same device.                                                 *)
(* Mutant: a file is compared with the one before it only.                 *)
MutantNeighbours(files) ==
    [ok |-> \A i \in DOMAIN files \ {1} : files[i] \cap files[i - 1] = {},
     devices |-> UNION ToSet(files)]
ReadFiles(files) ==
    [ok |-> \A i \in DOMAIN files :
               files[i] \cap UNION {files[j] : j \in 1..(i - 1)} = {},
     devices |-> UNION ToSet(files)]

(* Inventory.validate_device_references, for all stands.                   *)
ReferencesExist(devices) ==
    ToSet(inventory.roles) \cup inventory.others \subseteq devices

(* load_inventory; a file may also be unreadable, or not fit the schema.   *)
LoadInventory ==
    LET got == ReadFiles(inventory.files) IN
    /\ phase = "loading"
    /\ \/ got.ok /\ ReferencesExist(got.devices) /\ phase' = "creating"
       \/ phase' = "over"
    /\ UNCHANGED <<composed, pos, connected, conn, locks, wants, aborted>>

(* physical_devices in StandFactory.create: the device of a role is the    *)
(* one built for the first role of the same physical device.               *)
(* Mutant: every role has a device of its own.                             *)
MutantOwnDevice(i) == i
BuiltFor(i) ==
    CHOOSE j \in 1..i : /\ inventory.roles[j] = inventory.roles[i]
                        /\ \A k \in 1..(j - 1) : inventory.roles[k] # inventory.roles[i]

(* create_transport resolves the credentials, create_device the type.      *)
CreateTransport(n) == n \in inventory.credentials
CreateDevice(n) == n \in inventory.types

(* get_stand and StandFactory.create: an unknown stand, or a device that   *)
(* cannot be built, raises.                                                *)
CreateStand ==
    /\ phase = "creating"
    /\ IF /\ inventory.known
          /\ \A n \in ToSet(inventory.roles) : CreateTransport(n) /\ CreateDevice(n)
       THEN /\ stand' = [i \in 1..Len(inventory.roles) |-> BuiltFor(i)]
            /\ phase' = IF inventory.roles = <<>> THEN "running" ELSE "connecting"
       ELSE /\ phase' = "over"
            /\ UNCHANGED stand
    /\ UNCHANGED <<inventory, pos, connected, conn, locks, wants, aborted>>

------------------------------------------------------------------------------
(* The reentrant lock.                                                     *)

(* Mutant: the lock is not taken. *)
MutantNoLock(t, d) == UNCHANGED <<holder, depth>>
Acquire(t, d) ==
    /\ holder[d] \in {NoThread, t}
    /\ holder' = [holder EXCEPT ![d] = t]
    /\ depth' = [depth EXCEPT ![d] = @ + 1]

Release(t, d) ==
    /\ depth' = [depth EXCEPT ![d] = @ - 1]
    /\ holder' = [holder EXCEPT ![d] = IF depth[d] = 1 THEN NoThread ELSE t]

Enter(t, d) == Acquire(t, d) /\ inside' = [inside EXCEPT ![t] = d]
Leave(t, d) == Release(t, d) /\ inside' = [inside EXCEPT ![t] = NoDevice]

(* The transport under the lock, as SSHTransport has it: it is connected   *)
(* while it has a client, which is there once the library has connected    *)
(* and is dropped after the library has closed it; a close() that raises   *)
(* keeps it.                                                               *)
Open(d) == conn' = [conn EXCEPT ![d] = "open"]
Shut(d) == conn' = [conn EXCEPT ![d] = "closed"]
ShutRaises(d) == conn' = [conn EXCEPT ![d] = "failed"]

------------------------------------------------------------------------------
(* The fixture, in the main thread: which device it is about to connect or *)
(* close, and what it does when that call returns or raises.               *)

Target ==
    CASE phase = "connecting" /\ pos \in 1..Len(UniqueDevices) -> UniqueDevices[pos]
      [] phase = "closing" /\ pos \in 1..Len(UniqueDevices) -> UniqueDevices[pos]
      [] phase = "rollback" /\ pos \in 1..Len(connected) -> connected[pos]
      [] OTHER -> NoDevice

CallDevice ==
    /\ inside[Main] = NoDevice
    /\ Target # NoDevice
    /\ Enter(Main, Target)
    /\ UNCHANGED <<composed, fixture, conn, reserved, wants>>

(* TestStand.connect: device.connect() returns, or raises and the devices  *)
(* connected before are closed in reverse order.                           *)
Connected ==
    /\ phase = "connecting" /\ inside[Main] # NoDevice
    /\ Leave(Main, Target)
    /\ \/ /\ Open(Target)
          /\ connected' = Append(connected, Target)
          /\ pos' = pos + 1
          /\ phase' = IF pos = Len(UniqueDevices) THEN "running" ELSE phase
       \/ /\ phase' = "rollback"
          /\ pos' = Len(connected)
          /\ UNCHANGED <<conn, connected>>
    /\ UNCHANGED <<composed, reserved, wants, aborted>>

(* A close() that raises ends the rollback. *)
RolledBack ==
    /\ phase = "rollback" /\ inside[Main] # NoDevice
    /\ Leave(Main, Target)
    /\ \/ /\ Shut(Target)
          /\ pos' = pos - 1
          /\ UNCHANGED <<phase, aborted>>
       \/ /\ ShutRaises(Target)
          /\ phase' = "over"
          /\ aborted' = TRUE
          /\ UNCHANGED pos
    /\ UNCHANGED <<composed, connected, reserved, wants>>

(* The tests are over, whatever their threads still do. *)
TearDown ==
    /\ phase = "running"
    /\ phase' = "closing"
    /\ pos' = Len(UniqueDevices)
    /\ UNCHANGED <<composed, connected, conn, locks, wants, aborted>>

(* TestStand.close: every device in reverse order, also after one raised.  *)
(* Mutant: the first exception ends the loop.                              *)
MutantClosed ==
    /\ phase = "closing" /\ inside[Main] # NoDevice
    /\ Leave(Main, Target)
    /\ \/ Shut(Target) /\ pos' = pos - 1
       \/ ShutRaises(Target) /\ pos' = 0
    /\ UNCHANGED <<composed, phase, connected, reserved, wants, aborted>>
Closed ==
    /\ phase = "closing" /\ inside[Main] # NoDevice
    /\ Leave(Main, Target)
    /\ Shut(Target) \/ ShutRaises(Target)
    /\ pos' = pos - 1
    /\ UNCHANGED <<composed, phase, connected, reserved, wants, aborted>>

Ended ==
    /\ phase \in {"rollback", "closing"} /\ pos = 0
    /\ phase' = "over"
    /\ UNCHANGED <<composed, pos, connected, conn, locks, wants, aborted>>

------------------------------------------------------------------------------
(* The threads of the tests.  A thread may be in exclusive() contexts of   *)
(* any devices, several times in each, when it calls execute() or enters   *)
(* the next one; it then waits for the lock and does nothing else.         *)

Idle(t) == inside[t] = NoDevice /\ wants[t] = NoDevice

Ask(t, d) ==
    /\ phase \in {"running", "closing", "over"}
    /\ Idle(t)
    /\ wants' = [wants EXCEPT ![t] = d]
    /\ UNCHANGED <<composed, fixture, conn, locks>>

Served(t) == wants' = [wants EXCEPT ![t] = NoDevice]

(* execute() has the lock. *)
Execute(t) ==
    /\ wants[t] # NoDevice /\ conn[wants[t]] = "open"
    /\ Enter(t, wants[t])
    /\ Served(t)
    /\ UNCHANGED <<composed, fixture, conn, reserved>>

(* On a connection that is not open it raises, and the lock is given back. *)
(* Mutant: acquire() and release() instead of with; it keeps the lock.     *)
MutantNoExecute(t) ==
    /\ wants[t] # NoDevice /\ conn[wants[t]] # "open"
    /\ holder[wants[t]] \in {NoThread, t}
    /\ holder' = [holder EXCEPT ![wants[t]] = t]
    /\ Served(t)
    /\ UNCHANGED <<composed, fixture, conn, depth, inside, reserved>>
NoExecute(t) ==
    /\ wants[t] # NoDevice /\ conn[wants[t]] # "open"
    /\ holder[wants[t]] \in {NoThread, t}
    /\ Served(t)
    /\ UNCHANGED <<composed, fixture, conn, locks>>

Executed(t) ==
    /\ inside[t] # NoDevice
    /\ Leave(t, inside[t])
    /\ UNCHANGED <<composed, fixture, conn, reserved, wants>>

(* with device.exclusive_connection(): *)
Reserve(t) ==
    /\ wants[t] # NoDevice /\ reserved[t][wants[t]] < MaxNested
    /\ Acquire(t, wants[t])
    /\ reserved' = [reserved EXCEPT ![t][wants[t]] = @ + 1]
    /\ Served(t)
    /\ UNCHANGED <<composed, fixture, conn, inside>>

Unreserve(t, d) ==
    /\ Idle(t) /\ reserved[t][d] > 0
    /\ Release(t, d)
    /\ reserved' = [reserved EXCEPT ![t][d] = @ - 1]
    /\ UNCHANGED <<composed, fixture, conn, inside, wants>>

------------------------------------------------------------------------------

FixtureStep ==
    LoadInventory \/ CreateStand \/ CallDevice \/ Connected \/ RolledBack \/ TearDown \/ Closed \/ Ended

Granted(t) == Execute(t) \/ NoExecute(t) \/ Reserve(t)
Leaves(t) == \E d \in ToSet(stand) : Unreserve(t, d)

WorkerStep(t) ==
    \/ \E d \in ToSet(stand) : Ask(t, d)
    \/ Granted(t) \/ Executed(t) \/ Leaves(t)

Next == FixtureStep \/ \E t \in Workers : WorkerStep(t)

(* The fixture goes on between its calls, the tests end, a lock that is    *)
(* and stays free is given to a thread that waits for it, and a thread     *)
(* that makes no more calls leaves the contexts it is in.  That a call     *)
(* returns is not assumed (recv_exit_status() has no timeout), nor that a  *)
(* lock which others take again and again is ever given to one that waits. *)
FixtureGoesOn == FixtureStep /\ inside[Main] = NoDevice
Spec ==
    /\ Init
    /\ [][Next]_vars
    /\ WF_vars(FixtureGoesOn)
    /\ \A t \in Workers : WF_vars(Granted(t)) /\ WF_vars(Leaves(t))

------------------------------------------------------------------------------
(* Properties.                                                             *)

(* A physical device, whatever its roles, executes one call at a time, and *)
(* none of another thread while a thread has it reserved, through any      *)
(* nesting of the lock.                                                    *)
Serialized ==
    \A t, u \in Threads : t # u /\ inside[t] # NoDevice =>
        /\ inside[u] # NoDevice => Physical(inside[u]) # Physical(inside[t])
        /\ u \in Workers => \A d \in Devices :
              reserved[u][d] > 0 => Physical(d) # Physical(inside[t])

(* "cannot be closed by another thread while a command is using that       *)
(* transport instance": the connection of a command stays open under it.   *)
OpenWhileUsed ==
    \A t \in Workers : inside[t] # NoDevice => conn[inside[t]] = "open"

(* When the fixture is over no connection was left open, although any      *)
(* close() may raise and background threads may still hold locks; the one  *)
(* exception is a close() that raises in a rollback.                       *)
NothingLeftOpen ==
    phase = "over" /\ ~aborted => \A d \in Devices : conn[d] # "open"

(* Threads of the tests that wait for each other: each is in exclusive()   *)
(* of a device that another one of them wants.                             *)
Entangled ==
    \E S \in SUBSET Workers \ {{}} : \A t \in S :
        wants[t] # NoDevice /\ holder[wants[t]] \in S \ {t}

(* The fixture ends, although it waits for every lock.  Only three things  *)
(* keep it from that: a transport whose call never returns, threads of the *)
(* tests that are entangled for ever, and one that goes on calling without *)
(* end.  It never comes to wait for itself, and no error, of any transport *)
(* or thread, leaves a lock behind.                                        *)
SessionEnds ==
    \/ <>(phase = "over")
    \/ <>[]Entangled
    \/ \E t \in Threads : <>[](inside[t] # NoDevice)
    \/ \E t \in Workers : []<><<wants'[t] # wants[t]>>_vars

(* No device is touched in the name of an inventory that is wrong anywhere *)
(* (loader.py:69, models.py:172, transport.py:92): two files define one    *)
(* device, any stand refers to a device that no file defines, or a role of *)
(* this one, be it the last, cannot be built.                              *)
Wrong(inv) ==
    \/ \E i, j \in DOMAIN inv.files : i # j /\ inv.files[i] \cap inv.files[j] # {}
    \/ \E n \in inv.others \cup ToSet(inv.roles) :
          \A i \in DOMAIN inv.files : n \notin inv.files[i]
    \/ ~inv.known
    \/ ~(ToSet(inv.roles) \subseteq inv.credentials \cap inv.types)
WrongIsUntouched ==
    Wrong(inventory) =>
        inside[Main] = NoDevice /\ \A d \in Devices : conn[d] = "closed"

(* "Connect the selected stand and always close all connections            *)
(* afterward".                                                             *)
AlwaysClosed == phase = "over" => \A d \in Devices : conn[d] # "open"
==============================================================================
