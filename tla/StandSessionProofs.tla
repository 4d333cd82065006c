------------------------- MODULE StandSessionProofs -------------------------
(***************************************************************************)
(* Proofs about StandSession, for every inventory, number of roles and     *)
(* number of threads: the locks, what is closed when, and that a wrong     *)
(* inventory touches no device.                                            *)
(***************************************************************************)
EXTENDS StandSession, FiniteSetTheorems, SequenceTheorems, TLAPS

(* The parts that make the invariants of StandSession inductive.           *)

(* A lock counts the call and the reservations of the thread that owns it. *)
Reserves(t, d) == IF t \in Workers THEN reserved[t][d] ELSE 0
Count(b) == IF b THEN 1 ELSE 0
LockInv ==
    \A d \in Devices :
        /\ holder[d] = NoThread <=> depth[d] = 0
        /\ \A t \in Threads :
              /\ inside[t] = d \/ Reserves(t, d) > 0 => holder[d] = t
              /\ holder[d] = t => depth[d] = Count(inside[t] = d) + Reserves(t, d)

(* The main thread is in the transport that the fixture has called;        *)
(* everybody uses devices of the stand, and no two of these are one        *)
(* physical device.                                                        *)
StandInv ==
    /\ inside[Main] # NoDevice => inside[Main] = Target
    /\ \A t \in Threads : inside[t] \in ToSet(stand) \cup {NoDevice}
    /\ \A t \in Workers : wants[t] \in ToSet(stand) \cup {NoDevice}
    /\ \A t \in Workers : wants[t] # NoDevice => inside[t] = NoDevice
    /\ \A t \in Workers, d \in Devices : reserved[t][d] > 0 => d \in ToSet(stand)
    /\ \A i \in 1..Len(connected) : connected[i] \in ToSet(UniqueDevices)
    /\ phase \in {"loading", "creating"} => stand = <<>> /\ connected = <<>>
    /\ \A d, e \in ToSet(stand) : Physical(d) = Physical(e) => d = e

(* What is open is still to be closed.                                     *)
OpenInv ==
    \A d \in Devices : conn[d] = "open" =>
        /\ phase \notin {"loading", "creating"}
        /\ phase = "connecting" => d \in ToSet(connected)
        /\ phase = "rollback" => \E i \in 1..pos : i <= Len(connected) /\ connected[i] = d
        /\ phase = "running" => d \in ToSet(UniqueDevices)
        /\ phase = "closing" =>
              \E i \in 1..pos : i <= Len(UniqueDevices) /\ UniqueDevices[i] = d
        /\ phase = "over" => aborted

(* What has been found right so far.                                       *)
RightInv ==
    /\ phase = "creating" =>
          /\ ReadFiles(inventory.files).ok
          /\ ReferencesExist(ReadFiles(inventory.files).devices)
    /\ phase \in {"connecting", "rollback", "running", "closing"} => ~Wrong(inventory)

------------------------------------------------------------------------------
(* Lists of devices.                                                       *)

(* A set of natural numbers has a least element. *)
LEMMA LeastNatural ==
  ASSUME NEW S \in SUBSET Nat, S # {}
  PROVE  \E m \in S : \A n \in S : m <= n
<1> DEFINE Less == OpToRel(<, Nat)
<1>1. \A m, n \in Nat : n < m => <<n, m>> \in Less
  <2> SUFFICES ASSUME NEW m \in Nat, NEW n \in Nat, n < m PROVE <<n, m>> \in Less
    OBVIOUS
  <2>1. <<n, m>> \in Nat \X Nat /\ <<n, m>>[1] = n /\ <<n, m>>[2] = m
    OBVIOUS
  <2> QED BY <2>1, Zenon DEF OpToRel
<1>2. IsWellFoundedOn(Less, Nat)
  BY NatLessThanWellFounded
<1> HIDE DEF Less
<1>3. \E m \in S : \A n \in S : ~(<<n, m>> \in Less)
  BY <1>2, WFMin
<1>4. PICK m \in S : \A n \in S : ~(<<n, m>> \in Less)
  BY <1>3
<1>5. ASSUME NEW n \in S PROVE m <= n
  <2>1. m \in Nat /\ n \in Nat
    OBVIOUS
  <2>2. ~(n < m)
    BY <1>1, <1>4, <2>1, Zenon
  <2> QED BY <2>1, <2>2
<1> QED BY <1>5

(* The devices of a stand can be listed in increasing order: by induction  *)
(* on the largest of them, as the absence of a least counterexample.       *)
Listable(n) ==
    \A S \in SUBSET (1..n) : \E u \in [1..Cardinality(S) -> S] : Increasing(u)

LEMMA EveryBoundListable == \A n \in Nat : Listable(n)
<1> DEFINE Bad == {n \in Nat : ~Listable(n)}
<1> SUFFICES ASSUME Bad # {} PROVE FALSE
  OBVIOUS
<1>1. PICK n \in Bad : \A m \in Bad : n <= m
  BY LeastNatural
<1>2. n \in Nat /\ ~Listable(n)
  OBVIOUS
<1>3. PICK S \in SUBSET (1..n) : ~\E u \in [1..Cardinality(S) -> S] : Increasing(u)
  BY <1>2 DEF Listable
<1>4. IsFiniteSet(S)
  <2>1. IsFiniteSet(1..n)
    BY <1>2, FS_Interval
  <2> QED BY <1>3, <2>1, FS_Subset
<1>5. CASE S = {}
  <2>1. Cardinality(S) = 0
    BY <1>5, FS_EmptySet
  <2>2. [i \in 1..0 |-> i] \in [1..Cardinality(S) -> S] /\ Increasing([i \in 1..0 |-> i])
    BY <2>1 DEF Increasing
  <2> QED BY <1>3, <2>2
<1>6. CASE S # {} /\ n \notin S
  <2>1. n - 1 \in Nat /\ S \in SUBSET (1..(n - 1))
    <3>1. PICK x \in S : x \in 1..n
      BY <1>3, <1>6
    <3>2. \A y \in S : y \in 1..n /\ y # n
      BY <1>3, <1>6
    <3> QED BY <1>2, <3>1, <3>2
  <2>2. Listable(n - 1)
    BY <1>1, <1>2, <2>1
  <2> QED BY <1>3, <2>1, <2>2 DEF Listable
<1>7. CASE n \in S
  <2> DEFINE R == S \ {n}
             k == Cardinality(R)
  <2>1. n - 1 \in Nat /\ R \in SUBSET (1..(n - 1))
    BY <1>2, <1>3, <1>7
  <2>2. Listable(n - 1)
    BY <1>1, <1>2, <2>1
  <2>3. PICK u \in [1..k -> R] : Increasing(u)
    BY <2>1, <2>2 DEF Listable
  <2>4. k \in Nat /\ Cardinality(S) = k + 1
    <3>1. IsFiniteSet(R) /\ Cardinality(R) = Cardinality(S) - 1
      BY <1>4, <1>7, FS_RemoveElement
    <3>2. Cardinality(R) \in Nat /\ Cardinality(S) \in Nat
      BY <1>4, <3>1, FS_CardinalityType
    <3> QED BY <3>1, <3>2
  <2> DEFINE v == [i \in 1..(k + 1) |-> IF i = k + 1 THEN n ELSE u[i]]
  <2> HIDE DEF k
  <2>5. \A i \in 1..k : u[i] \in R /\ u[i] \in 1..(n - 1)
    BY <2>1, <2>3
  <2>6. v \in [1..Cardinality(S) -> S]
    BY <1>7, <2>4, <2>5
  <2>7. Increasing(v)
    <3> SUFFICES ASSUME NEW i \in 1..(k + 1), NEW j \in 1..(k + 1), i < j
                 PROVE  v[i] < v[j]
      BY DEF Increasing
    <3>1. i \in 1..k /\ v[i] = u[i]
      BY <2>4
    <3>2. CASE j = k + 1
      BY <1>2, <2>5, <3>1, <3>2
    <3>3. CASE j # k + 1
      <4>1. j \in 1..k /\ v[j] = u[j]
        BY <2>4, <3>3
      <4> QED BY <2>3, <3>1, <4>1 DEF Increasing
    <3> QED BY <3>2, <3>3
  <2> QED BY <1>3, <2>6, <2>7
<1> QED BY <1>5, <1>6, <1>7

(* _unique_devices is a list of the devices of the stand. *)
LEMMA UniqueList ==
  ASSUME stand \in Seq(Devices)
  PROVE  /\ UniqueDevices \in Seq(Devices)
         /\ Increasing(UniqueDevices)
         /\ \A i \in 1..Len(UniqueDevices) : UniqueDevices[i] \in ToSet(stand)
<1> DEFINE S == ToSet(stand)
<1>1. S \in SUBSET (1..MaxRoles)
  <2>1. \A i \in 1..Len(stand) : stand[i] \in 1..MaxRoles
    BY ElementOfSeq DEF Devices
  <2>2. DOMAIN stand = 1..Len(stand)
    OBVIOUS
  <2> QED BY <2>1, <2>2 DEF ToSet
<1>2. \E u \in [1..Cardinality(S) -> S] : Increasing(u)
  BY <1>1, EveryBoundListable, StandAssumption DEF Listable, StandAssumption
<1>3. UniqueDevices \in [1..Cardinality(S) -> S] /\ Increasing(UniqueDevices)
  BY <1>2 DEF UniqueDevices
<1>4. Cardinality(S) \in Nat
  <2>1. IsFiniteSet(S)
    <3>1. IsFiniteSet(1..MaxRoles)
      BY FS_Interval, StandAssumption DEF StandAssumption
    <3> QED BY <1>1, <3>1, FS_Subset
  <2> QED BY <2>1, FS_CardinalityType
<1> HIDE DEF S
<1>5. S \subseteq Devices
  BY <1>1 DEF Devices
<1>6. UniqueDevices \in Seq(Devices) /\ Len(UniqueDevices) = Cardinality(S)
  BY <1>3, <1>4, <1>5
<1>7. \A i \in 1..Len(UniqueDevices) : UniqueDevices[i] \in S
  BY <1>3, <1>6
<1> QED BY <1>3, <1>6, <1>7 DEF S

(* The device of a role is the one of the first role with its name. *)
LEMMA BuiltForFirst ==
  ASSUME inventory.roles \in Seq(Names), NEW i \in 1..Len(inventory.roles)
  PROVE  /\ BuiltFor(i) \in 1..i
         /\ inventory.roles[BuiltFor(i)] = inventory.roles[i]
         /\ \A k \in 1..(BuiltFor(i) - 1) : inventory.roles[k] # inventory.roles[i]
<1> DEFINE S == {j \in 1..i : inventory.roles[j] = inventory.roles[i]}
<1>1. S \in SUBSET Nat /\ i \in S
  OBVIOUS
<1>2. PICK m \in S : \A n \in S : m <= n
  BY <1>1, LeastNatural
<1>3. /\ m \in 1..i /\ inventory.roles[m] = inventory.roles[i]
      /\ \A k \in 1..(m - 1) : inventory.roles[k] # inventory.roles[i]
  BY <1>2
<1> QED BY <1>3 DEF BuiltFor

------------------------------------------------------------------------------
(* The shape of the state, and the reentrant locks.                        *)

Shape ==
    /\ inventory \in Inventories
    /\ stand \in Seq(Devices)
    /\ phase \in {"loading", "creating", "connecting", "rollback", "running",
                  "closing", "over"}
    /\ pos \in Nat
    /\ connected \in Seq(Devices)
    /\ conn \in [Devices -> {"closed", "open", "failed"}]
    /\ holder \in [Devices -> Threads \cup {NoThread}]
    /\ depth \in [Devices -> Nat]
    /\ inside \in [Threads -> Devices \cup {NoDevice}]
    /\ reserved \in [Workers -> [Devices -> Nat]]
    /\ wants \in [Workers -> Devices \cup {NoDevice}]

(* The part of the shape that the locks keep. *)
LockShape ==
    /\ holder \in [Devices -> Threads \cup {NoThread}]
    /\ depth \in [Devices -> Nat]
    /\ inside \in [Threads -> Devices \cup {NoDevice}]
    /\ reserved \in [Workers -> [Devices -> Nat]]

LEMMA NoDeviceFact == NoDevice \notin Devices /\ NoThread \notin Threads /\ Main \notin Workers
                      /\ Main \in Threads /\ Workers \subseteq Threads
  BY StandAssumption DEF StandAssumption, Devices, Threads

(* The call of a transport takes its lock once more. *)
LEMMA EnterLock ==
  ASSUME LockShape, LockInv, NEW t \in Threads, NEW d \in Devices,
         inside[t] = NoDevice, Enter(t, d), UNCHANGED reserved
  PROVE  LockShape' /\ LockInv'
<1> USE NoDeviceFact DEF Enter, Acquire
<1>1. LockShape'
  BY DEF LockShape
<1>2. /\ holder'[d] = t /\ depth'[d] = depth[d] + 1 /\ inside'[t] = d
      /\ \A e \in Devices : e # d => holder'[e] = holder[e] /\ depth'[e] = depth[e]
      /\ \A u \in Threads : u # t => inside'[u] = inside[u]
  BY DEF LockShape
<1>3. ASSUME NEW e \in Devices
      PROVE  /\ holder'[e] = NoThread <=> depth'[e] = 0
             /\ \A u \in Threads :
                   /\ inside'[u] = e \/ Reserves(u, e)' > 0 => holder'[e] = u
                   /\ holder'[e] = u => depth'[e] = Count(inside'[u] = e) + Reserves(u, e)'
  <2>1. CASE e # d
    BY <1>2, <2>1 DEF LockInv, Reserves, LockShape
  <2>2. CASE e = d
    <3>1. \A u \in Threads : u # t => ~(inside[u] = d \/ Reserves(u, d) > 0)
      BY DEF LockInv
    <3>2. \A u \in Threads : Reserves(u, d)' = Reserves(u, d) /\ Reserves(u, d) \in Nat
      BY DEF Reserves, LockShape
    <3>3. depth[d] = Reserves(t, d)
      BY <3>2 DEF LockInv, Count, LockShape
    <3> QED BY <1>2, <2>2, <3>1, <3>2, <3>3 DEF Count
  <2> QED BY <2>1, <2>2
<1> QED BY <1>1, <1>3 DEF LockInv

(* The return from a transport releases its lock once. *)
LEMMA LeaveLock ==
  ASSUME LockShape, LockInv, NEW t \in Threads, NEW d \in Devices,
         inside[t] = d, Leave(t, d), UNCHANGED reserved
  PROVE  LockShape' /\ LockInv'
<1> USE NoDeviceFact DEF Leave, Release
<1>0. /\ holder[d] = t /\ depth[d] = 1 + Reserves(t, d) /\ depth[d] \in Nat \ {0}
      /\ \A u \in Threads : Reserves(u, d) \in Nat
      /\ \A u \in Threads : u # t => ~(inside[u] = d \/ Reserves(u, d) > 0)
  BY DEF LockInv, Count, LockShape, Reserves
<1>1. LockShape'
  BY <1>0 DEF LockShape
<1>2. /\ holder'[d] = (IF depth[d] = 1 THEN NoThread ELSE t)
      /\ depth'[d] = depth[d] - 1 /\ inside'[t] = NoDevice
      /\ \A e \in Devices : e # d => holder'[e] = holder[e] /\ depth'[e] = depth[e]
      /\ \A u \in Threads : u # t => inside'[u] = inside[u]
  BY DEF LockShape
<1>3. ASSUME NEW e \in Devices
      PROVE  /\ holder'[e] = NoThread <=> depth'[e] = 0
             /\ \A u \in Threads :
                   /\ inside'[u] = e \/ Reserves(u, e)' > 0 => holder'[e] = u
                   /\ holder'[e] = u => depth'[e] = Count(inside'[u] = e) + Reserves(u, e)'
  <2>1. CASE e # d
    BY <1>2, <2>1 DEF LockInv, Reserves, LockShape
  <2>2. CASE e = d
    <3>1. \A u \in Threads : Reserves(u, d)' = Reserves(u, d)
      BY DEF Reserves
    <3> QED BY <1>0, <1>2, <2>2, <3>1 DEF Count
  <2> QED BY <2>1, <2>2
<1> QED BY <1>1, <1>3 DEF LockInv

(* What the contexts of a thread count for after one more or one less.     *)
LEMMA ReservesNext ==
  ASSUME LockShape, NEW t \in Workers, NEW d \in Devices, NEW n,
         reserved' = [reserved EXCEPT ![t][d] = n]
  PROVE  /\ Reserves(t, d)' = n
         /\ \A u \in Threads, e \in Devices :
               u # t \/ e # d => Reserves(u, e)' = Reserves(u, e)
         /\ \A u \in Threads, e \in Devices : Reserves(u, e) \in Nat
  BY NoDeviceFact DEF LockShape, Reserves

(* with device.exclusive_connection(): the lock of a thread that is in no  *)
(* transport, once more.                                                   *)
LEMMA ReserveLock ==
  ASSUME LockShape, LockInv, NEW t \in Workers, NEW d \in Devices,
         inside[t] = NoDevice, Acquire(t, d),
         reserved' = [reserved EXCEPT ![t][d] = @ + 1], UNCHANGED inside
  PROVE  LockShape' /\ LockInv'
<1> USE NoDeviceFact DEF Acquire
<1>0. /\ t \in Threads /\ depth[d] = Reserves(t, d) /\ Reserves(t, d) \in Nat
      /\ Reserves(t, d) = reserved[t][d]
      /\ \A u \in Threads : u # t => ~(inside[u] = d \/ Reserves(u, d) > 0)
  BY DEF LockInv, Count, LockShape, Reserves
<1>1. LockShape'
  BY <1>0 DEF LockShape
<1>2. /\ holder'[d] = t /\ depth'[d] = depth[d] + 1
      /\ \A e \in Devices : e # d => holder'[e] = holder[e] /\ depth'[e] = depth[e]
  BY <1>0 DEF LockShape
<1>3. /\ Reserves(t, d)' = Reserves(t, d) + 1
      /\ \A u \in Threads, e \in Devices :
            u # t \/ e # d => Reserves(u, e)' = Reserves(u, e)
      /\ \A u \in Threads, e \in Devices : Reserves(u, e) \in Nat
  BY <1>0, ReservesNext
<1>4. ASSUME NEW e \in Devices
      PROVE  /\ holder'[e] = NoThread <=> depth'[e] = 0
             /\ \A u \in Threads :
                   /\ inside'[u] = e \/ Reserves(u, e)' > 0 => holder'[e] = u
                   /\ holder'[e] = u => depth'[e] = Count(inside'[u] = e) + Reserves(u, e)'
  <2>1. CASE e # d
    BY <1>2, <1>3, <2>1 DEF LockInv, Count
  <2>2. CASE e = d
    BY <1>0, <1>2, <1>3, <2>2 DEF Count
  <2> QED BY <2>1, <2>2
<1> QED BY <1>1, <1>4 DEF LockInv

(* The end of such a context. *)
LEMMA UnreserveLock ==
  ASSUME LockShape, LockInv, NEW t \in Workers, NEW d \in Devices,
         inside[t] = NoDevice, reserved[t][d] > 0, Release(t, d),
         reserved' = [reserved EXCEPT ![t][d] = @ - 1], UNCHANGED inside
  PROVE  LockShape' /\ LockInv'
<1> USE NoDeviceFact DEF Release
<1>0. /\ t \in Threads /\ holder[d] = t /\ depth[d] = Reserves(t, d)
      /\ Reserves(t, d) \in Nat \ {0} /\ Reserves(t, d) = reserved[t][d]
      /\ \A u \in Threads : u # t => ~(inside[u] = d \/ Reserves(u, d) > 0)
  BY DEF LockInv, Count, LockShape, Reserves
<1>1. LockShape'
  BY <1>0 DEF LockShape
<1>2. /\ holder'[d] = (IF depth[d] = 1 THEN NoThread ELSE t)
      /\ depth'[d] = depth[d] - 1
      /\ \A e \in Devices : e # d => holder'[e] = holder[e] /\ depth'[e] = depth[e]
  BY <1>0 DEF LockShape
<1>3. /\ Reserves(t, d)' = Reserves(t, d) - 1
      /\ \A u \in Threads, e \in Devices :
            u # t \/ e # d => Reserves(u, e)' = Reserves(u, e)
      /\ \A u \in Threads, e \in Devices : Reserves(u, e) \in Nat
  BY <1>0, ReservesNext
<1>4. ASSUME NEW e \in Devices
      PROVE  /\ holder'[e] = NoThread <=> depth'[e] = 0
             /\ \A u \in Threads :
                   /\ inside'[u] = e \/ Reserves(u, e)' > 0 => holder'[e] = u
                   /\ holder'[e] = u => depth'[e] = Count(inside'[u] = e) + Reserves(u, e)'
  <2>1. CASE e # d
    BY <1>2, <1>3, <2>1 DEF LockInv, Count
  <2>2. CASE e = d
    BY <1>0, <1>2, <1>3, <2>2 DEF Count
  <2> QED BY <2>1, <2>2
<1> QED BY <1>1, <1>4 DEF LockInv

------------------------------------------------------------------------------
(* The device the fixture is at.                                           *)

(* The elements of a list. *)
LEMMA InList ==
  ASSUME NEW S, NEW s \in Seq(S), NEW x
  PROVE  x \in ToSet(s) <=> \E i \in 1..Len(s) : s[i] = x
<1>1. DOMAIN s = 1..Len(s)
  OBVIOUS
<1> QED BY <1>1 DEF ToSet

(* Only devices of the stand are listed. *)
LEMMA Listed ==
  ASSUME Shape
  PROVE  /\ UniqueDevices \in Seq(Devices) /\ Len(UniqueDevices) \in Nat
         /\ ToSet(UniqueDevices) \subseteq ToSet(stand)
         /\ ToSet(stand) \subseteq Devices
<1>1. UniqueDevices \in Seq(Devices) /\ Len(UniqueDevices) \in Nat
  BY UniqueList DEF Shape
<1>2. ToSet(UniqueDevices) \subseteq ToSet(stand)
  <2>1. \A i \in 1..Len(UniqueDevices) : UniqueDevices[i] \in ToSet(stand)
    BY UniqueList DEF Shape
  <2>2. \A x : x \in ToSet(UniqueDevices) <=> \E i \in 1..Len(UniqueDevices) : UniqueDevices[i] = x
    BY <1>1, InList, Zenon
  <2> QED BY <2>1, <2>2
<1>3. \A i \in 1..Len(stand) : stand[i] \in Devices
  BY ElementOfSeq DEF Shape
<1>4. ToSet(stand) \subseteq Devices
  <2>1. stand \in Seq(Devices)
    BY DEF Shape
  <2>2. \A x : x \in ToSet(stand) <=> \E i \in 1..Len(stand) : stand[i] = x
    BY <2>1, InList, Zenon
  <2> QED BY <1>3, <2>2
<1> QED BY <1>1, <1>2, <1>4

(* The target of a call is on the list, at the position of the fixture. *)
AtTarget ==
    /\ Target \in Devices /\ Target \in ToSet(UniqueDevices) /\ Target \in ToSet(stand)
    /\ pos \in Nat \ {0}
    /\ \/ /\ phase \in {"connecting", "closing"}
          /\ pos <= Len(UniqueDevices) /\ Target = UniqueDevices[pos]
       \/ /\ phase = "rollback"
          /\ pos <= Len(connected) /\ Target = connected[pos]

LEMMA TargetFacts ==
  ASSUME Shape, StandInv
  PROVE  Target # NoDevice => AtTarget
<1> SUFFICES ASSUME Target # NoDevice PROVE AtTarget
  OBVIOUS
<1>1. \/ /\ phase \in {"connecting", "closing"}
         /\ pos \in 1..Len(UniqueDevices) /\ Target = UniqueDevices[pos]
      \/ /\ phase = "rollback"
         /\ pos \in 1..Len(connected) /\ Target = connected[pos]
  BY DEF Target
<1>2. Target \in ToSet(UniqueDevices)
  BY <1>1, Listed, InList DEF StandInv
<1>3. Target \in ToSet(stand) /\ Target \in Devices
  BY <1>2, Listed
<1>4. Len(UniqueDevices) \in Nat /\ Len(connected) \in Nat
  BY Listed DEF Shape
<1> QED BY <1>1, <1>2, <1>3, <1>4 DEF AtTarget

------------------------------------------------------------------------------
(* The inductive invariant.                                                *)

SessionInv ==
    /\ Shape /\ LockInv /\ StandInv /\ OpenInv /\ RightInv
    /\ OpenWhileUsed /\ WrongIsUntouched

(* What depends on the stand alone stays with it. *)
LEMMA SameStand ==
  ASSUME UNCHANGED <<composed>>
  PROVE  /\ UniqueDevices' = UniqueDevices
         /\ ToSet(stand)' = ToSet(stand)
         /\ ToSet(UniqueDevices)' = ToSet(UniqueDevices)
         /\ \A d : Physical(d)' = Physical(d)
         /\ Wrong(inventory)' = Wrong(inventory)
         /\ ReadFiles(inventory.files)' = ReadFiles(inventory.files)
         /\ ReferencesExist(ReadFiles(inventory.files).devices)'
               = ReferencesExist(ReadFiles(inventory.files).devices)
<1>1. stand' = stand /\ inventory' = inventory
  BY DEF composed
<1> QED BY <1>1 DEF UniqueDevices, Physical, ReferencesExist

(* A step that leaves the fixture and the connections alone keeps what is  *)
(* said of them.                                                           *)
LEMMA SameFixture ==
  ASSUME Shape, OpenInv, RightInv, UNCHANGED <<composed, fixture, conn>>
  PROVE  OpenInv' /\ RightInv' /\ Target' = Target
<1>1. /\ phase' = phase /\ pos' = pos /\ connected' = connected
      /\ aborted' = aborted /\ conn' = conn
  BY DEF fixture
<1>2. /\ UniqueDevices' = UniqueDevices
      /\ ToSet(UniqueDevices)' = ToSet(UniqueDevices)
      /\ Wrong(inventory)' = Wrong(inventory)
      /\ ReadFiles(inventory.files)' = ReadFiles(inventory.files)
      /\ ReferencesExist(ReadFiles(inventory.files).devices)'
            = ReferencesExist(ReadFiles(inventory.files).devices)
  BY SameStand
<1>3. Target' = Target
  BY <1>1, <1>2 DEF Target
<1>4. OpenInv'
  BY <1>1, <1>2 DEF OpenInv
<1>5. RightInv'
  BY <1>1, <1>2 DEF RightInv
<1> QED BY <1>3, <1>4, <1>5

(* The calls of the workers. *)
WorkerEffect(t) ==
    /\ LockShape' /\ LockInv'
    /\ UNCHANGED <<composed, fixture, conn>>
    /\ \A u \in Threads : u # t => inside'[u] = inside[u]
    /\ \/ inside'[t] \in {NoDevice, inside[t]}
       \/ inside'[t] \in ToSet(stand) /\ conn[inside'[t]] = "open"
    /\ \A u \in Workers, d \in Devices :
          reserved'[u][d] > 0 => reserved[u][d] > 0 \/ d \in ToSet(stand)
    /\ wants' \in [Workers -> Devices \cup {NoDevice}]
    /\ \A u \in Workers : u # t => wants'[u] = wants[u]
    /\ wants'[t] \in {wants[t], NoDevice} \cup ToSet(stand)
    /\ wants'[t] # NoDevice => inside'[t] = NoDevice

LEMMA WorkerLocks ==
  ASSUME SessionInv, NEW t \in Workers, WorkerStep(t)
  PROVE  WorkerEffect(t)
<1> USE NoDeviceFact
<1>1. /\ LockShape /\ LockInv /\ t \in Threads
      /\ inside \in [Threads -> Devices \cup {NoDevice}]
      /\ reserved \in [Workers -> [Devices -> Nat]]
      /\ wants \in [Workers -> Devices \cup {NoDevice}]
      /\ wants[t] # NoDevice => inside[t] = NoDevice
      /\ wants[t] # NoDevice => wants[t] \in ToSet(stand)
  BY DEF SessionInv, Shape, LockShape, StandInv
<1>2. ToSet(stand) \subseteq Devices
  BY Listed DEF SessionInv
<1>3. CASE \E d \in ToSet(stand) : Ask(t, d)
  <2>1. PICK d \in ToSet(stand) : Ask(t, d)
    BY <1>3
  <2>2. /\ UNCHANGED <<composed, fixture, conn, locks>> /\ wants' = [wants EXCEPT ![t] = d]
        /\ inside[t] = NoDevice
    BY <2>1 DEF Ask, Idle
  <2>3. holder' = holder /\ depth' = depth /\ inside' = inside /\ reserved' = reserved
    BY <2>2 DEF locks
  <2>4. LockShape' /\ LockInv'
    BY <1>1, <2>3 DEF LockShape, LockInv, Reserves
  <2> QED BY <1>1, <1>2, <2>2, <2>3, <2>4 DEF WorkerEffect
<1>4. CASE Execute(t)
  <2> DEFINE d == wants[t]
  <2>1. /\ d \in ToSet(stand) /\ d \in Devices /\ conn[d] = "open" /\ Enter(t, d)
        /\ inside[t] = NoDevice
        /\ UNCHANGED <<composed, fixture, conn, reserved>>
        /\ wants' = [wants EXCEPT ![t] = NoDevice]
    BY <1>1, <1>2, <1>4 DEF Execute, Served
  <2> HIDE DEF d
  <2>2. LockShape' /\ LockInv'
    BY <1>1, <2>1, EnterLock
  <2>3. inside' = [inside EXCEPT ![t] = d]
    BY <2>1 DEF Enter
  <2> QED BY <1>1, <2>1, <2>2, <2>3 DEF WorkerEffect
<1>5. CASE NoExecute(t)
  <2>1. UNCHANGED <<composed, fixture, conn, locks>> /\ wants' = [wants EXCEPT ![t] = NoDevice]
    BY <1>5 DEF NoExecute, Served
  <2>2. holder' = holder /\ depth' = depth /\ inside' = inside /\ reserved' = reserved
    BY <2>1 DEF locks
  <2>3. LockShape' /\ LockInv'
    BY <1>1, <2>2 DEF LockShape, LockInv, Reserves
  <2> QED BY <1>1, <2>1, <2>2, <2>3 DEF WorkerEffect
<1>6. CASE Reserve(t)
  <2> DEFINE d == wants[t]
  <2>1. /\ d \in ToSet(stand) /\ d \in Devices /\ Acquire(t, d)
        /\ inside[t] = NoDevice /\ reserved' = [reserved EXCEPT ![t][d] = @ + 1]
        /\ UNCHANGED <<composed, fixture, conn, inside>>
        /\ wants' = [wants EXCEPT ![t] = NoDevice]
    BY <1>1, <1>2, <1>6 DEF Reserve, Served
  <2> HIDE DEF d
  <2>2. LockShape' /\ LockInv'
    BY <1>1, <2>1, ReserveLock
  <2>3. \A u \in Workers, e \in Devices :
           reserved'[u][e] > 0 => reserved[u][e] > 0 \/ e \in ToSet(stand)
    BY <1>1, <2>1
  <2> QED BY <1>1, <2>1, <2>2, <2>3 DEF WorkerEffect
<1>7. CASE Executed(t)
  <2> DEFINE d == inside[t]
  <2>1. /\ d \in Devices /\ Leave(t, d)
        /\ UNCHANGED <<composed, fixture, conn, reserved, wants>>
    BY <1>1, <1>7 DEF Executed
  <2>2. inside[t] = d
    OBVIOUS
  <2> HIDE DEF d
  <2>3. LockShape' /\ LockInv'
    BY <1>1, <2>1, <2>2, LeaveLock
  <2>4. inside' = [inside EXCEPT ![t] = NoDevice]
    BY <2>1 DEF Leave
  <2> QED BY <1>1, <2>1, <2>3, <2>4 DEF WorkerEffect
<1>8. CASE Leaves(t)
  <2>1. PICK d \in ToSet(stand) : Unreserve(t, d)
    BY <1>8 DEF Leaves
  <2>2. /\ d \in Devices /\ Release(t, d) /\ inside[t] = NoDevice /\ reserved[t][d] > 0
        /\ reserved' = [reserved EXCEPT ![t][d] = @ - 1]
        /\ UNCHANGED <<composed, fixture, conn, inside, wants>>
    BY <1>2, <2>1 DEF Unreserve, Idle
  <2>3. LockShape' /\ LockInv'
    BY <1>1, <2>2, UnreserveLock
  <2>4. \A u \in Workers, e \in Devices :
           reserved'[u][e] > 0 => reserved[u][e] > 0 \/ e \in ToSet(stand)
    BY <1>1, <2>2
  <2> QED BY <1>1, <2>2, <2>3, <2>4 DEF WorkerEffect
<1> QED BY <1>3, <1>4, <1>5, <1>6, <1>7, <1>8 DEF WorkerStep, Granted

LEMMA WorkerPreserves ==
  ASSUME SessionInv, NEW t \in Workers, WorkerStep(t)
  PROVE  SessionInv'
<1> USE NoDeviceFact
<1>1. WorkerEffect(t)
  BY WorkerLocks
<1>2. /\ stand' = stand /\ inventory' = inventory /\ phase' = phase /\ pos' = pos
      /\ connected' = connected /\ conn' = conn
  BY <1>1 DEF WorkerEffect, composed, fixture
<1>3. Shape'
  BY <1>1, <1>2 DEF WorkerEffect, SessionInv, Shape, LockShape
<1>4. OpenInv' /\ RightInv' /\ Target' = Target
  BY <1>1, SameFixture DEF WorkerEffect, SessionInv
<1>5. /\ ToSet(stand)' = ToSet(stand) /\ ToSet(UniqueDevices)' = ToSet(UniqueDevices)
      /\ \A d : Physical(d)' = Physical(d) /\ Wrong(inventory)' = Wrong(inventory)
  BY <1>1, SameStand DEF WorkerEffect
<1>6. StandInv'
  <2>1. inside'[Main] = inside[Main]
    BY <1>1 DEF WorkerEffect
  <2>2. \A u \in Threads : inside'[u] \in ToSet(stand) \cup {NoDevice}
    BY <1>1 DEF WorkerEffect, SessionInv, StandInv
  <2>3. \A u \in Workers : /\ wants'[u] \in ToSet(stand) \cup {NoDevice}
                           /\ wants'[u] # NoDevice => inside'[u] = NoDevice
    BY <1>1 DEF WorkerEffect, SessionInv, StandInv
  <2>4. \A u \in Workers, d \in Devices : reserved'[u][d] > 0 => d \in ToSet(stand)
    BY <1>1 DEF WorkerEffect, SessionInv, StandInv
  <2> QED BY <1>2, <1>4, <1>5, <2>1, <2>2, <2>3, <2>4 DEF SessionInv, StandInv
<1>7. OpenWhileUsed'
  BY <1>1, <1>2 DEF WorkerEffect, SessionInv, OpenWhileUsed
<1>8. WrongIsUntouched'
  BY <1>1, <1>2, <1>5 DEF WorkerEffect, SessionInv, WrongIsUntouched
<1> QED BY <1>1, <1>3, <1>4, <1>6, <1>7, <1>8 DEF WorkerEffect, SessionInv

------------------------------------------------------------------------------
(* The steps of the fixture.                                               *)

(* The calls of the fixture return while it is at the device it called,    *)
(* and no worker is in that device.                                        *)
LEMMA MainLeaves ==
  ASSUME SessionInv, inside[Main] # NoDevice, Leave(Main, Target),
         UNCHANGED <<composed, reserved, wants>>
  PROVE  /\ AtTarget /\ LockShape' /\ LockInv'
         /\ inside'[Main] = NoDevice
         /\ \A t \in Workers : inside'[t] = inside[t] /\ inside[t] # Target
         /\ ~Wrong(inventory)
<1> USE NoDeviceFact
<1>1. inside[Main] = Target /\ AtTarget
  BY TargetFacts DEF SessionInv, StandInv
<1>2. Target \in Devices /\ phase \in {"connecting", "closing", "rollback"}
  BY <1>1 DEF AtTarget
<1>3. LockShape /\ LockInv
  BY DEF SessionInv, Shape, LockShape
<1>4. LockShape' /\ LockInv'
  <2> DEFINE d == Target
  <2>1. d \in Devices /\ inside[Main] = d /\ Leave(Main, d)
    BY <1>1, <1>2
  <2> HIDE DEF d
  <2> QED BY <1>3, <2>1, LeaveLock
<1>5. \A t \in Workers : inside[t] # Target
  BY <1>1, <1>2, <1>3 DEF LockInv
<1>6. inside'[Main] = NoDevice /\ \A t \in Workers : inside'[t] = inside[t]
  BY <1>3 DEF Leave, LockShape
<1>7. ~Wrong(inventory)
  BY <1>2 DEF SessionInv, RightInv
<1> QED BY <1>1, <1>4, <1>5, <1>6, <1>7

(* After such a return all that is left to see is where the fixture is and *)
(* what it still has to close.                                             *)
LEMMA MainReturns ==
  ASSUME SessionInv, inside[Main] # NoDevice, Leave(Main, Target),
         UNCHANGED <<composed, reserved, wants>>,
         phase' \in {"connecting", "rollback", "running", "closing", "over"},
         pos' \in Nat, connected' \in Seq(Devices),
         \A i \in 1..Len(connected') : connected'[i] \in ToSet(UniqueDevices),
         conn' \in [Devices -> {"closed", "open", "failed"}],
         \A d \in Devices : d # Target => conn'[d] = conn[d],
         OpenInv'
  PROVE  SessionInv'
<1> USE NoDeviceFact
<1>1. /\ AtTarget /\ LockShape' /\ LockInv'
      /\ inside'[Main] = NoDevice
      /\ \A t \in Workers : inside'[t] = inside[t] /\ inside[t] # Target
      /\ ~Wrong(inventory)
  BY MainLeaves
<1>2. stand' = stand /\ inventory' = inventory /\ reserved' = reserved /\ wants' = wants
  BY DEF composed
<1>3. /\ ToSet(stand)' = ToSet(stand) /\ ToSet(UniqueDevices)' = ToSet(UniqueDevices)
      /\ \A d : Physical(d)' = Physical(d) /\ Wrong(inventory)' = Wrong(inventory)
  BY SameStand
<1>4. Shape'
  BY <1>1, <1>2 DEF SessionInv, Shape, LockShape
<1>5. StandInv'
  <2>1. \A t \in Threads : inside'[t] \in ToSet(stand) \cup {NoDevice}
    BY <1>1 DEF SessionInv, StandInv, Threads
  <2>2. \A t \in Workers : /\ wants'[t] \in ToSet(stand) \cup {NoDevice}
                           /\ wants'[t] # NoDevice => inside'[t] = NoDevice
                           /\ \A d \in Devices : reserved'[t][d] > 0 => d \in ToSet(stand)
    BY <1>1, <1>2 DEF SessionInv, StandInv
  <2>3. \A d, e \in ToSet(stand) : Physical(d) = Physical(e) => d = e
    BY DEF SessionInv, StandInv
  <2> QED BY <1>1, <1>3, <2>1, <2>2, <2>3 DEF StandInv
<1>6. RightInv'
  BY <1>1, <1>3 DEF RightInv
<1>7. OpenWhileUsed'
  <2>1. \A t \in Workers : inside[t] \in Devices \cup {NoDevice}
    BY DEF SessionInv, Shape
  <2> QED BY <1>1, <2>1 DEF SessionInv, OpenWhileUsed
<1>8. WrongIsUntouched'
  BY <1>1, <1>3 DEF WrongIsUntouched
<1> QED BY <1>1, <1>4, <1>5, <1>6, <1>7, <1>8 DEF SessionInv

(* What Listed says of the list of connect(). *)
LEMMA ConnectedList ==
  ASSUME SessionInv
  PROVE  /\ connected \in Seq(Devices) /\ Len(connected) \in Nat /\ pos \in Nat
         /\ conn \in [Devices -> {"closed", "open", "failed"}]
         /\ \A i \in 1..Len(connected) : connected[i] \in ToSet(UniqueDevices)
         /\ \A d : d \in ToSet(connected) <=> \E i \in 1..Len(connected) : connected[i] = d
<1>1. connected \in Seq(Devices)
  BY DEF SessionInv, Shape
<1> QED BY <1>1, InList DEF SessionInv, Shape, StandInv

(* device.connect() returns: the device is on the list that a rollback     *)
(* closes, and when it is the last one the tests run.                      *)
LEMMA ConnectReturns ==
  ASSUME SessionInv, phase = "connecting", inside[Main] # NoDevice, Leave(Main, Target),
         UNCHANGED <<composed, reserved, wants>>, Open(Target),
         connected' = Append(connected, Target), pos' = pos + 1,
         phase' = IF pos = Len(UniqueDevices) THEN "running" ELSE phase
  PROVE  SessionInv'
<1>1. AtTarget
  BY MainLeaves
<1>2. Target \in Devices /\ Target \in ToSet(UniqueDevices)
  BY <1>1 DEF AtTarget
<1>3. /\ connected \in Seq(Devices) /\ Len(connected) \in Nat /\ pos \in Nat
      /\ conn \in [Devices -> {"closed", "open", "failed"}]
      /\ \A i \in 1..Len(connected) : connected[i] \in ToSet(UniqueDevices)
      /\ \A d : d \in ToSet(connected) <=> \E i \in 1..Len(connected) : connected[i] = d
  BY ConnectedList
<1>4. /\ connected' \in Seq(Devices) /\ Len(connected') = Len(connected) + 1
      /\ connected'[Len(connected) + 1] = Target
      /\ \A i \in 1..Len(connected) : connected'[i] = connected[i]
  BY <1>2, <1>3
<1>5. \A i \in 1..Len(connected') : connected'[i] \in ToSet(UniqueDevices)
  BY <1>2, <1>3, <1>4
<1>6. /\ conn' \in [Devices -> {"closed", "open", "failed"}]
      /\ \A d \in Devices : d # Target => conn'[d] = conn[d]
  BY <1>2, <1>3 DEF Open
<1>7. OpenInv'
  <2> SUFFICES ASSUME NEW d \in Devices, conn'[d] = "open"
               PROVE  d \in ToSet(connected') /\ d \in ToSet(UniqueDevices')
    BY DEF OpenInv
  <2>1. ToSet(UniqueDevices') = ToSet(UniqueDevices)
    BY SameStand
  <2>2. d = Target \/ d \in ToSet(connected)
    BY <1>6 DEF SessionInv, OpenInv
  <2>3. \E i \in 1..Len(connected') : connected'[i] = d
    BY <1>3, <1>4, <2>2
  <2>4. d \in ToSet(connected')
    BY <1>4, <2>3, InList
  <2> QED BY <1>5, <2>1, <2>3, <2>4
<1>8. pos' \in Nat /\ phase' \in {"connecting", "running"}
  BY <1>3
<1> QED BY <1>4, <1>5, <1>6, <1>7, <1>8, MainReturns

(* device.connect() raises: the rollback has the whole list before it. *)
LEMMA ConnectRaises ==
  ASSUME SessionInv, phase = "connecting", inside[Main] # NoDevice, Leave(Main, Target),
         UNCHANGED <<composed, reserved, wants>>, phase' = "rollback",
         pos' = Len(connected), UNCHANGED <<conn, connected>>
  PROVE  SessionInv'
<1>1. /\ connected \in Seq(Devices) /\ Len(connected) \in Nat
      /\ conn \in [Devices -> {"closed", "open", "failed"}]
      /\ \A i \in 1..Len(connected) : connected[i] \in ToSet(UniqueDevices)
      /\ \A d : d \in ToSet(connected) <=> \E i \in 1..Len(connected) : connected[i] = d
  BY ConnectedList
<1>2. \A d \in Devices : conn[d] = "open" => d \in ToSet(connected)
  BY DEF SessionInv, OpenInv
<1>3. OpenInv'
  <2>1. \A d \in Devices : conn'[d] = "open" =>
           \E i \in 1..pos' : i <= Len(connected') /\ connected'[i] = d
    BY <1>1, <1>2
  <2> QED BY <2>1 DEF OpenInv
<1> QED BY <1>1, <1>3, MainReturns

(* A close() of the rollback returns or raises. *)
LEMMA RolledBackPreserves ==
  ASSUME SessionInv, RolledBack
  PROVE  SessionInv'
<1> USE DEF RolledBack
<1>1. AtTarget /\ inside[Main] # NoDevice /\ Leave(Main, Target) /\ UNCHANGED <<composed, reserved, wants>>
  BY MainLeaves
<1>2. /\ Target \in Devices /\ pos \in Nat \ {0} /\ pos <= Len(connected)
      /\ Target = connected[pos]
  BY <1>1 DEF AtTarget
<1>3. /\ connected \in Seq(Devices) /\ Len(connected) \in Nat
      /\ conn \in [Devices -> {"closed", "open", "failed"}]
      /\ \A i \in 1..Len(connected) : connected[i] \in ToSet(UniqueDevices)
  BY ConnectedList
<1>4. /\ conn' \in [Devices -> {"closed", "open", "failed"}] /\ conn'[Target] # "open"
      /\ \A d \in Devices : d # Target => conn'[d] = conn[d]
  BY <1>2, <1>3 DEF Shut, ShutRaises
<1>5. CASE Shut(Target) /\ pos' = pos - 1 /\ UNCHANGED <<phase, aborted>>
  <2>1. OpenInv'
    <3> SUFFICES ASSUME NEW d \in Devices, conn'[d] = "open"
                 PROVE  \E i \in 1..pos' : i <= Len(connected') /\ connected'[i] = d
      BY <1>5 DEF OpenInv
    <3>1. PICK i \in 1..pos : i <= Len(connected) /\ connected[i] = d
      BY <1>4 DEF SessionInv, OpenInv
    <3>2. i # pos
      BY <1>2, <1>4, <3>1
    <3> QED BY <1>2, <1>5, <3>1, <3>2
  <2>2. pos' \in Nat /\ phase' = "rollback"
    BY <1>2, <1>5
  <2> QED BY <1>1, <1>3, <1>4, <2>1, <2>2, MainReturns
<1>6. CASE phase' = "over" /\ aborted' = TRUE /\ UNCHANGED pos
  <2>1. OpenInv'
    BY <1>6 DEF OpenInv
  <2>2. pos' \in Nat /\ phase' = "over"
    BY <1>2, <1>6
  <2> QED BY <1>1, <1>3, <1>4, <2>1, <2>2, MainReturns
<1> QED BY <1>5, <1>6

(* So does a close() of TestStand.close, which goes on either way. *)
LEMMA ClosedPreserves ==
  ASSUME SessionInv, Closed
  PROVE  SessionInv'
<1> USE DEF Closed
<1>1. AtTarget /\ inside[Main] # NoDevice /\ Leave(Main, Target) /\ UNCHANGED <<composed, reserved, wants>>
  BY MainLeaves
<1>2. /\ Target \in Devices /\ pos \in Nat \ {0} /\ Target = UniqueDevices[pos]
  BY <1>1 DEF AtTarget
<1>3. /\ connected \in Seq(Devices)
      /\ conn \in [Devices -> {"closed", "open", "failed"}]
      /\ \A i \in 1..Len(connected) : connected[i] \in ToSet(UniqueDevices)
  BY ConnectedList
<1>4. /\ conn' \in [Devices -> {"closed", "open", "failed"}] /\ conn'[Target] # "open"
      /\ \A d \in Devices : d # Target => conn'[d] = conn[d]
  BY <1>2, <1>3 DEF Shut, ShutRaises
<1>5. OpenInv'
  <2> SUFFICES ASSUME NEW d \in Devices, conn'[d] = "open"
               PROVE  \E i \in 1..pos' : i <= Len(UniqueDevices') /\ UniqueDevices'[i] = d
    BY DEF OpenInv
  <2>1. UniqueDevices' = UniqueDevices
    BY <1>1, SameStand
  <2>2. PICK i \in 1..pos : i <= Len(UniqueDevices) /\ UniqueDevices[i] = d
    BY <1>4 DEF SessionInv, OpenInv
  <2>3. i # pos
    BY <1>2, <1>4, <2>2
  <2> QED BY <1>2, <2>1, <2>2, <2>3
<1>6. pos' \in Nat /\ phase' = "closing"
  BY <1>2
<1> QED BY <1>1, <1>3, <1>4, <1>5, <1>6, MainReturns

(* The fixture calls a device: the main thread is in its target. *)
LEMMA CallPreserves ==
  ASSUME SessionInv, CallDevice
  PROVE  SessionInv'
<1> USE NoDeviceFact
<1> DEFINE d == Target
<1>1. AtTarget /\ d \in Devices /\ d \in ToSet(stand)
  BY TargetFacts DEF SessionInv, CallDevice, AtTarget
<1>2. /\ inside[Main] = NoDevice /\ Enter(Main, d)
      /\ UNCHANGED <<composed, fixture, conn, reserved, wants>>
  BY DEF CallDevice
<1>3. ~Wrong(inventory)
  BY <1>1 DEF SessionInv, RightInv, AtTarget
<1>4. OpenInv' /\ RightInv' /\ Target' = d
  BY <1>2, SameFixture DEF SessionInv
<1> HIDE DEF d
<1>5. LockShape /\ LockInv
  BY DEF SessionInv, Shape, LockShape
<1>6. LockShape' /\ LockInv'
  BY <1>1, <1>2, <1>5, EnterLock
<1>7. inside'[Main] = d /\ \A t \in Workers : inside'[t] = inside[t]
  BY <1>2, <1>5 DEF Enter, LockShape
<1>8. /\ stand' = stand /\ inventory' = inventory /\ phase' = phase /\ pos' = pos
      /\ connected' = connected /\ conn' = conn /\ reserved' = reserved /\ wants' = wants
  BY <1>2 DEF composed, fixture
<1>9. /\ ToSet(stand)' = ToSet(stand) /\ ToSet(UniqueDevices)' = ToSet(UniqueDevices)
      /\ \A e : Physical(e)' = Physical(e) /\ Wrong(inventory)' = Wrong(inventory)
  BY <1>2, SameStand
<1>10. Shape'
  BY <1>6, <1>8 DEF SessionInv, Shape, LockShape
<1>11. StandInv'
  BY <1>1, <1>4, <1>7, <1>8, <1>9 DEF SessionInv, StandInv, Threads
<1>12. OpenWhileUsed' /\ WrongIsUntouched'
  BY <1>3, <1>7, <1>8, <1>9 DEF SessionInv, OpenWhileUsed, WrongIsUntouched
<1> QED BY <1>4, <1>6, <1>10, <1>11, <1>12 DEF SessionInv

(* A step that moves the fixture on while it is in no transport. *)
LEMMA MovesOn ==
  ASSUME SessionInv, Shape', UNCHANGED <<composed, connected, conn, locks, wants>>,
         inside[Main] = NoDevice, OpenInv', RightInv',
         phase' \in {"loading", "creating"} => phase \in {"loading", "creating"}
  PROVE  SessionInv'
<1>1. /\ stand' = stand /\ inventory' = inventory /\ connected' = connected /\ conn' = conn
      /\ holder' = holder /\ depth' = depth /\ inside' = inside /\ reserved' = reserved /\ wants' = wants
  BY DEF composed, locks
<1>2. /\ ToSet(stand)' = ToSet(stand) /\ ToSet(UniqueDevices)' = ToSet(UniqueDevices)
      /\ \A e : Physical(e)' = Physical(e) /\ Wrong(inventory)' = Wrong(inventory)
  BY SameStand
<1>3. LockInv'
  BY <1>1 DEF SessionInv, LockInv, Reserves
<1>4. StandInv'
  BY <1>1, <1>2 DEF SessionInv, StandInv
<1>5. OpenWhileUsed' /\ WrongIsUntouched'
  BY <1>1, <1>2 DEF SessionInv, OpenWhileUsed, WrongIsUntouched
<1> QED BY <1>3, <1>4, <1>5 DEF SessionInv

(* Where the fixture has no target, the main thread is in no transport.    *)
LEMMA NoTarget ==
  ASSUME SessionInv, phase \notin {"connecting", "rollback", "closing"} \/ pos = 0
  PROVE  inside[Main] = NoDevice
<1>1. Target # NoDevice => AtTarget
  BY TargetFacts DEF SessionInv
<1>2. Target = NoDevice
  BY <1>1 DEF AtTarget
<1> QED BY <1>2 DEF SessionInv, StandInv

LEMMA LoadPreserves ==
  ASSUME SessionInv, LoadInventory
  PROVE  SessionInv'
<1> USE DEF LoadInventory
<1>1. inside[Main] = NoDevice
  BY NoTarget
<1>2. Shape' /\ UNCHANGED <<composed, connected, conn, locks, wants>>
  BY DEF SessionInv, Shape, composed, locks
<1>3. OpenInv'
  BY DEF SessionInv, OpenInv
<1>4. RightInv'
  <2>1. /\ ReadFiles(inventory.files)' = ReadFiles(inventory.files)
        /\ ReferencesExist(ReadFiles(inventory.files).devices)'
              = ReferencesExist(ReadFiles(inventory.files).devices)
    BY <1>2, SameStand
  <2> QED BY <2>1 DEF RightInv
<1> QED BY <1>1, <1>2, <1>3, <1>4, MovesOn

LEMMA TearDownPreserves ==
  ASSUME SessionInv, TearDown
  PROVE  SessionInv'
<1> USE DEF TearDown
<1>1. inside[Main] = NoDevice
  BY NoTarget
<1>2. UniqueDevices \in Seq(Devices) /\ Len(UniqueDevices) \in Nat
  BY Listed DEF SessionInv
<1>3. Shape' /\ UNCHANGED <<composed, connected, conn, locks, wants>>
  BY <1>2 DEF SessionInv, Shape, composed, locks
<1>4. UniqueDevices' = UniqueDevices /\ Wrong(inventory)' = Wrong(inventory)
  BY <1>3, SameStand
<1>5. OpenInv'
  <2> SUFFICES ASSUME NEW d \in Devices, conn'[d] = "open"
               PROVE  \E i \in 1..pos' : i <= Len(UniqueDevices') /\ UniqueDevices'[i] = d
    BY DEF OpenInv
  <2>1. d \in ToSet(UniqueDevices)
    BY DEF SessionInv, OpenInv
  <2>2. \E i \in 1..Len(UniqueDevices) : UniqueDevices[i] = d
    BY <1>2, <2>1, InList
  <2> QED BY <1>2, <1>4, <2>2
<1>6. RightInv'
  BY <1>4 DEF SessionInv, RightInv
<1> QED BY <1>1, <1>3, <1>5, <1>6, MovesOn

LEMMA EndedPreserves ==
  ASSUME SessionInv, Ended
  PROVE  SessionInv'
<1> USE DEF Ended
<1>1. inside[Main] = NoDevice
  BY NoTarget
<1>2. Shape' /\ UNCHANGED <<composed, connected, conn, locks, wants>>
  BY DEF SessionInv, Shape, composed, locks
<1>3. OpenInv'
  BY DEF SessionInv, OpenInv
<1>4. RightInv'
  BY DEF RightInv
<1> QED BY <1>1, <1>2, <1>3, <1>4, MovesOn

(* What the checks of the loader and of the factories leave is right. *)
LEMMA CheckedIsRight ==
  ASSUME inventory \in Schema,
         ReadFiles(inventory.files).ok,
         ReferencesExist(ReadFiles(inventory.files).devices),
         inventory.known,
         \A n \in ToSet(inventory.roles) : CreateTransport(n) /\ CreateDevice(n)
  PROVE  ~Wrong(inventory)
<1> DEFINE files == inventory.files
<1>1. files \in Seq(SUBSET Names) /\ DOMAIN files = 1..Len(files) /\ Len(files) \in Nat
  BY DEF Schema
<1>2. \A i \in DOMAIN files : files[i] \cap UNION {files[j] : j \in 1..(i - 1)} = {}
  BY DEF ReadFiles
<1>3. ASSUME NEW i \in DOMAIN files, NEW j \in DOMAIN files, i # j,
             files[i] \cap files[j] # {}
      PROVE  FALSE
  <2>1. i \in Nat /\ j \in Nat /\ i >= 1 /\ j >= 1
    BY <1>1
  <2>2. ASSUME NEW a \in DOMAIN files, NEW b \in DOMAIN files, a < b
        PROVE  files[b] \cap files[a] = {}
    <3>1. a \in 1..(b - 1)
      BY <1>1, <2>2
    <3> QED BY <1>2, <3>1
  <2>3. i < j \/ j < i
    BY <1>3, <2>1
  <2> QED BY <1>3, <2>2, <2>3
<1>4. ASSUME NEW n \in inventory.others \cup ToSet(inventory.roles)
      PROVE  \E i \in DOMAIN files : n \in files[i]
  <2>1. n \in UNION ToSet(files)
    BY DEF ReferencesExist, ReadFiles
  <2> QED BY <2>1 DEF ToSet
<1>5. ToSet(inventory.roles) \subseteq inventory.credentials \cap inventory.types
  BY DEF CreateTransport, CreateDevice
<1> QED BY <1>3, <1>4, <1>5 DEF Wrong

(* An empty stand has no device. *)
LEMMA NoneListed == stand = <<>> => ToSet(stand) = {}
<1> SUFFICES ASSUME stand = <<>> PROVE ToSet(stand) = {}
  OBVIOUS
<1>1. DOMAIN stand = {}
  OBVIOUS
<1> QED BY <1>1 DEF ToSet

(* The stand that is built has one device for every physical device. *)
LEMMA BuiltOnce ==
  ASSUME inventory \in Inventories, inventory' = inventory,
         stand' = [i \in 1..Len(inventory.roles) |-> BuiltFor(i)]
  PROVE  /\ stand' \in Seq(Devices)
         /\ \A d, e \in ToSet(stand') : Physical(d)' = Physical(e)' => d = e
<1> DEFINE roles == inventory.roles
<1>1. roles \in Seq(Names) /\ Len(roles) \in Nat /\ Len(roles) <= MaxRoles /\ MaxRoles \in Nat
  BY StandAssumption DEF StandAssumption, Schema
<1> DEFINE n == Len(roles)
<1>2. ASSUME NEW i \in 1..n
      PROVE  /\ BuiltFor(i) \in 1..n /\ roles[BuiltFor(i)] = roles[i]
             /\ \A k \in 1..(BuiltFor(i) - 1) : roles[k] # roles[i]
  BY <1>1, BuiltForFirst
<1>3. stand' \in Seq(Devices) /\ Len(stand') = n
  BY <1>1, <1>2 DEF Devices
<1>4. ASSUME NEW d \in ToSet(stand')
      PROVE  \E i \in 1..n : d = BuiltFor(i)
  <2>1. \A x : x \in ToSet(stand') <=> \E i \in 1..n : stand'[i] = x
    BY <1>3, InList
  <2>2. \A i \in 1..n : stand'[i] = BuiltFor(i)
    OBVIOUS
  <2> QED BY <2>1, <2>2
<1>5. ASSUME NEW d \in ToSet(stand'), NEW e \in ToSet(stand'), roles[d] = roles[e]
      PROVE  ~(d < e) /\ d \in 1..n
  <2>1. PICK i \in 1..n : d = BuiltFor(i)
    BY <1>4
  <2>2. PICK j \in 1..n : e = BuiltFor(j)
    BY <1>4
  <2>3. d \in 1..n /\ e \in 1..n /\ roles[d] = roles[j]
    BY <1>2, <1>5, <2>1, <2>2
  <2>4. ~(d \in 1..(e - 1))
    BY <1>2, <2>2, <2>3
  <2> QED BY <1>1, <2>3, <2>4
<1>6. ASSUME NEW d \in ToSet(stand'), NEW e \in ToSet(stand'), roles[d] = roles[e]
      PROVE  d = e
  <2>1. ~(d < e) /\ ~(e < d) /\ d \in 1..n /\ e \in 1..n
    BY <1>5, <1>6
  <2> QED BY <1>1, <2>1
<1> QED BY <1>3, <1>6 DEF Physical

LEMMA CreatePreserves ==
  ASSUME SessionInv, CreateStand
  PROVE  SessionInv'
<1> USE DEF CreateStand
<1>1. inside[Main] = NoDevice
  BY NoTarget
<1>2. /\ inventory' = inventory /\ pos' = pos /\ connected' = connected /\ conn' = conn
      /\ holder' = holder /\ depth' = depth /\ inside' = inside /\ reserved' = reserved /\ wants' = wants
  BY DEF locks
<1>3. OpenInv'
  BY DEF SessionInv, OpenInv
<1>4. CASE phase' = "over" /\ UNCHANGED stand
  <2>1. Shape' /\ UNCHANGED <<composed, connected, conn, locks, wants>>
    BY <1>2, <1>4 DEF SessionInv, Shape, composed, locks
  <2>2. RightInv'
    BY <1>4 DEF RightInv
  <2> QED BY <1>1, <1>3, <1>4, <2>1, <2>2, MovesOn
<1>5. CASE /\ inventory.known
           /\ \A n \in ToSet(inventory.roles) : CreateTransport(n) /\ CreateDevice(n)
           /\ stand' = [i \in 1..Len(inventory.roles) |-> BuiltFor(i)]
           /\ phase' \in {"running", "connecting"}
  <2>1. stand = <<>> /\ connected = <<>> /\ ToSet(stand) = {}
    BY NoneListed DEF SessionInv, StandInv
  <2>2. /\ \A t \in Threads : inside'[t] = NoDevice
        /\ \A t \in Workers : wants'[t] = NoDevice
        /\ \A t \in Workers, d \in Devices : ~(reserved'[t][d] > 0)
    BY <1>2, <2>1 DEF SessionInv, StandInv
  <2>3. /\ stand' \in Seq(Devices)
        /\ \A d, e \in ToSet(stand') : Physical(d)' = Physical(e)' => d = e
    BY <1>2, <1>5, BuiltOnce DEF SessionInv, Shape
  <2>4. ~Wrong(inventory)
    <3>1. inventory \in Schema
      BY StandAssumption DEF StandAssumption, SessionInv, Shape
    <3> QED BY <1>5, <3>1, CheckedIsRight DEF SessionInv, RightInv
  <2>5. Shape'
    BY <1>2, <1>5, <2>3 DEF SessionInv, Shape
  <2>6. LockInv'
    BY <1>2 DEF SessionInv, LockInv, Reserves
  <2>7. StandInv'
    <3>1. Len(connected') = 0
      BY <1>2, <2>1
    <3> QED BY <1>1, <1>2, <1>5, <2>2, <2>3, <3>1 DEF StandInv
  <2>8. RightInv' /\ WrongIsUntouched'
    BY <1>2, <1>5, <2>4 DEF RightInv, WrongIsUntouched
  <2>9. OpenWhileUsed'
    BY <2>2, NoDeviceFact DEF OpenWhileUsed
  <2> QED BY <1>3, <2>5, <2>6, <2>7, <2>8, <2>9 DEF SessionInv
<1> QED BY <1>4, <1>5

LEMMA InitHolds == Init => SessionInv
<1> SUFFICES ASSUME Init PROVE SessionInv
  OBVIOUS
<1> USE NoDeviceFact DEF Init
<1>1. Shape
  BY DEF Shape
<1>2. LockInv
  <2>1. \A d \in Devices, t \in Threads : inside[t] # d /\ Reserves(t, d) = 0 /\ holder[d] # t
    BY DEF Reserves
  <2> QED BY <2>1 DEF LockInv
<1>3. StandInv
  <2>1. stand = <<>>
    OBVIOUS
  <2>2. ToSet(stand) = {}
    BY <2>1, NoneListed
  <2> QED BY <2>2 DEF StandInv
<1>4. OpenInv /\ RightInv /\ OpenWhileUsed /\ WrongIsUntouched
  BY DEF OpenInv, RightInv, OpenWhileUsed, WrongIsUntouched
<1> QED BY <1>1, <1>2, <1>3, <1>4 DEF SessionInv

LEMMA StepHolds == SessionInv /\ [Next]_vars => SessionInv'
<1> SUFFICES ASSUME SessionInv, [Next]_vars PROVE SessionInv'
  OBVIOUS
<1>1. CASE LoadInventory
  BY <1>1, LoadPreserves
<1>2. CASE CreateStand
  BY <1>2, CreatePreserves
<1>3. CASE CallDevice
  BY <1>3, CallPreserves
<1>4. CASE Connected
  <2>1. /\ phase = "connecting" /\ inside[Main] # NoDevice /\ Leave(Main, Target)
        /\ UNCHANGED <<composed, reserved, wants>>
    BY <1>4 DEF Connected
  <2>2. CASE /\ Open(Target) /\ connected' = Append(connected, Target) /\ pos' = pos + 1
             /\ phase' = IF pos = Len(UniqueDevices) THEN "running" ELSE phase
    BY <2>1, <2>2, ConnectReturns
  <2>3. CASE phase' = "rollback" /\ pos' = Len(connected) /\ UNCHANGED <<conn, connected>>
    BY <2>1, <2>3, ConnectRaises
  <2> QED BY <1>4, <2>2, <2>3 DEF Connected
<1>5. CASE RolledBack
  BY <1>5, RolledBackPreserves
<1>6. CASE TearDown
  BY <1>6, TearDownPreserves
<1>7. CASE Closed
  BY <1>7, ClosedPreserves
<1>8. CASE Ended
  BY <1>8, EndedPreserves
<1>9. ASSUME NEW t \in Workers, WorkerStep(t) PROVE SessionInv'
  BY <1>9, WorkerPreserves
<1>10. CASE UNCHANGED vars
  <2>1. /\ UNCHANGED <<composed, fixture, conn, connected, locks, wants>>
        /\ phase' = phase /\ pos' = pos /\ connected' = connected
    BY <1>10 DEF vars, fixture
  <2>2. /\ stand' = stand /\ inventory' = inventory /\ conn' = conn
        /\ holder' = holder /\ depth' = depth /\ inside' = inside /\ reserved' = reserved /\ wants' = wants
    BY <2>1 DEF composed, locks
  <2>3. Shape' /\ LockInv' /\ OpenWhileUsed'
    BY <2>1, <2>2 DEF SessionInv, Shape, LockInv, Reserves, OpenWhileUsed
  <2>4. OpenInv' /\ RightInv' /\ Target' = Target
    BY <2>1, SameFixture DEF SessionInv
  <2>5. /\ ToSet(stand)' = ToSet(stand) /\ ToSet(UniqueDevices)' = ToSet(UniqueDevices)
        /\ \A e : Physical(e)' = Physical(e) /\ Wrong(inventory)' = Wrong(inventory)
    BY <2>1, SameStand
  <2>6. StandInv' /\ WrongIsUntouched'
    BY <2>1, <2>2, <2>4, <2>5 DEF SessionInv, StandInv, WrongIsUntouched
  <2> QED BY <2>3, <2>4, <2>6 DEF SessionInv
<1> QED BY <1>1, <1>2, <1>3, <1>4, <1>5, <1>6, <1>7, <1>8, <1>9, <1>10
        DEF Next, FixtureStep

------------------------------------------------------------------------------
(* The theorems.                                                           *)

(* The inductive invariant holds of every session: the lock of each        *)
(* SynchronizedTransport counts the calls of its owner, the fixture is in  *)
(* the device it called, and what is open is still to be closed.           *)
THEOREM SessionInvariant == Spec => []SessionInv
  BY InitHolds, StepHolds, PTL DEF Spec

(* A physical device executes one call at a time, and none of another      *)
(* thread while one has it reserved: the factories build one transport per *)
(* physical device, and its reentrant lock has one owner.                  *)
THEOREM CallsSerialized == Spec => []Serialized
<1>1. SessionInv => Serialized
  <2> SUFFICES ASSUME SessionInv, NEW t \in Threads, NEW u \in Threads,
                      t # u, inside[t] # NoDevice
               PROVE  /\ inside[u] # NoDevice => Physical(inside[u]) # Physical(inside[t])
                      /\ u \in Workers => \A d \in Devices :
                            reserved[u][d] > 0 => Physical(d) # Physical(inside[t])
    BY DEF Serialized
  <2>1. /\ ToSet(stand) \subseteq Devices
        /\ \A d, e \in ToSet(stand) : Physical(d) = Physical(e) => d = e
        /\ inside[t] \in ToSet(stand)
        /\ inside[u] # NoDevice => inside[u] \in ToSet(stand)
        /\ u \in Workers => \A d \in Devices : reserved[u][d] > 0 => d \in ToSet(stand)
    BY Listed DEF SessionInv, StandInv
  <2>2. holder[inside[t]] = t
    BY <2>1 DEF SessionInv, LockInv
  <2>3. inside[u] # NoDevice => holder[inside[u]] = u
    BY <2>1 DEF SessionInv, LockInv
  <2>4. u \in Workers => \A d \in Devices : reserved[u][d] > 0 => holder[d] = u
    BY DEF SessionInv, LockInv, Reserves
  <2> QED BY <2>1, <2>2, <2>3, <2>4
<1> QED BY <1>1, SessionInvariant, PTL

(* close() waits for a command that another thread executes on the         *)
(* transport: no connection is closed under a command.                     *)
THEOREM ConnectionStaysOpen == Spec => []OpenWhileUsed
<1>1. SessionInv => OpenWhileUsed
  BY DEF SessionInv
<1> QED BY <1>1, SessionInvariant, PTL

(* TestStand.connect and TestStand.close leave no connection open, whoever *)
(* raises, unless a close() raises while connect() rolls back.             *)
THEOREM AllClosed == Spec => []NothingLeftOpen
<1>1. SessionInv => NothingLeftOpen
  BY DEF SessionInv, OpenInv, NothingLeftOpen
<1> QED BY <1>1, SessionInvariant, PTL

(* The loader and the factories check all of the inventory before the      *)
(* fixture calls the first device.                                         *)
THEOREM WrongUntouched == Spec => []WrongIsUntouched
<1>1. SessionInv => WrongIsUntouched
  BY DEF SessionInv
<1> QED BY <1>1, SessionInvariant, PTL
==============================================================================
