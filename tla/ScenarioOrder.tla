---------------------------- MODULE ScenarioOrder ----------------------------
(***************************************************************************)
(* One pytest session under the plugin of hardware_test/pytest_plugin.py   *)
(* and scenarios.py: the marker sequence it is asked for, the directory it *)
(* allocates, the selection and ordering of the collected tests, and what  *)
(* a failure stops.  pytest's own loop over the tests is external.         *)
(*                                                                         *)
(* Marker names are values: whether a name is well formed or registered is *)
(* all that the code asks of one.                                          *)
(***************************************************************************)
EXTENDS Naturals, Sequences, SequencesExt, FiniteSets

CONSTANTS
    Markers,    \* registered markers that are used as steps
    Unknown,    \* a well-formed name that is not registered
    Malformed,  \* a name that _MARKER_NAME_PATTERN does not match
    Kinds,      \* the tests that may be collected
    MaxTests,   \* bound: collected tests
    MaxSteps    \* bound: names in a sequence

(* A test: the step markers it carries, whether it is a hardware test and  *)
(* whether it carries stop_on_fail.                                        *)
ASSUME ScenarioAssumption ==
    /\ \A k \in Kinds : k.steps \subseteq Markers
    /\ Unknown \notin Markers /\ Malformed \notin Markers
    /\ MaxTests \in Nat /\ MaxSteps \in Nat

VARIABLES
    option,     \* --marker-sequence and --scenario
    stand,      \* --stand is given
    hardwarePath,  \* an argument names a path below hardware/
    items,      \* the collected tests
    phase,      \* where the session is
    sequence,   \* config.stash[_MARKER_SEQUENCE_KEY], <<>> when unset
    failFast,   \* config.option.maxfail = 1
    directory,  \* the session directory
    matched,    \* the tests that pytest's own options do not deselect
    order,      \* the tests to run, as indices of items
    executed    \* history: the tests it came to and what became of them

input == <<option, stand, hardwarePath, items>>
vars == <<option, stand, hardwarePath, items, phase, sequence, failFast,
          directory, matched, order, executed>>

Names == Markers \cup {Unknown, Malformed}
Sequences == BoundedSeq(Names, MaxSteps)

(* -M with at least one name; -M with an empty value; -S with the content  *)
(* of its file, or with one that cannot be read or has another name.       *)
Options ==
         [kind : {"none", "blank", "both"}, names : {<<>>}]
    \cup [kind : {"markers"}, names : Sequences \ {<<>>}]
    \cup [kind : {"scenario"}, names : Sequences]
    \cup [kind : {"badFile"}, names : {<<>>}]

(* pytest counts a skipped test as no failure. *)
Outcomes == {"passed", "failed", "skipped"}
Results == [test : 1..MaxTests, outcome : Outcomes]

(* Every variable has its type. *)
ScenarioTypeOK ==
    /\ option \in Options
    /\ stand \in BOOLEAN /\ hardwarePath \in BOOLEAN
    /\ items \in BoundedSeq(Kinds, MaxTests)
    /\ phase \in {"starting", "collecting", "running", "finished", "refused"}
    /\ sequence \in BoundedSeq(Markers, MaxSteps)
    /\ failFast \in BOOLEAN
    /\ directory \in {"free", "unusable", "created"}
    /\ matched \subseteq 1..MaxTests
    /\ order \in BoundedSeq(1..MaxTests, MaxTests)
    /\ Len(executed) <= MaxTests /\ Range(executed) \subseteq Results

(* directory is unusable if the run id is not well formed, leads out of    *)
(* the artifacts root or is that of an earlier session.                    *)
Init ==
    /\ option \in Options
    /\ stand \in BOOLEAN /\ hardwarePath \in BOOLEAN
    /\ items \in BoundedSeq(Kinds, MaxTests)
    /\ phase = "starting"
    /\ sequence = <<>>
    /\ failFast = FALSE
    /\ directory \in {"free", "unusable"}
    /\ matched = {}
    /\ order = <<>>
    /\ executed = <<>>
------------------------------------------------------------------------------
(* pytest_configure.                                                       *)

(* _first_duplicate is not None. *)
HasDuplicate(names) == Cardinality(ToSet(names)) < Len(names)

(* _validate_registered_markers. *)
Registered(names) == ToSet(names) \subseteq Markers

(* What a sequence has to satisfy: ScenarioConfig.validate_markers, then   *)
(* registration.                                                           *)
Valid(names) ==
    /\ names # <<>>
    /\ Malformed \notin ToSet(names)
    /\ ~HasDuplicate(names)
    /\ Registered(names)

(* _get_marker_sequence: an option with an empty value counts as not given. *)
Ordered == option.kind \in {"markers", "scenario"}

SetFailFast == failFast' = Ordered

Refuse ==
    /\ phase' = "refused"
    /\ UNCHANGED <<input, sequence, failFast, directory, matched, order, executed>>

(* UsageError while the sequence is resolved: nothing has been created. *)
RefuseSequence ==
    /\ phase = "starting"
    /\ option.kind \in {"both", "badFile"} \/ (Ordered /\ ~Valid(option.names))
    /\ Refuse

RefuseDirectory ==
    /\ phase = "starting"
    /\ option.kind \notin {"both", "badFile"} /\ (Ordered => Valid(option.names))
    /\ directory = "unusable"
    /\ Refuse

Configure ==
    /\ phase = "starting"
    /\ option.kind \notin {"both", "badFile"} /\ (Ordered => Valid(option.names))
    /\ directory = "free"
    /\ directory' = "created"
    /\ sequence' = option.names
    /\ SetFailFast
    /\ phase' = "collecting"
    /\ UNCHANGED <<input, matched, order, executed>>
------------------------------------------------------------------------------
(* pytest_collection_modifyitems.                                          *)

All == [i \in 1..Len(items) |-> i]

(* grouped[marker] once the loop has seen every test: those of one step,   *)
(* in the order of collection.                                             *)
Group(marker) ==
    LET grouped[i \in 0..Len(items)] ==
            IF i = 0 THEN <<>>
            ELSE IF marker \in items[i].steps THEN Append(grouped[i - 1], i)
                                              ELSE grouped[i - 1]
    IN  grouped[Len(items)]

(* matching_markers of a test. *)
Steps(i) == items[i].steps \cap ToSet(sequence)

(* _apply_marker_sequence refuses a test of two steps and an empty step.   *)
(* Mutant: an empty step is let through.                                   *)
MutantEmptyStep == \E i \in 1..Len(items) : Cardinality(Steps(i)) > 1
Inapplicable ==
    \/ \E i \in 1..Len(items) : Cardinality(Steps(i)) > 1
    \/ \E i \in 1..Len(sequence) : Group(sequence[i]) = <<>>

(* The order in which the tests are to run.                                *)
(* Mutant: the selected tests stay in the order of collection.             *)
MutantUnordered ==
    IF sequence = <<>> THEN All ELSE SelectSeq(All, LAMBDA i : Steps(i) # {})
Arranged ==
    IF sequence = <<>> THEN All
    ELSE FlattenSeq([i \in 1..Len(sequence) |-> Group(sequence[i])])

(* "Hardware tests require --stand".                                       *)
NeedsStand ==
    /\ \/ \E i \in ToSet(Arranged) : items[i].hardware
       \/ sequence = <<>> /\ hardwarePath
    /\ ~stand

RefuseItems ==
    /\ phase = "collecting"
    /\ Inapplicable \/ NeedsStand
    /\ Refuse

(* The hook of pytest's own -k, -m and --deselect runs after the plugin's: *)
(* it keeps, in their order, the tests that match.                         *)
Left(tests, matching) ==
    LET left[n \in 0..Len(tests)] ==
            IF n = 0 THEN <<>>
            ELSE IF tests[n] \in matching THEN Append(left[n - 1], tests[n])
                                          ELSE left[n - 1]
    IN  left[Len(tests)]

Collect ==
    /\ phase = "collecting"
    /\ ~Inapplicable /\ ~NeedsStand
    /\ matched' \in SUBSET (1..Len(items))
    /\ order' = Left(Arranged, matched')
    /\ phase' = "running"
    /\ UNCHANGED <<input, sequence, failFast, directory, executed>>
------------------------------------------------------------------------------
(* pytest's loop, and pytest_runtest_makereport.                           *)

(* A failure in setup, call or teardown: maxfail or session.shouldstop.  A *)
(* skip, before or in the test, is no failure.                             *)
StopsAfter(i) == failFast \/ items[i].stopOnFail

RunTest ==
    /\ phase = "running" /\ order # <<>>
    /\ \E outcome \in Outcomes :
           LET i == Head(order) IN
           /\ executed' = Append(executed, [test |-> i, outcome |-> outcome])
           /\ IF outcome = "failed" /\ StopsAfter(i)
              THEN phase' = "finished" /\ UNCHANGED order
              ELSE order' = Tail(order) /\ UNCHANGED phase
    /\ UNCHANGED <<input, sequence, failFast, directory, matched>>

FinishSession ==
    /\ phase = "running" /\ order = <<>>
    /\ phase' = "finished"
    /\ UNCHANGED <<input, sequence, failFast, directory, matched, order, executed>>

Next ==
    \/ RefuseSequence \/ RefuseDirectory \/ Configure
    \/ RefuseItems \/ Collect
    \/ RunTest \/ FinishSession

Spec == Init /\ [][Next]_vars
------------------------------------------------------------------------------
(* The reference: the place of a test in the requested sequence, from what *)
(* was asked for and not from what the plugin computed.                    *)
StepOf(i) ==
    IF ~Ordered THEN 1
    ELSE CHOOSE n \in 1..Len(option.names) : option.names[n] \in items[i].steps

(* Tests run step by step in the requested order, those of a step in the   *)
(* order of collection, each once, and none after a failure in an ordered  *)
(* session or the failure of a test that carries stop_on_fail.             *)
RunsInOrder ==
    \A m, n \in 1..Len(executed) : m < n =>
        LET i == executed[m].test
            j == executed[n].test
        IN  /\ StepOf(i) < StepOf(j) \/ (StepOf(i) = StepOf(j) /\ i < j)
            /\ executed[m].outcome = "failed" => ~Ordered /\ ~items[i].stopOnFail

(* An ordered session that finishes without a failure has come to every    *)
(* collected test of its steps that pytest's own options left, and to no   *)
(* other.  If they left all tests, then every step had one, which passed   *)
(* or was skipped.  More is not promised: -k or -m may take a whole step,  *)
(* and tests may skip themselves, in a session that stays green.           *)
GreenCameToAll ==
    phase = "finished" /\ Ordered
    /\ (\A n \in 1..Len(executed) : executed[n].outcome # "failed")
        => LET came == {executed[n].test : n \in 1..Len(executed)} IN
           /\ came = {i \in matched :
                        items[i].steps \cap ToSet(option.names) # {}}
           /\ matched = 1..Len(items) => \A n \in 1..Len(option.names) :
                  \E i \in came : items[i].steps \cap ToSet(option.names)
                                    = {option.names[n]}
==============================================================================
