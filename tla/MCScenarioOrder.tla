--------------------------- MODULE MCScenarioOrder ---------------------------
(* Model-checking instance of ScenarioOrder: two steps, and tests of no    *)
(* step, of one, of both, on hardware and critical ones.                   *)
EXTENDS ScenarioOrder

CONSTANTS first, second

BothMarkers == {first, second}

Test(steps, hardware, stopOnFail) ==
    [steps |-> steps, hardware |-> hardware, stopOnFail |-> stopOnFail]

SomeKinds ==
    {Test({}, FALSE, FALSE), Test({}, FALSE, TRUE),
     Test({first}, FALSE, FALSE), Test({second}, TRUE, FALSE),
     Test(BothMarkers, FALSE, FALSE)}
==============================================================================
