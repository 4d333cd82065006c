--------------------------- MODULE MCStandSession ---------------------------
(* Model-checking instance of StandSession: a stand whose first and last   *)
(* role are one device, a stand without roles, and inventories with one    *)
(* error each.                                                             *)
EXTENDS StandSession

CONSTANTS dut, analyzer, generator

MCNames == {dut, analyzer, generator}

Shared ==
    [files |-> <<{dut}, {analyzer}, {generator}>>, known |-> TRUE,
     roles |-> <<dut, analyzer, generator, dut>>, others |-> {dut},
     credentials |-> MCNames, types |-> MCNames]

MCInventories ==
    {Shared,
     [Shared EXCEPT !.roles = <<>>],
     [Shared EXCEPT !.files = <<{dut}, {analyzer}, {dut, generator}>>],
     [Shared EXCEPT !.files = <<{dut}, {generator}>>],
     [Shared EXCEPT !.files = <<{dut, analyzer}>>, !.roles = <<dut, analyzer>>,
                    !.others = {generator}],
     [Shared EXCEPT !.known = FALSE],
     [Shared EXCEPT !.credentials = {dut, analyzer}],
     [Shared EXCEPT !.types = {dut, generator}]}
==============================================================================
