-------------------------- MODULE MCCostCodeImport --------------------------
(* Values of the constants for the run of CostCodeImport. *)
EXTENDS CostCodeImport

CONSTANTS c1, c2

ListOfOne  == <<c1>>
ListsOfTwo == {<<c1>>, <<c1, c2>>}
=============================================================================
