--------------------------- MODULE MCGateControl ---------------------------
(***************************************************************************)
(* GateControl on small instances: the records the command line may store.   *)
(***************************************************************************)
EXTENDS GateControl, TLC

\* Ordinary vehicles, wherever they are remembered to be.
OrdinaryRecords == [registered : {TRUE}, exempt : {FALSE}, position : Positions]

\* Every kind of record.
AnyRecords == Records

\* No definition tells one remote code from another.
IdSymmetry == Permutations(Ids)
=============================================================================
