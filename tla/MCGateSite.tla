----------------------------- MODULE MCGateSite -----------------------------
(***************************************************************************)
(* GateSite on small instances: the records of the vehicles in use.          *)
(***************************************************************************)
EXTENDS GateSite

\* Ordinary vehicles, wherever they are remembered to be.
OrdinaryRecords == [registered : {TRUE}, exempt : {FALSE}, position : Positions]
=============================================================================
