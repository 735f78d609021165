------------------------------ MODULE GateSite ------------------------------
(***************************************************************************)
(* GateControl at its site: one vehicle at a time comes to the gate, its     *)
(* driver presses the remote, and the vehicle moves over the loops while the *)
(* gate is open.  Here the loops follow the vehicle and the codes come from  *)
(* its driver, so what the controller remembers can be compared with where   *)
(* the vehicles really are.                                                  *)
(*                                                                         *)
(* The EEPROM works.  Nobody presses who is not at the gate.  Vehicles clear *)
(* the loops before HURRY and PASSING time out, and the next one comes when  *)
(* the controller has dealt with the empty loops.  The two loops may lie so close  *)
(* that a vehicle stands on both, or so far apart that it stands on none.    *)
(***************************************************************************)
EXTENDS GateControl

CONSTANT MayTurnBack  \* a driver may leave the way he came after the gate opened

ASSUME TurnBackAssumption == MayTurnBack \in BOOLEAN
ASSUME DriverAssumption == None \notin Ids

VARIABLES
  driver,  \* the vehicle at the gate
  place,   \* where it stands, the loop it reached first being "first"
  side     \* where each vehicle really is

siteVars == <<driver, place, side>>
allVars == <<vars, siteVars>>

Absent == driver = None
HeadsOut == side[driver] = "INSIDE"

Occupied ==
  CASE place = "first" -> {SideOf(HeadsOut)}
    [] place = "both" -> Sides
    [] place = "second" -> {SideOf(~HeadsOut)}
    [] OTHER -> {}

-----------------------------------------------------------------------------
(* Drivers.                                                                 *)

Arrive(i) ==
  /\ Absent
  /\ loopStatus = "NONE" /\ ilStatus = "NONE" /\ Settled
  /\ driver' = i
  /\ place' = "first"
  /\ UNCHANGED <<vars, side>>

Press ==
  /\ place = "first"
  /\ CodeReceived([id |-> driver, button |-> MainButton])
  /\ UNCHANGED siteVars

DriveOn ==
  /\ \/ place = "first" /\ gate /\ place' \in {"both", "between"}
     \/ place \in {"both", "between"} /\ place' = "second"
  /\ UNCHANGED <<vars, driver, side>>

DriveOff ==
  /\ place = "second"
  /\ side' = [side EXCEPT ![driver] = Destination(HeadsOut)]
  /\ driver' = None
  /\ place' = "away"
  /\ UNCHANGED vars

\* A driver who was refused, or who did not press yet, leaves the way he came.
TurnBack ==
  /\ place = "first"
  /\ \/ MayTurnBack
     \/ state \in Refused
     \/ \A c \in Codes : heard[c] = 0
  /\ driver' = None
  /\ place' = "away"
  /\ UNCHANGED <<vars, side>>

-----------------------------------------------------------------------------
(* The controller.                                                          *)

SenseLoops == LoopTick(Occupied) /\ UNCHANGED siteVars

\* Time does not run past the last timeout while the loops stay as they are.
SampleLoops ==
  /\ \E lag \in 1..MaxLag :
       /\ state \in {"HURRY", "PASSING"} /\ loopVars = <<ilStatus, ilConflict>>
            => age + lag <= HurryTimeout
       /\ NewTick(lag)
  /\ UNCHANGED siteVars

PassAgain == SameTick /\ UNCHANGED siteVars

Control ==
  /\ \/ WaitLoopChanged
     \/ FirstReception
     \/ \E windowOk \in BOOLEAN : SecondReception(TRUE, windowOk)
     \/ PassLeft(TRUE)
     \/ PassMoved
     \/ PassTimedOut
     \/ RefusedLeft
     \/ NothingToDo
  /\ UNCHANGED siteVars

ClearPosition == (\E i \in Ids : ClearStatus(i)) /\ UNCHANGED siteVars

SiteInit ==
  /\ Init
  /\ driver = None
  /\ place = "away"
  /\ side \in [Ids -> {"OUTSIDE", "INSIDE"}]
  /\ \A i \in Ids : db[i].position \in {"UNKNOWN", side[i]}

SiteNext ==
  \/ \E i \in Ids : Arrive(i)
  \/ Press
  \/ DriveOn
  \/ DriveOff
  \/ TurnBack
  \/ SenseLoops
  \/ SampleLoops
  \/ PassAgain
  \/ Control
  \/ ClearPosition

SiteSpec == SiteInit /\ [][SiteNext]_allVars

\* Drivers keep pressing and moving; the loops are sensed and sampled.
FairSiteSpec ==
  /\ SiteSpec
  /\ WF_allVars(Press) /\ WF_allVars(DriveOn) /\ WF_allVars(DriveOff)
  /\ WF_allVars(SenseLoops)
  /\ WF_allVars(Control)
  /\ SF_allVars(SampleLoops)

-----------------------------------------------------------------------------
(* Properties.                                                              *)

SiteTypeOK ==
  /\ TypeOK
  /\ driver \in Ids \cup {None}
  /\ place \in {"away", "first", "both", "between", "second"}
  /\ side \in [Ids -> {"OUTSIDE", "INSIDE"}]
  /\ Absent <=> place = "away"

\* "Position of each vehicle (inside, outside, unknown) is remembered": when the
\* site is empty and the controller idle, it remembers nothing wrong.
PositionIsTrue ==
  Absent /\ state = "OFF" /\ loopStatus = "NONE" =>
    \A i \in Ids : db[i].position \in {"UNKNOWN", side[i]}

\* A registered driver who comes within the window of the record, pressing the
\* remote of the vehicle, is accepted: the position remembered from whatever
\* passes, refusals and clearings went before never speaks against the vehicle.
EntitledIsAccepted ==
  [][SecondReception(TRUE, TRUE) /\ db[code.id].registered => state' = "ACCEPT"]_allVars

\* The answer is for the vehicle that stands at the gate and for the way it goes.
AnswersTheDriver ==
  state \in Decisions /\ place = "first" => /\ countedCode.id = driver
                                            /\ cycleInner = HeadsOut

\* A driver who stays on the loop and keeps pressing is answered.
DriverIsAnswered == place = "first" ~> place # "first" \/ state \in Decisions
=============================================================================
