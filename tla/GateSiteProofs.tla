--------------------------- MODULE GateSiteProofs ---------------------------
(***************************************************************************)
(* Proofs about GateSite, for any number of vehicles, any timeouts and any    *)
(* configuration: the controller's invariants hold at the site, the answer is *)
(* for the vehicle at the gate, and the remembered positions are true.  What  *)
(* is assumed of the vehicles is what GateSite says of them.  The positions   *)
(* need one thing more, that nobody turns back under an open gate; it is a    *)
(* hypothesis of the theorems it is needed for.                              *)
(***************************************************************************)
EXTENDS GateSite, GateControlProofs

SiteTypes ==
  /\ driver \in Ids \cup {None}
  /\ place \in {"away", "first", "both", "between", "second"}
  /\ side \in [Ids -> {"OUTSIDE", "INSIDE"}]
  /\ Absent <=> place = "away"

DriversCode == [id |-> driver, button |-> MainButton]
OnTheWay == place \in {"both", "between", "second"}
Silent == \A c \in Codes : heard[c] = 0

\* Two occupied loops are never called NONE.
FreeLoops ==
  /\ loopStatus = "NONE" => ~loopConflict
  /\ ilStatus = "NONE" => ~ilConflict

\* What the controller knows of a vehicle that has not driven on yet: its own
\* loop at most, its own code at most, and an answer only to both.
AtFirst ==
  place = "first" =>
    /\ loopStatus \in {"NONE", SideOf(HeadsOut)} /\ ~loopConflict
    /\ ilStatus \in {"NONE", SideOf(HeadsOut)} /\ ~ilConflict
    /\ ilStatus # "NONE" => loopStatus = ilStatus
    /\ state = "CODEWAIT" => \A c \in Codes : heard[c] > 0 => c = DriversCode
    /\ state \in Opening \cup Refused => /\ ~ilChanged /\ ilStatus # "NONE"
                                         /\ countedCode = DriversCode
                                         /\ cycleInner = HeadsOut

\* Vehicles are faster than HURRY and PASSING.
InTime == state \in {"HURRY", "PASSING"} /\ ~ilChanged => age <= HurryTimeout

\* The controller and the vehicle before it, whatever the driver decides.
GateInv == IInv /\ SiteTypes /\ FreeLoops /\ AtFirst /\ InTime

-----------------------------------------------------------------------------
(* The site's steps are steps of the controller.                            *)

LEMMA ControllerSteps ==
  ASSUME SiteTypes, [SiteNext]_allVars PROVE [Next]_vars
<1>1. ASSUME Press PROVE Next
  <2>1. driver \in Ids
    BY <1>1 DEF Press, SiteTypes, Absent
  <2>2. [id |-> driver, button |-> MainButton] \in Codes
    BY <2>1, ButtonAssumption DEF Codes
  <2> QED BY <1>1, <2>2 DEF Press, Next, Interrupt
<1>2. ASSUME SenseLoops PROVE Next
  <2>1. Occupied \in SUBSET Sides
    BY DEF Occupied, SideOf, Sides
  <2> QED BY <1>2, <2>1 DEF SenseLoops, Next, Interrupt
<1>3. ASSUME SampleLoops \/ PassAgain \/ ClearPosition PROVE Next
  BY <1>3 DEF SampleLoops, PassAgain, ClearPosition, Next, Sample, Command
<1>4. ASSUME Control PROVE Next
  BY <1>4 DEF Control, Next, Step
<1> QED
  BY <1>1, <1>2, <1>3, <1>4 DEF SiteNext, Arrive, DriveOn, DriveOff, TurnBack, allVars

LEMMA SiteTypesStep == SiteTypes /\ [SiteNext]_allVars => SiteTypes'
<1> SUFFICES ASSUME SiteTypes, [SiteNext]_allVars PROVE SiteTypes'
  OBVIOUS
<1> USE DEF SiteTypes, Absent
<1>1. ASSUME NEW i \in Ids, Arrive(i) PROVE SiteTypes'
  BY <1>1, DriverAssumption DEF Arrive
<1>2. CASE DriveOn
  BY <1>2 DEF DriveOn
<1>3. CASE DriveOff
  <2>1. side' \in [Ids -> {"OUTSIDE", "INSIDE"}]
    BY <1>3 DEF DriveOff, Destination
  <2> QED BY <1>3, <2>1 DEF DriveOff
<1>4. CASE TurnBack
  BY <1>4 DEF TurnBack
<1>5. CASE UNCHANGED siteVars
  BY <1>5 DEF siteVars
<1> QED
  BY <1>1, <1>2, <1>3, <1>4, <1>5
  DEF SiteNext, Press, SenseLoops, SampleLoops, PassAgain, Control, ClearPosition, allVars, siteVars

LEMMA FreeLoopsStep == IInv /\ FreeLoops /\ [Next]_vars => FreeLoops'
<1> SUFFICES ASSUME FreeLoops, [Next]_vars PROVE FreeLoops'
  OBVIOUS
<1>1. ASSUME NEW raw \in SUBSET Sides, LoopTick(raw) PROVE FreeLoops'
  BY <1>1 DEF LoopTick, FreeLoops, Sides, sampleVars
<1>2. ASSUME NEW lag \in 1..MaxLag, NewTick(lag) PROVE FreeLoops'
  BY <1>2 DEF NewTick, FreeLoops, loopVars
<1>3. CASE UNCHANGED <<loopVars, sampleVars>>
  BY <1>3 DEF loopVars, sampleVars, FreeLoops
<1> QED
  BY <1>1, <1>2, <1>3
  DEF Next, Interrupt, Command, Sample, Step, CodeReceived, SetRecord, ClearStatus, SameTick,
      WaitLoopChanged, FirstReception, SecondReception, PassLeft, PassMoved, PassTimedOut,
      RefusedLeft, NothingToDo, Switch, vars

-----------------------------------------------------------------------------
(* What the switch does to the vehicle at the gate: one case per kind of      *)
(* branch, with what the invariants need of it.                             *)

Waits ==
  /\ state \notin Opening /\ state' \in Waiting
  /\ state' = "CODEWAIT" => Silent'
  /\ UNCHANGED db

Counts == state = "CODEWAIT" /\ UNCHANGED <<state, age, cycleInner, heard, db>>

Decides ==
  /\ state = "CODEWAIT" /\ ~ilChanged /\ state' \in Decisions
  /\ countedCode \in Codes /\ heard[countedCode] = 2 /\ code = countedCode
  /\ ilStatus = SideOf(cycleInner)
  /\ UNCHANGED <<cycleInner, countedCode, heard, db>>

RecordsPass ==
  /\ state \in Opening /\ ilStatus = "NONE" /\ state' = "OFF"
  /\ countedCode \in Codes
  /\ db' = IF countedCode.button = MainButton
             THEN [db EXCEPT ![countedCode.id].position = Destination(cycleInner)]
             ELSE db

StaysOpen ==
  /\ state \in Opening /\ state' \in Opening /\ (ilChanged \/ age' = 0)
  /\ UNCHANGED <<cycleInner, countedCode, heard, db>>

Rests == UNCHANGED <<state, age, cycleInner, countedCode, heard, db>>

LEMMA ControlCases ==
  ASSUME IInv, InTime, Control
  PROVE  /\ UNCHANGED <<siteVars, loopVars, sampleVars>>
         /\ Waits \/ Counts \/ Decides \/ RecordsPass \/ StaysOpen \/ Rests
<1>0. UNCHANGED <<siteVars, loopVars, sampleVars>>
  BY DEF Control, WaitLoopChanged, FirstReception, SecondReception, PassLeft, PassMoved,
         PassTimedOut, RefusedLeft, NothingToDo, Switch
<1>1. CASE WaitLoopChanged \/ RefusedLeft
  <2>1. state \notin Opening /\ ChangeState(WaitState, 0) /\ UNCHANGED db
    BY <1>1 DEF WaitLoopChanged, RefusedLeft, Waiting, Refused, Opening
  <2>2. state' \in Waiting
    BY <2>1, WaitStateCases DEF ChangeState
  <2>3. state' = "CODEWAIT" => Silent'
    BY <2>1 DEF ChangeState, Silent
  <2> QED BY <1>0, <2>1, <2>2, <2>3 DEF Waits
<1>2. CASE FirstReception
  BY <1>0, <1>2 DEF FirstReception, AwaitsCode, cycleVars, Counts
<1>3. ASSUME NEW windowOk \in BOOLEAN, SecondReception(TRUE, windowOk)
      PROVE  Decides
  <2>1. /\ state = "CODEWAIT" /\ ~ilChanged /\ codeReceived /\ code = countedCode
        /\ ChangeState(Authorize(db[code.id], inner, windowOk), 0) /\ UNCHANGED db
    BY <1>3 DEF SecondReception, AwaitsCode
  <2>2. code \in Codes /\ code.id \in Ids /\ db[code.id] \in Records
    BY <2>1 DEF IInv, TypeInv, TypeOK, CodesPresent, Codes
  <2>3. inner \in BOOLEAN
    BY Zenon DEF inner
  <2>4. Authorize(db[code.id], inner, windowOk) \in Decisions
    BY <2>2, <2>3, AuthorizeType
  <2>5. state' \in Decisions /\ UNCHANGED <<cycleInner, countedCode, heard>>
    BY <2>1, <2>4 DEF ChangeState, Decisions, codeVars
  <2>6. heard[countedCode] = 2
    BY <2>1 DEF IInv, CountedOnceHeard
  <2>7. ilStatus = SideOf(cycleInner)
    BY <2>1 DEF IInv, Placed, Settled
  <2> QED BY <2>1, <2>2, <2>5, <2>6, <2>7 DEF Decides
<1>4. CASE PassLeft(TRUE)
  <2>1. countedCode \in Codes
    BY <1>4 DEF PassLeft, IInv, TypeInv, CodesPresent
  <2> QED BY <1>0, <1>4, <2>1 DEF PassLeft, SetStatus, ChangeState, RecordsPass
<1>5. CASE PassMoved
  BY <1>0, <1>5 DEF PassMoved, ChangeState, cycleVars, codeVars, StaysOpen, Opening
<1>6. CASE PassTimedOut
  <2>1. ~(state \in {"HURRY", "PASSING"} /\ age > HurryTimeout)
    <3>1. age \in Nat /\ HurryTimeout \in Nat /\ ~ilChanged
      BY <1>6, TimeAssumption, MaxAgeType DEF IInv, TypeInv, TypeOK, PassTimedOut
    <3> QED BY <3>1 DEF InTime
  <2>2. state \in {"ACCEPT", "WARN"} /\ ChangeState("HURRY", 0) /\ UNCHANGED db
    BY <1>6, <2>1 DEF PassTimedOut
  <2> QED BY <1>0, <2>2 DEF ChangeState, codeVars, StaysOpen, Opening
<1>7. CASE NothingToDo
  BY <1>0, <1>7 DEF NothingToDo, cycleVars, codeVars, Rests
<1> QED BY <1>0, <1>1, <1>2, <1>3, <1>4, <1>5, <1>6, <1>7 DEF Control

-----------------------------------------------------------------------------
(* The vehicle on its first loop.                                           *)

\* A side of the gate has one loop.
LEMMA OneLoop ==
  ASSUME NEW a \in BOOLEAN, NEW b \in BOOLEAN, SideOf(a) = SideOf(b)
  PROVE  a = b
BY DEF SideOf

LEMMA InTimeStep == GateInv /\ [SiteNext]_allVars => InTime'
<1> SUFFICES ASSUME GateInv, [SiteNext]_allVars PROVE InTime'
  OBVIOUS
<1>0. HurryTimeout \in Nat /\ age \in Nat /\ MaxAge \in Nat /\ MaxLag \in Nat /\ HurryTimeout <= MaxAge
  BY TimeAssumption, MaxAgeType DEF GateInv, IInv, TypeInv, TypeOK
<1>1. CASE Control
  <2>1. CASE Waits \/ Decides \/ RecordsPass
    BY <2>1 DEF Waits, Decides, RecordsPass, InTime, Waiting, Decisions
  <2>2. CASE Counts \/ Rests \/ StaysOpen
    <3>1. UNCHANGED ilChanged
      BY <1>1, ControlCases DEF GateInv, sampleVars
    <3> QED BY <1>0, <2>2, <3>1 DEF Counts, Rests, StaysOpen, InTime, GateInv
  <2> QED BY <1>1, <2>1, <2>2, ControlCases DEF GateInv
<1>2. CASE SampleLoops
  <2>1. PICK lag \in 1..MaxLag :
          /\ state \in {"HURRY", "PASSING"} /\ loopVars = <<ilStatus, ilConflict>>
               => age + lag <= HurryTimeout
          /\ NewTick(lag)
    BY <1>2 DEF SampleLoops
  <2>2. age' = Older(age, lag) /\ UNCHANGED state /\ ilChanged' = (loopVars # <<ilStatus, ilConflict>>)
    BY <2>1 DEF NewTick
  <2>3. ASSUME state \in {"HURRY", "PASSING"}, ~ilChanged'
        PROVE  age' <= HurryTimeout
    <3>1. age + lag <= HurryTimeout
      BY <2>1, <2>2, <2>3
    <3> QED BY <1>0, <2>2, <3>1 DEF Older
  <2> QED BY <2>2, <2>3 DEF InTime
<1>3. CASE UNCHANGED <<state, age, ilChanged>>
  BY <1>3 DEF InTime, GateInv
<1> QED
  BY <1>1, <1>2, <1>3
  DEF SiteNext, Arrive, Press, DriveOn, DriveOff, TurnBack, SenseLoops, PassAgain, ClearPosition,
      CodeReceived, LoopTick, SameTick, ClearStatus, allVars, vars, cycleVars, sampleVars

LEMMA AtFirstStep == GateInv /\ [SiteNext]_allVars => AtFirst'
<1> SUFFICES ASSUME GateInv, [SiteNext]_allVars, place' = "first" PROVE AtFirst'
  BY DEF AtFirst
<1> USE DEF GateInv
<1>0. HeadsOut \in BOOLEAN /\ cycleInner \in BOOLEAN
  BY Zenon DEF HeadsOut, IInv, TypeInv, TypeOK
<1>1. ASSUME NEW i \in Ids, Arrive(i) PROVE AtFirst'
  <2>1. loopStatus = "NONE" /\ ilStatus = "NONE" /\ Settled /\ UNCHANGED vars
    BY <1>1 DEF Arrive
  <2>2. state \notin {"CODEWAIT"} \cup Refused \cup Opening
    BY <2>1 DEF IInv, Placed, Opening, SideOf
  <2> QED BY <2>1, <2>2 DEF AtFirst, FreeLoops, vars, cycleVars, loopVars, sampleVars
<1>2. CASE Press
  <2>1. /\ place = "first" /\ UNCHANGED <<siteVars, cycleVars, countedCode, loopVars, sampleVars>>
        /\ heard' = [heard EXCEPT ![DriversCode] = IF @ < 2 THEN @ + 1 ELSE 2]
    BY <1>2 DEF Press, CodeReceived, DriversCode
  <2>2. \A c \in Codes : heard'[c] = heard[c] \/ c = DriversCode
    BY <2>1 DEF IInv, TypeInv, TypeOK
  <2>3. UNCHANGED <<HeadsOut, DriversCode>>
    BY <2>1 DEF siteVars, HeadsOut, DriversCode
  <2> QED BY <2>1, <2>2, <2>3 DEF AtFirst, cycleVars, loopVars, sampleVars
<1>3. CASE SenseLoops
  <2>1. /\ place = "first" /\ LoopTick(Occupied) /\ UNCHANGED <<siteVars, cycleVars, codeVars, sampleVars>>
    BY <1>3 DEF SenseLoops, LoopTick, siteVars
  <2>2. Occupied = {SideOf(HeadsOut)}
    BY <2>1 DEF Occupied
  <2>3. loopStatus' = SideOf(HeadsOut) /\ ~loopConflict'
    <3>1. {"INNER"} # Sides /\ {"OUTER"} # Sides /\ {"INNER"} # {"OUTER"}
      BY DEF Sides
    <3>2. HeadsOut \/ ~HeadsOut
      OBVIOUS
    <3> QED BY <2>1, <2>2, <3>1, <3>2 DEF LoopTick, SideOf
  <2>4. UNCHANGED <<HeadsOut, DriversCode>>
    BY <2>1 DEF siteVars, HeadsOut, DriversCode
  <2> QED BY <2>1, <2>3, <2>4 DEF AtFirst, cycleVars, codeVars, sampleVars
<1>4. CASE SampleLoops
  <2>1. /\ place = "first" /\ UNCHANGED <<siteVars, state, cycleInner, codeVars, loopVars>>
        /\ ilStatus' = loopStatus /\ ilConflict' = loopConflict
        /\ ilChanged' = (loopVars # <<ilStatus, ilConflict>>)
    BY <1>4 DEF SampleLoops, NewTick, siteVars
  <2>2. state \in Opening \cup Refused => ~ilChanged' /\ ilStatus' # "NONE"
    BY <2>1 DEF AtFirst, loopVars, IInv, TypeInv, TypeOK
  <2>3. UNCHANGED <<HeadsOut, DriversCode>>
    BY <2>1 DEF siteVars, HeadsOut, DriversCode
  <2> QED BY <2>1, <2>2, <2>3 DEF AtFirst, codeVars, loopVars
<1>5. CASE Control
  <2>1. /\ place = "first" /\ UNCHANGED <<siteVars, loopVars, sampleVars>>
    BY <1>5, ControlCases DEF siteVars
  <2>2. UNCHANGED <<HeadsOut, DriversCode>>
    BY <2>1 DEF siteVars, HeadsOut, DriversCode
  <2>3. CASE Waits
    BY <2>1, <2>2, <2>3 DEF Waits, Silent, AtFirst, loopVars, sampleVars, Waiting, Opening, Refused
  <2>4. CASE Counts \/ Rests
    BY <2>1, <2>2, <2>4 DEF Counts, Rests, AtFirst, loopVars, sampleVars, Opening, Refused
  <2>5. CASE Decides
    <3>1. countedCode = DriversCode
      BY <2>1, <2>5 DEF Decides, AtFirst
    <3>2. ilStatus # "NONE" /\ ilStatus = SideOf(HeadsOut)
      BY <2>1, <2>5 DEF Decides, AtFirst, SideOf
    <3>3. cycleInner = HeadsOut
      BY <1>0, <2>5, <3>2, OneLoop DEF Decides
    <3>4. state' # "CODEWAIT"
      BY <2>5 DEF Decides, Decisions
    <3> QED BY <2>1, <2>2, <2>5, <3>1, <3>2, <3>3, <3>4 DEF Decides, AtFirst, loopVars, sampleVars
  <2>6. CASE StaysOpen
    BY <2>1, <2>2, <2>6 DEF StaysOpen, AtFirst, loopVars, sampleVars, Opening
  <2>7. ~RecordsPass
    BY <2>1 DEF RecordsPass, AtFirst
  <2> QED BY <1>5, <2>3, <2>4, <2>5, <2>6, <2>7, ControlCases
<1>6. CASE PassAgain \/ ClearPosition \/ UNCHANGED allVars
  <2>1. /\ UNCHANGED <<siteVars, state, cycleInner, countedCode, heard, loopVars, sampleVars>>
    BY <1>6 DEF PassAgain, SameTick, ClearPosition, ClearStatus, cycleVars, codeVars, allVars, vars
  <2>2. UNCHANGED <<HeadsOut, DriversCode>>
    BY <2>1 DEF siteVars, HeadsOut, DriversCode
  <2> QED BY <2>1, <2>2 DEF AtFirst, siteVars, loopVars, sampleVars
<1>7. ~(DriveOn \/ DriveOff \/ TurnBack)
  BY DEF DriveOn, DriveOff, TurnBack
<1> QED BY <1>1, <1>2, <1>3, <1>4, <1>5, <1>6, <1>7 DEF SiteNext

\* At the site the controller keeps its invariants, and deals with the vehicle
\* that stands at the gate.
THEOREM GateInvInductive == SiteSpec => []GateInv
<1>1. SiteInit => GateInv
  <2> SUFFICES ASSUME SiteInit PROVE GateInv
    OBVIOUS
  <2>1. Init
    BY DEF SiteInit
  <2>2. IInv
    BY <2>1, InitInv
  <2>3. SiteTypes
    BY DEF SiteInit, SiteTypes, Absent
  <2>4. FreeLoops /\ AtFirst /\ InTime
    BY <2>1 DEF SiteInit, Init, FreeLoops, AtFirst, InTime
  <2> QED BY <2>2, <2>3, <2>4 DEF GateInv
<1>2. GateInv /\ [SiteNext]_allVars => GateInv'
  <2>1. GateInv /\ [SiteNext]_allVars => IInv' /\ FreeLoops'
    BY ControllerSteps, NextInv, FreeLoopsStep DEF GateInv
  <2> QED BY <2>1, SiteTypesStep, AtFirstStep, InTimeStep DEF GateInv
<1> QED BY <1>1, <1>2, PTL DEF SiteSpec

\* The site is one more world of the controller: all that is proved of Spec in
\* GateControlProofs holds here.
THEOREM SiteIsController == SiteSpec => Spec
<1>1. SiteInit => Init
  BY DEF SiteInit
<1>2. GateInv /\ [SiteNext]_allVars => [Next]_vars
  BY ControllerSteps DEF GateInv
<1> QED BY <1>1, <1>2, GateInvInductive, PTL DEF SiteSpec, Spec

\* The controller's variables and the site's have the types of the code.
THEOREM SiteTypeCorrect == SiteSpec => []SiteTypeOK
<1>1. GateInv => SiteTypeOK
  BY DEF GateInv, IInv, TypeInv, SiteTypes, SiteTypeOK
<1> QED BY <1>1, GateInvInductive, PTL

\* The answer is for the vehicle that stands at the gate, and for the way it
\* goes, whatever the timeouts, and even where drivers turn back.
THEOREM DriverAnswered == SiteSpec => []AnswersTheDriver
<1>1. GateInv => AnswersTheDriver
  <2> SUFFICES ASSUME GateInv, state \in Decisions, place = "first"
               PROVE  countedCode.id = driver /\ cycleInner = HeadsOut
    BY DEF AnswersTheDriver
  <2>1. state \in Opening \cup Refused
    BY DEF Decisions, Opening, Refused
  <2> QED BY <2>1 DEF GateInv, AtFirst, DriversCode
<1> QED BY <1>1, GateInvInductive, PTL

-----------------------------------------------------------------------------
(* The vehicle behind its first loop, and the positions remembered.  From     *)
(* here on nobody turns back under an open gate.                            *)

\* A wait that the vehicle's driver is not part of hears nothing.
Alone == state = "CODEWAIT" /\ place # "first" => Silent

\* The gate stays open for the vehicle under way until its loop is left; then
\* its pass is over.
Underway ==
  OnTheWay =>
    /\ \/ state \in Opening /\ countedCode = DriversCode /\ cycleInner = HeadsOut
       \/ state \in Waiting /\ place # "both"
    /\ place = "both" => loopStatus # "NONE" /\ ilStatus # "NONE"

\* A vehicle that is gone before its pass is over went the way it was granted.
Gone ==
  place = "away" /\ state \in Opening =>
    countedCode.button = MainButton /\ side[countedCode.id] = Destination(cycleInner)

\* Where the controller is right to believe a vehicle to be: a pass is recorded
\* when its first loop is left, and the vehicle still has the other one to go.
Believed(i) ==
  IF i = driver /\ OnTheWay /\ state \notin Opening THEN Destination(HeadsOut) ELSE side[i]

Remembered ==
  \A i \in Ids : \/ db[i].position \in {"UNKNOWN", Believed(i)}
                 \/ place = "away" /\ state \in Opening /\ i = countedCode.id

PassInv == GateInv /\ Alone /\ Underway /\ Gone /\ Remembered

LEMMA AloneStep ==
  ASSUME MayTurnBack = FALSE, PassInv, [SiteNext]_allVars PROVE Alone'
<1> USE DEF PassInv
<1> SUFFICES ASSUME state' = "CODEWAIT", place' # "first" PROVE Silent'
  BY DEF Alone
<1>1. CASE Control
  <2>1. place # "first"
    BY <1>1, ControlCases DEF GateInv, siteVars
  <2>2. CASE Waits
    BY <2>2 DEF Waits
  <2>3. CASE Counts \/ Rests
    BY <2>1, <2>3 DEF Counts, Rests, Alone, Silent
  <2>4. ~(Decides \/ RecordsPass \/ StaysOpen)
    BY DEF Decides, RecordsPass, StaysOpen, Decisions, Opening
  <2> QED BY <1>1, <2>2, <2>3, <2>4, ControlCases DEF GateInv
<1>2. CASE TurnBack
  BY <1>2 DEF TurnBack, vars, cycleVars, codeVars, Silent, Refused
<1>3. CASE DriveOn
  <2>1. UNCHANGED vars /\ (place = "first" => gate)
    BY <1>3 DEF DriveOn
  <2>2. place # "first"
    BY <2>1 DEF vars, cycleVars, GateInv, IInv, GateOpenOnlyToPass, Opening
  <2> QED BY <2>1, <2>2 DEF Alone, Silent, vars, cycleVars, codeVars
<1>4. CASE DriveOff
  BY <1>4 DEF DriveOff, Alone, Silent, vars, cycleVars, codeVars
<1>5. CASE UNCHANGED <<siteVars, state, heard>>
  BY <1>5 DEF Alone, Silent, siteVars
<1>6. ~Press /\ \A i \in Ids : ~Arrive(i)
  BY DEF Press, Arrive, siteVars
<1> QED
  BY <1>1, <1>2, <1>3, <1>4, <1>5, <1>6
  DEF SiteNext, SenseLoops, SampleLoops, PassAgain, ClearPosition, LoopTick, NewTick, SameTick,
      ClearStatus, cycleVars, codeVars, allVars, vars

\* A decision is taken only on the driver who stands on the first loop.
LEMMA DecidesAtFirst ==
  ASSUME PassInv, Decides PROVE place = "first" /\ countedCode = DriversCode
<1>1. heard[countedCode] = 2 /\ countedCode \in Codes /\ state = "CODEWAIT"
  BY DEF Decides
<1>2. place = "first"
  BY <1>1 DEF PassInv, Alone, Silent
<1> QED BY <1>1, <1>2 DEF PassInv, GateInv, AtFirst

LEMMA UnderwayStep ==
  ASSUME PassInv, [SiteNext]_allVars PROVE Underway'
<1> USE DEF PassInv
<1> SUFFICES ASSUME OnTheWay' PROVE Underway'
  BY DEF Underway
<1>1. CASE Control
  <2>1. OnTheWay /\ UNCHANGED <<siteVars, loopVars, sampleVars>>
    BY <1>1, ControlCases DEF GateInv, OnTheWay, siteVars
  <2>2. UNCHANGED <<HeadsOut, DriversCode, OnTheWay>>
    BY <2>1 DEF siteVars, HeadsOut, DriversCode, OnTheWay
  <2>3. CASE Waits
    BY <2>1, <2>2, <2>3 DEF Waits, Underway, siteVars, loopVars, sampleVars
  <2>4. CASE Counts \/ Rests
    BY <2>1, <2>2, <2>4 DEF Counts, Rests, Underway, siteVars, loopVars, sampleVars, Opening
  <2>5. ~Decides
    BY <2>1, DecidesAtFirst DEF OnTheWay
  <2>6. CASE RecordsPass
    BY <2>1, <2>2, <2>6 DEF RecordsPass, Underway, siteVars, loopVars, sampleVars, Waiting
  <2>7. CASE StaysOpen
    BY <2>1, <2>2, <2>7 DEF StaysOpen, Underway, siteVars, loopVars, sampleVars, Opening, Waiting
  <2> QED BY <1>1, <2>3, <2>4, <2>5, <2>6, <2>7, ControlCases DEF GateInv
<1>2. CASE DriveOn
  <2>1. UNCHANGED <<vars, driver, side>> /\ (place = "first" => gate) /\ place' # place
        /\ (place' = "both" => place = "first") /\ (OnTheWay \/ place = "first")
    BY <1>2 DEF DriveOn, OnTheWay
  <2>2. UNCHANGED <<HeadsOut, DriversCode>>
    BY <2>1 DEF HeadsOut, DriversCode
  <2>3. CASE place = "first"
    <3>1. state \in Opening
      BY <2>1, <2>3 DEF GateInv, IInv, GateOpenOnlyToPass
    <3>2. loopStatus # "NONE" /\ ilStatus # "NONE" /\ countedCode = DriversCode /\ cycleInner = HeadsOut
      BY <2>3, <3>1 DEF GateInv, AtFirst
    <3> QED BY <2>1, <2>2, <3>1, <3>2 DEF Underway, vars, cycleVars, codeVars, loopVars, sampleVars
  <2>4. CASE place # "first"
    BY <2>1, <2>2, <2>4 DEF Underway, vars, cycleVars, codeVars, loopVars, sampleVars
  <2> QED BY <2>3, <2>4
<1>3. CASE SenseLoops
  <2>1. OnTheWay /\ LoopTick(Occupied) /\ UNCHANGED <<siteVars, cycleVars, codeVars, sampleVars>>
    BY <1>3 DEF SenseLoops, LoopTick, OnTheWay, siteVars
  <2>2. UNCHANGED <<HeadsOut, DriversCode>>
    BY <2>1 DEF siteVars, HeadsOut, DriversCode
  <2>3. place = "both" => loopStatus' # "NONE"
    BY <2>1 DEF Occupied, LoopTick, Sides
  <2> QED BY <2>1, <2>2, <2>3 DEF Underway, siteVars, cycleVars, codeVars, sampleVars
<1>4. CASE SampleLoops
  <2>1. OnTheWay /\ ilStatus' = loopStatus /\ UNCHANGED <<siteVars, state, cycleInner, codeVars, loopVars>>
    BY <1>4 DEF SampleLoops, NewTick, OnTheWay, siteVars
  <2>2. UNCHANGED <<HeadsOut, DriversCode>>
    BY <2>1 DEF siteVars, HeadsOut, DriversCode
  <2> QED BY <2>1, <2>2 DEF Underway, siteVars, codeVars, loopVars
<1>5. CASE PassAgain \/ ClearPosition \/ UNCHANGED allVars
  <2>1. UNCHANGED <<siteVars, state, cycleInner, countedCode, loopVars, sampleVars>>
    BY <1>5 DEF PassAgain, SameTick, ClearPosition, ClearStatus, cycleVars, codeVars, allVars, vars
  <2>2. UNCHANGED <<HeadsOut, DriversCode, OnTheWay>>
    BY <2>1 DEF siteVars, HeadsOut, DriversCode, OnTheWay
  <2> QED BY <2>1, <2>2 DEF Underway, siteVars, loopVars, sampleVars
<1>6. ~(Press \/ DriveOff \/ TurnBack) /\ \A i \in Ids : ~Arrive(i)
  BY DEF Press, DriveOff, TurnBack, Arrive, OnTheWay, siteVars
<1> QED BY <1>1, <1>2, <1>3, <1>4, <1>5, <1>6 DEF SiteNext

LEMMA GoneStep ==
  ASSUME MayTurnBack = FALSE, PassInv, [SiteNext]_allVars PROVE Gone'
<1> USE DEF PassInv
<1> SUFFICES ASSUME place' = "away", state' \in Opening
             PROVE  countedCode'.button = MainButton /\ side'[countedCode'.id] = Destination(cycleInner')
  BY DEF Gone
<1>1. CASE Control
  <2>1. place = "away" /\ UNCHANGED side
    BY <1>1, ControlCases DEF GateInv, siteVars
  <2>2. ~(Waits \/ RecordsPass \/ Counts)
    BY DEF Waits, RecordsPass, Counts, Waiting, Opening
  <2>3. ~Decides
    BY <2>1, DecidesAtFirst
  <2>4. CASE StaysOpen \/ Rests
    BY <2>1, <2>4 DEF StaysOpen, Rests, Gone
  <2> QED BY <1>1, <2>2, <2>3, <2>4, ControlCases DEF GateInv
<1>2. CASE DriveOff
  <2>1. place = "second" /\ side' = [side EXCEPT ![driver] = Destination(HeadsOut)] /\ UNCHANGED vars
    BY <1>2 DEF DriveOff
  <2>2. state \in Opening /\ UNCHANGED <<countedCode, cycleInner>>
    BY <2>1 DEF vars, cycleVars, codeVars
  <2>3. countedCode = DriversCode /\ cycleInner = HeadsOut
    BY <2>1, <2>2 DEF Underway, OnTheWay, Opening, Waiting
  <2>4. driver \in Ids
    BY <2>1 DEF GateInv, SiteTypes, Absent
  <2> QED BY <2>1, <2>2, <2>3, <2>4 DEF DriversCode, GateInv, SiteTypes
<1>3. CASE TurnBack
  <2>1. state \in Opening /\ (state \in Refused \/ Silent)
    BY <1>3 DEF TurnBack, vars, cycleVars, Silent
  <2>2. countedCode \in Codes /\ heard[countedCode] = 2
    BY <2>1 DEF GateInv, IInv, TypeInv, CodesPresent, CountedOnceHeard
  <2> QED BY <2>1, <2>2 DEF Silent, Opening, Refused
<1>4. CASE UNCHANGED <<siteVars, state, countedCode, cycleInner>>
  BY <1>4 DEF Gone, siteVars
<1>5. ~(DriveOn \/ Press) /\ \A i \in Ids : ~Arrive(i)
  BY DEF DriveOn, Press, Arrive, siteVars
<1> QED
  BY <1>1, <1>2, <1>3, <1>4, <1>5
  DEF SiteNext, SenseLoops, SampleLoops, PassAgain, ClearPosition, LoopTick, NewTick, SameTick,
      ClearStatus, cycleVars, codeVars, allVars, vars

\* The steps of the site that leave the records alone.
LEMMA RememberedBySite ==
  ASSUME MayTurnBack = FALSE, PassInv, [SiteNext]_allVars, UNCHANGED <<state, countedCode, cycleInner, db>>
  PROVE  Remembered'
<1> USE DEF PassInv
<1>1. CASE UNCHANGED siteVars
  BY <1>1 DEF Remembered, Believed, OnTheWay, HeadsOut, siteVars
<1>2. ASSUME NEW j \in Ids, Arrive(j) PROVE Remembered'
  <2>1. place = "away" /\ place' = "first" /\ UNCHANGED side /\ state \notin Opening
    BY <1>2 DEF Arrive, Absent, GateInv, SiteTypes, IInv, Placed, Opening, SideOf
  <2> QED BY <2>1 DEF Remembered, Believed, OnTheWay
<1>3. CASE DriveOn
  <2>1. /\ UNCHANGED <<driver, side>> /\ OnTheWay'
        /\ OnTheWay \/ (place = "first" /\ state \in Opening)
    BY <1>3 DEF DriveOn, OnTheWay, GateInv, IInv, GateOpenOnlyToPass
  <2> QED BY <2>1 DEF Remembered, Believed, OnTheWay, HeadsOut
<1>4. CASE DriveOff
  <2>1. /\ place = "second" /\ place' = "away"
        /\ side' = [side EXCEPT ![driver] = Destination(HeadsOut)]
    BY <1>4 DEF DriveOff
  <2>2. driver \in Ids
    BY <2>1 DEF GateInv, SiteTypes, Absent
  <2>3. state \in Opening => countedCode.id = driver
    BY <2>1 DEF Underway, OnTheWay, DriversCode, Opening, Waiting
  <2>4. ASSUME NEW i \in Ids
        PROVE  db[i].position \in {"UNKNOWN", side'[i]} \/ (state \in Opening /\ i = countedCode.id)
    BY <2>1, <2>2, <2>3 DEF Remembered, Believed, OnTheWay, GateInv, SiteTypes
  <2> QED BY <2>1, <2>4 DEF Remembered, Believed, OnTheWay
<1>5. CASE TurnBack
  <2>1. place = "first" /\ place' = "away" /\ UNCHANGED side
    BY <1>5 DEF TurnBack
  <2> QED BY <2>1 DEF Remembered, Believed, OnTheWay
<1> QED
  BY <1>1, <1>2, <1>3, <1>4, <1>5
  DEF SiteNext, Press, SenseLoops, SampleLoops, PassAgain, Control, ClearPosition, allVars

LEMMA RememberedStep ==
  ASSUME MayTurnBack = FALSE, PassInv, [SiteNext]_allVars PROVE Remembered'
<1> USE DEF PassInv
<1>1. CASE Control
  <2>1. UNCHANGED siteVars
    BY <1>1, ControlCases DEF GateInv
  <2>2. UNCHANGED <<HeadsOut, OnTheWay>>
    BY <2>1 DEF HeadsOut, OnTheWay, siteVars
  <2>3. CASE Waits \/ Counts \/ Rests \/ StaysOpen
    <3>1. UNCHANGED db /\ (state \in Opening <=> state' \in Opening)
          /\ (state \in Opening => UNCHANGED countedCode)
      BY <2>3 DEF Waits, Counts, Rests, StaysOpen, Waiting, Opening
    <3> QED BY <2>1, <2>2, <3>1 DEF Remembered, Believed, siteVars
  <2>4. CASE Decides
    <3>1. place = "first" /\ state \notin Opening /\ UNCHANGED db
      BY <2>4, DecidesAtFirst DEF Decides, Opening
    <3> QED BY <2>1, <3>1 DEF Remembered, Believed, OnTheWay, siteVars
  <2>5. CASE RecordsPass
    <3>1. /\ state \in Opening /\ ilStatus = "NONE" /\ state' \notin Opening
          /\ countedCode \in Codes /\ countedCode.id \in Ids
          /\ db' = IF countedCode.button = MainButton
                     THEN [db EXCEPT ![countedCode.id].position = Destination(cycleInner)]
                     ELSE db
      BY <2>5 DEF RecordsPass, Opening, Codes
    <3>2. place # "first"
      BY <3>1 DEF GateInv, AtFirst
    <3>3. CASE OnTheWay
      <4>1. countedCode = DriversCode /\ cycleInner = HeadsOut
        BY <3>1, <3>3 DEF Underway, Opening, Waiting
      <4>2. db' = [db EXCEPT ![driver].position = Destination(HeadsOut)] /\ driver \in Ids
        BY <3>1, <4>1 DEF DriversCode
      <4>3. ASSUME NEW i \in Ids PROVE db'[i].position \in {"UNKNOWN", Believed(i)'}
        BY <2>1, <2>2, <3>1, <3>3, <4>2
        DEF Remembered, Believed, siteVars, OnTheWay, GateInv, IInv, TypeInv, TypeOK, Records
      <4> QED BY <4>3 DEF Remembered
    <3>4. CASE place = "away"
      <4>1. countedCode.button = MainButton /\ side[countedCode.id] = Destination(cycleInner)
        BY <3>1, <3>4 DEF Gone
      <4>2. ASSUME NEW i \in Ids PROVE db'[i].position \in {"UNKNOWN", side[i]}
        BY <3>1, <3>4, <4>1
        DEF Remembered, Believed, OnTheWay, GateInv, IInv, TypeInv, TypeOK, Records
      <4> QED BY <2>1, <3>4, <4>2 DEF Remembered, Believed, OnTheWay, siteVars
    <3> QED BY <3>2, <3>3, <3>4 DEF GateInv, SiteTypes, OnTheWay
  <2> QED BY <1>1, <2>3, <2>4, <2>5, ControlCases DEF GateInv
<1>2. CASE ClearPosition
  <2>1. PICK j \in Ids : ClearStatus(j) /\ UNCHANGED siteVars
    BY <1>2 DEF ClearPosition
  <2>2. db' = [db EXCEPT ![j].position = "UNKNOWN"] /\ UNCHANGED <<siteVars, state, countedCode>>
    BY <2>1 DEF ClearStatus, cycleVars, codeVars
  <2>3. \A i \in Ids : db'[i].position = "UNKNOWN" \/ db'[i].position = db[i].position
    BY <2>2 DEF GateInv, IInv, TypeInv, TypeOK, Records
  <2> QED BY <2>2, <2>3 DEF Remembered, Believed, OnTheWay, HeadsOut, siteVars
<1>3. CASE UNCHANGED <<state, countedCode, cycleInner, db>>
  BY <1>3, RememberedBySite
<1> QED
  BY <1>1, <1>2, <1>3
  DEF SiteNext, Arrive, Press, DriveOn, DriveOff, TurnBack, SenseLoops, SampleLoops, PassAgain,
      CodeReceived, LoopTick, NewTick, SameTick, allVars, vars, cycleVars, codeVars

\* What the controller remembers of the vehicles, from their arrival until the
\* site is empty again.
THEOREM PassInvInductive ==
  ASSUME MayTurnBack = FALSE PROVE SiteSpec => []PassInv
<1>1. SiteInit => Alone /\ Underway /\ Gone /\ Remembered
  BY DEF SiteInit, Init, Alone, Underway, OnTheWay, Gone, Remembered, Believed, Opening
<1>2. GateInv /\ Alone /\ Underway /\ Gone /\ Remembered /\ [SiteNext]_allVars
        => (Alone /\ Underway /\ Gone /\ Remembered)'
  BY AloneStep, UnderwayStep, GoneStep, RememberedStep DEF PassInv
<1>3. GateInv /\ Alone /\ Underway /\ Gone /\ Remembered => PassInv
  BY DEF PassInv
<1> QED BY <1>1, <1>2, <1>3, GateInvInductive, PTL DEF SiteSpec

\* "Position of each vehicle (inside, outside, unknown) is remembered": when the
\* site is empty and the controller idle no vehicle is remembered where it is
\* not, if no driver turned back under an open gate.
THEOREM PositionsTrue ==
  ASSUME MayTurnBack = FALSE PROVE SiteSpec => []PositionIsTrue
<1>1. PassInv => PositionIsTrue
  <2> SUFFICES ASSUME PassInv, Absent, state = "OFF", NEW i \in Ids
               PROVE  db[i].position \in {"UNKNOWN", side[i]}
    BY DEF PositionIsTrue
  <2>1. place = "away" /\ state \notin Opening
    BY DEF PassInv, GateInv, SiteTypes, Opening
  <2> QED BY <2>1 DEF PassInv, Remembered, Believed, OnTheWay
<1> QED BY <1>1, PassInvInductive, PTL

\* A registered driver who comes within the window of the record is accepted,
\* whatever passed, was refused or was cleared before.
THEOREM EntitledAccepted ==
  ASSUME MayTurnBack = FALSE PROVE SiteSpec => EntitledIsAccepted
<1>1. PassInv /\ [SiteNext]_allVars
        => [SecondReception(TRUE, TRUE) /\ db[code.id].registered => state' = "ACCEPT"]_allVars
  <2> SUFFICES ASSUME PassInv, SecondReception(TRUE, TRUE), db[code.id].registered
               PROVE  state' = "ACCEPT"
    OBVIOUS
  <2>1. /\ state = "CODEWAIT" /\ ~ilChanged /\ codeReceived /\ code = countedCode
        /\ state' = Authorize(db[code.id], inner, TRUE)
    BY DEF SecondReception, AwaitsCode, ChangeState
  <2>2. code \in Codes /\ heard[code] = 2
    BY <2>1 DEF PassInv, GateInv, IInv, TypeInv, CodesPresent, CountedOnceHeard
  <2>3. place = "first"
    BY <2>1, <2>2 DEF PassInv, Alone, Silent
  <2>4. code.id = driver /\ driver \in Ids
    BY <2>1, <2>2, <2>3 DEF PassInv, GateInv, AtFirst, DriversCode, SiteTypes, Absent
  <2>5. ilStatus = SideOf(HeadsOut)
    BY <2>1, <2>3 DEF PassInv, GateInv, IInv, Placed, Settled, AtFirst, SideOf
  <2>6. inner <=> HeadsOut
    BY <2>5 DEF inner, SideOf
  <2>7. db[driver].position \in {"UNKNOWN", side[driver]} /\ side[driver] \in {"OUTSIDE", "INSIDE"}
    BY <2>3, <2>4 DEF PassInv, Remembered, Believed, OnTheWay, GateInv, SiteTypes
  <2>8. db[driver].position # Destination(inner)
    BY <2>6, <2>7 DEF Destination, HeadsOut
  <2> QED BY <2>1, <2>4, <2>8 DEF Authorize, Verdict
<1> QED BY <1>1, PassInvInductive, PTL DEF SiteSpec, EntitledIsAccepted
=============================================================================
