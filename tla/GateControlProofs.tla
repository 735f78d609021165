------------------------- MODULE GateControlProofs -------------------------
(***************************************************************************)
(* Proofs about GateControl, for every set of codes and every timeout.       *)
(***************************************************************************)
EXTENDS GateControl, TLAPS

-----------------------------------------------------------------------------
(* Facts about the operators.                                               *)

\* MaxAge is a natural number no smaller than either timeout.
LEMMA MaxAgeType ==
  /\ MaxAge \in Nat
  /\ PassTimeout <= MaxAge
  /\ HurryTimeout <= MaxAge
  BY TimeAssumption DEF MaxAge

\* Saturated ageing stays in range.
LEMMA OlderType ==
  ASSUME NEW a \in 0..MaxAge, NEW lag \in 1..MaxLag
  PROVE  Older(a, lag) \in 0..MaxAge
  BY MaxAgeType, TimeAssumption DEF Older

\* Authorize returns one of the four answers its comment names.
LEMMA AuthorizeType ==
  ASSUME NEW rec \in Records, NEW in \in BOOLEAN, NEW windowOk \in BOOLEAN
  PROVE  Authorize(rec, in, windowOk) \in Decisions
  BY ConfigAssumption DEF Authorize, Verdict, Decisions, Records

\* Authorize accepts only a movement the remembered position allows.
LEMMA AcceptChecksPosition ==
  ASSUME NEW rec \in Records, NEW in \in BOOLEAN, NEW windowOk \in BOOLEAN,
         Authorize(rec, in, windowOk) = "ACCEPT"
  PROVE  rec.position # Destination(in)
  BY ConfigAssumption DEF Authorize, Verdict, Records

\* The state the shared branch of OFF, CONFLICT and CODEWAIT chooses.
LEMMA WaitStateCases ==
  /\ WaitState \in Waiting
  /\ WaitState = "OFF" => ilStatus = "NONE"
  /\ WaitState = "CONFLICT" => ilStatus # "NONE" /\ ilConflict
  /\ WaitState = "CODEWAIT" => ilStatus # "NONE" /\ ~ilConflict
  BY DEF WaitState, Waiting

-----------------------------------------------------------------------------
(* Types.  The switch indexes the database with the captured and the counted *)
(* code, so types hold only together with the presence of those codes.       *)

CodesPresent ==
  /\ codeReceived => code \in Codes
  /\ state \in Opening \cup Refused => countedCode \in Codes

TypeInv == TypeOK /\ CodesPresent

\* ChangeState keeps the types of everything it assigns.
LEMMA ChangeStateType ==
  ASSUME TypeInv, NEW new \in States, NEW a \in 0..MaxAge, ChangeState(new, a),
         new \in Opening \cup Refused => countedCode \in Codes
  PROVE  /\ state' \in States /\ age' \in 0..MaxAge /\ gate' \in BOOLEAN
         /\ cycleInner' \in BOOLEAN /\ codeReceived' \in BOOLEAN
         /\ code' \in Codes \cup {None} /\ countedCode' \in Codes \cup {None}
         /\ heard' \in [Codes -> 0..2]
         /\ CodesPresent'
  <1>1. state' \in States /\ age' \in 0..MaxAge
    BY DEF ChangeState
  <1>2. gate' \in BOOLEAN
    BY Zenon DEF ChangeState, TypeInv, TypeOK
  <1>3. CASE new = "CODEWAIT"
    <2>1. cycleInner' \in BOOLEAN /\ codeReceived' \in BOOLEAN
      BY <1>3, Zenon DEF ChangeState, inner
    <2>2. code' \in Codes \cup {None} /\ countedCode' \in Codes \cup {None}
      BY <1>3 DEF ChangeState, TypeInv, TypeOK
    <2>3. heard' \in [Codes -> 0..2]
      BY <1>3 DEF ChangeState
    <2>4. CodesPresent'
      BY <1>3 DEF ChangeState, CodesPresent, Opening, Refused
    <2> QED BY <1>1, <1>2, <2>1, <2>2, <2>3, <2>4
  <1>4. CASE new # "CODEWAIT"
    BY <1>1, <1>2, <1>4 DEF ChangeState, TypeInv, TypeOK, CodesPresent, codeVars
  <1> QED BY <1>3, <1>4

\* Every step keeps the types.
LEMMA TypeStep == TypeInv /\ [Next]_vars => TypeInv'
  <1> SUFFICES ASSUME TypeInv, [Next]_vars PROVE TypeInv'
    OBVIOUS
  <1> USE MaxAgeType DEF TypeInv, TypeOK
  <1>0. 0 \in 0..MaxAge
    OBVIOUS
  <1>1. ASSUME NEW c \in Codes, CodeReceived(c) PROVE TypeInv'
    <2>1. heard' \in [Codes -> 0..2]
      BY <1>1 DEF CodeReceived
    <2> QED BY <1>1, <2>1 DEF CodeReceived, CodesPresent, cycleVars, loopVars, sampleVars
  <1>2. ASSUME NEW raw \in SUBSET Sides, LoopTick(raw) PROVE TypeInv'
    BY <1>2 DEF LoopTick, CodesPresent, cycleVars, codeVars, sampleVars, Sides
  <1>3. ASSUME NEW i \in Ids, NEW rec \in StoredRecords, SetRecord(i, rec) PROVE TypeInv'
    BY <1>3, StoredAssumption
    DEF SetRecord, CodesPresent, cycleVars, codeVars, loopVars, sampleVars
  <1>4. ASSUME NEW i \in Ids, ClearStatus(i) PROVE TypeInv'
    <2>1. db' \in [Ids -> Records]
      BY <1>4 DEF ClearStatus, Records, Positions
    <2> QED BY <1>4, <2>1
        DEF ClearStatus, CodesPresent, cycleVars, codeVars, loopVars, sampleVars
  <1>5. ASSUME NEW lag \in 1..MaxLag, NewTick(lag) PROVE TypeInv'
    <2>1. age' \in 0..MaxAge
      BY <1>5, OlderType DEF NewTick
    <2>2. ilChanged' \in BOOLEAN
      BY <1>5, Zenon DEF NewTick
    <2> QED BY <1>5, <2>1, <2>2 DEF NewTick, CodesPresent, codeVars, loopVars
  <1>6. CASE SameTick
    BY <1>6 DEF SameTick, CodesPresent, cycleVars, codeVars, loopVars, sampleVars
  <1>7. CASE WaitLoopChanged
    <2>1. WaitState \in States /\ WaitState \notin Opening \cup Refused
      BY WaitStateCases DEF States, Waiting, Opening, Refused
    <2> QED BY <1>0, <1>7, <2>1, ChangeStateType
        DEF WaitLoopChanged, Switch, loopVars, sampleVars
  <1>8. CASE FirstReception
    BY <1>8 DEF FirstReception, AwaitsCode, Switch, CodesPresent, cycleVars, loopVars,
                sampleVars, Opening, Refused
  <1>9. ASSUME NEW readOk \in BOOLEAN, NEW windowOk \in BOOLEAN,
               SecondReception(readOk, windowOk)
        PROVE  TypeInv'
    <2> DEFINE decision ==
          IF readOk THEN Authorize(db[code.id], inner, windowOk) ELSE "ACCEPT"
    <2>1. code \in Codes /\ countedCode \in Codes /\ code.id \in Ids
      BY <1>9 DEF SecondReception, AwaitsCode, CodesPresent, Codes
    <2>2. inner \in BOOLEAN
      BY Zenon DEF inner
    <2>3. decision \in Decisions
      BY <2>1, <2>2, AuthorizeType DEF Decisions
    <2>4. decision \in States
      BY <2>3 DEF Decisions, States, Opening, Refused
    <2>5. grant' \in Grants \cup {None}
      BY <1>9, <2>1, <2>2 DEF SecondReception, Grants
    <2>6. ChangeState(decision, 0)
      BY <1>9 DEF SecondReception
    <2> HIDE DEF decision
    <2> QED BY <1>0, <1>9, <2>1, <2>4, <2>5, <2>6, ChangeStateType
        DEF SecondReception, Switch, loopVars, sampleVars
  <1>10. ASSUME NEW writeOk \in BOOLEAN, PassLeft(writeOk) PROVE TypeInv'
    <2>1. countedCode \in Codes /\ countedCode.id \in Ids /\ countedCode.button \in Buttons
      BY <1>10 DEF PassLeft, CodesPresent, Codes
    <2>2. Destination(cycleInner) \in {"OUTSIDE", "INSIDE"}
      BY DEF Destination
    <2>3. db' \in [Ids -> Records]
      BY <1>10, <2>1, <2>2 DEF PassLeft, SetStatus, Records, Positions
    <2>4. lastPass' \in [Ids -> Passes \cup {None}]
      BY <1>10, <2>1, <2>2 DEF PassLeft, Passes
    <2>5. "OFF" \in States /\ ChangeState("OFF", 0)
      BY <1>10 DEF PassLeft, States, Waiting
    <2> QED BY <1>0, <1>10, <2>1, <2>3, <2>4, <2>5, ChangeStateType
        DEF PassLeft, Switch, loopVars, sampleVars
  <1>11. CASE PassMoved
    <2>1. CASE state # "PASSING"
      <3>1. countedCode \in Codes /\ "PASSING" \in States
        BY <1>11 DEF PassMoved, CodesPresent, States, Opening
      <3> QED BY <1>11, <2>1, <3>1, ChangeStateType
          DEF PassMoved, Switch, loopVars, sampleVars
    <2>2. CASE state = "PASSING"
      BY <1>11, <2>2 DEF PassMoved, Switch, CodesPresent, cycleVars, codeVars, loopVars,
                         sampleVars
    <2> QED BY <2>1, <2>2
  <1>12. CASE PassTimedOut
    <2>1. \E new \in {"HURRY", "OFF"} : ChangeState(new, 0)
      BY <1>12 DEF PassTimedOut
    <2>2. PICK new \in {"HURRY", "OFF"} : ChangeState(new, 0)
      BY <2>1
    <2>3. countedCode \in Codes /\ new \in States
      BY <1>12 DEF PassTimedOut, CodesPresent, States, Opening, Waiting
    <2> QED BY <1>0, <1>12, <2>2, <2>3, ChangeStateType
        DEF PassTimedOut, Switch, loopVars, sampleVars
  <1>13. CASE RefusedLeft
    <2>1. WaitState \in States /\ WaitState \notin Opening \cup Refused
      BY WaitStateCases DEF States, Waiting, Opening, Refused
    <2> QED BY <1>0, <1>13, <2>1, ChangeStateType
        DEF RefusedLeft, Switch, loopVars, sampleVars
  <1>14. CASE NothingToDo
    BY <1>14 DEF NothingToDo, Switch, CodesPresent, cycleVars, codeVars, loopVars, sampleVars
  <1>15. CASE UNCHANGED vars
    BY <1>15 DEF vars, CodesPresent, cycleVars, codeVars, loopVars, sampleVars
  <1> QED
    BY <1>1, <1>2, <1>3, <1>4, <1>5, <1>6, <1>7, <1>8, <1>9, <1>10, <1>11, <1>12, <1>13,
       <1>14, <1>15
    DEF Next, Interrupt, Command, Sample, Step

LEMMA TypeInit == Init => TypeInv
  <1> SUFFICES ASSUME Init PROVE TypeInv
    OBVIOUS
  <1>1. db \in [Ids -> Records]
    BY StoredAssumption DEF Init
  <1>2. age \in 0..MaxAge
    BY MaxAgeType DEF Init
  <1>3. heard \in [Codes -> 0..2] /\ lastPass \in [Ids -> Passes \cup {None}]
    BY DEF Init
  <1> QED BY <1>1, <1>2, <1>3
      DEF Init, TypeInv, TypeOK, CodesPresent, States, Waiting, Opening, Refused

\* Every behaviour is well typed.
THEOREM TypeCorrect == Spec => []TypeOK
  <1>1. TypeInv => TypeOK
    BY DEF TypeInv
  <1> QED BY <1>1, TypeInit, TypeStep, PTL DEF Spec

LEMMA TypeInvariant == Spec => []TypeInv
  BY TypeInit, TypeStep, PTL DEF Spec

-----------------------------------------------------------------------------
(* The state machine follows the loops it sampled.                          *)

\* Where the machine waits and where its answers stand.
Placed ==
  Settled =>
    /\ state = "CODEWAIT" => ilStatus = SideOf(cycleInner) /\ ~ilConflict
    /\ state = "CONFLICT" => ilStatus # "NONE" /\ ilConflict
    /\ state \in Refused => ilStatus = SideOf(cycleInner)
    /\ state \in Opening \ {"PASSING"} => ilStatus = SideOf(cycleInner) /\ ~ilConflict
    /\ state = "PASSING" => ilStatus # "NONE"

\* What the machine remembers of the decision it acts on.
Granted ==
  state \in Opening => /\ grant \in Grants
                       /\ grant.code = countedCode
                       /\ grant.inner = cycleInner

\* The steps of the switch that call ChangeState with a state to wait in keep Placed.
LEMMA PlacedWhenWaiting ==
  ASSUME TypeInv, Switch, ChangeState(WaitState, 0)
  PROVE  Placed'
  <1>1. state' = WaitState /\ WaitState \in Waiting
    BY WaitStateCases DEF ChangeState
  <1>2. UNCHANGED <<ilStatus, ilConflict, ilChanged>>
    BY DEF Switch, sampleVars
  <1>3. CASE WaitState = "CODEWAIT"
    <2>1. cycleInner' = inner
      BY <1>3 DEF ChangeState
    <2>2. ilStatus \in Sides /\ ~ilConflict
      BY <1>3, WaitStateCases DEF TypeInv, TypeOK
    <2>3. ilStatus = SideOf(inner)
      BY <2>2 DEF SideOf, inner, Sides
    <2> QED BY <1>1, <1>2, <1>3, <2>1, <2>2, <2>3
        DEF Placed, SideOf, Refused, Opening
  <1>4. CASE WaitState # "CODEWAIT"
    BY <1>1, <1>2, <1>4, WaitStateCases DEF Placed, Waiting, Refused, Opening
  <1> QED BY <1>3, <1>4

\* A step that leaves the cycle and the sample alone keeps Placed, unless it
\* turns an unsettled state into a settled one.
LEMMA PlacedStable ==
  ASSUME Placed, UNCHANGED <<state, cycleInner, ilStatus, ilConflict>>,
         Settled' => Settled
  PROVE  Placed'
  BY DEF Placed, SideOf

LEMMA PlacedStep == TypeInv /\ Placed /\ [Next]_vars => Placed'
  <1> SUFFICES ASSUME TypeInv, Placed, [Next]_vars PROVE Placed'
    OBVIOUS
  <1> USE DEF Settled
  <1>1. ASSUME NEW c \in Codes, CodeReceived(c) PROVE Placed'
    BY <1>1, PlacedStable DEF CodeReceived, cycleVars, sampleVars
  <1>2. ASSUME NEW raw \in SUBSET Sides, LoopTick(raw) PROVE Placed'
    BY <1>2, PlacedStable DEF LoopTick, cycleVars, sampleVars
  <1>3. ASSUME NEW i \in Ids, NEW rec \in StoredRecords, SetRecord(i, rec) PROVE Placed'
    BY <1>3, PlacedStable DEF SetRecord, cycleVars, sampleVars
  <1>4. ASSUME NEW i \in Ids, ClearStatus(i) PROVE Placed'
    BY <1>4, PlacedStable DEF ClearStatus, cycleVars, sampleVars
  <1>5. ASSUME NEW lag \in 1..MaxLag, NewTick(lag) PROVE Placed'
    <2>1. CASE ilChanged'
      BY <1>5, <2>1 DEF NewTick, Placed
    <2>2. CASE ~ilChanged'
      <3>1. UNCHANGED <<ilStatus, ilConflict>>
        BY <1>5, <2>2 DEF NewTick, loopVars
      <3> QED BY <1>5, <3>1, PlacedStable DEF NewTick
    <2> QED BY <2>1, <2>2
  <1>6. CASE SameTick
    BY <1>6, PlacedStable DEF SameTick, cycleVars, sampleVars
  <1>7. CASE WaitLoopChanged
    BY <1>7, PlacedWhenWaiting DEF WaitLoopChanged
  <1>8. CASE FirstReception
    BY <1>8, PlacedStable DEF FirstReception, AwaitsCode, Switch, cycleVars, sampleVars
  <1>9. ASSUME NEW readOk \in BOOLEAN, NEW windowOk \in BOOLEAN,
               SecondReception(readOk, windowOk)
        PROVE  Placed'
    <2> DEFINE decision ==
          IF readOk THEN Authorize(db[code.id], inner, windowOk) ELSE "ACCEPT"
    <2>1. code \in Codes /\ code.id \in Ids
      BY <1>9 DEF SecondReception, AwaitsCode, TypeInv, CodesPresent, Codes
    <2>2. decision \in Decisions
      <3>1. inner \in BOOLEAN
        BY Zenon DEF inner
      <3> QED BY <2>1, <3>1, AuthorizeType DEF Decisions, TypeInv, TypeOK
    <2>3. ChangeState(decision, 0)
      BY <1>9 DEF SecondReception
    <2>4. ilStatus = SideOf(cycleInner) /\ ~ilConflict
      BY <1>9 DEF SecondReception, AwaitsCode, Placed
    <2>5. UNCHANGED <<ilStatus, ilConflict, ilChanged>>
      BY <1>9 DEF SecondReception, Switch, sampleVars
    <2> HIDE DEF decision
    <2>6. state' = decision /\ cycleInner' = cycleInner
      BY <2>2, <2>3 DEF ChangeState, Decisions
    <2> QED BY <2>2, <2>4, <2>5, <2>6 DEF Placed, Decisions, SideOf
  <1>10. ASSUME NEW writeOk \in BOOLEAN, PassLeft(writeOk) PROVE Placed'
    BY <1>10 DEF PassLeft, ChangeState, Placed, Refused, Opening
  <1>11. CASE PassMoved
    BY <1>11 DEF PassMoved, Switch, ChangeState, Placed, Refused, Opening, cycleVars, sampleVars
  <1>12. CASE PassTimedOut
    <2>1. UNCHANGED <<ilStatus, ilConflict, ilChanged, cycleInner>> /\ ~ilChanged
      BY <1>12 DEF PassTimedOut, Switch, ChangeState, sampleVars
    <2>2. CASE state \in {"ACCEPT", "WARN"} /\ state' = "HURRY"
      BY <2>1, <2>2 DEF Placed, Opening, Refused, SideOf
    <2>3. CASE state' = "OFF"
      BY <2>3 DEF Placed, Opening, Refused
    <2> QED BY <1>12, <2>2, <2>3 DEF PassTimedOut, ChangeState
  <1>13. CASE RefusedLeft
    BY <1>13, PlacedWhenWaiting DEF RefusedLeft
  <1>14. CASE NothingToDo
    <2>1. UNCHANGED <<state, cycleInner, ilStatus, ilConflict, ilChanged>>
      BY <1>14 DEF NothingToDo, Switch, cycleVars, sampleVars
    <2>2. CASE Settled
      BY <2>1, <2>2, PlacedStable
    <2>3. CASE ~Settled
      <3>1. state \in Refused /\ ilStatus = SideOf(cycleInner)
        BY <1>14, <2>3 DEF NothingToDo, Switch, TypeInv, TypeOK, States, Waiting, Opening,
                           Refused
      <3> QED BY <2>1, <3>1 DEF Placed, Refused, Opening, SideOf
    <2> QED BY <2>2, <2>3
  <1>15. CASE UNCHANGED vars
    BY <1>15, PlacedStable DEF vars, cycleVars, sampleVars
  <1> QED
    BY <1>1, <1>2, <1>3, <1>4, <1>5, <1>6, <1>7, <1>8, <1>9, <1>10, <1>11, <1>12, <1>13,
       <1>14, <1>15
    DEF Next, Interrupt, Command, Sample, Step

LEMMA GrantedStep == TypeInv /\ Placed /\ Granted /\ [Next]_vars => Granted'
  <1> SUFFICES ASSUME TypeInv, Placed, Granted, [Next]_vars PROVE Granted'
    OBVIOUS
  <1>1. CASE Interrupt \/ Command \/ Sample \/ NothingToDo \/ UNCHANGED vars
    <2>1. UNCHANGED <<state, cycleInner, countedCode, grant>>
      BY <1>1 DEF Interrupt, Command, Sample, NothingToDo, CodeReceived, LoopTick, SetRecord,
                  ClearStatus, NewTick, SameTick, vars, cycleVars, codeVars
    <2> QED BY <2>1 DEF Granted
  <1>2. CASE WaitLoopChanged \/ RefusedLeft
    <2>1. state' \in Waiting
      BY <1>2, WaitStateCases DEF WaitLoopChanged, RefusedLeft, ChangeState
    <2> QED BY <2>1 DEF Granted, Waiting, Opening
  <1>3. CASE FirstReception
    BY <1>3 DEF FirstReception, AwaitsCode, cycleVars, Granted, Opening
  <1>4. ASSUME NEW readOk \in BOOLEAN, NEW windowOk \in BOOLEAN,
               SecondReception(readOk, windowOk)
        PROVE  Granted'
    <2> DEFINE decision ==
          IF readOk THEN Authorize(db[code.id], inner, windowOk) ELSE "ACCEPT"
    <2> SUFFICES ASSUME state' \in Opening PROVE Granted'
      BY DEF Granted
    <2>1. state' = decision
      BY <1>4 DEF SecondReception, ChangeState
    <2>2. decision \notin Refused /\ decision # "CODEWAIT"
      BY <2>1 DEF Opening, Refused
    <2>3. code \in Codes /\ code = countedCode
      BY <1>4 DEF SecondReception, AwaitsCode, TypeInv, CodesPresent
    <2>4. inner \in BOOLEAN /\ inner = cycleInner
      <3>1. ilStatus = SideOf(cycleInner)
        BY <1>4 DEF SecondReception, AwaitsCode, Placed, Settled
      <3>2. inner <=> cycleInner
        BY <3>1 DEF inner, SideOf, TypeInv, TypeOK
      <3> QED BY <3>2, Zenon DEF inner, TypeInv, TypeOK
    <2>5. grant' = [code |-> code, inner |-> inner, checked |-> readOk]
      BY <1>4, <2>2 DEF SecondReception
    <2>6. cycleInner' = cycleInner /\ countedCode' = countedCode
      BY <1>4, <2>2 DEF SecondReception, ChangeState, codeVars
    <2> QED BY <2>3, <2>4, <2>5, <2>6 DEF Granted, Grants
  <1>5. ASSUME NEW writeOk \in BOOLEAN, PassLeft(writeOk) PROVE Granted'
    BY <1>5 DEF PassLeft, ChangeState, Granted, Opening
  <1>6. CASE PassMoved \/ PassTimedOut
    BY <1>6 DEF PassMoved, PassTimedOut, ChangeState, Granted, Opening, cycleVars, codeVars
  <1> QED BY <1>1, <1>2, <1>3, <1>4, <1>5, <1>6 DEF Next, Step

-----------------------------------------------------------------------------
(* Two receptions.                                                          *)

\* What the two code registers are worth while waiting for a code.
CountedOnceHeard ==
  /\ state = "CODEWAIT" =>
       /\ codeReceived => heard[code] >= 1
       /\ countedCode \in Codes => heard[countedCode] >= 1
       /\ codeReceived /\ code = countedCode => heard[code] = 2
  /\ state \in Opening \cup Refused => heard[countedCode] = 2

LEMMA HeardStep == TypeInv /\ CountedOnceHeard /\ [Next]_vars => CountedOnceHeard'
  <1> SUFFICES ASSUME TypeInv, CountedOnceHeard, [Next]_vars PROVE CountedOnceHeard'
    OBVIOUS
  <1>1. ASSUME NEW c \in Codes, CodeReceived(c) PROVE CountedOnceHeard'
    <2>1. /\ heard'[c] = IF heard[c] < 2 THEN heard[c] + 1 ELSE 2
          /\ \A d \in Codes : d # c => heard'[d] = heard[d]
      BY <1>1 DEF CodeReceived, TypeInv, TypeOK
    <2>2. \A d \in Codes : heard[d] \in 0..2
      BY DEF TypeInv, TypeOK
    <2>3. \A d \in Codes : heard'[d] >= heard[d] /\ heard'[d] \in 0..2
      BY <2>1, <2>2
    <2>4. UNCHANGED <<state, countedCode>>
      BY <1>1 DEF CodeReceived, cycleVars
    <2>5. CASE codeReceived
      <3>1. UNCHANGED <<code, codeReceived>> /\ code \in Codes
        BY <1>1, <2>5 DEF CodeReceived, TypeInv, CodesPresent
      <3> QED BY <2>2, <2>3, <2>4, <3>1 DEF CountedOnceHeard, TypeInv, CodesPresent
    <2>6. CASE ~codeReceived
      <3>1. code' = c /\ codeReceived'
        BY <1>1, <2>6 DEF CodeReceived
      <3> QED BY <2>1, <2>2, <2>3, <2>4, <3>1 DEF CountedOnceHeard, TypeInv, CodesPresent
    <2> QED BY <2>5, <2>6
  <1>2. CASE \/ \E raw \in SUBSET Sides : LoopTick(raw)
             \/ Command \/ Sample \/ NothingToDo \/ UNCHANGED vars
    <2>1. UNCHANGED <<state, code, codeReceived, countedCode, heard>>
      BY <1>2 DEF Command, Sample, NothingToDo, LoopTick, SetRecord, ClearStatus, NewTick,
                  SameTick, vars, cycleVars, codeVars
    <2> QED BY <2>1 DEF CountedOnceHeard
  <1>3. CASE WaitLoopChanged \/ RefusedLeft
    <2>1. ChangeState(WaitState, 0)
      BY <1>3 DEF WaitLoopChanged, RefusedLeft
    <2>2. state' = WaitState /\ state' \in Waiting
      BY <2>1, WaitStateCases DEF ChangeState
    <2>3. state' = "CODEWAIT" => ~codeReceived' /\ countedCode' = None
      BY <2>1, <2>2 DEF ChangeState
    <2> QED BY <2>2, <2>3, NoneAssumption DEF CountedOnceHeard, Waiting, Opening, Refused
  <1>4. CASE FirstReception
    <2>1. /\ state = "CODEWAIT" /\ codeReceived /\ code \in Codes
          /\ UNCHANGED <<state, heard>>
          /\ countedCode' = code /\ ~codeReceived'
      BY <1>4 DEF FirstReception, AwaitsCode, TypeInv, CodesPresent, cycleVars
    <2> QED BY <2>1 DEF CountedOnceHeard, Opening, Refused
  <1>5. ASSUME NEW readOk \in BOOLEAN, NEW windowOk \in BOOLEAN,
               SecondReception(readOk, windowOk)
        PROVE  CountedOnceHeard'
    <2> DEFINE decision ==
          IF readOk THEN Authorize(db[code.id], inner, windowOk) ELSE "ACCEPT"
    <2>1. ChangeState(decision, 0)
      BY <1>5 DEF SecondReception
    <2>2. code \in Codes /\ code = countedCode /\ heard[code] = 2
      BY <1>5 DEF SecondReception, AwaitsCode, TypeInv, CodesPresent, CountedOnceHeard
    <2>3. decision \in Decisions
      <3>1. inner \in BOOLEAN
        BY Zenon DEF inner
      <3> QED BY <2>2, <3>1, AuthorizeType DEF Decisions, TypeInv, TypeOK, Codes
    <2> HIDE DEF decision
    <2>4. state' # "CODEWAIT" /\ countedCode' = countedCode /\ heard' = heard
      BY <2>1, <2>3 DEF ChangeState, Decisions, codeVars
    <2> QED BY <2>2, <2>4 DEF CountedOnceHeard
  <1>6. CASE (\E writeOk \in BOOLEAN : PassLeft(writeOk)) \/ PassMoved \/ PassTimedOut
    <2>1. /\ state \in Opening /\ state' # "CODEWAIT"
          /\ UNCHANGED <<countedCode, heard>>
      BY <1>6 DEF PassLeft, PassMoved, PassTimedOut, ChangeState, Opening, cycleVars, codeVars
    <2> QED BY <2>1 DEF CountedOnceHeard
  <1> QED BY <1>1, <1>2, <1>3, <1>4, <1>5, <1>6 DEF Next, Interrupt, Step

-----------------------------------------------------------------------------
(* The opener output and the timeouts.                                      *)

LEMMA GateStep == TypeInv /\ GateOpenOnlyToPass /\ [Next]_vars => GateOpenOnlyToPass'
  <1> SUFFICES ASSUME TypeInv, GateOpenOnlyToPass, [Next]_vars PROVE GateOpenOnlyToPass'
    OBVIOUS
  <1> USE TimeAssumption
  <1>1. CASE Interrupt \/ Command \/ UNCHANGED vars
    <2>1. UNCHANGED <<pc, state, age, gate, ilChanged>>
      BY <1>1 DEF Interrupt, Command, CodeReceived, LoopTick, SetRecord, ClearStatus, vars,
                  cycleVars, sampleVars
    <2> QED BY <2>1 DEF GateOpenOnlyToPass
  <1>2. CASE Sample
    <2>1. pc' = "switch" /\ UNCHANGED <<state, gate>>
      BY <1>2 DEF Sample, NewTick, SameTick, cycleVars
    <2> QED BY <2>1 DEF GateOpenOnlyToPass
  <1>3. CASE WaitLoopChanged \/ RefusedLeft
    <2>1. ChangeState(WaitState, 0) /\ state \in Waiting \cup Refused
      BY <1>3 DEF WaitLoopChanged, RefusedLeft
    <2>2. state' \in Waiting /\ ~gate'
      BY <2>1, WaitStateCases
      DEF ChangeState, GateOpenOnlyToPass, Waiting, Refused, Opening, TypeInv, TypeOK
    <2> QED BY <2>2 DEF GateOpenOnlyToPass, Waiting, Opening
  <1>4. CASE FirstReception
    BY <1>4 DEF FirstReception, AwaitsCode, cycleVars, GateOpenOnlyToPass, Opening
  <1>5. ASSUME NEW readOk \in BOOLEAN, NEW windowOk \in BOOLEAN,
               SecondReception(readOk, windowOk)
        PROVE  GateOpenOnlyToPass'
    <2> DEFINE decision ==
          IF readOk THEN Authorize(db[code.id], inner, windowOk) ELSE "ACCEPT"
    <2>1. ChangeState(decision, 0) /\ state = "CODEWAIT"
      BY <1>5 DEF SecondReception, AwaitsCode
    <2>2. ~gate
      BY <2>1 DEF GateOpenOnlyToPass, Opening
    <2>3. decision \in Decisions
      <3>1. inner \in BOOLEAN
        BY Zenon DEF inner
      <3>2. code.id \in Ids
        BY <1>5 DEF SecondReception, AwaitsCode, TypeInv, CodesPresent, Codes
      <3> QED BY <3>1, <3>2, AuthorizeType DEF Decisions, TypeInv, TypeOK
    <2> HIDE DEF decision
    <2>4. state' = decision /\ age' = 0 /\ (gate' <=> decision \in {"ACCEPT", "WARN"})
      BY <2>1, <2>2, <2>3 DEF ChangeState, Decisions, TypeInv, TypeOK
    <2> QED BY <2>3, <2>4 DEF GateOpenOnlyToPass, Decisions, Opening
  <1>6. ASSUME NEW writeOk \in BOOLEAN, PassLeft(writeOk) PROVE GateOpenOnlyToPass'
    BY <1>6 DEF PassLeft, ChangeState, GateOpenOnlyToPass, Opening
  <1>7. CASE PassMoved
    <2>1. state' = "PASSING" /\ gate' = gate /\ state \in Opening /\ ilChanged'
      BY <1>7 DEF PassMoved, Switch, ChangeState, cycleVars, sampleVars
    <2> QED BY <2>1 DEF GateOpenOnlyToPass, Opening
  <1>8. CASE PassTimedOut
    <2>1. CASE state' = "HURRY"
      <3>1. state \in Opening /\ age' = 0 /\ gate' = gate
        BY <1>8, <2>1 DEF PassTimedOut, ChangeState, Opening
      <3> QED BY <2>1, <3>1 DEF GateOpenOnlyToPass, Opening
    <2>2. CASE state' = "OFF"
      BY <1>8, <2>2 DEF PassTimedOut, ChangeState, GateOpenOnlyToPass, Opening
    <2> QED BY <1>8, <2>1, <2>2 DEF PassTimedOut, ChangeState
  <1>9. CASE NothingToDo
    <2>1. UNCHANGED <<state, age, gate, ilChanged>>
      BY <1>9 DEF NothingToDo, Switch, cycleVars, sampleVars
    <2>2. ~ilChanged => /\ state \in {"ACCEPT", "WARN"} => age <= PassTimeout
                        /\ state \in {"HURRY", "PASSING"} => age <= HurryTimeout
      BY <1>9 DEF NothingToDo, Waiting
    <2> QED BY <2>1, <2>2 DEF GateOpenOnlyToPass
  <1> QED BY <1>1, <1>2, <1>3, <1>4, <1>5, <1>6, <1>7, <1>8, <1>9 DEF Next, Step

-----------------------------------------------------------------------------
(* Remembered positions.                                                    *)

\* A remembered pass made with the main button is what the record says.
PassRemembered ==
  \A i \in Ids : lastPass[i] \in Passes /\ lastPass[i].button = MainButton =>
                   db[i].position = lastPass[i].to

LEMMA PassRememberedStep == TypeInv /\ PassRemembered /\ [Next]_vars => PassRemembered'
  <1> SUFFICES ASSUME TypeInv, PassRemembered, [Next]_vars PROVE PassRemembered'
    OBVIOUS
  <1>1. ASSUME NEW writeOk \in BOOLEAN, PassLeft(writeOk) PROVE PassRemembered'
    <2> DEFINE c == countedCode
    <2>1. c \in Codes /\ c.id \in Ids
      BY <1>1 DEF PassLeft, TypeInv, CodesPresent, Codes
    <2>2. /\ lastPass' = [lastPass EXCEPT ![c.id] =
               IF writeOk THEN [to |-> Destination(cycleInner), button |-> c.button]
                          ELSE None]
          /\ db' = IF writeOk /\ c.button = MainButton
                     THEN [db EXCEPT ![c.id].position = Destination(cycleInner)]
                     ELSE db
      BY <1>1 DEF PassLeft, SetStatus
    <2>3. ASSUME NEW i \in Ids, lastPass'[i] \in Passes, lastPass'[i].button = MainButton
          PROVE  db'[i].position = lastPass'[i].to
      <3>1. CASE i # c.id
        BY <2>1, <2>2, <2>3, <3>1 DEF PassRemembered, TypeInv, TypeOK
      <3>2. CASE i = c.id /\ writeOk
        BY <2>1, <2>2, <2>3, <3>2 DEF TypeInv, TypeOK, Records
      <3>3. CASE i = c.id /\ ~writeOk
        <4>1. lastPass'[i] = None
          BY <2>1, <2>2, <3>3 DEF TypeInv, TypeOK
        <4> QED BY <2>3, <4>1, NoneAssumption
      <3> QED BY <3>1, <3>2, <3>3
    <2> QED BY <2>3 DEF PassRemembered
  <1>2. ASSUME NEW i \in Ids,
               \/ \E rec \in StoredRecords : SetRecord(i, rec)
               \/ ClearStatus(i)
        PROVE  PassRemembered'
    <2>1. /\ lastPass' = [lastPass EXCEPT ![i] = None]
          /\ \A j \in Ids : j # i => db'[j] = db[j]
      BY <1>2 DEF SetRecord, ClearStatus, TypeInv, TypeOK
    <2>2. \A j \in Ids : lastPass'[j] = IF j = i THEN None ELSE lastPass[j]
      BY <2>1 DEF TypeInv, TypeOK
    <2> QED BY <2>1, <2>2, NoneAssumption DEF PassRemembered
  <1>3. CASE ~Command /\ ~(\E writeOk \in BOOLEAN : PassLeft(writeOk))
    <2>1. UNCHANGED <<db, lastPass>>
      BY <1>3 DEF Next, Interrupt, Sample, Step, CodeReceived, LoopTick, NewTick, SameTick,
                  WaitLoopChanged, FirstReception, SecondReception, PassMoved, PassTimedOut,
                  RefusedLeft, NothingToDo, vars
    <2> QED BY <2>1 DEF PassRemembered
  <1> QED BY <1>1, <1>2, <1>3 DEF Command

LEMMA AntiPassbackStep ==
  TypeInv /\ Granted /\ PassRemembered /\ AntiPassback /\ [Next]_vars => AntiPassback'
  <1> SUFFICES ASSUME TypeInv, Granted, PassRemembered, AntiPassback, [Next]_vars,
                      state' = "ACCEPT", grant'.checked, lastPass'[grant'.code.id] \in Passes
               PROVE  \/ lastPass'[grant'.code.id].to # Destination(grant'.inner)
                      \/ lastPass'[grant'.code.id].button # MainButton
    BY DEF AntiPassback
  <1>1. ASSUME NEW readOk \in BOOLEAN, NEW windowOk \in BOOLEAN,
               SecondReception(readOk, windowOk)
        PROVE  \/ lastPass'[grant'.code.id].to # Destination(grant'.inner)
               \/ lastPass'[grant'.code.id].button # MainButton
    <2>1. code.id \in Ids
      BY <1>1 DEF SecondReception, AwaitsCode, TypeInv, CodesPresent, Codes
    <2>2. state' = IF readOk THEN Authorize(db[code.id], inner, windowOk) ELSE "ACCEPT"
      BY <1>1 DEF SecondReception, ChangeState
    <2>3. grant' = [code |-> code, inner |-> inner, checked |-> readOk]
      BY <1>1, <2>2 DEF SecondReception, Refused
    <2>4. readOk /\ Authorize(db[code.id], inner, windowOk) = "ACCEPT"
      BY <2>2, <2>3
    <2>5. db[code.id].position # Destination(inner)
      <3>1. inner \in BOOLEAN
        BY Zenon DEF inner
      <3> QED BY <2>1, <2>4, <3>1, AcceptChecksPosition DEF TypeInv, TypeOK
    <2>6. lastPass' = lastPass
      BY <1>1 DEF SecondReception
    <2> QED BY <2>1, <2>3, <2>5, <2>6 DEF PassRemembered
  <1>2. ASSUME NEW i \in Ids,
               \/ \E rec \in StoredRecords : SetRecord(i, rec)
               \/ ClearStatus(i)
        PROVE  \/ lastPass'[grant'.code.id].to # Destination(grant'.inner)
               \/ lastPass'[grant'.code.id].button # MainButton
    <2>1. /\ lastPass' = [lastPass EXCEPT ![i] = None]
          /\ UNCHANGED <<state, grant, countedCode>>
      BY <1>2 DEF SetRecord, ClearStatus, cycleVars, codeVars
    <2>2. \A j \in Ids : lastPass'[j] = IF j = i THEN None ELSE lastPass[j]
      BY <2>1 DEF TypeInv, TypeOK
    <2>3. grant.code.id \in Ids /\ state = "ACCEPT"
      BY <2>1 DEF Granted, Opening, Grants, Codes
    <2>4. lastPass[grant.code.id] \in Passes /\ lastPass'[grant.code.id] = lastPass[grant.code.id]
      BY <2>1, <2>2, <2>3, NoneAssumption
    <2> QED BY <2>1, <2>3, <2>4 DEF AntiPassback
  <1>3. CASE UNCHANGED <<state, grant, lastPass>>
    BY <1>3 DEF AntiPassback
  <1>4. CASE \/ WaitLoopChanged \/ RefusedLeft \/ PassTimedOut \/ PassMoved
             \/ \E writeOk \in BOOLEAN : PassLeft(writeOk)
    <2>1. state' # "ACCEPT" \/ UNCHANGED <<state, grant, lastPass>>
      BY <1>4, WaitStateCases
      DEF WaitLoopChanged, RefusedLeft, PassTimedOut, PassMoved, PassLeft, ChangeState,
          Waiting, cycleVars
    <2> QED BY <1>3, <2>1
  <1>5. CASE Interrupt \/ Sample \/ FirstReception \/ NothingToDo \/ UNCHANGED vars
    <2>1. UNCHANGED <<state, grant, lastPass>>
      BY <1>5 DEF Interrupt, Sample, CodeReceived, LoopTick, NewTick, SameTick,
                  FirstReception, NothingToDo, cycleVars, vars
    <2> QED BY <1>3, <2>1
  <1> QED BY <1>1, <1>2, <1>4, <1>5 DEF Next, Command, Step

-----------------------------------------------------------------------------
(* The inductive invariant, and what follows from it.                       *)

IInv ==
  /\ TypeInv
  /\ Placed
  /\ Granted
  /\ CountedOnceHeard
  /\ GateOpenOnlyToPass
  /\ PassRemembered
  /\ AntiPassback

LEMMA InitInv == Init => IInv
  <1> SUFFICES ASSUME Init PROVE IInv
    OBVIOUS
  <1>1. Placed /\ Granted /\ CountedOnceHeard /\ GateOpenOnlyToPass /\ AntiPassback
    BY DEF Init, Placed, Granted, CountedOnceHeard, GateOpenOnlyToPass, AntiPassback,
           Opening, Refused
  <1>2. PassRemembered
    BY NoneAssumption DEF Init, PassRemembered
  <1> QED BY <1>1, <1>2, TypeInit DEF IInv

\* The conjunction is inductive: each part needs at most the types, Placed,
\* Granted and PassRemembered of the state before the step.
LEMMA NextInv == IInv /\ [Next]_vars => IInv'
  BY TypeStep, PlacedStep, GrantedStep, HeardStep, GateStep, PassRememberedStep,
     AntiPassbackStep
  DEF IInv

\* What the controller knows at every step, whatever the interrupts do.
THEOREM Inductive == Spec => []IInv
  BY InitInv, NextInv, PTL DEF Spec

\* The machine waits for a code only at one occupied loop, the one it booked.
THEOREM WaitingCorrect == Spec => []WaitsAtTheOccupiedLoop
  <1>1. IInv => WaitsAtTheOccupiedLoop
    BY DEF IInv, Placed, WaitsAtTheOccupiedLoop
  <1> QED BY <1>1, Inductive, PTL

\* An answer stands only for the loop, the side and the code it was given for.
THEOREM AnswersCorrect == Spec => []AnswerBelongsToCycle
  <1>1. IInv => AnswerBelongsToCycle
    BY DEF IInv, Placed, Granted, AnswerBelongsToCycle, Opening
  <1> QED BY <1>1, Inductive, PTL

\* Every decision was taken on two receptions of its code in this wait.
THEOREM TwoReceptions == Spec => []DecidedOnTwoReceptions
  <1>1. IInv => DecidedOnTwoReceptions
    BY DEF IInv, TypeInv, CodesPresent, CountedOnceHeard, DecidedOnTwoReceptions
  <1> QED BY <1>1, Inductive, PTL

\* The opener pulses exactly while a vehicle may pass, within the timeouts.
THEOREM GateCorrect == Spec => []GateOpenOnlyToPass
  <1>1. IInv => GateOpenOnlyToPass
    BY DEF IInv
  <1> QED BY <1>1, Inductive, PTL

\* No vehicle is accepted twice in the direction of its remembered pass.
THEOREM NoPassback == Spec => []AntiPassback
  <1>1. IInv => AntiPassback
    BY DEF IInv
  <1> QED BY <1>1, Inductive, PTL

\* With the main button alone the feature list's promise holds as it is stated.
THEOREM NoPassbackOneButton ==
  ASSUME Buttons = {MainButton} PROVE Spec => []AntiPassbackAnyButton
  <1>1. IInv => AntiPassbackAnyButton
    <2> SUFFICES ASSUME IInv, state = "ACCEPT", grant.checked,
                        lastPass[grant.code.id] \in Passes
                 PROVE  lastPass[grant.code.id].to # Destination(grant.inner)
      BY DEF AntiPassbackAnyButton
    <2>1. lastPass[grant.code.id].button = MainButton
      BY DEF Passes
    <2> QED BY <2>1 DEF IInv, AntiPassback
  <1> QED BY <1>1, Inductive, PTL

\* Outside the command line a position changes only at the end of a granted
\* pass, for that vehicle and to the side it was granted.
THEOREM PassesRecorded == Spec => OnlyThePassIsRecorded
  <1> DEFINE Recorded ==
        pc = "switch" =>
          \A i \in Ids : db'[i] # db[i] =>
            /\ state \in Opening /\ state' = "OFF" /\ ilStatus = "NONE"
            /\ i = grant.code.id
            /\ db'[i] = [db[i] EXCEPT !.position = Destination(grant.inner)]
  <1>1. IInv /\ [Next]_vars => [Recorded]_vars
    <2> SUFFICES ASSUME IInv, [Next]_vars, pc = "switch",
                        NEW i \in Ids, db'[i] # db[i]
                 PROVE  /\ state \in Opening /\ state' = "OFF" /\ ilStatus = "NONE"
                        /\ i = grant.code.id
                        /\ db'[i] = [db[i] EXCEPT !.position = Destination(grant.inner)]
      OBVIOUS
    <2>1. PICK writeOk \in BOOLEAN : PassLeft(writeOk)
      BY DEF Next, Interrupt, Command, Sample, Step, CodeReceived, LoopTick, SetRecord,
             ClearStatus, NewTick, SameTick, WaitLoopChanged, FirstReception,
             SecondReception, PassMoved, PassTimedOut, RefusedLeft, NothingToDo, vars
    <2>2. state \in Opening /\ state' = "OFF" /\ ilStatus = "NONE"
      BY <2>1 DEF PassLeft, ChangeState
    <2>3. grant.code = countedCode /\ grant.inner = cycleInner /\ countedCode.id \in Ids
      BY <2>2 DEF IInv, Granted, TypeInv, CodesPresent, Codes
    <2>4. db' = [db EXCEPT ![countedCode.id].position = Destination(cycleInner)]
      BY <2>1 DEF PassLeft, SetStatus
    <2> QED BY <2>2, <2>3, <2>4 DEF IInv, TypeInv, TypeOK
  <1> QED BY <1>1, Inductive, PTL DEF Spec, OnlyThePassIsRecorded
=============================================================================
