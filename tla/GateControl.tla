---------------------------- MODULE GateControl ----------------------------
(***************************************************************************)
(* The controller of the gate: MainLoop of gate433-stm32.                   *)
(*                                                                         *)
(* One thread runs MainLoop::Loop for ever.  Each pass reads the clock;     *)
(* when the millisecond changed it samples the inductive loops; then it     *)
(* runs the state machine once.  A pass is two steps here, a sampling step  *)
(* (NewTick or SameTick) and one step of the switch, because the radio      *)
(* interrupt (CodeReceived) and the SysTick interrupt (LoopTick) can fall   *)
(* between them.  Inside the switch an interrupt changes nothing the code   *)
(* reads there: m_code is frozen while m_codeReceived is set, and the       *)
(* switch works on the sampled copies of the loop status.                   *)
(*                                                                         *)
(* Abstractions: a database record is reduced to what Authorize tells       *)
(* apart; whether the day and minute are inside the record's window (or     *)
(* the clock is desynchronised, which skips that check) is chosen at each   *)
(* authorisation; time is the age of the current state in ticks.            *)
(***************************************************************************)
EXTENDS Integers

CONSTANTS
  Ids,              \* the 10-bit remote codes in use
  Buttons,          \* the 2-bit button numbers sent above the code
  MainButton,       \* button 0: the code is its own record number
  PassTimeout,      \* Config::passTimeout, in ticks
  HurryTimeout,     \* Config::hurryTimeout, in ticks
  MaxLag,           \* the most ticks one pass of the main loop takes
  RelaxedPos,       \* Config::relaxedPos
  RelaxedDateTime,  \* Config::relaxedDateTime
  StoredRecords,    \* the records the command line stores (bounds a run)
  None              \* 0xffff in m_code and m_countedCode; no grant, no pass yet

Codes == [id : Ids, button : Buttons]
Positions == {"UNKNOWN", "OUTSIDE", "INSIDE"}
Grants == [code : Codes, inner : BOOLEAN, checked : BOOLEAN]
Passes == [to : {"OUTSIDE", "INSIDE"}, button : Buttons]
Records == [registered : BOOLEAN, exempt : BOOLEAN, position : Positions]

ASSUME ButtonAssumption == MainButton \in Buttons
ASSUME TimeAssumption == /\ PassTimeout \in Nat
                         /\ HurryTimeout \in Nat
                         /\ MaxLag \in Nat \ {0}
ASSUME ConfigAssumption == /\ RelaxedPos \in BOOLEAN
                           /\ RelaxedDateTime \in BOOLEAN
ASSUME StoredAssumption == StoredRecords \subseteq Records
ASSUME NoneAssumption == None \notin Codes \cup Grants \cup Passes

VARIABLES
  pc,             \* "sample" at the top of a pass, "switch" before the switch
  state,          \* m_state
  age,            \* now - m_stateStartedTick, saturated at MaxAge
  cycleInner,     \* m_cycleInner: the side the current cycle began at
  code,           \* m_code
  codeReceived,   \* m_codeReceived
  countedCode,    \* m_countedCode
  gate,           \* m_gate is pulsing the opener output
  loopStatus,     \* m_loop.m_status, written by SysTick
  loopConflict,   \* m_loop.m_conflict, written by SysTick
  ilStatus,       \* ilStatus and m_ilStatus: the status last sampled
  ilConflict,     \* ilConflict and m_ilConflict
  ilChanged,      \* the last sample differed from the one before it
  db,             \* the vehicle records in the EEPROM
  heard,          \* history: receptions of each code since this wait began
  grant,          \* history: the last ACCEPT or WARN decision
  lastPass        \* history: the last recorded pass of each vehicle

loopVars == <<loopStatus, loopConflict>>
sampleVars == <<ilStatus, ilConflict, ilChanged>>
codeVars == <<code, codeReceived, countedCode, heard>>
cycleVars == <<state, age, cycleInner, gate>>
vars == <<pc, cycleVars, codeVars, loopVars, sampleVars, db, grant, lastPass>>

Sides == {"INNER", "OUTER"}
Decisions == {"ACCEPT", "WARN", "DENY", "UNREGISTERED"}
Waiting == {"OFF", "CONFLICT", "CODEWAIT"}
Refused == {"DENY", "UNREGISTERED"}
Opening == {"ACCEPT", "WARN", "HURRY", "PASSING"}
States == Waiting \cup Refused \cup Opening

MaxAge == MaxLag + (IF PassTimeout > HurryTimeout THEN PassTimeout ELSE HurryTimeout)
Older(a, lag) == IF a + lag > MaxAge THEN MaxAge ELSE a + lag

\* The local `inner`: assigned with every new ilStatus, so always its side.
inner == ilStatus = "INNER"

\* The loop a cycle that began on the inner (or the outer) side belongs to.
SideOf(in) == IF in THEN "INNER" ELSE "OUTER"
\* Where a vehicle that leaves over the inner loop (or enters) ends up.
Destination(in) == IF in THEN "OUTSIDE" ELSE "INSIDE"

-----------------------------------------------------------------------------
(* Authorize: the decision on a record for a vehicle at the inner (outer)   *)
(* loop, windowOk standing for the weekday and minute check.                *)

\* Mutant: the position is compared with the side the vehicle comes from.
VerdictSameSide(rec, in, windowOk) ==
  IF rec.position = Destination(~in)
    THEN IF RelaxedPos THEN "WARN" ELSE "DENY"
  ELSE IF ~windowOk
    THEN IF RelaxedDateTime THEN "WARN" ELSE "DENY"
  ELSE "ACCEPT"

Verdict(rec, in, windowOk) ==
  IF rec.position = Destination(in)
    THEN IF RelaxedPos THEN "WARN" ELSE "DENY"
  ELSE IF ~windowOk
    THEN IF RelaxedDateTime THEN "WARN" ELSE "DENY"
  ELSE "ACCEPT"

Authorize(rec, in, windowOk) ==
  CASE ~rec.registered -> "UNREGISTERED"
    [] rec.registered /\ rec.exempt /\ Verdict(rec, in, windowOk) = "DENY" -> "WARN"
    [] OTHER -> Verdict(rec, in, windowOk)

-----------------------------------------------------------------------------
(* ChangeState(new, inner, now), with now - m_stateStartedTick = newAge in  *)
(* the new state.                                                           *)

\* Mutant: codes heard before the vehicle arrived are kept.
ChangeStateKeepsCodes(new, newAge) ==
  /\ state' = new
  /\ age' = newAge
  /\ gate' = CASE new \in {"ACCEPT", "WARN"} -> TRUE
               [] new = "OFF" -> FALSE
               [] OTHER -> gate
  /\ IF new = "CODEWAIT"
       THEN /\ cycleInner' = inner
            /\ heard' = [c \in Codes |-> 0]
            /\ UNCHANGED <<code, codeReceived, countedCode>>
       ELSE UNCHANGED <<cycleInner, codeVars>>

\* Mutant: OFF leaves the opener output pulsing.
ChangeStateGateStaysOn(new, newAge) ==
  /\ state' = new
  /\ age' = newAge
  /\ gate' = (gate \/ new \in {"ACCEPT", "WARN"})
  /\ IF new = "CODEWAIT"
       THEN /\ countedCode' = None
            /\ codeReceived' = FALSE
            /\ cycleInner' = inner
            /\ heard' = [c \in Codes |-> 0]
            /\ UNCHANGED code
       ELSE UNCHANGED <<cycleInner, codeVars>>

ChangeState(new, newAge) ==
  /\ state' = new
  /\ age' = newAge
  /\ gate' = CASE new \in {"ACCEPT", "WARN"} -> TRUE
               [] new = "OFF" -> FALSE
               [] OTHER -> gate
  /\ IF new = "CODEWAIT"
       THEN /\ countedCode' = None
            /\ codeReceived' = FALSE
            /\ cycleInner' = inner
            /\ heard' = [c \in Codes |-> 0]
            /\ UNCHANGED code
       ELSE UNCHANGED <<cycleInner, codeVars>>

\* Mutant: the conflict flag is not looked at.
WaitStateNoConflict == IF ilStatus = "NONE" THEN "OFF" ELSE "CODEWAIT"

\* Mutant: empty loops are not told from occupied ones.
WaitStateNeverOff == IF ilConflict THEN "CONFLICT" ELSE "CODEWAIT"

\* Where the machine waits when nothing is decided for the sampled loops.
WaitState ==
  CASE ilStatus = "NONE" -> "OFF"
    [] ilStatus # "NONE" /\ ilConflict -> "CONFLICT"
    [] OTHER -> "CODEWAIT"

-----------------------------------------------------------------------------
(* Interrupts.                                                              *)

\* Mutant: a repeated code is dropped, as the code log drops it.
CodeReceivedOnChange(c) ==
  /\ IF codeReceived \/ code = c
       THEN UNCHANGED <<code, codeReceived>>
       ELSE code' = c /\ codeReceived' = TRUE
  /\ heard' = [heard EXCEPT ![c] = IF @ < 2 THEN @ + 1 ELSE 2]
  /\ UNCHANGED <<pc, cycleVars, countedCode, loopVars, sampleVars, db, grant, lastPass>>

\* CodeReceived, from the radio capture interrupt: one more transmission of c.
CodeReceived(c) ==
  /\ IF codeReceived
       THEN UNCHANGED <<code, codeReceived>>
       ELSE code' = c /\ codeReceived' = TRUE
  /\ heard' = [heard EXCEPT ![c] = IF @ < 2 THEN @ + 1 ELSE 2]
  /\ UNCHANGED <<pc, cycleVars, countedCode, loopVars, sampleVars, db, grant, lastPass>>

\* InductiveLoop::Tick, from SysTick, with raw the set of debounced active loops.
LoopTick(raw) ==
  /\ loopStatus' = CASE raw = Sides -> IF loopStatus = "NONE" THEN "INNER" ELSE loopStatus
                     [] raw = {"INNER"} -> "INNER"
                     [] raw = {"OUTER"} -> "OUTER"
                     [] OTHER -> "NONE"
  /\ loopConflict' = (raw = Sides)
  /\ loopVars' # loopVars
  /\ UNCHANGED <<pc, cycleVars, codeVars, sampleVars, db, grant, lastPass>>

-----------------------------------------------------------------------------
(* The command line, processed at the top of a pass.                        *)

\* sdb, and each record that idb writes: the position is stored with the rest.
SetRecord(i, rec) ==
  /\ pc = "sample"
  /\ db' = [db EXCEPT ![i] = rec]
  /\ lastPass' = [lastPass EXCEPT ![i] = None]
  /\ UNCHANGED <<pc, cycleVars, codeVars, loopVars, sampleVars, grant>>

\* cs, for each record of its range.
ClearStatus(i) ==
  /\ pc = "sample"
  /\ db' = [db EXCEPT ![i].position = "UNKNOWN"]
  /\ lastPass' = [lastPass EXCEPT ![i] = None]
  /\ UNCHANGED <<pc, cycleVars, codeVars, loopVars, sampleVars, grant>>

-----------------------------------------------------------------------------
(* Sampling.                                                                *)

\* now != oldTick: both fields are read under ItLock.
NewTick(lag) ==
  /\ pc = "sample"
  /\ pc' = "switch"
  /\ age' = Older(age, lag)
  /\ ilStatus' = loopStatus
  /\ ilConflict' = loopConflict
  /\ ilChanged' = (loopVars # <<ilStatus, ilConflict>>)
  /\ UNCHANGED <<state, cycleInner, gate, codeVars, loopVars, db, grant, lastPass>>

\* Another pass in the same millisecond: ilChanged keeps its value.
SameTick ==
  /\ pc = "sample"
  /\ pc' = "switch"
  /\ UNCHANGED <<cycleVars, codeVars, loopVars, sampleVars, db, grant, lastPass>>

-----------------------------------------------------------------------------
(* switch(m_state): one action per branch.                                  *)

Switch ==
  /\ pc = "switch"
  /\ pc' = "sample"
  /\ UNCHANGED <<loopVars, sampleVars>>

WaitLoopChanged ==
  /\ Switch
  /\ state \in Waiting
  /\ ilChanged
  /\ ChangeState(WaitState, 0)
  /\ UNCHANGED <<db, grant, lastPass>>

\* Mutant: a code is taken even when the loops have just changed.
AwaitsCodeAnyTime == state = "CODEWAIT" /\ codeReceived

AwaitsCode == state = "CODEWAIT" /\ ~ilChanged /\ codeReceived

FirstReception ==
  /\ Switch
  /\ AwaitsCode
  /\ code # countedCode
  /\ countedCode' = code
  /\ codeReceived' = FALSE
  /\ UNCHANGED <<cycleVars, code, heard, db, grant, lastPass>>

\* The record is read with id & 0x3ff; when that fails the answer is ACCEPT.
SecondReception(readOk, windowOk) ==
  /\ Switch
  /\ AwaitsCode
  /\ code = countedCode
  /\ LET decision == IF readOk THEN Authorize(db[code.id], inner, windowOk) ELSE "ACCEPT"
     IN /\ ChangeState(decision, 0)
        /\ grant' = IF decision \in Refused
                      THEN grant
                      ELSE [code |-> code, inner |-> inner, checked |-> readOk]
  /\ UNCHANGED <<db, lastPass>>

\* Mutant: the loop is stored instead of the side it leads to.
SetStatusOfLoop(c, position, writeOk) ==
  db' = IF writeOk /\ c.button = MainButton
          THEN [db EXCEPT ![c.id].position = ilStatus]
          ELSE db

\* setStatus addresses the record by the whole 12-bit code: with another
\* button the byte written lies beyond the table.  Its failure is ignored.
SetStatus(c, position, writeOk) ==
  db' = IF writeOk /\ c.button = MainButton
          THEN [db EXCEPT ![c.id].position = position]
          ELSE db

\* Mutant: the direction is taken from the loop now sampled.
PassLeftByCurrentSide(writeOk) ==
  /\ Switch
  /\ state \in Opening
  /\ ilChanged
  /\ ilStatus = "NONE"
  /\ SetStatus(countedCode, Destination(inner), writeOk)
  /\ lastPass' = [lastPass EXCEPT ![countedCode.id] =
                    IF writeOk
                      THEN [to |-> Destination(inner), button |-> countedCode.button]
                      ELSE None]
  /\ ChangeState("OFF", 0)
  /\ UNCHANGED grant

PassLeft(writeOk) ==
  /\ Switch
  /\ state \in Opening
  /\ ilChanged
  /\ ilStatus = "NONE"
  /\ SetStatus(countedCode, Destination(cycleInner), writeOk)
  /\ lastPass' = [lastPass EXCEPT ![countedCode.id] =
                    IF writeOk
                      THEN [to |-> Destination(cycleInner), button |-> countedCode.button]
                      ELSE None]
  /\ ChangeState("OFF", 0)
  /\ UNCHANGED grant

PassMoved ==
  /\ Switch
  /\ state \in Opening
  /\ ilChanged
  /\ ilStatus # "NONE"
  /\ IF state # "PASSING"
       THEN ChangeState("PASSING", age)
       ELSE UNCHANGED <<cycleVars, codeVars>>
  /\ UNCHANGED <<db, grant, lastPass>>

\* Mutant: every timeout leads to HURRY.
PassTimedOutHurriesAgain ==
  /\ Switch
  /\ ~ilChanged
  /\ \/ state \in {"ACCEPT", "WARN"} /\ age > PassTimeout
     \/ state \in {"HURRY", "PASSING"} /\ age > HurryTimeout
  /\ ChangeState("HURRY", 0)
  /\ UNCHANGED <<db, grant, lastPass>>

PassTimedOut ==
  /\ Switch
  /\ ~ilChanged
  /\ \/ /\ state \in {"ACCEPT", "WARN"}
        /\ age > PassTimeout
        /\ ChangeState("HURRY", 0)
     \/ /\ state \in {"HURRY", "PASSING"}
        /\ age > HurryTimeout
        /\ ChangeState("OFF", 0)
  /\ UNCHANGED <<db, grant, lastPass>>

RefusedLeft ==
  /\ Switch
  /\ state \in Refused
  /\ ilChanged
  /\ ilStatus # SideOf(cycleInner)
  /\ ChangeState(WaitState, 0)
  /\ UNCHANGED <<db, grant, lastPass>>

\* No branch of the switch applies.
NothingToDo ==
  /\ Switch
  /\ CASE state \in Waiting -> ~ilChanged /\ ~AwaitsCode
       [] state \in {"ACCEPT", "WARN"} -> ~ilChanged /\ age <= PassTimeout
       [] state \in {"HURRY", "PASSING"} -> ~ilChanged /\ age <= HurryTimeout
       [] OTHER -> ~(ilChanged /\ ilStatus # SideOf(cycleInner))
  /\ UNCHANGED <<cycleVars, codeVars, db, grant, lastPass>>

-----------------------------------------------------------------------------

Init ==
  /\ pc = "sample"
  /\ state = "OFF"
  /\ age = 0
  /\ cycleInner = FALSE
  /\ code = None
  /\ codeReceived = FALSE
  /\ countedCode = None
  /\ gate = FALSE
  /\ loopStatus = "NONE" /\ loopConflict = FALSE
  /\ ilStatus = "NONE" /\ ilConflict = FALSE /\ ilChanged = FALSE
  /\ db \in [Ids -> StoredRecords]
  /\ heard = [c \in Codes |-> 0]
  /\ grant = None
  /\ lastPass = [i \in Ids |-> None]

Interrupt ==
  \/ \E c \in Codes : CodeReceived(c)
  \/ \E raw \in SUBSET Sides : LoopTick(raw)

Command ==
  \E i \in Ids :
    \/ \E rec \in StoredRecords : SetRecord(i, rec)
    \/ ClearStatus(i)

Sample == (\E lag \in 1..MaxLag : NewTick(lag)) \/ SameTick

Step ==
  \/ WaitLoopChanged
  \/ FirstReception
  \/ \E readOk, windowOk \in BOOLEAN : SecondReception(readOk, windowOk)
  \/ \E writeOk \in BOOLEAN : PassLeft(writeOk)
  \/ PassMoved
  \/ PassTimedOut
  \/ RefusedLeft
  \/ NothingToDo

Next == Interrupt \/ Command \/ Sample \/ Step

Spec == Init /\ [][Next]_vars

\* The main loop never stops, and SysTick moves the clock on while it runs.
FairSpec ==
  /\ Spec
  /\ WF_vars(Step)
  /\ SF_vars(\E lag \in 1..MaxLag : NewTick(lag))

-----------------------------------------------------------------------------
(* Properties.                                                              *)

TypeOK ==
  /\ pc \in {"sample", "switch"}
  /\ state \in States
  /\ age \in 0..MaxAge
  /\ cycleInner \in BOOLEAN
  /\ code \in Codes \cup {None}
  /\ codeReceived \in BOOLEAN
  /\ countedCode \in Codes \cup {None}
  /\ gate \in BOOLEAN
  /\ loopStatus \in Sides \cup {"NONE"} /\ loopConflict \in BOOLEAN
  /\ ilStatus \in Sides \cup {"NONE"} /\ ilConflict \in BOOLEAN
  /\ ilChanged \in BOOLEAN
  /\ db \in [Ids -> Records]
  /\ heard \in [Codes -> 0..2]
  /\ grant \in Grants \cup {None}
  /\ lastPass \in [Ids -> Passes \cup {None}]

\* The switch has dealt with the sampled loops: no change is pending.
Settled == pc = "sample" \/ ~ilChanged

\* Once a pass has dealt with the loops, the machine waits for a code only
\* while exactly one loop is occupied, on the side the cycle is booked for, and
\* reports a conflict only while both are (the shared branch of OFF, CONFLICT
\* and CODEWAIT, reached again in the same millisecond with ilChanged still set).
WaitsAtTheOccupiedLoop ==
  Settled =>
    /\ state = "CODEWAIT" => /\ ilStatus = SideOf(cycleInner)
                             /\ ~ilConflict
    /\ state = "CONFLICT" => ilStatus # "NONE" /\ ilConflict

\* A vehicle is answered (and the gate opened) only for the loop it still
\* stands on: from the decision on, the remembered side, the counted code and
\* the sampled loop stay those of the decision until the loops change.
AnswerBelongsToCycle ==
  /\ state \in Refused /\ Settled => ilStatus = SideOf(cycleInner)
  /\ state \in Opening => /\ grant \in Grants
                          /\ grant.code = countedCode
                          /\ grant.inner = cycleInner
  /\ state \in Opening \ {"PASSING"} /\ Settled => /\ ilStatus = SideOf(cycleInner)
                                                   /\ ~ilConflict
  /\ state = "PASSING" /\ Settled => ilStatus # "NONE"

\* A decision is taken only on a code received twice since the vehicle came to
\* a stop on its loop: nothing heard before ("m_codeReceived = false" and
\* "m_countedCode = -1" in ChangeState) counts, nor one reception alone.
DecidedOnTwoReceptions ==
  state \in Opening \cup Refused => countedCode \in Codes /\ heard[countedCode] = 2

\* The opener output is pulsing exactly in the states that let a vehicle pass,
\* whatever sequence of timeouts and loop changes led there, and a pass that
\* saw no loop change leaves no state older than its timeout.
GateOpenOnlyToPass ==
  /\ gate <=> state \in Opening
  /\ pc = "sample" /\ ~ilChanged =>
       /\ state \in {"ACCEPT", "WARN"} => age <= PassTimeout
       /\ state \in {"HURRY", "PASSING"} => age <= HurryTimeout

\* A vehicle whose last pass (made with the main button) was remembered is not
\* accepted in the same direction again, unless its record could not be read.
AntiPassback ==
  state = "ACCEPT" /\ grant.checked /\ lastPass[grant.code.id] \in Passes =>
    \/ lastPass[grant.code.id].to # Destination(grant.inner)
    \/ lastPass[grant.code.id].button # MainButton

\* The same promise as the feature list makes it, for every button.
AntiPassbackAnyButton ==
  state = "ACCEPT" /\ grant.checked /\ lastPass[grant.code.id] \in Passes =>
    lastPass[grant.code.id].to # Destination(grant.inner)

\* The pass of one vehicle never moves the remembered position of another, and
\* only a vehicle that left the loops after a grant is recorded: outside the
\* command line, a position changes only to the destination of the grant.
OnlyThePassIsRecorded ==
  [][pc = "switch" =>
      \A i \in Ids : db'[i] # db[i] =>
        /\ state \in Opening /\ state' = "OFF" /\ ilStatus = "NONE"
        /\ i = grant.code.id
        /\ db'[i] = [db[i] EXCEPT !.position = Destination(grant.inner)]]_vars

\* If passes without a loop change keep coming, every opening ends: neither the
\* stale start tick PASSING inherits nor a stuck vehicle keeps the gate open.
GateCloses ==
  []<><<~ilChanged' /\ \E lag \in 1..MaxLag : NewTick(lag)>>_vars => (gate ~> ~gate)

\* Once the loops stay empty, the machine is idle for good, even after a
\* refusal, which only leaves when the loop it was given at is left.
IdleWhenEmpty == <>[](loopStatus = "NONE") => <>[](state = "OFF")
=============================================================================
