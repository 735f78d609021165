--------------------------- MODULE InductiveLoop ---------------------------
(***************************************************************************)
(* The two inductive loop detectors: InductiveLoop::Tick, in the SysTick    *)
(* interrupt, debounces both inputs and derives the status and the conflict *)
(* flag the main loop samples.                                              *)
(*                                                                         *)
(* The inputs may change at every tick.  Time is relative: apart[s] is      *)
(* now - m_lastEquals[s] as the last Tick left it.                          *)
(***************************************************************************)
EXTENDS Integers

CONSTANT Debounce  \* DEBOUNCE_MILLISECONDS, in ticks

ASSUME DebounceAssumption == Debounce \in Nat

Sides == {"INNER", "OUTER"}

VARIABLES
  level,      \* the input level of each loop at the last Tick (active high)
  debounced,  \* m_debounced
  apart,      \* now - m_lastEquals
  status,     \* m_status
  conflict,   \* m_conflict
  steady,     \* history: ticks each input has been seen at its level, 0 at start
  settled     \* history: the last level each input held longer than Debounce

vars == <<level, debounced, apart, status, conflict, steady, settled>>

Capped(n) == IF n > Debounce + 1 THEN Debounce + 1 ELSE n

\* m_lastEquals starts at 0 and the first Tick runs long after power-up, so
\* the first difference it sees is taken at once.
Init ==
  /\ level = [s \in Sides |-> FALSE]
  /\ debounced = [s \in Sides |-> FALSE]
  /\ apart = [s \in Sides |-> Debounce + 1]
  /\ status = "NONE"
  /\ conflict = FALSE
  /\ steady = [s \in Sides |-> 0]
  /\ settled = [s \in Sides |-> FALSE]

\* Mutant: a difference as long as Debounce is enough.
OutlastsEarly(s, now) == now[s] # debounced[s] /\ apart[s] + 1 >= Debounce

\* The input of s differs from its debounced level for longer than Debounce.
Outlasts(s, now) == now[s] # debounced[s] /\ apart[s] + 1 > Debounce

\* Debounce(s, now)
Debounced(s, now) == IF Outlasts(s, now) THEN now[s] ELSE debounced[s]

\* Mutant: the inner loop goes first.
NewStatusInnerFirst(raw) ==
  CASE "INNER" \in raw -> "INNER"
    [] raw = {"OUTER"} -> "OUTER"
    [] OTHER -> "NONE"

\* The status of the loops that are active in raw.
NewStatus(raw) ==
  CASE raw = Sides -> IF status = "NONE" THEN "INNER" ELSE status
    [] raw = {"INNER"} -> "INNER"
    [] raw = {"OUTER"} -> "OUTER"
    [] OTHER -> "NONE"

\* How long the input of s is known to hold its level; the first sample counts
\* as steady, because nothing is known of what was there before it.
Seen(s, now) ==
  CASE steady[s] = 0 -> Debounce + 1
    [] steady[s] # 0 /\ now[s] = level[s] -> Capped(steady[s] + 1)
    [] OTHER -> 1

\* Mutant: m_lastEquals is not refreshed when the new level is taken over.
TickNoRefresh(now) ==
  LET raw == {s \in Sides : Debounced(s, now)}
  IN  /\ debounced' = [s \in Sides |-> Debounced(s, now)]
      /\ apart' = [s \in Sides |-> IF now[s] = debounced[s] THEN 0 ELSE apart[s] + 1]
      /\ status' = NewStatus(raw)
      /\ conflict' = (raw = Sides)
      /\ level' = now
      /\ steady' = [s \in Sides |-> Seen(s, now)]
      /\ settled' = [s \in Sides |-> IF steady'[s] > Debounce THEN now[s] ELSE settled[s]]

Tick(now) ==
  LET raw == {s \in Sides : Debounced(s, now)}
  IN  /\ debounced' = [s \in Sides |-> Debounced(s, now)]
      /\ apart' = [s \in Sides |->
                     IF now[s] = debounced[s] \/ Outlasts(s, now)
                       THEN 0
                       ELSE apart[s] + 1]
      /\ status' = NewStatus(raw)
      /\ conflict' = (raw = Sides)
      /\ level' = now
      /\ steady' = [s \in Sides |-> Seen(s, now)]
      /\ settled' = [s \in Sides |-> IF steady'[s] > Debounce THEN now[s] ELSE settled[s]]

Next == \E now \in [Sides -> BOOLEAN] : Tick(now)

Spec == Init /\ [][Next]_vars

-----------------------------------------------------------------------------
(* Properties.                                                              *)

TypeOK ==
  /\ level \in [Sides -> BOOLEAN]
  /\ debounced \in [Sides -> BOOLEAN]
  /\ apart \in [Sides -> 0..(Debounce + 1)]
  /\ status \in Sides \cup {"NONE"}
  /\ conflict \in BOOLEAN
  /\ steady \in [Sides -> 0..(Debounce + 1)]
  /\ settled \in [Sides -> BOOLEAN]

\* Debounce neither lets a glitch through nor misses a steady input: the
\* debounced level is the last one the input held for longer than Debounce.
DebouncesExactly == debounced = settled

\* The status names a loop that is occupied, is NONE only when both are free, and
\* the conflict flag of the same tick says both are occupied.
NamesOccupiedLoop ==
  /\ status = "NONE" <=> \A s \in Sides : ~settled[s]
  /\ status # "NONE" => settled[status]
  /\ conflict <=> \A s \in Sides : settled[s]

\* Whichever order vehicles reach and leave the loops in, the status the controller
\* samples names an occupied loop, and one vehicle (or a second one behind it) on
\* both loops does not turn the cycle round: the status leaves a loop only once
\* that loop is free.
StatusFollowsLoops ==
  [][/\ NamesOccupiedLoop'
     /\ status # "NONE" /\ status' # status => ~settled'[status]]_vars
=============================================================================
