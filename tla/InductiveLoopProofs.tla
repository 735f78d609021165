------------------------ MODULE InductiveLoopProofs ------------------------
(***************************************************************************)
(* Proofs about InductiveLoop, for every debounce time: debouncing concludes *)
(* exactly what the inputs justify, and the status of the loops follows it.  *)
(***************************************************************************)
EXTENDS InductiveLoop, TLAPS

\* The time m_lastEquals stands for: since when the input differs from the
\* debounced level, which is how long it has been steady.
Measures ==
  \A s \in Sides : steady[s] # 0 =>
    IF level[s] = debounced[s]
      THEN apart[s] = 0
      ELSE apart[s] = steady[s] /\ steady[s] <= Debounce

\* Before the first tick a difference is taken over at once.
Unknown == \A s \in Sides : steady[s] = 0 => apart[s] = Debounce + 1

IInv == TypeOK /\ Measures /\ Unknown /\ DebouncesExactly

\* One input in one tick.
LEMMA OneInput ==
  ASSUME IInv, NEW now \in [Sides -> BOOLEAN], Tick(now), NEW s \in Sides
  PROVE  /\ debounced'[s] \in BOOLEAN /\ settled'[s] = debounced'[s]
         /\ apart'[s] \in 0..(Debounce + 1) /\ steady'[s] \in 1..(Debounce + 1)
         /\ IF now[s] = debounced'[s]
              THEN apart'[s] = 0
              ELSE apart'[s] = steady'[s] /\ steady'[s] <= Debounce
<1> DEFINE known == Seen(s, now)
<1>1. /\ debounced'[s] = Debounced(s, now)
      /\ apart'[s] = IF now[s] = debounced[s] \/ Outlasts(s, now) THEN 0 ELSE apart[s] + 1
      /\ steady'[s] = known
      /\ settled'[s] = IF known > Debounce THEN now[s] ELSE settled[s]
  BY DEF Tick
<1>2. /\ now[s] \in BOOLEAN /\ level[s] \in BOOLEAN /\ debounced[s] \in BOOLEAN
      /\ apart[s] \in 0..(Debounce + 1) /\ steady[s] \in 0..(Debounce + 1)
      /\ settled[s] = debounced[s] /\ Debounce \in Nat
  BY DebounceAssumption DEF IInv, TypeOK, DebouncesExactly
<1>3. CASE steady[s] = 0
  <2>1. known = Debounce + 1 /\ apart[s] = Debounce + 1
    BY <1>3 DEF Seen, IInv, Unknown
  <2> QED BY <1>1, <1>2, <2>1 DEF Debounced, Outlasts
<1>4. CASE steady[s] # 0 /\ now[s] = level[s]
  <2>1. known = IF steady[s] + 1 > Debounce + 1 THEN Debounce + 1 ELSE steady[s] + 1
    BY <1>4 DEF Seen, Capped
  <2>2. IF level[s] = debounced[s] THEN apart[s] = 0 ELSE apart[s] = steady[s] /\ steady[s] <= Debounce
    BY <1>4 DEF IInv, Measures
  <2> HIDE DEF known
  <2>3. CASE level[s] = debounced[s]
    BY <1>1, <1>2, <1>4, <2>1, <2>2, <2>3 DEF Debounced, Outlasts
  <2>4. CASE level[s] # debounced[s]
    <3>1. known = steady[s] + 1
      BY <1>2, <2>1, <2>2, <2>4
    <3>2. Outlasts(s, now) <=> known > Debounce
      BY <1>2, <1>4, <2>2, <2>4, <3>1 DEF Outlasts
    <3> QED BY <1>1, <1>2, <1>4, <2>2, <2>4, <3>1, <3>2 DEF Debounced
  <2> QED BY <2>3, <2>4
<1>5. CASE steady[s] # 0 /\ now[s] # level[s]
  <2>1. known = 1
    BY <1>5 DEF Seen
  <2>2. IF level[s] = debounced[s] THEN apart[s] = 0 ELSE apart[s] = steady[s] /\ steady[s] <= Debounce
    BY <1>5 DEF IInv, Measures
  <2> HIDE DEF known
  <2>3. CASE level[s] = debounced[s]
    BY <1>1, <1>2, <1>5, <2>1, <2>2, <2>3 DEF Debounced, Outlasts
  <2>4. CASE level[s] # debounced[s]
    <3>1. now[s] = debounced[s]
      BY <1>2, <1>5, <2>4
    <3> QED BY <1>1, <1>2, <2>1, <3>1 DEF Debounced, Outlasts
  <2> QED BY <2>3, <2>4
<1> QED BY <1>3, <1>4, <1>5

\* The status after a tick, by the loops that are occupied then.
LEMMA StatusStep ==
  ASSUME NEW now \in [Sides -> BOOLEAN], Tick(now)
  PROVE  /\ conflict' <=> \A s \in Sides : debounced'[s]
         /\ (\A s \in Sides : debounced'[s]) => status' = IF status = "NONE" THEN "INNER" ELSE status
         /\ debounced'["INNER"] /\ ~debounced'["OUTER"] => status' = "INNER"
         /\ debounced'["OUTER"] /\ ~debounced'["INNER"] => status' = "OUTER"
         /\ (\A s \in Sides : ~debounced'[s]) => status' = "NONE"
<1> DEFINE raw == {s \in Sides : Debounced(s, now)}
<1>1. debounced' = [s \in Sides |-> Debounced(s, now)] /\ status' = NewStatus(raw)
      /\ conflict' = (raw = Sides)
  BY DEF Tick
<1>2. \A s \in Sides : s \in raw <=> debounced'[s]
  BY <1>1
<1>3. raw \subseteq Sides
  OBVIOUS
<1> HIDE DEF raw
<1>4. raw = Sides <=> \A s \in Sides : debounced'[s]
  BY <1>2, <1>3
<1>5. conflict' <=> \A s \in Sides : debounced'[s]
  BY <1>1, <1>4
<1>6. ASSUME \A s \in Sides : debounced'[s]
      PROVE  status' = IF status = "NONE" THEN "INNER" ELSE status
  <2>1. raw = Sides
    BY <1>4, <1>6
  <2> QED BY <1>1, <2>1 DEF NewStatus, Sides
<1>7. ASSUME debounced'["INNER"], ~debounced'["OUTER"]
      PROVE  status' = "INNER"
  <2>1. raw = {"INNER"}
    BY <1>2, <1>3, <1>7 DEF Sides
  <2> QED BY <1>1, <2>1 DEF NewStatus, Sides
<1>8. ASSUME debounced'["OUTER"], ~debounced'["INNER"]
      PROVE  status' = "OUTER"
  <2>1. raw = {"OUTER"}
    BY <1>2, <1>3, <1>8 DEF Sides
  <2> QED BY <1>1, <2>1 DEF NewStatus, Sides
<1>9. ASSUME \A s \in Sides : ~debounced'[s]
      PROVE  status' = "NONE"
  <2>1. raw = {}
    BY <1>2, <1>3, <1>9
  <2> QED BY <1>1, <2>1 DEF NewStatus, Sides
<1> QED BY <1>5, <1>6, <1>7, <1>8, <1>9

\* Types, and what the histories know of the driver's own variables.
THEOREM LoopInductive == Spec => [](IInv /\ NamesOccupiedLoop)
<1>1. Init => IInv /\ NamesOccupiedLoop
  <2> SUFFICES ASSUME Init PROVE IInv /\ NamesOccupiedLoop
    OBVIOUS
  <2>1. TypeOK
    <3>1. Debounce + 1 \in 0..(Debounce + 1) /\ 0 \in 0..(Debounce + 1)
      BY DebounceAssumption
    <3>2. conflict \in BOOLEAN /\ status \in Sides \cup {"NONE"}
      BY DEF Init
    <3> QED BY <3>1, <3>2, Zenon DEF Init, TypeOK
  <2>2. Measures /\ Unknown /\ DebouncesExactly
    BY DEF Init, Measures, Unknown, DebouncesExactly
  <2>3. NamesOccupiedLoop
    BY DEF Init, NamesOccupiedLoop, Sides
  <2> QED BY <2>1, <2>2, <2>3 DEF IInv
<1>2. ASSUME IInv, NamesOccupiedLoop, NEW now \in [Sides -> BOOLEAN], Tick(now)
      PROVE  IInv' /\ NamesOccupiedLoop'
  <2>1. /\ level' = now
        /\ debounced' = [s \in Sides |-> debounced'[s]] /\ apart' = [s \in Sides |-> apart'[s]]
        /\ steady' = [s \in Sides |-> steady'[s]] /\ settled' = [s \in Sides |-> settled'[s]]
        /\ conflict' \in BOOLEAN
    BY <1>2 DEF Tick
  <2>2. \A s \in Sides :
          /\ debounced'[s] \in BOOLEAN /\ settled'[s] = debounced'[s]
          /\ apart'[s] \in 0..(Debounce + 1) /\ steady'[s] \in 1..(Debounce + 1)
          /\ IF now[s] = debounced'[s]
               THEN apart'[s] = 0
               ELSE apart'[s] = steady'[s] /\ steady'[s] <= Debounce
    BY <1>2, OneInput
  <2>3. Measures' /\ Unknown'
    BY <2>1, <2>2, DebounceAssumption DEF Measures, Unknown
  <2>4. DebouncesExactly'
    BY <2>1, <2>2 DEF DebouncesExactly
  <2>5. status' \in Sides \cup {"NONE"} /\ NamesOccupiedLoop'
    <3>1. \A s \in Sides : settled'[s] <=> debounced'[s]
      BY <2>2
    <3>2. status \in Sides \cup {"NONE"}
      BY <1>2 DEF IInv, TypeOK
    <3> QED BY <1>2, <3>1, <3>2, StatusStep DEF NamesOccupiedLoop, Sides
  <2>6. TypeOK'
    <3>1. debounced' \in [Sides -> BOOLEAN] /\ settled' \in [Sides -> BOOLEAN]
      BY <2>1, <2>2
    <3>2. apart' \in [Sides -> 0..(Debounce + 1)] /\ steady' \in [Sides -> 0..(Debounce + 1)]
      BY <2>1, <2>2, DebounceAssumption
    <3> QED BY <1>2, <2>1, <2>5, <3>1, <3>2 DEF TypeOK
  <2> QED BY <2>3, <2>4, <2>5, <2>6 DEF IInv
<1>3. IInv /\ NamesOccupiedLoop /\ UNCHANGED vars => IInv' /\ NamesOccupiedLoop'
  BY DEF IInv, TypeOK, Measures, Unknown, DebouncesExactly, NamesOccupiedLoop, vars
<1>4. IInv /\ NamesOccupiedLoop /\ [Next]_vars => IInv' /\ NamesOccupiedLoop'
  BY <1>2, <1>3 DEF Next
<1> QED BY <1>1, <1>4, PTL DEF Spec

\* The counters stay within their ranges, whatever the inputs do.
THEOREM LoopTypes == Spec => []TypeOK
<1>1. IInv => TypeOK
  BY DEF IInv
<1> QED BY <1>1, LoopInductive, PTL

\* The debounced level of a loop is the last one its input held for longer than
\* the debounce time, whatever the inputs do.
THEOREM Debouncing == Spec => []DebouncesExactly
<1>1. IInv => DebouncesExactly
  BY DEF IInv
<1> QED BY <1>1, LoopInductive, PTL

\* The status names an occupied loop at every tick, and leaves a loop only once
\* that loop is free.
THEOREM StatusCorrect == Spec => StatusFollowsLoops
<1>1. ASSUME IInv, NamesOccupiedLoop, NamesOccupiedLoop', [Next]_vars
      PROVE  [/\ NamesOccupiedLoop'
              /\ status # "NONE" /\ status' # status => ~settled'[status]]_vars
  <2>1. CASE UNCHANGED vars
    BY <2>1
  <2>2. ASSUME NEW now \in [Sides -> BOOLEAN], Tick(now), status # "NONE", status' # status
        PROVE  ~settled'[status]
    <3>1. status \in Sides
      BY <1>1, <2>2 DEF IInv, TypeOK
    <3>2. \A s \in Sides : settled'[s] = debounced'[s] /\ debounced'[s] \in BOOLEAN
      BY <1>1, <2>2, OneInput
    <3> QED BY <2>2, <3>1, <3>2, StatusStep DEF Sides
  <2> QED BY <1>1, <2>1, <2>2 DEF Next
<1> QED BY <1>1, LoopInductive, PTL DEF Spec, StatusFollowsLoops
=============================================================================
