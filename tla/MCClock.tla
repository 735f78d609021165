------------------------------ MODULE MCClock ------------------------------
(***************************************************************************)
(* Clock over two years, one of them a leap year, whose changes fall on days  *)
(* from the 25th to the 31st.                                                *)
(***************************************************************************)
EXTENDS Clock, TLC

MCDays == {[mon |-> m, mday |-> d] : m \in {3, 10}, d \in {1} \cup 24..31}
            \cup {[mon |-> 1, mday |-> 1], [mon |-> 7, mday |-> 31]}
MCHours == {0, 1, 2, 3, 23}
\* A Wednesday that is worked like a Saturday.
MCShuffled == [mon |-> 12, mday |-> 24] :> 6 @@ [mon |-> 1, mday |-> 2] :> 7
=============================================================================
