------------------------------- MODULE TxFifo -------------------------------
(***************************************************************************)
(* What a blocking Usart promises its callers: the bytes they hand over      *)
(* leave on the wire in order, once each, and no more than Capacity of them  *)
(* are waiting.  Bytes are numbered 1, 2, ... in the order they are sent, so *)
(* a lost, repeated or reordered byte shows as a wrong number.  Nothing is   *)
(* promised any more once the transmitter's control register is broken.      *)
(***************************************************************************)
EXTENDS Naturals, Sequences

CONSTANTS
  Capacity,  \* the size of the transmit buffer
  MaxBytes   \* bound: the bytes sent in one run

VARIABLES
  accepted,  \* how many bytes the buffer has taken over from the callers
  wire,      \* the bytes that left
  broken     \* the promise has ended

Init ==
  /\ accepted = 0
  /\ wire = <<>>
  /\ broken = FALSE

Accept(n) ==
  /\ ~broken
  /\ accepted + n <= MaxBytes
  /\ accepted + n - Len(wire) <= Capacity
  /\ accepted' = accepted + n
  /\ UNCHANGED <<wire, broken>>

Emit ==
  /\ ~broken
  /\ Len(wire) < accepted
  /\ wire' = Append(wire, Len(wire) + 1)
  /\ UNCHANGED <<accepted, broken>>

Break ==
  /\ ~broken
  /\ broken' = TRUE
  /\ UNCHANGED <<accepted, wire>>

\* From then on anything may happen.
Anything == broken /\ broken' = TRUE

Next == (\E n \in 1..Capacity : Accept(n)) \/ Emit \/ Break \/ Anything

Spec == Init /\ [][Next]_<<accepted, wire, broken>>
=============================================================================
