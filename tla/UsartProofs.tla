---------------------------- MODULE UsartProofs ----------------------------
(***************************************************************************)
(* Proofs about Usart, for rings, messages, lines and runs of any size.       *)
(* Whatever the interrupt does between the main loop's steps, the transmit    *)
(* side's ring implements the FIFO TxFifo (IInv), and the main loop and the   *)
(* HAL agree on who has the line buffer (RInv).  The two sides share the      *)
(* handle's lock, and have an invariant each.                                *)
(***************************************************************************)
EXTENDS Usart, TLAPS

\* The ring holds the bytes accepted last, in order.
Waiting == \A k \in 0..(txCount - 1) : ring[Wrap(txStart + k)] = accepted - txCount + 1 + k

\* The transmission under way is the ring's first contiguous part, and what the
\* ring has given up is on the wire.
Chunk ==
  IF busy
    THEN /\ xferSize \in 1..txCount /\ txStart + xferSize <= Size
         /\ xferCount <= xferSize /\ txPos + xferCount = txStart + xferSize
         /\ Len(wire) = accepted - txCount + (xferSize - xferCount)
    ELSE /\ Len(wire) = accepted - txCount
         /\ pc # "start" /\ ~missed => txCount = 0

\* What the main loop has computed stays true while the interrupt makes room.
Filling ==
  /\ pc \in {"wait", "look", "copy", "book"} => count >= 1 /\ accepted + count <= MaxBytes
  /\ pc = "look" => txCount < Size
  /\ pc \in {"copy", "book"} =>
       /\ toCopy \in 1..canCopy /\ canCopy <= count
       /\ freeStart = Wrap(txStart + txCount)
       /\ freeStart + toCopy <= Size /\ txCount + canCopy <= Size
  /\ pc = "book" => \A i \in freeStart..(freeStart + toCopy - 1) : ring[i] = accepted + 1 + (i - freeStart)
  /\ pc \in {"start", "enable", "enabling", "next"} =>
       /\ toCopy \in 1..canCopy /\ canCopy <= count
       /\ accepted + (count - toCopy) <= MaxBytes /\ txCount + (canCopy - toCopy) <= Size
  /\ pc = "start" => ~busy /\ freeStart = txStart /\ txCount = toCopy /\ freeStart + toCopy <= Size

\* While no change of CR1 was undone, the transmitter's interrupts are enabled as
\* its chunk needs them, and the main loop's copy is right when it starts one.
Enabled ==
  /\ "TXE" \in cr1 <=> busy /\ xferCount > 0 /\ pc \notin {"enable", "enabling"}
  /\ "TC" \in cr1 <=> busy /\ xferCount = 0
  /\ pc \in {"enable", "enabling"} => busy /\ xferCount > 0
  /\ pc = "enabling" => "TXE" \notin copied /\ "TC" \notin copied

IInv == TypeOK /\ Waiting /\ Chunk /\ Filling /\ (~overwritten => Enabled)

-----------------------------------------------------------------------------
(* Indices that run round the ring.                                         *)

LEMMA WrapInRing ==
  ASSUME NEW i \in Int, 0 <= i, i < 2 * Size
  PROVE  Wrap(i) \in 0..(Size - 1)
BY SizeAssumption DEF Wrap

\* The free part of the ring begins where the waiting bytes end, and covers none
\* of them.
LEMMA FreeIsFree ==
  ASSUME NEW s \in 0..(Size - 1), NEW c \in 0..Size, NEW n \in 1..Size,
         c + n <= Size, Wrap(s + c) + n <= Size, NEW k \in 0..(c - 1)
  PROVE  Wrap(s + k) \notin Wrap(s + c)..(Wrap(s + c) + n - 1)
BY SizeAssumption DEF Wrap

\* Releasing a contiguous part moves the start, and no byte behind it.
LEMMA ReleaseKeepsPlaces ==
  ASSUME NEW s \in 0..(Size - 1), NEW x \in 1..Size, s + x <= Size, NEW k \in 0..(Size - x)
  PROVE  Wrap(Wrap(s + x) + k) = Wrap(s + (x + k))
BY SizeAssumption DEF Wrap

\* A contiguous part is not empty and stays in the buffer.
LEMMA ContiguousFits ==
  ASSUME NEW s \in 0..(Size - 1), NEW n \in 0..Size
  PROVE  /\ Contiguous(s, n) \in 0..n /\ s + Contiguous(s, n) <= Size
         /\ n > 0 => Contiguous(s, n) > 0
BY SizeAssumption DEF Contiguous

\* The invariant as the arithmetic of the steps needs it.
Numbers ==
  /\ Size \in Nat /\ Size > 0 /\ MaxBytes \in Nat /\ MaxLen \in Nat
  /\ count \in 0..MaxLen /\ freeStart \in 0..(Size - 1)
  /\ canCopy \in 0..Size /\ toCopy \in 0..Size
  /\ txStart \in 0..(Size - 1) /\ txCount \in 0..Size
  /\ txPos \in 0..Size /\ xferSize \in 0..Size /\ xferCount \in 0..Size
  /\ accepted \in 0..MaxBytes /\ Len(wire) \in Nat
  /\ busy \in BOOLEAN /\ missed \in BOOLEAN
  /\ Waiting /\ Chunk /\ Filling /\ (~overwritten => Enabled)

LEMMA InvNumbers == IInv => Numbers
BY SizeAssumption DEF IInv, TypeOK, Indices, Numbers

-----------------------------------------------------------------------------
(* The steps that touch only what both sides share.                         *)

Shared == LoadToSend \/ StoreToSend \/ Receiver

LEMMA SharedSteps ==
  ASSUME Shared
  PROVE  /\ UNCHANGED <<senderVars, ringVars, busy, txPos, xferSize, xferCount, accepted, wire, missed>>
         /\ \/ pc' = pc
            \/ pc = "enable" /\ pc' = "enabling"
            \/ pc = "enabling" /\ pc' = "next"
            \/ pc \in {"idle", "receive"} /\ pc' \in {"idle", "receive"}
BY DEF Shared, LoadToSend, StoreToSend, Receiver, EnterReceive, LoadToReceive, StoreToReceive,
       LockToReceive, UnlockReceive, LeaveReceive, RxEnablesBecome, halVars

-----------------------------------------------------------------------------
(* One step of the interrupt that ends a chunk.                             *)

LEMMA EndOfChunk ==
  ASSUME IInv, ~overwritten, TxCplt
  PROVE  /\ txCount' = txCount - xferSize /\ txCount' \in 0..(Size - 1)
         /\ txStart' = Wrap(txStart + xferSize) /\ txStart' \in 0..(Size - 1)
         /\ UNCHANGED <<pc, senderVars, ring, locked, copied, overwritten, accepted, wire>>
         /\ \/ /\ busy' = TRUE /\ txPos' = txStart'
               /\ cr1' = (cr1 \ {"TC"}) \cup {"TXE"} /\ errorCode' = FALSE
               /\ xferSize' = Contiguous(txStart', txCount') /\ xferCount' = xferSize'
               /\ xferSize' \in 1..txCount' /\ txStart' + xferSize' <= Size
               /\ missed' = missed
            \/ /\ busy' = FALSE /\ txPos' = txPos /\ xferSize' = xferSize /\ xferCount' = xferCount
               /\ cr1' = cr1 \ {"TC"} /\ errorCode' = errorCode
               /\ missed' = (missed \/ txCount' > 0)
<1>1. /\ busy /\ xferSize \in 1..txCount /\ txStart + xferSize <= Size
      /\ txStart \in 0..(Size - 1) /\ txCount \in 0..Size /\ xferSize \in 1..Size
      /\ Size \in Nat /\ Size > 0 /\ txCount # 0
  BY SizeAssumption DEF IInv, TypeOK, Chunk, TxCplt, ChunkSent, Enabled, Indices
<1>2. txCount' = txCount - xferSize /\ txStart' = Wrap(txStart + xferSize)
      /\ UNCHANGED <<pc, senderVars, ring, locked, copied, overwritten, accepted, wire>>
  BY <1>1 DEF TxCplt
<1>3. txCount' \in 0..(Size - 1) /\ txStart' \in 0..(Size - 1)
  BY <1>1, <1>2, WrapInRing
<1> DEFINE chunk == Contiguous(txStart', txCount')
<1>4. chunk \in 0..txCount' /\ txStart' + chunk <= Size /\ (txCount' > 0 <=> chunk > 0)
  BY <1>3, ContiguousFits, SizeAssumption
<1>5. IF chunk > 0 /\ ~locked
        THEN StartTransmit(txStart', chunk) /\ cr1' = (cr1 \ {"TC"}) \cup {"TXE"} /\ missed' = missed
        ELSE Rest /\ missed' = (missed \/ chunk > 0) /\ UNCHANGED <<errorCode, txPos, xferSize, xferCount>>
  BY <1>1 DEF TxCplt
<1> HIDE DEF chunk
<1>6. CASE chunk > 0 /\ ~locked
  <2>1. StartTransmit(txStart', chunk) /\ cr1' = (cr1 \ {"TC"}) \cup {"TXE"} /\ missed' = missed
    BY <1>5, <1>6
  <2>2. chunk \in 1..txCount'
    BY <1>3, <1>4, <1>6
  <2> QED BY <1>2, <1>3, <1>4, <2>1, <2>2 DEF StartTransmit, chunk
<1>7. CASE ~(chunk > 0 /\ ~locked)
  <2>1. /\ busy' = FALSE /\ cr1' = cr1 \ {"TC"} /\ missed' = (missed \/ chunk > 0)
        /\ UNCHANGED <<errorCode, txPos, xferSize, xferCount>>
    BY <1>5, <1>7 DEF Rest
  <2>2. missed' = (missed \/ txCount' > 0)
    BY <1>4, <2>1
  <2> QED BY <1>2, <1>3, <2>1, <2>2
<1> QED BY <1>6, <1>7

-----------------------------------------------------------------------------
(* The invariant, part by part.                                             *)

LEMMA TypeStep == IInv /\ [Next]_vars => TypeOK'
<1> SUFFICES ASSUME IInv, [Next]_vars PROVE TypeOK'
  OBVIOUS
<1> USE SizeAssumption DEF IInv, TypeOK, Indices
<1>1. CASE \E n \in 1..MaxLen : Send(n)
  BY <1>1 DEF Send, halVars, cr1Vars, ringVars
<1>2. CASE AwaitRoom
  BY <1>2 DEF AwaitRoom, senderVars, halVars, cr1Vars, ringVars
<1>3. CASE Look
  <2>1. /\ pc' = "copy" /\ freeStart' = Wrap(txStart + txCount)
        /\ canCopy' = Least(count, Size - txCount) /\ toCopy' = Contiguous(freeStart', canCopy')
        /\ UNCHANGED <<count, halVars, ringVars, cr1Vars, locked, accepted, wire, missed>>
    BY <1>3 DEF Look
  <2>2. freeStart' \in 0..(Size - 1)
    BY <2>1, WrapInRing
  <2>3. canCopy' \in 0..Size
    BY <2>1 DEF Least
  <2>4. toCopy' \in 0..Size
    <3>1. Contiguous(freeStart', canCopy') \in 0..canCopy'
      BY <2>2, <2>3, ContiguousFits
    <3> QED BY <2>1, <2>3, <3>1
  <2> QED BY <2>1, <2>2, <2>3, <2>4 DEF halVars, cr1Vars, ringVars
<1>4. CASE Copy
  <2>1. /\ pc = "copy" /\ pc' = "book"
        /\ ring' = [i \in 0..(Size - 1) |->
                      IF i \in freeStart..(freeStart + toCopy - 1)
                        THEN accepted + 1 + (i - freeStart)
                        ELSE ring[i]]
        /\ UNCHANGED <<senderVars, txStart, txCount, halVars, cr1Vars, locked, accepted, wire, missed>>
    BY <1>4 DEF Copy
  <2>2. accepted + toCopy <= MaxBytes
    BY <2>1 DEF Filling
  <2>3. ring' \in [0..(Size - 1) -> 0..MaxBytes]
    BY <2>1, <2>2
  <2> QED BY <2>1, <2>3 DEF senderVars, halVars, cr1Vars
<1>5. CASE Book
  BY <1>5 DEF Book, Filling, senderVars, halVars, cr1Vars
<1>6. CASE Start
  <2>1. /\ UNCHANGED <<senderVars, ringVars, cr1Vars, locked, accepted, wire, missed>>
        /\ \/ pc' = "idle" /\ UNCHANGED halVars
           \/ pc' = "enable" /\ StartTransmit(freeStart, toCopy)
    BY <1>6 DEF Start
  <2>2. /\ busy' \in BOOLEAN /\ errorCode' \in BOOLEAN
        /\ txPos' \in 0..Size /\ xferSize' \in 0..Size /\ xferCount' \in 0..Size
    <3>1. freeStart \in 0..Size
      OBVIOUS
    <3>2. CASE UNCHANGED halVars
      BY <3>2 DEF halVars
    <3>3. CASE StartTransmit(freeStart, toCopy)
      BY <3>1, <3>3 DEF StartTransmit
    <3> QED BY <2>1, <3>2, <3>3
  <2>3. pc' \in {"idle", "enable"}
    BY <2>1
  <2> QED BY <2>1, <2>2, <2>3 DEF senderVars, cr1Vars, ringVars
<1>7. CASE NextChunk
  <2>1. /\ count' = count - toCopy /\ canCopy' = canCopy - toCopy
        /\ freeStart' = 0 /\ toCopy' = 0
        /\ UNCHANGED <<halVars, ringVars, cr1Vars, locked, accepted, wire, missed>>
    BY <1>7 DEF NextChunk
  <2>2. toCopy \in 1..canCopy /\ canCopy <= count
    BY <1>7 DEF NextChunk, Filling
  <2>3. pc' \in {"look", "wait", "idle"}
    BY <1>7 DEF NextChunk
  <2>4. count' \in 0..MaxLen /\ canCopy' \in 0..Size
    BY <2>1, <2>2
  <2> QED BY <2>1, <2>3, <2>4 DEF halVars, cr1Vars, ringVars
<1>8. CASE Shared
  <2>1. /\ UNCHANGED <<senderVars, ringVars, busy, txPos, xferSize, xferCount, accepted, wire, missed>>
        /\ pc' \in {"idle", "receive", "enabling", "next", pc}
    BY <1>8, SharedSteps
  <2>2. cr1' \in SUBSET (TxEnables \cup RxEnables) /\ copied' \in SUBSET (TxEnables \cup RxEnables)
    BY <1>8 DEF Shared, LoadToSend, StoreToSend, Receiver, EnterReceive, LoadToReceive, StoreToReceive,
         LockToReceive, UnlockReceive, LeaveReceive, RxEnablesBecome, Load, Store, cr1Vars, TxEnables, RxEnables
  <2>3. locked' \in BOOLEAN /\ errorCode' \in BOOLEAN /\ overwritten' \in BOOLEAN
    BY <1>8 DEF Shared, LoadToSend, StoreToSend, Receiver, EnterReceive, LoadToReceive, StoreToReceive,
         LockToReceive, UnlockReceive, LeaveReceive, RxEnablesBecome, Load, Store, cr1Vars, halVars
  <2> QED BY <2>1, <2>2, <2>3 DEF senderVars, ringVars
<1>9. CASE ~overwritten /\ TransmitByte
  <2>1. /\ busy /\ xferCount > 0 /\ wire' = Append(wire, ring[txPos])
        /\ txPos' = txPos + 1 /\ xferCount' = xferCount - 1
        /\ "TXE" \in cr1 /\ cr1' = IF xferCount' = 0 THEN (cr1 \ {"TXE"}) \cup {"TC"} ELSE cr1
        /\ UNCHANGED <<pc, senderVars, busy, errorCode, xferSize, ringVars, copied, overwritten,
                       locked, accepted, missed>>
    BY <1>9 DEF TransmitByte, Enabled
  <2>2. txPos \in 0..(Size - 1)
    BY <2>1 DEF Chunk
  <2>4. cr1' \in SUBSET (TxEnables \cup RxEnables)
    BY <2>1 DEF TxEnables
  <2>3. wire' \in Seq(0..MaxBytes)
    BY <2>1, <2>2
  <2> QED BY <2>1, <2>2, <2>3, <2>4 DEF senderVars, ringVars
<1>10. CASE ~overwritten /\ TxCplt
  <2>1. /\ txCount' \in 0..(Size - 1) /\ txStart' \in 0..(Size - 1)
        /\ UNCHANGED <<pc, senderVars, ring, locked, copied, overwritten, accepted, wire>>
        /\ \/ /\ busy' = TRUE /\ txPos' = txStart' /\ xferCount' = xferSize'
              /\ xferSize' \in 1..txCount' /\ missed' = missed
              /\ cr1' = (cr1 \ {"TC"}) \cup {"TXE"} /\ errorCode' = FALSE
           \/ /\ busy' = FALSE /\ txPos' = txPos /\ xferSize' = xferSize /\ xferCount' = xferCount
              /\ missed' = (missed \/ txCount' > 0)
              /\ cr1' = cr1 \ {"TC"} /\ errorCode' = errorCode
    BY <1>10, EndOfChunk
  <2>2. missed' \in BOOLEAN /\ busy' \in BOOLEAN /\ errorCode' \in BOOLEAN
    BY <2>1
  <2>4. cr1' \in SUBSET (TxEnables \cup RxEnables)
    BY <2>1 DEF TxEnables
  <2>3. txPos' \in 0..Size /\ xferSize' \in 0..Size /\ xferCount' \in 0..Size
    BY <2>1
  <2> QED BY <2>1, <2>2, <2>3, <2>4 DEF senderVars
<1>11. CASE UNCHANGED vars
  BY <1>11 DEF vars, senderVars, halVars, cr1Vars, ringVars
<1> QED
  BY <1>1, <1>2, <1>3, <1>4, <1>5, <1>6, <1>7, <1>8, <1>9, <1>10, <1>11 DEF Next, Sender, Shared

LEMMA WaitingStep == IInv /\ [Next]_vars => Waiting'
<1> SUFFICES ASSUME IInv, Numbers, [Next]_vars PROVE Waiting'
  BY InvNumbers
<1> USE DEF Numbers
<1>1. CASE UNCHANGED <<ring, txStart, txCount, accepted>>
  BY <1>1 DEF Waiting, Wrap
<1>5. CASE Shared
  BY <1>1, <1>5, SharedSteps DEF ringVars
<1>2. CASE Copy
  <2>1. /\ pc = "copy"
        /\ ring' = [i \in 0..(Size - 1) |->
                      IF i \in freeStart..(freeStart + toCopy - 1)
                        THEN accepted + 1 + (i - freeStart)
                        ELSE ring[i]]
        /\ UNCHANGED <<txStart, txCount, accepted>>
    BY <1>2 DEF Copy
  <2>2. /\ toCopy \in 1..Size /\ freeStart = Wrap(txStart + txCount)
        /\ freeStart + toCopy <= Size /\ txCount + toCopy <= Size
    BY <2>1 DEF Filling
  <2>3. ASSUME NEW k \in 0..(txCount - 1)
        PROVE  ring'[Wrap(txStart + k)] = accepted - txCount + 1 + k
    <3>1. Wrap(txStart + k) \in 0..(Size - 1)
      BY WrapInRing
    <3>2. Wrap(txStart + k) \notin freeStart..(freeStart + toCopy - 1)
      BY <2>2, FreeIsFree
    <3> QED BY <2>1, <3>1, <3>2 DEF Waiting
  <2>4. \A k : Wrap(txStart + k)' = Wrap(txStart + k)
    BY <2>1 DEF Wrap
  <2> QED BY <2>1, <2>3, <2>4 DEF Waiting
<1>3. CASE Book
  <2>1. /\ pc = "book" /\ txCount' = txCount + toCopy /\ accepted' = accepted + toCopy
        /\ UNCHANGED <<ring, txStart>>
    BY <1>3 DEF Book
  <2>2. /\ toCopy \in 1..Size /\ freeStart = Wrap(txStart + txCount)
        /\ freeStart + toCopy <= Size /\ txCount + toCopy <= Size
        /\ \A i \in freeStart..(freeStart + toCopy - 1) : ring[i] = accepted + 1 + (i - freeStart)
    BY <2>1 DEF Filling
  <2>3. ASSUME NEW k \in 0..(txCount + toCopy - 1)
        PROVE  ring[Wrap(txStart + k)] = accepted - txCount + 1 + k
    <3>1. CASE k < txCount
      <4>1. k \in 0..(txCount - 1)
        BY <3>1
      <4> QED BY <4>1 DEF Waiting
    <3>2. CASE k >= txCount
      <4>1. Wrap(txStart + k) = freeStart + (k - txCount)
        BY <2>2, <3>2 DEF Wrap
      <4> QED BY <2>2, <3>2, <4>1
    <3> QED BY <3>1, <3>2
  <2>4. \A k : Wrap(txStart + k)' = Wrap(txStart + k)
    BY <2>1 DEF Wrap
  <2>5. accepted' - txCount' = accepted - txCount /\ txCount' - 1 = txCount + toCopy - 1
    BY <2>1, <2>2
  <2> QED BY <2>1, <2>3, <2>4, <2>5 DEF Waiting
<1>4. CASE ~overwritten /\ TxCplt
  <2>1. /\ txCount' = txCount - xferSize /\ txStart' = Wrap(txStart + xferSize)
        /\ UNCHANGED <<ring, accepted>>
    BY <1>4, EndOfChunk
  <2>2. xferSize \in 1..txCount /\ txStart + xferSize <= Size
    BY <1>4 DEF TxCplt, ChunkSent, Chunk, Enabled
  <2>3. ASSUME NEW k \in 0..(txCount - xferSize - 1)
        PROVE  ring[Wrap(Wrap(txStart + xferSize) + k)] = accepted - (txCount - xferSize) + 1 + k
    <3>1. Wrap(Wrap(txStart + xferSize) + k) = Wrap(txStart + (xferSize + k))
      <4>1. xferSize \in 1..Size /\ k \in 0..(Size - xferSize)
        BY <2>2
      <4> QED BY <2>2, <4>1, ReleaseKeepsPlaces
    <3>2. ring[Wrap(txStart + (xferSize + k))] = accepted - txCount + 1 + (xferSize + k)
      BY <2>2 DEF Waiting
    <3> QED BY <2>2, <3>1, <3>2
  <2>4. \A k : Wrap(txStart + k)' = Wrap(txStart' + k)
    BY DEF Wrap
  <2> QED BY <2>1, <2>3, <2>4 DEF Waiting
<1> QED
  BY <1>1, <1>2, <1>3, <1>4, <1>5
  DEF Next, Sender, Shared, Send, AwaitRoom, Look, Start, NextChunk, TransmitByte, ringVars, vars

LEMMA ChunkStep == IInv /\ [Next]_vars => Chunk'
<1> SUFFICES ASSUME IInv, Numbers, [Next]_vars PROVE Chunk'
  BY InvNumbers
<1> USE DEF Numbers
<1>1. CASE /\ UNCHANGED <<busy, txPos, xferSize, xferCount, ringVars, accepted, wire, missed>>
           /\ (pc = "start" => pc' = "start")
  BY <1>1 DEF Chunk, ringVars
<1>7. CASE Shared
  BY <1>1, <1>7, SharedSteps
<1>2. CASE Copy
  BY <1>2 DEF Copy, Chunk, halVars
<1>3. CASE Book
  <2>1. toCopy \in 1..Size /\ txCount + toCopy <= Size
    BY <1>3 DEF Book, Filling
  <2>2. /\ pc = "book" /\ pc' = (IF txCount = 0 THEN "start" ELSE "next")
        /\ txCount' = txCount + toCopy /\ accepted' = accepted + toCopy
        /\ UNCHANGED <<txStart, busy, txPos, xferSize, xferCount, wire, missed>>
    BY <1>3 DEF Book, halVars
  <2>3. CASE busy
    BY <2>1, <2>2, <2>3 DEF Chunk
  <2>4. CASE ~busy
    BY <2>1, <2>2, <2>4 DEF Chunk
  <2> QED BY <2>3, <2>4
<1>4. CASE Start
  <2>1. /\ ~busy /\ freeStart = txStart /\ txCount = toCopy /\ freeStart + toCopy <= Size
        /\ toCopy \in 1..Size
    BY <1>4 DEF Start, Filling
  <2>2. /\ busy' = TRUE /\ txPos' = freeStart /\ xferSize' = toCopy /\ xferCount' = toCopy
        /\ UNCHANGED <<txStart, txCount, accepted, wire>>
    BY <1>4, <2>1 DEF Start, StartTransmit, ringVars
  <2>3. Len(wire) = accepted - txCount
    BY <2>1 DEF Chunk
  <2> QED BY <2>1, <2>2, <2>3 DEF Chunk
<1>5. CASE ~overwritten /\ TransmitByte
  <2>1. /\ busy /\ xferCount > 0 /\ wire' = Append(wire, ring[txPos])
        /\ txPos' = txPos + 1 /\ xferCount' = xferCount - 1
        /\ UNCHANGED <<busy, xferSize, txStart, txCount, accepted>>
    BY <1>5 DEF TransmitByte, Enabled, ringVars
  <2>2. txPos \in 0..(Size - 1)
    BY <2>1 DEF Chunk
  <2>3. Len(wire') = Len(wire) + 1 /\ Len(wire) \in Nat
    BY <2>1, <2>2
  <2> QED BY <2>1, <2>3 DEF Chunk
<1>6. CASE ~overwritten /\ TxCplt
  <2>1. /\ txCount' = txCount - xferSize /\ txCount' \in 0..(Size - 1)
        /\ txStart' \in 0..(Size - 1) /\ UNCHANGED <<pc, accepted, wire>>
        /\ \/ /\ busy' = TRUE /\ txPos' = txStart' /\ xferCount' = xferSize'
              /\ xferSize' \in 1..txCount' /\ txStart' + xferSize' <= Size
           \/ /\ busy' = FALSE /\ missed' = (missed \/ txCount' > 0)
    BY <1>6, EndOfChunk
  <2>2. Len(wire) = accepted - txCount + xferSize
    BY <1>6 DEF TxCplt, ChunkSent, Chunk, Enabled
  <2>3. Len(wire') = accepted' - txCount'
    BY <2>1, <2>2
  <2>4. CASE busy' = TRUE
    BY <2>1, <2>3, <2>4 DEF Chunk
  <2>5. CASE busy' = FALSE
    <3>1. missed' = (missed \/ txCount' > 0)
      BY <2>1, <2>5
    <3>2. ~missed' => ~(txCount' > 0)
      BY <3>1, Zenon
    <3>3. ~missed' => txCount' = 0
      BY <2>1, <3>2
    <3> QED BY <2>3, <2>5, <3>3 DEF Chunk
  <2> QED BY <2>1, <2>4, <2>5
<1> QED
  BY <1>1, <1>2, <1>3, <1>4, <1>5, <1>6, <1>7
  DEF Next, Sender, Shared, Send, AwaitRoom, Look, NextChunk, halVars, vars

LEMMA FillingStep == IInv /\ [Next]_vars => Filling'
<1> SUFFICES ASSUME IInv, Numbers, [Next]_vars PROVE Filling'
  BY InvNumbers
<1> USE DEF Numbers
<1>1. CASE \E n \in 1..MaxLen : Send(n)
  BY <1>1 DEF Send, Filling
<1>2. CASE AwaitRoom
  BY <1>2 DEF AwaitRoom, Filling, senderVars, ringVars
<1>3. CASE Look
  <2>1. /\ pc = "look" /\ pc' = "copy" /\ freeStart' = Wrap(txStart + txCount)
        /\ canCopy' = Least(count, Size - txCount) /\ toCopy' = Contiguous(freeStart', canCopy')
        /\ UNCHANGED <<count, txStart, txCount, accepted>>
    BY <1>3 DEF Look, ringVars
  <2>2. count >= 1 /\ accepted + count <= MaxBytes /\ txCount < Size
    BY <2>1 DEF Filling
  <2>3. canCopy' \in 1..Size /\ canCopy' <= count /\ txCount + canCopy' <= Size
    BY <2>1, <2>2 DEF Least
  <2>4. freeStart' \in 0..(Size - 1)
    BY <2>1, WrapInRing
  <2>5. toCopy' \in 1..canCopy' /\ freeStart' + toCopy' <= Size
    <3>1. canCopy' \in 0..Size /\ canCopy' > 0
      BY <2>3
    <3>2. /\ Contiguous(freeStart', canCopy') \in 0..canCopy' /\ Contiguous(freeStart', canCopy') > 0
          /\ freeStart' + Contiguous(freeStart', canCopy') <= Size
      BY <2>4, <3>1, ContiguousFits
    <3> QED BY <2>1, <3>1, <3>2
  <2>6. freeStart' = Wrap(txStart' + txCount')
    BY <2>1
  <2> QED BY <2>1, <2>2, <2>3, <2>5, <2>6 DEF Filling, Wrap
<1>4. CASE Copy
  <2>1. /\ pc = "copy" /\ pc' = "book"
        /\ ring' = [i \in 0..(Size - 1) |->
                      IF i \in freeStart..(freeStart + toCopy - 1)
                        THEN accepted + 1 + (i - freeStart)
                        ELSE ring[i]]
        /\ UNCHANGED <<count, freeStart, canCopy, toCopy, txStart, txCount, accepted>>
    BY <1>4 DEF Copy, senderVars
  <2>2. /\ toCopy \in 1..canCopy /\ canCopy <= count /\ freeStart = Wrap(txStart + txCount)
        /\ freeStart + toCopy <= Size /\ txCount + canCopy <= Size
        /\ count >= 1 /\ accepted + count <= MaxBytes
    BY <2>1 DEF Filling
  <2>3. \A i \in freeStart..(freeStart + toCopy - 1) : ring'[i] = accepted + 1 + (i - freeStart)
    BY <2>1, <2>2
  <2> QED BY <2>1, <2>2, <2>3 DEF Filling, Wrap
<1>5. CASE Book
  <2>1. /\ pc = "book" /\ pc' = (IF txCount = 0 THEN "start" ELSE "next")
        /\ txCount' = txCount + toCopy /\ accepted' = accepted + toCopy
        /\ UNCHANGED <<count, freeStart, canCopy, toCopy, txStart, busy>>
    BY <1>5 DEF Book, senderVars, halVars
  <2>2. /\ toCopy \in 1..canCopy /\ canCopy <= count /\ freeStart = Wrap(txStart + txCount)
        /\ freeStart + toCopy <= Size /\ txCount + canCopy <= Size
        /\ accepted + count <= MaxBytes
    BY <2>1 DEF Filling
  <2>3. txCount = 0 => ~busy /\ freeStart = txStart
    BY <2>2 DEF Chunk, Wrap
  <2> QED BY <2>1, <2>2, <2>3 DEF Filling
<1>6. CASE Start
  BY <1>6 DEF Start, Filling, senderVars, ringVars
<1>7. CASE NextChunk
  <2>1. /\ pc = "next" /\ count' = count - toCopy /\ canCopy' = canCopy - toCopy
        /\ UNCHANGED <<txCount, accepted>>
    BY <1>7 DEF NextChunk, ringVars
  <2>2. /\ toCopy \in 1..canCopy /\ canCopy <= count
        /\ accepted + (count - toCopy) <= MaxBytes /\ txCount + (canCopy - toCopy) <= Size
    BY <2>1 DEF Filling
  <2>3. \/ pc' = "look" /\ canCopy' > 0
        \/ pc' = "wait" /\ count' > 0
        \/ pc' = "idle"
    BY <1>7 DEF NextChunk
  <2> QED BY <2>1, <2>2, <2>3 DEF Filling
<1>8. CASE Shared
  BY <1>8, SharedSteps DEF Filling, Wrap, senderVars, ringVars
<1>9. CASE ~overwritten /\ TransmitByte
  BY <1>9 DEF TransmitByte, Filling, Wrap, senderVars, ringVars
<1>10. CASE ~overwritten /\ TxCplt
  <2>1. /\ txCount' = txCount - xferSize /\ txStart' = Wrap(txStart + xferSize)
        /\ UNCHANGED <<pc, count, freeStart, canCopy, toCopy, ring, accepted>>
    BY <1>10, EndOfChunk DEF senderVars
  <2>2. busy /\ xferSize \in 1..txCount /\ txStart + xferSize <= Size
    BY <1>10 DEF TxCplt, ChunkSent, Chunk, Enabled
  <2>3. txCount' \in 0..(Size - 1) /\ txCount' < txCount
    BY <2>1, <2>2
  <2>4. Wrap(txStart' + txCount') = Wrap(txStart + txCount)
    <3>1. xferSize \in 1..Size /\ txCount - xferSize \in 0..(Size - xferSize)
      BY <2>2
    <3>2. Wrap(Wrap(txStart + xferSize) + (txCount - xferSize)) = Wrap(txStart + (xferSize + (txCount - xferSize)))
      BY <2>2, <3>1, ReleaseKeepsPlaces
    <3> QED BY <2>1, <2>2, <3>2
  <2>5. Wrap(txStart + txCount)' = Wrap(txStart + txCount)
    BY <2>4 DEF Wrap
  <2>6. pc # "start"
    BY <2>2 DEF Filling
  <2> QED BY <2>1, <2>3, <2>5, <2>6 DEF Filling
<1>11. CASE UNCHANGED vars
  BY <1>11 DEF vars, Filling, Wrap, senderVars, halVars, ringVars
<1> QED
  BY <1>1, <1>2, <1>3, <1>4, <1>5, <1>6, <1>7, <1>8, <1>9, <1>10, <1>11 DEF Next, Sender, Shared

LEMMA EnabledStep == IInv /\ [Next]_vars => (~overwritten => Enabled)'
<1> SUFFICES ASSUME IInv, Numbers, [Next]_vars, ~overwritten' PROVE Enabled'
  BY InvNumbers
<1> USE DEF Numbers
<1>1. CASE UNCHANGED <<busy, xferCount, cr1, copied, overwritten>> /\ pc \notin {"enable", "enabling"}
           /\ pc' \notin {"enable", "enabling"}
  BY <1>1 DEF Enabled
<1>2. CASE UNCHANGED vars
  BY <1>2 DEF vars, halVars, cr1Vars, Enabled
<1>3. CASE ~overwritten /\ Start
  <2>1. toCopy \in 1..Size /\ ~busy /\ pc = "start"
    BY <1>3 DEF Start, Filling
  <2>2. pc' = "enable" /\ busy' = TRUE /\ xferCount' = toCopy /\ cr1' = cr1
    BY <1>3, <2>1 DEF Start, StartTransmit, cr1Vars
  <2> QED BY <1>3, <2>1, <2>2 DEF Enabled
<1>4. CASE ~overwritten /\ LoadToSend
  BY <1>4 DEF LoadToSend, Load, halVars, Enabled
<1>5. CASE ~overwritten /\ StoreToSend
  BY <1>5 DEF StoreToSend, Store, halVars, Enabled, TxEnables
<1>6. CASE ~overwritten /\ Receiver
  <2>1. UNCHANGED <<busy, xferCount>>
    BY <1>6, SharedSteps DEF Shared
  <2>2. \/ pc \notin {"enable", "enabling"} /\ pc' \notin {"enable", "enabling"}
        \/ pc' = pc /\ copied' = copied
    BY <1>6 DEF Receiver, EnterReceive, LoadToReceive, StoreToReceive, LockToReceive, UnlockReceive,
       LeaveReceive, RxEnablesBecome
  <2>3. ("TXE" \in cr1' <=> "TXE" \in cr1) /\ ("TC" \in cr1' <=> "TC" \in cr1)
    BY <1>6 DEF Receiver, EnterReceive, LoadToReceive, StoreToReceive, LockToReceive, UnlockReceive,
       LeaveReceive, RxEnablesBecome, Load, Store, cr1Vars, TxEnables, RxEnables
  <2> QED BY <1>6, <2>1, <2>2, <2>3 DEF Enabled
<1>7. CASE ~overwritten /\ TransmitByte
  <2>1. /\ "TXE" \in cr1 /\ busy /\ xferCount > 0 /\ xferCount' = xferCount - 1
        /\ cr1' = IF xferCount' = 0 THEN (cr1 \ {"TXE"}) \cup {"TC"} ELSE cr1
        /\ UNCHANGED <<pc, busy, copied>> /\ pc \notin {"enable", "enabling"} /\ "TC" \notin cr1
    BY <1>7 DEF TransmitByte, Enabled
  <2>2. xferCount' = 0 \/ (xferCount' > 0 /\ xferCount' # 0)
    BY <2>1
  <2> QED BY <2>1, <2>2 DEF Enabled
<1>8. CASE ~overwritten /\ TxCplt
  <2>1. busy /\ xferCount = 0 /\ pc \notin {"enable", "enabling"} /\ "TXE" \notin cr1
    BY <1>8 DEF TxCplt, ChunkSent, Enabled
  <2>2. /\ UNCHANGED pc /\ txCount' \in 0..(Size - 1)
        /\ \/ /\ busy' = TRUE /\ cr1' = (cr1 \ {"TC"}) \cup {"TXE"}
              /\ xferCount' = xferSize' /\ xferSize' \in 1..txCount'
           \/ busy' = FALSE /\ cr1' = cr1 \ {"TC"}
    BY <1>8, EndOfChunk
  <2>3. busy' = TRUE => xferCount' > 0 /\ xferCount' # 0
    BY <2>2
  <2> QED BY <2>1, <2>2, <2>3 DEF Enabled
<1> QED
  BY <1>1, <1>2, <1>3, <1>4, <1>5, <1>6, <1>7, <1>8
  DEF Next, Sender, Send, AwaitRoom, Look, Copy, Book, NextChunk, halVars, cr1Vars, Enabled

-----------------------------------------------------------------------------
(* The transmit side inside the whole port.                                 *)

\* To the transmit side, whatever the receive side does is a step of Receiver.
LEMMA PortStep == IInv /\ [UsartNext]_usartVars => [Next]_vars
<1> SUFFICES ASSUME IInv, [UsartNext]_usartVars PROVE [Next]_vars
  OBVIOUS
<1>1. CASE Sends \/ Sending \/ TxInterrupt
  BY <1>1 DEF Sends, Sending, TxInterrupt, Running, Next
<1>2. CASE LoopStep
  <2>1. ~overwritten /\ (TakeError \/ TakeLine \/ Processed \/ Receive \/ Return)
    BY <1>2 DEF LoopStep, Running
  <2>2. CASE TakeError \/ TakeLine \/ Processed \/ Return
    BY <2>1, <2>2 DEF TakeError, TakeLine, Processed, Return, Receiver, Next
  <2>3. CASE Receive
    <3>1. \/ LoadToReceive \/ LockToReceive \/ UnlockReceive \/ UNCHANGED vars
          \/ StoreToReceive({}, RxEnables) \/ StoreToReceive({"PE"}, {}) \/ StoreToReceive({"RXNE"}, {})
      BY <2>3 DEF Receive, LoadToAbort, DisableReceive, ResetReceive, BeginReceive, EndReceive,
         LoadForParity, EnableParity, EnableErrors, LoadForData, EnableData
    <3>2. {} \in SUBSET RxEnables /\ RxEnables \in SUBSET RxEnables
          /\ {"PE"} \in SUBSET RxEnables /\ {"RXNE"} \in SUBSET RxEnables
      BY DEF RxEnables
    <3> QED BY <2>1, <3>1, <3>2 DEF Receiver, Next
  <2> QED BY <2>1, <2>2, <2>3
<1>3. CASE \E b \in Bytes : ByteArrives(b)
  BY <1>3 DEF ByteArrives
<1>4. CASE RxInterrupt
  <2>0. errorCode \in BOOLEAN
    BY DEF IInv, TypeOK
  <2>1. ~overwritten /\ (ReceiveInterrupt \/ ErrorInterrupt)
    BY <1>4 DEF RxInterrupt, Running
  <2>2. \/ UNCHANGED vars
        \/ \E enables \in SUBSET RxEnables : RxEnablesBecome(enables) /\ errorCode' \in BOOLEAN
    <3>1. ASSUME ReceiveInterrupt, ~(UNCHANGED vars)
          PROVE  EndLine \/ StoreByte
      BY <3>1 DEF ReceiveInterrupt
    <3>2. EndLine => \E enables \in SUBSET RxEnables : RxEnablesBecome(enables) /\ errorCode' \in BOOLEAN
      BY <2>0 DEF EndLine
    <3>3. StoreByte => \E enables \in SUBSET RxEnables : RxEnablesBecome(enables) /\ errorCode' \in BOOLEAN
      BY <2>0 DEF StoreByte
    <3>4. ErrorInterrupt => \/ UNCHANGED vars
                            \/ /\ RxEnablesBecome({})
                               /\ \E f : errorCode' = ((rxError = "overrun" \/ errorCode) /\ ~f)
      BY DEF ErrorInterrupt
    <3>5. ASSUME NEW f PROVE ((rxError = "overrun" \/ errorCode) /\ ~f) \in BOOLEAN
      BY Zenon
    <3> QED BY <2>1, <3>1, <3>2, <3>3, <3>4, <3>5
  <2> QED BY <2>1, <2>2 DEF Receiver, Next
<1>5. CASE UNCHANGED usartVars
  BY <1>5 DEF usartVars
<1> QED BY <1>1, <1>2, <1>3, <1>4, <1>5 DEF UsartNext

\* What the main loop and the interrupt know of the ring at every step.
THEOREM RingInductive == UsartSpec => []IInv
<1>1. Init => IInv
  <2> SUFFICES ASSUME Init PROVE IInv
    OBVIOUS
  <2>1. TypeOK
    <3>1. ring \in [Indices -> 0..MaxBytes] /\ 0 \in Indices /\ 0 \in 0..Size
      BY SizeAssumption DEF Init, Indices
    <3>2. 0 \in 0..MaxLen /\ 0 \in 0..MaxBytes /\ wire \in Seq(0..MaxBytes)
      BY SizeAssumption DEF Init
    <3> QED BY <3>1, <3>2, Zenon DEF Init, TypeOK
  <2>2. Waiting /\ Chunk /\ Filling /\ Enabled
    BY SizeAssumption DEF Init, Waiting, Chunk, Filling, Enabled
  <2> QED BY <2>1, <2>2 DEF IInv
<1>2. IInv /\ [Next]_vars => IInv'
  BY TypeStep, WaitingStep, ChunkStep, FillingStep, EnabledStep DEF IInv
<1>3. UsartInit => Init
  BY DEF UsartInit
<1> QED BY <1>1, <1>2, <1>3, PortStep, PTL DEF UsartSpec

\* The interrupt and the main loop never use the same part of the ring, and the
\* transmitter rests only when there is nothing to send, or missed its start.
THEOREM ChunkOwned == UsartSpec => []TransmitterOwnsItsChunk
<1>1. IInv => TransmitterOwnsItsChunk
  <2> SUFFICES ASSUME IInv PROVE TransmitterOwnsItsChunk
    OBVIOUS
  <2>0. Numbers
    BY InvNumbers
  <2> USE <2>0 DEF Numbers
  <2>1. ASSUME busy
        PROVE  xferSize <= txCount /\ txPos + xferCount = txStart + xferSize
    BY <2>1 DEF Chunk
  <2>2. ASSUME busy, pc = "copy", NEW i \in freeStart..(freeStart + toCopy - 1)
        PROVE  i \notin txStart..(txStart + xferSize - 1)
    <3>1. xferSize \in 1..txCount /\ txStart + xferSize <= Size
      BY <2>2 DEF Chunk
    <3>2. /\ freeStart = Wrap(txStart + txCount) /\ toCopy \in 1..Size
          /\ freeStart + toCopy <= Size /\ txCount + toCopy <= Size
      BY <2>2 DEF Filling
    <3> QED BY <2>2, <3>1, <3>2 DEF Wrap
  <2>3. ~busy /\ pc # "start" /\ ~missed => txCount = 0
    BY DEF Chunk
  <2>4. ASSUME ~overwritten, pc \notin {"enable", "enabling"}
        PROVE  cr1 \cap TxEnables = IF busy THEN {IF xferCount > 0 THEN "TXE" ELSE "TC"} ELSE {}
    <3>1. /\ "TXE" \in cr1 <=> busy /\ xferCount > 0
          /\ "TC" \in cr1 <=> busy /\ xferCount = 0
      BY <2>4 DEF Enabled
    <3>2. xferCount > 0 \/ xferCount = 0
      OBVIOUS
    <3> QED BY <3>1, <3>2 DEF TxEnables
  <2> QED BY <2>1, <2>2, <2>3, <2>4 DEF TransmitterOwnsItsChunk
<1> QED BY <1>1, RingInductive, PTL

\* The bytes of the callers leave in order, once each, and no more of them wait
\* than the buffer holds: the ring and its interrupt implement a FIFO.
THEOREM RingIsFifo == UsartSpec => ImplementsFifo
<1>1. Init => Fifo!Init
  BY DEF Init, Fifo!Init
<1>2. ASSUME IInv, [Next]_vars
      PROVE  [Fifo!Next]_<<accepted, wire, overwritten>>
  <2>0. Numbers
    BY <1>2, InvNumbers
  <2> USE <2>0 DEF Numbers
  <2>1. CASE ~overwritten /\ Book
    <3>1. /\ toCopy \in 1..Size /\ txCount + toCopy <= Size /\ accepted + toCopy <= MaxBytes
      BY <2>1 DEF Book, Filling
    <3>2. accepted - Len(wire) <= txCount /\ Len(wire) \in Nat
      BY DEF Chunk
    <3>3. Fifo!Accept(toCopy)
      BY <2>1, <3>1, <3>2 DEF Book, Fifo!Accept, cr1Vars
    <3> QED BY <3>1, <3>3 DEF Fifo!Next
  <2>2. CASE ~overwritten /\ TransmitByte
    <3>1. busy /\ xferCount > 0 /\ wire' = Append(wire, ring[txPos]) /\ UNCHANGED <<accepted, overwritten>>
      BY <2>2 DEF TransmitByte, Enabled
    <3> DEFINE k == xferSize - xferCount
    <3>2. /\ k \in 0..(txCount - 1) /\ txPos = txStart + k /\ txPos < Size
          /\ Len(wire) = accepted - txCount + k
      BY <3>1 DEF Chunk
    <3>3. Wrap(txStart + k) = txPos
      BY <3>2 DEF Wrap
    <3>4. ring[txPos] = accepted - txCount + 1 + k
      BY <3>2, <3>3 DEF Waiting
    <3>5. ring[txPos] = Len(wire) + 1 /\ Len(wire) < accepted
      BY <3>2, <3>4
    <3> QED BY <2>2, <3>1, <3>5 DEF Fifo!Next, Fifo!Emit
  <2>3. CASE ~overwritten /\ TxCplt
    BY <2>3 DEF TxCplt
  <2>4. CASE ~overwritten /\ Shared
    <3>1. UNCHANGED <<accepted, wire>>
      BY <2>4, SharedSteps
    <3>2. overwritten = FALSE /\ overwritten' \in BOOLEAN
      BY <1>2, <2>4, TypeStep DEF IInv, TypeOK
    <3> QED BY <2>4, <3>1, <3>2 DEF Fifo!Next, Fifo!Break
  <2> QED
    BY <1>2, <2>1, <2>2, <2>3, <2>4
    DEF Next, Sender, Shared, Send, AwaitRoom, Look, Copy, Start, NextChunk, cr1Vars, vars
<1>3. UsartInit => Init
  BY DEF UsartInit
<1> QED BY <1>1, <1>2, <1>3, PortStep, RingInductive, PTL DEF UsartSpec, ImplementsFifo, Fifo!Spec

-----------------------------------------------------------------------------
(* The receive side.                                                        *)

Aborting == {"abort", "aborting", "reset", "arm", "locked"}
Arming == {"parity", "parityLoaded", "errors", "data", "dataLoaded"}

\* Who has the line buffer: nobody receives while a line is processed, and until
\* Receive begins, which it does for a line only when that is forgotten.
Ownership ==
  /\ at \in {"loop", "process"} <=> pc # "receive"
  /\ at = "process" => ~armed
  /\ at = "loop" /\ lineReceived => ~armed
  /\ at \in Aborting /\ ~afterError => ~armed /\ ~lineReceived
  /\ at \in Arming \cup {"return"} /\ ~afterError /\ lineReceived => ~armed

\* Something will end the wait for a line.
Listening ==
  /\ at = "loop" => armed \/ lineReceived \/ errorOccured \/ dropped
  /\ at \in Arming \cup {"return"} => armed \/ lineReceived \/ errorOccured

\* The receiver's interrupts fit its state, in CR1 and in the main loop's copy.
RxEnabled ==
  /\ armed /\ at \in {"loop", "return"} => "RXNE" \in cr1
  /\ armed /\ pc = "enabling" => "RXNE" \in copied
  /\ at \in {"reset", "arm", "locked"} \cup Arming => "RXNE" \notin cr1
  /\ at \in {"reset", "arm", "locked", "parity", "parityLoaded"} => "PE" \notin cr1
  /\ at = "parityLoaded" => "RXNE" \notin copied
  /\ armed => eie \/ at \in {"parity", "parityLoaded", "errors"}
  /\ hung => ~armed \/ at = "errors"

\* What the HAL still expects is the room left in the buffer.
Counted ==
  /\ ~armed => position = 0 /\ rxCount = 0
  /\ armed /\ ~rearmed => rxCount >= 1 /\ position + rxCount = LineSize

RxTypeOK ==
  /\ at \in {"loop", "process", "return"} \cup Aborting \cup Arming
  /\ afterError \in BOOLEAN
  /\ armed \in BOOLEAN /\ position \in 0..(LineSize + 1) /\ rxCount \in 0..(CountModulus - 1)
  /\ eie \in BOOLEAN
  /\ lineReceived \in BOOLEAN /\ errorOccured \in BOOLEAN
  /\ dataRegister \in Bytes \cup {Nothing} /\ rxError \in {"none", "other", "overrun"}
  /\ dropped \in BOOLEAN /\ rearmed \in BOOLEAN /\ hung \in BOOLEAN

\* What the receive side knows of itself, whatever is transmitted.
RInv == RxTypeOK /\ Ownership /\ Listening /\ RxEnabled /\ Counted

\* The transmit side, seen from here: it keeps the receive interrupts' enables,
\* in CR1 and in the copy it stores back.
LEMMA TransmitKeepsRx ==
  ASSUME RInv, Sends \/ Sending \/ TxInterrupt
  PROVE  /\ UNCHANGED rxVars
         /\ pc' = "receive" <=> pc = "receive"
         /\ \A e \in RxEnables : pc = "receive" => (e \in cr1' <=> e \in cr1)
         /\ pc = "receive" => copied' = copied
         /\ armed /\ at = "loop" => "RXNE" \in cr1'
         /\ armed /\ pc' = "enabling" => "RXNE" \in copied'
<1> USE DEF RInv, RxTypeOK, Ownership, RxEnabled, RxEnables
<1>1. CASE Sends
  BY <1>1 DEF Sends, Send, cr1Vars
<1>2. CASE Sending
  <2>1. UNCHANGED rxVars
    BY <1>2 DEF Sending
  <2>2. CASE LoadToSend
    BY <2>1, <2>2 DEF LoadToSend, Load
  <2>3. CASE StoreToSend
    BY <2>1, <2>3 DEF StoreToSend, Store
  <2>4. CASE AwaitRoom \/ Look \/ Copy \/ Book \/ Start
    BY <2>1, <2>4 DEF AwaitRoom, Look, Copy, Book, Start, cr1Vars
  <2>5. CASE NextChunk
    <3>1. pc = "next" /\ pc' \in {"look", "wait", "idle"} /\ UNCHANGED cr1Vars
      BY <2>5 DEF NextChunk
    <3> QED BY <2>1, <3>1 DEF cr1Vars
  <2> QED BY <1>2, <2>2, <2>3, <2>4, <2>5 DEF Sending, Sender
<1>3. CASE TxInterrupt
  <2>1. UNCHANGED rxVars /\ (TransmitByte \/ TxCplt)
    BY <1>3 DEF TxInterrupt
  <2>2. /\ pc' = pc /\ copied' = copied
        /\ \/ cr1' = cr1 \/ cr1' = (cr1 \ {"TXE"}) \cup {"TC"}
           \/ cr1' = cr1 \ {"TC"} \/ cr1' = (cr1 \ {"TC"}) \cup {"TXE"}
    <3>1. CASE TransmitByte
      BY <3>1 DEF TransmitByte
    <3>2. CASE TxCplt
      BY <3>2 DEF TxCplt, Rest
    <3> QED BY <2>1, <3>1, <3>2
  <2> QED BY <2>1, <2>2
<1> QED BY <1>1, <1>2, <1>3

\* A byte that does not end the line leaves one less to come.
LEMMA CountDown ==
  ASSUME NEW n \in 1..(CountModulus - 1)
  PROVE  (n - 1) % CountModulus = n - 1
BY LineAssumption

LEMMA CountWraps == ASSUME NEW n \in Int PROVE (n - 1) % CountModulus \in 0..(CountModulus - 1)
BY LineAssumption

\* What a byte without an error does, and what a byte or the transmitter does
\* while an error is flagged.
LEMMA ReceiveCases ==
  ASSUME ReceiveInterrupt
  PROVE  /\ "RXNE" \in cr1 /\ UNCHANGED <<pc, copied, loopVars, errorOccured, rxError, dropped>>
         /\ \/ ~armed /\ hung' = TRUE
               /\ UNCHANGED <<cr1, halRxVars, lineReceived, dataRegister, rearmed>>
            \/ /\ armed /\ dataRegister' = Nothing /\ hung' = hung
               /\ \/ LineEnds /\ EndLine
                  \/ ~LineEnds /\ StoreByte
BY DEF ReceiveInterrupt, DataPending, EndLine, StoreByte, RxEnablesBecome, vars, cr1Vars

LEMMA ErrorCases ==
  ASSUME ErrorInterrupt
  PROVE  /\ UNCHANGED <<pc, copied, loopVars, historyVars>>
         /\ \/ /\ hung' = TRUE /\ ~eie /\ cr1 \cap RxEnables # {}
               /\ UNCHANGED <<cr1, halRxVars, flagVars, uartVars>>
            \/ /\ hung' = hung /\ errorOccured' = TRUE /\ Disarm /\ eie' = FALSE
               /\ RxEnablesBecome({})
               /\ \E line \in BOOLEAN : lineReceived' = (lineReceived \/ line)
                                        /\ (line => armed /\ "RXNE" \in cr1)
               /\ dataRegister' \in {Nothing, dataRegister} /\ rxError' \in {"none", rxError}
<1>1. UNCHANGED <<loopVars, historyVars>> /\ ErrorPending
  BY DEF ErrorInterrupt
<1>2. CASE eie \/ errorCode
  <2> DEFINE received == DataPending /\ armed
             line == received /\ LineEnds
  <2>1. /\ errorOccured' = TRUE /\ lineReceived' = (lineReceived \/ line)
        /\ Disarm /\ eie' = FALSE /\ RxEnablesBecome({}) /\ hung' = hung
        /\ dataRegister' = (IF received THEN Nothing ELSE dataRegister)
        /\ rxError' = (IF received THEN "none" ELSE rxError)
    BY <1>2 DEF ErrorInterrupt
  <2>2. line => armed /\ "RXNE" \in cr1
    BY DEF DataPending
  <2>3. dataRegister' \in {Nothing, dataRegister} /\ rxError' \in {"none", rxError}
    BY <2>1
  <2>4. line \in BOOLEAN
    BY Zenon
  <2> HIDE DEF line
  <2>5. UNCHANGED <<pc, copied>>
    BY <2>1 DEF RxEnablesBecome
  <2>6. \E l \in BOOLEAN : lineReceived' = (lineReceived \/ l) /\ (l => armed /\ "RXNE" \in cr1)
    BY <2>1, <2>2, <2>4, Zenon
  <2> QED BY <1>1, <2>1, <2>3, <2>5, <2>6
<1>3. CASE ~(eie \/ errorCode)
  BY <1>1, <1>3 DEF ErrorInterrupt, ErrorPending, vars, cr1Vars
<1> QED BY <1>2, <1>3

LEMMA RxTypeStep == RInv /\ [UsartNext]_usartVars => RxTypeOK'
<1> SUFFICES ASSUME RInv, [UsartNext]_usartVars PROVE RxTypeOK'
  OBVIOUS
<1>0. 0 \in 0..(LineSize + 1) /\ 0 \in 0..(CountModulus - 1) /\ LineSize \in 0..(CountModulus - 1)
  BY LineAssumption
<1> USE <1>0 DEF RInv, RxTypeOK, Bytes, Nothing, Aborting, Arming,
                 loopVars, halRxVars, flagVars, uartVars, historyVars
<1>1. CASE Sends \/ Sending \/ TxInterrupt
  <2>1. UNCHANGED rxVars
    BY <1>1, TransmitKeepsRx
  <2> QED BY <2>1 DEF rxVars
<1>2. CASE TakeError \/ TakeLine \/ Processed
  BY <1>2, Zenon DEF TakeError, TakeLine, Processed
<1>3. CASE Return
  <2>1. lineReceived' \in BOOLEAN /\ dropped' \in BOOLEAN
    BY <1>3, Zenon DEF Return
  <2> QED BY <1>3, <2>1, Zenon DEF Return
<1>4. CASE Receive
  <2>1. UNCHANGED <<afterError, flagVars, uartVars, historyVars, hung>>
    BY <1>4, Zenon DEF Receive, At, LoadToAbort, DisableReceive, ResetReceive, BeginReceive, EndReceive,
       LoadForParity, EnableParity, EnableErrors, LoadForData, EnableData
  <2>2. at' \in Aborting \cup Arming \cup {"return"}
    BY <1>4 DEF Receive, At, LoadToAbort, DisableReceive, ResetReceive, BeginReceive, EndReceive,
       LoadForParity, EnableParity, EnableErrors, LoadForData, EnableData
  <2>3. /\ armed' \in {armed, FALSE, TRUE} /\ eie' \in {eie, FALSE, TRUE}
        /\ position' \in {position, 0} /\ rxCount' \in {rxCount, 0, LineSize}
    BY <1>4 DEF Receive, At, LoadToAbort, DisableReceive, ResetReceive, BeginReceive, EndReceive,
       LoadForParity, EnableParity, EnableErrors, LoadForData, EnableData, Disarm
  <2>4. position' \in 0..(LineSize + 1) /\ rxCount' \in 0..(CountModulus - 1)
    BY <2>3
  <2>5. armed' \in BOOLEAN /\ eie' \in BOOLEAN
    BY <2>3, Zenon
  <2>6. at' \in {"loop", "process", "return"} \cup Aborting \cup Arming
    BY <2>2
  <2> QED BY <2>1, <2>4, <2>5, <2>6, Zenon
<1>5. CASE \E b \in Bytes : ByteArrives(b)
  <2>1. /\ UNCHANGED <<loopVars, halRxVars, flagVars, historyVars, hung>>
        /\ dataRegister' \in Bytes \cup {Nothing} /\ rxError' \in {"none", "other", "overrun"}
    BY <1>5 DEF ByteArrives
  <2> QED BY <2>1
<1>6. CASE ReceiveInterrupt
  <2>1. /\ UNCHANGED <<loopVars, errorOccured, rxError, dropped>>
        /\ \/ ~armed /\ hung' = TRUE /\ UNCHANGED <<halRxVars, lineReceived, dataRegister, rearmed>>
           \/ /\ armed /\ dataRegister' = Nothing /\ hung' = hung
              /\ \/ LineEnds /\ EndLine
                 \/ ~LineEnds /\ StoreByte
    BY <1>6, ReceiveCases
  <2>2. CASE ~armed
    <3>1. /\ UNCHANGED <<loopVars, halRxVars, lineReceived, errorOccured, dataRegister, rxError, dropped, rearmed>>
          /\ hung' = TRUE
      BY <2>1, <2>2
    <3>2. hung' \in BOOLEAN
      BY <3>1
    <3> QED BY <3>1, <3>2
  <2>3. CASE armed /\ EndLine
    BY <2>1, <2>3, Zenon DEF EndLine, Disarm
  <2>4. CASE armed /\ StoreByte
    <3>1. /\ position' = Least(position + 1, LineSize + 1) /\ rxCount' = (rxCount - 1) % CountModulus
          /\ UNCHANGED <<armed, eie, lineReceived, rearmed>> /\ dataRegister' = Nothing /\ hung' = hung
      BY <2>1, <2>4 DEF StoreByte
    <3>2. rxCount' \in 0..(CountModulus - 1)
      BY <3>1, CountWraps
    <3>3. position' \in 0..(LineSize + 1)
      BY <3>1, LineAssumption DEF Least
    <3> QED BY <2>1, <3>1, <3>2, <3>3
  <2> QED BY <2>1, <2>2, <2>3, <2>4
<1>7. CASE ErrorInterrupt
  <2>1. /\ UNCHANGED <<loopVars, historyVars>>
        /\ \/ hung' = TRUE /\ UNCHANGED <<halRxVars, flagVars, uartVars>>
           \/ /\ hung' = hung /\ errorOccured' = TRUE /\ Disarm /\ eie' = FALSE
              /\ \E line \in BOOLEAN : lineReceived' = (lineReceived \/ line)
              /\ dataRegister' \in {Nothing, dataRegister} /\ rxError' \in {"none", rxError}
    BY <1>7, ErrorCases
  <2>2. \A line \in BOOLEAN : (lineReceived \/ line) \in BOOLEAN
    BY Zenon
  <2>3. lineReceived' \in BOOLEAN
    BY <2>1, <2>2, Zenon
  <2>4. dataRegister' \in Bytes \cup {Nothing} /\ rxError' \in {"none", "other", "overrun"}
    BY <2>1
  <2> QED BY <2>1, <2>3, <2>4, Zenon DEF Disarm
<1>8. CASE UNCHANGED usartVars
  BY <1>8 DEF usartVars, rxVars
<1> QED BY <1>1, <1>2, <1>3, <1>4, <1>5, <1>6, <1>7, <1>8 DEF UsartNext, LoopStep, RxInterrupt

\* One step of Receive keeps the four parts together: each prepares the next.
LEMMA ReceiveStep == RInv /\ ~hung /\ Receive => (Ownership /\ Listening /\ RxEnabled /\ Counted)'
<1> SUFFICES ASSUME RInv, ~hung, Receive PROVE (Ownership /\ Listening /\ RxEnabled /\ Counted)'
  OBVIOUS
<1> USE DEF RInv, RxTypeOK, Aborting, Arming, Ownership, Listening, RxEnabled, Counted,
            At, loopVars, halRxVars, flagVars, uartVars, historyVars, vars, cr1Vars
<1>1. CASE LoadToAbort
  BY <1>1 DEF LoadToAbort, LoadToReceive, Load
<1>2. CASE DisableReceive
  BY <1>2 DEF DisableReceive, StoreToReceive, Store, RxEnables
<1>3. CASE ResetReceive
  BY <1>3 DEF ResetReceive, Disarm
<1>4. CASE BeginReceive
  BY <1>4 DEF BeginReceive, LockToReceive
<1>5. CASE EndReceive
  <2>1. /\ at = "locked" /\ at' = "parity" /\ pc = "receive" /\ pc' = "receive"
        /\ UNCHANGED <<afterError, cr1, copied, lineReceived, errorOccured, dropped, hung>>
    BY <1>5 DEF EndReceive, UnlockReceive
  <2>2. Counted'
    BY <1>5, LineAssumption DEF EndReceive
  <2>3. armed'
    BY <1>5, Zenon DEF EndReceive
  <2> HIDE DEF Counted
  <2> QED BY <2>1, <2>2, <2>3
<1>6. CASE LoadForParity
  BY <1>6 DEF LoadForParity, LoadToReceive, Load
<1>7. CASE EnableParity
  BY <1>7 DEF EnableParity, StoreToReceive, Store
<1>8. CASE EnableErrors
  <2>1. /\ at = "errors" /\ at' = "data"
        /\ UNCHANGED <<pc, afterError, armed, position, rxCount, cr1, copied, lineReceived, errorOccured,
                       dropped, rearmed, hung>>
    BY <1>8 DEF EnableErrors
  <2>2. eie'
    BY <1>8, Zenon DEF EnableErrors
  <2> QED BY <2>1, <2>2
<1>9. CASE LoadForData
  BY <1>9 DEF LoadForData, LoadToReceive, Load
<1>10. CASE EnableData
  BY <1>10 DEF EnableData, StoreToReceive, Store
<1> QED BY <1>1, <1>2, <1>3, <1>4, <1>5, <1>6, <1>7, <1>8, <1>9, <1>10 DEF Receive

\* A byte that no error comes with keeps them.
LEMMA ByteStep == RInv /\ ~hung /\ ReceiveInterrupt => (Ownership /\ Listening /\ RxEnabled /\ Counted)'
<1> SUFFICES ASSUME RInv, ~hung, ReceiveInterrupt
             PROVE  (Ownership /\ Listening /\ RxEnabled /\ Counted)'
  OBVIOUS
<1>1. /\ "RXNE" \in cr1 /\ UNCHANGED <<pc, copied, loopVars, errorOccured, rxError, dropped>>
      /\ \/ ~armed /\ hung' = TRUE
            /\ UNCHANGED <<cr1, halRxVars, lineReceived, dataRegister, rearmed>>
         \/ /\ armed /\ dataRegister' = Nothing /\ hung' = hung
            /\ \/ LineEnds /\ EndLine
               \/ ~LineEnds /\ StoreByte
  BY ReceiveCases
<1> USE DEF RInv, RxTypeOK, Aborting, Arming, Ownership, Listening, RxEnabled, loopVars, halRxVars
<1>2. CASE ~armed
  <2>1. UNCHANGED <<pc, copied, at, afterError, errorOccured, dropped, cr1, armed, position, rxCount, eie,
                    lineReceived, rearmed>>
    BY <1>1, <1>2
  <2> QED BY <1>2, <2>1 DEF Counted
<1>3. CASE armed /\ EndLine
  <2>1. at \in {"loop", "abort", "aborting", "return"} /\ UNCHANGED <<pc, copied, at, afterError, dropped, hung>>
    BY <1>1, <1>3
  <2>2. CASE lineReceived
    <3>1. /\ cr1' = (cr1 \cap TxEnables) \cup RxEnables /\ UNCHANGED <<armed, lineReceived>>
          /\ rxCount' = 0 /\ position' = 0
      BY <1>3, <2>2 DEF EndLine, RxEnablesBecome
    <3>2. eie' /\ rearmed'
      BY <1>3, <2>2, Zenon DEF EndLine
    <3>3. at \notin {"loop", "abort", "aborting"} \/ afterError
      BY <1>3, <2>2
    <3>4. Counted'
      BY <1>3, <3>1, <3>2 DEF Counted
    <3>5. errorOccured' = errorOccured
      BY <1>1
    <3> QED BY <1>3, <2>1, <2>2, <3>1, <3>2, <3>3, <3>4, <3>5 DEF RxEnables
  <2>3. CASE ~lineReceived
    <3>1. cr1' = (cr1 \cap TxEnables) \cup {} /\ rxCount' = 0 /\ position' = 0
      BY <1>3, <2>3 DEF EndLine, Disarm, RxEnablesBecome
    <3>2. lineReceived' /\ ~armed'
      BY <1>3, <2>3, Zenon DEF EndLine, Disarm
    <3>3. Counted'
      BY <3>1, <3>2 DEF Counted
    <3>4. at \in {"abort", "aborting"} => afterError
      BY <1>3
    <3> QED BY <1>3, <2>1, <2>3, <3>1, <3>2, <3>3, <3>4
  <2> QED BY <2>2, <2>3
<1>4. CASE armed /\ ~LineEnds /\ StoreByte
  <2>1. /\ position' = Least(position + 1, LineSize + 1) /\ rxCount' = (rxCount - 1) % CountModulus
        /\ UNCHANGED <<armed, eie, lineReceived, rearmed>> /\ rxCount # 1
        /\ cr1' = (cr1 \cap TxEnables) \cup (cr1 \cap RxEnables)
    BY <1>4 DEF StoreByte, LineEnds, RxEnablesBecome
  <2>2. ASSUME ~rearmed
        PROVE  rxCount' >= 1 /\ position' + rxCount' = LineSize
    <3>1. rxCount >= 1 /\ position + rxCount = LineSize
      BY <1>4, <2>2 DEF Counted
    <3>2. rxCount' = rxCount - 1
      BY <2>1, <3>1, LineAssumption, CountDown
    <3>3. position' = position + 1
      BY <2>1, <3>1, LineAssumption DEF Least
    <3> QED BY <2>1, <3>1, <3>2, <3>3, LineAssumption
  <2>3. Counted'
    BY <1>4, <2>1, <2>2 DEF Counted
  <2>4. UNCHANGED <<pc, copied, at, afterError, dropped, hung, errorOccured>>
    BY <1>1, <1>4
  <2> QED BY <1>1, <2>1, <2>3, <2>4 DEF RxEnables
<1> QED BY <1>1, <1>2, <1>3, <1>4

\* An error keeps them: it ends the reception.
LEMMA ErrorStep == RInv /\ ~hung /\ ErrorInterrupt => (Ownership /\ Listening /\ RxEnabled /\ Counted)'
<1> SUFFICES ASSUME RInv, ~hung, ErrorInterrupt
             PROVE  (Ownership /\ Listening /\ RxEnabled /\ Counted)'
  OBVIOUS
<1> USE DEF RInv, RxTypeOK, Aborting, Arming, Ownership, Listening, RxEnabled,
            loopVars, halRxVars, flagVars, historyVars
<1>1. CASE ~eie /\ cr1 \cap RxEnables # {} /\ UNCHANGED <<pc, copied, cr1, loopVars, historyVars, halRxVars, flagVars>>
  <2>1. armed => at = "errors"
    BY <1>1 DEF RxEnables
  <2>2. Counted'
    BY <1>1 DEF Counted
  <2> QED BY <1>1, <2>1, <2>2
<1>2. ASSUME UNCHANGED <<pc, copied, loopVars, historyVars>>,
             hung' = hung, errorOccured' = TRUE, Disarm, eie' = FALSE, RxEnablesBecome({}),
             NEW line \in BOOLEAN, lineReceived' = (lineReceived \/ line), line => armed /\ "RXNE" \in cr1
      PROVE  (Ownership /\ Listening /\ RxEnabled /\ Counted)'
  <2>1. cr1' = (cr1 \cap TxEnables) \cup {} /\ rxCount' = 0 /\ position' = 0
    BY <1>2 DEF Disarm, RxEnablesBecome
  <2>2. ~armed' /\ errorOccured'
    BY <1>2, Zenon DEF Disarm
  <2>3. Counted'
    BY <2>1, <2>2 DEF Counted
  <2>4. at \in {"abort", "aborting", "reset", "arm", "locked"} /\ ~afterError => ~lineReceived'
    <3>1. at \in {"abort", "aborting", "reset", "arm", "locked"} /\ ~afterError => ~armed /\ ~lineReceived
      OBVIOUS
    <3>2. ~armed => ~line
      BY <1>2
    <3> QED BY <1>2, <3>1, <3>2, Zenon
  <2>5. UNCHANGED <<pc, copied, at, afterError, dropped, rearmed, hung>>
    BY <1>2
  <2> QED BY <2>1, <2>2, <2>3, <2>4, <2>5 DEF TxEnables
<1> QED BY <1>1, <1>2, ErrorCases

LEMMA ReceptionStep ==
  RInv /\ [UsartNext]_usartVars => (Ownership /\ Listening /\ RxEnabled /\ Counted)'
<1> SUFFICES ASSUME RInv, [UsartNext]_usartVars
             PROVE  (Ownership /\ Listening /\ RxEnabled /\ Counted)'
  OBVIOUS
<1>1. CASE Sends \/ Sending \/ TxInterrupt
  <2>1. /\ UNCHANGED <<at, afterError, armed, position, rxCount, eie, lineReceived, errorOccured, dropped,
                       rearmed, hung>>
        /\ pc' = "receive" <=> pc = "receive"
        /\ "RXNE" \in RxEnables /\ "PE" \in RxEnables
        /\ \A e \in RxEnables : pc = "receive" => (e \in cr1' <=> e \in cr1)
        /\ pc = "receive" => copied' = copied
        /\ armed /\ at = "loop" => "RXNE" \in cr1'
        /\ armed /\ pc' = "enabling" => "RXNE" \in copied'
    BY <1>1, TransmitKeepsRx DEF rxVars, loopVars, halRxVars, flagVars, historyVars, RxEnables
  <2> QED BY <2>1 DEF RInv, RxTypeOK, Ownership, Listening, RxEnabled, Counted, Aborting, Arming
<1>2. CASE Running /\ (TakeError \/ TakeLine \/ Processed)
  BY <1>2 DEF TakeError, TakeLine, Processed, EnterReceive, Running, cr1Vars, vars, flagVars, halRxVars, historyVars,
     RInv, RxTypeOK, Ownership, Listening, RxEnabled, Counted, Aborting, Arming
<1>3. CASE Return
  <2>1. /\ at = "return" /\ at' = "loop" /\ pc = "receive" /\ pc' = "idle"
        /\ UNCHANGED <<afterError, armed, position, rxCount, eie, errorOccured, rearmed, hung, cr1, copied>>
    BY <1>3 DEF Return, LeaveReceive, cr1Vars, halRxVars
  <2>2. (lineReceived' <=> lineReceived /\ ~afterError)
        /\ (dropped' <=> dropped \/ (afterError /\ lineReceived /\ ~armed))
    BY <1>3, Zenon DEF Return
  <2> QED BY <2>1, <2>2 DEF RInv, RxTypeOK, Ownership, Listening, RxEnabled, Counted, Aborting, Arming
<1>4. CASE \E b \in Bytes : ByteArrives(b)
  BY <1>4 DEF ByteArrives, vars, cr1Vars, loopVars, halRxVars, flagVars, historyVars,
     RInv, RxTypeOK, Ownership, Listening, RxEnabled, Counted, Aborting, Arming
<1>5. CASE UNCHANGED usartVars
  BY <1>5 DEF usartVars, vars, rxVars, cr1Vars, loopVars, halRxVars, flagVars, historyVars,
     RInv, RxTypeOK, Ownership, Listening, RxEnabled, Counted, Aborting, Arming
<1> QED
  BY <1>1, <1>2, <1>3, <1>4, <1>5, ReceiveStep, ByteStep, ErrorStep
  DEF UsartNext, LoopStep, RxInterrupt, Running

\* Whatever comes over the line, and whenever the interrupts fall, the main loop
\* and the HAL agree on who has the line buffer, and on the interrupts it needs.
THEOREM ReceptionInductive == UsartSpec => []RInv
<1>1. UsartInit => RInv
  <2>1. 0 \in 0..(LineSize + 1) /\ 0 \in 0..(CountModulus - 1)
    BY LineAssumption
  <2>2. UsartInit => RxTypeOK
    BY <2>1, Zenon DEF UsartInit, RxTypeOK, Aborting, Nothing
  <2>3. UsartInit => Ownership /\ Listening /\ RxEnabled /\ Counted
    BY DEF UsartInit, Init, Ownership, Listening, RxEnabled, Counted, Aborting, Arming
  <2> QED BY <2>2, <2>3 DEF RInv
<1>2. RInv /\ [UsartNext]_usartVars => RInv'
  BY RxTypeStep, ReceptionStep DEF RInv
<1> QED BY <1>1, <1>2, PTL DEF UsartSpec

\* The port's state, of both its sides, has the types of the code.
THEOREM PortTypes == UsartSpec => []UsartTypeOK
<1>1. IInv /\ RInv => UsartTypeOK
  BY DEF IInv, RInv, RxTypeOK, UsartTypeOK, Aborting, Arming
<1> QED BY <1>1, RingInductive, ReceptionInductive, PTL

\* The main loop never waits for a line that nobody receives, but after it
\* forgot the line that ended while it dealt with an error.
THEOREM PortListens == UsartSpec => []ReceiverListens
<1>1. RInv => ReceiverListens
  BY DEF RInv, RxTypeOK, Listening, RxEnabled, ReceiverListens
<1> QED BY <1>1, ReceptionInductive, PTL

\* A line is not overwritten while it is processed, and none is longer than the
\* buffer, for buffers of any size, unless the callback started a reception.
THEOREM LineKept == UsartSpec => []InputBufferKept
<1>1. RInv => InputBufferKept
  BY LineAssumption DEF RInv, RxTypeOK, Ownership, Counted, InputBufferKept
<1> QED BY <1>1, ReceptionInductive, PTL

\* The interrupt handler returns for good, except while nobody receives and at
\* one point of Receive.
THEOREM PortReturns == UsartSpec => []HandlerReturns
<1>1. RInv => HandlerReturns
  BY DEF RInv, RxEnabled, HandlerReturns
<1> QED BY <1>1, ReceptionInductive, PTL
=============================================================================
