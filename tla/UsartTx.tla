------------------------------ MODULE UsartTx ------------------------------
(***************************************************************************)
(* The transmit side of sg::Usart: the main loop fills a ring buffer (Send, *)
(* FillTxBuffer), the UART interrupt drains it one contiguous chunk at a    *)
(* time (UsartCallback), through the HAL's interrupt driven transmission.   *)
(*                                                                         *)
(* Main-loop steps are cut where an interrupt matters: the two ItLock       *)
(* sections of FillTxBuffer are one step each, and so is the memcpy.  An    *)
(* interrupt handler is one step.  Bytes are numbered as in TxFifo.         *)
(*                                                                         *)
(* The receive side shares the HAL's handle and the UART's register CR1,    *)
(* which holds both sides' interrupt enables.  Two of its moments disturb   *)
(* the transmitter, and are recorded.  HAL_UART_Receive_IT locks the handle *)
(* for a few instructions; the transmit-complete interrupt that falls there *)
(* cannot start its next chunk (HAL_BUSY, result ignored), and nothing else *)
(* ever starts it (`missed`).  The main loop changes CR1 by a load and a    *)
(* store with the interrupts on; the store undoes what the transmit         *)
(* interrupt has changed since the load (`overwritten`).  The transmitter   *)
(* then repeats, skips or never ends a chunk, on counts that mean nothing   *)
(* any more: the model follows it up to that store and no further.          *)
(***************************************************************************)
EXTENDS Integers, Sequences

CONSTANTS
  Size,      \* m_outputBufferSize
  MaxLen,    \* bound: the longest message given to Send
  MaxBytes   \* bound: the bytes sent in one run

ASSUME SizeAssumption == /\ Size \in Nat \ {0}
                         /\ MaxLen \in Nat
                         /\ MaxBytes \in Nat

VARIABLES
  pc,        \* where the main loop is
  count,     \* Send: bytes of the message not accepted yet
  freeStart, \* FillTxBuffer: freestart after the wrap
  canCopy,   \* FillTxBuffer: canCopy
  toCopy,    \* FillTxBuffer: tocopy
  ring,      \* m_outputBuffer
  txStart,   \* m_txStart
  txCount,   \* m_txCount
  busy,      \* huart->gState = HAL_UART_STATE_BUSY_TX
  locked,    \* huart->Lock
  errorCode, \* huart->ErrorCode # HAL_UART_ERROR_NONE
  cr1,       \* the interrupts enabled in Instance->CR1
  copied,    \* CR1 as the main loop has loaded it, to change it
  txPos,     \* huart->pTxBuffPtr - m_outputBuffer
  xferSize,  \* huart->TxXferSize
  xferCount, \* huart->TxXferCount
  accepted,  \* history: bytes counted into the ring
  wire,      \* the bytes written to the data register
  missed,    \* history: a chunk could not be started because of the lock
  overwritten  \* history: a change of the transmit interrupt to CR1 was undone

senderVars == <<count, freeStart, canCopy, toCopy>>
halVars == <<busy, errorCode, txPos, xferSize, xferCount>>
ringVars == <<ring, txStart, txCount>>
cr1Vars == <<cr1, copied, overwritten>>
vars == <<pc, senderVars, halVars, ringVars, cr1Vars, locked, accepted, wire, missed>>

\* TXEIE and TCIE, RXNEIE and PEIE.
TxEnables == {"TXE", "TC"}
RxEnables == {"RXNE", "PE"}

Least(a, b) == IF a < b THEN a ELSE b
Wrap(i) == IF i >= Size THEN i - Size ELSE i
\* The part of n bytes from index i on that does not run over the buffer's end.
Contiguous(i, n) == IF i + n > Size THEN Size - i ELSE n

\* HAL_UART_Transmit_IT from an idle and unlocked handle, up to the change of CR1.
StartTransmit(pos, n) ==
  /\ busy' = TRUE
  /\ errorCode' = FALSE
  /\ txPos' = pos
  /\ xferSize' = n
  /\ xferCount' = n

\* The main loop changes CR1: CR1 |= on, CR1 &= ~off.
Load == copied' = cr1 /\ UNCHANGED <<cr1, overwritten>>
Store(on, off) ==
  /\ cr1' = (copied \cup on) \ off
  /\ overwritten' = (overwritten \/ copied \cap TxEnables # cr1 \cap TxEnables)
  /\ copied' = {}

-----------------------------------------------------------------------------
(* Send and FillTxBuffer.                                                   *)

Send(n) ==
  /\ pc = "idle"
  /\ accepted + n <= MaxBytes
  /\ pc' = "wait"
  /\ count' = n
  /\ UNCHANGED <<freeStart, canCopy, toCopy, halVars, ringVars, cr1Vars, locked, accepted, wire, missed>>

\* while(m_txCount == m_outputBufferSize): the firmware's ports block.
AwaitRoom ==
  /\ pc = "wait"
  /\ txCount # Size
  /\ pc' = "look"
  /\ UNCHANGED <<senderVars, halVars, ringVars, cr1Vars, locked, accepted, wire, missed>>

\* Mutant: the bytes that wait are not subtracted from the room.
LookWholeBuffer ==
  /\ pc = "look"
  /\ pc' = "copy"
  /\ freeStart' = Wrap(txStart + txCount)
  /\ canCopy' = Least(count, Size)
  /\ toCopy' = Contiguous(freeStart', canCopy')
  /\ UNCHANGED <<count, halVars, ringVars, cr1Vars, locked, accepted, wire, missed>>

\* Mutant: the free part is taken to begin where the waiting bytes do.
LookAtStart ==
  /\ pc = "look"
  /\ pc' = "copy"
  /\ freeStart' = txStart
  /\ canCopy' = Least(count, Size - txCount)
  /\ toCopy' = Contiguous(freeStart', canCopy')
  /\ UNCHANGED <<count, halVars, ringVars, cr1Vars, locked, accepted, wire, missed>>

\* The first locked section and the sizes computed from it.
Look ==
  /\ pc = "look"
  /\ pc' = "copy"
  /\ freeStart' = Wrap(txStart + txCount)
  /\ canCopy' = Least(count, Size - txCount)
  /\ toCopy' = Contiguous(freeStart', canCopy')
  /\ UNCHANGED <<count, halVars, ringVars, cr1Vars, locked, accepted, wire, missed>>

Copy ==
  /\ pc = "copy"
  /\ pc' = "book"
  /\ ring' = [i \in 0..(Size - 1) |->
                IF i \in freeStart..(freeStart + toCopy - 1)
                  THEN accepted + 1 + (i - freeStart)
                  ELSE ring[i]]
  /\ UNCHANGED <<senderVars, txStart, txCount, halVars, cr1Vars, locked, accepted, wire, missed>>

\* The second locked section; the copied bytes now belong to the ring.
Book ==
  /\ pc = "book"
  /\ pc' = IF txCount = 0 THEN "start" ELSE "next"
  /\ txCount' = txCount + toCopy
  /\ accepted' = accepted + toCopy
  /\ UNCHANGED <<senderVars, ring, txStart, halVars, cr1Vars, locked, wire, missed>>

\* Mutant: only the last piece of a message starts the hardware.
StartLast ==
  /\ pc = "start"
  /\ IF busy \/ toCopy < count
       THEN pc' = "next" /\ UNCHANGED halVars
       ELSE pc' = "enable" /\ StartTransmit(freeStart, toCopy)
  /\ UNCHANGED <<senderVars, ringVars, cr1Vars, locked, accepted, wire, missed>>

\* Nothing was waiting: start the hardware; any other result ends Send.
Start ==
  /\ pc = "start"
  /\ IF busy
       THEN pc' = "idle" /\ UNCHANGED halVars
       ELSE pc' = "enable" /\ StartTransmit(freeStart, toCopy)
  /\ UNCHANGED <<senderVars, ringVars, cr1Vars, locked, accepted, wire, missed>>

\* HAL_UART_Transmit_IT enables the interrupt that sends the first byte.
LoadToSend ==
  /\ pc = "enable"
  /\ pc' = "enabling"
  /\ Load
  /\ UNCHANGED <<senderVars, halVars, ringVars, locked, accepted, wire, missed>>

StoreToSend ==
  /\ pc = "enabling"
  /\ pc' = "next"
  /\ Store({"TXE"}, {})
  /\ UNCHANGED <<senderVars, halVars, ringVars, locked, accepted, wire, missed>>

\* freestart and tocopy are set again before they are used.
NextChunk ==
  /\ pc = "next"
  /\ count' = count - toCopy
  /\ canCopy' = canCopy - toCopy
  /\ freeStart' = 0 /\ toCopy' = 0
  /\ pc' = CASE canCopy' > 0 -> "look"
             [] canCopy' = 0 /\ count' > 0 -> "wait"
             [] OTHER -> "idle"
  /\ UNCHANGED <<halVars, ringVars, cr1Vars, locked, accepted, wire, missed>>

-----------------------------------------------------------------------------
(* Receive, as far as it touches what both sides share.                     *)

EnterReceive ==
  /\ pc = "idle"
  /\ pc' = "receive"
  /\ UNCHANGED <<senderVars, halVars, ringVars, cr1Vars, locked, accepted, wire, missed>>

LoadToReceive ==
  /\ pc = "receive"
  /\ Load
  /\ UNCHANGED <<pc, senderVars, halVars, ringVars, locked, accepted, wire, missed>>

StoreToReceive(on, off) ==
  /\ pc = "receive"
  /\ Store(on, off)
  /\ UNCHANGED <<pc, senderVars, halVars, ringVars, locked, accepted, wire, missed>>

\* HAL_UART_Receive_IT takes the handle's lock, and lets it go.
LockToReceive ==
  /\ pc = "receive"
  /\ locked' = TRUE
  /\ UNCHANGED <<pc, senderVars, halVars, ringVars, cr1Vars, accepted, wire, missed>>

UnlockReceive ==
  /\ pc = "receive"
  /\ locked' = FALSE /\ errorCode' = FALSE
  /\ UNCHANGED <<pc, senderVars, busy, txPos, xferSize, xferCount, ringVars, cr1Vars, accepted, wire, missed>>

LeaveReceive ==
  /\ pc = "receive" /\ ~locked
  /\ pc' = "idle"
  /\ UNCHANGED <<senderVars, halVars, ringVars, cr1Vars, locked, accepted, wire, missed>>

\* The receive interrupts leave the transmitter's enables alone.
RxEnablesBecome(enables) ==
  /\ cr1' = (cr1 \cap TxEnables) \cup enables
  /\ UNCHANGED <<pc, senderVars, busy, txPos, xferSize, xferCount, ringVars, copied, overwritten,
                 locked, accepted, wire, missed>>

-----------------------------------------------------------------------------
(* The UART interrupt.                                                      *)

\* UART_Transmit_IT: the data register takes one more byte of the chunk.
TransmitByte ==
  /\ "TXE" \in cr1 /\ busy
  /\ wire' = Append(wire, ring[txPos])
  /\ txPos' = txPos + 1
  /\ xferCount' = xferCount - 1
  /\ cr1' = IF xferCount' = 0 THEN (cr1 \ {"TXE"}) \cup {"TC"} ELSE cr1
  /\ UNCHANGED <<pc, senderVars, busy, errorCode, xferSize, ringVars, copied, overwritten,
                 locked, accepted, missed>>

ChunkSent == "TC" \in cr1 /\ "TXE" \notin cr1
Rest == busy' = FALSE /\ cr1' = cr1 \ {"TC"}

\* Mutant: the start of the next chunk is not wrapped.
TxCpltNoWrap ==
  /\ ChunkSent
  /\ Rest
  /\ txCount' = txCount - xferSize
  /\ txStart' = txStart + xferSize
  /\ UNCHANGED <<pc, senderVars, errorCode, txPos, xferSize, xferCount, ring, copied, overwritten,
                 locked, accepted, wire, missed>>

\* Mutant: what waits behind the finished chunk is not started.
TxCpltOneChunk ==
  /\ ChunkSent
  /\ Rest
  /\ txCount' = txCount - xferSize
  /\ txStart' = Wrap(txStart + xferSize)
  /\ UNCHANGED <<pc, senderVars, errorCode, txPos, xferSize, xferCount, ring, copied, overwritten,
                 locked, accepted, wire, missed>>

\* UART_EndTransmit_IT and UsartCallback(TxCpltCallback).
TxCplt ==
  /\ ChunkSent
  /\ IF txCount = 0
       THEN Rest /\ UNCHANGED <<errorCode, txPos, xferSize, xferCount, txStart, txCount, missed>>
       ELSE /\ txCount' = txCount - xferSize
            /\ txStart' = Wrap(txStart + xferSize)
            /\ LET chunkSize == Contiguous(txStart', txCount')
               IN IF chunkSize > 0 /\ ~locked
                    THEN /\ StartTransmit(txStart', chunkSize)
                         /\ cr1' = (cr1 \ {"TC"}) \cup {"TXE"}
                         /\ UNCHANGED missed
                    ELSE /\ Rest
                         /\ missed' = (missed \/ chunkSize > 0)
                         /\ UNCHANGED <<errorCode, txPos, xferSize, xferCount>>
  /\ UNCHANGED <<pc, senderVars, ring, copied, overwritten, locked, accepted, wire>>

-----------------------------------------------------------------------------

\* The program begins with the reception of the first line.
Init ==
  /\ pc = "receive"
  /\ count = 0 /\ freeStart = 0 /\ canCopy = 0 /\ toCopy = 0
  /\ ring = [i \in 0..(Size - 1) |-> 0]
  /\ txStart = 0 /\ txCount = 0
  /\ busy = FALSE /\ locked = FALSE /\ errorCode = FALSE
  /\ txPos = 0 /\ xferSize = 0 /\ xferCount = 0
  /\ cr1 = {} /\ copied = {}
  /\ accepted = 0
  /\ wire = <<>>
  /\ missed = FALSE /\ overwritten = FALSE

Sender == AwaitRoom \/ Look \/ Copy \/ Book \/ Start \/ LoadToSend \/ StoreToSend \/ NextChunk

Receiver ==
  \/ EnterReceive \/ LoadToReceive \/ LockToReceive \/ UnlockReceive \/ LeaveReceive
  \/ \E on, off \in SUBSET RxEnables : StoreToReceive(on, off)
  \/ \E enables \in SUBSET RxEnables : RxEnablesBecome(enables) /\ errorCode' \in BOOLEAN

Next ==
  /\ ~overwritten
  /\ \/ \E n \in 1..MaxLen : Send(n)
     \/ Sender
     \/ Receiver
     \/ TransmitByte
     \/ TxCplt

-----------------------------------------------------------------------------
(* Properties.                                                              *)

Indices == 0..(Size - 1)

TypeOK ==
  /\ pc \in {"idle", "wait", "look", "copy", "book", "start", "enable", "enabling", "next", "receive"}
  /\ count \in 0..MaxLen
  /\ freeStart \in Indices
  /\ canCopy \in 0..Size /\ toCopy \in 0..Size
  /\ ring \in [Indices -> 0..MaxBytes]
  /\ txStart \in Indices /\ txCount \in 0..Size
  /\ busy \in BOOLEAN /\ locked \in BOOLEAN /\ errorCode \in BOOLEAN
  /\ txPos \in 0..Size /\ xferSize \in 0..Size /\ xferCount \in 0..Size
  /\ cr1 \in SUBSET (TxEnables \cup RxEnables) /\ copied \in SUBSET (TxEnables \cup RxEnables)
  /\ accepted \in 0..MaxBytes
  /\ wire \in Seq(0..MaxBytes)
  /\ missed \in BOOLEAN /\ overwritten \in BOOLEAN

\* The bytes callers hand over leave in order, once each, and never more than
\* the buffer holds are waiting, although the two ends of the ring are advanced
\* by the main loop and by the interrupt from copies that may be old.  The
\* promise ends where the main loop undoes the interrupt's change of CR1.
Fifo == INSTANCE TxFifo WITH Capacity <- Size, broken <- overwritten
ImplementsFifo == Fifo!Spec

\* Until then: the interrupt never has a chunk on its way that the main loop is
\* still writing, or more bytes than the ring holds; it is enabled for the next
\* byte, or for the end of the last one, exactly while a chunk is on its way;
\* and the transmitter is idle only when the ring is empty, is about to be
\* started, or missed its start.
TransmitterOwnsItsChunk ==
  ~overwritten =>
    /\ busy => /\ xferSize <= txCount
               /\ txPos + xferCount = txStart + xferSize
               /\ pc = "copy" => \A i \in freeStart..(freeStart + toCopy - 1) :
                                    i \notin txStart..(txStart + xferSize - 1)
    /\ pc \notin {"enable", "enabling"} =>
         cr1 \cap TxEnables = IF busy THEN {IF xferCount > 0 THEN "TXE" ELSE "TC"} ELSE {}
    /\ ~busy /\ pc # "start" /\ ~missed => txCount = 0
=============================================================================
