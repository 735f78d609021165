------------------------------- MODULE Usart -------------------------------
(***************************************************************************)
(* sg::Usart as MainLoop uses it: UsartTx with its receive side.  The UART   *)
(* interrupt puts bytes into m_serialBuffer until a line ends, MainLoop      *)
(* processes the line and only then receives again.  A byte that comes while *)
(* nobody receives waits in the data register, the next one is an overrun,   *)
(* and an error aborts the reception until MainLoop sees it.                 *)
(*                                                                         *)
(* Receive takes as many steps as it has moments where an interrupt finds    *)
(* something different.  Three moments go wrong, and are recorded.  MainLoop *)
(* forgets a line when it has dealt with an error, after it has begun to     *)
(* receive again (`dropped`).  LineReceived starts a reception inside the    *)
(* HAL's callback, which then clears its count (`rearmed`).  And an          *)
(* interrupt that cannot deal with its own cause, because the receiver's     *)
(* state and its enables do not fit, is taken again and again, and nothing   *)
(* else ever runs (`hung`).                                                  *)
(***************************************************************************)
EXTENDS UsartTx

CONSTANTS
  LineSize,    \* LINEBUFFER_SIZE
  CountModulus \* 2^16, the range of RxXferCount

ASSUME LineAssumption == /\ LineSize \in Nat \ {0}
                         /\ CountModulus \in Nat /\ CountModulus > LineSize

VARIABLES
  at,            \* where the main loop is with its input
  afterError,    \* Receive is called because of an error
  armed,         \* huart->RxState = HAL_UART_STATE_BUSY_RX
  position,      \* huart->pRxBuffPtr - m_serialBuffer
  rxCount,       \* huart->RxXferCount
  eie,           \* EIE in Instance->CR3
  lineReceived,  \* m_serialLineReceived
  errorOccured,  \* m_errorOccured
  dataRegister,  \* the byte that waits in the UART
  rxError,       \* the error flags of the UART: an overrun, or only others
  dropped,       \* history: a line was forgotten after an error
  rearmed,       \* history: a reception was started inside the callback
  hung           \* the interrupt is taken for ever

loopVars == <<at, afterError>>
halRxVars == <<armed, position, rxCount, eie>>
flagVars == <<lineReceived, errorOccured>>
uartVars == <<dataRegister, rxError>>
historyVars == <<dropped, rearmed>>
rxVars == <<loopVars, halRxVars, flagVars, uartVars, historyVars, hung>>
usartVars == <<vars, rxVars>>

Nothing == "nothing"
Bytes == {"char", "eol"}

\* The reception is over; its pointer is not used any more.
Disarm == armed' = FALSE /\ position' = 0 /\ rxCount' = 0

-----------------------------------------------------------------------------
(* MainLoop::Loop.                                                          *)

\* GetAndClearError.
TakeError ==
  /\ at = "loop" /\ errorOccured
  /\ errorOccured' = FALSE
  /\ at' = "abort" /\ afterError' = TRUE
  /\ EnterReceive
  /\ UNCHANGED <<halRxVars, lineReceived, uartVars, historyVars, hung>>

TakeLine ==
  /\ pc = "idle" /\ at = "loop" /\ lineReceived
  /\ at' = "process"
  /\ UNCHANGED <<vars, afterError, halRxVars, flagVars, uartVars, historyVars, hung>>

\* Mutant: nothing is received after a line.
ProcessedNoReceive ==
  /\ pc = "idle" /\ at = "process"
  /\ lineReceived' = FALSE
  /\ at' = "loop"
  /\ UNCHANGED <<vars, afterError, halRxVars, errorOccured, uartVars, historyVars, hung>>

Processed ==
  /\ at = "process"
  /\ lineReceived' = FALSE
  /\ at' = "abort" /\ afterError' = FALSE
  /\ EnterReceive
  /\ UNCHANGED <<halRxVars, errorOccured, uartVars, historyVars, hung>>

\* Receive has returned; after an error m_serialLineReceived is cleared last.
Return ==
  /\ at = "return" /\ at' = "loop"
  /\ LeaveReceive
  /\ lineReceived' = (lineReceived /\ ~afterError)
  /\ dropped' = (dropped \/ (afterError /\ lineReceived /\ ~armed))
  /\ UNCHANGED <<afterError, halRxVars, errorOccured, uartVars, rearmed, hung>>

-----------------------------------------------------------------------------
(* Receive: HAL_UART_AbortReceive, unless it is the first call, and then     *)
(* HAL_UART_Receive_IT.                                                      *)

At(here, next) ==
  /\ at = here /\ at' = next
  /\ UNCHANGED <<afterError, position, flagVars, uartVars, historyVars, hung>>

LoadToAbort == At("abort", "aborting") /\ LoadToReceive /\ UNCHANGED <<armed, rxCount, eie>>

DisableReceive ==
  /\ At("aborting", "reset")
  /\ StoreToReceive({}, RxEnables)
  /\ UNCHANGED <<armed, rxCount, eie>>

ResetReceive ==
  /\ at = "reset" /\ at' = "arm"
  /\ Disarm /\ eie' = FALSE
  /\ UNCHANGED <<vars, afterError, flagVars, uartVars, historyVars, hung>>

BeginReceive == At("arm", "locked") /\ LockToReceive /\ UNCHANGED <<armed, rxCount, eie>>

EndReceive ==
  /\ at = "locked" /\ at' = "parity"
  /\ UnlockReceive
  /\ armed' = TRUE /\ position' = 0 /\ rxCount' = LineSize
  /\ UNCHANGED <<afterError, eie, flagVars, uartVars, historyVars, hung>>

LoadForParity == At("parity", "parityLoaded") /\ LoadToReceive /\ UNCHANGED <<armed, rxCount, eie>>

EnableParity ==
  /\ At("parityLoaded", "errors")
  /\ StoreToReceive({"PE"}, {})
  /\ UNCHANGED <<armed, rxCount, eie>>

\* Mutant: the error interrupts stay disabled.
EnableNoErrors == At("errors", "data") /\ UNCHANGED <<vars, armed, rxCount, eie>>

EnableErrors == At("errors", "data") /\ eie' = TRUE /\ UNCHANGED <<vars, armed, rxCount>>

LoadForData == At("data", "dataLoaded") /\ LoadToReceive /\ UNCHANGED <<armed, rxCount, eie>>

EnableData ==
  /\ At("dataLoaded", "return")
  /\ StoreToReceive({"RXNE"}, {})
  /\ UNCHANGED <<armed, rxCount, eie>>

Receive ==
  \/ LoadToAbort \/ DisableReceive \/ ResetReceive
  \/ BeginReceive \/ EndReceive
  \/ LoadForParity \/ EnableParity \/ EnableErrors \/ LoadForData \/ EnableData

-----------------------------------------------------------------------------
(* The UART and its interrupt, HAL_UART_IRQHandler.                         *)

ByteArrives(b) ==
  /\ IF dataRegister = Nothing
       THEN dataRegister' = b /\ rxError' \in {"none", "other"}
       ELSE rxError' = "overrun" /\ UNCHANGED dataRegister
  /\ UNCHANGED <<vars, loopVars, halRxVars, flagVars, historyVars, hung>>

DataPending == "RXNE" \in cr1 /\ dataRegister # Nothing
ErrorPending == rxError # "none" /\ (eie \/ cr1 \cap RxEnables # {})

\* UART_Receive_IT stores a byte.
StoreByte ==
  /\ position' = Least(position + 1, LineSize + 1)  \* bound
  /\ rxCount' = (rxCount - 1) % CountModulus
  /\ RxEnablesBecome(cr1 \cap RxEnables)
  /\ UNCHANGED <<armed, eie, lineReceived, errorCode, rearmed>>

\* Mutant: only the end of a line ends the reception.
LineEndsByEol == dataRegister = "eol"

LineEnds == dataRegister = "eol" \/ rxCount = 1

\* UART_Receive_IT ends a line; LineReceived takes it, or starts anew when the
\* line before is still there, and RxXferCount is cleared behind it.
EndLine ==
  IF lineReceived
    THEN /\ rxCount' = 0 /\ position' = 0 /\ eie' = TRUE
         /\ rearmed' = TRUE /\ errorCode' = FALSE
         /\ RxEnablesBecome(RxEnables)
         /\ UNCHANGED <<armed, lineReceived>>
    ELSE /\ lineReceived' = TRUE
         /\ Disarm /\ eie' = FALSE
         /\ RxEnablesBecome({})
         /\ UNCHANGED <<errorCode, rearmed>>

\* A byte without an error.
ReceiveInterrupt ==
  /\ DataPending /\ rxError = "none"
  /\ IF armed
       THEN /\ IF LineEnds THEN EndLine ELSE StoreByte
            /\ dataRegister' = Nothing
            /\ UNCHANGED hung
       ELSE /\ hung' = TRUE
            /\ UNCHANGED <<vars, halRxVars, lineReceived, dataRegister, rearmed>>
  /\ UNCHANGED <<loopVars, errorOccured, rxError, dropped>>

\* Any of the port's interrupts while an error is flagged: what waits is
\* received, and the reception aborted (UsartCallback).  Without EIE and an
\* older ErrorCode the handler does nothing, and its cause remains.
ErrorInterrupt ==
  /\ ErrorPending /\ (DataPending \/ cr1 \cap TxEnables # {})
  /\ IF eie \/ errorCode
       THEN LET received == DataPending /\ armed
                line == received /\ LineEnds
            IN /\ errorOccured' = TRUE
               /\ lineReceived' = (lineReceived \/ line)
               /\ Disarm /\ eie' = FALSE
               /\ RxEnablesBecome({})
               /\ errorCode' = ((rxError = "overrun" \/ errorCode) /\ ~(line /\ lineReceived))
               /\ dataRegister' = IF received THEN Nothing ELSE dataRegister
               /\ rxError' = IF received THEN "none" ELSE rxError
               /\ UNCHANGED hung
       ELSE /\ hung' = TRUE
            /\ UNCHANGED <<vars, halRxVars, flagVars, uartVars>>
  /\ UNCHANGED <<loopVars, historyVars>>

-----------------------------------------------------------------------------

UsartInit ==
  /\ Init
  /\ at = "arm" /\ afterError = FALSE
  /\ armed = FALSE /\ position = 0 /\ rxCount = 0 /\ eie = FALSE
  /\ lineReceived = FALSE /\ errorOccured = FALSE
  /\ dataRegister = Nothing /\ rxError = "none"
  /\ dropped = FALSE /\ rearmed = FALSE /\ hung = FALSE

Running == ~hung /\ ~overwritten

Sending == Running /\ Sender /\ UNCHANGED rxVars
Sends == Running /\ at \in {"loop", "process"} /\ (\E n \in 1..MaxLen : Send(n)) /\ UNCHANGED rxVars
LoopStep == Running /\ (TakeError \/ TakeLine \/ Processed \/ Receive \/ Return)
RxInterrupt == Running /\ (ReceiveInterrupt \/ ErrorInterrupt)
\* The handler looks at the transmitter last.
TxInterrupt == Running /\ ~DataPending /\ ~ErrorPending /\ (TransmitByte \/ TxCplt) /\ UNCHANGED rxVars

UsartNext ==
  \/ Sends \/ Sending
  \/ LoopStep
  \/ \E b \in Bytes : ByteArrives(b)
  \/ RxInterrupt
  \/ TxInterrupt

\* The main loop runs on, and the UART keeps shifting bytes out: a byte takes
\* longer to arrive than the handler to run, so the transmitter has its turn.
UsartSpec ==
  /\ UsartInit /\ [][UsartNext]_usartVars
  /\ WF_usartVars(Sending) /\ WF_usartVars(RxInterrupt) /\ SF_usartVars(TxInterrupt)

-----------------------------------------------------------------------------
(* Properties.                                                              *)

UsartTypeOK ==
  /\ TypeOK
  /\ at \in {"loop", "process", "abort", "aborting", "reset", "arm", "locked", "parity",
             "parityLoaded", "errors", "data", "dataLoaded", "return"}
  /\ afterError \in BOOLEAN
  /\ armed \in BOOLEAN /\ position \in 0..(LineSize + 1) /\ rxCount \in 0..(CountModulus - 1)
  /\ eie \in BOOLEAN
  /\ lineReceived \in BOOLEAN /\ errorOccured \in BOOLEAN
  /\ dataRegister \in Bytes \cup {Nothing} /\ rxError \in {"none", "other", "overrun"}
  /\ dropped \in BOOLEAN /\ rearmed \in BOOLEAN /\ hung \in BOOLEAN

\* The main loop never waits for a line that nobody receives, except for the
\* line that it forgot: then the port is deaf until it is reset.
ReceiverListens ==
  at = "loop" => (armed /\ "RXNE" \in cr1) \/ lineReceived \/ errorOccured \/ dropped

\* A line is not written while it is processed, and no more bytes are received
\* than the buffer holds, unless the reception was started inside the callback.
InputBufferKept ==
  /\ at = "process" => ~armed
  /\ position > LineSize => rearmed

\* The interrupt handler deals with its cause and returns for good, except while
\* nobody receives and the line's enables are on all the same, and at the one
\* point of Receive where a parity error is waited for and no other error is.
HandlerReturns == hung => ~armed \/ at = "errors"

\* As long as no start is missed, CR1 stays right and the handler returns, every
\* byte taken over leaves, and a caller blocked on a full buffer always gets on.
Broken == missed \/ overwritten \/ hung
Drains == []~Broken => \A k \in 1..MaxBytes : []<>(accepted >= k => Len(wire) >= k)
SenderGetsOn == pc = "wait" ~> pc # "wait" \/ Broken
=============================================================================
