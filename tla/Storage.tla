------------------------------ MODULE Storage ------------------------------
(***************************************************************************)
(* The vehicle records in the EEPROM: i2cdb over sg::I2cEEPROM over          *)
(* sg::I2cMaster.  The main loop makes one call at a time; a transfer is     *)
(* started, carried out by the I2C interrupt and waited for with             *)
(* WaitCallback.  Only the configuration is saved without waiting, so its    *)
(* transfer may still run when the next call comes.                          *)
(*                                                                         *)
(* The bus may fail at any time; the error callback's code stays in          *)
(* m_callbackError and every later transfer is refused.  After a write the   *)
(* chip programs its cells and answers nobody.  The power may be cut.        *)
(*                                                                         *)
(* m_expectedCallback is set after the transfer is started; `early` records  *)
(* that the interrupt came in between.  Addresses are cells: a record's, or  *)
(* the configuration's, whose content is left out.                           *)
(***************************************************************************)
EXTENDS Naturals

CONSTANTS
  Ids,        \* the record numbers, 0 .. MAX_CODE in the firmware
  Infos,      \* days and time windows of a record
  Positions,  \* dbrecord::POSITION
  Config,     \* stands for the configuration's cells
  None        \* no transfer, nothing to program

VARIABLES
  pc,             \* where the call is
  op,             \* the call: what is read or written
  ok,             \* the result of the last call (not of Save, which reports the start)
  found,          \* recout of getParams
  buffer,         \* getParams's buffer, None before it is filled
  expected,       \* m_expectedCallback
  callbackError,  \* m_callbackError # HAL_I2C_ERROR_NONE
  needPoll,       \* m_needPoll
  transfer,       \* the transfer on the bus
  mem,            \* the chip's cells
  programming,    \* the record or the page the chip is programming
  early           \* history: a callback came before it was expected

Torn == "torn"
Quiet == "none"  \* no callback is expected

Records == [info : Infos \cup {Torn}, pos : Positions]
Reads == [part : {"read"}, id : Ids]
Writes == [part : {"whole", "pos"}, id : Ids, rec : [info : Infos, pos : Positions]]
Saves == [part : {"save"}, id : {Config}]
Calls == Reads \cup Writes \cup Saves

ASSUME StorageAssumption ==
  /\ Ids # {} /\ Config \notin Ids
  /\ Torn \notin Infos
  /\ None \notin Calls \cup Records
  /\ None \notin [id : Ids, rec : Records] \cup [id : {Config}, rec : {None}]

callVars == <<pc, op>>
resultVars == <<ok, found>>
busVars == <<expected, callbackError, needPoll, transfer, buffer>>
chipVars == <<mem, programming>>
vars == <<callVars, resultVars, busVars, chipVars, early>>

\* MemRxCpltCallback or MemTxCpltCallback.
Kind(o) == IF o.part = "read" THEN "rx" ELSE "tx"

Written(old, w) == IF w.part = "whole" THEN w.rec ELSE [old EXCEPT !.pos = w.rec.pos]

\* Bytes of old and new, where the write of new over old is cut short.
Between(old, new) ==
  [info : {old.info, new.info} \cup (IF old.info = new.info THEN {} ELSE {Torn}),
   pos : {old.pos, new.pos}]

-----------------------------------------------------------------------------
(* The call.                                                                *)

\* Mutant: only a write polls the chip first.
CallPollsWrites(o) ==
  /\ pc = "idle"
  /\ pc' = IF needPoll /\ o.part # "read" THEN "poll" ELSE "start"
  /\ op' = o
  /\ ok' = FALSE /\ found' = None
  /\ UNCHANGED <<busVars, chipVars, early>>

\* getParams, setParams, setStatus, Save: into I2cEEPROM::Read or ::Write.
Call(o) ==
  /\ pc = "idle"
  /\ pc' = IF needPoll THEN "poll" ELSE "start"
  /\ op' = o
  /\ ok' = FALSE /\ found' = None
  /\ UNCHANGED <<busVars, chipVars, early>>

Return(result) ==
  /\ pc' = "idle" /\ op' = None
  /\ ok' = result

\* PollStatus: the chip takes its address again.
PollAcked ==
  /\ pc = "poll" /\ expected = Quiet
  /\ ~callbackError /\ programming = None
  /\ pc' = "start"
  /\ needPoll' = FALSE
  /\ UNCHANGED <<op, resultVars, expected, callbackError, transfer, buffer, chipVars, early>>

\* PollStatus: 100 ms without an answer, or refused because of an old error.
PollFailed ==
  /\ pc = "poll" /\ expected = Quiet
  /\ Return(FALSE)
  /\ UNCHANGED <<found, busVars, chipVars, early>>

\* ReadMem, WriteMem: the HAL takes the transfer.
Start ==
  /\ pc = "start" /\ expected = Quiet
  /\ ~callbackError
  /\ pc' = "arm"
  /\ transfer' = op
  /\ UNCHANGED <<op, resultVars, expected, callbackError, needPoll, buffer, chipVars, early>>

\* Refused because of an old error, or by the HAL.
StartFailed ==
  /\ pc = "start" /\ expected = Quiet
  /\ Return(FALSE)
  /\ UNCHANGED <<found, busVars, chipVars, early>>

\* m_expectedCallback, and m_needPoll after a write; Save does not wait.
Arm ==
  /\ pc = "arm"
  /\ expected' = Kind(op)
  /\ needPoll' = (needPoll \/ Kind(op) = "tx")
  /\ IF op.part = "save" THEN Return(FALSE) ELSE pc' = "sync" /\ UNCHANGED <<op, ok>>
  /\ UNCHANGED <<found, callbackError, transfer, buffer, chipVars, early>>

\* Mutant: the result of Sync is not looked at.
SyncedAnyhow ==
  /\ pc = "sync" /\ expected = Quiet
  /\ Return(TRUE)
  /\ found' = IF Kind(op) = "rx" /\ buffer # None THEN buffer ELSE found
  /\ buffer' = None
  /\ UNCHANGED <<expected, callbackError, needPoll, transfer, chipVars, early>>

\* Sync: the callback came.
Synced ==
  /\ pc = "sync" /\ expected = Quiet
  /\ Return(~callbackError)
  /\ found' = IF Kind(op) = "rx" /\ ~callbackError THEN buffer ELSE found
  /\ buffer' = None
  /\ UNCHANGED <<expected, callbackError, needPoll, transfer, chipVars, early>>

-----------------------------------------------------------------------------
(* The I2C interrupt and the chip.                                          *)

\* The chip programs what it took.
Latch(r) == programming' = [id |-> transfer.id, rec |-> r]

\* The data bytes have gone over the bus; I2cCallback(Mem..CpltCallback).
Complete ==
  /\ transfer # None
  /\ transfer' = None
  /\ IF transfer.part = "read"
       THEN buffer' = mem[transfer.id] /\ UNCHANGED programming
       ELSE /\ IF transfer.part = "save"
                 THEN Latch(None)
                 ELSE Latch(Written(mem[transfer.id], transfer))
            /\ UNCHANGED buffer
  /\ IF expected = Kind(transfer)
       THEN expected' = Quiet /\ callbackError' = FALSE /\ UNCHANGED early
       ELSE early' = TRUE /\ UNCHANGED <<expected, callbackError>>
  /\ UNCHANGED <<callVars, resultVars, needPoll, mem>>

\* Mutant: an error is no callback that WaitCallback waits for.
ErrorIgnored ==
  /\ transfer # None
  /\ transfer' = None
  /\ callbackError' = TRUE
  /\ UNCHANGED <<callVars, resultVars, expected, needPoll, buffer, chipVars, early>>

\* I2cCallback(ErrorCallback): a write may have reached the chip in part.
Error ==
  /\ transfer # None
  /\ transfer' = None
  /\ expected' = Quiet
  /\ callbackError' = TRUE
  /\ early' = (early \/ pc = "arm")
  /\ \/ UNCHANGED programming
     \/ transfer.part = "save" /\ Latch(None)
     \/ /\ transfer \in Writes
        /\ \E r \in Between(mem[transfer.id], Written(mem[transfer.id], transfer)) : Latch(r)
  /\ UNCHANGED <<callVars, resultVars, needPoll, buffer, mem>>

\* The chip's own write cycle, about 5 ms.
Programmed ==
  /\ programming # None
  /\ mem' = IF programming.id = Config
              THEN mem ELSE [mem EXCEPT ![programming.id] = programming.rec]
  /\ programming' = None
  /\ UNCHANGED <<callVars, resultVars, busVars, early>>

\* The firmware starts anew; a cell under programming keeps old or new bytes.
PowerCut ==
  /\ pc' = "idle" /\ ok' = FALSE
  /\ expected' = Quiet /\ callbackError' = FALSE /\ needPoll' = FALSE
  /\ transfer' = None /\ programming' = None
  /\ early' = FALSE
  /\ IF programming = None \/ programming.id = Config
       THEN UNCHANGED mem
       ELSE \E r \in Between(mem[programming.id], programming.rec) :
               mem' = [mem EXCEPT ![programming.id] = r]
  /\ buffer' = None
  /\ op' = None /\ found' = None

-----------------------------------------------------------------------------

Init ==
  /\ pc = "idle"
  /\ op = None
  /\ ok = FALSE /\ found = None /\ buffer = None
  /\ expected = Quiet /\ callbackError = FALSE /\ needPoll = FALSE
  /\ transfer = None /\ programming = None
  /\ mem \in [Ids -> Records]
  /\ early = FALSE

CallStep == PollAcked \/ PollFailed \/ Start \/ StartFailed \/ Arm \/ Synced
Interrupt == Complete \/ Error

Environment == Interrupt \/ Programmed \/ PowerCut

Next ==
  \/ \E o \in Calls : Call(o)
  \/ CallStep
  \/ Environment

Spec == Init /\ [][Next]_vars

-----------------------------------------------------------------------------
(* Properties.                                                              *)

StorageTypeOK ==
  /\ pc \in {"idle", "poll", "start", "arm", "sync"}
  /\ op \in Calls \cup {None}
  /\ ok \in BOOLEAN
  /\ found \in Records \cup {None} /\ buffer \in Records \cup {None}
  /\ expected \in {Quiet, "rx", "tx"}
  /\ callbackError \in BOOLEAN /\ needPoll \in BOOLEAN
  /\ transfer \in Calls \cup {None}
  /\ mem \in [Ids -> Records]
  /\ programming \in [id : Ids, rec : Records] \cup [id : {Config}, rec : {None}] \cup {None}
  /\ early \in BOOLEAN

\* The driver never addresses the chip during its write cycle, whatever is left
\* running behind a saved configuration: an address that is not taken is an
\* error, and an error is for ever.
NeverAddressesBusyChip == transfer # None => programming = None

\* The records as a read finds them.
Stored == IF programming = None \/ programming.id = Config
            THEN mem ELSE [mem EXCEPT ![programming.id] = programming.rec]

\* The drivers and the chip together keep the promise of RecordStore.
Store == INSTANCE RecordStore
  WITH db <- Stored, safe <- mem,
       request <- IF op \in Saves THEN None ELSE op
ImplementsRecordStore == Store!Spec

=============================================================================
