--------------------------- MODULE RecordsProofs ---------------------------
(***************************************************************************)
(* Proofs about Storage and Records, for any number of records, any chip      *)
(* contents and any file, and bus errors and power cuts at any time.  Of the  *)
(* drivers alone: their types, that the chip is never addressed during its    *)
(* write cycle, and that they implement RecordStore.  Of the commands: that   *)
(* the drivers keep all that under them, and that the answer and the count    *)
(* of an import or a clearing are true.                                       *)
(***************************************************************************)
EXTENDS Records, FiniteSetTheorems, TLAPS

USE DEF Torn, Quiet

-----------------------------------------------------------------------------
(* Records and what a write makes of them.                                  *)

\* Calls are told apart by their part.
LEMMA CallKinds ==
  /\ \A o \in Reads : o.part = "read" /\ o.id \in Ids /\ o \notin Writes /\ o \notin Saves
  /\ \A o \in Saves : o.part = "save" /\ o \notin Writes /\ o \notin Reads
  /\ \A o \in Writes : /\ o.part \in {"whole", "pos"} /\ o.id \in Ids /\ o.rec \in Records
                       /\ o \notin Saves /\ o \notin Reads
  /\ \A o \in Calls : Kind(o) \in {"rx", "tx"} /\ (Kind(o) = "tx" <=> o \notin Reads)
  /\ None \notin Calls
BY StorageAssumption DEF Reads, Writes, Saves, Calls, Kind, Records

\* A write makes a record of a record, and writing twice is writing once.
LEMMA WrittenRecord ==
  ASSUME NEW old \in Records, NEW w \in Writes
  PROVE  /\ Written(old, w) \in Records
         /\ Written(Written(old, w), w) = Written(old, w)
BY DEF Written, Records, Writes

\* Whatever is left of a write cut short is a record, and may be all of it.
LEMMA BetweenRecords ==
  ASSUME NEW old \in Records, NEW new \in Records
  PROVE  /\ Between(old, new) \subseteq Records
         /\ old \in Between(old, new) /\ new \in Between(old, new)
BY DEF Between, Records

-----------------------------------------------------------------------------
(* Types.                                                                   *)

\* What Latch(r) makes of programming is a record or a page under programming.
LEMMA LatchType ==
  ASSUME StorageTypeOK, transfer # None, NEW r,
         (transfer \in Saves /\ r = None) \/ (transfer \in Writes /\ r \in Records),
         Latch(r)
  PROVE  programming' \in [id : Ids, rec : Records] \cup [id : {Config}, rec : {None}] \cup {None}
BY CallKinds DEF Latch, Saves, StorageTypeOK

\* The interrupt's steps keep the types.
LEMMA InterruptType == StorageTypeOK /\ Interrupt => StorageTypeOK'
<1> SUFFICES ASSUME StorageTypeOK, Interrupt PROVE StorageTypeOK'
  OBVIOUS
<1> USE DEF StorageTypeOK, vars, callVars, resultVars, busVars, chipVars
<1>1. transfer \in Calls
  BY DEF Interrupt, Complete, Error
<1>2. CASE Complete
  <2>1. CASE transfer.part = "read"
    <3>1. transfer \in Reads
      BY <1>1, <2>1, CallKinds DEF Calls
    <3>2. mem[transfer.id] \in Records
      BY <3>1, CallKinds
    <3> QED BY <1>2, <2>1, <3>2 DEF Complete
  <2>2. CASE transfer.part = "save"
    <3>1. transfer \in Saves
      BY <1>1, <2>2, CallKinds DEF Calls
    <3>2. Latch(None)
      BY <1>2, <2>2 DEF Complete
    <3>3. programming' \in [id : Ids, rec : Records] \cup [id : {Config}, rec : {None}] \cup {None}
      BY <1>1, <3>1, <3>2, CallKinds, LatchType
    <3> QED BY <1>2, <2>2, <3>3 DEF Complete
  <2>3. CASE transfer.part \notin {"read", "save"}
    <3>1. transfer \in Writes
      BY <1>1, <2>3, CallKinds DEF Calls
    <3>2. Latch(Written(mem[transfer.id], transfer))
      BY <1>2, <2>3 DEF Complete
    <3>3. Written(mem[transfer.id], transfer) \in Records
      BY <3>1, CallKinds, WrittenRecord
    <3>4. programming' \in [id : Ids, rec : Records] \cup [id : {Config}, rec : {None}] \cup {None}
      BY <1>1, <3>1, <3>2, <3>3, CallKinds, LatchType
    <3> QED BY <1>2, <2>3, <3>4 DEF Complete
  <2> QED BY <2>1, <2>2, <2>3
<1>3. CASE Error
  <2>1. programming' \in [id : Ids, rec : Records] \cup [id : {Config}, rec : {None}] \cup {None}
    <3>1. CASE UNCHANGED programming
      BY <3>1
    <3>2. CASE transfer.part = "save" /\ Latch(None)
      <4>1. transfer \in Saves
        BY <1>1, <3>2, CallKinds DEF Calls
      <4> QED BY <1>1, <3>2, <4>1, CallKinds, LatchType
    <3>3. ASSUME transfer \in Writes,
                 NEW r \in Between(mem[transfer.id], Written(mem[transfer.id], transfer)),
                 Latch(r)
          PROVE  programming' \in [id : Ids, rec : Records]
                                    \cup [id : {Config}, rec : {None}] \cup {None}
      <4>1. mem[transfer.id] \in Records /\ Written(mem[transfer.id], transfer) \in Records
        BY <3>3, CallKinds, WrittenRecord
      <4>2. r \in Records
        BY <3>3, <4>1, BetweenRecords
      <4> QED BY <1>1, <3>3, <4>2, CallKinds, LatchType
    <3> QED BY <1>3, <3>1, <3>2, <3>3 DEF Error
  <2> QED BY <1>3, <2>1 DEF Error
<1> QED BY <1>2, <1>3 DEF Interrupt

\* Every step keeps the types.
LEMMA StorageTypeStep == StorageTypeOK /\ [Next]_vars => StorageTypeOK'
<1> SUFFICES ASSUME StorageTypeOK, [Next]_vars PROVE StorageTypeOK'
  OBVIOUS
<1> USE DEF StorageTypeOK, callVars, resultVars, busVars, chipVars
<1>1. ASSUME NEW o \in Calls, Call(o) PROVE StorageTypeOK'
  BY <1>1 DEF Call
<1>2. CASE PollAcked
  BY <1>2 DEF PollAcked
<1>3. CASE PollFailed
  BY <1>3 DEF PollFailed, Return
<1>4. CASE Start
  BY <1>4 DEF Start
<1>5. CASE StartFailed
  BY <1>5 DEF StartFailed, Return
<1>6. CASE Arm
  BY <1>6 DEF Arm, Return, Kind
<1>7. CASE Synced
  BY <1>7 DEF Synced, Return
<1>8. CASE Interrupt
  BY <1>8, InterruptType
<1>9. CASE Programmed
  <2>1. mem' \in [Ids -> Records]
    <3>1. programming.id = Config \/ (programming.id \in Ids /\ programming.rec \in Records)
      BY <1>9 DEF Programmed
    <3> QED BY <1>9, <3>1 DEF Programmed
  <2> QED BY <1>9, <2>1 DEF Programmed
<1>10. CASE PowerCut
  <2>1. mem' \in [Ids -> Records]
    <3>1. CASE programming = None \/ programming.id = Config
      BY <1>10, <3>1 DEF PowerCut
    <3>2. CASE ~(programming = None \/ programming.id = Config)
      <4>1. programming.id \in Ids /\ programming.rec \in Records
        BY <3>2
      <4>2. Between(mem[programming.id], programming.rec) \subseteq Records
        BY <4>1, BetweenRecords
      <4> QED BY <1>10, <3>2, <4>1, <4>2 DEF PowerCut
    <3> QED BY <3>1, <3>2
  <2> QED BY <1>10, <2>1 DEF PowerCut
<1>11. CASE UNCHANGED vars
  BY <1>11 DEF vars
<1> QED
  BY <1>1, <1>2, <1>3, <1>4, <1>5, <1>6, <1>7, <1>8, <1>9, <1>10, <1>11
  DEF Next, CallStep, Environment

\* Every variable of the drivers and of the chip keeps its type.
THEOREM StorageTypes == Spec => []StorageTypeOK
<1>1. Init => StorageTypeOK
  BY DEF Init, StorageTypeOK
<1> QED BY <1>1, StorageTypeStep, PTL DEF Spec

-----------------------------------------------------------------------------
(* The inductive invariant.                                                 *)

\* A transfer in flight is expected, but between its start and Arm; while it is
\* waited for it is the call's, and a call that has armed waits until it is over.
Expected ==
  /\ transfer # None /\ pc # "arm" => expected = Kind(transfer)
  /\ pc = "arm" => expected = Quiet
  /\ transfer # None /\ (pc \in {"arm", "sync"} \/ transfer \notin Saves) =>
       transfer = op /\ pc \in {"arm", "sync"}

\* The chip is known to be busy whenever it may be: needPoll is set behind a
\* write in flight, and cleared by nothing but the chip's answer.
KnownBusy ==
  /\ transfer # None /\ pc # "arm" /\ Kind(transfer) = "tx" => needPoll
  /\ programming # None => needPoll \/ (pc = "arm" /\ Kind(op) = "tx")
  /\ pc = "start" => ~needPoll

\* A call has no answer yet, and there is a call unless the drivers are idle.
Unanswered ==
  /\ pc = "idle" <=> op = None
  /\ pc # "idle" => ok = FALSE /\ found = None
  /\ pc = "sync" => op \notin Saves

\* Once the callback that is waited for came without an error, a read has the
\* stored record in its buffer, and a write has reached the chip.
Done ==
  pc = "sync" /\ expected = Quiet /\ ~callbackError =>
    /\ op \in Reads => buffer = Stored[op.id]
    /\ op \in Writes => Stored[op.id] = Written(Stored[op.id], op)

IInv ==
  /\ StorageTypeOK
  /\ Expected
  /\ KnownBusy
  /\ NeverAddressesBusyChip
  /\ Unanswered
  /\ Done

-----------------------------------------------------------------------------
(* Every step keeps it.                                                     *)

LEMMA ExpectedStep == StorageTypeOK /\ Expected /\ [Next]_vars => Expected'
<1> SUFFICES ASSUME StorageTypeOK, Expected, [Next]_vars PROVE Expected'
  OBVIOUS
<1> USE CallKinds DEF Expected, callVars, resultVars, busVars, chipVars
<1>0. op \in Calls \cup {None} /\ transfer \in Calls \cup {None}
  BY DEF StorageTypeOK
<1>1. ASSUME NEW o \in Calls, Call(o) PROVE Expected'
  BY <1>0, <1>1 DEF Call
<1>2. CASE PollAcked
  BY <1>0, <1>2 DEF PollAcked
<1>3. CASE PollFailed
  BY <1>0, <1>3 DEF PollFailed, Return
<1>4. CASE Start
  BY <1>0, <1>4 DEF Start
<1>5. CASE StartFailed
  BY <1>0, <1>5 DEF StartFailed, Return
<1>6. CASE Arm
  <2>1. transfer # None => transfer = op
    BY <1>0, <1>6 DEF Arm
  <2> QED BY <1>0, <1>6, <2>1 DEF Arm, Return, Calls
<1>7. CASE Synced
  BY <1>0, <1>7 DEF Synced, Return
<1>8. CASE Complete
  BY <1>0, <1>8 DEF Complete
<1>9. CASE Error
  BY <1>0, <1>9 DEF Error
<1>10. CASE Programmed
  BY <1>0, <1>10 DEF Programmed
<1>11. CASE PowerCut
  BY <1>11 DEF PowerCut
<1>12. CASE UNCHANGED vars
  BY <1>12 DEF vars
<1> QED
  BY <1>1, <1>2, <1>3, <1>4, <1>5, <1>6, <1>7, <1>8, <1>9, <1>10, <1>11, <1>12
  DEF Next, CallStep, Environment, Interrupt

\* Two facts about the chip that need each other.
LEMMA ChipStep ==
  StorageTypeOK /\ Expected /\ KnownBusy /\ NeverAddressesBusyChip /\ [Next]_vars
    => KnownBusy' /\ NeverAddressesBusyChip'
<1> SUFFICES ASSUME StorageTypeOK, Expected, KnownBusy, NeverAddressesBusyChip, [Next]_vars
             PROVE  KnownBusy' /\ NeverAddressesBusyChip'
  OBVIOUS
<1> USE CallKinds DEF KnownBusy, NeverAddressesBusyChip, callVars, resultVars, busVars, chipVars
<1>0. /\ op \in Calls \cup {None} /\ transfer \in Calls \cup {None}
      /\ needPoll \in BOOLEAN
  BY DEF StorageTypeOK
<1>i. /\ transfer # None /\ pc # "arm" => expected # Quiet
      /\ transfer # None /\ pc = "arm" => transfer = op
  BY <1>0 DEF Expected
<1>1. ASSUME NEW o \in Calls, Call(o) PROVE KnownBusy' /\ NeverAddressesBusyChip'
  BY <1>0, <1>i, <1>1 DEF Call
<1>2. CASE PollAcked
  BY <1>0, <1>i, <1>2 DEF PollAcked
<1>3. CASE PollFailed
  BY <1>0, <1>i, <1>3 DEF PollFailed, Return
<1>4. CASE Start
  BY <1>0, <1>i, <1>4 DEF Start
<1>5. CASE StartFailed
  BY <1>0, <1>i, <1>5 DEF StartFailed, Return
<1>6. CASE Arm
  BY <1>0, <1>i, <1>6 DEF Arm, Return
<1>7. CASE Synced
  BY <1>0, <1>i, <1>7 DEF Synced, Return
<1>8. CASE Complete
  <2>1. transfer.part = "read" => transfer \in Reads
    BY <1>0, <1>8 DEF Complete, Calls
  <2>2. programming' # None => Kind(transfer) = "tx"
    BY <1>0, <1>8, <2>1 DEF Complete, Kind
  <2> QED BY <1>0, <1>i, <1>8, <2>2 DEF Complete
<1>9. CASE Error
  <2>1. programming' # None => Kind(transfer) = "tx"
    BY <1>0, <1>9 DEF Error, Kind
  <2> QED BY <1>0, <1>i, <1>9, <2>1 DEF Error
<1>10. CASE Programmed
  BY <1>0, <1>i, <1>10 DEF Programmed
<1>11. CASE PowerCut
  BY <1>11 DEF PowerCut
<1>12. CASE UNCHANGED vars
  BY <1>12 DEF vars
<1> QED
  BY <1>1, <1>2, <1>3, <1>4, <1>5, <1>6, <1>7, <1>8, <1>9, <1>10, <1>11, <1>12
  DEF Next, CallStep, Environment, Interrupt

\* The part of the invariant that the address of the chip rests on.
LEMMA BusInvariant == Spec => [](StorageTypeOK /\ Expected /\ KnownBusy /\ NeverAddressesBusyChip)
<1>1. Init => StorageTypeOK /\ Expected /\ KnownBusy /\ NeverAddressesBusyChip
  BY DEF Init, StorageTypeOK, Expected, KnownBusy, NeverAddressesBusyChip
<1> QED BY <1>1, StorageTypeStep, ExpectedStep, ChipStep, PTL DEF Spec

\* No transfer is on the bus while the chip programs its cells, also when the
\* configuration was saved and nobody waited for it.
THEOREM NeverBusy == Spec => []NeverAddressesBusyChip
BY BusInvariant, PTL

LEMMA UnansweredStep == StorageTypeOK /\ Unanswered /\ [Next]_vars => Unanswered'
<1> SUFFICES ASSUME StorageTypeOK, Unanswered, [Next]_vars PROVE Unanswered'
  OBVIOUS
<1> USE CallKinds DEF Unanswered, callVars, resultVars, busVars, chipVars
<1>0. op \in Calls \cup {None}
  BY DEF StorageTypeOK
<1>1. ASSUME NEW o \in Calls, Call(o) PROVE Unanswered'
  BY <1>0, <1>1 DEF Call
<1>2. CASE PollAcked
  BY <1>0, <1>2 DEF PollAcked
<1>3. CASE PollFailed
  BY <1>0, <1>3 DEF PollFailed, Return
<1>4. CASE Start
  BY <1>0, <1>4 DEF Start
<1>5. CASE StartFailed
  BY <1>0, <1>5 DEF StartFailed, Return
<1>6. CASE Arm
  BY <1>0, <1>6 DEF Arm, Return
<1>7. CASE Synced
  BY <1>0, <1>7 DEF Synced, Return
<1>8. CASE Complete
  BY <1>0, <1>8 DEF Complete
<1>9. CASE Error
  BY <1>0, <1>9 DEF Error
<1>10. CASE Programmed
  BY <1>0, <1>10 DEF Programmed
<1>11. CASE PowerCut
  BY <1>11 DEF PowerCut
<1>12. CASE UNCHANGED vars
  BY <1>12 DEF vars
<1> QED
  BY <1>1, <1>2, <1>3, <1>4, <1>5, <1>6, <1>7, <1>8, <1>9, <1>10, <1>11, <1>12
  DEF Next, CallStep, Environment, Interrupt

-----------------------------------------------------------------------------
(* What a read finds, step by step.                                         *)

LEMMA StoredType == StorageTypeOK => Stored \in [Ids -> Records]
BY DEF StorageTypeOK, Stored

\* Completing a transfer stores what was written, all of it.
LEMMA CompleteStores ==
  ASSUME StorageTypeOK, NeverAddressesBusyChip, Complete
  PROVE  /\ transfer \in Calls
         /\ transfer \in Writes =>
              Stored' = [Stored EXCEPT ![transfer.id] = Written(@, transfer)]
         /\ transfer \notin Writes => Stored' = Stored
<1> USE CallKinds DEF vars, callVars, resultVars, busVars, chipVars
<1>1. transfer \in Calls /\ programming = None
  BY DEF StorageTypeOK, NeverAddressesBusyChip, Complete
<1>2. Stored = mem /\ mem' = mem
  BY <1>1 DEF Stored, Complete
<1>3. CASE transfer \in Reads
  BY <1>1, <1>2, <1>3 DEF Complete, Stored
<1>4. CASE transfer \in Saves
  BY <1>1, <1>2, <1>4 DEF Complete, Stored, Latch, Saves
<1>5. CASE transfer \in Writes
  <2>1. programming' = [id |-> transfer.id, rec |-> Written(mem[transfer.id], transfer)]
    BY <1>5 DEF Complete, Latch
  <2>2. programming' # None
    <3>1. Written(mem[transfer.id], transfer) \in Records /\ transfer.id \in Ids
      BY <1>5, WrittenRecord DEF StorageTypeOK
    <3> QED BY <2>1, <3>1, StorageAssumption
  <2>3. programming'.id # Config
    BY <1>5, <2>1, StorageAssumption
  <2> QED BY <1>1, <1>2, <1>5, <2>1, <2>2, <2>3 DEF Stored
<1> QED BY <1>1, <1>3, <1>4, <1>5 DEF Calls

\* An error leaves what was stored, or a write cut short.
LEMMA ErrorStores ==
  ASSUME StorageTypeOK, NeverAddressesBusyChip, Error
  PROVE  \/ Stored' = Stored
         \/ /\ transfer \in Writes
            /\ \E r \in Between(Stored[transfer.id], Written(Stored[transfer.id], transfer)) :
                 Stored' = [Stored EXCEPT ![transfer.id] = r]
<1> USE CallKinds DEF vars, callVars, resultVars, busVars, chipVars
<1>1. transfer \in Calls /\ programming = None
  BY DEF StorageTypeOK, NeverAddressesBusyChip, Error
<1>2. Stored = mem /\ mem' = mem
  BY <1>1 DEF Stored, Error
<1>3. CASE UNCHANGED programming
  BY <1>1, <1>2, <1>3 DEF Stored
<1>4. CASE transfer.part = "save" /\ Latch(None)
  <2>1. transfer.id = Config
    BY <1>1, <1>4 DEF Calls, Saves
  <2> QED BY <1>2, <1>4, <2>1 DEF Stored, Latch
<1>5. ASSUME transfer \in Writes,
             NEW r \in Between(mem[transfer.id], Written(mem[transfer.id], transfer)),
             Latch(r)
      PROVE  Stored' = [Stored EXCEPT ![transfer.id] = r]
  <2>1. mem[transfer.id] \in Records /\ transfer.id \in Ids
    BY <1>5 DEF StorageTypeOK
  <2>2. r \in Records
    BY <1>5, <2>1, WrittenRecord, BetweenRecords
  <2>3. programming' # None /\ programming'.id = transfer.id /\ programming'.rec = r
    BY <1>5, <2>1, <2>2, StorageAssumption DEF Latch
  <2>4. programming'.id # Config
    BY <2>1, <2>3, StorageAssumption
  <2> QED BY <1>2, <2>3, <2>4 DEF Stored
<1> QED BY <1>2, <1>3, <1>4, <1>5 DEF Error

\* The chip's write cycle changes nothing that a read could find.
LEMMA ProgrammedStores == ASSUME Programmed PROVE Stored' = Stored /\ mem' = Stored
BY DEF Programmed, Stored

LEMMA DoneStep == IInv /\ [Next]_vars => Done'
<1> SUFFICES ASSUME IInv, [Next]_vars PROVE Done'
  OBVIOUS
<1> USE CallKinds DEF callVars, resultVars, busVars, chipVars
<1>0. /\ op \in Calls \cup {None} /\ transfer \in Calls \cup {None}
      /\ Stored \in [Ids -> Records]
  BY StoredType DEF IInv, StorageTypeOK
<1>1. ASSUME NEW o \in Calls, Call(o) PROVE Done'
  BY <1>1 DEF Call, Done
<1>2. CASE PollAcked
  BY <1>2 DEF PollAcked, Done
<1>3. CASE PollFailed
  BY <1>3 DEF PollFailed, Return, Done
<1>4. CASE Start
  BY <1>4 DEF Start, Done
<1>5. CASE StartFailed
  BY <1>5 DEF StartFailed, Return, Done
<1>6. CASE Arm
  BY <1>6 DEF Arm, Kind, Done
<1>7. CASE Synced
  BY <1>7 DEF Synced, Return, Done
<1>8. CASE Complete
  <2> SUFFICES ASSUME pc = "sync" PROVE Done'
    BY <1>8 DEF Complete, Done
  <2>1. transfer = op /\ op' = op
    BY <1>8 DEF IInv, Expected, Complete
  <2>2. CASE op \in Reads
    <3>1. buffer' = mem[op.id] /\ Stored' = Stored
      BY <1>8, <2>1, <2>2, CompleteStores DEF Complete, IInv
    <3>2. Stored = mem
      BY <1>8, <2>1 DEF Stored, IInv, NeverAddressesBusyChip, Complete
    <3> QED BY <2>1, <2>2, <3>1, <3>2 DEF Done
  <2>3. CASE op \in Writes
    <3>1. Stored' = [Stored EXCEPT ![op.id] = Written(Stored[op.id], op)]
      BY <1>8, <2>1, <2>3, CompleteStores DEF IInv
    <3>2. Stored'[op.id] = Written(Stored[op.id], op)
      BY <1>0, <2>3, <3>1
    <3>3. Written(Stored'[op.id], op) = Stored'[op.id]
      BY <1>0, <2>3, <3>2, WrittenRecord
    <3> QED BY <2>1, <2>3, <3>3 DEF Done
  <2>4. CASE op \notin Reads \cup Writes
    BY <2>1, <2>4 DEF Done
  <2> QED BY <2>2, <2>3, <2>4
<1>9. CASE Error
  BY <1>9 DEF Error, Done
<1>10. CASE Programmed
  <2>1. Stored' = Stored
    BY <1>10, ProgrammedStores
  <2> QED BY <1>10, <2>1 DEF Programmed, Done, IInv
<1>11. CASE PowerCut
  BY <1>11 DEF PowerCut, Done
<1>12. CASE UNCHANGED vars
  BY <1>12 DEF vars, Done, IInv, Stored
<1> QED
  BY <1>1, <1>2, <1>3, <1>4, <1>5, <1>6, <1>7, <1>8, <1>9, <1>10, <1>11, <1>12
  DEF Next, CallStep, Environment, Interrupt

\* The whole of it holds in every reachable state.
THEOREM Inductive == Spec => []IInv
<1>1. Init => IInv
  BY CallKinds DEF Init, IInv, StorageTypeOK, Expected, KnownBusy, NeverAddressesBusyChip,
                   Unanswered, Done
<1>2. IInv /\ [Next]_vars => IInv'
  BY StorageTypeStep, ExpectedStep, ChipStep, UnansweredStep, DoneStep DEF IInv
<1> QED BY <1>1, <1>2, PTL DEF Spec

-----------------------------------------------------------------------------
(* The drivers and the chip implement RecordStore.                          *)

\* The two modules speak of the same records.
LEMMA SameRecords ==
  /\ Store!Reads = Reads /\ Store!Writes = Writes
  /\ \A old, w : Store!Written(old, w) = Written(old, w)
  /\ \A old, new : Store!Between(old, new) = Between(old, new)
BY DEF Store!Reads, Reads, Store!Writes, Writes, Store!Written, Written,
       Store!Between, Between, Store!Torn

\* What the caller waits for.
Request == IF op \in Saves THEN None ELSE op

\* A call is refused: a request fails, a saved configuration is nobody's request.
LEMMA RefusedMaps ==
  ASSUME IInv, pc # "idle", Return(FALSE), UNCHANGED <<found, mem, programming>>
  PROVE  Store!AnswerFailed \/ UNCHANGED <<Stored, mem, Request, ok, found>>
<1>1. ok = FALSE /\ op # None /\ Stored' = Stored
  BY DEF IInv, Unanswered, Stored
<1>2. op' = None /\ ok' = FALSE
  BY DEF Return
<1>3. None \notin Saves
  BY CallKinds DEF Calls
<1>4. CASE op \in Saves
  BY <1>1, <1>2, <1>3, <1>4 DEF Request
<1>5. CASE op \notin Saves
  BY <1>1, <1>2, <1>3, <1>5 DEF Store!AnswerFailed
<1> QED BY <1>4, <1>5

\* Sync returns: the answer is true, or none is given.
LEMMA SyncedMaps ==
  ASSUME IInv, Synced
  PROVE  Store!AnswerOk \/ Store!AnswerFailed
<1> USE CallKinds DEF resultVars, chipVars
<1>1. /\ op \in Reads \cup Writes /\ op # None /\ op \notin Saves
      /\ pc = "sync" /\ expected = Quiet
      /\ ok = FALSE
  BY DEF IInv, Unanswered, StorageTypeOK, Synced, Calls
<1>2. op' = None /\ ok' = ~callbackError /\ Stored' = Stored /\ mem' = mem /\ None \notin Saves
  BY DEF Synced, Return, Stored, Calls
<1>3. CASE callbackError
  BY <1>1, <1>2, <1>3 DEF Store!AnswerFailed, Synced
<1>4. CASE ~callbackError /\ op \in Reads
  <2>1. buffer = Stored[op.id]
    BY <1>1, <1>4 DEF IInv, Done
  <2>2. found' = Stored[op.id]
    BY <1>4, <2>1 DEF Synced, Kind, Reads
  <2>3. op \in Store!Reads
    BY <1>4, SameRecords
  <2> QED BY <1>1, <1>2, <1>4, <2>2, <2>3 DEF Store!AnswerOk
<1>5. CASE ~callbackError /\ op \in Writes
  <2>1. Stored[op.id] = Store!Written(Stored[op.id], op)
    BY <1>1, <1>5, SameRecords DEF IInv, Done
  <2>2. op \notin Store!Reads
    BY <1>5, SameRecords
  <2>3. Kind(op) # "rx"
    BY <1>5 DEF Kind
  <2>4. found' = found
    BY <2>3 DEF Synced
  <2> QED BY <1>1, <1>2, <1>5, <2>1, <2>2, <2>4 DEF Store!AnswerOk
<1>6. callbackError \in BOOLEAN
  BY DEF IInv, StorageTypeOK
<1> QED BY <1>1, <1>3, <1>4, <1>5, <1>6

\* A write reaches the chip, all of it or not.
LEMMA PutMaps ==
  ASSUME IInv, transfer \in Writes,
         NEW r \in Between(Stored[transfer.id], Written(Stored[transfer.id], transfer)),
         Stored' = [Stored EXCEPT ![transfer.id] = r],
         UNCHANGED <<op, ok, found, mem>>
  PROVE  Store!Put
<1>1. transfer # None /\ transfer \notin Saves
  BY CallKinds DEF Calls
<1>2. op = transfer /\ programming = None
  BY <1>1 DEF IInv, Expected, NeverAddressesBusyChip
<1>3. Stored = mem
  BY <1>2 DEF Stored
<1>4. op \in Store!Writes /\ op \notin Saves
  BY <1>1, <1>2, SameRecords
<1>5. r \in Store!Between(Stored[op.id], Store!Written(Stored[op.id], op))
  BY <1>2, SameRecords
<1> QED BY <1>2, <1>3, <1>4, <1>5 DEF Store!Put

\* The power is cut: only the record that was being programmed may suffer.
LEMMA PowerCutMaps ==
  ASSUME IInv, PowerCut
  PROVE  Store!PowerCut
<1> USE CallKinds DEF StorageTypeOK
<1>1. mem \in [Ids -> Records] /\ Stored \in [Ids -> Records]
  BY StoredType DEF IInv
<1>2. Stored' = mem'
  BY DEF Stored, PowerCut
<1>3. /\ op' = None /\ ok' = FALSE /\ found' = None
      /\ None \notin Saves
  BY DEF PowerCut, Calls
<1>4. \E i \in Ids : \E r \in Store!Between(mem[i], Stored[i]) : mem' = [mem EXCEPT ![i] = r]
  <2>1. CASE programming = None \/ programming.id = Config
    <3>1. PICK i \in Ids : TRUE
      BY StorageAssumption
    <3>2. Stored = mem /\ mem' = mem
      BY <2>1 DEF Stored, PowerCut
    <3>3. mem[i] \in Store!Between(mem[i], Stored[i])
      BY <1>1, <3>1, <3>2, BetweenRecords, SameRecords
    <3>4. mem' = [mem EXCEPT ![i] = mem[i]]
      BY <1>1, <3>1, <3>2
    <3> QED BY <3>1, <3>3, <3>4
  <2>2. CASE ~(programming = None \/ programming.id = Config)
    <3>1. programming.id \in Ids
      BY <2>2 DEF IInv
    <3>2. PICK r \in Between(mem[programming.id], programming.rec) :
            mem' = [mem EXCEPT ![programming.id] = r]
      BY <2>2 DEF PowerCut
    <3>3. Stored[programming.id] = programming.rec
      BY <1>1, <2>2, <3>1 DEF Stored, IInv
    <3>4. r \in Store!Between(mem[programming.id], Stored[programming.id])
      BY <3>2, <3>3, SameRecords
    <3> QED BY <3>1, <3>2, <3>4
  <2> QED BY <2>1, <2>2
<1> QED BY <1>2, <1>3, <1>4 DEF Store!PowerCut

\* Every step is a step of RecordStore or none.
LEMMA StepMaps == IInv /\ [Next]_vars => [Store!Next]_(Store!vars)
<1> SUFFICES ASSUME IInv, [Next]_vars
             PROVE  Store!Next \/ UNCHANGED <<Stored, mem, Request, ok, found>>
  BY DEF Store!vars, Request
<1> USE CallKinds DEF callVars, resultVars, busVars, chipVars
<1>0. StorageTypeOK /\ NeverAddressesBusyChip
  BY DEF IInv
<1>1. ASSUME NEW o \in Calls, Call(o)
      PROVE  Store!Next \/ UNCHANGED <<Stored, mem, Request, ok, found>>
  <2>1. op = None /\ op' = o /\ ok' = FALSE /\ found' = None /\ UNCHANGED <<Stored, mem>>
    BY <1>1 DEF Call, IInv, Unanswered, Stored
  <2>2. None \notin Saves
    BY DEF Calls
  <2>3. CASE o \in Saves
    BY <2>1, <2>2, <2>3 DEF Store!Next, Store!Forget
  <2>4. CASE o \notin Saves
    <3>1. o \in Store!Reads \cup Store!Writes
      BY <2>4, SameRecords DEF Calls
    <3> QED BY <2>1, <2>2, <2>4, <3>1 DEF Store!Next, Store!Ask
  <2> QED BY <2>3, <2>4
<1>2. CASE PollAcked
  BY <1>2 DEF PollAcked, Stored, Request
<1>3. CASE PollFailed
  BY <1>3, RefusedMaps DEF PollFailed, Store!Next
<1>4. CASE Start
  BY <1>4 DEF Start, Stored, Request
<1>5. CASE StartFailed
  BY <1>5, RefusedMaps DEF StartFailed, Store!Next
<1>6. CASE Arm
  <2>1. CASE op.part = "save"
    BY <1>6, <2>1, RefusedMaps DEF Arm, Store!Next
  <2>2. CASE op.part # "save"
    BY <1>6, <2>2 DEF Arm, Stored, Request
  <2> QED BY <2>1, <2>2
<1>7. CASE Synced
  BY <1>7, SyncedMaps DEF Store!Next
<1>8. CASE Complete
  <2>1. CASE transfer \in Writes
    <3>1. Stored[transfer.id] \in Records
      BY <1>0, <2>1, StoredType
    <3>2. Written(Stored[transfer.id], transfer)
            \in Between(Stored[transfer.id], Written(Stored[transfer.id], transfer))
      BY <2>1, <3>1, WrittenRecord, BetweenRecords
    <3>3. Stored' = [Stored EXCEPT ![transfer.id] = Written(Stored[transfer.id], transfer)]
      BY <1>0, <1>8, <2>1, CompleteStores
    <3>4. UNCHANGED <<op, ok, found, mem>>
      BY <1>8 DEF Complete
    <3>5. Store!Put
      BY <2>1, <3>2, <3>3, <3>4, PutMaps
    <3> QED BY <3>5 DEF Store!Next
  <2>2. CASE transfer \notin Writes
    <3>1. Stored' = Stored
      BY <1>0, <1>8, <2>2, CompleteStores
    <3> QED BY <1>8, <3>1 DEF Complete, Request
  <2> QED BY <2>1, <2>2
<1>9. CASE Error
  <2>1. UNCHANGED <<op, ok, found, mem>>
    BY <1>9 DEF Error
  <2>2. CASE Stored' = Stored
    BY <2>1, <2>2 DEF Request
  <2>3. CASE Stored' # Stored
    <3>1. /\ transfer \in Writes
          /\ \E r \in Between(Stored[transfer.id], Written(Stored[transfer.id], transfer)) :
               Stored' = [Stored EXCEPT ![transfer.id] = r]
      BY <1>0, <1>9, <2>3, ErrorStores
    <3>2. Store!Put
      BY <2>1, <3>1, PutMaps
    <3> QED BY <3>2 DEF Store!Next
  <2> QED BY <2>2, <2>3
<1>10. CASE Programmed
  <2>1. Stored' = Stored /\ mem' = Stored /\ UNCHANGED <<op, ok, found>>
    BY <1>10, ProgrammedStores DEF Programmed
  <2> QED BY <2>1 DEF Store!Next, Store!Settle
<1>11. CASE PowerCut
  BY <1>11, PowerCutMaps DEF Store!Next
<1>12. CASE UNCHANGED vars
  BY <1>12 DEF vars, Stored, Request
<1> QED
  BY <1>1, <1>2, <1>3, <1>4, <1>5, <1>6, <1>7, <1>8, <1>9, <1>10, <1>11, <1>12
  DEF Next, CallStep, Environment, Interrupt

\* An answer TRUE is only given when the record read is the stored one or the
\* record written is stored, and nothing else is ever changed: the drivers and
\* the chip implement RecordStore, with errors and power cuts at any step.
THEOREM Implements == Spec => ImplementsRecordStore
<1>1. Init => Store!Init
  <2> SUFFICES ASSUME Init PROVE Store!Init
    OBVIOUS
  <2>1. Stored = mem /\ op = None
    BY DEF Init, Stored
  <2>2. None \notin Saves
    BY CallKinds DEF Calls
  <2>3. mem \in [Ids -> Store!Records]
    BY DEF Init, Records, Store!Records, Store!Torn
  <2> QED BY <2>1, <2>2, <2>3 DEF Init, Store!Init
<1> QED BY <1>1, Inductive, StepMaps, PTL DEF Spec, ImplementsRecordStore, Store!Spec


-----------------------------------------------------------------------------
(* Types of the commands.                                                   *)

\* The types, with how far the loop of a command may have come.
CommandType ==
  /\ cmd \in {None, "import", "clear"} /\ step \in {"next", "compare", "wrote"}
  /\ at \in 0..(MaxCode + 1) /\ first \in Ids /\ last \in Ids /\ changed \in 0..(MaxCode + 1)
  /\ file \in Tables \cup {NoTable}
  /\ before \in [Ids -> Records] \cup {NoTable}
  /\ answer \in {None, "OK", "ERR"}
  /\ first <= at /\ at <= last + 1 /\ changed <= at
  /\ cmd # None => before \in [Ids -> Records] /\ answer = None
  /\ cmd # None /\ step # "next" => at <= last
  /\ cmd = "import" => file \in Tables
  /\ step = "compare" => cmd = "import"

\* The ranges idb and cs go over are ranges of records, whatever is entered.
LEMMA RangesInTable ==
  ASSUME NEW f \in Entered, NEW t \in Entered,
         NEW range \in {ImportRange(f, t), ClearRange(f, t)}
  PROVE  range.from \in Ids /\ range.to \in Ids /\ range.from <= range.to
<1>1. f \in Nat /\ t \in Nat /\ MaxCode \in Nat
  BY MaxCodeAssumption DEF Entered, Missing
<1>2. CASE range = ImportRange(f, t)
  BY <1>1, <1>2, MaxCodeAssumption DEF ImportRange, AtMost
<1>3. CASE range = ClearRange(f, t)
  BY <1>1, <1>3, MaxCodeAssumption DEF ClearRange, AtMost
<1> QED BY <1>2, <1>3

LEMMA FinishType ==
  ASSUME NEW a \in {None, "OK", "ERR"}, Finish(a)
  PROVE  CommandType'
BY MaxCodeAssumption DEF Finish, CommandType

LEMMA BeginType ==
  ASSUME StorageTypeOK, NEW name \in {"import", "clear"}, NEW f \in Entered, NEW t \in Entered,
         NEW range \in {ImportRange(f, t), ClearRange(f, t)},
         NEW table, Begin(name, range, table),
         name = "import" => table \in Tables, name = "clear" => table = NoTable
  PROVE  CommandType'
<1>1. range.from \in Ids /\ range.to \in Ids /\ range.from <= range.to
  BY RangesInTable
<1>2. Stored \in [Ids -> Records]
  BY StoredType
<1> QED BY <1>1, <1>2, MaxCodeAssumption DEF Begin, CommandType

LEMMA CommandTypeStep ==
  StorageTypeOK /\ CommandType /\ [RecordsNext]_allVars => CommandType'
<1> SUFFICES ASSUME StorageTypeOK, CommandType, [RecordsNext]_allVars PROVE CommandType'
  OBVIOUS
<1> USE MaxCodeAssumption
<1>1. CASE SingleCall \/ Lower \/ UNCHANGED allVars
  BY <1>1 DEF SingleCall, Lower, allVars, cmdVars, loopVars, CommandType
<1>2. CASE Commands
  <2>1. ASSUME NEW f \in Entered, NEW t \in Entered, NEW table \in Tables,
               StartImport(f, t, table)
        PROVE  CommandType'
    BY <2>1, BeginType DEF StartImport
  <2>2. ASSUME NEW f \in Entered, NEW t \in Entered, StartClear(f, t)
        PROVE  CommandType'
    BY <2>2, BeginType DEF StartClear
  <2> QED BY <1>2, <2>1, <2>2 DEF Commands
<1>3. CASE EndOfRange
  BY <1>3, FinishType DEF EndOfRange
<1>4. CASE FileFails
  BY <1>4, FinishType DEF FileFails
<1>5. CASE ImportReads
  BY <1>5 DEF ImportReads, At, Goto, CommandType
<1>6. CASE ImportCompares
  <2>1. CASE Goto("wrote")
    BY <1>6, <2>1 DEF ImportCompares, At, Goto, CommandType
  <2>2. CASE Advance(0)
    BY <1>6, <2>2 DEF ImportCompares, At, Advance, CommandType
  <2>3. CASE Finish("ERR")
    BY <2>3, FinishType
  <2> QED BY <1>6, <2>1, <2>2, <2>3 DEF ImportCompares
<1>7. CASE ClearWrites
  BY <1>7 DEF ClearWrites, At, Goto, CommandType
<1>8. CASE Wrote
  <2>1. CASE Advance(1)
    BY <1>8, <2>1 DEF Wrote, Advance, CommandType
  <2>2. CASE Finish("ERR")
    BY <2>2, FinishType
  <2> QED BY <1>8, <2>1, <2>2 DEF Wrote
<1>9. CASE Restart
  BY <1>9, FinishType DEF Restart
<1> QED
  BY <1>1, <1>2, <1>3, <1>4, <1>5, <1>6, <1>7, <1>8, <1>9 DEF RecordsNext, CommandStep

-----------------------------------------------------------------------------
(* The commands make the calls of Storage, and nothing else.                *)

\* Every step of the commands is a step of the drivers or leaves them alone.
LEMMA StorageStep == CommandType /\ [RecordsNext]_allVars => [Next]_vars
<1> SUFFICES ASSUME CommandType, [RecordsNext]_allVars PROVE [Next]_vars
  OBVIOUS
<1> USE MaxCodeAssumption
<1>1. CASE SingleCall
  BY <1>1 DEF SingleCall, Next
<1>2. CASE Commands \/ EndOfRange \/ FileFails \/ Wrote \/ UNCHANGED allVars
  BY <1>2 DEF Commands, StartImport, StartClear, Begin, EndOfRange, FileFails, Wrote, allVars
<1>3. CASE ImportReads
  <2>1. at \in Ids
    BY <1>3 DEF ImportReads, CommandType
  <2>2. ReadOf(at) \in Calls
    BY <2>1 DEF ReadOf, Reads, Calls
  <2> QED BY <1>3, <2>2 DEF ImportReads, Next
<1>4. CASE ImportCompares
  <2>1. at \in Ids /\ file \in Tables
    BY <1>4 DEF ImportCompares, At, CommandType
  <2>2. Whole(at, file[at]) \in Calls
    BY <2>1 DEF Whole, Writes, Calls, Tables
  <2> QED BY <1>4, <2>2 DEF ImportCompares, Next
<1>5. CASE ClearWrites
  <2>1. \A w \in Status(at, "UNKNOWN") : w \in Calls
    BY DEF Status, Calls
  <2> QED BY <1>5, <2>1 DEF ClearWrites, Next
<1>6. CASE Lower
  BY <1>6 DEF Lower, Next, Environment
<1>7. CASE Restart
  BY <1>7 DEF Restart, Next, Environment
<1> QED
  BY <1>1, <1>2, <1>3, <1>4, <1>5, <1>6, <1>7 DEF RecordsNext, CommandStep

\* Under the commands the drivers behave as they do alone.
LEMMA RunsOnStorage == RecordsSpec => Spec /\ []CommandType
<1>1. RecordsInit => StorageTypeOK /\ CommandType
  <2>1. RecordsInit => StorageTypeOK
    BY DEF RecordsInit, Init, StorageTypeOK
  <2>2. RecordsInit => CommandType
    BY MaxCodeAssumption DEF RecordsInit, CommandType
  <2> QED BY <2>1, <2>2
<1>2. StorageTypeOK /\ CommandType /\ [RecordsNext]_allVars => StorageTypeOK' /\ CommandType'
  BY CommandTypeStep, StorageStep, StorageTypeStep
<1>3. RecordsInit => Init
  BY DEF RecordsInit
<1> QED BY <1>1, <1>2, <1>3, StorageStep, PTL DEF RecordsSpec, Spec

\* Every variable keeps its type, whatever ranges are entered.
THEOREM RecordsTypes == RecordsSpec => []TypeOK
<1>1. StorageTypeOK /\ CommandType => TypeOK
  BY DEF TypeOK, CommandType
<1> QED BY <1>1, RunsOnStorage, StorageTypes, PTL

\* The chip is not addressed while it is busy, and the record store is
\* implemented, by everything the commands do.
THEOREM CommandsKeepStore == RecordsSpec => []NeverAddressesBusyChip /\ ImplementsRecordStore
BY RunsOnStorage, NeverBusy, Implements

-----------------------------------------------------------------------------
(* The inductive invariant of the commands.                                 *)

\* The write of the call under way has not reached the chip.
Untouched == pc \in {"poll", "start"} \/ transfer \in Writes

\* What the loop of a command asks for, and that it asks nothing in between.
Asked ==
  cmd # None =>
    /\ step = "next" => pc = "idle"
    /\ step = "compare" /\ pc # "idle" => op = ReadOf(at)
    /\ step = "wrote" /\ pc # "idle" =>
         op \in Writes /\ op.id = at /\ Written(before[at], op) = Target(at)

\* The records the loop has passed are as they should be, those ahead of it as
\* they were, and the one it is at in between: untouched until the write is
\* carried out, done when it is answered.
Progress ==
  cmd # None =>
    /\ \A i \in first..(at - 1) : Stored[i] = Target(i)
    /\ \A i \in Ids \ (first..at) : Stored[i] = before[i]
    /\ at \in Ids => Stored[at] \in Between(before[at], Target(at))
    /\ at \in Ids /\ (step # "wrote" \/ Untouched) => Stored[at] = before[at]
    /\ pc = "idle" /\ ok /\ step = "compare" => found = Stored[at]
    /\ pc = "idle" /\ ok /\ step = "wrote" => Stored[at] = Target(at)

\* A record that the command changes, or that it clears in any case.
Counts(i) == Target(i) # before[i] \/ cmd = "clear"

\* The records counted are those passed that count, and one that is written does.
Counted ==
  cmd # None =>
    /\ changed = Cardinality({i \in first..(at - 1) : Counts(i)})
    /\ step = "wrote" => Counts(at)

CommandInv == CommandType /\ Asked /\ Progress /\ Counted

-----------------------------------------------------------------------------
(* What the steps of the drivers mean to the commands.                      *)

\* A write cut short can be completed by writing again.
LEMMA WriteAgain ==
  ASSUME NEW old \in Records, NEW w \in Writes, NEW torn \in Between(old, Written(old, w))
  PROVE  Written(torn, w) = Written(old, w)
BY DEF Between, Written, Records, Writes

\* A record may always be what it was.
LEMMA OldBetween == ASSUME NEW old \in Records, NEW new PROVE old \in Between(old, new)
BY DEF Between, Records

LEMMA CallEffect ==
  ASSUME IInv, NEW o \in Calls, Call(o)
  PROVE  /\ pc = "idle" /\ pc' # "idle" /\ Untouched'
         /\ op' = o /\ Stored' = Stored
BY DEF Call, Stored, chipVars, Untouched

\* A call returns, and an answer TRUE tells what is stored.
LEMMA AnswerEffect ==
  ASSUME IInv, Lower, pc # "idle", pc' = "idle"
  PROVE  /\ Stored' = Stored /\ (Untouched' => Untouched)
         /\ ok' /\ op \in Reads => found' = Stored[op.id]
         /\ ok' /\ op \in Writes => Stored[op.id] = Written(Stored[op.id], op)
<1> USE DEF callVars, resultVars, busVars, chipVars
<1>1. PollFailed \/ StartFailed \/ Arm \/ Synced
  BY DEF Lower, CallStep, Interrupt, PollAcked, Start, Complete, Error, Programmed
<1>2. Stored' = Stored /\ transfer' = transfer
  BY <1>1 DEF PollFailed, StartFailed, Arm, Synced, Stored
<1>3. CASE ok'
  <2>1. Synced /\ ~callbackError
    BY <1>1, <1>3 DEF PollFailed, StartFailed, Arm, Synced, Return, IInv, Unanswered
  <2>2. op \in Reads => Kind(op) = "rx"
    BY DEF Reads, Kind
  <2> QED BY <1>2, <2>1, <2>2 DEF Synced, IInv, Done, Untouched
<1> QED BY <1>2, <1>3 DEF Untouched

LEMMA IdleEffect ==
  ASSUME IInv, Lower, pc = "idle"
  PROVE  /\ pc' = "idle" /\ ok' = ok /\ found' = found /\ Stored' = Stored
         /\ Untouched' => Untouched
<1> USE DEF callVars, resultVars, busVars, chipVars
<1>1. StorageTypeOK /\ NeverAddressesBusyChip /\ transfer \notin Writes /\ None \notin Writes
  BY CallKinds, StorageAssumption DEF IInv, Expected, Calls
<1>2. CASE Complete
  BY <1>1, <1>2, CompleteStores DEF Complete, Untouched
<1>3. CASE Error
  BY <1>1, <1>3, ErrorStores DEF Error, Untouched
<1>4. CASE Programmed
  BY <1>4, ProgrammedStores DEF Programmed, Untouched
<1> QED BY <1>2, <1>3, <1>4
        DEF Lower, CallStep, Interrupt, PollAcked, PollFailed, Start, StartFailed, Arm, Synced

LEMMA BusyEffect ==
  ASSUME IInv, Lower, pc' # "idle"
  PROVE  /\ pc # "idle" /\ op' = op
         /\ Untouched' => Untouched
         /\ \/ Stored' = Stored
            \/ /\ op \in Writes /\ Untouched /\ ~Untouched'
               /\ \E r \in Between(Stored[op.id], Written(Stored[op.id], op)) :
                    Stored' = [Stored EXCEPT ![op.id] = r]
<1> USE CallKinds DEF callVars, resultVars, busVars, chipVars
<1>1. StorageTypeOK /\ NeverAddressesBusyChip /\ pc # "idle"
  BY IdleEffect DEF IInv
<1>2. transfer \in Writes => op = transfer /\ pc \in {"arm", "sync"}
  BY StorageAssumption DEF IInv, Expected, Calls
<1>3. None \notin Writes
  BY DEF Calls
<1>4. CASE CallStep
  BY <1>1, <1>3, <1>4 DEF CallStep, PollAcked, PollFailed, Start, StartFailed, Arm, Synced, Return,
                          Untouched, Stored
<1>5. CASE Complete
  <2>1. /\ op' = op /\ pc' = pc /\ transfer' = None
    BY <1>5 DEF Complete
  <2>2. CASE transfer \in Writes
    <3>1. Stored' = [Stored EXCEPT ![op.id] = Written(Stored[op.id], op)]
      BY <1>1, <1>2, <1>5, <2>2, CompleteStores
    <3>2. Stored[op.id] \in Records
      BY <1>1, <1>2, <2>2, StoredType
    <3>3. Written(Stored[op.id], op) \in Between(Stored[op.id], Written(Stored[op.id], op))
      BY <1>2, <2>2, <3>2, WrittenRecord, BetweenRecords
    <3> QED BY <1>1, <1>2, <1>3, <2>1, <2>2, <3>1, <3>3 DEF Untouched
  <2>3. CASE transfer \notin Writes
    BY <1>1, <1>3, <1>5, <2>1, <2>3, CompleteStores DEF Untouched
  <2> QED BY <2>2, <2>3
<1>6. CASE Error
  <2>1. /\ op' = op /\ pc' = pc /\ transfer' = None
    BY <1>6 DEF Error
  <2> QED BY <1>1, <1>2, <1>3, <1>6, <2>1, ErrorStores DEF Untouched
<1>7. CASE Programmed
  BY <1>1, <1>7, ProgrammedStores DEF Programmed, Untouched
<1> QED BY <1>4, <1>5, <1>6, <1>7 DEF Lower, Interrupt

-----------------------------------------------------------------------------
(* Every step of the commands keeps the invariant.                          *)

\* The target depends on the command, the file and the old records only.
LEMMA SameTarget ==
  ASSUME UNCHANGED <<cmd, file, before>>
  PROVE  \A i : Target(i)' = Target(i) /\ (Counts(i)' <=> Counts(i))
BY DEF Target, Counts

\* The calls of the loops make the record what it should be.
LEMMA AskedCalls ==
  ASSUME CommandType, Progress, at \in Ids
  PROVE  /\ cmd = "import" /\ before[at].info # file[at].info =>
              /\ Whole(at, file[at]) \in Writes /\ Whole(at, file[at]).id = at
              /\ Written(before[at], Whole(at, file[at])) = Target(at)
              /\ Counts(at)
         /\ cmd = "clear" => \A w \in Status(at, "UNKNOWN") :
              w \in Writes /\ w.id = at /\ Written(before[at], w) = Target(at)
<1>1. CASE cmd = "import" /\ before[at].info # file[at].info
  <2>1. file \in Tables
    BY <1>1 DEF CommandType
  <2>2. Whole(at, file[at]) \in Writes
    BY <2>1 DEF Whole, Writes, Tables
  <2>3. Target(at) = file[at]
    BY <1>1 DEF Target
  <2>4. Written(before[at], Whole(at, file[at])) = file[at]
    BY DEF Written, Whole
  <2> QED BY <1>1, <2>2, <2>3, <2>4 DEF Whole, Counts
<1>2. ASSUME cmd = "clear", NEW w \in Status(at, "UNKNOWN")
      PROVE  w \in Writes /\ w.id = at /\ Written(before[at], w) = Target(at)
  <2>1. w \in Writes /\ w.part = "pos" /\ w.id = at /\ w.rec.pos = "UNKNOWN"
    BY DEF Status
  <2>2. Written(before[at], w) = [before[at] EXCEPT !.pos = "UNKNOWN"]
    BY <2>1 DEF Written
  <2>3. Target(at) = [before[at] EXCEPT !.pos = "UNKNOWN"]
    BY <1>2 DEF Target
  <2> QED BY <2>1, <2>2, <2>3
<1> QED BY <1>1, <1>2

LEMMA AskedStep ==
  ASSUME IInv, CommandType, Asked, Progress, [RecordsNext]_allVars
  PROVE  Asked'
<1> USE MaxCodeAssumption
<1>1. CASE SingleCall
  BY <1>1 DEF SingleCall, cmdVars, loopVars, Asked
<1>2. CASE Commands
  BY <1>2 DEF Commands, StartImport, StartClear, Begin, Asked, vars, callVars
<1>3. CASE EndOfRange
  BY <1>3 DEF EndOfRange, Finish, Asked
<1>4. CASE FileFails
  BY <1>4 DEF FileFails, Finish, Asked
<1>5. CASE ImportReads
  BY <1>5 DEF ImportReads, Call, Goto, Asked
<1>6. CASE ImportCompares
  <2>1. cmd = "import" /\ step = "compare" /\ pc = "idle" /\ at \in Ids
    BY <1>6 DEF ImportCompares, At, CommandType
  <2>2. CASE ok /\ found.info # file[at].info
    <3>1. before[at].info # file[at].info
      BY <2>1, <2>2 DEF Progress
    <3>2. /\ Whole(at, file[at]) \in Writes /\ Whole(at, file[at]).id = at
          /\ Written(before[at], Whole(at, file[at])) = Target(at)
      BY <2>1, <3>1, AskedCalls
    <3>3. Call(Whole(at, file[at])) /\ Goto("wrote")
      BY <1>6, <2>2 DEF ImportCompares
    <3>4. Target(at)' = Target(at)
      BY <3>3 DEF Goto, Target
    <3> QED BY <3>2, <3>3, <3>4 DEF Goto, Call, Asked
  <2>3. CASE ~(ok /\ found.info # file[at].info)
    BY <1>6, <2>1, <2>3 DEF ImportCompares, Advance, Finish, Asked, vars, callVars
  <2> QED BY <2>2, <2>3
<1>7. CASE ClearWrites
  <2>1. cmd = "clear" /\ at \in Ids
    BY <1>7 DEF ClearWrites, At, CommandType
  <2>2. PICK w \in Status(at, "UNKNOWN") : Call(w)
    BY <1>7 DEF ClearWrites
  <2>3. w \in Writes /\ w.id = at /\ Written(before[at], w) = Target(at)
    BY <2>1, AskedCalls
  <2>4. Goto("wrote")
    BY <1>7 DEF ClearWrites
  <2>5. Target(at)' = Target(at)
    BY <2>4 DEF Goto, Target
  <2> QED BY <2>2, <2>3, <2>4, <2>5 DEF Goto, Call, Asked
<1>8. CASE Wrote
  BY <1>8 DEF Wrote, Advance, Finish, Asked, vars, callVars
<1>9. CASE Lower
  <2> SUFFICES ASSUME cmd # None PROVE Asked'
    BY <1>9 DEF Lower, cmdVars, loopVars, Asked
  <2>1. \A i : Target(i)' = Target(i)
    BY <1>9, SameTarget DEF Lower, cmdVars, loopVars
  <2>2. pc' # "idle" => pc # "idle" /\ op' = op
    BY <1>9, BusyEffect
  <2> QED BY <1>9, <2>1, <2>2 DEF Lower, cmdVars, loopVars, Asked, ReadOf
<1>10. CASE Restart
  BY <1>10 DEF Restart, Finish, Asked
<1>11. CASE UNCHANGED allVars
  BY <1>11, SameTarget DEF allVars, vars, callVars, cmdVars, loopVars, Asked, ReadOf
<1> QED
  BY <1>1, <1>2, <1>3, <1>4, <1>5, <1>6, <1>7, <1>8, <1>9, <1>10, <1>11
  DEF RecordsNext, CommandStep

\* The loop goes on to the next record.
LEMMA AdvanceProgress ==
  ASSUME IInv, CommandType, Progress, cmd # None, at <= last, pc = "idle",
         NEW n, Advance(n), UNCHANGED vars, Stored[at] = Target(at)
  PROVE  Progress'
<1> USE MaxCodeAssumption
<1>1. /\ Stored' = Stored /\ at' = at + 1 /\ first' = first /\ before' = before
      /\ cmd' = cmd /\ file' = file /\ step' = "next"
  BY DEF Advance, vars, chipVars, Stored
<1>2. \A i : Target(i)' = Target(i)
  BY SameTarget DEF Advance
<1>3. at \in Ids /\ first \in Ids /\ first <= at /\ before \in [Ids -> Records]
  BY DEF CommandType
<1>4. \A i \in first'..(at' - 1) : Stored'[i] = Target(i)'
  BY <1>1, <1>2, <1>3 DEF Progress
<1>5. \A i \in Ids \ (first'..at') : Stored'[i] = before'[i]
  BY <1>1, <1>3 DEF Progress
<1>6. at' \in Ids => Stored'[at'] = before'[at'] /\ before'[at'] \in Between(before'[at'], Target(at'))
  BY <1>1, <1>3, OldBetween DEF Progress
<1>7. Target(at)' = Target(at')
  BY <1>1 DEF Target
<1>8. at' \in Ids => Stored'[at'] \in Between(before'[at'], Target(at)')
  BY <1>6, <1>7
<1> QED BY <1>1, <1>4, <1>5, <1>6, <1>8 DEF Progress

LEMMA ProgressStep ==
  ASSUME IInv, CommandType, Asked, Progress, [RecordsNext]_allVars
  PROVE  Progress'
<1> USE MaxCodeAssumption
<1>1. CASE SingleCall
  BY <1>1 DEF SingleCall, cmdVars, loopVars, Progress
<1>2. CASE Commands
  <2>1. ASSUME NEW name, NEW f \in Entered, NEW t \in Entered,
               NEW range \in {ImportRange(f, t), ClearRange(f, t)}, NEW table,
               Begin(name, range, table)
        PROVE  Progress'
    <3>1. range.from \in Ids
      BY RangesInTable
    <3>2. /\ Stored' = Stored /\ before' = Stored /\ at' = range.from /\ first' = at'
          /\ step' = "next" /\ pc = "idle"
      BY <2>1 DEF Begin, vars, chipVars, Stored
    <3>3. Stored[at'] \in Records
      BY <3>1, <3>2, StoredType DEF IInv
    <3>4. Stored'[at'] \in Between(before'[at'], Target(at)')
      BY <3>2, <3>3, OldBetween
    <3> QED BY <3>1, <3>2, <3>4 DEF Progress
  <2> QED BY <1>2, <2>1 DEF Commands, StartImport, StartClear
<1>3. CASE EndOfRange
  BY <1>3 DEF EndOfRange, Finish, Progress
<1>4. CASE FileFails
  BY <1>4 DEF FileFails, Finish, Progress
<1>5. ASSUME NEW o \in Calls, Call(o), NEW s, Goto(s), at \in Ids, cmd # None, step # "wrote"
      PROVE  Progress'
  <2>1. /\ UNCHANGED <<cmd, at, first, file, before>>
        /\ Stored' = Stored /\ pc' # "idle"
    BY <1>5, CallEffect DEF Goto
  <2>2. \A i : Target(i)' = Target(i)
    BY <2>1, SameTarget
  <2>3. Stored[at] = before[at]
    BY <1>5 DEF Progress
  <2> QED BY <1>5, <2>1, <2>2, <2>3 DEF Progress
<1>6. CASE ImportReads
  <2>1. at \in Ids /\ cmd # None /\ step # "wrote"
    BY <1>6 DEF ImportReads, At, CommandType
  <2>2. ReadOf(at) \in Calls
    BY <2>1 DEF ReadOf, Reads, Calls
  <2> QED BY <1>5, <1>6, <2>1, <2>2 DEF ImportReads
<1>7. CASE ImportCompares
  <2>1. cmd = "import" /\ cmd # None /\ step = "compare" /\ pc = "idle" /\ at \in Ids /\ at <= last
    BY <1>7 DEF ImportCompares, At, CommandType
  <2>2. CASE ok /\ found.info # file[at].info
    <3>1. before[at].info # file[at].info
      BY <2>1, <2>2 DEF Progress
    <3>2. Whole(at, file[at]) \in Calls
      BY <2>1, <3>1, AskedCalls DEF Calls
    <3> QED BY <1>5, <1>7, <2>1, <2>2, <3>2 DEF ImportCompares
  <2>3. CASE ok /\ found.info = file[at].info
    <3>1. Stored[at] = before[at] /\ before[at].info = file[at].info
      BY <2>1, <2>3 DEF Progress
    <3>2. Target(at) = before[at]
      BY <2>1, <3>1 DEF Target
    <3> QED BY <1>7, <2>1, <2>3, <3>1, <3>2, AdvanceProgress DEF ImportCompares
  <2>4. CASE ~ok
    BY <1>7, <2>4 DEF ImportCompares, Finish, Progress
  <2> QED BY <2>2, <2>3, <2>4
<1>8. CASE ClearWrites
  <2>1. at \in Ids /\ cmd # None /\ step # "wrote" /\ Goto("wrote")
    BY <1>8 DEF ClearWrites, At, CommandType
  <2>2. PICK w \in Status(at, "UNKNOWN") : Call(w)
    BY <1>8 DEF ClearWrites
  <2>3. w \in Calls
    BY DEF Status, Calls
  <2> QED BY <1>5, <2>1, <2>2, <2>3
<1>9. CASE Wrote
  <2>1. cmd # None /\ step = "wrote" /\ pc = "idle" /\ at <= last
    BY <1>9 DEF Wrote, CommandType
  <2>2. CASE ok
    <3>1. Stored[at] = Target(at)
      BY <2>1, <2>2 DEF Progress
    <3> QED BY <1>9, <2>1, <2>2, <3>1, AdvanceProgress DEF Wrote
  <2>3. CASE ~ok
    BY <1>9, <2>3 DEF Wrote, Finish, Progress
  <2> QED BY <2>2, <2>3
<1>10. CASE Lower
  <2> SUFFICES ASSUME cmd # None PROVE Progress'
    BY <1>10 DEF Lower, cmdVars, loopVars, Progress
  <2>1. UNCHANGED <<cmd, step, at, first, last, file, before>>
    BY <1>10 DEF Lower, cmdVars, loopVars
  <2>2. \A i : Target(i)' = Target(i)
    BY <2>1, SameTarget
  <2>3. CASE pc' = "idle"
    <3>1. Stored' = Stored /\ (Untouched' => Untouched)
      BY <1>10, <2>3, AnswerEffect, IdleEffect
    <3>2. /\ ok' /\ step = "compare" => found' = Stored[at]
          /\ ok' /\ step = "wrote" => Stored[at] = Target(at)
      <4>1. CASE pc = "idle"
        BY <1>10, <4>1, IdleEffect DEF Progress
      <4>2. CASE pc # "idle" /\ step = "compare"
        <5>1. op \in Reads /\ op.id = at
          BY <4>2 DEF Asked, ReadOf, Reads, CommandType
        <5> QED BY <1>10, <2>3, <4>2, <5>1, AnswerEffect
      <4>3. CASE pc # "idle" /\ step = "wrote"
        <5>1. op \in Writes /\ op.id = at /\ Written(before[at], op) = Target(at)
          BY <4>3 DEF Asked
        <5>2. at \in Ids /\ before[at] \in Records
          BY <4>3 DEF CommandType
        <5>3. Stored[at] \in Between(before[at], Written(before[at], op))
          BY <5>1, <5>2 DEF Progress
        <5>4. Written(Stored[at], op) = Target(at)
          BY <5>1, <5>2, <5>3, WriteAgain
        <5> QED BY <1>10, <2>3, <4>3, <5>1, <5>4, AnswerEffect
      <4>4. step \in {"next", "compare", "wrote"}
        BY DEF CommandType
      <4> QED BY <4>1, <4>2, <4>3, <4>4
    <3> QED BY <2>1, <2>2, <2>3, <3>1, <3>2 DEF Progress
  <2>4. CASE pc' # "idle"
    <3>1. pc # "idle" /\ op' = op /\ (Untouched' => Untouched)
      BY <1>10, <2>4, BusyEffect
    <3>2. CASE Stored' = Stored
      BY <2>1, <2>2, <2>4, <3>1, <3>2 DEF Progress
    <3>3. CASE Stored' # Stored
      <4>1. op \in Writes /\ Untouched /\ ~Untouched'
        BY <1>10, <2>4, <3>3, BusyEffect
      <4>2. PICK r \in Between(Stored[op.id], Written(Stored[op.id], op)) :
              Stored' = [Stored EXCEPT ![op.id] = r]
        BY <1>10, <2>4, <3>3, BusyEffect
      <4>3. step = "wrote"
        BY <3>1, <4>1 DEF Asked, ReadOf, Writes, CommandType
      <4>4. op.id = at /\ Written(before[at], op) = Target(at)
        BY <3>1, <4>3 DEF Asked
      <4>5. at \in Ids /\ Stored[at] = before[at] /\ Stored \in [Ids -> Records]
        BY <4>1, <4>3, StoredType DEF CommandType, Progress, IInv
      <4>6. Stored'[at] \in Between(before[at], Target(at))
        BY <4>2, <4>4, <4>5
      <4>7. \A i \in Ids \ {at} : Stored'[i] = Stored[i]
        BY <4>2, <4>4, <4>5
      <4>8. first..(at - 1) \subseteq Ids \ {at}
        BY DEF CommandType
      <4>9. Ids \ (first..at) \subseteq Ids \ {at}
        BY DEF CommandType
      <4> QED BY <2>1, <2>2, <2>4, <4>1, <4>3, <4>6, <4>7, <4>8, <4>9 DEF Progress
    <3> QED BY <3>2, <3>3
  <2> QED BY <2>3, <2>4
<1>11. CASE Restart
  BY <1>11 DEF Restart, Finish, Progress
<1>12. CASE UNCHANGED allVars
  <2>1. Stored' = Stored /\ (Untouched' <=> Untouched)
    BY <1>12 DEF allVars, vars, callVars, busVars, chipVars, Stored, Untouched
  <2> QED BY <1>12, <2>1, SameTarget
          DEF allVars, vars, callVars, resultVars, cmdVars, loopVars, Progress
<1> QED
  BY <1>1, <1>2, <1>3, <1>4, <1>6, <1>7, <1>8, <1>9, <1>10, <1>11, <1>12
  DEF RecordsNext, CommandStep

\* One more record is passed, and counted if it counts.
LEMMA AdvanceCounted ==
  ASSUME CommandType, Counted, cmd # None, at <= last, NEW n \in {0, 1}, Advance(n),
         n = 1 <=> Counts(at)
  PROVE  Counted'
<1> DEFINE passed == {i \in first..(at - 1) : Counts(i)}
<1> USE MaxCodeAssumption
<1>1. /\ at' = at + 1 /\ first' = first /\ changed' = changed + n /\ step' = "next"
      /\ first \in Nat /\ at \in Nat /\ first <= at /\ changed \in Nat
  BY DEF Advance, CommandType
<1>2. \A i : Counts(i)' <=> Counts(i)
  BY SameTarget DEF Advance
<1>3. IsFiniteSet(passed) /\ at \notin passed
  <2>1. first \in Int /\ at - 1 \in Int
    BY <1>1
  <2>2. IsFiniteSet(first..(at - 1))
    BY <2>1, FS_Interval
  <2> QED BY <1>1, <2>2, FS_Subset
<1>4. changed = Cardinality(passed) /\ changed \in Nat
  BY <1>1 DEF Counted
<1>5. {i \in first'..(at' - 1) : Counts(i)'} = {i \in first..at : Counts(i)}
  BY <1>1, <1>2
<1>6. CASE n = 1
  <2>1. {i \in first..at : Counts(i)} = passed \cup {at}
    BY <1>1, <1>6
  <2>2. Cardinality(passed \cup {at}) = Cardinality(passed) + 1
    BY <1>3, FS_AddElement
  <2> QED BY <1>1, <1>4, <1>5, <1>6, <2>1, <2>2 DEF Counted
<1>7. CASE n = 0
  <2>1. {i \in first..at : Counts(i)} = passed
    BY <1>1, <1>7
  <2> QED BY <1>1, <1>4, <1>5, <1>7, <2>1 DEF Counted
<1> QED BY <1>6, <1>7

LEMMA CountedStep ==
  ASSUME IInv, CommandType, Progress, Counted, [RecordsNext]_allVars
  PROVE  Counted'
<1> USE MaxCodeAssumption
<1>1. CASE SingleCall
  BY <1>1 DEF SingleCall, cmdVars, loopVars, Counted
<1>2. CASE Commands
  <2>1. ASSUME NEW name, NEW f \in Entered, NEW t \in Entered,
               NEW range \in {ImportRange(f, t), ClearRange(f, t)}, NEW table,
               Begin(name, range, table)
        PROVE  Counted'
    <3>1. range.from \in Ids
      BY RangesInTable
    <3>2. at' = range.from /\ first' = at' /\ changed' = 0 /\ step' = "next"
      BY <2>1 DEF Begin
    <3>3. {i \in first'..(at' - 1) : Counts(i)'} = {}
      BY <3>1, <3>2
    <3> QED BY <3>2, <3>3, FS_EmptySet DEF Counted
  <2> QED BY <1>2, <2>1 DEF Commands, StartImport, StartClear
<1>3. CASE EndOfRange
  BY <1>3 DEF EndOfRange, Finish, Counted
<1>4. CASE FileFails
  BY <1>4 DEF FileFails, Finish, Counted
<1>5. ASSUME NEW s, Goto(s), s = "wrote" => Counts(at)
      PROVE  Counted'
  <2>1. UNCHANGED <<cmd, at, first, changed>> /\ step' = s
    BY <1>5 DEF Goto
  <2>2. \A i : Counts(i)' <=> Counts(i)
    BY <1>5, SameTarget DEF Goto
  <2> QED BY <1>5, <2>1, <2>2 DEF Counted
<1>6. CASE ImportReads
  BY <1>5, <1>6 DEF ImportReads
<1>7. CASE ImportCompares
  <2>1. cmd = "import" /\ cmd # None /\ step = "compare" /\ pc = "idle" /\ at \in Ids /\ at <= last
    BY <1>7 DEF ImportCompares, At, CommandType
  <2>2. CASE ok /\ found.info # file[at].info
    <3>1. before[at].info # file[at].info
      BY <2>1, <2>2 DEF Progress
    <3>2. Counts(at)
      BY <2>1, <3>1, AskedCalls
    <3> QED BY <1>5, <1>7, <2>2, <3>2 DEF ImportCompares
  <2>3. CASE ok /\ found.info = file[at].info
    <3>1. before[at].info = file[at].info
      BY <2>1, <2>3 DEF Progress
    <3>2. ~Counts(at)
      BY <2>1, <3>1 DEF Counts, Target
    <3> QED BY <1>7, <2>1, <2>3, <3>2, AdvanceCounted DEF ImportCompares
  <2>4. CASE ~ok
    BY <1>7, <2>4 DEF ImportCompares, Finish, Counted
  <2> QED BY <2>2, <2>3, <2>4
<1>8. CASE ClearWrites
  <2>1. cmd = "clear" /\ Goto("wrote")
    BY <1>8 DEF ClearWrites, At
  <2> QED BY <1>5, <2>1 DEF Counts
<1>9. CASE Wrote
  <2>1. cmd # None /\ step = "wrote" /\ at <= last
    BY <1>9 DEF Wrote, CommandType
  <2>2. CASE ok
    <3>1. Counts(at)
      BY <2>1 DEF Counted
    <3> QED BY <1>9, <2>1, <2>2, <3>1, AdvanceCounted DEF Wrote
  <2>3. CASE ~ok
    BY <1>9, <2>3 DEF Wrote, Finish, Counted
  <2> QED BY <2>2, <2>3
<1>10. CASE Lower \/ UNCHANGED allVars
  <2>1. UNCHANGED <<cmd, step, at, first, changed, file, before>>
    BY <1>10 DEF Lower, allVars, cmdVars, loopVars
  <2>2. \A i : Counts(i)' <=> Counts(i)
    BY <2>1, SameTarget
  <2> QED BY <2>1, <2>2 DEF Counted
<1>11. CASE Restart
  BY <1>11 DEF Restart, Finish, Counted
<1> QED
  BY <1>1, <1>2, <1>3, <1>4, <1>6, <1>7, <1>8, <1>9, <1>10, <1>11 DEF RecordsNext, CommandStep

-----------------------------------------------------------------------------
(* The answers.                                                             *)

\* What the loops know at every step.
THEOREM CommandsInductive == RecordsSpec => []CommandInv
<1>1. RecordsInit => Asked /\ Progress /\ Counted
  BY DEF RecordsInit, Asked, Progress, Counted
<1>2. IInv /\ CommandInv /\ [RecordsNext]_allVars => Asked' /\ Progress' /\ Counted'
  BY AskedStep, ProgressStep, CountedStep DEF CommandInv
<1>3. CommandInv <=> CommandType /\ Asked /\ Progress /\ Counted
  BY DEF CommandInv
<1> QED BY <1>1, <1>2, <1>3, RunsOnStorage, Inductive, PTL DEF RecordsSpec

\* The answer and the count of an import or a clearing are true: OK for the
\* whole range, ERR for the records before the one it stopped at, with bus
\* errors at any step.
THEOREM ReportsTrue == RecordsSpec => CommandReport
<1> DEFINE Report ==
      cmd # None /\ answer' # None =>
        /\ answer' = "OK" => at = last + 1
        /\ \A i \in first..(at - 1) : Stored[i] = Target(i)
        /\ \A i \in Ids \ (first..at) : Stored[i] = before[i]
        /\ at \in Ids => Stored[at] \in Between(before[at], Target(at))
        /\ changed = Cardinality({i \in first..(at - 1) : Target(i) # before[i] \/ cmd = "clear"})
<1>1. CommandInv /\ [RecordsNext]_allVars => Report
  <2> SUFFICES ASSUME CommandInv, [RecordsNext]_allVars, cmd # None, answer' # None
               PROVE  Report
    OBVIOUS
  <2>1. answer' = "OK" => at = last + 1
    <3>1. answer' = "OK" => EndOfRange
      BY MaxCodeAssumption
      DEF RecordsNext, CommandStep, Commands, StartImport, StartClear, Begin, SingleCall, FileFails,
          ImportReads, ImportCompares, ClearWrites, Wrote, Goto, Advance, Finish, Lower, Restart,
          allVars, cmdVars, CommandInv, CommandType
    <3> QED BY <3>1, MaxCodeAssumption DEF EndOfRange, CommandInv, CommandType
  <2>2. changed = Cardinality({i \in first..(at - 1) : Target(i) # before[i] \/ cmd = "clear"})
    BY DEF CommandInv, Counted, Counts
  <2> QED BY <2>1, <2>2 DEF CommandInv, Progress
<1> QED BY <1>1, CommandsInductive, PTL DEF RecordsSpec, CommandReport

=============================================================================
