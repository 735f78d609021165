------------------------------ MODULE Records ------------------------------
(***************************************************************************)
(* Who uses the vehicle records: the state machine reads a record and stores *)
(* a position, `sdb` sets a record, the configuration is saved, and `idb`    *)
(* and `cs` go over a range of records.  All of them run in the main loop,   *)
(* one after the other, on the Storage module's calls.                       *)
(*                                                                         *)
(* DB.TXT on the SD card is any table of records, and reading it may fail.   *)
(* Entered numbers stand for what GetParam returns: a record number, one     *)
(* above MAX_CODE, or none (0xffff).                                         *)
(***************************************************************************)
EXTENDS Storage, FiniteSets

CONSTANTS MaxCode,  \* MAX_CODE
          NoTable   \* no table of records

ASSUME MaxCodeAssumption == /\ MaxCode \in Nat /\ Ids = 0..MaxCode
                            /\ None \notin {"import", "clear", "OK", "ERR"}

VARIABLES
  cmd,      \* the command under way
  step,     \* where its loop is
  at,       \* id
  last,     \* to
  first,    \* history: where the command began
  changed,  \* changed
  file,     \* the records of DB.TXT
  before,   \* history: the records when the command began
  answer    \* the command's answer

loopVars == <<cmd, step, at, last, first, changed, file, before>>
cmdVars == <<loopVars, answer>>
allVars == <<vars, cmdVars>>

Missing == MaxCode + 2
Entered == 0..(MaxCode + 1) \cup {Missing}
Tables == [Ids -> [info : Infos, pos : Positions]]

AtMost(n, m) == IF n > m THEN m ELSE n

\* Mutant: the end of the range is not clamped.
ImportRangeUnclamped(f, t) ==
  [from |-> IF f = Missing THEN 0 ELSE AtMost(f, t), to |-> t]

\* The range idb reads from what was entered.
ImportRange(f, t) ==
  LET to == AtMost(t, MaxCode)
  IN [from |-> IF f = Missing THEN 0 ELSE AtMost(f, to), to |-> to]

\* The range cs reads from what was entered.
ClearRange(f, t) ==
  LET from == IF f > MaxCode THEN 0 ELSE f
      to == IF t <= MaxCode THEN t ELSE IF f > MaxCode THEN MaxCode ELSE from
  IN [from |-> AtMost(from, to), to |-> to]

ReadOf(i) == [part |-> "read", id |-> i]
Whole(i, r) == [part |-> "whole", id |-> i, rec |-> r]
\* setStatus: only the position of the record is written.
Status(i, p) == {w \in Writes : w.part = "pos" /\ w.id = i /\ w.rec.pos = p}

-----------------------------------------------------------------------------
(* Single calls, and the frame of a command.                                *)

\* Authorize, the pass recorded, sdb, gdb, and saving the configuration.
SingleCall ==
  /\ cmd = None
  /\ \E o \in Calls : Call(o)
  /\ UNCHANGED cmdVars

Begin(name, range, table) ==
  /\ cmd = None /\ pc = "idle"
  /\ cmd' = name /\ step' = "next"
  /\ at' = range.from /\ first' = at' /\ last' = range.to
  /\ changed' = 0
  /\ file' = table
  /\ before' = Stored
  /\ answer' = None
  /\ UNCHANGED vars

\* The command prints a; its locals are gone.
Finish(a) ==
  /\ cmd' = None /\ step' = "next"
  /\ at' = 0 /\ first' = 0 /\ last' = 0 /\ changed' = 0
  /\ file' = NoTable /\ before' = NoTable
  /\ answer' = a

Goto(s) == step' = s /\ UNCHANGED <<cmd, at, first, last, changed, file, before, answer>>

Advance(n) ==
  /\ at' = at + 1
  /\ changed' = changed + n
  /\ step' = "next"
  /\ UNCHANGED <<cmd, first, last, file, before, answer>>

\* The loop of name is at s, and its last call has returned.
At(name, s) == cmd = name /\ step = s /\ pc = "idle"

-----------------------------------------------------------------------------
(* idb and cs.                                                              *)

StartImport(f, t, table) == Begin("import", ImportRange(f, t), table)
StartClear(f, t) == Begin("clear", ClearRange(f, t), NoTable)

EndOfRange ==
  /\ cmd # None /\ step = "next" /\ at > last
  /\ Finish("OK")
  /\ UNCHANGED vars

\* DB.TXT cannot be opened or read.
FileFails ==
  /\ At("import", "next") /\ at <= last
  /\ Finish("ERR")
  /\ UNCHANGED vars

ImportReads ==
  /\ At("import", "next") /\ at <= last
  /\ Call(ReadOf(at))
  /\ Goto("compare")

\* infoequal: the position is not compared, but it is written.
ImportCompares ==
  /\ At("import", "compare")
  /\ IF ok /\ found.info # file[at].info
       THEN Call(Whole(at, file[at])) /\ Goto("wrote")
       ELSE (IF ok THEN Advance(0) ELSE Finish("ERR")) /\ UNCHANGED vars

ClearWrites ==
  /\ At("clear", "next") /\ at <= last
  /\ \E w \in Status(at, "UNKNOWN") : Call(w)
  /\ Goto("wrote")

\* Mutant: a write that failed does not end the loop.
WroteAnyhow ==
  /\ cmd # None /\ step = "wrote" /\ pc = "idle"
  /\ Advance(1)
  /\ UNCHANGED vars

Wrote ==
  /\ cmd # None /\ step = "wrote" /\ pc = "idle"
  /\ IF ok THEN Advance(1) ELSE Finish("ERR")
  /\ UNCHANGED vars

-----------------------------------------------------------------------------

RecordsInit ==
  /\ Init
  /\ cmd = None /\ step = "next"
  /\ at = 0 /\ first = 0 /\ last = 0 /\ changed = 0
  /\ file = NoTable /\ before = NoTable
  /\ answer = None

Commands ==
  \/ \E f, t \in Entered, table \in Tables : StartImport(f, t, table)
  \/ \E f, t \in Entered : StartClear(f, t)

CommandStep == EndOfRange \/ FileFails \/ ImportReads \/ ImportCompares \/ ClearWrites \/ Wrote

Lower == (CallStep \/ Interrupt \/ Programmed) /\ UNCHANGED cmdVars

Restart == PowerCut /\ Finish(None)

RecordsNext == SingleCall \/ Commands \/ CommandStep \/ Lower \/ Restart

\* The main loop runs on, a transfer ends, and the chip ends its write cycle.
RecordsSpec ==
  /\ RecordsInit /\ [][RecordsNext]_allVars
  /\ WF_allVars(CommandStep) /\ WF_allVars(CallStep /\ UNCHANGED cmdVars)
  /\ WF_allVars(Interrupt /\ UNCHANGED cmdVars)

-----------------------------------------------------------------------------
(* Properties.                                                              *)

TypeOK ==
  /\ StorageTypeOK
  /\ cmd \in {None, "import", "clear"} /\ step \in {"next", "compare", "wrote"}
  /\ at \in 0..(MaxCode + 1) /\ first \in Ids /\ last \in Ids /\ changed \in 0..(MaxCode + 1)
  /\ file \in Tables \cup {NoTable}
  /\ before \in [Ids -> Records] \cup {NoTable}
  /\ answer \in {None, "OK", "ERR"}

\* What a command is to make of record i.
Target(i) ==
  IF cmd = "clear"
    THEN [before[i] EXCEPT !.pos = "UNKNOWN"]
    ELSE IF before[i].info = file[i].info THEN before[i] ELSE file[i]

\* An import or a clearing that answers OK has dealt with the whole range and
\* nothing else, and one that answers ERR with the records before the one it
\* stopped at, which alone may be half done.  The count printed after an import
\* is that of the records that differed from the file, and a record that did not
\* keeps its position, however old the file is.
CommandReport ==
  [][cmd # None /\ answer' # None =>
       /\ answer' = "OK" => at = last + 1
       /\ \A i \in first..(at - 1) : Stored[i] = Target(i)
       /\ \A i \in Ids \ (first..at) : Stored[i] = before[i]
       /\ at \in Ids => Stored[at] \in Between(before[at], Target(at))
       /\ changed = Cardinality({i \in first..(at - 1) : Target(i) # before[i] \/ cmd = "clear"})]_allVars

\* A command comes to its end although records cannot be read or written,
\* unless an interrupt came before it was expected.
CommandsAnswer == cmd # None ~> cmd = None \/ early
=============================================================================
