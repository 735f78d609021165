---------------------------- MODULE RecordStore ----------------------------
(***************************************************************************)
(* What i2cdb promises the main loop: one request at a time reads or writes  *)
(* a vehicle's record, an answer TRUE is only given when the record read is  *)
(* the stored one or the written one is stored, no other record is touched,  *)
(* and a power cut can damage at most the record written last.               *)
(***************************************************************************)
CONSTANTS
  Ids,        \* the record numbers
  Infos,      \* what a record says of a vehicle: days and time windows
  Positions,  \* dbrecord::POSITION
  None        \* no request

Torn == "torn"  \* bytes of two different infos
Records == [info : Infos \cup {Torn}, pos : Positions]
Reads == [part : {"read"}, id : Ids]
Writes == [part : {"whole", "pos"}, id : Ids, rec : [info : Infos, pos : Positions]]

\* A record after a write of all of it, or of its position alone.
Written(old, w) == IF w.part = "whole" THEN w.rec ELSE [old EXCEPT !.pos = w.rec.pos]

\* What a record may be when new is written over old and the write is cut short.
Between(old, new) ==
  [info : {old.info, new.info} \cup (IF old.info = new.info THEN {} ELSE {Torn}),
   pos : {old.pos, new.pos}]

VARIABLES
  db,       \* what a read finds
  safe,     \* what survives a power cut
  request,  \* what the caller waits for
  ok,       \* the answer
  found     \* the record it was given with

vars == <<db, safe, request, ok, found>>

Init ==
  /\ db \in [Ids -> Records]
  /\ safe = db
  /\ request = None
  /\ ok = FALSE
  /\ found = None

Ask ==
  /\ request = None
  /\ request' \in Reads \cup Writes
  /\ ok' = FALSE /\ found' = None
  /\ UNCHANGED <<db, safe>>

\* The answer is only there until the caller turns to something else.
Forget ==
  /\ request = None
  /\ ok' = FALSE /\ found' = None
  /\ UNCHANGED <<db, safe, request>>

\* A write reaches the memory, all of it or not.
Put ==
  /\ request \in Writes /\ safe = db
  /\ \E r \in Between(db[request.id], Written(db[request.id], request)) :
        db' = [db EXCEPT ![request.id] = r]
  /\ UNCHANGED <<safe, request, ok, found>>

Settle ==
  /\ safe' = db
  /\ UNCHANGED <<db, request, ok, found>>

AnswerOk ==
  /\ request # None
  /\ IF request \in Reads
       THEN found' = db[request.id]
       ELSE db[request.id] = Written(db[request.id], request) /\ UNCHANGED found
  /\ request' = None
  /\ ok' = TRUE
  /\ UNCHANGED <<db, safe>>

AnswerFailed ==
  /\ request # None
  /\ request' = None
  /\ UNCHANGED <<db, safe, ok, found>>

PowerCut ==
  /\ \E i \in Ids : \E r \in Between(safe[i], db[i]) :
        safe' = [safe EXCEPT ![i] = r]
  /\ db' = safe'
  /\ request' = None
  /\ ok' = FALSE /\ found' = None

Next == Ask \/ Forget \/ Put \/ Settle \/ AnswerOk \/ AnswerFailed \/ PowerCut

Spec == Init /\ [][Next]_vars
=============================================================================
