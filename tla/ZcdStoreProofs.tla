--------------------------- MODULE ZcdStoreProofs ---------------------------
(***************************************************************************)
(* ZcdStore for any number of devices, cards and concurrent requests: the  *)
(* index agrees with the devices, and an edit is in the file when kvs has  *)
(* exited after a signal.                                                  *)
(***************************************************************************)
EXTENDS ZcdStore, TLAPS

Names == Mid \cup {None}
Index == Device \cup {None}
Words == Text \cup {None}
ReqType == [op : Op, at : At, id : Card, mid : Names]
BudgetType == [ask : Nat, fault : Nat]

\* Where a registration can be.
RegAt == {"lookup", "upsert", "ack"}

\* A registration is at its own places and knows its mid; a card that is
\* forgotten is a device.
OpInv ==
  \A q \in Request :
    /\ req[q].op = "register" <=> req[q].at \in RegAt
    /\ req[q].at \in {"lookup", "upsert"} => req[q].mid \in Mid
    /\ req[q].at \in {"upsert", "forget"} => req[q].id \in Device

\* Between the two holds of the lock a device changes to the mid it is about
\* to be given, if at all, and no two registrations give it different ones.
UpsertInv ==
  \A q \in Request : req[q].at = "upsert" =>
    /\ bySid[req[q].id] \in {None, req[q].mid}
    /\ \A p \in Request :
         req[p].at = "upsert" /\ req[p].id = req[q].id => req[p].mid = req[q].mid

\* No request of the manager is left when Shutdown has waited for them all.
QuietInv == kvs # "up" /\ ~late => ~AtWork

\* A store that is not dirty is in the file.
CleanInv == ~dirty => Kept

\* From FlushNow on.
FlushedInv == kvs \in {"flushed", "exited"} /\ ~late /\ ~failed => Kept

IInv ==
  /\ TypeOK
  /\ OpInv /\ UpsertInv /\ QuietInv
  /\ IndexAgrees
  /\ CleanInv /\ FlushedInv

----------------------------------------------------------------------------
(* Types.                                                                  *)

\* TypeOK with the types of this module.
LEMMA Types ==
  TypeOK <=>
    /\ bySid \in [Device -> Names]
    /\ byMid \in [Mid -> Index]
    /\ apps \in [Card -> Words]
    /\ notes \in [Entry -> Words]
    /\ settings \in [Setting -> Words]
    /\ dirty \in BOOLEAN
    /\ notify \in BOOLEAN
    /\ flusher \in {"waits", "sleeps"}
    /\ disk \in Image
    /\ failed \in BOOLEAN
    /\ req \in [Request -> ReqType]
    /\ kvs \in {"up", "drained", "flushed", "exited"}
    /\ late \in BOOLEAN
    /\ budget \in BudgetType
  BY DEF TypeOK, Names, Index, Words, ReqType, BudgetType

\* What a step has to show for TypeOK.
LEMMA Retype ==
  ASSUME bySid' \in [Device -> Names],
         byMid' \in [Mid -> Index],
         apps' \in [Card -> Words],
         notes' \in [Entry -> Words],
         settings' \in [Setting -> Words],
         dirty' \in BOOLEAN,
         notify' \in BOOLEAN,
         flusher' \in {"waits", "sleeps"},
         disk' \in Image,
         failed' \in BOOLEAN,
         req' \in [Request -> ReqType],
         kvs' \in {"up", "drained", "flushed", "exited"},
         late' \in BOOLEAN,
         budget' \in BudgetType
  PROVE TypeOK'
  BY DEF TypeOK, Names, Index, Words, ReqType, BudgetType

\* Spending keeps the type of the budget.
LEMMA SpendType ==
  ASSUME NEW what \in {"ask", "fault"}, Spend(what), budget \in BudgetType
  PROVE budget' \in BudgetType
  BY DEF Spend, BudgetType

\* An idle request.
LEMMA IdleType == Idle \in ReqType /\ Idle.at = "idle" /\ Idle.op = "add"
  BY DEF Idle, ReqType, Op, At, Card, Names

\* What counts as a card.
LEMMA CardFacts == Device \subseteq Card /\ App \subseteq Card /\ Nameless \in Card /\ Entry \subseteq Card
  BY DEF Card, Entry

\* A request that goes on to another point, or is over.
LEMMA Goes ==
  ASSUME NEW q \in Request, NEW at \in At, Goto(q, at), req \in [Request -> ReqType]
  PROVE /\ req' \in [Request -> ReqType]
        /\ \A p \in Request : p # q => req'[p] = req[p]
        /\ req'[q].at = at
        /\ at = "idle" => req'[q].op = "add"
        /\ at # "idle" =>
             req'[q].op = req[q].op /\ req'[q].id = req[q].id /\ req'[q].mid = req[q].mid
<1> DEFINE r == IF at = "idle" THEN Idle ELSE [req[q] EXCEPT !.at = at]
<1>1. req[q] \in ReqType
  OBVIOUS
<1>2. /\ r \in ReqType /\ r.at = at
      /\ at = "idle" => r.op = "add"
      /\ at # "idle" => r.op = req[q].op /\ r.id = req[q].id /\ r.mid = req[q].mid
  BY <1>1, IdleType DEF ReqType
<1>3. req' = [req EXCEPT ![q] = r]
  BY DEF Goto
<1> HIDE DEF r
<1> QED BY <1>2, <1>3

----------------------------------------------------------------------------
(* Every step.                                                             *)

\* The steps of a request that only decide where it goes on.
Decides(q) ==
  \/ managerAddApp(q) \/ mgrAddBuiltIn(q) \/ managerSaveTags(q)
  \/ managerVisit(q) \/ managerDeleteApp(q)
  \/ mgrStubApp(q) \/ mgrEntryExists(q)

\* Next as one disjunction of the actions the proofs go through.
LEMMA Steps ==
  ASSUME Next
  PROVE \/ \E q \in Request :
             \/ Begin(q) \/ Decides(q) \/ SaveRecord(q) \/ managerNoteSet(q)
             \/ DropRecord(q) \/ DropNote(q) \/ DropDevice(q) \/ Lookup(q)
             \/ Upsert(q) \/ Ack(q)
        \/ \E k \in Setting : SaveSetting(k) \/ DeleteSetting(k)
        \/ \E s \in Device : touch(s)
        \/ Wake \/ Flush \/ Drained \/ FlushNow \/ Exit \/ Restart
  BY DEF Next, Handle, Decides, flushLoop

\* Such a step changes nothing but the request, which stays one of the manager.
LEMMA Decision ==
  ASSUME NEW q \in Request, Decides(q), TypeOK, OpInv
  PROVE /\ req' \in [Request -> ReqType]
        /\ \A p \in Request : p # q => req'[p] = req[p]
        /\ req'[q].op # "register" /\ req'[q].at \notin RegAt \cup {"forget"}
        /\ req[q].op # "register" /\ req[q].at # "idle"
        /\ UNCHANGED <<memory, flushing, disk, failed, process, budget>>
<1>1. req \in [Request -> ReqType] /\ req[q] \in ReqType
  BY Types
<1>2. req[q].op = "register" <=> req[q].at \in RegAt
  BY DEF OpInv
<1>3. ASSUME NEW op \in {"add", "edit", "tags", "visit", "delete"},
             NEW found \in {"idle", "save", "drop"}, NEW missing \in {"idle", "save", "stub"},
             Find(q, op, found, missing)
      PROVE \/ Goto(q, found) /\ req[q].at = "find"
            \/ Goto(q, missing) /\ req[q].at = "find"
  BY <1>3 DEF Find, Is
<1>4. ASSUME NEW at \in {"idle", "save", "drop", "stub", "find", "note", "get"}, Goto(q, at),
             req[q].at \in {"find", "stub", "exists", "get"}
      PROVE /\ req' \in [Request -> ReqType]
            /\ \A p \in Request : p # q => req'[p] = req[p]
            /\ req'[q].op # "register" /\ req'[q].at \notin RegAt \cup {"forget"}
  <2>1. at \in At
    BY DEF At
  <2>2. req[q].op # "register"
    BY <1>2, <1>4 DEF RegAt
  <2> QED BY <1>1, <1>4, <2>1, <2>2, Goes DEF RegAt
<1>5. CASE managerAddApp(q) \/ mgrAddBuiltIn(q) \/ managerSaveTags(q) \/ managerVisit(q) \/ managerDeleteApp(q)
  <2>1. UNCHANGED <<memory, flushing, disk, failed, process, budget>> /\ req[q].at = "find"
    BY <1>5 DEF managerAddApp, mgrAddBuiltIn, managerSaveTags, managerVisit, managerDeleteApp,
       Find, Is
  <2>2. \/ \E at \in {"idle", "save", "drop", "stub"} : Goto(q, at)
        \/ \E id \in App : req' = [req EXCEPT ![q].id = id]
    BY <1>5 DEF managerAddApp, mgrAddBuiltIn, managerSaveTags, managerVisit, managerDeleteApp,
       Find, Is
  <2>3. CASE \E at \in {"idle", "save", "drop", "stub"} : Goto(q, at)
    BY <1>2, <1>4, <2>1, <2>3 DEF RegAt
  <2>4. ASSUME NEW id \in App, req' = [req EXCEPT ![q].id = id]
        PROVE /\ req' \in [Request -> ReqType]
              /\ \A p \in Request : p # q => req'[p] = req[p]
              /\ req'[q].op = req[q].op /\ req'[q].at = req[q].at
    <3> DEFINE r == [req[q] EXCEPT !.id = id]
    <3>1. r \in ReqType /\ r.op = req[q].op /\ r.at = req[q].at
      BY <1>1, CardFacts DEF ReqType
    <3>2. req' = [req EXCEPT ![q] = r]
      BY <2>4
    <3> HIDE DEF r
    <3> QED BY <1>1, <3>1, <3>2
  <2> QED BY <1>2, <2>1, <2>2, <2>3, <2>4 DEF RegAt
<1>6. CASE mgrStubApp(q)
  <2>1. UNCHANGED <<memory, flushing, disk, failed, process, budget>> /\ req[q].at = "stub"
    BY <1>6 DEF mgrStubApp
  <2>2. \/ Goto(q, "drop") \/ Goto(q, "save") \/ Goto(q, "idle")
        \/ req' = [req EXCEPT ![q].at = "save", ![q].id = Nameless]
    BY <1>6 DEF mgrStubApp
  <2>3. CASE Goto(q, "drop") \/ Goto(q, "save") \/ Goto(q, "idle")
    BY <1>2, <1>4, <2>1, <2>3 DEF RegAt
  <2>4. CASE req' = [req EXCEPT ![q].at = "save", ![q].id = Nameless]
    <3> DEFINE r == [req[q] EXCEPT !.at = "save", !.id = Nameless]
    <3>1. r \in ReqType /\ r.op = req[q].op /\ r.at = "save"
      BY <1>1, CardFacts DEF ReqType, At
    <3>2. req' = [req EXCEPT ![q] = r]
      BY <2>4
    <3> HIDE DEF r
    <3>3. req' \in [Request -> ReqType] /\ (\A p \in Request : p # q => req'[p] = req[p])
      BY <1>1, <3>1, <3>2
    <3>4. req'[q].op = req[q].op /\ req'[q].at = "save"
      BY <1>1, <3>1, <3>2
    <3> QED BY <1>2, <2>1, <3>3, <3>4 DEF RegAt
  <2> QED BY <2>2, <2>3, <2>4
<1>7. CASE mgrEntryExists(q)
  <2>1. UNCHANGED <<memory, flushing, disk, failed, process, budget>> /\ req[q].at \in {"exists",
                    "get"}
    BY <1>7 DEF mgrEntryExists
  <2>2. Goto(q, "find") \/ Goto(q, "note") \/ Goto(q, "get") \/ Goto(q, "idle")
    BY <1>7 DEF mgrEntryExists
  <2> QED BY <1>2, <1>4, <2>1, <2>2 DEF RegAt
<1> QED BY <1>5, <1>6, <1>7 DEF Decides

\* Registering: the device is the one of the index, or one nobody knows.
LEMMA Looks ==
  ASSUME NEW q \in Request, Lookup(q), TypeOK, OpInv
  PROVE \E id \in Device :
          /\ req' \in [Request -> ReqType]
          /\ \A p \in Request : p # q => req'[p] = req[p]
          /\ req'[q].op = req[q].op /\ req'[q].mid = req[q].mid
          /\ req'[q].at = "upsert" /\ req'[q].id = id
          /\ \/ byMid[req[q].mid] = id
             \/ bySid[id] = None /\ \A p \in Request : req[p].id # id
          /\ req[q].op = "register" /\ req[q].mid \in Mid
<1>1. req \in [Request -> ReqType] /\ req[q] \in ReqType
  BY Types
<1>2. PICK id \in Device :
        /\ \/ byMid[req[q].mid] = id
           \/ bySid[id] = None /\ \A p \in Request : req[p].id # id
        /\ req' = [req EXCEPT ![q].at = "upsert", ![q].id = id]
  BY DEF Lookup
<1>3. req[q].op = "register" /\ req[q].mid \in Mid
  BY DEF Lookup, OpInv, RegAt
<1> DEFINE r == [req[q] EXCEPT !.at = "upsert", !.id = id]
<1>4. r \in ReqType /\ r.op = req[q].op /\ r.mid = req[q].mid /\ r.at = "upsert" /\ r.id = id
  BY <1>1, CardFacts DEF ReqType, At
<1>5. req' = [req EXCEPT ![q] = r]
  BY <1>2
<1> HIDE DEF r
<1>6. /\ req' \in [Request -> ReqType]
      /\ \A p \in Request : p # q => req'[p] = req[p]
      /\ req'[q] = r
  BY <1>1, <1>4, <1>5
<1> QED BY <1>2, <1>3, <1>4, <1>6

\* A request begins.
LEMMA Begins ==
  ASSUME NEW q \in Request, Begin(q), TypeOK
  PROVE /\ req' \in [Request -> ReqType]
        /\ \A p \in Request : p # q => req'[p] = req[p]
        /\ req'[q].op = "register" <=> req'[q].at = "lookup"
        /\ req'[q].at \in {"find", "exists", "lookup"}
        /\ req'[q].at = "lookup" => req'[q].mid \in Mid
        /\ kvs = "up" \/ req'[q].op = "register"
<1>1. req \in [Request -> ReqType]
  BY Types
<1>2. PICK op \in Op : \E x \in Subject(op) :
        /\ req' = [req EXCEPT ![q] = [op |-> op, at |-> Start[op], id |-> x.id, mid |-> x.mid]]
        /\ kvs = "up" \/ op = "register"
  BY DEF Begin
<1>x. PICK x \in Subject(op) :
        /\ req' = [req EXCEPT ![q] = [op |-> op, at |-> Start[op], id |-> x.id, mid |-> x.mid]]
        /\ kvs = "up" \/ op = "register"
  BY <1>2
<1> DEFINE r == [op |-> op, at |-> Start[op], id |-> x.id, mid |-> x.mid]
<1>3. x.id \in Card /\ x.mid \in Names /\ (op = "register" => x.mid \in Mid)
  BY CardFacts DEF Subject, Op, Names
<1>4. Start[op] \in {"find", "exists", "lookup"} /\ (op = "register" <=> Start[op] = "lookup")
  BY DEF Start, Op
<1>5. /\ r \in ReqType /\ r.op = op /\ r.at = Start[op] /\ r.mid = x.mid
  BY <1>3, <1>4 DEF ReqType, At
<1>6. req' = [req EXCEPT ![q] = r]
  BY <1>x
<1> HIDE DEF r
<1>7. /\ req' \in [Request -> ReqType]
      /\ \A p \in Request : p # q => req'[p] = req[p]
      /\ req'[q] = r
  BY <1>1, <1>5, <1>6
<1> QED BY <1>x, <1>3, <1>4, <1>5, <1>7

\* What is loaded is what the file says.
LEMMA Loads ==
  ASSUME zcdLoadStore(disk), disk \in Image
  PROVE /\ bySid' \in [Device -> Names] /\ byMid' \in [Mid -> Index]
        /\ apps' \in [Card -> Words] /\ notes' \in [Entry -> Words]
        /\ settings' \in [Setting -> Words]
        /\ disk.apps = apps' /\ disk.notes = notes' /\ disk.settings = settings'
        /\ \A m \in Mid : byMid'[m] # None => bySid'[byMid'[m]] = m
<1>1. /\ disk.devices \in [Device -> Names] /\ disk.apps \in [Card -> Words]
      /\ disk.notes \in [Entry -> Words] /\ disk.settings \in [Setting -> Words]
  BY DEF Image, Names, Words
<1>2. /\ bySid' = disk.devices /\ disk.apps = apps' /\ disk.notes = notes'
      /\ disk.settings = settings'
  BY DEF zcdLoadStore
<1>3. /\ byMid' \in [Mid -> Index]
      /\ \A m \in Mid : byMid'[m] # None => disk.devices[byMid'[m]] = m
  BY DEF zcdLoadStore, Index
<1> QED BY <1>1, <1>2, <1>3

\* Types.
LEMMA TypeStep == IInv /\ [Next]_vars => TypeOK'
<1> SUFFICES ASSUME IInv, [Next]_vars PROVE TypeOK'
  OBVIOUS
<1>t. TypeOK /\ OpInv
  BY DEF IInv
<1>a. bySid \in [Device -> Names]
  BY <1>t, Types
<1>b. byMid \in [Mid -> Index]
  BY <1>t, Types
<1>c. apps \in [Card -> Words]
  BY <1>t, Types
<1>d. notes \in [Entry -> Words]
  BY <1>t, Types
<1>e. settings \in [Setting -> Words]
  BY <1>t, Types
<1>f. dirty \in BOOLEAN
  BY <1>t, Types
<1>g. notify \in BOOLEAN
  BY <1>t, Types
<1>h. flusher \in {"waits", "sleeps"}
  BY <1>t, Types
<1>i. disk \in Image
  BY <1>t, Types
<1>j. failed \in BOOLEAN
  BY <1>t, Types
<1>k. req \in [Request -> ReqType]
  BY <1>t, Types
<1>l. kvs \in {"up", "drained", "flushed", "exited"}
  BY <1>t, Types
<1>m. late \in BOOLEAN
  BY <1>t, Types
<1>n. budget \in BudgetType
  BY <1>t, Types
<1>0. CASE UNCHANGED vars
  BY <1>0, <1>t DEF vars, memory, edits, flushing, process, TypeOK
<1>1. ASSUME NEW q \in Request, Begin(q) PROVE TypeOK'
  <2>1. req' \in [Request -> ReqType]
    BY <1>1, <1>t, Begins
  <2>2. budget' \in BudgetType
    <3>1. Spend("ask")
      BY <1>1 DEF Begin
    <3> QED BY <3>1, <1>n, SpendType
  <2>3. UNCHANGED <<bySid, byMid, apps, notes, settings, dirty, notify, flusher, disk, failed, kvs,
                    late>>
    BY <1>1 DEF Begin, memory, edits, flushing, process
  <2> QED BY <1>a, <1>b, <1>c, <1>d, <1>e, <1>f, <1>g, <1>h, <1>i, <1>j, <1>l, <1>m, <2>1, <2>2,
           <2>3, Retype
<1>2. ASSUME NEW q \in Request, Decides(q) PROVE TypeOK'
  <2>1. /\ req' \in [Request -> ReqType]
        /\ UNCHANGED <<memory, flushing, disk, failed, process, budget>>
    BY <1>2, <1>t, Decision
  <2>2. UNCHANGED <<bySid, byMid, apps, notes, settings, dirty, notify, flusher, disk, failed, kvs,
                    late, budget>>
    BY <2>1 DEF memory, edits, flushing, process
  <2> QED BY <1>t, <2>1, <2>2, Retype, Types
<1>3. ASSUME NEW q \in Request, SaveRecord(q) PROVE TypeOK'
  <2>1. apps' \in [Card -> Words]
    BY <1>3, <1>c DEF SaveRecord, appSave, Change, requestFlush, Words
  <2>2. dirty' \in BOOLEAN
    BY <1>3, <1>f DEF SaveRecord, appSave, Change, requestFlush
  <2>3. notify' \in BOOLEAN
    BY <1>3, <1>g DEF SaveRecord, appSave, Change, requestFlush
  <2>4. req' \in [Request -> ReqType]
    <3>1. Goto(q, "idle")
      BY <1>3 DEF SaveRecord
    <3>2. "idle" \in At
      BY DEF At
    <3> QED BY <3>1, <3>2, <1>k, Goes
  <2>5. UNCHANGED <<bySid, byMid, notes, settings, flusher, disk, failed, kvs, late, budget>>
    BY <1>3 DEF SaveRecord, appSave, Change, requestFlush, memory, edits, flushing, process
  <2> QED BY <1>a, <1>b, <1>d, <1>e, <1>h, <1>i, <1>j, <1>l, <1>m, <1>n, <2>1, <2>2, <2>3, <2>4,
           <2>5, Retype
<1>4. ASSUME NEW q \in Request, managerNoteSet(q) PROVE TypeOK'
  <2>1. notes' \in [Entry -> Words]
    BY <1>4, <1>d DEF managerNoteSet, noteSet, Change, NoChange, requestFlush, Words
  <2>2. dirty' \in BOOLEAN
    BY <1>4, <1>f DEF managerNoteSet, noteSet, Change, NoChange, requestFlush
  <2>3. notify' \in BOOLEAN
    BY <1>4, <1>g DEF managerNoteSet, noteSet, Change, NoChange, requestFlush
  <2>4. req' \in [Request -> ReqType]
    <3>1. Goto(q, "idle")
      BY <1>4 DEF managerNoteSet
    <3>2. "idle" \in At
      BY DEF At
    <3> QED BY <3>1, <3>2, <1>k, Goes
  <2>5. UNCHANGED <<bySid, byMid, apps, settings, flusher, disk, failed, kvs, late, budget>>
    BY <1>4 DEF managerNoteSet, noteSet, Change, NoChange, requestFlush, memory, edits, flushing,
       process
  <2> QED BY <1>a, <1>b, <1>c, <1>e, <1>h, <1>i, <1>j, <1>l, <1>m, <1>n, <2>1, <2>2, <2>3, <2>4,
           <2>5, Retype
<1>5. ASSUME NEW q \in Request, DropRecord(q) PROVE TypeOK'
  <2>1. apps' \in [Card -> Words]
    BY <1>5, <1>c DEF DropRecord, appDelete, Change, NoChange, requestFlush, Words
  <2>2. dirty' \in BOOLEAN
    BY <1>5, <1>f DEF DropRecord, appDelete, Change, NoChange, requestFlush
  <2>3. notify' \in BOOLEAN
    BY <1>5, <1>g DEF DropRecord, appDelete, Change, NoChange, requestFlush
  <2>4. req' \in [Request -> ReqType]
    <3>1. Goto(q, "unnote")
      BY <1>5 DEF DropRecord
    <3>2. "unnote" \in At
      BY DEF At
    <3> QED BY <3>1, <3>2, <1>k, Goes
  <2>5. UNCHANGED <<bySid, byMid, notes, settings, flusher, disk, failed, kvs, late, budget>>
    BY <1>5 DEF DropRecord, appDelete, Change, NoChange, requestFlush, memory, edits, flushing,
       process
  <2> QED BY <1>a, <1>b, <1>d, <1>e, <1>h, <1>i, <1>j, <1>l, <1>m, <1>n, <2>1, <2>2, <2>3, <2>4,
           <2>5, Retype
<1>6. ASSUME NEW q \in Request, DropNote(q) PROVE TypeOK'
  <2>1. notes' \in [Entry -> Words]
    BY <1>6, <1>d DEF DropNote, noteSet, Change, NoChange, requestFlush, Words
  <2>2. dirty' \in BOOLEAN
    BY <1>6, <1>f DEF DropNote, noteSet, Change, NoChange, requestFlush
  <2>3. notify' \in BOOLEAN
    BY <1>6, <1>g DEF DropNote, noteSet, Change, NoChange, requestFlush
  <2>4. req' \in [Request -> ReqType]
    <3>1. Goto(q, "forget") \/ Goto(q, "idle")
      BY <1>6 DEF DropNote
    <3>2. "forget" \in At /\ "idle" \in At
      BY DEF At
    <3> QED BY <3>1, <3>2, <1>k, Goes
  <2>5. UNCHANGED <<bySid, byMid, apps, settings, flusher, disk, failed, kvs, late, budget>>
    BY <1>6 DEF DropNote, noteSet, Change, NoChange, requestFlush, memory, edits, flushing, process
  <2> QED BY <1>a, <1>b, <1>c, <1>e, <1>h, <1>i, <1>j, <1>l, <1>m, <1>n, <2>1, <2>2, <2>3, <2>4,
           <2>5, Retype
<1>7. ASSUME NEW q \in Request, DropDevice(q) PROVE TypeOK'
  <2>1. bySid' \in [Device -> Names]
    BY <1>7, <1>a DEF DropDevice, remove, Names
  <2>2. byMid' \in [Mid -> Index]
    BY <1>7, <1>b DEF DropDevice, remove, Index
  <2>3. dirty' \in BOOLEAN
    BY <1>7, <1>f DEF DropDevice, remove
  <2>4. req' \in [Request -> ReqType]
    <3>1. Goto(q, "idle")
      BY <1>7 DEF DropDevice
    <3>2. "idle" \in At
      BY DEF At
    <3> QED BY <3>1, <3>2, <1>k, Goes
  <2>5. UNCHANGED <<apps, notes, settings, notify, flusher, disk, failed, kvs, late, budget>>
    BY <1>7 DEF DropDevice, remove, memory, edits, flushing, process
  <2> QED BY <1>c, <1>d, <1>e, <1>g, <1>h, <1>i, <1>j, <1>l, <1>m, <1>n, <2>1, <2>2, <2>3, <2>4,
           <2>5, Retype
<1>8. ASSUME NEW q \in Request, Lookup(q) PROVE TypeOK'
  <2>1. req' \in [Request -> ReqType]
    BY <1>8, <1>t, Looks
  <2>2. UNCHANGED <<bySid, byMid, apps, notes, settings, dirty, notify, flusher, disk, failed, kvs,
                    late, budget>>
    BY <1>8 DEF Lookup, memory, edits, flushing, process
  <2> QED BY <1>a, <1>b, <1>c, <1>d, <1>e, <1>f, <1>g, <1>h, <1>i, <1>j, <1>l, <1>m, <1>n, <2>1,
           <2>2, Retype
<1>9. ASSUME NEW q \in Request, Upsert(q) PROVE TypeOK'
  <2>1. bySid' \in [Device -> Names]
    BY <1>9, <1>a, <1>t DEF Upsert, upsert, Names, OpInv
  <2>2. byMid' \in [Mid -> Index]
    BY <1>9, <1>b, <1>t DEF Upsert, upsert, Index, OpInv
  <2>3. dirty' \in BOOLEAN
    BY <1>9, <1>f DEF Upsert, upsert
  <2>4. req' \in [Request -> ReqType]
    <3>1. Goto(q, "ack")
      BY <1>9 DEF Upsert
    <3>2. "ack" \in At
      BY DEF At
    <3> QED BY <3>1, <3>2, <1>k, Goes
  <2>5. UNCHANGED <<apps, notes, settings, notify, flusher, disk, failed, kvs, late, budget>>
    BY <1>9 DEF Upsert, upsert, memory, edits, flushing, process
  <2> QED BY <1>c, <1>d, <1>e, <1>g, <1>h, <1>i, <1>j, <1>l, <1>m, <1>n, <2>1, <2>2, <2>3, <2>4,
           <2>5, Retype
<1>10. ASSUME NEW q \in Request, Ack(q) PROVE TypeOK'
  <2>1. notify' \in BOOLEAN
    BY <1>10, <1>g DEF Ack, requestFlush
  <2>2. req' \in [Request -> ReqType]
    <3>1. Goto(q, "idle")
      BY <1>10 DEF Ack
    <3>2. "idle" \in At
      BY DEF At
    <3> QED BY <3>1, <3>2, <1>k, Goes
  <2>3. UNCHANGED <<bySid, byMid, apps, notes, settings, dirty, flusher, disk, failed, kvs, late,
                    budget>>
    BY <1>10 DEF Ack, requestFlush, memory, edits, flushing, process
  <2> QED BY <1>a, <1>b, <1>c, <1>d, <1>e, <1>f, <1>h, <1>i, <1>j, <1>l, <1>m, <1>n, <2>1, <2>2,
           <2>3, Retype
<1>11. ASSUME NEW k \in Setting, SaveSetting(k) PROVE TypeOK'
  <2>1. settings' \in [Setting -> Words]
    BY <1>11, <1>e DEF SaveSetting, settingSave, Change, requestFlush, Words
  <2>2. dirty' \in BOOLEAN
    BY <1>11, <1>f DEF SaveSetting, settingSave, Change, requestFlush
  <2>3. notify' \in BOOLEAN
    BY <1>11, <1>g DEF SaveSetting, settingSave, Change, requestFlush
  <2>4. budget' \in BudgetType
    <3>1. Spend("ask")
      BY <1>11 DEF SaveSetting
    <3> QED BY <3>1, <1>n, SpendType
  <2>5. UNCHANGED <<bySid, byMid, apps, notes, flusher, disk, failed, req, kvs, late>>
    BY <1>11 DEF SaveSetting, settingSave, Change, requestFlush, memory, edits, flushing, process
  <2> QED BY <1>a, <1>b, <1>c, <1>d, <1>h, <1>i, <1>j, <1>k, <1>l, <1>m, <2>1, <2>2, <2>3, <2>4,
           <2>5, Retype
<1>12. ASSUME NEW k \in Setting, DeleteSetting(k) PROVE TypeOK'
  <2>1. settings' \in [Setting -> Words]
    BY <1>12, <1>e DEF DeleteSetting, settingDelete, Change, requestFlush, Words
  <2>2. dirty' \in BOOLEAN
    BY <1>12, <1>f DEF DeleteSetting, settingDelete, Change, requestFlush
  <2>3. notify' \in BOOLEAN
    BY <1>12, <1>g DEF DeleteSetting, settingDelete, Change, requestFlush
  <2>4. budget' \in BudgetType
    <3>1. Spend("ask")
      BY <1>12 DEF DeleteSetting
    <3> QED BY <3>1, <1>n, SpendType
  <2>5. UNCHANGED <<bySid, byMid, apps, notes, flusher, disk, failed, req, kvs, late>>
    BY <1>12 DEF DeleteSetting, settingDelete, Change, requestFlush, memory, edits, flushing,
       process
  <2> QED BY <1>a, <1>b, <1>c, <1>d, <1>h, <1>i, <1>j, <1>k, <1>l, <1>m, <2>1, <2>2, <2>3, <2>4,
           <2>5, Retype
<1>13. ASSUME NEW s \in Device, touch(s) PROVE TypeOK'
  <2>1. dirty' \in BOOLEAN
    BY <1>13, <1>f DEF touch
  <2>2. notify' \in BOOLEAN
    BY <1>13, <1>g DEF touch
  <2>3. budget' \in BudgetType
    <3>1. Spend("ask")
      BY <1>13 DEF touch
    <3> QED BY <3>1, <1>n, SpendType
  <2>4. UNCHANGED <<bySid, byMid, apps, notes, settings, flusher, disk, failed, req, kvs, late>>
    BY <1>13 DEF touch, memory, edits, flushing, process
  <2> QED BY <1>a, <1>b, <1>c, <1>d, <1>e, <1>h, <1>i, <1>j, <1>k, <1>l, <1>m, <2>1, <2>2, <2>3,
           <2>4, Retype
<1>14. CASE Wake
  <2>1. notify' \in BOOLEAN
    BY <1>14, <1>g DEF Wake
  <2>2. flusher' \in {"waits", "sleeps"}
    BY <1>14, <1>h DEF Wake
  <2>3. UNCHANGED <<bySid, byMid, apps, notes, settings, dirty, disk, failed, req, kvs, late,
                    budget>>
    BY <1>14 DEF Wake, memory, edits, flushing, process
  <2> QED BY <1>a, <1>b, <1>c, <1>d, <1>e, <1>f, <1>i, <1>j, <1>k, <1>l, <1>m, <1>n, <2>1, <2>2,
           <2>3, Retype
<1>15. CASE Flush
  <2>1. flusher' \in {"waits", "sleeps"}
    BY <1>15, <1>h DEF Flush, flush, Clean, Written, NotWritten
  <2>2. disk' \in Image
    <3>1. disk' = disk \/ disk' = Snapshot
      BY <1>15 DEF Flush, flush, Clean, Written, NotWritten
    <3>2. Snapshot \in Image
      BY <1>a, <1>c, <1>d, <1>e DEF Snapshot, Image, Names, Words
    <3> QED BY <3>1, <3>2, <1>i
  <2>3. dirty' \in BOOLEAN
    BY <1>15, <1>f DEF Flush, flush, Clean, Written, NotWritten
  <2>4. failed' \in BOOLEAN
    BY <1>15, <1>j DEF Flush, flush, Clean, Written, NotWritten
  <2>5. budget' \in BudgetType
    <3>1. Spend("fault") \/ UNCHANGED budget
      BY <1>15 DEF Flush, flush, Clean, Written, NotWritten
    <3> QED BY <3>1, <1>n, SpendType
  <2>6. UNCHANGED <<bySid, byMid, apps, notes, settings, notify, req, kvs, late>>
    BY <1>15 DEF Flush, flush, Clean, Written, NotWritten, memory, edits, flushing, process
  <2> QED BY <1>a, <1>b, <1>c, <1>d, <1>e, <1>g, <1>k, <1>l, <1>m, <2>1, <2>2, <2>3, <2>4, <2>5,
           <2>6, Retype
<1>16. CASE Drained
  <2>1. kvs' \in {"up", "drained", "flushed", "exited"}
    BY <1>16, <1>l DEF Drained
  <2>2. late' \in BOOLEAN
    <3>1. late' = AtWork
      BY <1>16 DEF Drained
    <3> QED BY <3>1 DEF AtWork
  <2>3. UNCHANGED <<bySid, byMid, apps, notes, settings, dirty, notify, flusher, disk, failed, req,
                    budget>>
    BY <1>16 DEF Drained, memory, edits, flushing, process
  <2> QED BY <1>a, <1>b, <1>c, <1>d, <1>e, <1>f, <1>g, <1>h, <1>i, <1>j, <1>k, <1>n, <2>1, <2>2,
           <2>3, Retype
<1>17. CASE FlushNow
  <2>1. kvs' \in {"up", "drained", "flushed", "exited"}
    BY <1>17, <1>l DEF FlushNow, flush, Clean, Written, NotWritten
  <2>2. disk' \in Image
    <3>1. disk' = disk \/ disk' = Snapshot
      BY <1>17 DEF FlushNow, flush, Clean, Written, NotWritten
    <3>2. Snapshot \in Image
      BY <1>a, <1>c, <1>d, <1>e DEF Snapshot, Image, Names, Words
    <3> QED BY <3>1, <3>2, <1>i
  <2>3. dirty' \in BOOLEAN
    BY <1>17, <1>f DEF FlushNow, flush, Clean, Written, NotWritten
  <2>4. failed' \in BOOLEAN
    BY <1>17, <1>j DEF FlushNow, flush, Clean, Written, NotWritten
  <2>5. budget' \in BudgetType
    <3>1. Spend("fault") \/ UNCHANGED budget
      BY <1>17 DEF FlushNow, flush, Clean, Written, NotWritten
    <3> QED BY <3>1, <1>n, SpendType
  <2>6. UNCHANGED <<bySid, byMid, apps, notes, settings, notify, flusher, req, late>>
    BY <1>17 DEF FlushNow, flush, Clean, Written, NotWritten, memory, edits, flushing, process
  <2> QED BY <1>a, <1>b, <1>c, <1>d, <1>e, <1>g, <1>h, <1>k, <1>m, <2>1, <2>2, <2>3, <2>4, <2>5,
           <2>6, Retype
<1>18. CASE Exit
  <2>1. kvs' \in {"up", "drained", "flushed", "exited"}
    BY <1>18, <1>l DEF Exit
  <2>2. UNCHANGED <<bySid, byMid, apps, notes, settings, dirty, notify, flusher, disk, failed, req,
                    late, budget>>
    BY <1>18 DEF Exit, memory, edits, flushing, process
  <2> QED BY <1>a, <1>b, <1>c, <1>d, <1>e, <1>f, <1>g, <1>h, <1>i, <1>j, <1>k, <1>m, <1>n, <2>1,
           <2>2, Retype
<1>19. CASE Restart
  <2>1. zcdLoadStore(disk) /\ Spend("fault")
    BY <1>19 DEF Restart
  <2>2. budget' \in BudgetType
    BY <2>1, <1>n, SpendType
  <2>3. req' \in [Request -> ReqType]
    BY <1>19, IdleType DEF Restart
  <2>4. /\ dirty' = FALSE /\ notify' = FALSE /\ flusher' = "waits" /\ failed' = FALSE
        /\ kvs' = "up" /\ late' = FALSE /\ disk' = disk
    BY <1>19 DEF Restart
  <2>5. /\ bySid' \in [Device -> Names] /\ byMid' \in [Mid -> Index]
        /\ apps' \in [Card -> Words] /\ notes' \in [Entry -> Words]
        /\ settings' \in [Setting -> Words]
    BY <2>1, <1>i, Loads
  <2> QED BY <1>i, <2>2, <2>3, <2>4, <2>5, Retype
<1> QED
  BY <1>0, <1>1, <1>2, <1>3, <1>4, <1>5, <1>6, <1>7, <1>8, <1>9, <1>10, <1>11,
     <1>12, <1>13, <1>14, <1>15, <1>16, <1>17, <1>18, <1>19, Steps

\* The manager's changes: nothing happens, or the store gets dirty.
LEMMA NoteDirties ==
  ASSUME NEW id, NEW t \in Words, noteSet(id, t), notes \in [Entry -> Words]
  PROVE dirty' = TRUE \/ (notes' = notes /\ dirty' = dirty)
<1>1. CASE notes[id] = t
  <2>1. \A e \in Entry : [notes EXCEPT ![id] = t][e] = notes[e]
    BY <1>1
  <2>2. [notes EXCEPT ![id] = t] = notes
    BY <2>1
  <2> QED BY <1>1, <2>2 DEF noteSet, NoChange
<1>2. CASE notes[id] # t
  <2>1. Change
    BY <1>2 DEF noteSet
  <2> QED BY <2>1 DEF Change
<1> QED BY <1>1, <1>2

\* A deletion leaves the store dirty.
LEMMA DeleteDirties ==
  ASSUME NEW id \in Card, appDelete(id), apps \in [Card -> Words]
  PROVE dirty' = TRUE \/ (apps' = apps /\ dirty' = dirty)
<1>1. CASE apps[id] = None
  <2>1. \A c \in Card : [apps EXCEPT ![id] = None][c] = apps[c]
    BY <1>1
  <2>2. [apps EXCEPT ![id] = None] = apps
    BY <2>1
  <2> QED BY <1>1, <2>2 DEF appDelete, NoChange
<1>2. CASE apps[id] # None
  <2>1. Change
    BY <1>2 DEF appDelete
  <2> QED BY <2>1 DEF Change
<1> QED BY <1>1, <1>2

\* A request of the manager that changes the store stays one.
LEMMA Saves ==
  ASSUME NEW q \in Request, TypeOK, OpInv,
         SaveRecord(q) \/ managerNoteSet(q) \/ DropRecord(q) \/ DropNote(q) \/ DropDevice(q)
  PROVE /\ \A p \in Request : p # q => req'[p] = req[p]
        /\ req'[q].op # "register" /\ req'[q].at \notin RegAt
        /\ req'[q].at = "forget" => req'[q].id \in Device
        /\ req[q].op # "register" /\ req[q].at # "idle"
<1>1. req \in [Request -> ReqType]
  BY Types
<1>2. req[q].op = "register" <=> req[q].at \in RegAt
  BY DEF OpInv
<1>3. req[q].at \in {"save", "note", "drop", "unnote", "forget"}
  BY DEF SaveRecord, managerNoteSet, DropRecord, DropNote, DropDevice
<1>4. \/ Goto(q, "idle") \/ Goto(q, "unnote")
      \/ Goto(q, "forget") /\ req[q].id \in Device
  BY DEF SaveRecord, managerNoteSet, DropRecord, DropNote, DropDevice
<1>5. "idle" \in At /\ "unnote" \in At /\ "forget" \in At
  BY DEF At
<1>6. CASE Goto(q, "idle")
  BY <1>1, <1>2, <1>3, <1>5, <1>6, Goes DEF RegAt
<1>7. CASE Goto(q, "unnote")
  BY <1>1, <1>2, <1>3, <1>5, <1>7, Goes DEF RegAt
<1>8. CASE Goto(q, "forget") /\ req[q].id \in Device
  BY <1>1, <1>2, <1>3, <1>5, <1>8, Goes DEF RegAt
<1> QED BY <1>4, <1>6, <1>7, <1>8

\* A registration goes on or is over.
LEMMA Registers ==
  ASSUME NEW q \in Request, TypeOK, OpInv, Upsert(q) \/ Ack(q)
  PROVE /\ \A p \in Request : p # q => req'[p] = req[p]
        /\ req'[q].op = "register" <=> req'[q].at \in RegAt
        /\ req'[q].at \in {"ack", "idle"}
<1>1. req \in [Request -> ReqType] /\ "ack" \in At /\ "idle" \in At
  BY Types DEF At
<1>2. req[q].op = "register"
  BY DEF OpInv, RegAt, Upsert, Ack
<1>3. Goto(q, "ack") \/ Goto(q, "idle")
  BY DEF Upsert, Ack
<1> QED BY <1>1, <1>2, <1>3, Goes DEF RegAt

\* Where a request can be.
LEMMA OpStep == IInv /\ [Next]_vars => OpInv'
<1> SUFFICES ASSUME IInv, [Next]_vars PROVE OpInv'
  OBVIOUS
<1>t. TypeOK /\ OpInv
  BY DEF IInv
<1>0. CASE UNCHANGED vars
  BY <1>0, <1>t DEF vars, memory, edits, flushing, process, OpInv
<1>1. ASSUME NEW q \in Request, Begin(q) PROVE OpInv'
  BY <1>1, <1>t, Begins DEF OpInv, RegAt
<1>2. ASSUME NEW q \in Request, Decides(q) PROVE OpInv'
  BY <1>2, <1>t, Decision DEF OpInv, RegAt
<1>3. ASSUME NEW q \in Request, SaveRecord(q) PROVE OpInv'
  BY <1>3, <1>t, Saves DEF OpInv, RegAt
<1>4. ASSUME NEW q \in Request, managerNoteSet(q) PROVE OpInv'
  BY <1>4, <1>t, Saves DEF OpInv, RegAt
<1>5. ASSUME NEW q \in Request, DropRecord(q) PROVE OpInv'
  BY <1>5, <1>t, Saves DEF OpInv, RegAt
<1>6. ASSUME NEW q \in Request, DropNote(q) PROVE OpInv'
  BY <1>6, <1>t, Saves DEF OpInv, RegAt
<1>7. ASSUME NEW q \in Request, DropDevice(q) PROVE OpInv'
  BY <1>7, <1>t, Saves DEF OpInv, RegAt
<1>8. ASSUME NEW q \in Request, Lookup(q) PROVE OpInv'
  BY <1>8, <1>t, Looks DEF OpInv, RegAt
<1>9. ASSUME NEW q \in Request, Upsert(q) PROVE OpInv'
  BY <1>9, <1>t, Registers DEF OpInv, RegAt
<1>10. ASSUME NEW q \in Request, Ack(q) PROVE OpInv'
  BY <1>10, <1>t, Registers DEF OpInv, RegAt
<1>11. ASSUME NEW k \in Setting, SaveSetting(k) PROVE OpInv'
  BY <1>11, <1>t DEF SaveSetting, settingSave, Change, requestFlush, memory, edits, flushing,
     process, OpInv
<1>12. ASSUME NEW k \in Setting, DeleteSetting(k) PROVE OpInv'
  BY <1>12, <1>t DEF DeleteSetting, settingDelete, Change, requestFlush, memory, edits, flushing,
     process, OpInv
<1>13. ASSUME NEW s \in Device, touch(s) PROVE OpInv'
  BY <1>13, <1>t DEF touch, memory, edits, flushing, process, OpInv
<1>14. CASE Wake
  BY <1>14, <1>t DEF Wake, memory, edits, flushing, process, OpInv
<1>15. CASE Flush
  BY <1>15, <1>t DEF Flush, flush, Clean, Written, NotWritten, memory, edits, flushing, process,
     OpInv
<1>16. CASE Drained
  BY <1>16, <1>t DEF Drained, memory, edits, flushing, process, OpInv
<1>17. CASE FlushNow
  BY <1>17, <1>t DEF FlushNow, flush, Clean, Written, NotWritten, memory, edits, flushing, process,
     OpInv
<1>18. CASE Exit
  BY <1>18, <1>t DEF Exit, memory, edits, flushing, process, OpInv
<1>19. CASE Restart
  <2>1. \A q \in Request : req'[q] = Idle
    BY <1>19 DEF Restart
  <2> QED BY <2>1, IdleType DEF OpInv, RegAt
<1> QED
  BY <1>0, <1>1, <1>2, <1>3, <1>4, <1>5, <1>6, <1>7, <1>8, <1>9, <1>10, <1>11,
     <1>12, <1>13, <1>14, <1>15, <1>16, <1>17, <1>18, <1>19, Steps

\* Two registrations agree about the device they are about to write.
LEMMA UpsertStep == IInv /\ [Next]_vars => UpsertInv'
<1> SUFFICES ASSUME IInv, [Next]_vars PROVE UpsertInv'
  OBVIOUS
<1>t. TypeOK /\ OpInv
  BY DEF IInv
<1>u. UpsertInv /\ IndexAgrees
  BY DEF IInv
<1>i. bySid \in [Device -> Names] /\ byMid \in [Mid -> Index]
  BY <1>t, Types
<1>0. CASE UNCHANGED vars
  BY <1>0, <1>u DEF vars, memory, edits, flushing, process, UpsertInv
<1>1. ASSUME NEW q \in Request, Begin(q) PROVE UpsertInv'
  <2>1. UNCHANGED bySid
    BY <1>1 DEF Begin, memory
  <2> QED BY <1>1, <1>t, <1>u, <2>1, Begins DEF UpsertInv
<1>2. ASSUME NEW q \in Request, Decides(q) PROVE UpsertInv'
  <2>1. UNCHANGED bySid
    BY <1>2, <1>t, Decision DEF memory
  <2> QED BY <1>2, <1>t, <1>u, <2>1, Decision DEF UpsertInv, RegAt
<1>3. ASSUME NEW q \in Request, SaveRecord(q) PROVE UpsertInv'
  <2>1. UNCHANGED bySid
    BY <1>3 DEF SaveRecord
  <2> QED BY <1>3, <1>t, <1>u, <2>1, Saves DEF UpsertInv, RegAt
<1>4. ASSUME NEW q \in Request, managerNoteSet(q) PROVE UpsertInv'
  <2>1. UNCHANGED bySid
    BY <1>4 DEF managerNoteSet
  <2> QED BY <1>4, <1>t, <1>u, <2>1, Saves DEF UpsertInv, RegAt
<1>5. ASSUME NEW q \in Request, DropRecord(q) PROVE UpsertInv'
  <2>1. UNCHANGED bySid
    BY <1>5 DEF DropRecord
  <2> QED BY <1>5, <1>t, <1>u, <2>1, Saves DEF UpsertInv, RegAt
<1>6. ASSUME NEW q \in Request, DropNote(q) PROVE UpsertInv'
  <2>1. UNCHANGED bySid
    BY <1>6 DEF DropNote
  <2> QED BY <1>6, <1>t, <1>u, <2>1, Saves DEF UpsertInv, RegAt
<1>7. ASSUME NEW q \in Request, DropDevice(q) PROVE UpsertInv'
  <2>1. \A s \in Device : bySid'[s] \in {bySid[s], None}
    BY <1>7, <1>i DEF DropDevice, remove
  <2>2. \A p \in Request : req'[p].at = "upsert" => p # q /\ req'[p] = req[p]
    BY <1>7, <1>t, Saves DEF RegAt
  <2>3. \A p \in Request : req[p].at = "upsert" => req[p].id \in Device
    BY <1>t DEF OpInv
  <2> QED BY <1>u, <2>1, <2>2, <2>3 DEF UpsertInv
<1>8. ASSUME NEW q \in Request, Lookup(q) PROVE UpsertInv'
  <2>1. PICK id \in Device :
          /\ \A p \in Request : p # q => req'[p] = req[p]
          /\ req'[q].mid = req[q].mid /\ req'[q].id = id
          /\ \/ byMid[req[q].mid] = id
             \/ bySid[id] = None /\ \A p \in Request : req[p].id # id
          /\ req[q].mid \in Mid
    BY <1>8, <1>t, Looks
  <2>2. UNCHANGED bySid
    BY <1>8 DEF Lookup, memory
  <2>3. bySid[id] \in {None, req[q].mid}
    BY <1>u, <2>1, StoreAssumption DEF IndexAgrees
  <2>4. ASSUME NEW p \in Request, p # q, req[p].at = "upsert", req[p].id = id
        PROVE req[p].mid = req[q].mid
    <3>1. bySid[id] = req[q].mid
      BY <1>u, <2>1, <2>4, StoreAssumption DEF IndexAgrees
    <3>2. bySid[id] \in {None, req[p].mid}
      BY <1>u, <2>4 DEF UpsertInv
    <3> QED BY <2>1, <3>1, <3>2, StoreAssumption
  <2> QED BY <1>u, <2>1, <2>2, <2>3, <2>4 DEF UpsertInv
<1>9. ASSUME NEW q \in Request, Upsert(q) PROVE UpsertInv'
  <2>1. \A p \in Request : req'[p].at = "upsert" => p # q /\ req'[p] = req[p]
    BY <1>9, <1>t, Registers
  <2>2. req[q].at = "upsert" /\ bySid' = [bySid EXCEPT ![req[q].id] = req[q].mid]
    BY <1>9 DEF Upsert, upsert
  <2>3. \A p \in Request : req[p].at = "upsert" => req[p].id \in Device
    BY <1>t DEF OpInv
  <2>4. ASSUME NEW p \in Request, req'[p].at = "upsert"
        PROVE bySid'[req'[p].id] \in {None, req'[p].mid}
    <3>1. req'[p] = req[p] /\ req[p].id \in Device
      BY <2>1, <2>3, <2>4
    <3>2. CASE req[p].id = req[q].id
      <4>1. req[p].mid = req[q].mid
        BY <1>u, <2>1, <2>2, <2>4, <3>2 DEF UpsertInv
      <4> QED BY <1>i, <2>2, <3>1, <3>2, <4>1
    <3>3. CASE req[p].id # req[q].id
      BY <1>u, <1>i, <2>2, <2>4, <3>1, <3>3 DEF UpsertInv
    <3> QED BY <3>2, <3>3
  <2> QED BY <1>u, <2>1, <2>4 DEF UpsertInv
<1>10. ASSUME NEW q \in Request, Ack(q) PROVE UpsertInv'
  <2>1. UNCHANGED bySid
    BY <1>10 DEF Ack, memory
  <2> QED BY <1>10, <1>t, <1>u, <2>1, Registers DEF UpsertInv
<1>11. ASSUME NEW k \in Setting, SaveSetting(k) PROVE UpsertInv'
  BY <1>11, <1>u DEF SaveSetting, settingSave, Change, requestFlush, memory, edits, flushing,
     process, UpsertInv
<1>12. ASSUME NEW k \in Setting, DeleteSetting(k) PROVE UpsertInv'
  BY <1>12, <1>u DEF DeleteSetting, settingDelete, Change, requestFlush, memory, edits, flushing,
     process, UpsertInv
<1>13. ASSUME NEW s \in Device, touch(s) PROVE UpsertInv'
  BY <1>13, <1>u DEF touch, memory, edits, flushing, process, UpsertInv
<1>14. CASE Wake
  BY <1>14, <1>u DEF Wake, memory, edits, flushing, process, UpsertInv
<1>15. CASE Flush
  BY <1>15, <1>u DEF Flush, flush, Clean, Written, NotWritten, memory, edits, flushing, process,
     UpsertInv
<1>16. CASE Drained
  BY <1>16, <1>u DEF Drained, memory, edits, flushing, process, UpsertInv
<1>17. CASE FlushNow
  BY <1>17, <1>u DEF FlushNow, flush, Clean, Written, NotWritten, memory, edits, flushing, process,
     UpsertInv
<1>18. CASE Exit
  BY <1>18, <1>u DEF Exit, memory, edits, flushing, process, UpsertInv
<1>19. CASE Restart
  <2>1. \A q \in Request : req'[q] = Idle
    BY <1>19 DEF Restart
  <2> QED BY <2>1, IdleType DEF UpsertInv
<1> QED
  BY <1>0, <1>1, <1>2, <1>3, <1>4, <1>5, <1>6, <1>7, <1>8, <1>9, <1>10, <1>11,
     <1>12, <1>13, <1>14, <1>15, <1>16, <1>17, <1>18, <1>19, Steps

\* Shutdown has waited for every request, or gave up on one.
LEMMA QuietStep == IInv /\ [Next]_vars => QuietInv'
<1> SUFFICES ASSUME IInv, [Next]_vars PROVE QuietInv'
  OBVIOUS
<1>t. TypeOK /\ OpInv
  BY DEF IInv
<1>q. QuietInv
  BY DEF IInv
<1>0. CASE UNCHANGED vars
  BY <1>0, <1>q DEF vars, memory, edits, flushing, process, QuietInv, AtWork
<1>1. ASSUME NEW q \in Request, Begin(q) PROVE QuietInv'
  <2>1. UNCHANGED <<kvs, late>>
    BY <1>1 DEF Begin, process
  <2> QED BY <1>1, <1>t, <1>q, <2>1, Begins DEF QuietInv, AtWork
<1>2. ASSUME NEW q \in Request, Decides(q) PROVE QuietInv'
  <2>1. UNCHANGED <<kvs, late>> /\ AtWork
    BY <1>2, <1>t, Decision DEF process, AtWork
  <2> QED BY <1>q, <2>1 DEF QuietInv
<1>3. ASSUME NEW q \in Request, SaveRecord(q) PROVE QuietInv'
  <2>1. UNCHANGED <<kvs, late>> /\ AtWork
    BY <1>3, <1>t, Saves DEF SaveRecord, process, AtWork
  <2> QED BY <1>q, <2>1 DEF QuietInv
<1>4. ASSUME NEW q \in Request, managerNoteSet(q) PROVE QuietInv'
  <2>1. UNCHANGED <<kvs, late>> /\ AtWork
    BY <1>4, <1>t, Saves DEF managerNoteSet, process, AtWork
  <2> QED BY <1>q, <2>1 DEF QuietInv
<1>5. ASSUME NEW q \in Request, DropRecord(q) PROVE QuietInv'
  <2>1. UNCHANGED <<kvs, late>> /\ AtWork
    BY <1>5, <1>t, Saves DEF DropRecord, process, AtWork
  <2> QED BY <1>q, <2>1 DEF QuietInv
<1>6. ASSUME NEW q \in Request, DropNote(q) PROVE QuietInv'
  <2>1. UNCHANGED <<kvs, late>> /\ AtWork
    BY <1>6, <1>t, Saves DEF DropNote, process, AtWork
  <2> QED BY <1>q, <2>1 DEF QuietInv
<1>7. ASSUME NEW q \in Request, DropDevice(q) PROVE QuietInv'
  <2>1. UNCHANGED <<kvs, late>> /\ AtWork
    BY <1>7, <1>t, Saves DEF DropDevice, process, AtWork
  <2> QED BY <1>q, <2>1 DEF QuietInv
<1>8. ASSUME NEW q \in Request, Lookup(q) PROVE QuietInv'
  <2>1. UNCHANGED <<kvs, late>>
    BY <1>8 DEF Lookup, process
  <2>2. /\ \A p \in Request : p # q => req'[p] = req[p]
        /\ req'[q].op = "register"
    BY <1>8, <1>t, Looks
  <2> QED BY <1>q, <2>1, <2>2 DEF QuietInv, AtWork
<1>9. ASSUME NEW q \in Request, Upsert(q) PROVE QuietInv'
  <2>1. UNCHANGED <<kvs, late>>
    BY <1>9 DEF Upsert, process
  <2>2. \A p \in Request : p # q => req'[p] = req[p]
    BY <1>9, <1>t, Registers
  <2>3. req'[q].op = "register" \/ req'[q].at = "idle"
    BY <1>9, <1>t, Registers DEF RegAt
  <2> QED BY <1>q, <2>1, <2>2, <2>3 DEF QuietInv, AtWork
<1>10. ASSUME NEW q \in Request, Ack(q) PROVE QuietInv'
  <2>1. UNCHANGED <<kvs, late>>
    BY <1>10 DEF Ack, process
  <2>2. \A p \in Request : p # q => req'[p] = req[p]
    BY <1>10, <1>t, Registers
  <2>3. req'[q].op = "register" \/ req'[q].at = "idle"
    BY <1>10, <1>t, Registers DEF RegAt
  <2> QED BY <1>q, <2>1, <2>2, <2>3 DEF QuietInv, AtWork
<1>11. ASSUME NEW k \in Setting, SaveSetting(k) PROVE QuietInv'
  BY <1>11, <1>q DEF SaveSetting, settingSave, Change, requestFlush, memory, edits, flushing,
     process, QuietInv, AtWork
<1>12. ASSUME NEW k \in Setting, DeleteSetting(k) PROVE QuietInv'
  BY <1>12, <1>q DEF DeleteSetting, settingDelete, Change, requestFlush, memory, edits, flushing,
     process, QuietInv, AtWork
<1>13. ASSUME NEW s \in Device, touch(s) PROVE QuietInv'
  BY <1>13, <1>q DEF touch, memory, edits, flushing, process, QuietInv, AtWork
<1>14. CASE Wake
  BY <1>14, <1>q DEF Wake, memory, edits, flushing, process, QuietInv, AtWork
<1>15. CASE Flush
  BY <1>15, <1>q DEF Flush, flush, Clean, Written, NotWritten, memory, edits, flushing, process,
     QuietInv, AtWork
<1>16. CASE Drained
  <2>1. late' = AtWork /\ req' = req
    BY <1>16 DEF Drained
  <2> QED BY <2>1 DEF QuietInv, AtWork
<1>17. CASE FlushNow
  BY <1>17, <1>q DEF FlushNow, flush, Clean, Written, NotWritten, memory, edits, flushing, process,
     QuietInv, AtWork
<1>18. CASE Exit
  BY <1>18, <1>q DEF Exit, memory, edits, flushing, process, QuietInv, AtWork
<1>19. CASE Restart
  BY <1>19 DEF Restart, QuietInv
<1> QED
  BY <1>0, <1>1, <1>2, <1>3, <1>4, <1>5, <1>6, <1>7, <1>8, <1>9, <1>10, <1>11,
     <1>12, <1>13, <1>14, <1>15, <1>16, <1>17, <1>18, <1>19, Steps

\* The index agrees with the devices.
LEMMA IndexStep == IInv /\ [Next]_vars => IndexAgrees'
<1> SUFFICES ASSUME IInv, [Next]_vars PROVE IndexAgrees'
  OBVIOUS
<1>t. TypeOK /\ OpInv
  BY DEF IInv
<1>u. UpsertInv /\ IndexAgrees
  BY DEF IInv
<1>i. bySid \in [Device -> Names] /\ byMid \in [Mid -> Index]
  BY <1>t, Types
<1>0. CASE UNCHANGED vars
  BY <1>0, <1>u DEF vars, memory, edits, flushing, process, IndexAgrees
<1>1. ASSUME NEW q \in Request, Begin(q) PROVE IndexAgrees'
  BY <1>1, <1>u DEF Begin, memory, edits, flushing, process, IndexAgrees
<1>2. ASSUME NEW q \in Request, Decides(q) PROVE IndexAgrees'
  BY <1>2, <1>t, <1>u, Decision DEF memory, IndexAgrees
<1>3. ASSUME NEW q \in Request, SaveRecord(q) PROVE IndexAgrees'
  BY <1>3, <1>u DEF SaveRecord, appSave, Change, requestFlush, memory, edits, flushing, process,
     IndexAgrees
<1>4. ASSUME NEW q \in Request, managerNoteSet(q) PROVE IndexAgrees'
  BY <1>4, <1>u DEF managerNoteSet, noteSet, Change, NoChange, requestFlush, memory, edits,
     flushing, process, IndexAgrees
<1>5. ASSUME NEW q \in Request, DropRecord(q) PROVE IndexAgrees'
  BY <1>5, <1>u DEF DropRecord, appDelete, Change, NoChange, requestFlush, memory, edits, flushing,
     process, IndexAgrees
<1>6. ASSUME NEW q \in Request, DropNote(q) PROVE IndexAgrees'
  BY <1>6, <1>u DEF DropNote, noteSet, Change, NoChange, requestFlush, memory, edits, flushing,
     process, IndexAgrees
<1>7. ASSUME NEW q \in Request, DropDevice(q) PROVE IndexAgrees'
  <2>1. req[q].id \in Device
    BY <1>7, <1>t DEF DropDevice, OpInv
  <2>2. /\ bySid' = [bySid EXCEPT ![req[q].id] = None]
        /\ byMid' = [m \in Mid |-> IF bySid[req[q].id] = m /\ byMid[m] = req[q].id
                                     THEN None ELSE byMid[m]]
    BY <1>7 DEF DropDevice, remove
  <2>3. ASSUME NEW m \in Mid, byMid'[m] # None
        PROVE bySid'[byMid'[m]] = m
    <3>1. byMid'[m] = byMid[m] /\ bySid[byMid[m]] = m
      BY <1>u, <2>2, <2>3 DEF IndexAgrees
    <3>2. byMid[m] # req[q].id
      BY <2>2, <2>3, <3>1
    <3> QED BY <1>i, <2>2, <2>3, <3>1, <3>2 DEF Index
  <2> QED BY <2>3 DEF IndexAgrees
<1>8. ASSUME NEW q \in Request, Lookup(q) PROVE IndexAgrees'
  BY <1>8, <1>u DEF Lookup, memory, edits, flushing, process, IndexAgrees
<1>9. ASSUME NEW q \in Request, Upsert(q) PROVE IndexAgrees'
  <2>1. req[q].id \in Device /\ req[q].mid \in Mid /\ bySid[req[q].id] \in {None, req[q].mid}
    BY <1>9, <1>t, <1>u DEF Upsert, OpInv, UpsertInv
  <2>2. /\ bySid' = [bySid EXCEPT ![req[q].id] = req[q].mid]
        /\ byMid' = [byMid EXCEPT ![req[q].mid] = req[q].id]
    BY <1>9 DEF Upsert, upsert
  <2>3. ASSUME NEW m \in Mid, byMid'[m] # None
        PROVE bySid'[byMid'[m]] = m
    <3>1. CASE m = req[q].mid
      BY <1>i, <2>1, <2>2, <3>1
    <3>2. CASE m # req[q].mid
      <4>1. byMid'[m] = byMid[m] /\ bySid[byMid[m]] = m
        BY <1>u, <1>i, <2>2, <2>3, <3>2 DEF IndexAgrees
      <4>2. byMid[m] # req[q].id
        BY <2>1, <3>2, <4>1, StoreAssumption
      <4> QED BY <1>i, <2>2, <2>3, <4>1, <4>2 DEF Index
    <3> QED BY <3>1, <3>2
  <2> QED BY <2>3 DEF IndexAgrees
<1>10. ASSUME NEW q \in Request, Ack(q) PROVE IndexAgrees'
  BY <1>10, <1>u DEF Ack, requestFlush, memory, edits, flushing, process, IndexAgrees
<1>11. ASSUME NEW k \in Setting, SaveSetting(k) PROVE IndexAgrees'
  BY <1>11, <1>u DEF SaveSetting, settingSave, Change, requestFlush, memory, edits, flushing,
     process, IndexAgrees
<1>12. ASSUME NEW k \in Setting, DeleteSetting(k) PROVE IndexAgrees'
  BY <1>12, <1>u DEF DeleteSetting, settingDelete, Change, requestFlush, memory, edits, flushing,
     process, IndexAgrees
<1>13. ASSUME NEW s \in Device, touch(s) PROVE IndexAgrees'
  BY <1>13, <1>u DEF touch, memory, edits, flushing, process, IndexAgrees
<1>14. CASE Wake
  BY <1>14, <1>u DEF Wake, memory, edits, flushing, process, IndexAgrees
<1>15. CASE Flush
  BY <1>15, <1>u DEF Flush, flush, Clean, Written, NotWritten, memory, edits, flushing, process,
     IndexAgrees
<1>16. CASE Drained
  BY <1>16, <1>u DEF Drained, memory, edits, flushing, process, IndexAgrees
<1>17. CASE FlushNow
  BY <1>17, <1>u DEF FlushNow, flush, Clean, Written, NotWritten, memory, edits, flushing, process,
     IndexAgrees
<1>18. CASE Exit
  BY <1>18, <1>u DEF Exit, memory, edits, flushing, process, IndexAgrees
<1>19. CASE Restart
  <2>1. zcdLoadStore(disk) /\ disk \in Image
    BY <1>19, <1>t, Types DEF Restart
  <2> QED BY <2>1, Loads DEF IndexAgrees
<1> QED
  BY <1>0, <1>1, <1>2, <1>3, <1>4, <1>5, <1>6, <1>7, <1>8, <1>9, <1>10, <1>11,
     <1>12, <1>13, <1>14, <1>15, <1>16, <1>17, <1>18, <1>19, Steps

\* A store that is not dirty is in the file.
LEMMA CleanStep == IInv /\ [Next]_vars => CleanInv'
<1> SUFFICES ASSUME IInv, [Next]_vars PROVE CleanInv'
  OBVIOUS
<1>t. TypeOK /\ OpInv
  BY DEF IInv
<1>c. CleanInv
  BY DEF IInv
<1>d. /\ disk \in Image /\ apps \in [Card -> Words] /\ notes \in [Entry -> Words]
      /\ dirty \in BOOLEAN /\ req \in [Request -> ReqType]
  BY <1>t, Types
<1>0. CASE UNCHANGED vars
  BY <1>0, <1>c DEF vars, memory, edits, flushing, process, CleanInv, Kept
<1>1. ASSUME NEW q \in Request, Begin(q) PROVE CleanInv'
  BY <1>1, <1>c DEF Begin, memory, edits, flushing, process, CleanInv, Kept
<1>2. ASSUME NEW q \in Request, Decides(q) PROVE CleanInv'
  BY <1>2, <1>t, <1>c, Decision DEF memory, edits, flushing, CleanInv, Kept
<1>3. ASSUME NEW q \in Request, SaveRecord(q) PROVE CleanInv'
  <2>1. dirty' = TRUE
    BY <1>3 DEF SaveRecord, appSave, Change, requestFlush
  <2> QED BY <2>1 DEF CleanInv
<1>4. ASSUME NEW q \in Request, managerNoteSet(q) PROVE CleanInv'
  <2>1. PICK t \in Words : noteSet(req[q].id, t)
    BY <1>4 DEF managerNoteSet, Words
  <2>2. dirty' = TRUE \/ (notes' = notes /\ dirty' = dirty)
    BY <2>1, <1>d, NoteDirties
  <2>3. UNCHANGED <<apps, settings, disk>>
    BY <1>4 DEF managerNoteSet
  <2> QED BY <1>c, <2>2, <2>3 DEF CleanInv, Kept
<1>5. ASSUME NEW q \in Request, DropRecord(q) PROVE CleanInv'
  <2>1. appDelete(req[q].id) /\ req[q].id \in Card
    BY <1>5, <1>d DEF DropRecord, ReqType
  <2>2. dirty' = TRUE \/ (apps' = apps /\ dirty' = dirty)
    BY <2>1, <1>d, DeleteDirties
  <2>3. UNCHANGED <<notes, settings, disk>>
    BY <1>5 DEF DropRecord
  <2> QED BY <1>c, <2>2, <2>3 DEF CleanInv, Kept
<1>6. ASSUME NEW q \in Request, DropNote(q) PROVE CleanInv'
  <2>1. noteSet(req[q].id, None) /\ None \in Words
    BY <1>6 DEF DropNote, Words
  <2>2. dirty' = TRUE \/ (notes' = notes /\ dirty' = dirty)
    BY <2>1, <1>d, NoteDirties
  <2>3. UNCHANGED <<apps, settings, disk>>
    BY <1>6 DEF DropNote
  <2> QED BY <1>c, <2>2, <2>3 DEF CleanInv, Kept
<1>7. ASSUME NEW q \in Request, DropDevice(q) PROVE CleanInv'
  BY <1>7, <1>c DEF DropDevice, remove, memory, edits, flushing, process, CleanInv, Kept
<1>8. ASSUME NEW q \in Request, Lookup(q) PROVE CleanInv'
  BY <1>8, <1>c DEF Lookup, memory, edits, flushing, process, CleanInv, Kept
<1>9. ASSUME NEW q \in Request, Upsert(q) PROVE CleanInv'
  BY <1>9, <1>c DEF Upsert, upsert, memory, edits, flushing, process, CleanInv, Kept
<1>10. ASSUME NEW q \in Request, Ack(q) PROVE CleanInv'
  BY <1>10, <1>c DEF Ack, requestFlush, memory, edits, flushing, process, CleanInv, Kept
<1>11. ASSUME NEW k \in Setting, SaveSetting(k) PROVE CleanInv'
  <2>1. dirty' = TRUE
    BY <1>11 DEF SaveSetting, settingSave, Change, requestFlush
  <2> QED BY <2>1 DEF CleanInv
<1>12. ASSUME NEW k \in Setting, DeleteSetting(k) PROVE CleanInv'
  <2>1. dirty' = TRUE
    BY <1>12 DEF DeleteSetting, settingDelete, Change, requestFlush
  <2> QED BY <2>1 DEF CleanInv
<1>13. ASSUME NEW s \in Device, touch(s) PROVE CleanInv'
  BY <1>13, <1>c DEF touch, memory, edits, flushing, process, CleanInv, Kept
<1>14. CASE Wake
  BY <1>14, <1>c DEF Wake, memory, edits, flushing, process, CleanInv, Kept
<1>15. CASE Flush
  <2>1. UNCHANGED edits /\ flush
    BY <1>15 DEF Flush, memory
  <2>2. CASE Clean
    BY <1>c, <2>1, <2>2 DEF Clean, CleanInv, Kept, edits
  <2>3. CASE Written
    BY <2>1, <2>3 DEF Written, Snapshot, CleanInv, Kept, edits
  <2>4. CASE NotWritten
    BY <1>c, <2>1, <2>4 DEF NotWritten, CleanInv, Kept, edits
  <2> QED BY <2>1, <2>2, <2>3, <2>4 DEF flush
<1>16. CASE Drained
  BY <1>16, <1>c DEF Drained, memory, edits, flushing, process, CleanInv, Kept
<1>17. CASE FlushNow
  <2>1. UNCHANGED edits /\ flush
    BY <1>17 DEF FlushNow, memory
  <2>2. CASE Clean
    BY <1>c, <2>1, <2>2 DEF Clean, CleanInv, Kept, edits
  <2>3. CASE Written
    BY <2>1, <2>3 DEF Written, Snapshot, CleanInv, Kept, edits
  <2>4. CASE NotWritten
    BY <1>c, <2>1, <2>4 DEF NotWritten, CleanInv, Kept, edits
  <2> QED BY <2>1, <2>2, <2>3, <2>4 DEF flush
<1>18. CASE Exit
  BY <1>18, <1>c DEF Exit, memory, edits, flushing, process, CleanInv, Kept
<1>19. CASE Restart
  <2>1. zcdLoadStore(disk) /\ disk' = disk
    BY <1>19 DEF Restart
  <2> QED BY <2>1, <1>d, Loads DEF CleanInv, Kept
<1> QED
  BY <1>0, <1>1, <1>2, <1>3, <1>4, <1>5, <1>6, <1>7, <1>8, <1>9, <1>10, <1>11,
     <1>12, <1>13, <1>14, <1>15, <1>16, <1>17, <1>18, <1>19, Steps

\* What FlushNow wrote, or had nothing to write, stays so.
LEMMA FlushedStep == IInv /\ [Next]_vars => FlushedInv'
<1> SUFFICES ASSUME IInv, [Next]_vars PROVE FlushedInv'
  OBVIOUS
<1>t. TypeOK /\ OpInv
  BY DEF IInv
<1>f. FlushedInv /\ QuietInv /\ CleanInv
  BY DEF IInv
<1>0. CASE UNCHANGED vars
  BY <1>0, <1>f DEF vars, memory, edits, flushing, process, FlushedInv, Kept
<1>1. ASSUME NEW q \in Request, Begin(q) PROVE FlushedInv'
  BY <1>1, <1>f DEF Begin, memory, edits, flushing, process, FlushedInv, Kept
<1>2. ASSUME NEW q \in Request, Decides(q) PROVE FlushedInv'
  BY <1>2, <1>t, <1>f, Decision DEF memory, edits, flushing, process, FlushedInv, Kept
<1>3. ASSUME NEW q \in Request, SaveRecord(q) PROVE FlushedInv'
  <2>1. UNCHANGED <<kvs, late>> /\ AtWork
    BY <1>3, <1>t, Saves DEF SaveRecord, process, AtWork
  <2> QED BY <1>f, <2>1 DEF QuietInv, FlushedInv
<1>4. ASSUME NEW q \in Request, managerNoteSet(q) PROVE FlushedInv'
  <2>1. UNCHANGED <<kvs, late>> /\ AtWork
    BY <1>4, <1>t, Saves DEF managerNoteSet, process, AtWork
  <2> QED BY <1>f, <2>1 DEF QuietInv, FlushedInv
<1>5. ASSUME NEW q \in Request, DropRecord(q) PROVE FlushedInv'
  <2>1. UNCHANGED <<kvs, late>> /\ AtWork
    BY <1>5, <1>t, Saves DEF DropRecord, process, AtWork
  <2> QED BY <1>f, <2>1 DEF QuietInv, FlushedInv
<1>6. ASSUME NEW q \in Request, DropNote(q) PROVE FlushedInv'
  <2>1. UNCHANGED <<kvs, late>> /\ AtWork
    BY <1>6, <1>t, Saves DEF DropNote, process, AtWork
  <2> QED BY <1>f, <2>1 DEF QuietInv, FlushedInv
<1>7. ASSUME NEW q \in Request, DropDevice(q) PROVE FlushedInv'
  <2>1. UNCHANGED <<kvs, late>> /\ AtWork
    BY <1>7, <1>t, Saves DEF DropDevice, process, AtWork
  <2> QED BY <1>f, <2>1 DEF QuietInv, FlushedInv
<1>8. ASSUME NEW q \in Request, Lookup(q) PROVE FlushedInv'
  BY <1>8, <1>f DEF Lookup, memory, edits, flushing, process, FlushedInv, Kept
<1>9. ASSUME NEW q \in Request, Upsert(q) PROVE FlushedInv'
  BY <1>9, <1>f DEF Upsert, upsert, memory, edits, flushing, process, FlushedInv, Kept
<1>10. ASSUME NEW q \in Request, Ack(q) PROVE FlushedInv'
  BY <1>10, <1>f DEF Ack, requestFlush, memory, edits, flushing, process, FlushedInv, Kept
<1>11. ASSUME NEW k \in Setting, SaveSetting(k) PROVE FlushedInv'
  BY <1>11 DEF SaveSetting, process, FlushedInv
<1>12. ASSUME NEW k \in Setting, DeleteSetting(k) PROVE FlushedInv'
  BY <1>12 DEF DeleteSetting, process, FlushedInv
<1>13. ASSUME NEW s \in Device, touch(s) PROVE FlushedInv'
  BY <1>13, <1>f DEF touch, memory, edits, flushing, process, FlushedInv, Kept
<1>14. CASE Wake
  BY <1>14, <1>f DEF Wake, memory, edits, flushing, process, FlushedInv, Kept
<1>15. CASE Flush
  <2>1. UNCHANGED edits /\ flush
    BY <1>15 DEF Flush, memory
  <2>2. CASE Clean
    BY <1>f, <2>1, <2>2 DEF Clean, CleanInv, FlushedInv, Kept, edits
  <2>3. CASE Written
    BY <2>1, <2>3 DEF Written, Snapshot, FlushedInv, Kept, edits
  <2>4. CASE NotWritten
    BY <2>4 DEF NotWritten, FlushedInv
  <2> QED BY <2>1, <2>2, <2>3, <2>4 DEF flush
<1>16. CASE Drained
  BY <1>16 DEF Drained, FlushedInv
<1>17. CASE FlushNow
  <2>1. UNCHANGED edits /\ flush
    BY <1>17 DEF FlushNow, memory
  <2>2. CASE Clean
    BY <1>f, <2>1, <2>2 DEF Clean, CleanInv, FlushedInv, Kept, edits
  <2>3. CASE Written
    BY <2>1, <2>3 DEF Written, Snapshot, FlushedInv, Kept, edits
  <2>4. CASE NotWritten
    BY <2>4 DEF NotWritten, FlushedInv
  <2> QED BY <2>1, <2>2, <2>3, <2>4 DEF flush
<1>18. CASE Exit
  BY <1>18, <1>f DEF Exit, memory, edits, flushing, process, FlushedInv, Kept
<1>19. CASE Restart
  BY <1>19 DEF Restart, FlushedInv
<1> QED
  BY <1>0, <1>1, <1>2, <1>3, <1>4, <1>5, <1>6, <1>7, <1>8, <1>9, <1>10, <1>11,
     <1>12, <1>13, <1>14, <1>15, <1>16, <1>17, <1>18, <1>19, Steps

----------------------------------------------------------------------------

\* The invariant holds when kvs starts.
LEMMA InitIInv == Init => IInv
<1> SUFFICES ASSUME Init PROVE IInv
  OBVIOUS
<1>1. NoFile \in Image /\ \A s \in Device, m \in Mid : [NoFile EXCEPT !.devices[s] = m] \in Image
  BY DEF NoFile, Image
<1>2. disk \in Image
  BY <1>1 DEF Init
<1>3. /\ bySid = disk.devices /\ apps = disk.apps /\ notes = disk.notes
      /\ settings = disk.settings
  BY DEF Init
<1>4. /\ bySid \in [Device -> Names] /\ apps \in [Card -> Words]
      /\ notes \in [Entry -> Words] /\ settings \in [Setting -> Words]
  BY <1>2, <1>3 DEF Image, Names, Words
<1>5. /\ byMid \in [Mid -> Index]
      /\ \A m \in Mid : byMid[m] # None => bySid[byMid[m]] = m
  <2>1. byMid = [m \in Mid |-> IF \E s \in Device : bySid[s] = m
                               THEN CHOOSE s \in Device : bySid[s] = m ELSE None]
    BY DEF Init
  <2>2. ASSUME NEW m \in Mid
        PROVE byMid[m] \in Index /\ (byMid[m] # None => bySid[byMid[m]] = m)
    <3>1. CASE \E s \in Device : bySid[s] = m
      BY <2>1, <3>1 DEF Index
    <3>2. CASE ~ \E s \in Device : bySid[s] = m
      BY <2>1, <3>2 DEF Index
    <3> QED BY <3>1, <3>2
  <2> QED BY <2>1, <2>2
<1>6. req = [q \in Request |-> Idle] /\ kvs = "up"
  BY DEF Init
<1>7. TypeOK
  <2>1. budget \in BudgetType
    BY StoreAssumption DEF Init, BudgetType
  <2>2. req \in [Request -> ReqType]
    BY <1>6, IdleType
  <2>3. /\ dirty \in BOOLEAN /\ notify \in BOOLEAN /\ flusher \in {"waits", "sleeps"}
        /\ failed \in BOOLEAN /\ kvs \in {"up", "drained", "flushed", "exited"}
        /\ late \in BOOLEAN
    BY DEF Init
  <2> QED BY <1>2, <1>4, <1>5, <2>1, <2>2, <2>3, Types
<1>8. OpInv /\ UpsertInv
  BY <1>6, IdleType DEF OpInv, UpsertInv, RegAt
<1>9. IndexAgrees /\ CleanInv
  BY <1>3, <1>5 DEF IndexAgrees, CleanInv, Kept
<1>10. QuietInv /\ FlushedInv
  BY <1>6 DEF QuietInv, FlushedInv
<1> QED BY <1>7, <1>8, <1>9, <1>10 DEF IInv

\* The inductive invariant of the store.
THEOREM SpecIInv == Spec => []IInv
<1>1. IInv /\ [Next]_vars => IInv'
  BY TypeStep, OpStep, UpsertStep, QuietStep, IndexStep, CleanStep, FlushedStep DEF IInv
<1> QED BY InitIInv, <1>1, PTL DEF Spec

\* The store, the file and the requests are well typed (zcdStore, managerStore).
THEOREM TypeCorrect == Spec => []TypeOK
<1>1. IInv => TypeOK
  BY DEF IInv
<1> QED BY <1>1, SpecIInv, PTL

\* byMid never names a device of another mid, although a registration looks
\* the mid up and writes the device under two holds of the lock, between which
\* devices are removed and registered (onRegisterInit, upsert, remove).
THEOREM IndexIsRight == Spec => []IndexAgrees
<1>1. IInv => IndexAgrees
  BY DEF IInv
<1> QED BY <1>1, SpecIInv, PTL

\* When kvs has exited after a signal, every edit is in the file, unless
\* Shutdown gave up on a request or the last write failed (FlushNow).
THEOREM EditsKept == Spec => []ExitKeepsEdits
<1>1. IInv => ExitKeepsEdits
  BY DEF IInv, FlushedInv, ExitKeepsEdits
<1> QED BY <1>1, SpecIInv, PTL

=============================================================================
