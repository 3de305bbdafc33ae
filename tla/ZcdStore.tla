------------------------------ MODULE ZcdStore ------------------------------
(***************************************************************************)
(* The state file of relay and manager (tools/kvs/pkg/zcdrelay.go and      *)
(* manager.go): one store in memory, changed by the requests of the        *)
(* management page and by the connections of the relay, and written to     *)
(* zcodex.json by flushLoop at most once a second and by FlushNow when kvs *)
(* exits.                                                                  *)
(*                                                                         *)
(* A step is one hold of the store's lock; a request takes several.  The   *)
(* card of a relay device has the id "zcd-" and its device_sid: here the   *)
(* device itself.  What a record or a note says is a member of Text, where *)
(* nothing but its being saved matters.  disk is what zcdLoadStore would   *)
(* read: zcodex.json, or zcoded.json where the first does not exist.       *)
(***************************************************************************)
EXTENDS Naturals

CONSTANTS
  Device,   \* device_sid values
  Mid,      \* device_mid values
  App,      \* ids of custom and of built-in cards
  Setting,  \* the sections that are replaced as a whole, the quick links
  Text,     \* contents of a record, a note, a setting
  Request,  \* goroutines that serve a request or a frame
  None,
  Nameless, \* the id of a record made of nothing
  Budget    \* bound: requests, failed writes, restarts

ASSUME StoreAssumption ==
  /\ None \notin Device \cup Mid \cup Text
  /\ Nameless \notin Device \cup App
  /\ Budget \in [ask : Nat, fault : Nat]

VARIABLES
  bySid, byMid,          \* the devices and their index
  apps, notes, settings, \* what the manager edits
  dirty,
  notify,                \* the channel with room for one signal
  flusher,               \* flushLoop: waits for a signal, or sleeps a second
  disk,
  failed,                \* the last flush could not write
  req,                   \* requests: operation, control point, card, mid
  kvs,                   \* the process
  late,                  \* Shutdown gave up on a request
  budget

edits == <<apps, notes, settings>>
memory == <<bySid, byMid, edits>>
flushing == <<dirty, notify, flusher>>
process == <<kvs, late>>
vars == <<memory, flushing, disk, failed, req, process, budget>>

Entry == Device \cup App
Card == Entry \cup {Nameless}

Op == {"add", "edit", "tags", "visit", "note", "delete", "register"}
At == {"idle", "find", "exists", "get", "stub", "save", "note", "drop", "unnote", "forget",
       "lookup", "upsert", "ack"}
Idle == [op |-> "add", at |-> "idle", id |-> Nameless, mid |-> None]

Image == [devices : [Device -> Mid \cup {None}], apps : [Card -> Text \cup {None}],
          notes : [Entry -> Text \cup {None}], settings : [Setting -> Text \cup {None}]]

TypeOK ==
  /\ bySid \in [Device -> Mid \cup {None}]
  /\ byMid \in [Mid -> Device \cup {None}]
  /\ apps \in [Card -> Text \cup {None}]
  /\ notes \in [Entry -> Text \cup {None}]
  /\ settings \in [Setting -> Text \cup {None}]
  /\ dirty \in BOOLEAN /\ notify \in BOOLEAN
  /\ flusher \in {"waits", "sleeps"}
  /\ disk \in Image
  /\ failed \in BOOLEAN
  /\ req \in [Request -> [op : Op, at : At, id : Card, mid : Mid \cup {None}]]
  /\ kvs \in {"up", "drained", "flushed", "exited"}
  /\ late \in BOOLEAN
  /\ budget \in [ask : Nat, fault : Nat]

\* zcdLoadStore.  Records are written in the order of a map, so with two
\* devices of one mid either may be read last.
zcdLoadStore(image) ==
  /\ bySid' = image.devices
  /\ byMid' \in {f \in [Mid -> Device \cup {None}] :
                   \A m \in Mid :
                     IF f[m] = None THEN \A s \in Device : image.devices[s] # m
                                    ELSE image.devices[f[m]] = m}
  /\ apps' = image.apps /\ notes' = image.notes /\ settings' = image.settings

NoFile == [devices |-> [s \in Device |-> None], apps |-> [c \in Card |-> None],
           notes |-> [e \in Entry |-> None], settings |-> [k \in Setting |-> None]]

\* The file does not exist, or it knows one device.
Init ==
  /\ disk \in {NoFile} \cup
       {[NoFile EXCEPT !.devices[s] = m] : s \in Device, m \in Mid}
  /\ bySid = disk.devices
  /\ byMid = [m \in Mid |-> IF \E s \in Device : bySid[s] = m
                              THEN CHOOSE s \in Device : bySid[s] = m ELSE None]
  /\ apps = disk.apps /\ notes = disk.notes /\ settings = disk.settings
  /\ dirty = FALSE /\ notify = FALSE /\ flusher = "waits"
  /\ failed = FALSE
  /\ req = [q \in Request |-> Idle]
  /\ kvs = "up" /\ late = FALSE
  /\ budget = Budget

Spend(what) ==
  /\ budget[what] > 0
  /\ budget' = [budget EXCEPT ![what] = @ - 1]

----------------------------------------------------------------------------
(* The store's own operations.  A failing lookup changes nothing.          *)

requestFlush == notify' = TRUE
Change == dirty' = TRUE /\ requestFlush
NoChange == UNCHANGED <<dirty, notify>>

appSave(id) ==
  /\ \E t \in Text : apps' = [apps EXCEPT ![id] = t]
  /\ Change

appDelete(id) ==
  /\ apps' = [apps EXCEPT ![id] = None]
  /\ IF apps[id] = None THEN NoChange ELSE Change

\* Mutant of noteSet: a note is only marked dirty.
noteSetLazily(id, t) ==
  /\ notes' = [notes EXCEPT ![id] = t]
  /\ dirty' = (dirty \/ notes[id] # t)
  /\ UNCHANGED notify

noteSet(id, t) ==
  /\ notes' = [notes EXCEPT ![id] = t]
  /\ IF notes[id] = t THEN NoChange ELSE Change

upsert(s, m) ==
  /\ bySid' = [bySid EXCEPT ![s] = m]
  /\ byMid' = [byMid EXCEPT ![m] = s]
  /\ dirty' = TRUE
  /\ UNCHANGED notify

\* Mutant of remove: the index is left alone.
removeRecord(s) ==
  /\ bySid' = [bySid EXCEPT ![s] = None]
  /\ UNCHANGED byMid
  /\ dirty' = (dirty \/ bySid[s] # None)
  /\ UNCHANGED notify

\* A device and its index entry; nobody is asked to write that down.
remove(s) ==
  /\ bySid' = [bySid EXCEPT ![s] = None]
  /\ byMid' = [m \in Mid |-> IF bySid[s] = m /\ byMid[m] = s THEN None ELSE byMid[m]]
  /\ dirty' = (dirty \/ bySid[s] # None)
  /\ UNCHANGED notify

----------------------------------------------------------------------------
(* Requests.                                                               *)

Is(q, op, at) == req[q].op = op /\ req[q].at = at
Goto(q, at) == req' = [req EXCEPT ![q] = IF at = "idle" THEN Idle ELSE [@ EXCEPT !.at = at]]

Start == [add |-> "find", edit |-> "find", tags |-> "find", visit |-> "exists",
          note |-> "exists", delete |-> "find", register |-> "lookup"]
Subject(op) ==
  CASE op \in {"add", "edit"} -> [id : App, mid : {None}]
    [] op = "register" -> [id : {Nameless}, mid : Mid]
    [] OTHER -> [id : Entry, mid : {None}]

\* Listeners are open until kvs is drained; connections of the relay stay open.
Begin(q) ==
  /\ req[q].at = "idle"
  /\ \E op \in Op :
       /\ kvs = "up" \/ (op = "register" /\ kvs # "exited")
       /\ \E x \in Subject(op) :
            req' = [req EXCEPT ![q] = [op |-> op, at |-> Start[op], id |-> x.id, mid |-> x.mid]]
  /\ Spend("ask")
  /\ UNCHANGED <<memory, flushing, disk, failed, process>>

\* appFind, and where the handler goes on.
Find(q, op, found, missing) ==
  /\ Is(q, op, "find")
  /\ Goto(q, IF apps[req[q].id] # None THEN found ELSE missing)
  /\ UNCHANGED <<memory, flushing, disk, failed, process, budget>>

\* A new card, which picks an id until it is free, or another one for a card.
managerAddApp(q) ==
  \/ apps[req[q].id] = None /\ Find(q, "add", "idle", "save")
  \/ /\ Is(q, "add", "find")
     /\ apps[req[q].id] # None
     /\ \E id \in App \ {req[q].id} : req' = [req EXCEPT ![q].id = id]
     /\ UNCHANGED <<memory, flushing, disk, failed, process, budget>>
  \/ Find(q, "edit", "save", "idle")

\* A service has one card.
mgrAddBuiltIn(q) == Find(q, "add", "idle", "save")

managerSaveTags(q) == Find(q, "tags", "save", "stub")
managerVisit(q) == Find(q, "visit", "save", "stub")
managerDeleteApp(q) == Find(q, "delete", "drop", "stub")

\* mgrStubApp: a device has a card without a record.  managerVisit does not
\* ask whether there was one and saves what it got.
mgrStubApp(q) ==
  /\ req[q].at = "stub"
  /\ LET id == req[q].id
         known == id \in Device /\ bySid[id] # None
     IN CASE known -> Goto(q, IF req[q].op = "delete" THEN "drop" ELSE "save")
          [] ~known /\ req[q].op = "visit" ->
               req' = [req EXCEPT ![q].at = "save", ![q].id = Nameless]
          [] OTHER -> Goto(q, "idle")
  /\ UNCHANGED <<memory, flushing, disk, failed, process, budget>>

\* mgrEntryExists: a record, else a device.
mgrEntryExists(q) ==
  /\ req[q].at \in {"exists", "get"}
  /\ LET id == req[q].id
         there == IF req[q].at = "exists" THEN apps[id] # None ELSE bySid[id] # None
     IN Goto(q, IF there THEN (IF req[q].op = "visit" THEN "find" ELSE "note")
                ELSE IF req[q].at = "exists" /\ id \in Device THEN "get" ELSE "idle")
  /\ UNCHANGED <<memory, flushing, disk, failed, process, budget>>

\* managerAddApp, managerSaveTags, managerVisit save a record.
SaveRecord(q) ==
  /\ req[q].at = "save"
  /\ appSave(req[q].id)
  /\ Goto(q, "idle")
  /\ UNCHANGED <<bySid, byMid, notes, settings, flusher, disk, failed, process, budget>>

\* managerNoteSet; a blank note is removed.
managerNoteSet(q) ==
  /\ req[q].at = "note"
  /\ \E t \in Text \cup {None} : noteSet(req[q].id, t)
  /\ Goto(q, "idle")
  /\ UNCHANGED <<bySid, byMid, apps, settings, flusher, disk, failed, process, budget>>

\* managerDeleteApp: the record, then the note, then the device.
DropRecord(q) ==
  /\ req[q].at = "drop"
  /\ appDelete(req[q].id)
  /\ Goto(q, "unnote")
  /\ UNCHANGED <<bySid, byMid, notes, settings, flusher, disk, failed, process, budget>>

DropNote(q) ==
  /\ req[q].at = "unnote"
  /\ noteSet(req[q].id, None)
  /\ Goto(q, IF req[q].id \in Device THEN "forget" ELSE "idle")
  /\ UNCHANGED <<bySid, byMid, apps, settings, flusher, disk, failed, process, budget>>

DropDevice(q) ==
  /\ req[q].at = "forget"
  /\ remove(req[q].id)
  /\ Goto(q, "idle")
  /\ UNCHANGED <<edits, flusher, disk, failed, process, budget>>

\* orderSave, toolSave, saveVscOpenExt.
settingSave(k, t) == settings' = [settings EXCEPT ![k] = t] /\ Change
settingDelete(k) == settings' = [settings EXCEPT ![k] = None] /\ Change

\* managerSaveOrder, managerToolSave, managerSetVscOpenExt: one lock hold.
SaveSetting(k) ==
  /\ kvs = "up"
  /\ \E t \in Text : settingSave(k, t)
  /\ Spend("ask")
  /\ UNCHANGED <<bySid, byMid, apps, notes, flusher, disk, failed, req, process>>

\* managerToolDel.
DeleteSetting(k) ==
  /\ kvs = "up"
  /\ settings[k] # None
  /\ settingDelete(k)
  /\ Spend("ask")
  /\ UNCHANGED <<bySid, byMid, apps, notes, flusher, disk, failed, req, process>>

----------------------------------------------------------------------------
(* The relay.                                                              *)

\* onRegisterInit looks the mid up and keeps its sid, or mints one.
Lookup(q) ==
  /\ req[q].at = "lookup"
  /\ LET s == byMid[req[q].mid]
     IN \E id \in Device :
          /\ IF s # None THEN id = s
             ELSE /\ bySid[id] = None /\ disk.devices[id] = None
                  /\ \A p \in Request : req[p].id # id
          /\ req' = [req EXCEPT ![q].at = "upsert", ![q].id = id]
  /\ UNCHANGED <<memory, flushing, disk, failed, process, budget>>

Upsert(q) ==
  /\ req[q].at = "upsert"
  /\ upsert(req[q].id, req[q].mid)
  /\ Goto(q, "ack")
  /\ UNCHANGED <<edits, flusher, disk, failed, process, budget>>

Ack(q) ==
  /\ req[q].at = "ack"
  /\ requestFlush
  /\ Goto(q, "idle")
  /\ UNCHANGED <<memory, dirty, flusher, disk, failed, process, budget>>

\* onPairStatusQuery touches the device, onAuthResponse also asks for a flush.
touch(s) ==
  /\ kvs # "exited"
  /\ bySid[s] # None
  /\ dirty' = TRUE
  /\ notify' \in {notify, TRUE}
  /\ Spend("ask")
  /\ UNCHANGED <<memory, flusher, disk, failed, req, process>>

----------------------------------------------------------------------------
(* Writing the file.                                                       *)

Snapshot == [devices |-> bySid, apps |-> apps, notes |-> notes, settings |-> settings]

\* Mutant of NotWritten: dirty is reset before the write.
NotWrittenForgets == dirty /\ failed' = TRUE /\ dirty' = FALSE /\ Spend("fault") /\ UNCHANGED disk

\* The outcomes of flush: nothing to do, written, not written.
Clean == ~dirty /\ failed' = FALSE /\ UNCHANGED <<dirty, disk, budget>>
Written == dirty /\ disk' = Snapshot /\ dirty' = FALSE /\ failed' = FALSE /\ UNCHANGED budget
NotWritten == dirty /\ failed' = TRUE /\ Spend("fault") /\ UNCHANGED <<dirty, disk>>

flush == Clean \/ Written \/ NotWritten

Wake ==
  /\ kvs # "exited"
  /\ flusher = "waits" /\ notify
  /\ notify' = FALSE /\ flusher' = "sleeps"
  /\ UNCHANGED <<memory, dirty, disk, failed, req, process, budget>>

Flush ==
  /\ kvs # "exited"
  /\ flusher = "sleeps"
  /\ flush
  /\ flusher' = "waits"
  /\ UNCHANGED <<memory, notify, req, process>>

flushLoop == Wake \/ Flush

----------------------------------------------------------------------------
(* The process.                                                            *)

AtWork == \E q \in Request : req[q].at # "idle" /\ req[q].op # "register"

\* After the signal Shutdown waits for the requests, but not for ever.
Drained ==
  /\ kvs = "up" /\ kvs' = "drained"
  /\ late' = AtWork
  /\ UNCHANGED <<memory, flushing, disk, failed, req, budget>>

FlushNow ==
  /\ kvs = "drained" /\ kvs' = "flushed"
  /\ flush
  /\ UNCHANGED <<memory, notify, flusher, req, late>>

Exit ==
  /\ kvs = "flushed" /\ kvs' = "exited"
  /\ UNCHANGED <<memory, flushing, disk, failed, req, late, budget>>

\* kvs exits, or is killed at any point, and is started again.
Restart ==
  /\ zcdLoadStore(disk)
  /\ dirty' = FALSE /\ notify' = FALSE /\ flusher' = "waits" /\ failed' = FALSE
  /\ req' = [q \in Request |-> Idle]
  /\ kvs' = "up" /\ late' = FALSE
  /\ Spend("fault")
  /\ UNCHANGED disk

----------------------------------------------------------------------------
Handle(q) ==
  /\ kvs # "exited"
  /\ \/ managerAddApp(q) \/ mgrAddBuiltIn(q) \/ managerSaveTags(q)
     \/ managerVisit(q) \/ managerDeleteApp(q)
     \/ mgrStubApp(q) \/ mgrEntryExists(q)
     \/ SaveRecord(q) \/ managerNoteSet(q)
     \/ DropRecord(q) \/ DropNote(q) \/ DropDevice(q)
     \/ Lookup(q) \/ Upsert(q) \/ Ack(q)

Next ==
  \/ \E q \in Request : Begin(q) \/ Handle(q)
  \/ \E k \in Setting : SaveSetting(k) \/ DeleteSetting(k)
  \/ \E s \in Device : touch(s)
  \/ flushLoop
  \/ Drained \/ FlushNow \/ Exit \/ Restart

\* flushLoop is a goroutine of its own and sleeps a second.
Spec == Init /\ [][Next]_vars /\ WF_vars(flushLoop)

----------------------------------------------------------------------------
(* Properties.                                                             *)

Kept == disk.apps = apps /\ disk.notes = notes /\ disk.settings = settings

\* The index of the devices points at a device of that mid, whatever
\* registrations, removals and restarts meet.
IndexAgrees ==
  \A m \in Mid : byMid[m] # None => bySid[byMid[m]] = m

\* What the manager was told to keep is in the file when kvs exits after a
\* signal: unless Shutdown gave up on a request or the last write failed.
ExitKeepsEdits == kvs = "exited" /\ ~late /\ ~failed => Kept

\* An edit reaches the file although nobody edits again: unless the write
\* fails, when it waits for the next change, or kvs exits.
EditsReachDisk == []<>(Kept \/ failed \/ kvs = "exited")

\* zcdrelay.go says of the store "flush on change, at most once per second".
\* It does not hold of the devices: remove asks nobody to write.
ChangesReachDisk ==
  []<>((Kept /\ disk.devices = bySid) \/ failed \/ kvs = "exited")

\* manager.go says in managerVisit that the id "has passed mgrEntryExists".
\* By the time of the second lookup the card may be gone; what is saved then
\* is a record without an id.
CardsHaveNames == apps[Nameless] = None

\* manager.go says that a deletion takes the note along so that notes keep
\* no orphans.  A note that was being saved comes after it.
NotesHaveCards ==
  \A e \in Entry :
    notes[e] # None /\ (\A q \in Request : req[q].id # e) =>
      apps[e] # None \/ (e \in Device /\ bySid[e] # None)

=============================================================================
