------------------------- MODULE WatchStore_proofs -------------------------
(***************************************************************************)
(* Theorems of WatchStore, for every set of keys, threads, streams, ranges  *)
(* and transactions, every window and every bound.                          *)
(***************************************************************************)
EXTENDS WatchStore, KVStore_proofs

-----------------------------------------------------------------------------
(* Types. *)

ResponseType ==
  [id : WatchId, type : {"created", "put", "delete", "canceled"}, revision : Nat,
   key : Key \cup {NoEnd}, mod : Nat]

LoopType ==
  [at : {"read", "created", "history", "send", "insert", "cancel", "canceling", "ended"},
   id : WatchId \cup {0}, revision : Nat, entries : SUBSET [key : Key, mod : Nat]]

NoticeType ==
  [response : [id : {0}, type : {"created", "put", "delete", "canceled"}, revision : Nat,
               key : Key \cup {NoEnd}, mod : Nat],
   todo : SUBSET WatchId]

WatcherType == [stream : Stream, key : Key, end : RangeEnd, start : Nat]

WatchTypes ==
  /\ nextWatchId \in 1 .. MaxWatch + 1
  /\ watcher \in Seq(WatcherType) /\ Len(watcher) = nextWatchId - 1
  /\ watchLock \in Stream \cup {Unlocked, Notifier}
  /\ notice \in NoticeType
  /\ loop \in [Stream -> LoopType]
  /\ client \in [Stream -> {"open", "done", "gone"}]
  /\ sent \in [Stream -> Seq(ResponseType)]
  /\ unread \in [Stream -> 0 .. Window]

(* The ids of the watchers created are the first ones. *)
LEMMA Ids ==
  ASSUME WatchTypes
  PROVE  /\ DOMAIN watcher = 1 .. nextWatchId - 1 /\ DOMAIN watcher \subseteq WatchId
         /\ \A id \in DOMAIN watcher : watcher[id] \in WatcherType /\ id < nextWatchId
         /\ nextWatchId \in Nat /\ nextWatchId \notin DOMAIN watcher
  BY WMAssumption DEF WatchTypes, WatchId

(* A response that is written is the last of its stream, and the other streams
   get nothing. *)
Sends(s, r) ==
  /\ sent' = [sent EXCEPT ![s] = Append(@, r)]
  /\ Responses(s)' = Responses(s) \cup {r}
  /\ \A q \in Stream : q # s => Responses(q)' = Responses(q)

(* A write is dropped when the stream is broken. *)
LEMMA Written ==
  ASSUME WatchTypes, NEW s \in Stream, NEW r \in ResponseType, Write(s, r)
  PROVE  /\ UNCHANGED client
         /\ sent' \in [Stream -> Seq(ResponseType)] /\ unread' \in [Stream -> 0 .. Window]
         /\ \/ Broken(s) /\ UNCHANGED <<sent, unread>>
            \/ ~Broken(s) /\ Sends(s, r)
  <1>1. /\ sent \in [Stream -> Seq(ResponseType)] /\ unread \in [Stream -> 0 .. Window]
        /\ Window \in Nat /\ sent[s] \in Seq(ResponseType)
    BY WMAssumption DEF WatchTypes
  <1>2. CASE Broken(s)
    BY <1>1, <1>2 DEF Write, streamVars
  <1>3. CASE ~Broken(s)
    <2>1. /\ sent' = [sent EXCEPT ![s] = Append(@, r)]
          /\ unread' = [unread EXCEPT ![s] = @ + 1] /\ unread[s] < Window /\ UNCHANGED client
      BY <1>3 DEF Write, Writable
    <2>2. Append(sent[s], r) \in Seq(ResponseType)
      BY <1>1
    <2>3. \A i \in DOMAIN Append(sent[s], r) :
            \/ Append(sent[s], r)[i] = r
            \/ i \in DOMAIN sent[s] /\ Append(sent[s], r)[i] = sent[s][i]
      BY <1>1
    <2>4. /\ \A i \in DOMAIN sent[s] :
                 i \in DOMAIN Append(sent[s], r) /\ Append(sent[s], r)[i] = sent[s][i]
          /\ \E i \in DOMAIN Append(sent[s], r) : Append(sent[s], r)[i] = r
      <3>1. /\ DOMAIN sent[s] = 1 .. Len(sent[s]) /\ Len(sent[s]) \in Nat
            /\ DOMAIN Append(sent[s], r) = 1 .. Len(sent[s]) + 1
            /\ Append(sent[s], r)[Len(sent[s]) + 1] = r
        BY <1>1
      <3> QED
        BY <1>1, <3>1
    <2>5. sent'[s] = Append(sent[s], r) /\ \A q \in Stream : q # s => sent'[q] = sent[q]
      BY <1>1, <2>1
    <2>6. Responses(s)' = Responses(s) \cup {r}
      BY <2>3, <2>4, <2>5 DEF Responses
    <2>7. \A q \in Stream : q # s => Responses(q)' = Responses(q)
      BY <2>5 DEF Responses
    <2> QED
      BY <1>1, <1>3, <2>1, <2>2, <2>6, <2>7 DEF Sends
  <1> QED
    BY <1>2, <1>3

Creating == {"created", "history", "send", "insert"}

(* Who is at work on which watcher: a loop that creates one is alone with it,
   and the mutex keeps those in the map there for who holds it. *)
WorkApart ==
  /\ watchers \subseteq DOMAIN watcher
  /\ notice.todo \subseteq watchers
  /\ watchLock # Notifier => notice = NoNotice
  /\ \A s \in Stream :
       /\ watchLock = s <=> loop[s].at = "canceling"
       /\ loop[s].at = "canceling" => loop[s].id \in watchers
       /\ loop[s].at \in Creating =>
            loop[s].id \in DOMAIN watcher \ watchers /\ watcher[loop[s].id].stream = s

ControlInv == KVTypeOK /\ WatchTypes /\ WorkApart

(* The parts of the watch manager that only the loops change. *)
LEMMA CreatorsKnown ==
  ASSUME ControlInv, NEW s \in Stream, loop[s].at \in Creating
  PROVE  /\ loop[s].id \in DOMAIN watcher /\ loop[s].id \in WatchId /\ loop[s].id \notin watchers
         /\ watcher[loop[s].id] \in WatcherType /\ watcher[loop[s].id].stream = s
  BY Ids DEF ControlInv, WorkApart

(* A new watcher is the next in the list, and nobody had its id. *)
LEMMA Created ==
  ASSUME ControlInv, NEW s \in Stream, Create(s)
  PROVE  /\ loop[s].at = "read" /\ client[s] = "open"
         /\ nextWatchId \in WatchId /\ nextWatchId' = nextWatchId + 1
         /\ watcher' \in Seq(WatcherType) /\ Len(watcher') = nextWatchId
         /\ \A id \in DOMAIN watcher : id \in DOMAIN watcher' /\ watcher'[id] = watcher[id]
         /\ nextWatchId \in DOMAIN watcher' /\ watcher'[nextWatchId].stream = s
         /\ loop' = [loop EXCEPT ![s] = [at |-> "created", id |-> nextWatchId,
                                         revision |-> revision, entries |-> {}]]
         /\ UNCHANGED <<kvVars, watchers, watchLock, notice, streamVars, notified, joined>>
  <1>1. PICK r \in WatchRange, start \in StartRevision :
          CreateWatcher(s, r[1], r[2], start, revision)
    BY DEF Create
  <1> DEFINE new == [stream |-> s, key |-> r[1], end |-> r[2], start |-> start]
  <1>2. new \in WatcherType
    BY WSAssumption DEF WatcherType
  <1>3. /\ watcher' = Append(watcher, new) /\ nextWatchId' = nextWatchId + 1
        /\ nextWatchId \in WatchId /\ loop[s].at = "read" /\ client[s] = "open"
        /\ loop' = [loop EXCEPT ![s] = [at |-> "created", id |-> nextWatchId,
                                        revision |-> revision, entries |-> {}]]
        /\ UNCHANGED <<kvVars, watchers, watchLock, notice, streamVars, notified, joined>>
    BY <1>1 DEF Create, CreateWatcher, At
  <1>4. watcher \in Seq(WatcherType) /\ Len(watcher) = nextWatchId - 1 /\ nextWatchId \in Nat
    BY Ids DEF ControlInv, WatchTypes
  <1>5. /\ watcher' \in Seq(WatcherType) /\ Len(watcher') = Len(watcher) + 1
        /\ \A id \in 1 .. Len(watcher) : id \in 1 .. Len(watcher') /\ watcher'[id] = watcher[id]
        /\ Len(watcher) + 1 \in 1 .. Len(watcher') /\ watcher'[Len(watcher) + 1] = new
    BY <1>2, <1>3, <1>4
  <1>6. /\ DOMAIN watcher = 1 .. Len(watcher) /\ DOMAIN watcher' = 1 .. Len(watcher')
        /\ Len(watcher) + 1 = nextWatchId /\ new.stream = s
    BY <1>4, <1>5
  <1> HIDE DEF new
  <1> QED
    BY <1>3, <1>5, <1>6

(* The steps of the notifications. *)
LEMMA NotifyControl ==
  ASSUME ControlInv, (\E k \in Key : Callback(k)) \/ CallbackStep
  PROVE  WatchTypes' /\ WorkApart'
  <1> USE DEF ControlInv
  <1>1. Notifier \notin Stream /\ Unlocked \notin Stream /\ Unlocked # Notifier
    BY WMAssumption
  <1>2. UNCHANGED <<watchTable, loop>>
    BY DEF Callback, CallbackStep, Notify, NotifyOne, NotifyEnd
  <1>3. ASSUME NEW k \in Key, Callback(k)
        PROVE  WatchTypes' /\ WorkApart'
    <2>1. PICK type \in {"put", "delete"}, mod \in Nat : Notify(type, revision, k, mod)
      BY <1>3 DEF Callback, KVTypeOK, Entry
    <2>2. /\ watchLock = Unlocked /\ watchLock' = Notifier /\ UNCHANGED streamVars
          /\ notice' = [response |-> Response(0, type, revision, k, mod),
                        todo |-> {id \in watchers : KeyMatchesWatcher(k, id)}]
      BY <2>1 DEF Notify
    <2>3. notice' \in NoticeType /\ notice'.todo \subseteq watchers
      BY <2>2, Ids DEF NoticeType, Response, KVTypeOK, WorkApart
    <2> QED
      BY <1>1, <1>2, <2>2, <2>3 DEF WatchTypes, WorkApart, watchTable, streamVars
  <1>4. ASSUME NEW id \in WatchId, NotifyOne(id)
        PROVE  WatchTypes' /\ WorkApart'
    <2>1. /\ watchLock = Notifier /\ id \in notice.todo /\ id \in watchers
          /\ notice' = [notice EXCEPT !.todo = @ \ {id}] /\ UNCHANGED watchLock
      BY <1>4 DEF NotifyOne, WorkApart
    <2>2. notice' \in NoticeType /\ notice'.todo \subseteq watchers
      BY <2>1 DEF WatchTypes, NoticeType, WorkApart
    <2>3. watcher[id].stream \in Stream /\ [notice.response EXCEPT !.id = id] \in ResponseType
      BY <2>1, Ids DEF WatchTypes, NoticeType, ResponseType, WorkApart, WatcherType
    <2>4. /\ UNCHANGED client
          /\ sent' \in [Stream -> Seq(ResponseType)] /\ unread' \in [Stream -> 0 .. Window]
      BY <1>4, <2>3, Written DEF NotifyOne
    <2> QED
      BY <1>1, <1>2, <2>1, <2>2, <2>4 DEF WatchTypes, WorkApart, watchTable
  <1>5. CASE NotifyEnd
    <2>1. NoNotice \in NoticeType /\ NoNotice.todo = {}
      BY DEF NoNotice, NoticeType, Control, Response
    <2> QED
      BY <1>1, <1>2, <1>5, <2>1 DEF NotifyEnd, WatchTypes, WorkApart, watchTable, streamVars
  <1> QED
    BY <1>3, <1>4, <1>5 DEF CallbackStep

(* The steps of the loops and the clients. *)
LEMMA LoopControl ==
  ASSUME ControlInv, NEW s \in Stream,
         Create(s) \/ History(s) \/ Register(s) \/ CancelRequest(s) \/ LoopStep(s)
           \/ Cancel(s) \/ Client(s)
  PROVE  WatchTypes' /\ WorkApart'
  <1> USE DEF ControlInv
  <1>1. /\ Notifier \notin Stream /\ Unlocked \notin Stream /\ Unlocked # Notifier
        /\ loop \in [Stream -> LoopType] /\ loop[s] \in LoopType
    BY WMAssumption DEF WatchTypes
  <1>2. CASE Create(s)
    <2>1. nextWatchId' \in 1 .. MaxWatch + 1 /\ Len(watcher') = nextWatchId' - 1
      BY <1>2, Created, Ids, WMAssumption DEF WatchId
    <2> DEFINE new == [at |-> "created", id |-> nextWatchId, revision |-> revision, entries |-> {}]
    <2>6. new \in LoopType
      BY <1>2, Created DEF LoopType, KVTypeOK
    <2>7. loop' = [loop EXCEPT ![s] = new]
      BY <1>2, Created
    <2>2. loop' \in [Stream -> LoopType]
      BY <1>1, <2>6, <2>7
    <2>3. WatchTypes'
      BY <1>2, <2>1, <2>2, Created DEF WatchTypes, streamVars
    <2>4. /\ loop'[s].at = "created" /\ loop'[s].id = nextWatchId /\ loop[s].at = "read"
          /\ \A q \in Stream : q # s => loop'[q] = loop[q]
      BY <1>1, <1>2, Created
    <2>5. nextWatchId \notin watchers
      BY Ids DEF WorkApart
    <2> QED
      BY <1>2, <2>3, <2>4, <2>5, Created DEF WorkApart
  <1>3. ASSUME NEW new \in LoopType, loop' = [loop EXCEPT ![s] = new],
               new.at \notin Creating \/ (loop[s].at \in Creating /\ new.id = loop[s].id),
               new.at # "canceling", loop[s].at # "canceling",
               UNCHANGED <<watchTable, watchLock, notice, client>>,
               sent' \in [Stream -> Seq(ResponseType)], unread' \in [Stream -> 0 .. Window]
        PROVE  WatchTypes' /\ WorkApart'
    <2>1. /\ loop' \in [Stream -> LoopType] /\ loop'[s] = new
          /\ \A q \in Stream : q # s => loop'[q] = loop[q]
      BY <1>1, <1>3
    <2>2. WatchTypes'
      BY <1>3, <2>1 DEF WatchTypes, watchTable
    <2> QED
      BY <1>3, <2>1, <2>2 DEF WorkApart, watchTable
  <1>4. sent \in [Stream -> Seq(ResponseType)] /\ unread \in [Stream -> 0 .. Window]
    BY DEF WatchTypes
  <1>5. CASE History(s)
    <2> DEFINE new == [loop[s] EXCEPT !.at = "send", !.entries = Entries(loop[s].id)]
    <2>1. loop' = [loop EXCEPT ![s] = new] /\ loop[s].at = "history"
          /\ UNCHANGED <<watchTable, watchLock, notice, streamVars>>
      BY <1>5 DEF History, TakeHistory, At
    <2>2. Entries(loop[s].id) \in SUBSET [key : Key, mod : Nat]
      BY DEF Entries, KeysInRange, StoredKeys, KVTypeOK, Entry
    <2>3. new \in LoopType /\ new.at = "send" /\ new.id = loop[s].id
      BY <1>1, <2>2 DEF LoopType
    <2> HIDE DEF new
    <2> QED
      BY <1>3, <1>4, <2>1, <2>3 DEF Creating, streamVars
  <1>6. CASE Register(s)
    <2>1. /\ loop[s].at \in Creating /\ watchers' = watchers \cup {loop[s].id}
          /\ loop' = [loop EXCEPT ![s] = Reading] /\ watchLock = Unlocked
          /\ UNCHANGED <<watcher, nextWatchId, watchLock, notice, streamVars>>
      BY <1>6 DEF Register, Insert, At, Creating
    <2>2. Reading \in LoopType /\ Reading.at = "read"
      BY DEF Reading, LoopType
    <2>3. /\ loop' \in [Stream -> LoopType] /\ loop'[s].at = "read"
          /\ \A q \in Stream : q # s => loop'[q] = loop[q]
      BY <1>1, <2>1, <2>2
    <2>4. WatchTypes'
      BY <2>1, <2>3 DEF WatchTypes, streamVars
    <2>5. \A q \in Stream : q # s /\ loop[q].at \in Creating => loop[q].id # loop[s].id
      BY <2>1 DEF WorkApart
    <2> QED
      BY <1>1, <2>1, <2>3, <2>4, <2>5, CreatorsKnown DEF WorkApart, Creating
  <1>7. CASE CancelRequest(s)
    <2>1. PICK id \in WatchId : ReadCancel(s, id)
      BY <1>7 DEF CancelRequest
    <2> DEFINE new == [loop[s] EXCEPT !.at = "cancel", !.id = id]
    <2>2. loop' = [loop EXCEPT ![s] = new] /\ loop[s].at = "read"
          /\ UNCHANGED <<watchTable, watchLock, notice, streamVars>>
      BY <2>1 DEF ReadCancel, At
    <2>3. new \in LoopType /\ new.at = "cancel"
      BY <1>1 DEF LoopType
    <2> HIDE DEF new
    <2> QED
      BY <1>3, <1>4, <2>2, <2>3 DEF Creating, streamVars
  <1>8. CASE SendCreated(s)
    <2> DEFINE new == [loop[s] EXCEPT !.at = AfterCreated(s)]
    <2>1. loop' = [loop EXCEPT ![s] = new] /\ loop[s].at = "created"
          /\ Write(s, Control(loop[s].id, "created", loop[s].revision))
          /\ UNCHANGED <<watchTable, watchLock, notice>>
      BY <1>8 DEF SendCreated, At, Go
    <2>2. AfterCreated(s) \in {"ended", "history", "insert"}
      BY DEF AfterCreated
    <2>3. /\ new \in LoopType /\ new.id = loop[s].id /\ new.at # "canceling"
      BY <1>1, <2>2 DEF LoopType
    <2>4. Control(loop[s].id, "created", loop[s].revision) \in ResponseType
      BY <1>1, <2>1, CreatorsKnown DEF Control, Response, ResponseType, Creating, LoopType
    <2> HIDE DEF new
    <2> QED
      BY <1>3, <2>1, <2>3, <2>4, Written DEF Creating
  <1>9. CASE SendHistory(s)
    <2>1. PICK e \in loop[s].entries :
            /\ Write(s, Response(loop[s].id, "put", e.mod, e.key, e.mod))
            /\ loop' = [loop EXCEPT ![s].entries = @ \ {e}]
      BY <1>9 DEF SendHistory
    <2> DEFINE new == [loop[s] EXCEPT !.entries = @ \ {e}]
    <2>2. loop' = [loop EXCEPT ![s] = new] /\ loop[s].at = "send"
          /\ UNCHANGED <<watchTable, watchLock, notice>>
      BY <1>9, <2>1 DEF SendHistory, At
    <2>3. new \in LoopType /\ new.at = "send" /\ new.id = loop[s].id
      BY <1>1, <2>2 DEF LoopType
    <2>4. Response(loop[s].id, "put", e.mod, e.key, e.mod) \in ResponseType
      BY <1>1, <2>1, <2>2, CreatorsKnown DEF Response, ResponseType, Creating, LoopType
    <2> HIDE DEF new
    <2> QED
      BY <1>3, <2>1, <2>2, <2>3, <2>4, Written DEF Creating
  <1>10. CASE CancelSend(s)
    <2> DEFINE id == loop[s].id
    <2>1. /\ loop[s].at = "canceling" /\ id \in watchers /\ watchLock = s
          /\ Write(watcher[id].stream, Control(id, "canceled", 0))
          /\ watchers' = watchers \ {id} /\ watchLock' = Unlocked
          /\ loop' = [loop EXCEPT ![s] = Reading]
          /\ UNCHANGED <<watcher, nextWatchId, notice>>
      BY <1>10 DEF CancelSend, At, WorkApart
    <2>2. Control(id, "canceled", 0) \in ResponseType /\ watcher[id].stream \in Stream
      BY <2>1, Ids DEF Control, Response, ResponseType, WorkApart, WatcherType
    <2>3. /\ UNCHANGED client
          /\ sent' \in [Stream -> Seq(ResponseType)] /\ unread' \in [Stream -> 0 .. Window]
      BY <2>1, <2>2, Written
    <2>4. Reading \in LoopType /\ Reading.at = "read"
      BY DEF Reading, LoopType
    <2>5. /\ loop' \in [Stream -> LoopType] /\ loop'[s].at = "read"
          /\ \A q \in Stream : q # s => loop'[q] = loop[q]
      BY <1>1, <2>1, <2>4
    <2>6. WatchTypes'
      BY <2>1, <2>3, <2>5 DEF WatchTypes
    <2>7. notice = NoNotice /\ NoNotice.todo = {}
      BY <1>1, <2>1 DEF WorkApart, NoNotice
    <2> QED
      BY <1>1, <2>1, <2>5, <2>6, <2>7 DEF WorkApart, Creating
  <1>11. CASE ReadEnd(s)
    <2> DEFINE new == [loop[s] EXCEPT !.at = "ended"]
    <2>1. loop' = [loop EXCEPT ![s] = new] /\ loop[s].at = "read"
          /\ UNCHANGED <<watchTable, watchLock, notice, streamVars>>
      BY <1>11 DEF ReadEnd, At, Go
    <2>2. new \in LoopType /\ new.at = "ended"
      BY <1>1 DEF LoopType
    <2> HIDE DEF new
    <2> QED
      BY <1>3, <1>4, <2>1, <2>2 DEF Creating, streamVars
  <1>12. CASE Cancel(s)
    <2>1. /\ loop[s].at = "cancel" /\ watchLock = Unlocked
          /\ UNCHANGED <<watchTable, notice, streamVars>>
      BY <1>12 DEF Cancel, CancelLock, At
    <2>2. CASE loop[s].id \in watchers
      <3> DEFINE new == [loop[s] EXCEPT !.at = "canceling"]
      <3>1. loop' = [loop EXCEPT ![s] = new] /\ watchLock' = s
        BY <1>12, <2>2 DEF Cancel, CancelLock, Go
      <3>2. new \in LoopType /\ new.at = "canceling" /\ new.id = loop[s].id
        BY <1>1 DEF LoopType
      <3> HIDE DEF new
      <3>3. /\ loop' \in [Stream -> LoopType] /\ loop'[s] = new
            /\ \A q \in Stream : q # s => loop'[q] = loop[q]
        BY <1>1, <3>1, <3>2
      <3>4. WatchTypes'
        BY <2>1, <3>1, <3>3 DEF WatchTypes, watchTable, streamVars
      <3> QED
        BY <1>1, <2>1, <2>2, <3>1, <3>2, <3>3, <3>4 DEF WorkApart, watchTable, Creating
    <2>3. CASE loop[s].id \notin watchers
      <3>1. loop' = [loop EXCEPT ![s] = Reading] /\ UNCHANGED watchLock
        BY <1>12, <2>3 DEF Cancel, CancelLock
      <3>2. Reading \in LoopType /\ Reading.at = "read"
        BY DEF Reading, LoopType
      <3> QED
        BY <1>3, <1>4, <2>1, <3>1, <3>2 DEF Creating, streamVars
    <2> QED
      BY <2>2, <2>3
  <1>13. CASE Client(s)
    <2>1. UNCHANGED <<watchTable, watchLock, notice, loop, sent>>
      BY <1>13 DEF Client, ClientRead, ClientEnds
    <2>2. client' \in [Stream -> {"open", "done", "gone"}] /\ unread' \in [Stream -> 0 .. Window]
      <3>1. CASE ClientRead(s)
        BY <1>4, <3>1, WMAssumption DEF ClientRead, WatchTypes
      <3>2. CASE \E how \in ClientEnd : ClientEnds(s, how)
        BY <1>4, <3>2, WSAssumption DEF ClientEnds, WatchTypes
      <3> QED
        BY <1>13, <3>1, <3>2 DEF Client
    <2> QED
      BY <2>1, <2>2 DEF WatchTypes, WorkApart, watchTable
  <1> QED
    BY <1>2, <1>5, <1>6, <1>7, <1>8, <1>9, <1>10, <1>11, <1>12, <1>13 DEF LoopStep

-----------------------------------------------------------------------------
(* The store inside. *)

(* Taking the mutex, the steps of an operation and the release, as far as the
   watchers can tell. *)
LEMMA StoreSteps ==
  ASSUME KVTypeOK
  PROVE  /\ StoreCall => /\ mutex = Free /\ mutex' # Free /\ revision' = revision + 1
                         /\ UNCHANGED <<data, visible, wmVars, notified, joined>>
         /\ StoreStep => /\ call.todo # <<>> /\ call.told \subseteq call'.told
                         /\ UNCHANGED <<revision, mutex, visible, wmVars, notified, joined>>
         /\ Release => /\ mutex # Free /\ mutex' = Free /\ call.told \subseteq notified
                       /\ watchLock # Notifier /\ visible' = data /\ notified' = {}
                       /\ UNCHANGED <<data, revision, wmVars, joined>>
  <1>1. StoreCall => /\ mutex = Free /\ mutex' # Free /\ revision' = revision + 1
                     /\ UNCHANGED <<data, visible, wmVars, notified, joined>>
    BY CallLocks, KVAssumption DEF StoreCall, Locks, Lock
  <1>2. StoreStep => /\ call.todo # <<>> /\ call.told \subseteq call'.told
                     /\ UNCHANGED <<revision, mutex, visible, wmVars, notified, joined>>
    <2>1. /\ call \in [kind : {"idle", "put", "delete", "txn", "lease"}, todo : Seq(Request),
                       detached : BOOLEAN, told : SUBSET Key]
      BY DEF KVTypeOK, Call
    <2>2. (\E k \in Key : EraseKey(k)) => call.todo # <<>> /\ call.told \subseteq call'.told
      BY <2>1 DEF EraseKey, Busy
    <2>3. PutDetach \/ PutStore \/ EraseDone \/ TxnRange =>
            call.todo # <<>> /\ call.told \subseteq call'.told
      BY <2>1 DEF PutDetach, PutStore, EraseDone, TxnRange, Busy
    <2>4. StoreStep => UNCHANGED <<revision, mutex, visible, wmVars, notified, joined>>
      BY DEF StoreStep, PutDetach, PutStore, EraseKey, EraseDone, TxnRange
    <2> QED
      BY <2>2, <2>3, <2>4 DEF StoreStep
  <1>3. Release => /\ mutex # Free /\ mutex' = Free /\ call.told \subseteq notified
                   /\ watchLock # Notifier /\ visible' = data /\ notified' = {}
                   /\ UNCHANGED <<data, revision, wmVars, joined>>
    BY DEF Release, Unlock
  <1> QED
    BY <1>1, <1>2, <1>3

(* The other steps leave the store alone. *)
LEMMA WatchersOnly ==
  /\ \A k \in Key : Callback(k) => UNCHANGED <<kvVars, joined>>
  /\ CallbackStep => UNCHANGED <<kvVars, notified, joined>>
  /\ \A s \in Stream :
       /\ Register(s) => UNCHANGED <<kvVars, notified>>
       /\ Create(s) \/ History(s) \/ CancelRequest(s) \/ LoopStep(s) \/ Cancel(s) \/ Client(s)
            => UNCHANGED <<kvVars, notified, joined>>
  BY DEF Callback, CallbackStep, Register, Create, History, CancelRequest, LoopStep, Cancel,
         Client

(* A step of the composition is a step of the store or none. *)
LEMMA StoreMoves == [Next]_vars => [KVNext]_kvVars
  <1>1. StoreCall \/ StoreStep \/ Release => KVNext
    BY DEF StoreCall, StoreStep, Release, KVNext, KVProceed
  <1>2. UNCHANGED vars => UNCHANGED kvVars
    BY DEF vars
  <1> QED
    BY <1>1, <1>2, WatchersOnly DEF Next

(* The watchers change nothing in the store: every theorem of the store holds
   with them. *)
THEOREM WatchRunsStore == Spec => KVSpec
  <1>1. Init => KVInit
    BY DEF Init
  <1> QED
    BY <1>1, StoreMoves, PTL DEF Spec, KVSpec

-----------------------------------------------------------------------------
(* The control of the composition is inductive. *)

(* Callbacks run between a call's operations and its release. *)
CallbackOrder ==
  /\ joined \in [WatchId -> 0 .. revision]
  /\ notified \subseteq call.told
  /\ notified # {} => CallingBack
  /\ watchLock = Notifier => notice.response.key \in notified

StoreInv == FeedInv /\ WatchTypes /\ WorkApart /\ CallbackOrder

LEMMA ControlHolds == StoreInv => ControlInv
  BY DEF StoreInv, FeedInv, MapInv, RevisionInv, ControlInv

(* No key is notified, and no notification is under way, but during the
   callbacks. *)
LEMMA NoCallback ==
  ASSUME StoreInv, mutex = Free \/ call.todo # <<>>
  PROVE  notified = {} /\ watchLock # Notifier
  BY DEF StoreInv, CallbackOrder, CallingBack

LEMMA StoreInvInit == Init => StoreInv
  <1> SUFFICES ASSUME Init
               PROVE  StoreInv
    OBVIOUS
  <1> USE DEF Init
  <1>1. FeedInv /\ revision = 1
    BY FeedInit DEF KVInit
  <1>2. Reading \in LoopType /\ Reading.at = "read" /\ NoNotice \in NoticeType
    BY DEF Reading, LoopType, NoNotice, NoticeType, Control, Response
  <1>3. WatchTypes
    <2>1. watcher \in Seq(WatcherType) /\ Len(watcher) = 0 /\ <<>> \in Seq(ResponseType)
      BY DEF WMInit
    <2> QED
      BY <1>2, <2>1, WMAssumption DEF WMInit, WatchTypes
  <1>4. WorkApart
    BY <1>2, WMAssumption DEF WMInit, WorkApart, NoNotice, Creating
  <1>5. CallbackOrder
    BY <1>1, WMAssumption DEF WMInit, CallbackOrder
  <1> QED
    BY <1>1, <1>3, <1>4, <1>5 DEF StoreInv

LEMMA StoreInvStep == StoreInv /\ [Next]_vars => StoreInv'
  <1> SUFFICES ASSUME StoreInv, [Next]_vars
               PROVE  StoreInv'
    OBVIOUS
  <1>1. FeedInv'
    BY StoreMoves, FeedStep DEF StoreInv
  <1>2. ControlInv /\ KVTypeOK /\ revision \in Nat /\ CallbackOrder
    BY ControlHolds DEF ControlInv, KVTypeOK, StoreInv
  <1>3. CASE StoreCall
    <2>1. UNCHANGED wmVars /\ WatchTypes' /\ WorkApart'
      BY <1>2, <1>3, StoreSteps DEF WatchTypes, WorkApart, wmVars, ControlInv
    <2>2. notified' = {} /\ watchLock' # Notifier
      BY <1>2, <1>3, <2>1, StoreSteps, NoCallback DEF wmVars
    <2>3. joined' \in [WatchId -> 0 .. revision']
      BY <1>2, <1>3, StoreSteps DEF CallbackOrder
    <2> QED
      BY <1>1, <2>1, <2>2, <2>3 DEF StoreInv, CallbackOrder
  <1>4. CASE StoreStep
    <2>1. UNCHANGED <<wmVars, joined, revision>> /\ WatchTypes' /\ WorkApart'
      BY <1>2, <1>4, StoreSteps DEF WatchTypes, WorkApart, wmVars, ControlInv
    <2>2. notified' = {} /\ watchLock' # Notifier
      BY <1>2, <1>4, <2>1, StoreSteps, NoCallback DEF wmVars
    <2> QED
      BY <1>1, <1>2, <2>1, <2>2 DEF StoreInv, CallbackOrder
  <1>5. CASE Release
    <2>1. UNCHANGED <<wmVars, joined, revision>> /\ WatchTypes' /\ WorkApart'
      BY <1>2, <1>5, StoreSteps DEF WatchTypes, WorkApart, wmVars, ControlInv
    <2>2. notified' = {} /\ watchLock' # Notifier
      BY <1>2, <1>5, <2>1, StoreSteps DEF wmVars
    <2> QED
      BY <1>1, <1>2, <2>1, <2>2 DEF StoreInv, CallbackOrder
  <1>6. ASSUME NEW k \in Key, Callback(k)
        PROVE  StoreInv'
    <2>1. WatchTypes' /\ WorkApart' /\ UNCHANGED <<kvVars, joined>>
      BY <1>2, <1>6, NotifyControl, WatchersOnly
    <2>2. /\ notified' = notified \cup {k} /\ k \in call.told /\ CallingBack
          /\ notice'.response.key = k
      BY <1>6 DEF Callback, Notify, Response
    <2> QED
      BY <1>1, <1>2, <2>1, <2>2 DEF StoreInv, CallbackOrder, CallingBack, kvVars
  <1>7. CASE CallbackStep
    <2>1. WatchTypes' /\ WorkApart' /\ UNCHANGED <<kvVars, notified, joined>>
      BY <1>2, <1>7, NotifyControl, WatchersOnly
    <2>2. watchLock' = Notifier => watchLock = Notifier /\ notice'.response = notice.response
      BY <1>2, <1>7, WMAssumption
         DEF CallbackStep, NotifyOne, NotifyEnd, ControlInv, WatchTypes, NoticeType
    <2> QED
      BY <1>1, <1>2, <2>1, <2>2 DEF StoreInv, CallbackOrder, CallingBack, kvVars
  <1>8. ASSUME NEW s \in Stream,
               Create(s) \/ History(s) \/ Register(s) \/ CancelRequest(s) \/ LoopStep(s)
                 \/ Cancel(s) \/ Client(s)
        PROVE  StoreInv'
    <2>1. WatchTypes' /\ WorkApart' /\ UNCHANGED <<kvVars, notified>>
      BY <1>2, <1>8, LoopControl, WatchersOnly
    <2>2. watchLock' = Notifier => watchLock = Notifier /\ notice' = notice
      BY <1>8, WMAssumption
         DEF Create, CreateWatcher, History, TakeHistory, Register, Insert, CancelRequest,
             ReadCancel, LoopStep, SendCreated, SendHistory, CancelSend, ReadEnd, Cancel,
             CancelLock, Client, ClientRead, ClientEnds
    <2>3. joined' \in [WatchId -> 0 .. revision]
      BY <1>2, <1>8, WatchersOnly DEF CallbackOrder, Register
    <2> QED
      BY <1>1, <1>2, <2>1, <2>2, <2>3 DEF StoreInv, CallbackOrder, CallingBack, kvVars
  <1>9. CASE UNCHANGED vars
    BY <1>1, <1>9
       DEF StoreInv, WatchTypes, WorkApart, CallbackOrder, CallingBack, vars, wmVars, kvVars
  <1> QED
    BY <1>3, <1>4, <1>5, <1>6, <1>7, <1>8, <1>9 DEF Next
-----------------------------------------------------------------------------
(* What watchers get is in order. *)

(* Each stream gets the responses of its own watchers. *)
SentKnown ==
  \A s \in Stream : \A r \in Responses(s) :
    r.id \in DOMAIN watcher /\ watcher[r.id].stream = s

(* What the watcher got that a loop is creating: nothing, then the created
   response, then the history up to the entries left, which are older than a
   change under way. *)
LoopFeeds ==
  \A s \in Stream :
    /\ loop[s].at = "created" => \A r \in Responses(s) : r.id # loop[s].id
    /\ loop[s].at \in {"history", "send", "insert"} =>
         /\ \E r \in Responses(s) : r.id = loop[s].id
         /\ \A r \in Responses(s) : r.id = loop[s].id => r.type # "canceled"
    /\ loop[s].at = "history" => \A r \in Responses(s) : r.id = loop[s].id => ~IsEvent(r)
    /\ loop[s].at = "send" => \A e \in loop[s].entries :
         /\ e.mod <= revision /\ (mutex # Free => e.mod < revision)
         /\ \A other \in loop[s].entries : other.key = e.key => other = e
         /\ \A r \in Responses(s) : r.id = loop[s].id /\ IsEvent(r) => r.key # e.key

(* A watcher in the map was created and not canceled. *)
WatchersFed ==
  \A s \in Stream, id \in watchers : watcher[id].stream = s =>
    /\ \E r \in Responses(s) : r.id = id
    /\ \A r \in Responses(s) : r.id = id => r.type # "canceled"

(* No event is ahead of the store, and only notified keys have one of the
   change under way. *)
EventsPast ==
  \A s \in Stream : \A r \in Responses(s) : IsEvent(r) =>
    /\ r.revision <= revision
    /\ mutex # Free /\ r.revision = revision => r.key \in notified

(* The watchers a notification has yet to write to have not got it. *)
NoticeNew ==
  watchLock = Notifier =>
    /\ IsEvent(notice.response) /\ notice.response.revision = revision
    /\ \A s \in Stream : \A r \in Responses(s) :
         r.id \in notice.todo /\ IsEvent(r) /\ r.key = notice.response.key
           => r.revision < revision

OrderParts == SentKnown /\ LoopFeeds /\ WatchersFed /\ EventsPast /\ NoticeNew

OrderInv == StoreInv /\ OrderParts /\ FeedInOrder

(* Responses have their type, streams that get nothing keep what they have. *)
LEMMA ResponsesTyped ==
  ASSUME WatchTypes, NEW s \in Stream, NEW r \in Responses(s)
  PROVE  r \in ResponseType
  BY DEF WatchTypes, Responses

LEMMA ResponsesKept ==
  ASSUME UNCHANGED sent
  PROVE  \A s \in Stream : Responses(s)' = Responses(s)
  BY DEF Responses

LEMMA OrderKept ==
  ASSUME FeedInOrder, UNCHANGED sent
  PROVE  FeedInOrder'
  BY DEF FeedInOrder

(* The order survives a response that may follow. *)
LEMMA OrderFollows ==
  ASSUME WatchTypes, FeedInOrder, NEW s \in Stream, NEW r \in ResponseType,
         Write(s, r), Broken(s) \/ Follows(r, Responses(s))
  PROVE  FeedInOrder'
  <1>1. sent \in [Stream -> Seq(ResponseType)] /\ sent[s] \in Seq(ResponseType)
    BY DEF WatchTypes
  <1>2. CASE Broken(s)
    BY <1>2, OrderKept DEF Write, streamVars
  <1>3. CASE ~Broken(s)
    <2>1. sent' = [sent EXCEPT ![s] = Append(@, r)] /\ Follows(r, Responses(s))
      BY <1>3 DEF Write
    <2> DEFINE n == Len(sent[s]) + 1
    <2>2. /\ n \in Nat \ {0} /\ DOMAIN sent[s] = 1 .. n - 1 /\ DOMAIN sent'[s] = 1 .. n
          /\ sent'[s][n] = r /\ \A i \in 1 .. n - 1 : sent'[s][i] = sent[s][i]
      BY <1>1, <2>1
    <2> HIDE DEF n
    <2>3. \A q \in Stream : q # s => sent'[q] = sent[q]
      BY <1>1, <2>1
    <2>4. SUFFICES ASSUME NEW q \in Stream, NEW j \in DOMAIN sent'[q]
                   PROVE  Follows(sent'[q][j], {sent'[q][i] : i \in 1 .. j - 1})
      BY DEF FeedInOrder
    <2>5. CASE q # s
      BY <2>3, <2>5 DEF FeedInOrder
    <2>6. CASE q = s /\ j # n
      <3>1. j \in DOMAIN sent[s] /\ \A i \in 1 .. j - 1 : i \in 1 .. n - 1
        BY <2>2, <2>6
      <3>2. sent'[s][j] = sent[s][j] /\ \A i \in 1 .. j - 1 : sent'[s][i] = sent[s][i]
        BY <2>2, <3>1
      <3>3. {sent'[s][i] : i \in 1 .. j - 1} = {sent[s][i] : i \in 1 .. j - 1}
        BY <3>2
      <3> QED
        BY <2>6, <3>1, <3>2, <3>3 DEF FeedInOrder
    <2>7. CASE q = s /\ j = n
      <3>1. {sent'[s][i] : i \in 1 .. n - 1} = Responses(s)
        BY <2>2 DEF Responses
      <3> QED
        BY <2>1, <2>2, <2>7, <3>1
    <2> QED
      BY <2>5, <2>6, <2>7
  <1> QED
    BY <1>2, <1>3
(* A response to a watcher is written to its stream. *)
LEMMA KnownFollows ==
  ASSUME WatchTypes, SentKnown, NEW s \in Stream, NEW r \in ResponseType, Write(s, r),
         r.id \in DOMAIN watcher, watcher[r.id].stream = s, UNCHANGED watcher
  PROVE  SentKnown'
  <1>1. CASE UNCHANGED sent
    BY <1>1, ResponsesKept DEF SentKnown
  <1>2. CASE Sends(s, r)
    BY <1>2 DEF Sends, SentKnown
  <1> QED
    BY <1>1, <1>2, Written

(* The steps of the store. *)
LEMMA OrderStore ==
  ASSUME OrderInv, StoreCall \/ StoreStep \/ Release
  PROVE  OrderParts' /\ FeedInOrder'
  <1>1. OrderParts /\ FeedInOrder /\ KVTypeOK /\ WatchTypes /\ revision \in Nat
    BY ControlHolds DEF OrderInv, ControlInv, KVTypeOK
  <1>2. UNCHANGED <<watchers, watcher, loop, notice, sent, watchLock>> /\ watchLock # Notifier
    BY <1>1, StoreSteps, NoCallback DEF wmVars, OrderInv
  <1>3. \A s \in Stream : Responses(s)' = Responses(s)
    BY <1>2, ResponsesKept
  <1>4. /\ revision' \in Nat /\ revision <= revision'
        /\ mutex' # Free => revision < revision' \/ (mutex # Free /\ notified' = notified)
    BY <1>1, StoreSteps
  <1>5. \A s \in Stream : \A r \in Responses(s) : r.revision \in Nat
    BY <1>1, ResponsesTyped DEF ResponseType
  <1>6. \A s \in Stream : \A e \in loop[s].entries : loop[s].at = "send" => e.mod \in Nat
    BY <1>1 DEF WatchTypes, LoopType
  <1>7. SentKnown' /\ WatchersFed' /\ NoticeNew' /\ FeedInOrder'
    BY <1>1, <1>2, <1>3, OrderKept DEF OrderParts, SentKnown, WatchersFed, NoticeNew
  <1>8. EventsPast'
    BY <1>1, <1>3, <1>4, <1>5 DEF OrderParts, EventsPast
  <1>9. ASSUME NEW s \in Stream, NEW e \in loop[s].entries, loop[s].at = "send"
        PROVE  e.mod <= revision' /\ (mutex' # Free => e.mod < revision')
    BY <1>1, <1>4, <1>6, <1>9 DEF OrderParts, LoopFeeds
  <1>10. LoopFeeds'
    BY <1>1, <1>2, <1>3, <1>9 DEF OrderParts, LoopFeeds
  <1> QED
    BY <1>7, <1>8, <1>10 DEF OrderParts

(* The steps of a notification. *)
LEMMA OrderCallback ==
  ASSUME OrderInv, NEW k \in Key, Callback(k)
  PROVE  OrderParts' /\ FeedInOrder'
  <1>1. OrderParts /\ FeedInOrder /\ KVTypeOK /\ WatchTypes /\ revision \in Nat
    BY ControlHolds DEF OrderInv, ControlInv, KVTypeOK
  <1>2. /\ k \notin notified /\ notified' = notified \cup {k} /\ mutex # Free
        /\ UNCHANGED <<kvVars, watchers, watcher, loop, sent>>
        /\ IsEvent(notice'.response) /\ notice'.response.revision = revision
        /\ notice'.response.key = k
    BY DEF Callback, CallingBack, Notify, watchTable, streamVars, Response, IsEvent
  <1>3. \A s \in Stream : Responses(s)' = Responses(s)
    BY <1>2, ResponsesKept
  <1>4. ASSUME NEW s \in Stream, NEW r \in Responses(s), IsEvent(r), r.key = k
        PROVE  r.revision < revision
    <2>1. r.revision \in Nat
      BY <1>1, ResponsesTyped DEF ResponseType
    <2> QED
      BY <1>1, <1>2, <1>4, <2>1 DEF OrderParts, EventsPast
  <1>5. NoticeNew'
    BY <1>2, <1>3, <1>4 DEF NoticeNew, kvVars
  <1> QED
    BY <1>1, <1>2, <1>3, <1>5, OrderKept
       DEF OrderParts, SentKnown, LoopFeeds, WatchersFed, EventsPast, kvVars

LEMMA OrderNotifyOne ==
  ASSUME OrderInv, NEW id \in WatchId, NotifyOne(id), UNCHANGED <<kvVars, notified>>
  PROVE  OrderParts' /\ FeedInOrder'
  <1>1. OrderParts /\ FeedInOrder /\ KVTypeOK /\ WatchTypes /\ WorkApart /\ CallbackOrder
    BY ControlHolds DEF OrderInv, ControlInv, StoreInv
  <1> DEFINE s == watcher[id].stream
             r == [notice.response EXCEPT !.id = id]
  <1>2. /\ watchLock = Notifier /\ id \in notice.todo /\ id \in watchers /\ Write(s, r)
        /\ notice' = [notice EXCEPT !.todo = @ \ {id}]
        /\ UNCHANGED <<watchers, watcher, watchLock, loop>>
    BY <1>1 DEF NotifyOne, watchTable, WorkApart
  <1>3. s \in Stream /\ id \in DOMAIN watcher
    BY <1>1, <1>2, Ids DEF WorkApart, WatcherType
  <1>4. /\ r \in ResponseType /\ r.id = id /\ r.key = notice.response.key
        /\ r.revision = notice.response.revision /\ r.type = notice.response.type
    BY <1>1 DEF WatchTypes, NoticeType, ResponseType
  <1>5. IsEvent(r) /\ r.revision = revision /\ revision \in Nat /\ r.key \in notified
    BY <1>1, <1>2, <1>4 DEF OrderParts, NoticeNew, IsEvent, CallbackOrder, KVTypeOK
  <1>6. Follows(r, Responses(s))
    BY <1>1, <1>2, <1>3, <1>4, <1>5 DEF Follows, OrderParts, WatchersFed, NoticeNew, IsEvent
  <1>7. /\ notice'.response = notice.response /\ notice'.todo = notice.todo \ {id}
    BY <1>1, <1>2 DEF WatchTypes, NoticeType
  <1>8. \A q \in Stream : loop[q].at \in Creating => loop[q].id # id
    BY <1>1, <1>2 DEF WorkApart
  <1> HIDE DEF s, r
  <1>9. SentKnown' /\ FeedInOrder'
    BY <1>1, <1>2, <1>3, <1>4, <1>6, KnownFollows, OrderFollows DEF OrderParts, s
  <1>10. \A q \in Stream : \A x \in Responses(q)' : x \in Responses(q) \/ (q = s /\ x = r)
    BY <1>1, <1>2, <1>3, <1>4, Written, ResponsesKept DEF Sends
  <1>11. \A q \in Stream : \A x \in Responses(q) : x \in Responses(q)'
    BY <1>1, <1>2, <1>3, <1>4, Written, ResponsesKept DEF Sends
  <1>12. LoopFeeds'
    BY <1>1, <1>2, <1>4, <1>8, <1>10, <1>11 DEF OrderParts, LoopFeeds, Creating, kvVars
  <1>13. WatchersFed'
    BY <1>1, <1>2, <1>5, <1>10, <1>11 DEF OrderParts, WatchersFed, IsEvent
  <1>14. EventsPast'
    BY <1>1, <1>5, <1>10 DEF OrderParts, EventsPast, kvVars
  <1>15. NoticeNew'
    BY <1>1, <1>2, <1>4, <1>7, <1>10 DEF OrderParts, NoticeNew, kvVars
  <1> QED
    BY <1>9, <1>12, <1>13, <1>14, <1>15 DEF OrderParts
LEMMA OrderNotifyEnd ==
  ASSUME OrderInv, NotifyEnd, UNCHANGED <<kvVars, notified>>
  PROVE  OrderParts' /\ FeedInOrder'
  <1>1. OrderParts /\ FeedInOrder
    BY DEF OrderInv
  <1>2. watchLock' # Notifier /\ UNCHANGED <<watchers, watcher, loop, sent>>
    BY WMAssumption DEF NotifyEnd, watchTable, streamVars
  <1> QED
    BY <1>1, <1>2, ResponsesKept, OrderKept
       DEF OrderParts, SentKnown, LoopFeeds, WatchersFed, EventsPast, NoticeNew, kvVars

(* The steps of the loops that write nothing.  A loop that creates no watcher
   afterwards owes none anything. *)
LEMMA OrderQuiet ==
  ASSUME OrderInv, NEW s \in Stream,
         \A q \in Stream : q # s => loop'[q] = loop[q], loop'[s].at \notin Creating,
         UNCHANGED <<kvVars, notified, watchers, watcher, sent>>,
         watchLock' = Notifier => watchLock = Notifier /\ notice' = notice
  PROVE  OrderParts' /\ FeedInOrder'
  <1>1. OrderParts /\ FeedInOrder
    BY DEF OrderInv
  <1>2. \A q \in Stream : Responses(q)' = Responses(q)
    BY ResponsesKept
  <1>3. LoopFeeds'
    BY <1>1, <1>2 DEF OrderParts, LoopFeeds, Creating, kvVars
  <1> QED
    BY <1>1, <1>2, <1>3, OrderKept
       DEF OrderParts, SentKnown, WatchersFed, EventsPast, NoticeNew, kvVars

LEMMA OrderIdle ==
  ASSUME OrderInv, NEW s \in Stream,
         CancelRequest(s) \/ ReadEnd(s) \/ Cancel(s) \/ Client(s),
         UNCHANGED <<kvVars, notified>>
  PROVE  OrderParts' /\ FeedInOrder'
  <1>1. loop \in [Stream -> LoopType] /\ loop[s] \in LoopType /\ Notifier \notin Stream
    BY WMAssumption DEF OrderInv, StoreInv, WatchTypes
  <1>2. CASE CancelRequest(s) \/ ReadEnd(s) \/ Cancel(s)
    <2>1. PICK new \in LoopType : loop' = [loop EXCEPT ![s] = new] /\ new.at \notin Creating
      <3>1. CASE CancelRequest(s)
        <4>1. PICK id \in WatchId : ReadCancel(s, id)
          BY <3>1 DEF CancelRequest
        <4>2. [loop[s] EXCEPT !.at = "cancel", !.id = id] \in LoopType
          BY <1>1 DEF LoopType
        <4> QED
          BY <1>1, <4>1, <4>2 DEF ReadCancel, Creating, LoopType
      <3>2. CASE ReadEnd(s)
        <4>1. [loop[s] EXCEPT !.at = "ended"] \in LoopType
          BY <1>1 DEF LoopType
        <4> QED
          BY <1>1, <3>2, <4>1 DEF ReadEnd, Go, Creating, LoopType
      <3>3. CASE Cancel(s)
        <4>1. [loop[s] EXCEPT !.at = "canceling"] \in LoopType /\ Reading \in LoopType
          BY <1>1 DEF LoopType, Reading
        <4> QED
          BY <1>1, <3>3, <4>1 DEF Cancel, CancelLock, Go, Creating, LoopType, Reading
      <3> QED
        BY <1>2, <3>1, <3>2, <3>3
    <2>2. \A q \in Stream : q # s => loop'[q] = loop[q]
      BY <1>1, <2>1
    <2>3. loop'[s].at \notin Creating
      BY <1>1, <2>1
    <2>4. /\ UNCHANGED <<watchers, watcher, sent>>
          /\ watchLock' = Notifier => watchLock = Notifier /\ notice' = notice
      BY <1>1, <1>2 DEF CancelRequest, ReadCancel, ReadEnd, Cancel, CancelLock, watchTable,
                        streamVars
    <2> QED
      BY <2>2, <2>3, <2>4, OrderQuiet
  <1>3. CASE Client(s)
    <2>1. UNCHANGED <<watchers, watcher, loop, sent, watchLock, notice>>
      BY <1>3 DEF Client, ClientRead, ClientEnds, watchTable
    <2>2. OrderParts /\ FeedInOrder
      BY DEF OrderInv
    <2> QED
      BY <2>1, <2>2, ResponsesKept, OrderKept
         DEF OrderParts, SentKnown, LoopFeeds, WatchersFed, EventsPast, NoticeNew, kvVars
  <1> QED
    BY <1>2, <1>3

(* A new watcher has got nothing. *)
LEMMA OrderCreate ==
  ASSUME OrderInv, NEW s \in Stream, Create(s)
  PROVE  OrderParts' /\ FeedInOrder'
  <1>1. /\ OrderParts /\ FeedInOrder /\ ControlInv /\ WatchTypes
        /\ loop \in [Stream -> LoopType] /\ watchers \subseteq DOMAIN watcher
    BY ControlHolds DEF OrderInv, ControlInv, WatchTypes, WorkApart
  <1>2. /\ UNCHANGED <<kvVars, watchers, watchLock, notice, sent, notified>>
        /\ \A id \in DOMAIN watcher : id \in DOMAIN watcher' /\ watcher'[id] = watcher[id]
    BY <1>1, Created DEF streamVars
  <1>3. /\ loop'[s].at = "created" /\ loop'[s].id = nextWatchId
        /\ \A q \in Stream : q # s => loop'[q] = loop[q]
    BY <1>1, Created
  <1>4. \A q \in Stream : Responses(q)' = Responses(q)
    BY <1>2, ResponsesKept
  <1>5. \A r \in Responses(s) : r.id # nextWatchId
    BY <1>1, Ids DEF OrderParts, SentKnown
  <1>6. LoopFeeds'
    BY <1>1, <1>2, <1>3, <1>4, <1>5 DEF OrderParts, LoopFeeds, kvVars
  <1> QED
    BY <1>1, <1>2, <1>4, <1>6, OrderKept
       DEF OrderParts, SentKnown, WatchersFed, EventsPast, NoticeNew, kvVars

(* The history is what the store holds, one entry for each key. *)
LEMMA OrderHistory ==
  ASSUME OrderInv, RevisionInv, NEW s \in Stream, History(s)
  PROVE  OrderParts' /\ FeedInOrder'
  <1>1. /\ OrderParts /\ FeedInOrder /\ loop \in [Stream -> LoopType]
        /\ data \in [Key -> Entry] /\ revision \in Nat
    BY DEF OrderInv, StoreInv, WatchTypes, RevisionInv, KVTypeOK
  <1>2. /\ loop[s].at = "history" /\ mutex = Free
        /\ loop' = [loop EXCEPT ![s].at = "send", ![s].entries = Entries(loop[s].id)]
        /\ UNCHANGED <<kvVars, notified, watchers, watcher, watchLock, notice, sent>>
    BY DEF History, TakeHistory, At, watchTable, streamVars
  <1>3. /\ loop'[s].at = "send" /\ loop'[s].id = loop[s].id
        /\ loop'[s].entries = Entries(loop[s].id)
        /\ \A q \in Stream : q # s => loop'[q] = loop[q]
    BY <1>1, <1>2 DEF LoopType
  <1>4. \A q \in Stream : Responses(q)' = Responses(q)
    BY <1>2, ResponsesKept
  <1>5. ASSUME NEW e \in Entries(loop[s].id)
        PROVE  /\ e.mod <= revision
               /\ \A other \in Entries(loop[s].id) : other.key = e.key => other = e
    <2>1. PICK k \in Key : Present(data[k]) /\ e = [key |-> k, mod |-> data[k].mod]
      BY <1>5 DEF Entries, KeysInRange, StoredKeys
    <2>2. e.mod <= revision
      BY <2>1 DEF RevisionInv, RevisionOrder, Versioned
    <2>3. \A other \in Entries(loop[s].id) :
            other = [key |-> other.key, mod |-> data[other.key].mod]
      BY DEF Entries
    <2> QED
      BY <2>1, <2>2, <2>3
  <1>6. LoopFeeds'
    <2>1. \A q \in Stream : q # s => loop'[q] = loop[q]
      BY <1>3
    <2>2. /\ \E r \in Responses(s) : r.id = loop[s].id
          /\ \A r \in Responses(s) : r.id = loop[s].id => r.type # "canceled" /\ ~IsEvent(r)
      BY <1>1, <1>2 DEF OrderParts, LoopFeeds
    <2> QED
      BY <1>1, <1>2, <1>3, <1>4, <1>5, <2>2 DEF OrderParts, LoopFeeds, kvVars
  <1> QED
    BY <1>1, <1>2, <1>4, <1>6, OrderKept
       DEF OrderParts, SentKnown, WatchersFed, EventsPast, NoticeNew, kvVars

(* The watcher that is registered was created. *)
LEMMA OrderRegister ==
  ASSUME OrderInv, NEW s \in Stream, Register(s)
  PROVE  OrderParts' /\ FeedInOrder'
  <1>1. /\ OrderParts /\ FeedInOrder /\ ControlInv /\ loop \in [Stream -> LoopType]
        /\ Notifier # Unlocked
    BY ControlHolds, WMAssumption DEF OrderInv, ControlInv, WatchTypes
  <1>2. /\ loop[s].at \in {"insert", "send"} /\ watchLock' # Notifier
        /\ watchers' = watchers \cup {loop[s].id}
        /\ loop' = [loop EXCEPT ![s] = Reading]
        /\ UNCHANGED <<kvVars, notified, watcher, sent>>
    BY <1>1 DEF Register, Insert, At, streamVars
  <1>3. loop'[s].at = "read" /\ \A q \in Stream : q # s => loop'[q] = loop[q]
    BY <1>1, <1>2 DEF Reading
  <1>4. \A q \in Stream : Responses(q)' = Responses(q)
    BY <1>2, ResponsesKept
  <1>5. watcher[loop[s].id].stream = s
    BY <1>1, <1>2, CreatorsKnown DEF Creating
  <1>6. WatchersFed'
    BY <1>1, <1>2, <1>4, <1>5 DEF OrderParts, WatchersFed, LoopFeeds
  <1>7. LoopFeeds'
    BY <1>1, <1>2, <1>3, <1>4 DEF OrderParts, LoopFeeds, kvVars
  <1> QED
    BY <1>1, <1>2, <1>4, <1>6, <1>7, OrderKept
       DEF OrderParts, SentKnown, EventsPast, NoticeNew, kvVars
(* The steps of the loops that write. *)
LEMMA OrderSendCreated ==
  ASSUME OrderInv, NEW s \in Stream, SendCreated(s), UNCHANGED <<kvVars, notified>>
  PROVE  OrderParts' /\ FeedInOrder'
  <1> DEFINE id == loop[s].id
             r == Control(id, "created", loop[s].revision)
  <1>1. /\ OrderParts /\ FeedInOrder /\ ControlInv /\ WatchTypes
        /\ loop \in [Stream -> LoopType] /\ loop[s] \in LoopType
    BY ControlHolds DEF OrderInv, ControlInv, WatchTypes
  <1>2. /\ loop[s].at = "created" /\ Write(s, r)
        /\ loop' = [loop EXCEPT ![s] = [loop[s] EXCEPT !.at = AfterCreated(s)]]
        /\ UNCHANGED <<watchers, watcher, watchLock, notice>>
    BY <1>1 DEF SendCreated, At, Go, watchTable
  <1>3. /\ id \in DOMAIN watcher /\ id \in WatchId /\ id \notin watchers
        /\ watcher[id].stream = s /\ notice.todo \subseteq watchers
    BY <1>1, <1>2, CreatorsKnown DEF Creating, ControlInv, WorkApart
  <1>4. /\ r \in ResponseType /\ r.id = id /\ r.type = "created" /\ ~IsEvent(r)
    BY <1>1, <1>3 DEF Control, Response, ResponseType, LoopType, IsEvent
  <1>5. /\ loop'[s].at \in {"history", "insert", "ended"} /\ loop'[s].id = id
        /\ Broken(s) => loop'[s].at = "ended"
        /\ \A q \in Stream : q # s => loop'[q] = loop[q]
    BY <1>1, <1>2 DEF AfterCreated, LoopType
  <1>6. \A x \in Responses(s) : x.id # id
    BY <1>1, <1>2 DEF OrderParts, LoopFeeds
  <1> HIDE DEF id, r
  <1>7. Follows(r, Responses(s))
    BY <1>4, <1>6 DEF Follows
  <1>8. SentKnown' /\ FeedInOrder'
    BY <1>1, <1>2, <1>3, <1>4, <1>7, KnownFollows, OrderFollows DEF OrderParts
  <1>9. \A q \in Stream : \A x \in Responses(q)' : x \in Responses(q) \/ (q = s /\ x = r)
    BY <1>1, <1>2, <1>4, Written, ResponsesKept DEF Sends
  <1>10. \A q \in Stream : \A x \in Responses(q) : x \in Responses(q)'
    BY <1>1, <1>2, <1>4, Written, ResponsesKept DEF Sends
  <1>11. ~Broken(s) => r \in Responses(s)'
    BY <1>1, <1>2, <1>4, Written DEF Sends, Write, streamVars
  <1>12. LoopFeeds'
    <2>1. ASSUME NEW q \in Stream, q # s
          PROVE  Responses(q)' = Responses(q)
      BY <1>1, <1>2, <1>4, <2>1, Written, ResponsesKept DEF Sends
    <2>2. loop'[s].at # "ended" => r \in Responses(s)'
      BY <1>5, <1>11
    <2>3. \A x \in Responses(s)' : x.id = id => x = r
      BY <1>6, <1>9
    <2> QED
      BY <1>1, <1>4, <1>5, <2>1, <2>2, <2>3 DEF OrderParts, LoopFeeds, kvVars
  <1>13. WatchersFed'
    BY <1>1, <1>2, <1>3, <1>4, <1>9, <1>10 DEF OrderParts, WatchersFed
  <1>14. EventsPast' /\ NoticeNew'
    BY <1>1, <1>2, <1>4, <1>9 DEF OrderParts, EventsPast, NoticeNew, kvVars
  <1> QED
    BY <1>8, <1>12, <1>13, <1>14 DEF OrderParts

LEMMA OrderSendHistory ==
  ASSUME OrderInv, NEW s \in Stream, SendHistory(s), UNCHANGED <<kvVars, notified>>
  PROVE  OrderParts' /\ FeedInOrder'
  <1> DEFINE id == loop[s].id
  <1>1. /\ OrderParts /\ FeedInOrder /\ ControlInv /\ WatchTypes
        /\ loop \in [Stream -> LoopType] /\ loop[s] \in LoopType
    BY ControlHolds DEF OrderInv, ControlInv, WatchTypes
  <1>2. PICK e \in loop[s].entries :
          /\ Write(s, Response(id, "put", e.mod, e.key, e.mod))
          /\ loop' = [loop EXCEPT ![s].entries = @ \ {e}]
    BY DEF SendHistory
  <1> DEFINE r == Response(id, "put", e.mod, e.key, e.mod)
  <1>3. loop[s].at = "send" /\ UNCHANGED <<watchers, watcher, watchLock, notice>>
    BY DEF SendHistory, At, watchTable
  <1>4. /\ id \in DOMAIN watcher /\ id \in WatchId /\ id \notin watchers
        /\ watcher[id].stream = s /\ notice.todo \subseteq watchers
    BY <1>1, <1>3, CreatorsKnown DEF Creating, ControlInv, WorkApart
  <1>5. /\ r \in ResponseType /\ r.id = id /\ r.type = "put" /\ IsEvent(r)
        /\ r.key = e.key /\ r.revision = e.mod /\ e.mod \in Nat
    BY <1>1, <1>2, <1>4 DEF Response, ResponseType, LoopType, IsEvent
  <1>6. /\ loop'[s].at = "send" /\ loop'[s].id = id /\ loop'[s].entries = loop[s].entries \ {e}
        /\ \A q \in Stream : q # s => loop'[q] = loop[q]
    BY <1>1, <1>2, <1>3 DEF LoopType
  <1>7. /\ e.mod <= revision /\ (mutex # Free => e.mod < revision)
        /\ \A other \in loop[s].entries : other.key = e.key => other = e
        /\ \A x \in Responses(s) : x.id = id /\ IsEvent(x) => x.key # e.key
        /\ \E x \in Responses(s) : x.id = id
        /\ \A x \in Responses(s) : x.id = id => x.type # "canceled"
    BY <1>1, <1>2, <1>3 DEF OrderParts, LoopFeeds
  <1> HIDE DEF id, r
  <1>8. Follows(r, Responses(s))
    BY <1>5, <1>7 DEF Follows
  <1>9. SentKnown' /\ FeedInOrder'
    BY <1>1, <1>2, <1>3, <1>4, <1>5, <1>8, KnownFollows, OrderFollows DEF OrderParts, r
  <1>10. \A q \in Stream : \A x \in Responses(q)' : x \in Responses(q) \/ (q = s /\ x = r)
    BY <1>1, <1>2, <1>5, Written, ResponsesKept DEF Sends, r
  <1>11. \A q \in Stream : \A x \in Responses(q) : x \in Responses(q)'
    BY <1>1, <1>2, <1>5, Written, ResponsesKept DEF Sends, r
  <1>12. LoopFeeds'
    <2>1. ASSUME NEW q \in Stream, q # s
          PROVE  Responses(q)' = Responses(q)
      BY <1>1, <1>2, <1>5, <2>1, Written, ResponsesKept DEF Sends, r
    <2>2. ASSUME NEW d \in loop[s].entries, d # e
          PROVE  /\ d.mod <= revision /\ (mutex # Free => d.mod < revision)
                 /\ \A other \in loop[s].entries : other.key = d.key => other = d
                 /\ \A x \in Responses(s)' : x.id = id /\ IsEvent(x) => x.key # d.key
      BY <1>1, <1>3, <1>5, <1>7, <1>10, <2>2 DEF OrderParts, LoopFeeds, id
    <2>3. /\ \E x \in Responses(s)' : x.id = id
          /\ \A x \in Responses(s)' : x.id = id => x.type # "canceled"
      BY <1>5, <1>7, <1>10, <1>11
    <2> QED
      BY <1>1, <1>6, <2>1, <2>2, <2>3 DEF OrderParts, LoopFeeds, kvVars
  <1>13. WatchersFed'
    BY <1>1, <1>3, <1>5, <1>10, <1>11 DEF OrderParts, WatchersFed
  <1>14. EventsPast' /\ NoticeNew'
    BY <1>1, <1>3, <1>4, <1>5, <1>7, <1>10 DEF OrderParts, EventsPast, NoticeNew, kvVars
  <1> QED
    BY <1>9, <1>12, <1>13, <1>14 DEF OrderParts

LEMMA OrderCancelSend ==
  ASSUME OrderInv, NEW s \in Stream, CancelSend(s), UNCHANGED <<kvVars, notified>>
  PROVE  OrderParts' /\ FeedInOrder'
  <1> DEFINE id == loop[s].id
             w == watcher[id].stream
             r == Control(id, "canceled", 0)
  <1>1. /\ OrderParts /\ FeedInOrder /\ ControlInv /\ WatchTypes /\ WorkApart
        /\ loop \in [Stream -> LoopType] /\ Notifier # Unlocked
    BY ControlHolds, WMAssumption DEF OrderInv, ControlInv, WatchTypes
  <1>2. /\ id \in watchers /\ Write(w, r) /\ watchers' = watchers \ {id}
        /\ watchLock' # Notifier /\ loop' = [loop EXCEPT ![s] = Reading]
        /\ UNCHANGED watcher
    BY <1>1 DEF CancelSend, At, WorkApart
  <1>3. w \in Stream /\ id \in DOMAIN watcher /\ id \in WatchId
    BY <1>1, <1>2, Ids DEF WorkApart, WatcherType
  <1>4. r \in ResponseType /\ r.id = id /\ r.type = "canceled" /\ ~IsEvent(r)
    BY <1>3 DEF Control, Response, ResponseType, IsEvent
  <1>5. /\ \E x \in Responses(w) : x.id = id
        /\ \A x \in Responses(w) : x.id = id => x.type # "canceled"
    BY <1>1, <1>2, <1>3 DEF OrderParts, WatchersFed
  <1>6. loop'[s].at = "read" /\ \A q \in Stream : q # s => loop'[q] = loop[q]
    BY <1>1, <1>2 DEF Reading
  <1>7. \A q \in Stream : loop[q].at \in Creating => loop[q].id # id
    BY <1>1, <1>2 DEF WorkApart
  <1> HIDE DEF id, r, w
  <1>8. Follows(r, Responses(w))
    BY <1>4, <1>5 DEF Follows
  <1>9. SentKnown' /\ FeedInOrder'
    BY <1>1, <1>2, <1>3, <1>4, <1>8, KnownFollows, OrderFollows DEF OrderParts, w
  <1>10. \A q \in Stream : \A x \in Responses(q)' : x \in Responses(q) \/ (q = w /\ x = r)
    BY <1>1, <1>2, <1>3, <1>4, Written, ResponsesKept DEF Sends
  <1>11. \A q \in Stream : \A x \in Responses(q) : x \in Responses(q)'
    BY <1>1, <1>2, <1>3, <1>4, Written, ResponsesKept DEF Sends
  <1>12. LoopFeeds'
    BY <1>1, <1>4, <1>6, <1>7, <1>10, <1>11 DEF OrderParts, LoopFeeds, Creating, kvVars
  <1>13. WatchersFed'
    BY <1>1, <1>2, <1>4, <1>10, <1>11 DEF OrderParts, WatchersFed
  <1>14. EventsPast' /\ NoticeNew'
    BY <1>1, <1>2, <1>4, <1>10 DEF OrderParts, EventsPast, NoticeNew, kvVars
  <1> QED
    BY <1>9, <1>12, <1>13, <1>14 DEF OrderParts

LEMMA OrderInit == Init => OrderInv
  <1> SUFFICES ASSUME Init
               PROVE  OrderParts /\ FeedInOrder
    BY StoreInvInit DEF OrderInv
  <1>1. \A s \in Stream : sent[s] = <<>> /\ loop[s] = Reading
    BY DEF Init, WMInit
  <1>2. \A s \in Stream : Responses(s) = {}
    BY <1>1 DEF Responses
  <1>3. watchers = {} /\ watchLock # Notifier
    BY WMAssumption DEF Init, WMInit
  <1>4. FeedInOrder
    BY <1>1 DEF FeedInOrder
  <1> QED
    BY <1>1, <1>2, <1>3, <1>4
       DEF OrderParts, SentKnown, LoopFeeds, WatchersFed, EventsPast, NoticeNew, Reading

LEMMA OrderStep == OrderInv /\ [Next]_vars => OrderInv'
  <1> SUFFICES ASSUME OrderInv, [Next]_vars
               PROVE  OrderParts' /\ FeedInOrder'
    BY StoreInvStep DEF OrderInv
  <1>1. CASE StoreCall \/ StoreStep \/ Release
    BY <1>1, OrderStore
  <1>2. CASE (\E k \in Key : Callback(k)) \/ CallbackStep
    <2>1. CallbackStep => UNCHANGED <<kvVars, notified>>
      BY WatchersOnly
    <2> QED
      BY <1>2, <2>1, OrderCallback, OrderNotifyOne, OrderNotifyEnd DEF CallbackStep
  <1>3. ASSUME NEW s \in Stream,
               Create(s) \/ History(s) \/ Register(s) \/ CancelRequest(s) \/ LoopStep(s)
                 \/ Cancel(s) \/ Client(s)
        PROVE  OrderParts' /\ FeedInOrder'
    <2>1. Create(s) \/ History(s) \/ CancelRequest(s) \/ LoopStep(s) \/ Cancel(s) \/ Client(s)
            => UNCHANGED <<kvVars, notified>>
      BY WatchersOnly
    <2>2. RevisionInv
      BY DEF OrderInv, StoreInv, FeedInv, MapInv
    <2>3. CASE Create(s)
      BY <2>3, OrderCreate
    <2>4. CASE History(s)
      BY <2>2, <2>4, OrderHistory
    <2>5. CASE Register(s)
      BY <2>5, OrderRegister
    <2>6. CASE CancelRequest(s) \/ Cancel(s) \/ Client(s)
      BY <2>1, <2>6, OrderIdle
    <2>7. CASE LoopStep(s)
      BY <2>1, <2>7, OrderIdle, OrderSendCreated, OrderSendHistory, OrderCancelSend DEF LoopStep
    <2> QED
      BY <1>3, <2>3, <2>4, <2>5, <2>6, <2>7
  <1>4. CASE UNCHANGED vars
    <2>1. OrderParts /\ FeedInOrder
      BY DEF OrderInv
    <2>2. UNCHANGED <<kvVars, watchers, watcher, loop, sent, watchLock, notice, notified>>
      BY <1>4 DEF vars, wmVars
    <2> QED
      BY <2>1, <2>2, ResponsesKept, OrderKept
         DEF OrderParts, SentKnown, LoopFeeds, WatchersFed, EventsPast, NoticeNew, kvVars
  <1> QED
    BY <1>1, <1>2, <1>3, <1>4 DEF Next
(* The invariant holds throughout. *)
LEMMA OrderInvariant == Spec => []OrderInv
  BY OrderInit, OrderStep, PTL DEF Spec

(* Every variable has its type, whatever the interleaving of calls, loops and
   notifications; the watch manager's mutex is held by the loop that cancels or
   by a notification of the call inside the store. *)
THEOREM WatchTypeCorrect == Spec => []TypeOK
  <1>1. OrderInv => TypeOK
    <2> SUFFICES ASSUME OrderInv
                 PROVE  TypeOK
      OBVIOUS
    <2>1. KVTypeOK /\ WatchTypes /\ WorkApart /\ CallbackOrder /\ SentKnown
      BY ControlHolds DEF OrderInv, StoreInv, ControlInv, OrderParts
    <2>2. \A s \in Stream :
            /\ loop[s] \in LoopType /\ client[s] \in {"open", "done", "gone"}
            /\ unread[s] \in 0 .. Window
            /\ \A i \in DOMAIN sent[s] : sent[s][i].id \in DOMAIN watcher
      BY <2>1 DEF WatchTypes, SentKnown, Responses
    <2>3. WMTypeOK
      BY <2>1, <2>2 DEF WatchTypes, WorkApart, WMTypeOK, LoopType, Creating, WatcherType
    <2> QED
      BY <2>1, <2>3 DEF TypeOK, CallbackOrder
  <1> QED
    BY <1>1, OrderInvariant, PTL

(* What a watcher gets is in order, whatever the ranges, the streams, the size
   of their windows and the number of watchers. *)
THEOREM FeedsInOrder == Spec => []FeedInOrder
  <1>1. OrderInv => FeedInOrder
    BY DEF OrderInv
  <1> QED
    BY <1>1, OrderInvariant, PTL

-----------------------------------------------------------------------------
(* Registered watchers are told. *)

EventType(k) == IF Present(data[k]) THEN "put" ELSE "delete"

(* The event of the change under way to key k is among the responses. *)
ToldOf(s, id, k) ==
  \E r \in Responses(s) : r.id = id /\ r.key = k /\ r.revision = revision /\ r.type = EventType(k)

Pending(id, k) ==
  watchLock = Notifier /\ notice.response.key = k /\ id \in notice.todo

(* For each key notified, a watcher that was there before the call has been
   told or is about to be. *)
Owed ==
  /\ watchLock = Notifier => notice.response.type = EventType(notice.response.key)
  /\ \A s \in Stream, id \in watchers, k \in notified :
       /\ watcher[id].stream = s /\ ~Broken(s)
       /\ joined[id] < revision
       /\ KeyInRange(k, watcher[id].key, watcher[id].end)
       => Pending(id, k) \/ ToldOf(s, id, k)

ToldInv == OrderInv /\ Owed

(* A broken stream stays broken. *)
LEMMA StaysBroken ==
  ASSUME StoreInv, Next, NEW s \in Stream, Broken(s)
  PROVE  Broken(s)'
  <1>1. /\ client \in [Stream -> {"open", "done", "gone"}] /\ loop \in [Stream -> LoopType]
    BY DEF StoreInv, WatchTypes
  <1>2. KVTypeOK /\ WatchTypes
    BY ControlHolds DEF ControlInv
  <1>3. CASE UNCHANGED <<client, loop>>
    BY <1>3 DEF Broken
  <1>4. CASE \E q \in Stream : Client(q)
    BY <1>1, <1>4 DEF Client, ClientRead, ClientEnds, Broken
  <1>5. ASSUME NEW q \in Stream,
               Create(q) \/ History(q) \/ Register(q) \/ CancelRequest(q) \/ LoopStep(q)
                 \/ Cancel(q)
        PROVE  /\ loop[q].at # "ended" /\ UNCHANGED client
               /\ \A t \in Stream : t # q => loop'[t] = loop[t]
    BY <1>1, <1>5
       DEF Create, CreateWatcher, History, TakeHistory, Register, Insert, CancelRequest,
           ReadCancel, LoopStep, SendCreated, SendHistory, CancelSend, ReadEnd, Cancel,
           CancelLock, Write, At, Go, streamVars
  <1>6. CASE \E q \in Stream :
               Create(q) \/ History(q) \/ Register(q) \/ CancelRequest(q) \/ LoopStep(q)
                 \/ Cancel(q)
    BY <1>5, <1>6 DEF Broken
  <1>7. CASE StoreCall \/ StoreStep \/ Release
    BY <1>2, <1>3, <1>7, StoreSteps DEF wmVars
  <1>8. CASE (\E k \in Key : Callback(k)) \/ CallbackStep
    BY <1>3, <1>8 DEF Callback, CallbackStep, Notify, NotifyOne, NotifyEnd, Write, streamVars
  <1> QED
    BY <1>4, <1>6, <1>7, <1>8 DEF Next
(* What was written stays written. *)
LEMMA WriteKeeps ==
  ASSUME WatchTypes, NEW s \in Stream, NEW r, Write(s, r)
  PROVE  \A q \in Stream : Responses(q) \subseteq Responses(q)'
  <1>1. sent \in [Stream -> Seq(ResponseType)] /\ sent[s] \in Seq(ResponseType)
    BY DEF WatchTypes
  <1>2. CASE UNCHANGED sent
    BY <1>2, ResponsesKept
  <1>3. CASE sent' = [sent EXCEPT ![s] = Append(@, r)]
    <2>1. \A i \in DOMAIN sent[s] :
            i \in DOMAIN Append(sent[s], r) /\ Append(sent[s], r)[i] = sent[s][i]
      BY <1>1
    <2>2. \A q \in Stream : \A i \in DOMAIN sent[q] :
            i \in DOMAIN sent'[q] /\ sent'[q][i] = sent[q][i]
      BY <1>1, <1>3, <2>1
    <2> QED
      BY <2>2 DEF Responses
  <1> QED
    BY <1>2, <1>3 DEF Write, streamVars

(* The loops leave a notification alone, and a watcher they register has no
   claim to the change under way. *)
LEMMA LoopsKeep ==
  ASSUME StoreInv, NEW s \in Stream,
         Create(s) \/ History(s) \/ Register(s) \/ CancelRequest(s) \/ LoopStep(s)
           \/ Cancel(s) \/ Client(s)
  PROVE  /\ watchLock = Notifier <=> watchLock' = Notifier
         /\ watchLock = Notifier => notice' = notice
         /\ \A id \in watchers' :
              \/ id \in watchers /\ joined'[id] = joined[id] /\ watcher'[id] = watcher[id]
              \/ joined'[id] = revision
         /\ \A q \in Stream : Responses(q) \subseteq Responses(q)'
  <1>1. /\ ControlInv /\ WatchTypes /\ WorkApart /\ joined \in [WatchId -> 0 .. revision]
        /\ {Unlocked, Notifier} \cap Stream = {} /\ Unlocked # Notifier
    BY ControlHolds, WMAssumption DEF StoreInv, ControlInv, CallbackOrder
  <1>2. CASE Create(s)
    <2>1. /\ UNCHANGED <<watchers, watchLock, notice, joined, sent>>
          /\ \A id \in watchers : watcher'[id] = watcher[id]
      BY <1>1, <1>2, Created DEF streamVars, WorkApart
    <2> QED
      BY <2>1, ResponsesKept
  <1>3. CASE Register(s)
    <2>1. /\ UNCHANGED <<watcher, watchLock, notice, sent>> /\ watchLock = Unlocked
          /\ watchers' = watchers \cup {loop[s].id} /\ loop[s].at \in Creating
          /\ joined' = [joined EXCEPT ![loop[s].id] = revision]
      BY <1>3 DEF Register, Insert, streamVars, At, Creating
    <2>2. loop[s].id \in WatchId
      BY <1>1, <2>1, CreatorsKnown
    <2>3. /\ joined'[loop[s].id] = revision
          /\ \A id \in WatchId \ {loop[s].id} : joined'[id] = joined[id]
      BY <1>1, <2>1, <2>2
    <2>4. watchers \subseteq WatchId
      BY <1>1, Ids DEF WorkApart
    <2> QED
      BY <1>1, <2>1, <2>3, <2>4, ResponsesKept
  <1>4. CASE History(s) \/ CancelRequest(s) \/ Client(s)
    BY <1>4, ResponsesKept
       DEF History, TakeHistory, CancelRequest, ReadCancel, Client, ClientRead, ClientEnds,
           watchTable, streamVars
  <1>5. CASE Cancel(s)
    BY <1>1, <1>5, ResponsesKept DEF Cancel, CancelLock, watchTable, streamVars
  <1>6. CASE LoopStep(s)
    <2>1. UNCHANGED joined
      BY <1>6 DEF LoopStep
    <2>2. CASE SendCreated(s)
      <3>1. PICK r : Write(s, r)
        BY <2>2 DEF SendCreated
      <3> QED
        BY <1>1, <2>1, <2>2, <3>1, WriteKeeps DEF SendCreated, watchTable
    <2>3. CASE SendHistory(s)
      <3>1. PICK r : Write(s, r)
        BY <2>3 DEF SendHistory
      <3> QED
        BY <1>1, <2>1, <2>3, <3>1, WriteKeeps DEF SendHistory, watchTable
    <2>4. CASE CancelSend(s)
      <3>1. PICK r : Write(watcher[loop[s].id].stream, r)
        BY <2>4 DEF CancelSend
      <3>2. watchLock = s /\ watcher[loop[s].id].stream \in Stream
        BY <1>1, <2>4, Ids DEF CancelSend, At, WorkApart, WatcherType
      <3> QED
        BY <1>1, <2>1, <2>4, <3>1, <3>2, WriteKeeps DEF CancelSend
    <2>5. CASE ReadEnd(s)
      BY <2>1, <2>5, ResponsesKept DEF ReadEnd, watchTable, streamVars
    <2> QED
      BY <1>6, <2>2, <2>3, <2>4, <2>5 DEF LoopStep
  <1> QED
    BY <1>2, <1>3, <1>4, <1>5, <1>6

LEMMA OwedStep == ToldInv /\ [Next]_vars => Owed'
  <1> SUFFICES ASSUME ToldInv, [Next]_vars
               PROVE  Owed'
    OBVIOUS
  <1>1. /\ StoreInv /\ Owed /\ KVTypeOK /\ WatchTypes /\ WorkApart /\ CallbackOrder
        /\ Unlocked # Notifier
    BY ControlHolds, WMAssumption DEF ToldInv, OrderInv, StoreInv, ControlInv
  <1>2. CASE UNCHANGED vars
    <2>1. UNCHANGED <<data, revision, notified, joined, watchers, watcher, watchLock, notice,
                      sent, client, loop>>
      BY <1>2 DEF vars, kvVars, wmVars
    <2> QED
      BY <1>1, <2>1 DEF Owed, Pending, ToldOf, EventType, Responses, Broken
  <1> SUFFICES ASSUME Next
               PROVE  Owed'
    BY <1>2
  <1>3. \A s \in Stream : ~Broken(s)' => ~Broken(s)
    BY <1>1, StaysBroken
  <1>4. CASE StoreCall \/ StoreStep \/ Release
    <2>1. notified' = {} /\ watchLock' # Notifier
      BY <1>1, <1>4, StoreSteps, NoCallback DEF wmVars
    <2> QED
      BY <2>1 DEF Owed
  <1>5. ASSUME NEW k \in Key, Callback(k)
        PROVE  Owed'
    <2>1. /\ notified' = notified \cup {k} /\ watchLock # Notifier /\ watchLock' = Notifier
          /\ UNCHANGED <<data, revision, joined, watchers, watcher, sent>>
          /\ notice'.response.type = EventType(k) /\ notice'.response.key = k
          /\ notice'.todo = {id \in watchers : KeyMatchesWatcher(k, id)}
      BY <1>1, <1>5
         DEF Callback, Notify, watchTable, streamVars, Response, EventType, kvVars
    <2>2. EventType(k)' = EventType(k)
      BY <2>1 DEF EventType
    <2>3. ASSUME NEW s \in Stream, NEW id \in watchers, NEW j \in notified', ~Broken(s)',
                 watcher[id].stream = s, joined[id] < revision,
                 KeyInRange(j, watcher[id].key, watcher[id].end)
          PROVE  Pending(id, j)' \/ ToldOf(s, id, j)'
      <3>1. CASE j = k
        BY <2>1, <2>3, <3>1 DEF Pending, KeyMatchesWatcher
      <3>2. CASE j # k
        <4>1. ToldOf(s, id, j)
          BY <1>1, <1>3, <2>1, <2>3, <3>2 DEF Owed, Pending
        <4> QED
          BY <2>1, <4>1 DEF ToldOf, EventType, Responses
      <3> QED
        BY <3>1, <3>2
    <2> QED
      BY <2>1, <2>2, <2>3 DEF Owed
  <1>6. ASSUME NEW id \in WatchId, NotifyOne(id), UNCHANGED <<kvVars, notified, joined>>
        PROVE  Owed'
    <2>7. PICK w \in Stream : w = watcher[id].stream
      BY <1>1, <1>6, Ids DEF NotifyOne, WorkApart, WatcherType
    <2> DEFINE r == [notice.response EXCEPT !.id = id]
    <2>1. /\ watchLock = Notifier /\ watchLock' = Notifier /\ id \in notice.todo /\ Write(w, r)
          /\ notice'.response = notice.response /\ notice'.todo = notice.todo \ {id}
          /\ UNCHANGED <<watchers, watcher, data, revision>>
      BY <1>1, <1>6, <2>7 DEF NotifyOne, watchTable, WatchTypes, NoticeType, kvVars
    <2>2. r \in ResponseType /\ id \in watchers
      BY <1>1, <2>1 DEF WorkApart, WatchTypes, NoticeType, ResponseType
    <2>3. /\ r.id = id /\ r.key = notice.response.key /\ r.type = EventType(r.key)
          /\ r.revision = revision
      BY <1>1, <2>1 DEF Owed, WatchTypes, NoticeType, ToldInv, OrderInv, OrderParts, NoticeNew
    <2> HIDE DEF r
    <2>4. \A q \in Stream : Responses(q) \subseteq Responses(q)'
      BY <1>1, <2>1, <2>2, WriteKeeps
    <2>5. ~Broken(w) => r \in Responses(w)'
      BY <1>1, <2>1, <2>2, Written DEF Sends
    <2>6. ASSUME NEW s \in Stream, NEW i \in watchers, NEW j \in notified, ~Broken(s)',
                 watcher[i].stream = s, joined[i] < revision,
                 KeyInRange(j, watcher[i].key, watcher[i].end)
          PROVE  Pending(i, j)' \/ ToldOf(s, i, j)'
      <3>1. CASE ToldOf(s, i, j)
        BY <2>1, <2>4, <3>1 DEF ToldOf, EventType
      <3>2. CASE Pending(i, j) /\ i # id
        BY <2>1, <3>2 DEF Pending
      <3>3. CASE Pending(i, j) /\ i = id
        <4>1. s = w /\ r \in Responses(s)' /\ j = r.key
          BY <1>3, <2>3, <2>5, <2>6, <2>7, <3>3 DEF Pending
        <4> QED
          BY <2>1, <2>3, <3>3, <4>1 DEF ToldOf, EventType
      <3> QED
        BY <1>1, <1>3, <2>6, <3>1, <3>2, <3>3 DEF Owed
    <2> QED
      BY <1>1, <1>6, <2>1, <2>6 DEF Owed, EventType
  <1>7. CASE NotifyEnd /\ UNCHANGED <<kvVars, notified, joined>>
    <2>1. /\ notice.todo = {} /\ watchLock' # Notifier
          /\ UNCHANGED <<watchers, watcher, loop, client, sent, data, revision>>
      BY <1>1, <1>7 DEF NotifyEnd, watchTable, streamVars, kvVars
    <2> QED
      BY <1>1, <1>7, <2>1 DEF Owed, Pending, ToldOf, EventType, Responses, Broken
  <1>8. ASSUME NEW s \in Stream,
               Create(s) \/ History(s) \/ Register(s) \/ CancelRequest(s) \/ LoopStep(s)
                 \/ Cancel(s) \/ Client(s)
        PROVE  Owed'
    <2>1. UNCHANGED <<data, revision, notified>> /\ revision \in Nat
      BY <1>1, <1>8, WatchersOnly DEF kvVars, KVTypeOK
    <2>2. /\ watchLock = Notifier <=> watchLock' = Notifier
          /\ watchLock = Notifier => notice' = notice
          /\ \A id \in watchers' :
               \/ id \in watchers /\ joined'[id] = joined[id] /\ watcher'[id] = watcher[id]
               \/ joined'[id] = revision
          /\ \A q \in Stream : Responses(q) \subseteq Responses(q)'
      BY <1>1, <1>8, LoopsKeep
    <2>3. ASSUME NEW q \in Stream, NEW i \in watchers', NEW j \in notified, ~Broken(q)',
                 watcher'[i].stream = q, joined'[i] < revision,
                 KeyInRange(j, watcher'[i].key, watcher'[i].end)
          PROVE  Pending(i, j)' \/ ToldOf(q, i, j)'
      <3>1. i \in watchers /\ joined'[i] = joined[i] /\ watcher'[i] = watcher[i]
        BY <2>1, <2>2, <2>3
      <3>2. Pending(i, j) \/ ToldOf(q, i, j)
        BY <1>1, <1>3, <2>3, <3>1 DEF Owed
      <3> QED
        BY <2>1, <2>2, <3>2 DEF Pending, ToldOf, EventType
    <2>4. watchLock' = Notifier => notice'.response.type = EventType(notice'.response.key)
      BY <1>1, <2>2 DEF Owed
    <2> QED
      BY <2>1, <2>3, <2>4 DEF Owed, EventType
  <1> QED
    BY <1>4, <1>5, <1>6, <1>7, <1>8 DEF Next, CallbackStep

LEMMA ToldInvariant == Spec => []ToldInv
  <1>1. Init => ToldInv
    BY OrderInit, WMAssumption DEF Init, WMInit, ToldInv, Owed
  <1>2. ToldInv /\ [Next]_vars => ToldInv'
    BY OrderStep, OwedStep DEF ToldInv
  <1> QED
    BY <1>1, <1>2, PTL DEF Spec

(* A watcher registered before a client's put or delete, with no later start
   revision, has the event when the change becomes visible. *)
THEOREM WatchersTold == Spec => RegisteredAreTold
  <1> DEFINE Tells == \A k \in Key, id \in watchers :
                        /\ visible'[k] # visible[k]
                        /\ call.kind \in {"put", "delete"}
                        /\ joined[id] < revision /\ watcher[id].start <= revision
                        /\ KeyInRange(k, watcher[id].key, watcher[id].end)
                        /\ ~Broken(watcher[id].stream)
                        => \E r \in Responses(watcher[id].stream) :
                             /\ r.id = id /\ r.key = k /\ r.revision = revision
                             /\ r.type = IF Present(visible'[k]) THEN "put" ELSE "delete"
  <1>1. ToldInv /\ [Next]_vars => [Tells]_vars
    <2> SUFFICES ASSUME ToldInv, Next, NEW k \in Key, NEW id \in watchers,
                        visible'[k] # visible[k], call.kind \in {"put", "delete"},
                        joined[id] < revision, watcher[id].start <= revision,
                        KeyInRange(k, watcher[id].key, watcher[id].end),
                        ~Broken(watcher[id].stream)
                 PROVE  \E r \in Responses(watcher[id].stream) :
                          /\ r.id = id /\ r.key = k /\ r.revision = revision
                          /\ r.type = IF Present(visible'[k]) THEN "put" ELSE "delete"
      OBVIOUS
    <2>1. /\ FeedInv /\ KVTypeOK /\ WatchTypes /\ WorkApart /\ Owed
      BY ControlHolds DEF ToldInv, OrderInv, StoreInv, ControlInv
    <2>2. visible' # visible
      OBVIOUS
    <2>3. KVNext
      BY <2>2, StoreMoves DEF kvVars
    <2>4. k \in call.told
      BY <2>1, <2>3, ReleaseShows
    <2>5. Release
      BY <2>1, <2>2, StoreSteps, WatchersOnly DEF Next, kvVars
    <2>6. /\ call.told \subseteq notified /\ watchLock # Notifier /\ visible' = data
      BY <2>1, <2>5, StoreSteps
    <2>7. watcher[id].stream \in Stream
      BY <2>1, Ids DEF WorkApart, WatcherType
    <2>8. ToldOf(watcher[id].stream, id, k)
      BY <2>1, <2>4, <2>6, <2>7 DEF Owed, Pending
    <2> QED
      BY <2>6, <2>8 DEF ToldOf, EventType
  <1> QED
    BY <1>1, ToldInvariant, PTL DEF Spec, RegisteredAreTold
=============================================================================
