---------------------------- MODULE WatchManager ----------------------------
(***************************************************************************)
(* The watch manager (class WatchManager, src/watch/watch_manager.cpp) and  *)
(* the loops of the Watch RPC that drive it.                                *)
(*                                                                          *)
(* Every stream has a thread of its own in the server: it reads a request,  *)
(* creates or cancels a watcher, and reads the next.  A watcher is created  *)
(* in steps - the created response, the history, the entry in watchers_ -   *)
(* of which only the last takes the manager's mutex.  Notifications hold it *)
(* throughout, and they come from the threads that change the store.        *)
(*                                                                          *)
(* A write to a stream waits while the client has Window responses unread.  *)
(* It fails once the client is gone.  A write to a stream whose loop has    *)
(* returned uses an object that is gone: the model drops it (or the process *)
(* dies there, which only ends the behaviour early).                        *)
(*                                                                          *)
(* The module is a component: WatchStore conjoins its steps with those of   *)
(* KVStore, which supplies revisions and entries.                           *)
(***************************************************************************)
EXTENDS KeyRange, Sequences

CONSTANTS
  Stream,    \* the streams, and the threads in their loops
  Unlocked,  \* the value of watchLock while nobody holds it
  Notifier,  \* the value of watchLock while a notification holds it
  Window,    \* how many responses of a stream can be under way
  MaxWatch   \* bound: clients create at most this many watchers

ASSUME WMAssumption ==
  /\ Unlocked # Notifier
  /\ {Unlocked, Notifier} \cap Stream = {}
  /\ Window \in Nat \ {0}
  /\ MaxWatch \in Nat

WatchId == 1 .. MaxWatch

VARIABLES
  watchers,     \* the domain of watchers_
  watcher,      \* the stream, key, range and start_revision of every id handed out
  nextWatchId,  \* nextWatchId_
  watchLock,    \* who is inside the manager's mutex_, or Unlocked
  notice,       \* the response a notification sends and the ids yet to get it
  loop,         \* where the loop of each stream is
  client,       \* what the client of each stream did: open, done, gone
  sent,         \* history: the responses written to each stream
  unread        \* how many of them the client has yet to read

wmVars == <<watchers, watcher, nextWatchId, watchLock, notice, loop, client, sent, unread>>

watchTable == <<watchers, watcher, nextWatchId>>
streamVars == <<client, sent, unread>>

(* A response: revision is the header's; key and mod are those of the event's
   entry. *)
Response(id, type, revision, key, mod) ==
  [id |-> id, type |-> type, revision |-> revision, key |-> key, mod |-> mod]

Control(id, type, revision) == Response(id, type, revision, NoEnd, 0)

NoNotice == [response |-> Control(0, "canceled", 0), todo |-> {}]

Reading == [at |-> "read", id |-> 0, revision |-> 0, entries |-> {}]

WMInit ==
  /\ watchers = {}
  /\ watcher = <<>>
  /\ nextWatchId = 1
  /\ watchLock = Unlocked
  /\ notice = NoNotice
  /\ loop = [s \in Stream |-> Reading]
  /\ client = [s \in Stream |-> "open"]
  /\ sent = [s \in Stream |-> <<>>]
  /\ unread = [s \in Stream |-> 0]

-----------------------------------------------------------------------------
(* Writing to a stream: SendWatchResponse. *)

Broken(s) == client[s] = "gone" \/ loop[s].at = "ended"

Writable(s) == Broken(s) \/ unread[s] < Window

Write(s, response) ==
  /\ Writable(s)
  /\ IF Broken(s)
     THEN UNCHANGED streamVars
     ELSE /\ sent' = [sent EXCEPT ![s] = Append(@, response)]
          /\ unread' = [unread EXCEPT ![s] = @ + 1]
          /\ UNCHANGED client

-----------------------------------------------------------------------------
(* The loop of a stream.  Its read returns a request while the client is open,
   and nothing when the client finished or left. *)

At(s, at) == loop[s].at = at

Go(s, at) == loop' = [loop EXCEPT ![s].at = at]

ReadEnd(s) ==
  /\ At(s, "read")
  /\ client[s] # "open"
  /\ Go(s, "ended")
  /\ UNCHANGED <<watchTable, watchLock, notice, streamVars>>

(* The id is taken and the revision for the created response is read. *)
CreateWatcher(s, key, end, start, revision) ==
  /\ At(s, "read")
  /\ client[s] = "open"
  /\ nextWatchId \in WatchId
  /\ watcher' = Append(watcher, [stream |-> s, key |-> key, end |-> end, start |-> start])
  /\ nextWatchId' = nextWatchId + 1
  /\ loop' = [loop EXCEPT ![s] = [at |-> "created", id |-> nextWatchId,
                                  revision |-> revision, entries |-> {}]]
  /\ UNCHANGED <<watchers, watchLock, notice, streamVars>>

AfterCreated(s) ==
  IF Broken(s) THEN "ended"
  ELSE IF watcher[loop[s].id].start > 0 THEN "history"
  ELSE "insert"

\* Mutant: the watcher is registered before its history is sent.
SendCreatedRegisters(s) ==
  /\ At(s, "created")
  /\ watchLock = Unlocked
  /\ Write(s, Control(loop[s].id, "created", loop[s].revision))
  /\ watchers' = IF Broken(s) THEN watchers ELSE watchers \cup {loop[s].id}
  /\ Go(s, AfterCreated(s))
  /\ UNCHANGED <<watcher, nextWatchId, watchLock, notice>>

(* The created response.  When it fails the loop writes a canceled response,
   which fails too, and returns. *)
SendCreated(s) ==
  /\ At(s, "created")
  /\ Write(s, Control(loop[s].id, "created", loop[s].revision))
  /\ Go(s, AfterCreated(s))
  /\ UNCHANGED <<watchTable, watchLock, notice>>

(* The history is the range of the store as it is now, whatever the start
   revision; entries are the keys with their modification revisions. *)
TakeHistory(s, entries) ==
  /\ At(s, "history")
  /\ loop' = [loop EXCEPT ![s].at = "send", ![s].entries = entries]
  /\ UNCHANGED <<watchTable, watchLock, notice, streamVars>>

(* One put event for each entry in the order of the keys; a failed write is
   not looked at. *)
SendHistory(s) ==
  /\ At(s, "send")
  /\ \E e \in loop[s].entries :
       /\ \A other \in loop[s].entries : e.key <= other.key
       /\ Write(s, Response(loop[s].id, "put", e.mod, e.key, e.mod))
       /\ loop' = [loop EXCEPT ![s].entries = @ \ {e}]
  /\ UNCHANGED <<watchTable, watchLock, notice>>

Insert(s) ==
  /\ At(s, "insert") \/ (At(s, "send") /\ loop[s].entries = {})
  /\ watchLock = Unlocked
  /\ watchers' = watchers \cup {loop[s].id}
  /\ loop' = [loop EXCEPT ![s] = Reading]
  /\ UNCHANGED <<watcher, nextWatchId, watchLock, notice, streamVars>>

(* A cancel request may name any id. *)
ReadCancel(s, id) ==
  /\ At(s, "read")
  /\ client[s] = "open"
  /\ loop' = [loop EXCEPT ![s].at = "cancel", ![s].id = id]
  /\ UNCHANGED <<watchTable, watchLock, notice, streamVars>>

\* Mutant: the return for an unknown id leaves the mutex locked.
CancelLockStays(s) ==
  /\ At(s, "cancel")
  /\ watchLock = Unlocked
  /\ watchLock' = s
  /\ IF loop[s].id \in watchers
     THEN Go(s, "canceling")
     ELSE loop' = [loop EXCEPT ![s] = Reading]
  /\ UNCHANGED <<watchTable, notice, streamVars>>

(* The mutex is taken; NOT_FOUND returns at once and is not answered. *)
CancelLock(s) ==
  /\ At(s, "cancel")
  /\ watchLock = Unlocked
  /\ IF loop[s].id \in watchers
     THEN Go(s, "canceling") /\ watchLock' = s
     ELSE loop' = [loop EXCEPT ![s] = Reading] /\ UNCHANGED watchLock
  /\ UNCHANGED <<watchTable, notice, streamVars>>

\* Mutant: the canceled watcher stays in watchers_.
CancelSendKeeps(s) ==
  /\ At(s, "canceling")
  /\ Write(watcher[loop[s].id].stream, Control(loop[s].id, "canceled", 0))
  /\ loop' = [loop EXCEPT ![s] = Reading]
  /\ watchLock' = Unlocked
  /\ UNCHANGED <<watchTable, notice>>

(* The canceled response on the watcher's own stream, and the erasure. *)
CancelSend(s) ==
  /\ At(s, "canceling")
  /\ Write(watcher[loop[s].id].stream, Control(loop[s].id, "canceled", 0))
  /\ watchers' = watchers \ {loop[s].id}
  /\ loop' = [loop EXCEPT ![s] = Reading]
  /\ watchLock' = Unlocked
  /\ UNCHANGED <<watcher, nextWatchId, notice>>

-----------------------------------------------------------------------------
(* NotifyPut and NotifyDelete. *)

\* Mutant: the start of a range is left out.
KeyMatchesWatcherAfterStart(key, id) ==
  /\ KeyInRange(key, watcher[id].key, watcher[id].end)
  /\ watcher[id].end = NoEnd \/ key # watcher[id].key

KeyMatchesWatcher(key, id) == KeyInRange(key, watcher[id].key, watcher[id].end)

(* The map cannot change before the notification is over, so the watchers that
   get it are known now; a watcher in the map is active. *)
Notify(type, revision, key, mod) ==
  /\ watchLock = Unlocked
  /\ watchLock' = Notifier
  /\ notice' = [response |-> Response(0, type, revision, key, mod),
                todo |-> {id \in watchers : KeyMatchesWatcher(key, id)}]
  /\ UNCHANGED <<watchTable, loop, streamVars>>

NotifyOne(id) ==
  /\ watchLock = Notifier
  /\ id \in notice.todo
  /\ Write(watcher[id].stream, [notice.response EXCEPT !.id = id])
  /\ notice' = [notice EXCEPT !.todo = @ \ {id}]
  /\ UNCHANGED <<watchTable, watchLock, loop>>

NotifyEnd ==
  /\ watchLock = Notifier
  /\ notice.todo = {}
  /\ watchLock' = Unlocked
  /\ notice' = NoNotice
  /\ UNCHANGED <<watchTable, loop, streamVars>>

-----------------------------------------------------------------------------
(* The clients. *)

ClientRead(s) ==
  /\ client[s] # "gone"
  /\ unread[s] > 0
  /\ unread' = [unread EXCEPT ![s] = @ - 1]
  /\ UNCHANGED <<watchTable, watchLock, notice, loop, client, sent>>

(* The client sends no more requests, or leaves. *)
ClientEnds(s, how) ==
  /\ client[s] # "gone"
  /\ client[s] # how
  /\ client' = [client EXCEPT ![s] = how]
  /\ UNCHANGED <<watchTable, watchLock, notice, loop, sent, unread>>

-----------------------------------------------------------------------------

(* Every variable has its type; the mutex is held by the loop that cancels or
   by a notification, and only watchers whose creation has ended are in the
   map. *)
WMTypeOK ==
  /\ nextWatchId \in 1 .. MaxWatch + 1
  /\ watcher \in Seq([stream : Stream, key : Key, end : RangeEnd, start : Nat])
  /\ Len(watcher) = nextWatchId - 1
  /\ watchers \subseteq DOMAIN watcher
  /\ watchLock \in Stream \cup {Unlocked, Notifier}
  /\ \A s \in Stream : watchLock = s <=> loop[s].at = "canceling"
  /\ notice.todo \subseteq watchers
  /\ watchLock # Notifier => notice = NoNotice
  /\ \A s \in Stream :
       /\ loop[s].at \in {"read", "created", "history", "send", "insert", "cancel",
                          "canceling", "ended"}
       /\ loop[s].at \in {"created", "history", "send", "insert"} =>
            loop[s].id \in DOMAIN watcher \ watchers
       /\ client[s] \in {"open", "done", "gone"}
       /\ unread[s] \in 0 .. Window
       /\ \A i \in DOMAIN sent[s] : sent[s][i].id \in DOMAIN watcher
=============================================================================
