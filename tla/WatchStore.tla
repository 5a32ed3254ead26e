----------------------------- MODULE WatchStore -----------------------------
(***************************************************************************)
(* The key-value store and the watch manager together, as server.cpp wires  *)
(* them: the store's callbacks are NotifyPut and NotifyDelete, run one by   *)
(* one before a call releases the store's mutex, and the loops of the Watch *)
(* RPC read the store's revision without its mutex and its entries with it. *)
(***************************************************************************)
EXTENDS KVStore, WatchManager

CONSTANTS
  WatchRange,     \* the ranges clients watch: pairs of a key and a range end
  StartRevision,  \* the start revisions they ask for; 0 is none
  ClientEnd       \* how clients end their streams: a subset of
                  \* "done" (no more requests), "gone"

ASSUME WSAssumption ==
  /\ WatchRange \subseteq Key \X RangeEnd
  /\ StartRevision \subseteq Nat
  /\ ClientEnd \subseteq {"done", "gone"}

VARIABLES
  notified,  \* the keys whose callback the call in the mutex has run
  joined     \* history: the store's revision when a watcher was registered

vars == <<kvVars, wmVars, notified, joined>>

Init ==
  /\ KVInit
  /\ WMInit
  /\ notified = {}
  /\ joined = [id \in WatchId |-> 0]

-----------------------------------------------------------------------------
(* The store's side. *)

StoreCall ==
  /\ \E t \in Thread : KVCall(t)
  /\ UNCHANGED <<wmVars, notified, joined>>

StoreStep ==
  /\ PutDetach \/ PutStore \/ (\E k \in Key : EraseKey(k)) \/ EraseDone \/ TxnRange
  /\ UNCHANGED <<wmVars, notified, joined>>

CallingBack == mutex # Free /\ call.todo = <<>>

\* Mutant: a delete event is made from the entry after the erasure.
CallbackErased(k) ==
  /\ CallingBack
  /\ k \in call.told \ notified
  /\ Notify(IF Present(data[k]) THEN "put" ELSE "delete", revision, k, data[k].mod)
  /\ notified' = notified \cup {k}
  /\ UNCHANGED <<kvVars, joined>>

(* The callback for key k: a put event carries the new entry; a delete event
   the entry that was erased, which is the one that was visible before. *)
Callback(k) ==
  /\ CallingBack
  /\ k \in call.told \ notified
  /\ IF Present(data[k])
     THEN Notify("put", revision, k, data[k].mod)
     ELSE Notify("delete", revision, k, visible[k].mod)
  /\ notified' = notified \cup {k}
  /\ UNCHANGED <<kvVars, joined>>

CallbackStep ==
  /\ (\E id \in WatchId : NotifyOne(id)) \/ NotifyEnd
  /\ UNCHANGED <<kvVars, notified, joined>>

Release ==
  /\ Unlock
  /\ call.told \subseteq notified
  /\ watchLock # Notifier
  /\ notified' = {}
  /\ UNCHANGED <<wmVars, joined>>

-----------------------------------------------------------------------------
(* The loops of the Watch RPC. *)

Create(s) ==
  /\ \E r \in WatchRange, start \in StartRevision :
       CreateWatcher(s, r[1], r[2], start, revision)
  /\ UNCHANGED <<kvVars, notified, joined>>

\* Mutant: the history is that of the watcher's first key.
EntriesFirst(id) ==
  {[key |-> k, mod |-> data[k].mod] : k \in StoredKeys \cap {watcher[id].key}}

Entries(id) ==
  {[key |-> k, mod |-> data[k].mod] :
     k \in KeysInRange(StoredKeys, watcher[id].key, watcher[id].end)}

History(s) ==
  /\ mutex = Free
  /\ TakeHistory(s, Entries(loop[s].id))
  /\ UNCHANGED <<kvVars, notified, joined>>

Register(s) ==
  /\ Insert(s)
  /\ joined' = [joined EXCEPT ![loop[s].id] = revision]
  /\ UNCHANGED <<kvVars, notified>>

CancelRequest(s) ==
  /\ \E id \in WatchId : ReadCancel(s, id)
  /\ UNCHANGED <<kvVars, notified, joined>>

LoopStep(s) ==
  /\ SendCreated(s) \/ SendHistory(s) \/ CancelSend(s) \/ ReadEnd(s)
  /\ UNCHANGED <<kvVars, notified, joined>>

Cancel(s) ==
  /\ CancelLock(s)
  /\ UNCHANGED <<kvVars, notified, joined>>

Client(s) ==
  /\ ClientRead(s) \/ \E how \in ClientEnd : ClientEnds(s, how)
  /\ UNCHANGED <<kvVars, notified, joined>>

Next ==
  \/ StoreCall
  \/ StoreStep
  \/ \E k \in Key : Callback(k)
  \/ CallbackStep
  \/ Release
  \/ \E s \in Stream :
       Create(s) \/ History(s) \/ Register(s) \/ CancelRequest(s) \/ LoopStep(s)
         \/ Cancel(s) \/ Client(s)

(* Threads inside a mutex keep running, and clients keep reading.  Strong
   fairness where a thread waits for a mutex is what std::mutex is trusted for:
   it is not passed over for ever. *)
Spec ==
  /\ Init /\ [][Next]_vars
  /\ WF_vars(StoreStep) /\ WF_vars(CallbackStep) /\ WF_vars(Release)
  /\ SF_vars(\E k \in Key : Callback(k))
  /\ \A s \in Stream :
       /\ WF_vars(LoopStep(s))
       /\ SF_vars(History(s)) /\ SF_vars(Register(s)) /\ SF_vars(Cancel(s))
       /\ WF_vars(ClientRead(s) /\ UNCHANGED <<kvVars, notified, joined>>)

-----------------------------------------------------------------------------
(* Properties. *)

(* The types of both components; keys are notified by a call that is through
   with its operations, and a notification is that call's. *)
TypeOK ==
  /\ KVTypeOK
  /\ WMTypeOK
  /\ joined \in [WatchId -> 0 .. revision]
  /\ notified \subseteq call.told
  /\ notified # {} => CallingBack
  /\ watchLock = Notifier => notice.response.key \in notified

IsEvent(r) == r.type \in {"put", "delete"}

(* What may come after `earlier' on a stream: a watcher's first response is the
   created response, it gets nothing once canceled, and the events for one key
   come by ascending revision. *)
Follows(r, earlier) ==
  /\ r.type = "created" <=> \A q \in earlier : q.id # r.id
  /\ \A q \in earlier : q.id = r.id =>
       /\ q.type # "canceled"
       /\ IsEvent(q) /\ IsEvent(r) /\ q.key = r.key => q.revision < r.revision

(* What a watcher gets is in order, whether its events come from the history or
   from the store, although three threads write to a stream with different
   locks; no event comes twice. *)
FeedInOrder ==
  \A s \in Stream : \A j \in DOMAIN sent[s] :
    Follows(sent[s][j], {sent[s][i] : i \in 1 .. j - 1})

(* The responses written to a stream. *)
Responses(s) == {sent[s][i] : i \in DOMAIN sent[s]}

(* What event r tells of an entry comes after event q for the same key. *)
TellsLater(q, r) ==
  /\ q.revision <= r.mod
  /\ q.type = "delete" => q.revision < r.mod

(* The modification revision in an event brings the watcher something new: no
   event for the key that it got before is later.  A put's is the put's own
   revision.  A delete's is that of a write and no later than the deletion: the
   protocol wants the deletion's own (kv.proto:43), the server sends that of the
   entry it deleted, and the property leaves open which. *)
EventsAreNews ==
  \A s \in Stream :
    /\ \A r \in Responses(s) : IsEvent(r) =>
         /\ 1 < r.mod
         /\ IF r.type = "put" THEN r.mod = r.revision ELSE r.mod <= r.revision
    /\ \A i, j \in DOMAIN sent[s] :
         LET q == sent[s][i]
             r == sent[s][j]
         IN  i < j /\ q.id = r.id /\ IsEvent(q) /\ IsEvent(r) /\ q.key = r.key
               => TellsLater(q, r)

(* A watcher that is registered when a client's put or delete begins, and still
   is when it ends, has been written the event of every change it watches
   before the change becomes visible, unless its stream is broken or it asked
   for a later start revision. *)
RegisteredAreTold ==
  [][\A k \in Key, id \in watchers :
       /\ visible'[k] # visible[k]
       /\ call.kind \in {"put", "delete"}
       /\ joined[id] < revision /\ watcher[id].start <= revision
       /\ KeyInRange(k, watcher[id].key, watcher[id].end)
       /\ ~Broken(watcher[id].stream)
       => \E r \in Responses(watcher[id].stream) :
            /\ r.id = id /\ r.key = k /\ r.revision = revision
            /\ r.type = IF Present(visible'[k]) THEN "put" ELSE "delete"]_vars

(* The events that watcher id got on stream s for key k, the latest of events,
   and what they say of the entry of their key. *)
EventsOf(s, id, k) == {r \in Responses(s) : r.id = id /\ IsEvent(r) /\ r.key = k}

Latest(events) == {r \in events : \A q \in events : q.revision <= r.revision}

Show(events, e) ==
  IF Present(e)
  THEN \E r \in Latest(events) : r.type = "put" /\ r.mod = e.mod
  ELSE \A r \in Latest(events) : r.type = "delete"

CreatedAt(s, id, r) ==
  \E response \in Responses(s) :
    response.id = id /\ response.type = "created" /\ response.revision = r

(* History and events make a whole: a client that gave a start revision, and
   whose watcher was created and registered with no call beginning in between,
   can rebuild the part of the store it watches as far as its entries are no
   older than the start revision: the last event for such a key is the put of its
   entry, and for a key that is not there, a delete if any.  This needs clients
   that use neither transactions nor leases. *)
HistoryThenEvents ==
  mutex = Free =>
    \A s \in Stream, id \in watchers, k \in Key :
      /\ watcher[id].stream = s /\ ~Broken(s)
      /\ watcher[id].start > 0
      /\ CreatedAt(s, id, joined[id])
      /\ KeyInRange(k, watcher[id].key, watcher[id].end)
      /\ Present(visible[k]) => watcher[id].start <= visible[k].mod
      => Show(EventsOf(s, id, k), visible[k])

(* Every request that the loop of a stream read is done with in the end. *)
RequestServed == \A s \in Stream : ~At(s, "read") ~> (At(s, "read") \/ At(s, "ended"))

-----------------------------------------------------------------------------
(* What the protocol files and comments say and this server does not do. *)

(* "No start_revision is 'now'" (rpc.proto:702): whatever is put after the
   revision of the created response is reported. *)
NothingMissed ==
  mutex = Free =>
    \A s \in Stream, id \in watchers, k \in Key :
      /\ watcher[id].stream = s /\ ~Broken(s)
      /\ watcher[id].start = 0
      /\ KeyMatchesWatcher(k, id)
      /\ \E r \in 0 .. visible[k].mod - 1 : CreatedAt(s, id, r)
      => \E r \in EventsOf(s, id, k) : r.mod = visible[k].mod

(* "lifetime managed by gRPC framework" (watch_manager.h:46): the stream of a
   watcher that is about to be written to has not ended. *)
StreamsAlive == \A id \in notice.todo : ~At(watcher[id].stream, "ended")
=============================================================================
