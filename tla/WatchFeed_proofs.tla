--------------------------- MODULE WatchFeed_proofs ---------------------------
(***************************************************************************)
(* What a client can tell from the events its watcher gets, for every set   *)
(* of keys, threads, streams and ranges, every window and every bound: that *)
(* each brings something new, for any transactions and leases; and, where   *)
(* clients use neither, that the history and the events make a whole.       *)
(***************************************************************************)
EXTENDS WatchStore_proofs

-----------------------------------------------------------------------------
(* What the modification revision in an event tells: the invariant. *)

(* What the call in the mutex has told so far: a put what it wrote, a delete
   what was visible and is erased, the others nothing. *)
ToldShown ==
  /\ call.told # {} => call.kind \in {"put", "delete"}
  /\ call.kind = "put" =>
       \/ /\ Len(call.todo) = 1 /\ Head(call.todo).type = "put"
          /\ call.told = {Head(call.todo).key}
       \/ /\ call.todo = <<>>
          /\ \A k \in call.told : Present(data[k]) /\ data[k].mod = revision
  /\ call.kind = "delete" => \A k \in call.told : ~Present(data[k]) /\ Present(visible[k])

(* The visible entries are older than the call in the mutex. *)
VisibleOlder ==
  \A k \in Key : Present(visible[k]) =>
    /\ 1 < visible[k].mod
    /\ visible[k].mod <= revision
    /\ mutex # Free => visible[k].mod < revision

(* A notification carries the entry that was put or erased. *)
NoticeTells ==
  watchLock = Notifier =>
    IF Present(data[notice.response.key])
    THEN notice.response.type = "put" /\ notice.response.mod = revision
    ELSE /\ notice.response.type = "delete"
         /\ Present(visible[notice.response.key])
         /\ notice.response.mod = visible[notice.response.key].mod

(* An event for key k is older than the visible entry of k: it tells of this
   entry or of one before. *)
Past(k, type, rev) ==
  Present(visible[k]) => rev <= visible[k].mod /\ (type = "delete" => rev < visible[k].mod)

(* Events tell of the visible entries or, at the revision of the call in the
   mutex, of those that it leaves. *)
SentTells ==
  \A s \in Stream : \A r \in Responses(s) : IsEvent(r) =>
    /\ r.key \in Key
    /\ IF mutex # Free /\ r.revision = revision
       THEN r.type = "put" <=> Present(data[r.key])
       ELSE Past(r.key, r.type, r.revision)

EntriesPast ==
  \A s \in Stream : loop[s].at = "send" =>
    \A e \in loop[s].entries : 1 < e.mod /\ Past(e.key, "put", e.mod)

EventParts == ToldShown /\ VisibleOlder /\ NoticeTells /\ SentTells /\ EntriesPast

EventInv == OrderInv /\ EventParts /\ EventsAreNews

(* The parts of the invariant that its steps need. *)
LEMMA EventHas ==
  ASSUME EventInv
  PROVE  /\ OrderInv /\ StoreInv /\ OrderParts /\ EventParts /\ EventsAreNews
         /\ FeedInv /\ MapInv /\ RevisionInv
         /\ ControlInv /\ KVTypeOK /\ WatchTypes /\ WorkApart /\ CallbackOrder
         /\ revision \in Nat /\ visible \in [Key -> Entry] /\ data \in [Key -> Entry]
         /\ Notifier \notin Stream /\ Unlocked # Notifier
  BY ControlHolds, WMAssumption
     DEF EventInv, OrderInv, StoreInv, FeedInv, MapInv, ControlInv, KVTypeOK

-----------------------------------------------------------------------------
(* The store's side. *)

(* What was told stays true while the call goes on. *)
LEMMA ToldShownStep ==
  ASSUME FeedInv, ToldShown, [KVNext]_kvVars
  PROVE  ToldShown'
  <1>1. KVTypeOK /\ Reported /\ call \in Call /\ call.todo \in Seq(Request)
    BY DEF FeedInv, MapInv, RevisionInv, KVTypeOK, Call
  <1>2. ASSUME NEW t \in Thread, KVCall(t)
        PROVE  ToldShown'
    <2>1. CASE \E k \in Key, v \in Value, l \in LeaseName : Put(t, k, v, l)
      BY <2>1 DEF Put, Lock, PutRequest, ToldShown
    <2>2. CASE \/ \E k \in Key, end \in RangeEnd : DeleteRange(t, k, end)
               \/ \E txn \in TxnRequest : Txn(t, txn)
               \/ \E k \in Key : LeaseDelete(t, k)
      <3>1. call'.told = {} /\ call'.kind # "put"
        BY <2>2 DEF DeleteRange, Txn, LeaseDelete, Lock
      <3> QED
        BY <3>1 DEF ToldShown
    <2> QED
      BY <1>2, <2>1, <2>2 DEF KVCall
  <1>3. ASSUME call.todo # <<>>
        PROVE  /\ call.kind = "put" => Head(call.todo).type = "put"
               /\ call.kind = "delete" => Head(call.todo).type = "delete"
    BY <1>1, <1>3, Elements DEF Reported
  <1>4. CASE PutDetach
    BY <1>1, <1>4 DEF PutDetach, Call, ToldShown
  <1>5. CASE PutStore
    <2>1. /\ call.todo # <<>> /\ Head(call.todo).type = "put" /\ UNCHANGED <<visible, revision>>
          /\ data' = [data EXCEPT ![Head(call.todo).key] = PutEntry(@, Head(call.todo), revision)]
          /\ call'.kind = call.kind /\ call'.told = call.told /\ call'.todo = Tail(call.todo)
      BY <1>1, <1>5 DEF PutStore, Busy, Call
    <2>2. CASE call.kind = "put"
      <3>1. call'.todo = <<>> /\ call.told = {Head(call.todo).key}
        <4>1. Len(call.todo) = 1 /\ call.told = {Head(call.todo).key}
          BY <2>1, <2>2 DEF ToldShown
        <4>2. Tail(call.todo) \in Seq(Request) /\ Len(Tail(call.todo)) = Len(call.todo) - 1
          BY <1>1, <2>1, HeadTailProperties
        <4>3. Len(Tail(call.todo)) = 0
          BY <4>1, <4>2
        <4>4. Tail(call.todo) = <<>>
          BY <4>2, <4>3, EmptySeq
        <4> QED
          BY <2>1, <4>1, <4>4
      <3>2. Head(call.todo).key \in Key /\ Head(call.todo) \in Request
        <4>1. Head(call.todo) \in Request
          BY <1>1, <2>1, HeadTailProperties
        <4> QED
          BY <4>1 DEF Request
      <3>3. /\ data'[Head(call.todo).key] =
                PutEntry(data[Head(call.todo).key], Head(call.todo), revision)
            /\ data[Head(call.todo).key] \in Entry /\ revision \in Nat
        BY <1>1, <2>1, <3>2 DEF KVTypeOK
      <3>4. Present(data'[Head(call.todo).key]) /\ data'[Head(call.todo).key].mod = revision
        BY <3>2, <3>3, PutEntryType DEF PutEntry
      <3> QED
        BY <2>1, <2>2, <3>1, <3>4 DEF ToldShown
    <2>3. CASE call.kind # "put"
      BY <1>3, <2>1, <2>3 DEF ToldShown
    <2> QED
      BY <2>2, <2>3
  <1>6. ASSUME NEW k \in Key, EraseKey(k)
        PROVE  ToldShown'
    <2>1. /\ call.todo # <<>> /\ Head(call.todo).type = "delete" /\ UNCHANGED <<visible, revision>>
          /\ Present(data[k]) /\ data' = [data EXCEPT ![k] = Absent]
          /\ call'.kind = call.kind /\ call'.todo = call.todo
          /\ IF call.kind = "delete" THEN call'.told = call.told \cup {k} ELSE call' = call
      BY <1>1, <1>6 DEF EraseKey, Busy, Call, KeysToDelete, KeysInRange
    <2>2. \A j \in Key : data'[j] = IF j = k THEN Absent ELSE data[j]
      BY <1>1, <2>1 DEF KVTypeOK
    <2>3. CASE call.kind = "delete"
      <3>1. Present(visible[k])
        BY <1>1, <2>1, <2>3 DEF Reported, ToldShown
      <3>2. call.told \subseteq Key
        BY <1>1 DEF Call
      <3> QED
        BY <2>1, <2>2, <2>3, <3>1, <3>2 DEF ToldShown, Present
    <2>4. CASE call.kind # "delete"
      BY <1>3, <2>1, <2>4 DEF ToldShown
    <2> QED
      BY <2>3, <2>4
  <1>7. CASE EraseDone \/ TxnRange
    <2>1. /\ call.todo # <<>> /\ Head(call.todo).type # "put"
          /\ UNCHANGED <<data, visible, revision>>
          /\ call'.kind = call.kind /\ call'.told = call.told
      BY <1>1, <1>7 DEF EraseDone, TxnRange, Busy, Call
    <2> QED
      BY <1>3, <2>1 DEF ToldShown
  <1>8. CASE Unlock
    BY <1>8 DEF Unlock, Idle, ToldShown
  <1>9. CASE UNCHANGED kvVars
    BY <1>9 DEF kvVars, ToldShown
  <1> QED
    BY <1>2, <1>4, <1>5, <1>6, <1>7, <1>8, <1>9 DEF KVNext, KVProceed

(* Entries become visible with a release, and then no call is in the mutex. *)
LEMMA VisibleOlderStep ==
  ASSUME FeedInv, VisibleOlder, [KVNext]_kvVars
  PROVE  VisibleOlder'
  <1>1. /\ KVTypeOK /\ RevisionOrder /\ revision \in Nat
        /\ visible \in [Key -> Entry] /\ data \in [Key -> Entry]
    BY DEF FeedInv, MapInv, RevisionInv, KVTypeOK
  <1>2. \A k \in Key : visible[k].mod \in Nat /\ data[k].mod \in Nat /\ data[k].create \in Nat
    BY <1>1 DEF Entry
  <1>3. ASSUME NEW t \in Thread, KVCall(t)
        PROVE  VisibleOlder'
    <2>1. revision' = revision + 1 /\ UNCHANGED visible
      BY <1>3, CallLocks DEF Locks, Lock
    <2> QED
      BY <1>1, <1>2, <2>1 DEF VisibleOlder
  <1>4. CASE Unlock
    <2>1. visible' = data /\ mutex' = Free /\ UNCHANGED revision
      BY <1>4 DEF Unlock
    <2>2. \A k \in Key : Present(data[k]) => 1 < data[k].mod /\ data[k].mod <= revision
      BY <1>1, <1>2 DEF RevisionOrder, Versioned
    <2> QED
      BY <2>1, <2>2 DEF VisibleOlder
  <1>5. CASE UNCHANGED <<visible, revision, mutex>>
    BY <1>5 DEF VisibleOlder
  <1> QED
    BY <1>3, <1>4, <1>5
       DEF KVNext, KVProceed, PutDetach, PutStore, EraseKey, EraseDone, TxnRange, kvVars

(* The steps of the store: the events of a call become part of the past when
   what it leaves becomes visible. *)
LEMMA EventsStore ==
  ASSUME EventInv, StoreCall \/ StoreStep \/ Release
  PROVE  EventParts' /\ EventsAreNews'
  <1>1. /\ StoreInv /\ OrderParts /\ EventParts /\ EventsAreNews /\ FeedInv /\ Uncommitted
        /\ KVTypeOK /\ WatchTypes /\ CallbackOrder /\ revision \in Nat
        /\ visible \in [Key -> Entry] /\ data \in [Key -> Entry]
    BY EventHas DEF MapInv
  <1>2. [KVNext]_kvVars
    BY StoreMoves DEF Next
  <1>3. ToldShown' /\ VisibleOlder'
    BY <1>1, <1>2, ToldShownStep, VisibleOlderStep DEF EventParts
  <1>4. UNCHANGED <<loop, sent, watchLock>> /\ watchLock # Notifier
    BY <1>1, StoreSteps, NoCallback DEF wmVars
  <1>5. \A s \in Stream : Responses(s)' = Responses(s)
    BY <1>4, ResponsesKept
  <1>6. NoticeTells' /\ EventsAreNews'
    BY <1>1, <1>4, <1>5 DEF NoticeTells, EventsAreNews
  <1>7. ASSUME NEW s \in Stream, NEW r \in Responses(s), IsEvent(r)
        PROVE  r.revision \in Nat /\ r.revision <= revision
    BY <1>1, <1>7, ResponsesTyped DEF ResponseType, OrderParts, EventsPast
  <1>8. ASSUME NEW s \in Stream, loop[s].at = "send", NEW e \in loop[s].entries
        PROVE  e.key \in Key /\ e.mod \in Nat /\ 1 < e.mod /\ e.mod <= revision
               /\ (mutex # Free => e.mod < revision) /\ Past(e.key, "put", e.mod)
    BY <1>1, <1>8 DEF EventParts, EntriesPast, OrderParts, LoopFeeds, WatchTypes, LoopType
  <1>9. CASE StoreCall
    <2>1. mutex = Free /\ revision' = revision + 1 /\ UNCHANGED visible
      BY <1>1, <1>9, StoreSteps
    <2>2. ASSUME NEW s \in Stream, NEW r \in Responses(s), IsEvent(r)
          PROVE  r.revision # revision' /\ r.key \in Key /\ Past(r.key, r.type, r.revision)'
      BY <1>1, <1>7, <2>1, <2>2 DEF EventParts, SentTells, Past
    <2>3. SentTells'
      BY <1>5, <2>2 DEF SentTells
    <2>4. EntriesPast'
      BY <1>4, <1>8, <2>1 DEF EntriesPast, Past
    <2> QED
      BY <1>3, <1>6, <2>3, <2>4 DEF EventParts
  <1>10. CASE StoreStep
    <2>1. call.todo # <<>> /\ UNCHANGED <<revision, mutex, visible>>
      BY <1>1, <1>10, StoreSteps
    <2>2. notified = {}
      BY <1>1, <2>1, NoCallback
    <2>3. ASSUME NEW s \in Stream, NEW r \in Responses(s), IsEvent(r)
          PROVE  /\ ~(mutex # Free /\ r.revision = revision)
                 /\ r.key \in Key /\ Past(r.key, r.type, r.revision)
      BY <1>1, <2>2, <2>3 DEF EventParts, SentTells, OrderParts, EventsPast
    <2>4. SentTells'
      BY <1>5, <2>1, <2>3 DEF SentTells, Past
    <2>5. EntriesPast'
      BY <1>4, <1>8, <2>1 DEF EntriesPast, Past
    <2> QED
      BY <1>3, <1>6, <2>4, <2>5 DEF EventParts
  <1>11. CASE Release
    <2>1. /\ mutex # Free /\ mutex' = Free /\ visible' = data /\ UNCHANGED <<revision, data>>
          /\ call.todo = <<>>
      BY <1>1, <1>11, StoreSteps DEF Release, Unlock
    <2>2. ASSUME NEW k \in Key, Present(data[k])
          PROVE  data[k].mod \in Nat /\ (data[k] = visible[k] \/ data[k].mod = revision)
      BY <1>1, <2>1, <2>2
         DEF Uncommitted, Committed!Follows, Committed!Stamped, Present, Entry
    <2>3. ASSUME NEW k \in Key, NEW type, NEW rev \in Nat, rev < revision, Past(k, type, rev)
          PROVE  Past(k, type, rev)'
      BY <1>1, <2>1, <2>2, <2>3 DEF Past
    <2>4. ASSUME NEW s \in Stream, NEW r \in Responses(s), IsEvent(r)
          PROVE  r.key \in Key /\ Past(r.key, r.type, r.revision)'
      <3> SUFFICES Past(r.key, r.type, r.revision)'
        BY <1>1, <2>4 DEF EventParts, SentTells
      <3>1. CASE r.revision = revision
        <4>1. r.key \in notified /\ (r.type = "put" <=> Present(data[r.key]))
          BY <1>1, <2>1, <2>4, <3>1 DEF OrderParts, EventsPast, EventParts, SentTells
        <4>2. Present(data[r.key]) => data[r.key].mod = revision
          BY <1>1, <2>1, <4>1 DEF EventParts, ToldShown, CallbackOrder
        <4> QED
          BY <1>1, <2>1, <2>4, <3>1, <4>1, <4>2 DEF Past, IsEvent
      <3>2. CASE r.revision # revision
        <4>1. Past(r.key, r.type, r.revision) /\ r.revision < revision
          BY <1>1, <1>7, <2>4, <3>2 DEF EventParts, SentTells
        <4>2. r.key \in Key
          BY <1>1, <2>4 DEF EventParts, SentTells
        <4> QED
          BY <1>7, <2>3, <2>4, <4>1, <4>2
      <3> QED
        BY <3>1, <3>2
    <2>5. SentTells'
      BY <1>5, <2>1, <2>4 DEF SentTells
    <2>6. ASSUME NEW s \in Stream, loop[s].at = "send", NEW e \in loop[s].entries
          PROVE  1 < e.mod /\ Past(e.key, "put", e.mod)'
      BY <1>8, <2>1, <2>3, <2>6
    <2>7. EntriesPast'
      BY <1>4, <2>6 DEF EntriesPast
    <2> QED
      BY <1>3, <1>6, <2>5, <2>7 DEF EventParts
  <1> QED
    BY <1>9, <1>10, <1>11

-----------------------------------------------------------------------------
(* What is written to a stream. *)

(* A response that may be written next. *)
MayFollow(s, r) ==
  IsEvent(r) =>
    /\ r.key \in Key
    /\ 1 < r.mod
    /\ IF r.type = "put" THEN r.mod = r.revision ELSE r.mod <= r.revision
    /\ \A q \in Responses(s) : q.id = r.id /\ IsEvent(q) /\ q.key = r.key => TellsLater(q, r)
    /\ IF mutex # Free /\ r.revision = revision
       THEN r.type = "put" <=> Present(data[r.key])
       ELSE Past(r.key, r.type, r.revision)

LEMMA EventsKept ==
  ASSUME EventsAreNews, SentTells, UNCHANGED <<sent, kvVars>>
  PROVE  EventsAreNews' /\ SentTells'
  BY ResponsesKept DEF EventsAreNews, SentTells, Past, kvVars

LEMMA EventWritten ==
  ASSUME WatchTypes, EventsAreNews, SentTells, NEW s \in Stream, NEW r \in ResponseType,
         Write(s, r), MayFollow(s, r), UNCHANGED kvVars
  PROVE  EventsAreNews' /\ SentTells'
  <1>1. CASE UNCHANGED sent
    BY <1>1, EventsKept
  <1>2. CASE Sends(s, r)
    <2>1. /\ sent' = [sent EXCEPT ![s] = Append(@, r)] /\ Responses(s)' = Responses(s) \cup {r}
          /\ \A q \in Stream : q # s => Responses(q)' = Responses(q)
          /\ sent \in [Stream -> Seq(ResponseType)] /\ sent[s] \in Seq(ResponseType)
      BY <1>2 DEF Sends, WatchTypes
    <2> DEFINE n == Len(sent[s]) + 1
    <2>2. /\ DOMAIN sent[s] = 1 .. n - 1 /\ DOMAIN sent'[s] = 1 .. n /\ n \in Nat
          /\ sent'[s][n] = r /\ \A i \in 1 .. n - 1 : sent'[s][i] = sent[s][i]
          /\ \A q \in Stream : q # s => sent'[q] = sent[q]
      BY <2>1
    <2>3. \A i \in 1 .. n - 1 : sent'[s][i] \in Responses(s)
      BY <2>2 DEF Responses
    <2> HIDE DEF n
    <2>4. ASSUME NEW i \in 1 .. n, NEW j \in 1 .. n, i < j,
                 sent'[s][i].id = sent'[s][j].id, IsEvent(sent'[s][i]), IsEvent(sent'[s][j]),
                 sent'[s][i].key = sent'[s][j].key
          PROVE  TellsLater(sent'[s][i], sent'[s][j])
      <3>1. i \in 1 .. n - 1 /\ (j # n => j \in 1 .. n - 1)
        BY <2>2, <2>4
      <3>2. CASE j = n
        BY <2>2, <2>3, <2>4, <3>1, <3>2 DEF MayFollow
      <3>3. CASE j # n
        BY <2>2, <2>4, <3>1, <3>3 DEF EventsAreNews
      <3> QED
        BY <3>2, <3>3
    <2>5. EventsAreNews'
      <3>1. ASSUME NEW x \in Responses(s)', IsEvent(x)
            PROVE  1 < x.mod /\ IF x.type = "put" THEN x.mod = x.revision ELSE x.mod <= x.revision
        BY <2>1, <3>1 DEF EventsAreNews, MayFollow
      <3>2. ASSUME NEW q \in Stream, q # s
            PROVE  sent'[q] = sent[q] /\ Responses(q)' = Responses(q)
        BY <2>1, <2>2, <3>2
      <3> QED
        BY <2>2, <2>4, <3>1, <3>2 DEF EventsAreNews
    <2>6. SentTells'
      BY <1>2, <2>1 DEF SentTells, MayFollow, Past, kvVars
    <2> QED
      BY <2>5, <2>6
  <1> QED
    BY <1>1, <1>2, Written

(* A callback announces what the call did to a key. *)
LEMMA EventsCallback ==
  ASSUME EventInv, NEW k \in Key, Callback(k)
  PROVE  EventParts' /\ EventsAreNews'
  <1>1. /\ EventParts /\ EventsAreNews
        /\ UNCHANGED <<kvVars, loop, sent>> /\ k \in call.told /\ mutex # Free /\ call.todo = <<>>
        /\ notice'.response.key = k
        /\ IF Present(data[k])
           THEN notice'.response.type = "put" /\ notice'.response.mod = data[k].mod
           ELSE notice'.response.type = "delete" /\ notice'.response.mod = visible[k].mod
    BY EventHas DEF Callback, CallingBack, Notify, Response, streamVars
  <1>2. IF Present(data[k]) THEN data[k].mod = revision ELSE Present(visible[k])
    BY <1>1 DEF EventParts, ToldShown
  <1>3. NoticeTells'
    BY <1>1, <1>2 DEF NoticeTells, kvVars
  <1>4. ToldShown' /\ VisibleOlder' /\ EntriesPast'
    BY <1>1 DEF EventParts, ToldShown, VisibleOlder, EntriesPast, Past, kvVars
  <1>5. EventsAreNews' /\ SentTells'
    BY <1>1, EventsKept DEF EventParts
  <1> QED
    BY <1>3, <1>4, <1>5 DEF EventParts

(* A notification tells of the entry that was put at this revision, or of the
   visible one; the events before it are not later than that. *)
LEMMA EventsNotifyOne ==
  ASSUME EventInv, NEW id \in WatchId, NotifyOne(id), UNCHANGED kvVars
  PROVE  EventParts' /\ EventsAreNews'
  <1>1. /\ StoreInv /\ OrderParts /\ EventParts /\ EventsAreNews
        /\ KVTypeOK /\ WatchTypes /\ WorkApart /\ CallbackOrder /\ revision \in Nat
        /\ visible \in [Key -> Entry] /\ data \in [Key -> Entry]
    BY EventHas
  <1> DEFINE s == watcher[id].stream
             r == [notice.response EXCEPT !.id = id]
  <1>2. /\ watchLock = Notifier /\ id \in notice.todo /\ id \in watchers /\ Write(s, r)
        /\ notice' = [notice EXCEPT !.todo = @ \ {id}] /\ UNCHANGED <<watchLock, loop>>
    BY <1>1 DEF NotifyOne, watchTable, WorkApart
  <1>3. s \in Stream
    BY <1>1, <1>2, Ids DEF WorkApart, WatcherType
  <1>4. /\ r \in ResponseType /\ r.id = id /\ r.key = notice.response.key
        /\ r.revision = revision /\ r.type = notice.response.type /\ r.mod = notice.response.mod
        /\ notice'.response = notice.response
    BY <1>1, <1>2 DEF WatchTypes, NoticeType, ResponseType, OrderParts, NoticeNew
  <1>5. mutex # Free /\ call.told \subseteq Key /\ r.key \in call.told
    BY <1>1, <1>2, <1>4, NoCallback DEF CallbackOrder, KVTypeOK, Call
  <1> HIDE DEF s, r
  <1>6. /\ IF Present(data[r.key])
           THEN r.type = "put" /\ r.mod = revision
           ELSE r.type = "delete" /\ Present(visible[r.key]) /\ r.mod = visible[r.key].mod
        /\ revision > 1 /\ visible[r.key].mod \in Nat
        /\ Present(visible[r.key]) => 1 < visible[r.key].mod /\ visible[r.key].mod < revision
    <2>1. Present(visible[r.key]) => 1 < visible[r.key].mod /\ visible[r.key].mod < revision
      BY <1>1, <1>5 DEF EventParts, VisibleOlder
    <2>2. visible[r.key].mod \in Nat
      BY <1>1, <1>5 DEF Entry
    <2>3. Present(data[r.key]) => revision > 1
      <3>1. /\ RevisionOrder /\ r.key \in Key
            /\ data[r.key].create \in Nat /\ data[r.key].mod \in Nat
        BY <1>1, <1>5, EventHas DEF RevisionInv, Entry
      <3> QED
        BY <1>1, <3>1 DEF RevisionOrder, Versioned
    <2>4. IF Present(data[r.key])
          THEN r.type = "put" /\ r.mod = revision
          ELSE r.type = "delete" /\ Present(visible[r.key]) /\ r.mod = visible[r.key].mod
      BY <1>1, <1>2, <1>4 DEF EventParts, NoticeTells
    <2> QED
      BY <1>1, <2>1, <2>2, <2>3, <2>4
  <1>7. ASSUME NEW q \in Responses(s), q.id = r.id, IsEvent(q), q.key = r.key
        PROVE  TellsLater(q, r)
    <2>1. q.revision \in Nat /\ q.revision < revision
      BY <1>1, <1>2, <1>3, <1>4, <1>7, ResponsesTyped DEF OrderParts, NoticeNew, ResponseType
    <2>2. Past(r.key, q.type, q.revision)
      BY <1>1, <1>3, <1>7, <2>1 DEF EventParts, SentTells
    <2> QED
      BY <1>1, <1>6, <2>1, <2>2 DEF TellsLater, Past
  <1>8. MayFollow(s, r)
    BY <1>1, <1>4, <1>5, <1>6, <1>7 DEF MayFollow
  <1>9. EventsAreNews' /\ SentTells'
    BY <1>1, <1>2, <1>3, <1>4, <1>8, EventWritten DEF EventParts
  <1>10. ToldShown' /\ VisibleOlder' /\ EntriesPast' /\ NoticeTells'
    BY <1>1, <1>2, <1>4
       DEF EventParts, ToldShown, VisibleOlder, EntriesPast, Past, NoticeTells, kvVars
  <1> QED
    BY <1>9, <1>10 DEF EventParts

(* A loop sends the entries it has left, or the visible ones that it takes. *)
LEMMA EventsLoops ==
  ASSUME EventInv, NEW s \in Stream,
         Create(s) \/ History(s) \/ Register(s) \/ CancelRequest(s) \/ LoopStep(s)
           \/ Cancel(s) \/ Client(s)
  PROVE  EventParts' /\ EventsAreNews'
  <1>1. /\ StoreInv /\ OrderParts /\ EventParts /\ EventsAreNews /\ ControlInv
        /\ KVTypeOK /\ WatchTypes /\ WorkApart /\ revision \in Nat /\ Uncommitted
        /\ visible \in [Key -> Entry] /\ data \in [Key -> Entry]
        /\ loop \in [Stream -> LoopType] /\ loop[s] \in LoopType
    BY EventHas DEF MapInv, WatchTypes
  <1>2. UNCHANGED kvVars
    BY WatchersOnly
  <1>3. ToldShown' /\ VisibleOlder' /\ NoticeTells'
    BY <1>1, <1>2, LoopsKeep DEF EventParts, ToldShown, VisibleOlder, NoticeTells, kvVars
  <1>4. ASSUME UNCHANGED sent,
               \A q \in Stream : loop'[q].at = "send" => loop'[q] = loop[q]
        PROVE  EventsAreNews' /\ SentTells' /\ EntriesPast'
    <2>1. EventsAreNews' /\ SentTells'
      BY <1>1, <1>2, <1>4, EventsKept DEF EventParts
    <2>2. EntriesPast'
      BY <1>1, <1>2, <1>4 DEF EventParts, EntriesPast, Past, kvVars
    <2> QED
      BY <2>1, <2>2
  <1>5. CASE Create(s)
    <2>1. UNCHANGED sent /\ \A q \in Stream : loop'[q].at = "send" => loop'[q] = loop[q]
      BY <1>1, <1>5 DEF Create, CreateWatcher, streamVars
    <2> QED
      BY <1>3, <1>4, <2>1 DEF EventParts
  <1>6. CASE Register(s) \/ CancelRequest(s) \/ Cancel(s) \/ Client(s) \/ ReadEnd(s)
    <2>1. UNCHANGED sent
      BY <1>6 DEF Register, Insert, CancelRequest, ReadCancel, Cancel, CancelLock, Client,
                  ClientRead, ClientEnds, ReadEnd, streamVars
    <2>2. \A q \in Stream : loop'[q].at = "send" => loop'[q] = loop[q]
      <3>1. CASE Register(s)
        BY <1>1, <3>1 DEF Register, Insert, Reading
      <3>2. CASE CancelRequest(s)
        BY <1>1, <3>2 DEF CancelRequest, ReadCancel, LoopType
      <3>3. CASE Cancel(s)
        BY <1>1, <3>3 DEF Cancel, CancelLock, Go, Reading, LoopType
      <3>4. CASE Client(s) \/ ReadEnd(s)
        BY <1>1, <3>4 DEF Client, ClientRead, ClientEnds, ReadEnd, Go, LoopType
      <3> QED
        BY <1>6, <3>1, <3>2, <3>3, <3>4
    <2> QED
      BY <1>3, <1>4, <2>1, <2>2 DEF EventParts
  <1>7. CASE History(s)
    <2>1. /\ UNCHANGED sent /\ mutex = Free
          /\ loop' = [loop EXCEPT ![s].at = "send", ![s].entries = Entries(loop[s].id)]
      BY <1>7 DEF History, TakeHistory, streamVars
    <2>2. /\ \A q \in Stream : q # s => loop'[q] = loop[q]
          /\ loop'[s].entries = Entries(loop[s].id)
      BY <1>1, <2>1 DEF LoopType
    <2>3. ASSUME NEW e \in Entries(loop[s].id)
          PROVE  1 < e.mod /\ Past(e.key, "put", e.mod)
      <3>1. PICK k \in Key : Present(data[k]) /\ e = [key |-> k, mod |-> data[k].mod]
        BY DEF Entries, KeysInRange, StoredKeys
      <3>2. visible[k] = data[k] /\ visible[k].mod \in Nat
        BY <1>1, <2>1 DEF Uncommitted, Entry
      <3> QED
        BY <1>1, <3>1, <3>2 DEF EventParts, VisibleOlder, Past
    <2>4. EntriesPast'
      BY <1>1, <1>2, <2>2, <2>3 DEF EventParts, EntriesPast, Past, kvVars
    <2>5. EventsAreNews' /\ SentTells'
      BY <1>1, <1>2, <2>1, EventsKept DEF EventParts
    <2> QED
      BY <1>3, <2>4, <2>5 DEF EventParts
  <1>8. CASE SendCreated(s) \/ CancelSend(s)
    <2>1. PICK w \in Stream, r \in ResponseType : Write(w, r) /\ ~IsEvent(r)
      <3>1. CASE SendCreated(s)
        <4>1. loop[s].at \in Creating
          BY <3>1 DEF SendCreated, At, Creating
        <4>2. loop[s].id \in WatchId
          BY <1>1, <4>1, CreatorsKnown
        <4>3. Control(loop[s].id, "created", loop[s].revision) \in ResponseType
          BY <1>1, <4>2 DEF Control, Response, ResponseType, LoopType
        <4> QED
          BY <3>1, <4>3 DEF SendCreated, Control, Response, IsEvent
      <3>2. CASE CancelSend(s)
        <4>1. loop[s].id \in watchers
          BY <1>1, <3>2 DEF CancelSend, At, WorkApart
        <4>2. loop[s].id \in WatchId /\ watcher[loop[s].id].stream \in Stream
          BY <1>1, <4>1, Ids DEF WorkApart, WatcherType
        <4>3. Control(loop[s].id, "canceled", 0) \in ResponseType
          BY <4>2 DEF Control, Response, ResponseType
        <4> QED
          BY <3>2, <4>2, <4>3 DEF CancelSend, Control, Response, IsEvent
      <3> QED
        BY <1>8, <3>1, <3>2
    <2>2. EventsAreNews' /\ SentTells'
      BY <1>1, <1>2, <2>1, EventWritten DEF EventParts, MayFollow
    <2>3. \A q \in Stream : loop'[q].at = "send" => loop'[q] = loop[q]
      BY <1>1, <1>8 DEF SendCreated, CancelSend, Go, AfterCreated, Reading, LoopType
    <2>4. EntriesPast'
      BY <1>1, <1>2, <2>3 DEF EventParts, EntriesPast, Past, kvVars
    <2> QED
      BY <1>3, <2>2, <2>4 DEF EventParts
  <1>9. CASE SendHistory(s)
    <2> DEFINE id == loop[s].id
    <2>1. PICK e \in loop[s].entries :
            /\ Write(s, Response(id, "put", e.mod, e.key, e.mod))
            /\ loop' = [loop EXCEPT ![s].entries = @ \ {e}]
      BY <1>9 DEF SendHistory
    <2> DEFINE r == Response(id, "put", e.mod, e.key, e.mod)
    <2>2. loop[s].at = "send"
      BY <1>9 DEF SendHistory, At
    <2>3. id \in WatchId
      BY <1>1, <2>2, CreatorsKnown DEF Creating
    <2>4. /\ r \in ResponseType /\ r.id = id /\ r.type = "put"
          /\ r.key = e.key /\ r.revision = e.mod /\ r.mod = e.mod /\ e.mod \in Nat /\ e.key \in Key
      BY <1>1, <2>1, <2>3 DEF Response, ResponseType, LoopType
    <2>5. /\ mutex # Free => e.mod < revision
          /\ \A x \in Responses(s) : x.id = id /\ IsEvent(x) => x.key # e.key
          /\ 1 < e.mod /\ Past(e.key, "put", e.mod)
      BY <1>1, <2>1, <2>2 DEF OrderParts, LoopFeeds, EventParts, EntriesPast
    <2>6. /\ \A q \in Stream : q # s => loop'[q] = loop[q]
          /\ loop'[s].at = "send" /\ loop'[s].entries = loop[s].entries \ {e}
      BY <1>1, <2>1, <2>2 DEF LoopType
    <2> HIDE DEF id, r
    <2>7. MayFollow(s, r)
      BY <1>1, <2>4, <2>5 DEF MayFollow
    <2>8. EventsAreNews' /\ SentTells'
      BY <1>1, <1>2, <2>1, <2>4, <2>7, EventWritten DEF EventParts, r
    <2>9. EntriesPast'
      BY <1>1, <1>2, <2>2, <2>6 DEF EventParts, EntriesPast, Past, kvVars
    <2> QED
      BY <1>3, <2>8, <2>9 DEF EventParts
  <1> QED
    BY <1>5, <1>6, <1>7, <1>8, <1>9 DEF LoopStep

-----------------------------------------------------------------------------
(* EventInv is inductive. *)

LEMMA EventInit == Init => EventInv
  <1> SUFFICES ASSUME Init
               PROVE  EventParts /\ EventsAreNews
    BY OrderInit DEF EventInv
  <1>1. \A s \in Stream : sent[s] = <<>> /\ loop[s] = Reading /\ Responses(s) = {}
    BY DEF Init, WMInit, Responses
  <1>2. watchLock # Notifier /\ call = Idle /\ \A k \in Key : ~Present(visible[k])
    BY WMAssumption DEF Init, WMInit, KVInit, Present
  <1>3. ToldShown /\ VisibleOlder /\ NoticeTells
    BY <1>2 DEF ToldShown, VisibleOlder, NoticeTells, Idle
  <1>4. SentTells /\ EntriesPast /\ EventsAreNews
    BY <1>1 DEF SentTells, EntriesPast, EventsAreNews, Reading
  <1> QED
    BY <1>3, <1>4 DEF EventParts

LEMMA EventStep == EventInv /\ [Next]_vars => EventInv'
  <1> SUFFICES ASSUME EventInv, [Next]_vars
               PROVE  EventParts' /\ EventsAreNews'
    BY OrderStep DEF EventInv
  <1>1. CASE UNCHANGED vars
    <2>1. UNCHANGED <<kvVars, sent, loop, watchLock, notice>>
      BY <1>1 DEF vars, wmVars
    <2>2. EventsAreNews' /\ SentTells'
      BY <2>1, EventsKept DEF EventInv, EventParts
    <2> QED
      BY <2>1, <2>2
         DEF EventInv, EventParts, ToldShown, VisibleOlder, NoticeTells, EntriesPast, Past, kvVars
  <1>2. CASE CallbackStep
    <2>1. UNCHANGED kvVars
      BY <1>2, WatchersOnly
    <2>2. CASE \E id \in WatchId : NotifyOne(id)
      BY <2>1, <2>2, EventsNotifyOne
    <2>3. CASE NotifyEnd
      <3>1. watchLock' # Notifier /\ UNCHANGED <<loop, sent>>
        BY <2>3, WMAssumption DEF NotifyEnd, streamVars
      <3>2. EventsAreNews' /\ SentTells'
        BY <2>1, <3>1, EventsKept DEF EventInv, EventParts
      <3> QED
        BY <2>1, <3>1, <3>2
           DEF EventInv, EventParts, ToldShown, VisibleOlder, NoticeTells, EntriesPast, Past, kvVars
    <2> QED
      BY <1>2, <2>2, <2>3 DEF CallbackStep
  <1> QED
    BY <1>1, <1>2, EventsStore, EventsCallback, EventsLoops DEF Next

(* For any clients, transactions, leases and interleavings, no event that a
   watcher got for a key before is later than the modification revision in an
   event for it; a put's is its own revision, a delete's that of a write no later
   than the deletion. *)
THEOREM EventsBringNews == Spec => []EventsAreNews
  <1>1. EventInv => EventsAreNews
    BY DEF EventInv
  <1> QED
    BY <1>1, EventInit, EventStep, PTL DEF Spec

-----------------------------------------------------------------------------
(* History and events, where clients use neither transactions nor leases: the
   invariant. *)

(* Only clients' puts and deletes are at work, not transactions or leases. *)
CallKind == mutex # Free => call.kind \in {"put", "delete"}

(* A put event under way carries the entry's modification revision. *)
NoticeShows ==
  watchLock = Notifier /\ Present(data[notice.response.key])
    => notice.response.mod = data[notice.response.key].mod

(* What a loop knows of the watcher it creates: the revision it read, which is
   that of the created response, and that only a watcher without start revision
   skips the history. *)
CreatorKnows ==
  \A s \in Stream :
    /\ loop[s].at \in Creating => loop[s].revision <= revision
    /\ loop[s].at \in {"history", "send", "insert"} =>
         \A r \in Responses(s) :
           r.id = loop[s].id /\ r.type = "created" => r.revision = loop[s].revision
    /\ loop[s].at = "insert" => watcher[loop[s].id].start = 0

(* A key's part of the history that the loop of stream s sends: its event, or
   its entry among those left. *)
PartSent(s, k) ==
  /\ \A r \in EventsOf(s, loop[s].id, k) :
       Present(data[k]) /\ r.type = "put" /\ r.mod = data[k].mod /\ r.revision = data[k].mod
  /\ Present(data[k]) =>
       \/ EventsOf(s, loop[s].id, k) # {}
       \/ [key |-> k, mod |-> data[k].mod] \in loop[s].entries

(* As long as no call has begun since the watcher was created, the store is as
   it was when the history was taken. *)
HistoryFeeds ==
  \A s \in Stream :
    loop[s].at = "send" /\ loop[s].revision = revision /\ ~Broken(s) =>
      /\ mutex = Free
      /\ \A e \in loop[s].entries : Present(data[e.key]) /\ e.mod = data[e.key].mod
      /\ \A k \in Key : KeyMatchesWatcher(k, loop[s].id) => PartSent(s, k)

(* The entry of key k that the events of watcher id tell of: that of the change
   under way once the watcher was notified. *)
Shown(id, k) == IF k \in notified /\ ~Pending(id, k) THEN data[k] ELSE visible[k]

Complete(s, id) ==
  /\ watcher[id].stream = s /\ ~Broken(s)
  /\ watcher[id].start > 0
  /\ CreatedAt(s, id, joined[id])

WholeFeeds ==
  \A s \in Stream, id \in watchers, k \in Key :
    Complete(s, id) /\ KeyMatchesWatcher(k, id) => Show(EventsOf(s, id, k), Shown(id, k))

WholeParts == CallKind /\ NoticeShows /\ CreatorKnows /\ HistoryFeeds /\ WholeFeeds

WholeInv == ToldInv /\ WholeParts

(* The parts of the invariant that its steps need. *)
LEMMA WholeHas ==
  ASSUME WholeInv
  PROVE  /\ ToldInv /\ OrderInv /\ StoreInv /\ OrderParts /\ Owed
         /\ ControlInv /\ KVTypeOK /\ WatchTypes /\ WorkApart /\ CallbackOrder
         /\ revision \in Nat /\ Notifier \notin Stream /\ Unlocked # Notifier
  BY ControlHolds, WMAssumption
     DEF WholeInv, ToldInv, OrderInv, StoreInv, ControlInv, KVTypeOK

-----------------------------------------------------------------------------
(* What the steps of a loop write. *)

LoopMoves(s) ==
  Create(s) \/ History(s) \/ Register(s) \/ CancelRequest(s) \/ LoopStep(s) \/ Cancel(s)
    \/ Client(s)

(* A loop writes to no watcher that is in the map and stays there, and to none
   that another loop creates. *)
LEMMA LoopWrites ==
  ASSUME StoreInv, NEW s \in Stream, LoopMoves(s),
         NEW q \in Stream, NEW x \in Responses(q)', x \notin Responses(q)
  PROVE  /\ x.id \notin watchers \/ x.id \notin watchers'
         /\ \A t \in Stream : t # s /\ loop[t].at \in Creating => x.id # loop[t].id
  <1>1. /\ ControlInv /\ WatchTypes /\ WorkApart
        /\ loop \in [Stream -> LoopType] /\ loop[s] \in LoopType
    BY ControlHolds DEF StoreInv, ControlInv, WatchTypes
  <1>2. ~UNCHANGED sent
    BY ResponsesKept
  <1>3. SendCreated(s) \/ SendHistory(s) \/ CancelSend(s)
    BY <1>1, <1>2, Created
       DEF LoopMoves, History, TakeHistory, Register, Insert, CancelRequest, ReadCancel,
           LoopStep, ReadEnd, Cancel, CancelLock, Client, ClientRead, ClientEnds, streamVars
  <1>4. CASE SendCreated(s)
    <2> DEFINE r == Control(loop[s].id, "created", loop[s].revision)
    <2>1. Write(s, r) /\ loop[s].at = "created"
      BY <1>4 DEF SendCreated, At
    <2>2. loop[s].id \in WatchId /\ loop[s].id \notin watchers
      BY <1>1, <2>1, CreatorsKnown DEF Creating
    <2>3. r \in ResponseType /\ r.id = loop[s].id
      BY <1>1, <2>2 DEF Control, Response, ResponseType, LoopType
    <2>4. x.id = loop[s].id
      <3> HIDE DEF r
      <3>1. Sends(s, r)
        BY <1>1, <1>2, <2>1, <2>3, Written
      <3> QED
        BY <2>3, <3>1 DEF Sends
    <2> QED
      BY <1>1, <2>1, <2>2, <2>4 DEF WorkApart, Creating
  <1>5. CASE SendHistory(s)
    <2>1. PICK e \in loop[s].entries : Write(s, Response(loop[s].id, "put", e.mod, e.key, e.mod))
      BY <1>5 DEF SendHistory
    <2> DEFINE r == Response(loop[s].id, "put", e.mod, e.key, e.mod)
    <2>2. loop[s].at = "send"
      BY <1>5 DEF SendHistory, At
    <2>3. loop[s].id \in WatchId /\ loop[s].id \notin watchers
      BY <1>1, <2>2, CreatorsKnown DEF Creating
    <2>4. r \in ResponseType /\ r.id = loop[s].id
      BY <1>1, <2>3 DEF Response, ResponseType, LoopType
    <2>5. x.id = loop[s].id
      <3> HIDE DEF r
      <3>1. Write(s, r)
        BY <2>1 DEF r
      <3>2. Sends(s, r)
        BY <1>1, <1>2, <2>4, <3>1, Written
      <3> QED
        BY <2>4, <3>2 DEF Sends
    <2> QED
      BY <1>1, <2>2, <2>3, <2>5 DEF WorkApart, Creating
  <1>6. CASE CancelSend(s)
    <2> DEFINE r == Control(loop[s].id, "canceled", 0)
    <2>1. /\ loop[s].at = "canceling" /\ loop[s].id \in watchers
          /\ Write(watcher[loop[s].id].stream, r) /\ watchers' = watchers \ {loop[s].id}
      BY <1>1, <1>6 DEF CancelSend, At, WorkApart
    <2>2. watcher[loop[s].id].stream \in Stream /\ loop[s].id \in WatchId
      BY <1>1, <2>1, Ids DEF WorkApart, WatcherType
    <2>3. r \in ResponseType /\ r.id = loop[s].id
      BY <2>2 DEF Control, Response, ResponseType
    <2>4. x.id = loop[s].id
      <3> HIDE DEF r
      <3> QED
        BY <1>1, <1>2, <2>1, <2>2, <2>3, Written DEF Sends
    <2> QED
      BY <1>1, <2>1, <2>4 DEF WorkApart
  <1> QED
    BY <1>3, <1>4, <1>5, <1>6

(* A loop leaves the other loops and the watchers of their making alone. *)
LEMMA LoopsApart ==
  ASSUME StoreInv, NEW s \in Stream, LoopMoves(s)
  PROVE  /\ \A t \in Stream : t # s => loop'[t] = loop[t]
         /\ \A id \in DOMAIN watcher : watcher'[id] = watcher[id]
  <1>1. /\ ControlInv /\ loop \in [Stream -> LoopType]
    BY ControlHolds DEF ControlInv, WatchTypes
  <1>2. CASE Create(s)
    BY <1>1, <1>2, Created
  <1>3. CASE ~Create(s)
    BY <1>1, <1>3
       DEF LoopMoves, History, TakeHistory, Register, Insert, CancelRequest, ReadCancel,
           LoopStep, SendCreated, SendHistory, CancelSend, ReadEnd, Cancel, CancelLock, Client,
           ClientRead, ClientEnds, watchTable, Go
  <1> QED
    BY <1>2, <1>3

(* A watcher to which nothing is written has the events it had. *)
LEMMA SameEvents ==
  ASSUME NEW q \in Stream, NEW id,
         \A x : x.id = id => (x \in Responses(q)' <=> x \in Responses(q))
  PROVE  /\ \A k : EventsOf(q, id, k)' = EventsOf(q, id, k)
         /\ \A r : CreatedAt(q, id, r)' <=> CreatedAt(q, id, r)
  BY DEF EventsOf, CreatedAt

-----------------------------------------------------------------------------
(* The steps. *)

(* Calls are puts and deletes where clients make no others. *)
LEMMA CallKindStep ==
  ASSUME Kind \subseteq {"put", "delete"}, WholeInv, Next
  PROVE  CallKind'
  <1>1. KVTypeOK /\ CallKind /\ call \in Call
    BY WholeHas DEF WholeInv, WholeParts, KVTypeOK
  <1>2. CASE UNCHANGED <<mutex, call>>
    BY <1>1, <1>2 DEF CallKind
  <1>3. CASE StoreCall
    <2>1. PICK t \in Thread : KVCall(t)
      BY <1>3 DEF StoreCall
    <2> QED
      BY <2>1 DEF KVCall, Put, DeleteRange, Lock, CallKind
  <1>4. CASE StoreStep
    <2>1. mutex' = mutex
      BY <1>1, <1>4, StoreSteps
    <2>2. call'.kind = call.kind
      BY <1>1, <1>4 DEF StoreStep, PutDetach, PutStore, EraseKey, EraseDone, TxnRange, Call
    <2> QED
      BY <1>1, <2>1, <2>2 DEF CallKind
  <1>5. CASE Release
    BY <1>1, <1>5, StoreSteps DEF CallKind
  <1> QED
    BY <1>2, <1>3, <1>4, <1>5, WatchersOnly DEF Next, kvVars

(* The store does not move under a notification. *)
LEMMA NoticeShowsStep ==
  ASSUME WholeInv, Next
  PROVE  NoticeShows'
  <1>1. /\ StoreInv /\ KVTypeOK /\ WatchTypes /\ NoticeShows /\ Unlocked # Notifier
    BY WholeHas DEF WholeInv, WholeParts
  <1>2. CASE StoreCall \/ StoreStep \/ Release
    <2>1. watchLock' # Notifier
      BY <1>1, <1>2, StoreSteps, NoCallback DEF wmVars
    <2> QED
      BY <2>1 DEF NoticeShows
  <1>3. ASSUME NEW k \in Key, Callback(k)
        PROVE  NoticeShows'
    <2>1. /\ UNCHANGED data /\ notice'.response.key = k
          /\ Present(data[k]) => notice'.response.mod = data[k].mod
      BY <1>3 DEF Callback, Notify, Response, kvVars
    <2> QED
      BY <2>1 DEF NoticeShows
  <1>4. CASE CallbackStep
    <2>1. /\ UNCHANGED data
          /\ watchLock' = Notifier => watchLock = Notifier /\ notice'.response = notice.response
      BY <1>1, <1>4 DEF CallbackStep, NotifyOne, NotifyEnd, WatchTypes, NoticeType, kvVars
    <2> QED
      BY <1>1, <2>1 DEF NoticeShows
  <1>5. ASSUME NEW s \in Stream, LoopMoves(s)
        PROVE  NoticeShows'
    <2>1. /\ watchLock = Notifier <=> watchLock' = Notifier
          /\ watchLock = Notifier => notice' = notice
      BY <1>1, <1>5, LoopsKeep DEF LoopMoves
    <2>2. UNCHANGED data
      BY <1>5, WatchersOnly DEF LoopMoves, kvVars
    <2> QED
      BY <1>1, <2>1, <2>2 DEF NoticeShows
  <1> QED
    BY <1>2, <1>3, <1>4, <1>5 DEF Next, LoopMoves

(* The store and its callbacks leave the loops alone, and write to none of the
   watchers that a loop creates. *)
LEMMA CallsWrite ==
  ASSUME WholeInv, StoreCall \/ StoreStep \/ Release \/ (\E k \in Key : Callback(k)) \/ CallbackStep
  PROVE  /\ UNCHANGED <<loop, watcher, watchers, client, joined>>
         /\ revision <= revision' /\ (StoreCall => revision < revision')
         /\ ~StoreCall => mutex # Free
         /\ \A q \in Stream : /\ Responses(q) \subseteq Responses(q)'
                              /\ \A x \in Responses(q)' \ Responses(q) : x.id \in watchers
  <1>1. StoreInv /\ KVTypeOK /\ WatchTypes /\ WorkApart /\ CallbackOrder /\ revision \in Nat
    BY WholeHas
  <1>2. CASE StoreCall \/ StoreStep \/ Release
    <2>1. UNCHANGED <<loop, watcher, watchers, client, joined, sent>>
      BY <1>1, <1>2, StoreSteps DEF wmVars
    <2>2. /\ revision <= revision' /\ (StoreCall => revision < revision')
          /\ ~StoreCall => mutex # Free
      BY <1>1, <1>2, StoreSteps DEF StoreStep, PutDetach, PutStore, EraseKey, EraseDone,
                                    TxnRange, Busy
    <2> QED
      BY <2>1, <2>2, ResponsesKept
  <1>3. ~StoreCall \/ (revision' = revision + 1 /\ mutex = Free)
    BY <1>1, StoreSteps
  <1>4. ASSUME NEW k \in Key, Callback(k)
        PROVE  UNCHANGED <<kvVars, loop, watcher, watchers, client, joined, sent>> /\ mutex # Free
    BY <1>4 DEF Callback, CallingBack, Notify, watchTable, streamVars
  <1>5. CASE \E k \in Key : Callback(k)
    <2>1. UNCHANGED <<revision, loop, watcher, watchers, client, joined, sent>> /\ mutex # Free
      BY <1>4, <1>5 DEF kvVars
    <2> QED
      BY <1>1, <1>3, <2>1, ResponsesKept
  <1>6. ASSUME NEW id \in WatchId, NotifyOne(id), UNCHANGED <<kvVars, notified, joined>>
        PROVE  /\ UNCHANGED <<revision, loop, watcher, watchers, client, joined>> /\ mutex # Free
               /\ \A q \in Stream : /\ Responses(q) \subseteq Responses(q)'
                                    /\ \A x \in Responses(q)' \ Responses(q) : x.id \in watchers
    <2>1. PICK w \in Stream : w = watcher[id].stream
      BY <1>1, <1>6, Ids DEF NotifyOne, WorkApart, WatcherType
    <2> DEFINE r == [notice.response EXCEPT !.id = id]
    <2>2. /\ id \in watchers /\ Write(w, r) /\ UNCHANGED <<watchers, watcher, loop>>
          /\ watchLock = Notifier /\ UNCHANGED revision
      BY <1>1, <1>6, <2>1 DEF NotifyOne, watchTable, WorkApart, kvVars
    <2>3. r \in ResponseType /\ r.id = id
      BY <1>1, <1>6 DEF WatchTypes, NoticeType, ResponseType
    <2> HIDE DEF r
    <2>4. UNCHANGED client
      BY <1>1, <2>2, <2>3, Written
    <2>5. mutex # Free
      BY <1>1, <2>2, NoCallback
    <2>6. UNCHANGED sent \/ Sends(w, r)
      BY <1>1, <2>2, <2>3, Written
    <2>7. ASSUME NEW q \in Stream
          PROVE  /\ Responses(q) \subseteq Responses(q)'
                 /\ \A x \in Responses(q)' \ Responses(q) : x.id \in watchers
      BY <2>2, <2>3, <2>6, ResponsesKept DEF Sends
    <2> QED
      BY <1>6, <2>2, <2>4, <2>5, <2>7
  <1>7. CASE CallbackStep
    <2>1. CASE NotifyEnd
      <3>1. UNCHANGED <<revision, loop, watcher, watchers, client, joined, sent>>
        BY <1>7, <2>1 DEF CallbackStep, NotifyEnd, watchTable, streamVars, kvVars
      <3>2. mutex # Free
        BY <1>1, <2>1, NoCallback DEF NotifyEnd
      <3> QED
        BY <1>1, <1>3, <3>1, <3>2, ResponsesKept
    <2>2. CASE \E id \in WatchId : NotifyOne(id)
      BY <1>1, <1>3, <1>6, <1>7, <2>2 DEF CallbackStep
    <2> QED
      BY <1>7, <2>1, <2>2 DEF CallbackStep
  <1> QED
    BY <1>2, <1>5, <1>7

(* The revision that a loop read stays that of its created response. *)
LEMMA CreatorKnowsStep ==
  ASSUME WholeInv, Next
  PROVE  CreatorKnows'
  <1>1. /\ StoreInv /\ ControlInv /\ OrderParts /\ WatchTypes /\ WorkApart /\ CreatorKnows
        /\ revision \in Nat /\ loop \in [Stream -> LoopType]
    BY WholeHas DEF WholeInv, WholeParts, WatchTypes
  <1>2. ASSUME NEW t \in Stream, loop'[t] = loop[t], revision <= revision', revision' \in Nat,
               loop[t].at \in Creating => watcher'[loop[t].id] = watcher[loop[t].id],
               loop[t].at \in Creating => \A x \in Responses(t)' \ Responses(t) : x.id # loop[t].id
        PROVE  /\ loop'[t].at \in Creating => loop'[t].revision <= revision'
               /\ loop'[t].at \in {"history", "send", "insert"} =>
                    \A r \in Responses(t)' :
                      r.id = loop'[t].id /\ r.type = "created" => r.revision = loop'[t].revision
               /\ loop'[t].at = "insert" => watcher'[loop'[t].id].start = 0
    <2>1. loop[t].revision \in Nat
      BY <1>1 DEF LoopType
    <2> QED
      BY <1>1, <1>2, <2>1 DEF CreatorKnows, Creating
  <1>3. CASE StoreCall \/ StoreStep \/ Release \/ (\E k \in Key : Callback(k)) \/ CallbackStep
    <2>1. revision' \in Nat
      BY <1>1, <1>3, WholeHas, StoreSteps, WatchersOnly DEF kvVars
    <2>2. UNCHANGED <<loop, watcher, watchers>> /\ revision <= revision'
      BY <1>3, CallsWrite
    <2>3. \A t \in Stream : loop[t].at \in Creating =>
            \A x \in Responses(t)' \ Responses(t) : x.id # loop[t].id
      BY <1>1, <1>3, CallsWrite DEF WorkApart
    <2> QED
      BY <1>2, <2>1, <2>2, <2>3 DEF CreatorKnows
  <1>4. ASSUME NEW s \in Stream, LoopMoves(s)
        PROVE  CreatorKnows'
    <2>1. UNCHANGED revision
      BY <1>4, WatchersOnly DEF LoopMoves, kvVars
    <2>2. /\ \A t \in Stream : t # s => loop'[t] = loop[t]
          /\ \A id \in DOMAIN watcher : watcher'[id] = watcher[id]
      BY <1>1, <1>4, LoopsApart
    <2>3. ASSUME NEW t \in Stream, t # s
          PROVE  /\ loop'[t].at \in Creating => loop'[t].revision <= revision'
                 /\ loop'[t].at \in {"history", "send", "insert"} =>
                      \A r \in Responses(t)' :
                        r.id = loop'[t].id /\ r.type = "created" => r.revision = loop'[t].revision
                 /\ loop'[t].at = "insert" => watcher'[loop'[t].id].start = 0
      <3>1. loop[t].at \in Creating => watcher'[loop[t].id] = watcher[loop[t].id]
        BY <1>1, <2>2 DEF WorkApart
      <3>2. loop[t].at \in Creating => \A x \in Responses(t)' \ Responses(t) : x.id # loop[t].id
        BY <1>1, <1>4, <2>3, LoopWrites
      <3> QED
        BY <1>1, <1>2, <2>1, <2>2, <2>3, <3>1, <3>2
    <2>4. /\ loop'[s].at \in Creating => loop'[s].revision <= revision'
          /\ loop'[s].at \in {"history", "send", "insert"} =>
               \A r \in Responses(s)' :
                 r.id = loop'[s].id /\ r.type = "created" => r.revision = loop'[s].revision
          /\ loop'[s].at = "insert" => watcher'[loop'[s].id].start = 0
      <3>1. CASE Create(s)
        BY <1>1, <2>1, <3>1, Created
      <3>2. CASE History(s)
        <4>1. /\ loop'[s].at = "send" /\ loop'[s].revision = loop[s].revision
              /\ loop'[s].id = loop[s].id /\ loop[s].at = "history" /\ UNCHANGED sent
          BY <1>1, <3>2 DEF History, TakeHistory, At, LoopType, streamVars
        <4>2. Responses(s)' = Responses(s)
          BY <4>1, ResponsesKept
        <4> QED
          BY <1>1, <2>1, <4>1, <4>2 DEF CreatorKnows, Creating
      <3>3. CASE SendCreated(s)
        <4> DEFINE r == Control(loop[s].id, "created", loop[s].revision)
        <4>1. /\ loop[s].at = "created" /\ Write(s, r) /\ loop'[s].at = AfterCreated(s)
              /\ loop'[s].id = loop[s].id /\ loop'[s].revision = loop[s].revision
              /\ UNCHANGED watcher
          BY <1>1, <3>3 DEF SendCreated, At, Go, LoopType, watchTable
        <4>2. loop'[s].at = "insert" => watcher[loop[s].id].start = 0
          <5>1. watcher[loop[s].id].start \in Nat
            BY <1>1, <4>1, CreatorsKnown DEF Creating, WatcherType
          <5> QED
            BY <4>1, <5>1 DEF AfterCreated
        <4>3. /\ r \in ResponseType /\ r.revision = loop[s].revision
          BY <1>1, <4>1, CreatorsKnown DEF Control, Response, ResponseType, Creating, LoopType
        <4> HIDE DEF r
        <4>4. \A x \in Responses(s)' : x \in Responses(s) \/ x = r
          BY <1>1, <4>1, <4>3, Written, ResponsesKept DEF Sends
        <4>5. \A x \in Responses(s) : x.id # loop[s].id
          BY <1>1, <4>1 DEF OrderParts, LoopFeeds
        <4>6. loop[s].revision <= revision
          BY <1>1, <4>1 DEF CreatorKnows, Creating
        <4> QED
          BY <2>1, <4>1, <4>2, <4>3, <4>4, <4>5, <4>6
      <3>4. CASE SendHistory(s)
        <4>1. PICK e \in loop[s].entries :
                /\ Write(s, Response(loop[s].id, "put", e.mod, e.key, e.mod))
                /\ loop' = [loop EXCEPT ![s].entries = @ \ {e}]
          BY <3>4 DEF SendHistory
        <4> DEFINE r == Response(loop[s].id, "put", e.mod, e.key, e.mod)
        <4>2. /\ loop[s].at = "send" /\ loop'[s].at = "send" /\ loop'[s].id = loop[s].id
              /\ loop'[s].revision = loop[s].revision
          BY <1>1, <3>4, <4>1 DEF SendHistory, At, LoopType
        <4>3. r \in ResponseType /\ r.type = "put"
          BY <1>1, <4>2, CreatorsKnown DEF Response, ResponseType, Creating, LoopType
        <4>4. Write(s, r)
          BY <4>1
        <4> HIDE DEF r
        <4>5. \A x \in Responses(s)' : x \in Responses(s) \/ x = r
          BY <1>1, <4>3, <4>4, Written, ResponsesKept DEF Sends
        <4> QED
          BY <1>1, <2>1, <4>2, <4>3, <4>5 DEF CreatorKnows, Creating
      <3>5. CASE Register(s) \/ CancelRequest(s) \/ CancelSend(s) \/ ReadEnd(s) \/ Cancel(s)
        <4>1. loop'[s].at \notin Creating
          BY <1>1, <3>5
             DEF Register, Insert, CancelRequest, ReadCancel, CancelSend, ReadEnd, Cancel,
                 CancelLock, Reading, Go, Creating, LoopType
        <4> QED
          BY <4>1 DEF Creating
      <3>6. CASE Client(s)
        <4>1. UNCHANGED <<loop, sent, watcher>>
          BY <3>6 DEF Client, ClientRead, ClientEnds, watchTable
        <4> QED
          BY <1>1, <2>1, <4>1, ResponsesKept DEF CreatorKnows
      <3> QED
        BY <1>4, <3>1, <3>2, <3>3, <3>4, <3>5, <3>6 DEF LoopMoves, LoopStep
    <2> QED
      BY <2>3, <2>4 DEF CreatorKnows
  <1> QED
    BY <1>3, <1>4 DEF Next, LoopMoves

(* What is sent of the history is what the store holds, until a call begins. *)
LEMMA HistoryFeedsStep ==
  ASSUME WholeInv, Next
  PROVE  HistoryFeeds'
  <1>1. /\ StoreInv /\ ControlInv /\ OrderParts /\ WatchTypes /\ WorkApart /\ CreatorKnows
        /\ HistoryFeeds /\ revision \in Nat /\ loop \in [Stream -> LoopType]
    BY WholeHas DEF WholeInv, WholeParts, WatchTypes
  <1>2. \A t \in Stream : ~Broken(t)' => ~Broken(t)
    BY <1>1, StaysBroken
  <1>3. CASE StoreCall \/ StoreStep \/ Release \/ (\E k \in Key : Callback(k)) \/ CallbackStep
    <2>1. /\ UNCHANGED loop /\ revision <= revision' /\ (StoreCall => revision < revision')
          /\ ~StoreCall => mutex # Free
      BY <1>3, CallsWrite
    <2>2. ~StoreCall => UNCHANGED revision
      BY <1>1, <1>3, WholeHas, StoreSteps, WatchersOnly DEF kvVars
    <2>3. revision' \in Nat
      BY <1>1, <2>2, WholeHas, StoreSteps
    <2>4. \A t \in Stream :
            loop[t].at = "send" => loop[t].revision \in Nat /\ loop[t].revision <= revision
      BY <1>1 DEF CreatorKnows, Creating, LoopType
    <2>5. \A t \in Stream : ~(loop'[t].at = "send" /\ loop'[t].revision = revision' /\ ~Broken(t)')
      BY <1>1, <1>2, <2>1, <2>2, <2>3, <2>4 DEF HistoryFeeds
    <2> QED
      BY <2>5 DEF HistoryFeeds
  <1>4. ASSUME NEW s \in Stream, LoopMoves(s)
        PROVE  HistoryFeeds'
    <2>1. UNCHANGED <<revision, mutex, data>>
      BY <1>4, WatchersOnly DEF LoopMoves, kvVars
    <2>2. /\ \A t \in Stream : t # s => loop'[t] = loop[t]
          /\ \A id \in DOMAIN watcher : watcher'[id] = watcher[id]
      BY <1>1, <1>4, LoopsApart
    <2>3. SUFFICES ASSUME NEW t \in Stream, loop'[t].at = "send", loop'[t].revision = revision,
                          ~Broken(t)'
                   PROVE  /\ mutex = Free
                          /\ \A e \in loop'[t].entries :
                               Present(data[e.key]) /\ e.mod = data[e.key].mod
                          /\ \A k \in Key : KeyMatchesWatcher(k, loop[t].id)' => PartSent(t, k)'
      BY <2>1 DEF HistoryFeeds
    <2>4. ~Broken(t)
      BY <1>2, <2>3
    <2>5. CASE /\ loop'[t] = loop[t]
               /\ \A x : x.id = loop[t].id => (x \in Responses(t)' <=> x \in Responses(t))
      <3>1. PICK id : id = loop[t].id
        OBVIOUS
      <3>2. \A k : EventsOf(t, id, k)' = EventsOf(t, id, k)
        BY <2>5, <3>1, SameEvents
      <3>3. \A k : EventsOf(t, loop[t].id, k)' = EventsOf(t, loop[t].id, k)
        BY <2>5, <3>1, <3>2
      <3>4. watcher'[loop[t].id] = watcher[loop[t].id]
        BY <1>1, <2>2, <2>3, <2>5 DEF WorkApart, Creating
      <3>5. /\ mutex = Free
            /\ \A e \in loop[t].entries : Present(data[e.key]) /\ e.mod = data[e.key].mod
            /\ \A k \in Key : KeyMatchesWatcher(k, loop[t].id) => PartSent(t, k)
        BY <1>1, <2>3, <2>4, <2>5 DEF HistoryFeeds
      <3>6. \A k \in Key : KeyMatchesWatcher(k, loop[t].id)' => KeyMatchesWatcher(k, loop[t].id)
        BY <2>5, <3>4 DEF KeyMatchesWatcher
      <3>7. \A k \in Key : PartSent(t, k) => PartSent(t, k)'
        BY <2>1, <2>5, <3>3 DEF PartSent
      <3> QED
        BY <2>5, <3>5, <3>6, <3>7
    <2>6. CASE t # s
      <3>1. loop[t].at \in Creating /\ loop'[t] = loop[t]
        BY <2>2, <2>3, <2>6 DEF Creating
      <3>2. Responses(t) \subseteq Responses(t)'
        BY <1>1, <1>4, LoopsKeep DEF LoopMoves
      <3>3. \A x \in Responses(t)' \ Responses(t) : x.id # loop[t].id
        BY <1>1, <1>4, <2>6, <3>1, LoopWrites
      <3> QED
        BY <2>5, <3>1, <3>2, <3>3
    <2>7. CASE t = s
      <3>1. CASE History(s)
        <4>1. /\ loop'[s].entries = Entries(loop[s].id) /\ loop'[s].id = loop[s].id
              /\ loop[s].at = "history" /\ mutex = Free /\ UNCHANGED <<sent, watcher>>
          BY <1>1, <3>1 DEF History, TakeHistory, At, LoopType, streamVars, watchTable
        <4>2. \A k : {r \in Responses(s) : r.id = loop[s].id /\ IsEvent(r) /\ r.key = k} = {}
          BY <1>1, <4>1 DEF OrderParts, LoopFeeds
        <4>3. \A k : EventsOf(s, loop[s].id, k)' = {}
          BY <4>1, <4>2, ResponsesKept DEF EventsOf
        <4>4. \A e \in Entries(loop[s].id) : Present(data[e.key]) /\ e.mod = data[e.key].mod
          BY DEF Entries, KeysInRange, StoredKeys
        <4>5. \A k \in Key : Present(data[k]) /\ KeyMatchesWatcher(k, loop[s].id)
                => [key |-> k, mod |-> data[k].mod] \in Entries(loop[s].id)
          BY DEF Entries, KeysInRange, StoredKeys, KeyMatchesWatcher
        <4>6. \A k \in Key : KeyMatchesWatcher(k, loop[s].id)' => KeyMatchesWatcher(k, loop[s].id)
          BY <4>1 DEF KeyMatchesWatcher
        <4>7. \A k \in Key : KeyMatchesWatcher(k, loop[s].id) => PartSent(s, k)'
          BY <2>1, <4>1, <4>3, <4>5 DEF PartSent
        <4> QED
          BY <2>7, <4>1, <4>4, <4>6, <4>7
      <3>2. CASE SendHistory(s)
        <4>1. PICK e \in loop[s].entries :
                /\ Write(s, Response(loop[s].id, "put", e.mod, e.key, e.mod))
                /\ loop' = [loop EXCEPT ![s].entries = @ \ {e}]
          BY <3>2 DEF SendHistory
        <4> DEFINE r == Response(loop[s].id, "put", e.mod, e.key, e.mod)
        <4>2. /\ loop[s].at = "send" /\ loop'[s].id = loop[s].id
              /\ loop'[s].revision = loop[s].revision
              /\ loop'[s].entries = loop[s].entries \ {e} /\ UNCHANGED watcher
          BY <1>1, <3>2, <4>1 DEF SendHistory, At, LoopType, watchTable
        <4>3. /\ r \in ResponseType /\ r.type = "put" /\ r.id = loop[s].id /\ r.key = e.key
              /\ r.mod = e.mod /\ r.revision = e.mod /\ IsEvent(r)
          BY <1>1, <4>2, CreatorsKnown DEF Response, ResponseType, Creating, LoopType, IsEvent
        <4>4. Write(s, r)
          BY <4>1
        <4> HIDE DEF r
        <4>5. Responses(s)' = Responses(s) \cup {r}
          BY <1>1, <2>4, <2>7, <4>3, <4>4, Written DEF Sends
        <4>6. /\ mutex = Free
              /\ \A x \in loop[s].entries : Present(data[x.key]) /\ x.mod = data[x.key].mod
              /\ \A k \in Key : KeyMatchesWatcher(k, loop[s].id) => PartSent(s, k)
          BY <1>1, <2>3, <2>4, <2>7, <4>2 DEF HistoryFeeds
        <4>7. \A k \in Key : KeyMatchesWatcher(k, loop[s].id)' => KeyMatchesWatcher(k, loop[s].id)
          BY <4>2 DEF KeyMatchesWatcher
        <4>8. \A k : EventsOf(s, loop[s].id, k)' =
                       EventsOf(s, loop[s].id, k) \cup (IF k = e.key THEN {r} ELSE {})
          BY <4>2, <4>3, <4>5 DEF EventsOf
        <4>9. ASSUME NEW k \in Key, PartSent(s, k)
              PROVE  PartSent(s, k)'
          <5>1. \A x \in EventsOf(s, loop[s].id, k)' :
                  Present(data[k]) /\ x.type = "put" /\ x.mod = data[k].mod
                    /\ x.revision = data[k].mod
            BY <4>1, <4>3, <4>6, <4>8, <4>9 DEF PartSent
          <5>2. Present(data[k]) =>
                  \/ EventsOf(s, loop[s].id, k)' # {}
                  \/ [key |-> k, mod |-> data[k].mod] \in loop[s].entries \ {e}
            BY <4>8, <4>9 DEF PartSent
          <5> QED
            BY <2>1, <4>2, <5>1, <5>2 DEF PartSent
        <4> QED
          BY <2>7, <4>2, <4>6, <4>7, <4>9
      <3>3. CASE Client(s)
        <4>1. UNCHANGED <<loop, sent>>
          BY <3>3 DEF Client, ClientRead, ClientEnds
        <4> QED
          BY <2>5, <4>1, ResponsesKept
      <3>4. CASE \/ Create(s) \/ SendCreated(s) \/ Register(s) \/ CancelRequest(s) \/ CancelSend(s)
                 \/ ReadEnd(s) \/ Cancel(s)
        <4>1. loop'[s].at # "send"
          <5>1. CASE Create(s)
            BY <1>1, <5>1, Created
          <5>2. CASE ~Create(s)
            BY <1>1, <3>4, <5>2
               DEF SendCreated, AfterCreated, Register, Insert, CancelRequest, ReadCancel,
                   CancelSend, ReadEnd, Cancel, CancelLock, Reading, Go, LoopType
          <5> QED
            BY <5>1, <5>2
        <4> QED
          BY <2>3, <2>7, <4>1
      <3> QED
        BY <1>4, <3>1, <3>2, <3>3, <3>4 DEF LoopMoves, LoopStep
    <2> QED
      BY <2>6, <2>7
  <1> QED
    BY <1>3, <1>4 DEF Next, LoopMoves

(* An event later than the others is the latest. *)
LEMMA LatestIsNew ==
  ASSUME NEW events, NEW r, r.revision \in Nat,
         \A q \in events : q.revision \in Nat /\ q.revision < r.revision
  PROVE  Latest(events \cup {r}) = {r}
  BY DEF Latest

(* A watcher that is whole after a step was so before, unless the step
   registered it. *)
LEMMA WholeBefore ==
  ASSUME WholeInv, Next, NEW s \in Stream, NEW id \in watchers, NEW k \in Key,
         watcher'[id] = watcher[id], joined'[id] = joined[id],
         \A r : CreatedAt(s, id, r)' => CreatedAt(s, id, r),
         Complete(s, id)', KeyMatchesWatcher(k, id)'
  PROVE  /\ Show(EventsOf(s, id, k), Shown(id, k))
         /\ ~Broken(s)' /\ ~Broken(s) /\ watcher[id].stream = s /\ KeyMatchesWatcher(k, id)
  <1>1. StoreInv /\ WholeFeeds
    BY WholeHas DEF WholeInv, WholeParts
  <1>2. ~Broken(s)' /\ ~Broken(s)
    BY <1>1, StaysBroken DEF Complete
  <1>3. KeyMatchesWatcher(k, id)
    BY DEF KeyMatchesWatcher
  <1>4. CreatedAt(s, id, joined[id])
    <2>1. PICK r : r = joined[id]
      OBVIOUS
    <2>2. CreatedAt(s, id, r)'
      <3>1. CreatedAt(s, id, joined[id])'
        BY DEF Complete
      <3> QED
        BY <2>1, <3>1 DEF CreatedAt
    <2> QED
      BY <2>1, <2>2
  <1>5. Complete(s, id)
    BY <1>2, <1>4 DEF Complete
  <1> QED
    BY <1>1, <1>2, <1>3, <1>5 DEF WholeFeeds, Complete

(* The store's steps: a release shows what the call changed, all of which was
   notified. *)
LEMMA WholeStore ==
  ASSUME WholeInv, Next, StoreCall \/ StoreStep \/ Release
  PROVE  WholeFeeds'
  <1>1. /\ StoreInv /\ KVTypeOK /\ FeedInv /\ CallKind /\ CallbackOrder
    BY WholeHas DEF WholeInv, WholeParts, StoreInv
  <1>2. UNCHANGED <<watchers, watcher, joined, sent>>
    BY <1>1, StoreSteps DEF wmVars
  <1>3. ASSUME NEW s \in Stream, NEW id \in watchers, NEW k \in Key,
               Complete(s, id)', KeyMatchesWatcher(k, id)'
        PROVE  Show(EventsOf(s, id, k), Shown(id, k))'
    <2>1. /\ EventsOf(s, id, k)' = EventsOf(s, id, k)
          /\ \A r : CreatedAt(s, id, r)' <=> CreatedAt(s, id, r)
      BY <1>2, ResponsesKept, SameEvents
    <2>2. Show(EventsOf(s, id, k), Shown(id, k))
      BY <1>2, <1>3, <2>1, WholeBefore
    <2>3. Shown(id, k)' = Shown(id, k)
      <3>1. CASE StoreCall \/ StoreStep
        <4>1. notified = {} /\ notified' = notified /\ visible' = visible
          BY <1>1, <3>1, StoreSteps, NoCallback
        <4> QED
          BY <4>1 DEF Shown
      <3>2. CASE Release
        <4>1. /\ mutex # Free /\ call.told \subseteq notified /\ watchLock # Notifier
              /\ visible' = data /\ notified' = {}
          BY <1>1, <3>2, StoreSteps
        <4>2. k \notin notified => data[k] = visible[k]
          BY <1>1, <4>1 DEF CallKind, FeedInv, Reported
        <4> QED
          BY <4>1, <4>2 DEF Shown, Pending
      <3> QED
        BY <3>1, <3>2
    <2> QED
      BY <2>1, <2>2, <2>3
  <1> QED
    BY <1>2, <1>3 DEF WholeFeeds

(* The notifications: a watcher is told of the change under way by an event
   later than all it had. *)
LEMMA WholeCallback ==
  ASSUME WholeInv, Next,
         \/ \E k \in Key : Callback(k)
         \/ NotifyEnd /\ UNCHANGED <<kvVars, notified, joined>>
  PROVE  WholeFeeds'
  <1>1. /\ UNCHANGED <<data, visible, joined, watchers, watcher, sent>>
        /\ watchLock = Notifier => notice.todo = {}
        /\ NotifyEnd => watchLock' # Notifier /\ notified' = notified
    BY WholeHas DEF Callback, Notify, NotifyEnd, watchTable, streamVars, kvVars
  <1>2. ASSUME NEW s \in Stream, NEW id \in watchers, NEW k \in Key,
               Complete(s, id)', KeyMatchesWatcher(k, id)'
        PROVE  Show(EventsOf(s, id, k), Shown(id, k))'
    <2>1. /\ EventsOf(s, id, k)' = EventsOf(s, id, k)
          /\ \A r : CreatedAt(s, id, r)' <=> CreatedAt(s, id, r)
      BY <1>1, ResponsesKept, SameEvents
    <2>2. Show(EventsOf(s, id, k), Shown(id, k)) /\ KeyMatchesWatcher(k, id)
      BY <1>1, <1>2, <2>1, WholeBefore
    <2>3. ~Pending(id, k)
      BY <1>1 DEF Pending
    <2>4. Shown(id, k)' = Shown(id, k)
      <3>1. CASE NotifyEnd
        BY <1>1, <2>3, <3>1 DEF Shown, Pending
      <3>2. ASSUME NEW j \in Key, Callback(j)
            PROVE  Shown(id, k)' = Shown(id, k)
        <4>1. /\ j \notin notified /\ notified' = notified \cup {j} /\ watchLock' = Notifier
              /\ notice'.response.key = j
              /\ notice'.todo = {i \in watchers : KeyMatchesWatcher(j, i)}
          BY <3>2 DEF Callback, Notify, Response
        <4>2. CASE j = k
          BY <1>1, <2>2, <4>1, <4>2 DEF Shown, Pending
        <4>3. CASE j # k
          BY <1>1, <2>3, <4>1, <4>3 DEF Shown, Pending
        <4> QED
          BY <4>2, <4>3
      <3> QED
        BY <3>1, <3>2
    <2> QED
      BY <2>1, <2>2, <2>4
  <1> QED
    BY <1>1, <1>2 DEF WholeFeeds

(* A watcher that is written to has the latest event, the others what they had. *)
LEMMA WholeNotifyOne ==
  ASSUME WholeInv, Next, NEW i \in WatchId, NotifyOne(i), UNCHANGED <<kvVars, notified, joined>>
  PROVE  WholeFeeds'
  <1>1. /\ StoreInv /\ OrderParts /\ Owed /\ WatchTypes /\ WorkApart /\ CallbackOrder
        /\ NoticeShows /\ revision \in Nat
    BY WholeHas DEF WholeInv, WholeParts
  <1>2. PICK w \in Stream : w = watcher[i].stream
    BY <1>1, Ids DEF NotifyOne, WorkApart, WatcherType
  <1> DEFINE r == [notice.response EXCEPT !.id = i]
  <1>3. /\ watchLock = Notifier /\ watchLock' = Notifier /\ i \in notice.todo /\ Write(w, r)
        /\ notice'.response = notice.response /\ notice'.todo = notice.todo \ {i}
        /\ UNCHANGED <<watchers, watcher, data, visible, revision, notified, joined>>
    BY <1>1, <1>2 DEF NotifyOne, watchTable, WatchTypes, NoticeType, kvVars
  <1>4. r \in ResponseType /\ i \in watchers /\ notice.response.key \in notified
    BY <1>1, <1>3 DEF WorkApart, CallbackOrder, WatchTypes, NoticeType, ResponseType
  <1>5. /\ r.id = i /\ r.key = notice.response.key /\ r.type = EventType(r.key)
        /\ r.revision = revision /\ IsEvent(r)
        /\ Present(data[r.key]) => r.mod = data[r.key].mod
    BY <1>1, <1>3 DEF Owed, WatchTypes, NoticeType, OrderParts, NoticeNew, NoticeShows, IsEvent
  <1> HIDE DEF r
  <1>6. \A q \in Stream : \A x \in Responses(q)' : x \in Responses(q) \/ (q = w /\ x = r)
    BY <1>1, <1>3, <1>4, Written, ResponsesKept DEF Sends
  <1>7. \A q \in Stream : Responses(q) \subseteq Responses(q)'
    BY <1>1, <1>3, <1>4, WriteKeeps
  <1>8. ~Broken(w) => r \in Responses(w)'
    BY <1>1, <1>3, <1>4, Written DEF Sends
  <1>9. ASSUME NEW s \in Stream, NEW id \in watchers, NEW k \in Key,
               Complete(s, id)', KeyMatchesWatcher(k, id)'
        PROVE  Show(EventsOf(s, id, k), Shown(id, k))'
    <2>1. \A n : CreatedAt(s, id, n)' => CreatedAt(s, id, n)
      BY <1>5, <1>6 DEF CreatedAt, IsEvent
    <2>2. /\ Show(EventsOf(s, id, k), Shown(id, k)) /\ KeyMatchesWatcher(k, id)
          /\ ~Broken(s) /\ watcher[id].stream = s
      BY <1>3, <1>9, <2>1, WholeBefore
    <2>3. CASE id # i \/ k # r.key
      <3>1. EventsOf(s, id, k)' = EventsOf(s, id, k)
        BY <1>5, <1>6, <1>7, <2>3 DEF EventsOf
      <3>2. Shown(id, k)' = Shown(id, k)
        BY <1>3, <1>5, <2>3 DEF Shown, Pending
      <3> QED
        BY <2>2, <3>1, <3>2
    <2>4. CASE id = i /\ k = r.key
      <3>1. s = w /\ r \in Responses(s)'
        BY <1>2, <1>8, <2>2, <2>4
      <3>2. EventsOf(s, id, k)' = EventsOf(s, id, k) \cup {r}
        BY <1>5, <1>6, <1>7, <2>4, <3>1 DEF EventsOf
      <3>3. \A x \in EventsOf(s, id, k) : x.revision \in Nat /\ x.revision < r.revision
        <4>1. \A x \in EventsOf(s, id, k) :
                /\ x \in Responses(s) /\ x.id = i /\ IsEvent(x)
                /\ x.key = notice.response.key
          BY <1>5, <2>4 DEF EventsOf
        <4>2. \A x \in Responses(s) : x.revision \in Nat
          BY <1>1, ResponsesTyped DEF ResponseType
        <4> QED
          BY <1>1, <1>3, <1>5, <4>1, <4>2 DEF OrderParts, NoticeNew
      <3>4. Latest(EventsOf(s, id, k) \cup {r}) = {r}
        BY <1>1, <1>5, <3>3, LatestIsNew
      <3>5. Shown(id, k)' = data[k]
        BY <1>3, <1>4, <1>5, <2>4 DEF Shown, Pending
      <3>6. Show(EventsOf(s, id, k) \cup {r}, data[k])
        BY <1>5, <2>4, <3>4 DEF Show, EventType
      <3> QED
        BY <3>2, <3>5, <3>6
    <2> QED
      BY <2>3, <2>4
  <1> QED
    BY <1>3, <1>9 DEF WholeFeeds

(* A loop's steps: the watcher it registers has got the store as it is. *)
LEMMA WholeLoops ==
  ASSUME WholeInv, Next, NEW s \in Stream, LoopMoves(s)
  PROVE  WholeFeeds'
  <1>1. /\ StoreInv /\ ControlInv /\ OrderParts /\ WatchTypes /\ WorkApart /\ CallbackOrder
        /\ CreatorKnows /\ HistoryFeeds /\ FeedInv
    BY WholeHas DEF WholeInv, WholeParts, StoreInv
  <1>2. UNCHANGED <<revision, mutex, data, visible, notified>>
    BY WatchersOnly DEF LoopMoves, kvVars
  <1>3. /\ watchLock = Notifier <=> watchLock' = Notifier
        /\ watchLock = Notifier => notice' = notice
        /\ \A q \in Stream : Responses(q) \subseteq Responses(q)'
    BY <1>1, LoopsKeep DEF LoopMoves
  <1>4. \A id \in watchers : watcher'[id] = watcher[id]
    BY <1>1, LoopsApart DEF WorkApart
  <1>5. ASSUME NEW q \in Stream, NEW id \in watchers, id \in watchers', joined'[id] = joined[id],
               NEW k \in Key, Complete(q, id)', KeyMatchesWatcher(k, id)'
        PROVE  Show(EventsOf(q, id, k), Shown(id, k))'
    <2>1. \A x : x.id = id => (x \in Responses(q)' <=> x \in Responses(q))
      BY <1>1, <1>3, <1>5, LoopWrites
    <2>2. /\ EventsOf(q, id, k)' = EventsOf(q, id, k)
          /\ \A r : CreatedAt(q, id, r)' <=> CreatedAt(q, id, r)
      BY <2>1, SameEvents
    <2>3. Show(EventsOf(q, id, k), Shown(id, k))
      BY <1>4, <1>5, <2>2, WholeBefore
    <2>4. Shown(id, k)' = Shown(id, k)
      BY <1>2, <1>3 DEF Shown, Pending
    <2> QED
      BY <2>2, <2>3, <2>4
  <1>6. CASE ~Register(s)
    <2>1. UNCHANGED joined
      BY <1>6, WatchersOnly DEF LoopMoves
    <2>2. watchers' \subseteq watchers
      BY <1>1, <1>6, Created
         DEF LoopMoves, History, TakeHistory, CancelRequest, ReadCancel, LoopStep, SendCreated,
             SendHistory, CancelSend, ReadEnd, Cancel, CancelLock, Client, ClientRead,
             ClientEnds, watchTable
    <2> QED
      BY <1>5, <2>1, <2>2 DEF WholeFeeds
  <1>7. CASE Register(s)
    <2>1. PICK id \in WatchId : id = loop[s].id
      BY <1>1, <1>7, CreatorsKnown DEF Register, Insert, At, Creating
    <2>2. /\ loop[s].at \in {"insert", "send"} /\ (loop[s].at = "send" => loop[s].entries = {})
          /\ watchLock = Unlocked /\ watchers' = watchers \cup {id}
          /\ UNCHANGED <<watcher, sent>>
          /\ joined' = [joined EXCEPT ![id] = revision]
      BY <1>7, <2>1 DEF Register, Insert, At, streamVars
    <2>3. watcher[id].stream = s /\ id \notin watchers
      BY <1>1, <2>1, <2>2, CreatorsKnown DEF Creating
    <2>4. joined'[id] = revision /\ \A j \in watchers : joined'[j] = joined[j]
      BY <1>1, <2>2, <2>3, Ids DEF CallbackOrder, WorkApart
    <2>5. ASSUME NEW q \in Stream, NEW k \in Key, Complete(q, id)', KeyMatchesWatcher(k, id)'
          PROVE  Show(EventsOf(q, id, k), Shown(id, k))'
      <3>1. q = s /\ watcher[id].start > 0 /\ ~Broken(s)
        BY <1>1, <2>2, <2>3, <2>5, StaysBroken DEF Complete
      <3>2. loop[s].at = "send"
        BY <1>1, <2>1, <2>2, <3>1 DEF CreatorKnows
      <3>3. PICK x \in Responses(s) : x.id = id /\ x.type = "created" /\ x.revision = revision
        <4>1. CreatedAt(q, id, joined[id])'
          BY <2>5 DEF Complete
        <4>2. Responses(s)' = Responses(s)
          BY <2>2, ResponsesKept
        <4> QED
          BY <2>4, <3>1, <4>1, <4>2 DEF CreatedAt
      <3>4. loop[s].revision = revision
        BY <1>1, <2>1, <3>2, <3>3 DEF CreatorKnows
      <3>5. mutex = Free /\ \A j \in Key : KeyMatchesWatcher(j, loop[s].id) => PartSent(s, j)
        BY <1>1, <3>1, <3>2, <3>4 DEF HistoryFeeds
      <3>6. PartSent(s, k)
        BY <2>1, <2>2, <2>5, <3>5 DEF KeyMatchesWatcher
      <3>7. /\ EventsOf(s, id, k)' = EventsOf(s, id, k)
        BY <2>2, ResponsesKept, SameEvents
      <3>8. Shown(id, k)' = data[k]
        <4>1. notified = {} /\ visible = data
          BY <1>1, <3>5, NoCallback DEF FeedInv, MapInv, Uncommitted
        <4> QED
          BY <1>2, <4>1 DEF Shown
      <3>9. Show(EventsOf(s, id, k), data[k])
        <4> DEFINE E == EventsOf(s, id, k)
        <4>1. /\ \A r \in E : /\ Present(data[k]) /\ r.type = "put" /\ r.mod = data[k].mod
                              /\ r.revision = data[k].mod
              /\ Present(data[k]) => E # {}
          BY <2>1, <2>2, <3>2, <3>6 DEF PartSent
        <4>2. data[k].mod \in Nat
          BY <1>1 DEF ControlInv, KVTypeOK, Entry
        <4> HIDE DEF E
        <4>3. \A r \in E : r \in Latest(E)
          BY <4>1, <4>2 DEF Latest
        <4>4. Latest(E) \subseteq E
          BY DEF Latest
        <4>5. Show(E, data[k])
          BY <4>1, <4>3, <4>4 DEF Show
        <4> QED
          BY <4>5 DEF E
      <3> QED
        BY <3>1, <3>7, <3>8, <3>9
    <2> QED
      BY <1>5, <2>2, <2>4, <2>5 DEF WholeFeeds
  <1> QED
    BY <1>6, <1>7

-----------------------------------------------------------------------------
(* The theorem. *)

(* WholeInv is inductive. *)
LEMMA WholeInit == Init => WholeInv
  <1> SUFFICES ASSUME Init
               PROVE  WholeInv
    OBVIOUS
  <1>1. ToldInv
    BY OrderInit, WMAssumption DEF Init, WMInit, ToldInv, Owed
  <1>2. /\ mutex = Free /\ watchLock # Notifier /\ watchers = {}
        /\ \A s \in Stream : loop[s].at = "read"
    BY WMAssumption DEF Init, KVInit, WMInit, Reading
  <1> QED
    BY <1>1, <1>2
       DEF WholeInv, WholeParts, CallKind, NoticeShows, CreatorKnows, HistoryFeeds, WholeFeeds,
           Creating

(* Every step keeps it, where no transaction or lease changes the store. *)
LEMMA WholeStep ==
  ASSUME Kind \subseteq {"put", "delete"}
  PROVE  WholeInv /\ [Next]_vars => WholeInv'
  <1> SUFFICES ASSUME WholeInv, [Next]_vars
               PROVE  WholeInv'
    OBVIOUS
  <1>1. ToldInv'
    BY OrderStep, OwedStep DEF WholeInv, ToldInv
  <1>2. CASE Next
    <2>1. WholeFeeds'
      BY <1>2, WholeStore, WholeCallback, WholeNotifyOne, WholeLoops
         DEF Next, CallbackStep, LoopMoves
    <2> QED
      BY <1>1, <1>2, <2>1, CallKindStep, NoticeShowsStep, CreatorKnowsStep, HistoryFeedsStep
         DEF WholeInv, WholeParts
  <1>3. CASE UNCHANGED vars
    <2>1. UNCHANGED <<data, revision, mutex, call, visible, watchers, watcher, watchLock, notice,
                      loop, client, sent, notified, joined>>
      BY <1>3 DEF vars, kvVars, wmVars
    <2>2. WholeParts
      BY DEF WholeInv
    <2>3. CallKind' /\ NoticeShows' /\ CreatorKnows'
      BY <2>1, <2>2, ResponsesKept DEF WholeParts, CallKind, NoticeShows, CreatorKnows
    <2>4. HistoryFeeds'
      BY <2>1, <2>2
         DEF WholeParts, HistoryFeeds, PartSent, EventsOf, Responses, Broken, KeyMatchesWatcher
    <2>5. WholeFeeds'
      BY <2>1, <2>2
         DEF WholeParts, WholeFeeds, Complete, CreatedAt, EventsOf, Responses, Broken, Shown,
             Pending, KeyMatchesWatcher, Show, Latest
    <2> QED
      BY <1>1, <2>3, <2>4, <2>5 DEF WholeInv, WholeParts
  <1> QED
    BY <1>2, <1>3

(* Where clients use neither transactions nor leases, a client that gave a start
   revision can rebuild the part of the store it watches as far as its entries
   are no older than that, if no call began between the revision read for its
   created response and the registration of its watcher: that case, in which the
   server can lose the call's event, is excluded by CreatedAt. *)
THEOREM HistoryIsWhole ==
  ASSUME Kind \subseteq {"put", "delete"}
  PROVE  Spec => []HistoryThenEvents
  <1>1. WholeInv /\ [Next]_vars => WholeInv'
    BY WholeStep
  <1>2. WholeInv => HistoryThenEvents
    <2> SUFFICES ASSUME WholeInv, mutex = Free,
                        NEW s \in Stream, NEW id \in watchers, NEW k \in Key,
                        Complete(s, id), KeyInRange(k, watcher[id].key, watcher[id].end)
                 PROVE  Show(EventsOf(s, id, k), visible[k])
      BY DEF HistoryThenEvents, Complete
    <2>1. notified = {}
      BY WholeHas, NoCallback
    <2> QED
      BY <2>1 DEF WholeInv, WholeParts, WholeFeeds, KeyMatchesWatcher, Shown
  <1> QED
    BY <1>1, <1>2, WholeInit, PTL DEF Spec
=============================================================================
