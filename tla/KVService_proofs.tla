------------------------- MODULE KVService_proofs -------------------------
(***************************************************************************)
(* Theorems of KVService, for every set of keys, handlers, ranges and calls *)
(* and every bound on the revision.                                         *)
(***************************************************************************)
EXTENDS KVService, KVStore_proofs

-----------------------------------------------------------------------------
(* To the store, the handlers are threads that make its calls. *)

(* What a handler does outside the store leaves the store alone, and what it
   does inside is one of the store's own steps. *)
LEMMA ServiceMoves == [SVNext]_svVars => [KVNext]_kvVars
  <1> SUFFICES ASSUME [SVNext]_svVars
               PROVE  [KVNext]_kvVars
    OBVIOUS
  <1>1. InStore => KVNext
    BY DEF InStore, KVNext, KVProceed
  <1>2. ReturnFromStore => KVNext
    BY DEF ReturnFromStore, KVNext, KVProceed
  <1>3. ASSUME NEW t \in Thread, Handler(t)
        PROVE  [KVNext]_kvVars
    BY <1>3 DEF Handler, ServeCall, ServeRange, ServeCompact, ServeLease, ServeStatus,
                FillResponseHeader, FillIndex, Return, KVNext
  <1>4. UNCHANGED svVars => UNCHANGED kvVars
    BY DEF svVars
  <1> QED
    BY <1>1, <1>2, <1>3, <1>4 DEF SVNext

(* The service does nothing to the store that the store alone could not do. *)
THEOREM ServiceRunsStore == SVSpec => KVSpec
  <1>1. SVInit => KVInit
    BY DEF SVInit
  <1> QED
    BY <1>1, ServiceMoves, PTL DEF SVSpec, KVSpec

(* Behind the handlers, the store is a versioned map: every call is one commit. *)
THEOREM ServedMap == SVSpec => IsVersionedMap
  BY ServiceRunsStore, ImplementsVersionedMap

(* Behind the handlers, every call is executed alone. *)
THEOREM ServedSerially == SVSpec => IsSerial
  BY ServiceRunsStore, ImplementsSerialStore

(* Behind the handlers, the revisions of an entry are in order. *)
THEOREM ServedRevisionsOrdered == SVSpec => []RevisionOrder
  BY ServiceRunsStore, RevisionsOrdered

(* Behind the handlers, what single writes change reaches the callbacks. *)
THEOREM ServedWritesFed == SVSpec => ClientWritesAreFed
  BY ServiceRunsStore, ClientWritesFed

-----------------------------------------------------------------------------
(* Types. *)

Rpc == {"none", "range", "revision", "status", "put", "delete", "txn", "lease"}

RangeType == [key : Key \cup {NoEnd}, end : RangeEnd, limit : Nat]

Kvs == {<<>>} \cup UNION {[K -> Nat] : K \in SUBSET Key}

Reply == [rpc : Rpc, range : RangeType, kvs : Kvs, header : Nat, index : Nat,
          floor : Nat, at : Nat]

ServiceTypes ==
  /\ reply \in [Thread -> Reply]
  /\ answered \in Nat
  /\ log \in Seq([Key -> Nat])

(* The reply of a thread that serves nothing. *)
LEMMA NoReplyType == NoReply \in Reply
  BY DEF NoReply, Reply, Rpc, NoRange, All, RangeType, RangeEnd, Kvs

(* Modification revisions of entries are numbers. *)
LEMMA ModsType ==
  ASSUME NEW store \in [Key -> Entry], NEW K \in SUBSET Key
  PROVE  Mods(store) \in [Key -> Nat] /\ ModsOf(store, K) \in Kvs
  <1>1. \A k \in Key : store[k].mod \in Nat
    BY DEF Entry
  <1>2. ModsOf(store, K) \in [K -> Nat]
    BY <1>1 DEF ModsOf
  <1> QED
    BY <1>1, <1>2 DEF Mods, Kvs

(* What a handler's call of the store starts with. *)
CallStarts(t, range) ==
  /\ mutex = Free /\ mutex' = t /\ mutex' # Free /\ revision' = revision + 1
  /\ call'.kind \in {"put", "delete", "txn", "lease"}
  /\ range \in RangeType
  /\ Serve(t, call'.kind, range, <<>>)
  /\ call'.kind = "put" =>
       range.key \in Key /\ range.end = NoEnd /\ range.limit = 0 /\ call'.told = {range.key}
  /\ call'.kind = "delete" =>
       /\ range.key \in Key /\ range.limit = 0 /\ call'.told = {}
       /\ call'.todo = <<DeleteRequest(range.key, range.end)>>

(* A call of the store begins like that. *)
LEMMA CallBegins ==
  ASSUME NEW t \in Thread, ServeCall(t)
  PROVE  Locks /\ \E range \in RangeType : CallStarts(t, range)
  <1> DEFINE req == Head(call'.todo)
             range == IF call'.kind \in {"put", "delete"} THEN All(req.key, req.end) ELSE NoRange
  <1>1. KVCall(t) /\ Serve(t, call'.kind, range, <<>>)
    BY DEF ServeCall
  <1>2. Locks
    BY <1>1, CallLocks
  <1>3. /\ mutex = Free /\ mutex' = t /\ mutex' # Free /\ revision' = revision + 1
        /\ call'.kind \in {"put", "delete", "txn", "lease"}
    BY <1>1, KVAssumption DEF KVCall, Put, DeleteRange, Txn, LeaseDelete, Lock
  <1>4. CASE call'.kind = "put"
    <2>1. PICK k \in Key, v \in Value, l \in LeaseName : Put(t, k, v, l)
      BY <1>1, <1>4 DEF KVCall, DeleteRange, Txn, LeaseDelete, Lock
    <2>2. call'.todo = <<PutRequest(k, v, l)>> /\ call'.told = {k}
      BY <2>1 DEF Put, Lock
    <2>3. req = PutRequest(k, v, l)
      BY <2>2
    <2>4. range = All(k, NoEnd) /\ range \in RangeType
      BY <1>4, <2>3 DEF PutRequest, All, RangeType, RangeEnd
    <2> QED
      BY <1>1, <1>2, <1>3, <1>4, <2>2, <2>4 DEF CallStarts, All
  <1>5. CASE call'.kind = "delete"
    <2>1. PICK k \in Key, end \in RangeEnd : DeleteRange(t, k, end)
      BY <1>1, <1>5 DEF KVCall, Put, Txn, LeaseDelete, Lock
    <2>2. call'.todo = <<DeleteRequest(k, end)>> /\ call'.told = {}
      BY <2>1 DEF DeleteRange, Lock
    <2>3. req = DeleteRequest(k, end)
      BY <2>2
    <2>4. range = All(k, end) /\ range \in RangeType
      BY <1>5, <2>3 DEF DeleteRequest, All, RangeType, RangeEnd
    <2> QED
      BY <1>1, <1>2, <1>3, <1>5, <2>2, <2>4 DEF CallStarts, All
  <1>6. CASE call'.kind \in {"txn", "lease"}
    <2>1. range = NoRange /\ NoRange \in RangeType
      BY <1>6 DEF NoRange, All, RangeType, RangeEnd
    <2> QED
      BY <1>1, <1>2, <1>3, <1>6, <2>1 DEF CallStarts
  <1> QED
    BY <1>3, <1>4, <1>5, <1>6

(* A call that does not take the mutex for longer than its first step. *)
ReadStarts(t) ==
  /\ UNCHANGED kvVars
  /\ \/ \E r \in RangeRequest :
          /\ mutex = Free
          /\ Serve(t, "range", r, ModsOf(data, RangeReply(r.key, r.end, r.limit)))
     \/ \E rpc \in {"revision", "status"} : Serve(t, rpc, NoRange, <<>>)

(* The other calls begin like that. *)
LEMMA ReadBegins ==
  ASSUME NEW t \in Thread,
         ServeRange(t) \/ ServeCompact(t) \/ ServeLease(t) \/ ServeStatus(t)
  PROVE  ReadStarts(t)
  BY DEF ServeRange, ServeCompact, ServeLease, ServeStatus, ReadStarts

(* The handler is alone in having its reply changed. *)
Alone(t) == \A s \in Thread : s # t => reply'[s] = reply[s]

(* The reply of a call that begins, and those of the other threads. *)
LEMMA Served ==
  ASSUME ServiceTypes, NEW t \in Thread, NEW rpc \in Rpc, NEW range \in RangeType, NEW kvs \in Kvs,
         Serve(t, rpc, range, kvs)
  PROVE  /\ reply'[t].rpc = rpc /\ reply'[t].range = range /\ reply'[t].kvs = kvs
         /\ reply'[t].header = 0 /\ reply'[t].index = 0 /\ reply'[t].at = 0
         /\ reply'[t].floor = answered
         /\ Alone(t) /\ UNCHANGED <<answered, log>>
         /\ reply[t] = NoReply
         /\ ServiceTypes'
  <1> DEFINE new == [NoReply EXCEPT !.rpc = rpc, !.range = range, !.kvs = kvs,
                                    !.floor = answered]
  <1>1. reply' = [reply EXCEPT ![t] = new] /\ UNCHANGED <<answered, log>> /\ reply[t] = NoReply
    BY DEF Serve
  <1>2. /\ new.rpc = rpc /\ new.range = range /\ new.kvs = kvs /\ new.floor = answered
        /\ new.header = 0 /\ new.index = 0 /\ new.at = 0
    BY DEF NoReply
  <1>3. new \in Reply
    BY NoReplyType DEF ServiceTypes, Reply
  <1> HIDE DEF new
  <1> QED
    BY <1>1, <1>2, <1>3 DEF ServiceTypes, Alone

(* The return from the store's call. *)
LEMMA Returned ==
  ASSUME ServiceTypes, KVTypeOK, ReturnFromStore
  PROVE  /\ mutex \in Thread /\ Alone(mutex) /\ Unlock /\ UNCHANGED answered
         /\ reply'[mutex].rpc = reply[mutex].rpc
         /\ reply'[mutex].range = reply[mutex].range
         /\ reply'[mutex].floor = reply[mutex].floor
         /\ reply'[mutex].index = reply[mutex].index
         /\ reply'[mutex].at = revision
         /\ reply'[mutex].kvs = ModsOf(visible, {k \in call.told : Present(visible[k])})
         /\ reply'[mutex].header = IF call.kind = "txn" THEN revision ELSE 0
         /\ log' = Append(log, Mods(data))
         /\ ServiceTypes'
  <1> DEFINE kvs == ModsOf(visible, {k \in call.told : Present(visible[k])})
             header == IF call.kind = "txn" THEN revision ELSE 0
             new == [reply[mutex] EXCEPT !.at = revision, !.kvs = kvs, !.header = header]
  <1>1. mutex \in Thread /\ reply[mutex] \in Reply
    BY DEF KVTypeOK, ServiceTypes, ReturnFromStore, TxnHeader, Unlock
  <1>2. /\ reply' = [reply EXCEPT ![mutex] = new]
        /\ Unlock /\ UNCHANGED answered /\ log' = Append(log, Mods(data))
    BY DEF ReturnFromStore, TxnHeader
  <1>3. kvs \in Kvs /\ Mods(data) \in [Key -> Nat]
    BY ModsType DEF KVTypeOK, Call
  <1>4. header \in Nat /\ revision \in Nat
    BY DEF KVTypeOK
  <1> HIDE DEF kvs, header
  <1>5. /\ new.rpc = reply[mutex].rpc /\ new.range = reply[mutex].range
        /\ new.floor = reply[mutex].floor /\ new.index = reply[mutex].index
        /\ new.at = revision /\ new.kvs = kvs /\ new.header = header /\ new \in Reply
    BY <1>1, <1>3, <1>4 DEF Reply
  <1> HIDE DEF new
  <1>6. ServiceTypes'
    BY <1>1, <1>2, <1>3, <1>5 DEF ServiceTypes
  <1> QED
    BY <1>1, <1>2, <1>5, <1>6 DEF ServiceTypes, Alone, kvs, header

(* The revision a handler reads after its call. *)
LEMMA HeaderFilled ==
  ASSUME ServiceTypes, revision \in Nat, NEW t \in Thread, FillResponseHeader(t)
  PROVE  /\ reply[t].rpc # "none" /\ mutex # t /\ reply[t].header = 0
         /\ Alone(t) /\ UNCHANGED <<kvVars, answered, log>>
         /\ reply'[t].rpc = reply[t].rpc
         /\ reply'[t].range = reply[t].range
         /\ reply'[t].kvs = reply[t].kvs
         /\ reply'[t].floor = reply[t].floor
         /\ reply'[t].index = reply[t].index
         /\ reply'[t].at = reply[t].at
         /\ reply'[t].header = revision
         /\ ServiceTypes'
  BY DEF FillResponseHeader, ServiceTypes, Reply, Alone

(* The revision Status reads once more. *)
LEMMA IndexFilled ==
  ASSUME ServiceTypes, revision \in Nat, NEW t \in Thread, FillIndex(t)
  PROVE  /\ reply[t].rpc = "status" /\ reply[t].header # 0
         /\ Alone(t) /\ UNCHANGED <<kvVars, answered, log>>
         /\ reply'[t].rpc = reply[t].rpc
         /\ reply'[t].header = reply[t].header
         /\ reply'[t].floor = reply[t].floor
         /\ reply'[t].at = reply[t].at
         /\ reply'[t].index = revision
         /\ ServiceTypes'
  BY DEF FillIndex, ServiceTypes, Reply, Alone

(* A handler that returns. *)
LEMMA HandlerReturned ==
  ASSUME ServiceTypes, NEW t \in Thread, Return(t)
  PROVE  /\ reply'[t] = NoReply /\ Alone(t) /\ UNCHANGED <<kvVars, log>>
         /\ answered' = IF reply[t].header > answered THEN reply[t].header ELSE answered
         /\ ServiceTypes'
  BY NoReplyType DEF Return, ServiceTypes, Reply, Alone

-----------------------------------------------------------------------------
(* The order of the replies. *)

Writing == {"put", "delete", "txn", "lease"}

(* A header is no earlier than what its handler may know. *)
Ordered(t) ==
  /\ reply[t].at <= revision /\ reply[t].floor <= revision /\ reply[t].header <= revision
  /\ reply[t].rpc = "none" => reply[t] = NoReply
  /\ reply[t].header = 0 => reply[t].index = 0
  /\ reply[t].header # 0 => reply[t].at <= reply[t].header /\ reply[t].floor <= reply[t].header
  /\ reply[t].index # 0 => reply[t].header <= reply[t].index
  /\ reply[t].rpc \in Writing /\ mutex # t => reply[t].floor < reply[t].at

(* The call in the mutex is that of its handler, which has answered nothing. *)
CallInProgress ==
  mutex # Free =>
    /\ reply[mutex].rpc = call.kind
    /\ reply[mutex].header = 0
    /\ reply[mutex].floor < revision

LogComplete == Len(log) = IF mutex = Free THEN revision ELSE revision - 1

OrderInv ==
  /\ MapInv
  /\ ServiceTypes
  /\ answered <= revision
  /\ \A t \in Thread : Ordered(t)
  /\ CallInProgress
  /\ LogComplete

(* What the invariant says of the variables. *)
LEMMA OrderTypes ==
  ASSUME OrderInv
  PROVE  /\ KVTypeOK /\ ServiceTypes /\ revision \in Nat /\ revision >= 1
         /\ \A t \in Thread : /\ reply[t] \in Reply /\ reply[t].at \in Nat
                              /\ reply[t].floor \in Nat /\ reply[t].header \in Nat
                              /\ reply[t].index \in Nat /\ reply[t].rpc \in Rpc
  BY DEF OrderInv, MapInv, RevisionInv, Started, KVTypeOK, ServiceTypes, Reply

(* A thread whose reply stays has it in order still, whatever the store does. *)
LEMMA OrderKept ==
  ASSUME OrderInv, NEW s \in Thread, reply'[s] = reply[s],
         revision' \in Nat, revision <= revision', mutex' = s => mutex = s, mutex = s => mutex' = s
  PROVE  Ordered(s)'
  <1>1. /\ Ordered(s) /\ revision \in Nat /\ reply[s].at \in Nat
        /\ reply[s].floor \in Nat /\ reply[s].header \in Nat
    BY OrderTypes DEF OrderInv
  <1> QED
    BY <1>1 DEF Ordered

(* Every step of the service keeps the order. *)
LEMMA OrderStep ==
  ASSUME OrderInv, [SVNext]_svVars
  PROVE  OrderInv'
  <1>1. KVTypeOK /\ ServiceTypes /\ revision \in Nat /\ revision >= 1
    BY OrderTypes
  <1>2. MapInv'
    BY ServiceMoves, NextMoves, MapStep DEF OrderInv
  <1>3. /\ answered <= revision /\ CallInProgress /\ LogComplete /\ answered \in Nat
        /\ \A t \in Thread : Ordered(t)
        /\ log \in Seq([Key -> Nat])
    BY <1>1 DEF OrderInv, ServiceTypes
  <1>4. CASE InStore
    <2>1. /\ UNCHANGED <<revision, mutex, reply, answered, log>> /\ call'.kind = call.kind
      BY <1>1, <1>4 DEF InStore, PutDetach, PutStore, EraseKey, EraseDone, TxnRange, KVTypeOK, Call
    <2> QED
      BY <1>1, <1>2, <1>3, <2>1
         DEF OrderInv, ServiceTypes, Ordered, CallInProgress, LogComplete
  <1>5. CASE ReturnFromStore
    <2>1. mutex # Free /\ mutex' = Free /\ revision' = revision
      BY <1>5 DEF ReturnFromStore, TxnHeader, Unlock
    <2>2. PICK t \in Thread : t = mutex
      BY <1>1, <2>1 DEF KVTypeOK
    <2>3. /\ Alone(t) /\ UNCHANGED answered /\ ServiceTypes'
          /\ reply'[t].rpc = reply[t].rpc
          /\ reply'[t].floor = reply[t].floor
          /\ reply'[t].index = reply[t].index
          /\ reply'[t].at = revision
          /\ reply'[t].header = IF call.kind = "txn" THEN revision ELSE 0
          /\ log' = Append(log, Mods(data))
      BY <1>1, <1>5, <2>2, Returned
    <2>4. Len(log') = Len(log) + 1
      BY <1>1, <1>3, <2>3, ModsType DEF KVTypeOK
    <2>5. Ordered(t)'
      <3>1. /\ Ordered(t) /\ reply[t].header = 0
            /\ reply[t].floor < revision /\ reply[t].rpc = call.kind
            /\ reply[t].floor \in Nat /\ reply[t].index \in Nat
        BY <1>1, <1>3, <2>1, <2>2, OrderTypes DEF CallInProgress
      <3>2. call.kind # "none"
        BY <1>1 DEF KVTypeOK, Call
      <3> QED
        BY <1>1, <2>1, <2>3, <3>1, <3>2 DEF Ordered
    <2>6. ASSUME NEW s \in Thread, s # t
          PROVE  Ordered(s)'
      BY <1>1, <2>1, <2>2, <2>3, <2>6, OrderKept, KVAssumption DEF Alone
    <2> QED
      BY <1>1, <1>2, <1>3, <2>1, <2>3, <2>4, <2>5, <2>6 DEF OrderInv, CallInProgress, LogComplete
  <1>6. ASSUME NEW t \in Thread, ServeCall(t)
        PROVE  OrderInv'
    <2>1. PICK range \in RangeType : CallStarts(t, range)
      BY <1>6, CallBegins
    <2>2. /\ mutex = Free /\ mutex' = t /\ t # Free /\ revision' = revision + 1
          /\ call'.kind \in Writing /\ call'.kind \in Rpc /\ <<>> \in Kvs
      BY <2>1 DEF CallStarts, Writing, Rpc, Kvs
    <2>3. Serve(t, call'.kind, range, <<>>)
      BY <2>1 DEF CallStarts
    <2>4. /\ reply'[t].rpc = call'.kind /\ reply'[t].header = 0 /\ reply'[t].index = 0
          /\ reply'[t].at = 0 /\ reply'[t].floor = answered
          /\ Alone(t) /\ UNCHANGED <<answered, log>> /\ ServiceTypes'
      BY <1>1, <2>2, <2>3, Served
    <2>5. Ordered(t)'
      BY <1>1, <1>3, <2>2, <2>4 DEF Ordered, Writing
    <2>6. ASSUME NEW s \in Thread, s # t
          PROVE  Ordered(s)'
      BY <1>1, <2>2, <2>4, <2>6, OrderKept, KVAssumption DEF Alone
    <2> QED
      BY <1>1, <1>2, <1>3, <2>2, <2>4, <2>5, <2>6 DEF OrderInv, CallInProgress, LogComplete
  <1>7. ASSUME NEW t \in Thread, ReadStarts(t)
        PROVE  OrderInv'
    <2>1. /\ UNCHANGED kvVars
          /\ \E rpc \in {"range", "revision", "status"}, range \in RangeType, kvs \in Kvs :
               Serve(t, rpc, range, kvs)
      <3>1. ASSUME NEW r \in RangeRequest
            PROVE  r \in RangeType /\ ModsOf(data, RangeReply(r.key, r.end, r.limit)) \in Kvs
        <4>1. RangeReply(r.key, r.end, r.limit) \in SUBSET Key
          BY DEF RangeReply, RangeKeys, KeysInRange, StoredKeys
        <4> QED
          BY <1>1, <4>1, ModsType, KSAssumption DEF KVTypeOK, RangeType
      <3>2. NoRange \in RangeType /\ <<>> \in Kvs
        BY DEF NoRange, All, RangeType, RangeEnd, Kvs
      <3> QED
        BY <1>7, <3>1, <3>2 DEF ReadStarts
    <2>2. PICK rpc \in {"range", "revision", "status"}, range \in RangeType, kvs \in Kvs :
            Serve(t, rpc, range, kvs)
      BY <2>1
    <2>3. /\ reply'[t].rpc = rpc /\ reply'[t].header = 0 /\ reply'[t].index = 0
          /\ reply'[t].at = 0 /\ reply'[t].floor = answered /\ reply[t] = NoReply
          /\ Alone(t) /\ UNCHANGED <<answered, log>> /\ ServiceTypes'
      BY <1>1, <2>2, Served DEF Rpc
    <2>4. UNCHANGED <<revision, mutex, call>>
      BY <2>1 DEF kvVars
    <2>5. mutex # Free => mutex # t
      BY <1>1, <1>3, <2>3 DEF CallInProgress, NoReply, KVTypeOK, Call
    <2>6. Ordered(t)'
      BY <1>1, <1>3, <2>3, <2>4 DEF Ordered, Writing
    <2>7. ASSUME NEW s \in Thread, s # t
          PROVE  Ordered(s)'
      BY <1>1, <2>3, <2>4, <2>7, OrderKept DEF Alone
    <2> QED
      BY <1>1, <1>2, <1>3, <2>3, <2>4, <2>5, <2>6, <2>7
         DEF OrderInv, CallInProgress, LogComplete, Alone, KVTypeOK
  <1>8. ASSUME NEW t \in Thread, FillResponseHeader(t) \/ FillIndex(t) \/ Return(t)
        PROVE  OrderInv'
    <2>1. UNCHANGED <<revision, mutex, call, log>> /\ Alone(t) /\ ServiceTypes'
      BY <1>1, <1>8, HeaderFilled, IndexFilled, HandlerReturned DEF kvVars
    <2>2. mutex # t
      BY <1>1, <1>3, <1>8, KVAssumption
         DEF FillResponseHeader, FillIndex, Return, Complete, CallInProgress
    <2>3. /\ Ordered(t) /\ reply[t].at \in Nat /\ reply[t].floor \in Nat
          /\ reply[t].header \in Nat /\ reply[t].index \in Nat
      BY <1>3, OrderTypes
    <2>4. Ordered(t)' /\ answered' <= revision
      <3>1. CASE FillResponseHeader(t)
        BY <1>1, <1>3, <2>1, <2>3, <3>1, HeaderFilled DEF Ordered
      <3>2. CASE FillIndex(t)
        BY <1>1, <1>3, <2>1, <2>3, <3>2, IndexFilled DEF Ordered, Writing
      <3>3. CASE Return(t)
        BY <1>1, <1>3, <2>1, <2>3, <3>3, HandlerReturned DEF Ordered, NoReply, Writing
      <3> QED
        BY <1>8, <3>1, <3>2, <3>3
    <2>5. ASSUME NEW s \in Thread, s # t
          PROVE  Ordered(s)'
      BY <1>1, <2>1, <2>5, OrderKept DEF Alone
    <2> QED
      BY <1>1, <1>2, <1>3, <2>1, <2>2, <2>4, <2>5
         DEF OrderInv, CallInProgress, LogComplete, Alone, KVTypeOK
  <1>9. CASE UNCHANGED svVars
    BY <1>2, <1>3, <1>1, <1>9
       DEF OrderInv, ServiceTypes, Ordered, CallInProgress, LogComplete, svVars, kvVars
  <1> QED
    BY <1>4, <1>5, <1>6, <1>7, <1>8, <1>9, ReadBegins DEF SVNext, Handler

(* The first state, at revision 1, is in order. *)
LEMMA OrderInit == SVInit => OrderInv
  <1> SUFFICES ASSUME SVInit
               PROVE  OrderInv
    OBVIOUS
  <1>1. MapInv /\ KVTypeOK /\ revision = 1 /\ mutex = Free
    BY MapInit DEF SVInit, KVInit, MapInv, RevisionInv
  <1>2. Mods(data) \in [Key -> Nat]
    BY <1>1, ModsType DEF KVTypeOK
  <1>3. ServiceTypes /\ Len(log) = 1
    BY <1>2, NoReplyType DEF SVInit, ServiceTypes
  <1> QED
    BY <1>1, <1>3
       DEF SVInit, OrderInv, Ordered, NoReply, Writing, CallInProgress, LogComplete

(* The replies are in order throughout. *)
LEMMA OrderInvariant == SVSpec => []OrderInv
  BY OrderInit, OrderStep, PTL DEF SVSpec

(* The variables of the service keep their types. *)
THEOREM ServiceTypeCorrect == SVSpec => []SVTypeOK
  <1>1. OrderInv => SVTypeOK
    <2> SUFFICES ASSUME OrderInv
                 PROVE  SVTypeOK
      OBVIOUS
    <2>1. mutex # Free => reply[mutex].rpc # "none" /\ reply[mutex].header = 0
      BY OrderTypes DEF OrderInv, CallInProgress, KVTypeOK, Call
    <2> QED
      BY <2>1, OrderTypes DEF SVTypeOK, OrderInv, ServiceTypes, Ordered, LogComplete
  <1> QED
    BY <1>1, OrderInvariant, PTL

(* The header of every reply names a revision no earlier than those its client,
   and every client answered before the call, may know. *)
THEOREM RepliesOrdered == SVSpec => []RepliesInOrder
  <1>1. OrderInv => RepliesInOrder
    <2> SUFFICES ASSUME OrderInv, NEW t \in Thread, reply[t].header # 0
                 PROVE  /\ reply[t].header >= reply[t].at
                        /\ reply[t].header >= reply[t].floor
                        /\ reply[t].rpc \in Writing => reply[t].header > reply[t].floor
                        /\ reply[t].index # 0 => reply[t].index >= reply[t].header
      BY DEF RepliesInOrder, Writing
    <2>1. mutex # t
      BY KVAssumption DEF OrderInv, CallInProgress
    <2> QED
      BY <2>1, OrderTypes DEF OrderInv, Ordered
  <1> QED
    BY <1>1, OrderInvariant, PTL

-----------------------------------------------------------------------------
(* What the replies say of the store. *)

(* What a request finds in a store with these modification revisions. *)
Found(mods, range) ==
  [k \in RangeKeys({k \in Key : mods[k] # 0}, range.key, range.end, range.limit) |-> mods[k]]

(* What a request finds at revision r is what it finds in that entry of the log. *)
LEMMA RangeAtFinds ==
  ASSUME NEW r, NEW t \in Thread
  PROVE  RangeAt(r, t) = Found(log[r], reply[t].range)
  BY DEF RangeAt, Found

(* The last entry of the log is the map that was visible last, in which an
   entry that is there has a modification revision. *)
LogCurrent ==
  /\ log[Len(log)] = Mods(visible)
  /\ \A k \in Key : Present(visible[k]) <=> visible[k].mod # 0

(* What a put or a delete has collected so far. *)
Collected(range) ==
  /\ call.kind = "put" =>
       range.key \in Key /\ range.end = NoEnd /\ range.limit = 0 /\ call.told = {range.key}
  /\ call.kind = "delete" =>
       /\ range.key \in Key /\ range.limit = 0
       /\ \A k \in call.told : Present(visible[k]) /\ KeyInRange(k, range.key, range.end)
       /\ \A k \in Key \ call.told : data[k] = visible[k]
       /\ call.todo \in {<<>>, <<DeleteRequest(range.key, range.end)>>}
       /\ call.todo = <<>> =>
            \A k \in Key :
              Present(visible[k]) /\ KeyInRange(k, range.key, range.end) => k \in call.told

Collecting == mutex # Free => Collected(reply[mutex].range)

(* A reply that is there holds the entries of one revision. *)
Described(t) ==
  /\ reply[t].rpc = "range" =>
       \E r \in 1 .. Len(log) :
         /\ reply[t].floor <= r
         /\ reply[t].header # 0 => r <= reply[t].header
         /\ reply[t].kvs = Found(log[r], reply[t].range)
  /\ reply[t].rpc \in {"put", "delete"} /\ mutex # t =>
       /\ reply[t].at - 1 \in 1 .. Len(log)
       /\ reply[t].kvs = Found(log[reply[t].at - 1], reply[t].range)

EntriesInv ==
  /\ OrderInv
  /\ LogCurrent
  /\ Collecting
  /\ \A t \in Thread : Described(t)

(* A range request finds the stored keys it asks for. *)
LEMMA RangeFinds ==
  ASSUME NEW store \in [Key -> Entry], \A k \in Key : Present(store[k]) <=> store[k].mod # 0,
         NEW range
  PROVE  Found(Mods(store), range) =
           ModsOf(store, RangeKeys({k \in Key : Present(store[k])}, range.key, range.end,
                                   range.limit))
  <1>1. {k \in Key : Mods(store)[k] # 0} = {k \in Key : Present(store[k])}
    BY DEF Mods
  <1> DEFINE K == RangeKeys({k \in Key : Present(store[k])}, range.key, range.end, range.limit)
  <1>2. \A k \in K : Mods(store)[k] = store[k].mod
    BY DEF RangeKeys, KeysInRange, Mods
  <1> HIDE DEF K
  <1>3. Found(Mods(store), range) = [k \in K |-> Mods(store)[k]]
    BY <1>1 DEF Found, K
  <1> QED
    BY <1>2, <1>3 DEF ModsOf, K

(* When a put or a delete is through, the keys it collected and replaced are
   those its range found. *)
LEMMA CollectedIsRange ==
  ASSUME NEW range, Collected(range), call.kind \in {"put", "delete"}, call.todo = <<>>,
         call.told \subseteq Key
  PROVE  {k \in call.told : Present(visible[k])} =
           RangeKeys({k \in Key : Present(visible[k])}, range.key, range.end, range.limit)
  <1>1. RangeKeys({k \in Key : Present(visible[k])}, range.key, range.end, range.limit) =
          {k \in Key : Present(visible[k]) /\ KeyInRange(k, range.key, range.end)}
    BY DEF RangeKeys, KeysInRange, Collected
  <1>2. CASE call.kind = "put"
    <2>1. \A k \in Key : KeyInRange(k, range.key, range.end) <=> k = range.key
      BY <1>2, KeyAssumption DEF Collected, KeyInRange
    <2> QED
      BY <1>1, <1>2, <2>1 DEF Collected
  <1>3. CASE call.kind = "delete"
    BY <1>1, <1>3 DEF Collected
  <1> QED
    BY <1>2, <1>3

(* In the store an entry that is there has a modification revision. *)
LEMMA PresentModified ==
  ASSUME RevisionInv, NEW k \in Key
  PROVE  Present(data[k]) <=> data[k].mod # 0
  <1>1. data[k] \in Entry /\ Versioned(data[k])
    BY DEF RevisionInv, KVTypeOK, RevisionOrder
  <1> QED
    BY <1>1 DEF Versioned, Present, Absent, Entry

(* The log goes on without changing what it says of earlier revisions. *)
LEMMA LogGrows ==
  ASSUME NEW mods \in [Key -> Nat], log \in Seq([Key -> Nat]), log' = Append(log, mods)
  PROVE  /\ Len(log') = Len(log) + 1 /\ log'[Len(log) + 1] = mods
         /\ \A r \in 1 .. Len(log) : r \in 1 .. Len(log') /\ log'[r] = log[r]
  OBVIOUS

(* A reply that stays describes the store as it did. *)
LEMMA DescribedKept ==
  ASSUME NEW s \in Thread, Described(s), reply'[s] = reply[s], mutex = s => mutex' = s,
         \A r \in 1 .. Len(log) : r \in 1 .. Len(log') /\ log'[r] = log[r]
  PROVE  Described(s)'
  <1>1. CASE reply[s].rpc = "range"
    <2>1. PICK r \in 1 .. Len(log) :
            /\ reply[s].floor <= r
            /\ reply[s].header # 0 => r <= reply[s].header
            /\ reply[s].kvs = Found(log[r], reply[s].range)
      BY <1>1 DEF Described
    <2> QED
      BY <1>1, <2>1 DEF Described
  <1>2. CASE reply[s].rpc # "range"
    BY <1>2 DEF Described
  <1> QED
    BY <1>1, <1>2

(* The step that erases a key collects it, and the last of the delete finds
   nothing left. *)
LEMMA CollectingStep ==
  ASSUME KVTypeOK, NEW range, mutex # Free, Collected(range), InStore
  PROVE  Collected(range)'
  <1>1. /\ call \in Call /\ call.todo \in Seq(Request) /\ data \in [Key -> Entry]
        /\ call.told \subseteq Key
    BY DEF KVTypeOK, Call
  <1>2. UNCHANGED <<visible, mutex>> /\ call'.kind = call.kind
    BY <1>1 DEF InStore, PutDetach, PutStore, EraseKey, EraseDone, TxnRange, Call
  <1>3. CASE call.kind \notin {"put", "delete"}
    BY <1>2, <1>3 DEF Collected
  <1>4. CASE call.kind = "put"
    <2>1. call'.told = call.told
      BY <1>1, <1>4 DEF InStore, PutDetach, PutStore, EraseKey, EraseDone, TxnRange, Call
    <2> QED
      BY <1>2, <1>4, <2>1 DEF Collected
  <1>5. CASE call.kind = "delete"
    <2> DEFINE req == DeleteRequest(range.key, range.end)
    <2>1. call.todo = <<req>>
      BY <1>5 DEF Collected, InStore, PutDetach, PutStore, EraseKey, EraseDone, TxnRange, Busy
    <2>2. call.todo # <<>> /\ Head(call.todo) = req /\ Tail(call.todo) = <<>>
      BY <2>1
    <2>3. Head(call.todo).type = "delete" /\ Head(call.todo).key = range.key
          /\ Head(call.todo).end = range.end
      BY <2>2 DEF DeleteRequest
    <2>4. (\E k \in Key : EraseKey(k)) \/ EraseDone
      BY <2>3 DEF InStore, PutDetach, PutStore, TxnRange, Busy
    <2>5. ASSUME NEW k \in Key, EraseKey(k)
          PROVE  Collected(range)'
      <3>1. /\ call'.told = call.told \cup {k} /\ call'.todo = call.todo
            /\ data' = [data EXCEPT ![k] = Absent]
        BY <1>1, <1>5, <2>5 DEF EraseKey, Call
      <3>2. Present(data[k]) /\ KeyInRange(k, range.key, range.end)
        BY <2>3, <2>5 DEF EraseKey, KeysToDelete, KeysInRange
      <3>3. Present(visible[k])
        BY <1>5, <3>2 DEF Collected
      <3>4. \A j \in Key \ call'.told : data'[j] = visible[j]
        BY <1>1, <1>5, <3>1 DEF Collected
      <3> QED
        BY <1>2, <1>5, <2>2, <3>1, <3>2, <3>3, <3>4 DEF Collected
    <2>6. CASE EraseDone
      <3>1. /\ call'.told = call.told /\ call'.todo = <<>> /\ data' = data
            /\ KeysToDelete = {}
        BY <1>1, <2>2, <2>6 DEF EraseDone, Call
      <3>2. ASSUME NEW k \in Key, Present(visible[k]), KeyInRange(k, range.key, range.end)
            PROVE  k \in call.told
        BY <1>5, <2>3, <3>1, <3>2 DEF Collected, KeysToDelete, KeysInRange
      <3> QED
        BY <1>2, <1>5, <3>1, <3>2 DEF Collected
    <2> QED
      BY <2>4, <2>5, <2>6
  <1> QED
    BY <1>3, <1>4, <1>5

(* The calls of the store keep what their replies will say. *)
LEMMA EntriesOfWrites ==
  ASSUME EntriesInv, OrderInv', InStore \/ ReturnFromStore \/ \E t \in Thread : ServeCall(t)
  PROVE  EntriesInv'
  <1>1. /\ OrderInv /\ MapInv /\ KVTypeOK /\ ServiceTypes /\ revision \in Nat /\ revision >= 1
        /\ LogCurrent /\ Collecting /\ CallInProgress /\ LogComplete /\ Uncommitted
        /\ log \in Seq([Key -> Nat]) /\ Len(log) \in Nat
        /\ \A t \in Thread : Described(t)
    BY OrderTypes DEF EntriesInv, OrderInv, ServiceTypes, MapInv
  <1>2. CASE InStore
    <2>1. UNCHANGED <<revision, mutex, visible, reply, answered, log>>
      BY <1>2 DEF InStore, PutDetach, PutStore, EraseKey, EraseDone, TxnRange
    <2>2. Collecting'
      BY <1>1, <1>2, <2>1, CollectingStep DEF Collecting
    <2> QED
      BY <1>1, <2>1, <2>2 DEF EntriesInv, LogCurrent, Described
  <1>3. CASE ReturnFromStore
    <2>1. /\ mutex # Free /\ mutex' = Free /\ revision' = revision /\ call.todo = <<>>
          /\ visible' = data
      BY <1>3 DEF ReturnFromStore, TxnHeader, Unlock
    <2>2. PICK t \in Thread : t = mutex
      BY <1>1, <2>1 DEF KVTypeOK
    <2> DEFINE replaced == {k \in call.told : Present(visible[k])}
               range == reply[t].range
    <2>3. /\ Alone(t) /\ reply'[t].rpc = call.kind /\ reply'[t].range = range
          /\ reply'[t].at = revision /\ reply'[t].kvs = ModsOf(visible, replaced)
          /\ log' = Append(log, Mods(data))
      BY <1>1, <1>3, <2>1, <2>2, Returned DEF CallInProgress
    <2>4. /\ Len(log') = Len(log) + 1 /\ log'[Len(log) + 1] = Mods(data)
          /\ \A r \in 1 .. Len(log) : r \in 1 .. Len(log') /\ log'[r] = log[r]
      BY <1>1, <2>3, ModsType, LogGrows DEF KVTypeOK
    <2>5. LogCurrent'
      BY <1>1, <2>1, <2>4, PresentModified DEF LogCurrent, Mods, MapInv
    <2>6. Described(t)'
      <3>1. CASE call.kind \in {"put", "delete"}
        <4>1. /\ Collected(range) /\ call.told \subseteq Key
              /\ visible \in [Key -> Entry]
          BY <1>1, <2>1, <2>2 DEF Collecting, KVTypeOK, Call
        <4>2. ModsOf(visible, replaced) = Found(Mods(visible), range)
          BY <1>1, <2>1, <3>1, <4>1, CollectedIsRange, RangeFinds DEF LogCurrent
        <4>3. Len(log) = revision - 1 /\ Len(log) >= 1
          BY <1>1, <2>1 DEF LogComplete, MapInv, RevisionInv, Started
        <4>4. /\ reply'[t].at - 1 \in 1 .. Len(log')
              /\ log'[reply'[t].at - 1] = Mods(visible)
          BY <1>1, <2>3, <2>4, <4>3 DEF LogCurrent
        <4> QED
          BY <2>3, <3>1, <4>2, <4>4 DEF Described
      <3>2. CASE call.kind \notin {"put", "delete"}
        BY <1>1, <2>3, <3>2 DEF Described, KVTypeOK, Call
      <3> QED
        BY <3>1, <3>2
    <2>7. ASSUME NEW s \in Thread, s # t
          PROVE  Described(s)'
      BY <1>1, <2>2, <2>3, <2>4, <2>7, DescribedKept DEF Alone
    <2> QED
      BY <2>1, <2>5, <2>6, <2>7 DEF EntriesInv, Collecting
  <1>4. ASSUME NEW t \in Thread, ServeCall(t)
        PROVE  EntriesInv'
    <2>1. PICK range \in RangeType : Locks /\ CallStarts(t, range)
      BY <1>4, CallBegins
    <2>2. /\ mutex = Free /\ mutex' = t /\ mutex' # Free
          /\ call'.kind \in Rpc \ {"range"} /\ <<>> \in Kvs
          /\ Serve(t, call'.kind, range, <<>>)
      BY <2>1 DEF CallStarts, Rpc, Kvs
    <2>3. /\ reply'[t].rpc = call'.kind /\ reply'[t].range = range
          /\ Alone(t) /\ UNCHANGED log
      BY <1>1, <2>2, Served
    <2>4. data' = data /\ visible' = visible /\ visible = data
      BY <1>1, <2>1, <2>2 DEF Locks, Lock, Uncommitted
    <2>5. Collecting'
      <3>1. Collected(range)'
        <4>1. CASE call'.kind = "put"
          BY <2>1, <4>1 DEF CallStarts, Collected
        <4>2. CASE call'.kind = "delete"
          <5>1. /\ range.key \in Key /\ range.limit = 0 /\ call'.told = {}
                /\ call'.todo = <<DeleteRequest(range.key, range.end)>>
            BY <2>1, <4>2 DEF CallStarts
          <5>2. call'.todo # <<>>
            BY <5>1
          <5> QED
            BY <2>4, <4>2, <5>1, <5>2 DEF Collected
        <4>3. CASE call'.kind \notin {"put", "delete"}
          BY <4>3 DEF Collected
        <4> QED
          BY <4>1, <4>2, <4>3
      <3> QED
        BY <2>2, <2>3, <3>1 DEF Collecting
    <2>6. Described(t)'
      BY <2>2, <2>3 DEF Described
    <2>7. ASSUME NEW s \in Thread, s # t
          PROVE  Described(s)'
      BY <1>1, <2>2, <2>3, <2>7, DescribedKept, KVAssumption DEF Alone
    <2> QED
      BY <1>1, <2>3, <2>4, <2>5, <2>6, <2>7 DEF EntriesInv, LogCurrent
  <1> QED
    BY <1>2, <1>3, <1>4

(* The handlers' own steps keep what the replies say. *)
LEMMA EntriesOfReads ==
  ASSUME EntriesInv, OrderInv', NEW t \in Thread,
         ReadStarts(t) \/ FillResponseHeader(t) \/ FillIndex(t) \/ Return(t)
  PROVE  EntriesInv'
  <1>1. /\ OrderInv /\ MapInv /\ KVTypeOK /\ ServiceTypes /\ revision \in Nat /\ revision >= 1
        /\ LogCurrent /\ Collecting /\ CallInProgress /\ LogComplete /\ Uncommitted
        /\ Len(log) \in Nat /\ answered <= revision /\ answered \in Nat
        /\ \A s \in Thread : Described(s)
    BY OrderTypes DEF EntriesInv, OrderInv, ServiceTypes, MapInv
  <1>2. UNCHANGED kvVars /\ mutex # t
    <2>1. mutex = t => reply[t].rpc \in Writing /\ reply[t].header = 0
      BY <1>1, KVAssumption DEF CallInProgress, KVTypeOK, Call, Writing
    <2>2. reply[t].rpc = "none" \/ reply[t].header # 0 \/ mutex # t
      <3>1. ReadStarts(t) => reply[t] = NoReply
        BY DEF ReadStarts, Serve
      <3> QED
        BY <3>1 DEF FillResponseHeader, FillIndex, Return, Complete, NoReply
    <2>3. UNCHANGED kvVars
      BY DEF ReadStarts, FillResponseHeader, FillIndex, Return
    <2> QED
      BY <2>1, <2>2, <2>3 DEF Writing
  <1>3. Alone(t) /\ UNCHANGED log /\ Described(t)'
    <2>1. CASE ReadStarts(t)
      <3>1. CASE \E r \in RangeRequest :
                   /\ mutex = Free
                   /\ Serve(t, "range", r, ModsOf(data, RangeReply(r.key, r.end, r.limit)))
        <4>1. PICK r \in RangeRequest :
                /\ mutex = Free
                /\ Serve(t, "range", r, ModsOf(data, RangeReply(r.key, r.end, r.limit)))
          BY <3>1
        <4> DEFINE kvs == ModsOf(data, RangeReply(r.key, r.end, r.limit))
        <4>2. r \in RangeType /\ kvs \in Kvs /\ "range" \in Rpc
          <5>1. RangeReply(r.key, r.end, r.limit) \in SUBSET Key
            BY DEF RangeReply, RangeKeys, KeysInRange, StoredKeys
          <5> QED
            BY <1>1, <5>1, ModsType, KSAssumption DEF KVTypeOK, RangeType, Rpc
        <4>3. /\ reply'[t].rpc = "range" /\ reply'[t].range = r /\ reply'[t].kvs = kvs
              /\ reply'[t].header = 0 /\ reply'[t].floor = answered
              /\ Alone(t) /\ UNCHANGED log
          BY <1>1, <4>1, <4>2, Served
        <4>4. log[revision] = Mods(data) /\ Len(log) = revision
          BY <1>1, <4>1 DEF LogComplete, LogCurrent, Uncommitted
        <4>5. kvs = Found(log[revision], r)
          BY <1>1, <4>4, PresentModified, RangeFinds
             DEF RangeReply, StoredKeys, MapInv, RevisionInv, KVTypeOK
        <4> HIDE DEF kvs
        <4> QED
          BY <1>1, <4>3, <4>4, <4>5 DEF Described
      <3>2. CASE \E rpc \in {"revision", "status"} : Serve(t, rpc, NoRange, <<>>)
        <4>1. NoRange \in RangeType /\ <<>> \in Kvs
          BY DEF NoRange, All, RangeType, RangeEnd, Kvs
        <4> QED
          BY <1>1, <3>2, <4>1, Served DEF Described, Rpc
      <3> QED
        BY <2>1, <3>1, <3>2 DEF ReadStarts
    <2>2. CASE FillResponseHeader(t)
      <3>1. Len(log) <= revision
        BY <1>1 DEF LogComplete
      <3>2. /\ reply'[t].rpc = reply[t].rpc /\ reply'[t].range = reply[t].range
            /\ reply'[t].kvs = reply[t].kvs /\ reply'[t].floor = reply[t].floor
            /\ reply'[t].at = reply[t].at /\ reply'[t].header = revision
            /\ Alone(t) /\ UNCHANGED log
        BY <1>1, <2>2, HeaderFilled
      <3>3. CASE reply[t].rpc = "range"
        <4>1. PICK r \in 1 .. Len(log) :
                reply[t].floor <= r /\ reply[t].kvs = Found(log[r], reply[t].range)
          BY <1>1, <3>3 DEF Described
        <4>2. r <= revision
          BY <1>1, <3>1
        <4> QED
          BY <3>2, <3>3, <4>1, <4>2 DEF Described
      <3>4. CASE reply[t].rpc # "range"
        BY <1>1, <1>2, <3>2, <3>4 DEF Described, kvVars
      <3> QED
        BY <3>2, <3>3, <3>4
    <2>3. CASE FillIndex(t)
      BY <1>1, <2>3, IndexFilled DEF Described
    <2>4. CASE Return(t)
      BY <1>1, <2>4, HandlerReturned DEF Described, NoReply
    <2> QED
      BY <2>1, <2>2, <2>3, <2>4
  <1>4. ASSUME NEW s \in Thread, s # t
        PROVE  Described(s)'
    BY <1>1, <1>2, <1>3, <1>4, DescribedKept DEF Alone, kvVars
  <1>5. Collecting'
    <2>1. ASSUME mutex # Free
          PROVE  reply'[mutex].range = reply[mutex].range /\ mutex \in Thread
      BY <1>1, <1>2, <1>3, <2>1 DEF Alone, KVTypeOK
    <2> QED
      BY <1>1, <1>2, <2>1 DEF Collecting, Collected, kvVars
  <1> QED
    BY <1>1, <1>2, <1>3, <1>4, <1>5 DEF EntriesInv, LogCurrent, kvVars

(* The replies describe the store throughout. *)
LEMMA EntriesInvariant == SVSpec => []EntriesInv
  <1>1. SVInit => EntriesInv
    <2> SUFFICES ASSUME SVInit
                 PROVE  EntriesInv
      OBVIOUS
    <2>1. OrderInv /\ visible = data /\ log = <<Mods(data)>> /\ mutex = Free
      BY OrderInit DEF SVInit, KVInit
    <2>2. LogCurrent
      BY <2>1, PresentModified DEF LogCurrent, OrderInv, MapInv
    <2> QED
      BY <2>1, <2>2 DEF EntriesInv, Collecting, Described, SVInit, NoReply
  <1>2. EntriesInv /\ [SVNext]_svVars => EntriesInv'
    <2> SUFFICES ASSUME EntriesInv, [SVNext]_svVars
                 PROVE  EntriesInv'
      OBVIOUS
    <2>1. OrderInv'
      BY OrderStep DEF EntriesInv
    <2>2. CASE UNCHANGED svVars
      BY <2>1, <2>2
         DEF EntriesInv, LogCurrent, Collecting, Collected, Described, svVars, kvVars
    <2> QED
      BY <2>1, <2>2, ReadBegins, EntriesOfWrites, EntriesOfReads DEF SVNext, Handler
  <1> QED
    BY <1>1, <1>2, PTL DEF SVSpec

(* Every reply holds the entries of one revision: a range's is no older than
   what was answered before and no newer than its header, a put's or a delete's
   is the one before its own. *)
THEOREM RepliesDescribe == SVSpec => []RepliesDescribeStore
  <1>1. EntriesInv => RepliesDescribeStore
    <2> SUFFICES ASSUME EntriesInv, NEW t \in Thread, reply[t].header # 0
                 PROVE  /\ reply[t].rpc = "range" =>
                             \E r \in DOMAIN log \cap (reply[t].floor .. reply[t].header) :
                               reply[t].kvs = RangeAt(r, t)
                        /\ reply[t].rpc \in {"put", "delete"} =>
                             reply[t].kvs = RangeAt(reply[t].at - 1, t)
      BY DEF RepliesDescribeStore
    <2>1. /\ Described(t) /\ log \in Seq([Key -> Nat]) /\ mutex # t
          /\ reply[t].floor \in Nat /\ reply[t].header \in Nat
      BY OrderTypes, KVAssumption DEF EntriesInv, OrderInv, CallInProgress, ServiceTypes
    <2>2. ASSUME reply[t].rpc = "range"
          PROVE  \E r \in DOMAIN log \cap (reply[t].floor .. reply[t].header) :
                   reply[t].kvs = RangeAt(r, t)
      <3>1. PICK r \in 1 .. Len(log) :
              /\ reply[t].floor <= r /\ r <= reply[t].header
              /\ reply[t].kvs = Found(log[r], reply[t].range)
        BY <2>1, <2>2 DEF Described
      <3>2. r \in DOMAIN log \cap (reply[t].floor .. reply[t].header)
        BY <2>1, <3>1
      <3> QED
        BY <3>1, <3>2, RangeAtFinds
    <2> QED
      BY <2>1, <2>2, RangeAtFinds DEF Described
  <1> QED
    BY <1>1, EntriesInvariant, PTL

-----------------------------------------------------------------------------
(* Paging. *)

Below(S, x) == {j \in S : j < x}

LEMMA BelowIs == \A S, x : \A j : j \in Below(S, x) <=> j \in S /\ j < x
  BY DEF Below

LEMMA BelowFinite ==
  ASSUME NEW S \in SUBSET Nat, NEW x \in Nat
  PROVE  IsFiniteSet(Below(S, x)) /\ Cardinality(Below(S, x)) \in Nat
  <1>1. \A j \in Below(S, x) : j \in Nat /\ j < x
    BY BelowIs
  <1>2. \A j \in Below(S, x) : j \in 0 .. x
    BY <1>1
  <1>3. IsFiniteSet(0 .. x)
    BY FS_Interval
  <1>4. Below(S, x) \in SUBSET (0 .. x)
    BY <1>2
  <1>5. IsFiniteSet(Below(S, x))
    BY <1>3, <1>4, FS_Subset
  <1> QED
    BY <1>5, FS_CardinalityType

(* With a greater bound there are no fewer. *)
LEMMA BelowGrows ==
  ASSUME NEW S \in SUBSET Nat, NEW x \in Nat, NEW y \in Nat, x <= y
  PROVE  Cardinality(Below(S, x)) <= Cardinality(Below(S, y))
  <1>1. Below(S, x) \in SUBSET Below(S, y)
    <2>1. ASSUME NEW j \in Below(S, x)
          PROVE  j \in Below(S, y)
      <3>1. j \in S /\ j < x
        BY BelowIs
      <3>2. j < y
        BY <3>1
      <3> QED
        BY <3>1, <3>2, BelowIs
    <2> QED
      BY <2>1
  <1>2. IsFiniteSet(Below(S, y))
    BY BelowFinite
  <1> QED
    BY <1>1, <1>2, FS_Subset

(* A key that a page leaves out comes after the page, which is full. *)
LEMMA PageIsPrefix ==
  ASSUME NEW S \in SUBSET Key, NEW start \in Nat, NEW end, NEW limit \in Nat \ {0},
         NEW k \in KeysInRange(S, start, end) \ RangeKeys(S, start, end, limit)
  PROVE  /\ Cardinality(RangeKeys(S, start, end, limit)) = limit
         /\ \A j \in RangeKeys(S, start, end, limit) : j < k
  <1> DEFINE hit == KeysInRange(S, start, end)
             page == RangeKeys(S, start, end, limit)
  <1>1. hit \in SUBSET Nat /\ page \subseteq hit
    BY KeyAssumption DEF KeysInRange, RangeKeys
  <1>2. \A x \in hit : x \in page <=> Cardinality(Below(hit, x)) < limit
    BY DEF RangeKeys, Below
  <1> HIDE DEF hit, page
  <1>3. \A x \in Nat : IsFiniteSet(Below(hit, x)) /\ Cardinality(Below(hit, x)) \in Nat
    BY <1>1, BelowFinite
  <1>4. PICK m \in hit \ page : \A y \in hit \ page : m <= y
    <2>1. hit \ page \in SUBSET Nat /\ hit \ page # {}
      BY <1>1 DEF hit, page
    <2> QED
      BY <2>1, LeastElement
  <1>5. m \in Nat /\ Cardinality(Below(hit, m)) >= limit
    BY <1>1, <1>2, <1>3, <1>4
  <1>6. page = Below(hit, m)
    <2>1. ASSUME NEW j \in page, ~(j < m)
          PROVE  FALSE
      <3>1. j \in hit /\ j \in Nat
        BY <1>1, <2>1
      <3>2. m \in Nat /\ m <= j
        BY <1>5, <2>1, <3>1
      <3>3. Cardinality(Below(hit, m)) <= Cardinality(Below(hit, j))
        BY <1>1, <3>1, <3>2, BelowGrows
      <3> QED
        BY <1>2, <1>3, <1>5, <2>1, <3>1, <3>3
    <2> QED
      <3>1. \A j \in page : j \in Below(hit, m)
        BY <1>1, <2>1, BelowIs
      <3>2. ASSUME NEW j \in Below(hit, m)
            PROVE  j \in page
        <4>1. j \in hit /\ j < m
          BY BelowIs
        <4>2. j \in Nat /\ ~(m <= j)
          BY <1>1, <1>5, <4>1
        <4> QED
          BY <1>4, <4>1, <4>2
      <3> QED
        BY <3>1, <3>2
  <1>7. \A j \in page : j < k
    <2>1. k \in hit \ page /\ k \in Nat
      BY <1>1 DEF hit, page
    <2>2. \A j \in page : j \in Nat /\ j < m
      BY <1>1, <1>6, BelowIs
    <2> QED
      BY <1>4, <1>5, <2>1, <2>2
  <1>8. Cardinality(page) <= limit
    <2>1. IsFiniteSet(page) /\ Cardinality(page) \in Nat /\ Cardinality(page) # 0
      BY <1>3, <1>5, <1>6
    <2>2. \A j : j \in page <=> j \in hit /\ j < m
      BY <1>6, BelowIs
    <2>3. \A j \in page : j \in 0 .. m
      BY <1>1, <1>5, <2>2
    <2>4. page \in SUBSET (0 .. m)
      BY <2>3
    <2>5. page # {}
      BY <2>1, FS_EmptySet
    <2>6. PICK x \in page : \A y \in page : y <= x
      BY <1>5, <2>4, <2>5, GreatestElement
    <2>7. x \in hit /\ Below(hit, x) = page \ {x}
      <3>1. x \in hit /\ x \in Nat /\ \A j \in page : j \in Nat
        BY <1>1, <2>6
      <3>2. \A j : j \in Below(hit, x) <=> j \in page \ {x}
        <4>1. ASSUME NEW j \in Below(hit, x)
              PROVE  j \in page \ {x}
          <5>1. j \in hit /\ j \in Nat /\ j < x
            BY <1>1, <4>1, BelowIs
          <5>2. j < m
            BY <1>5, <2>2, <2>6, <3>1, <5>1
          <5> QED
            BY <2>2, <3>1, <5>1, <5>2
        <4>2. ASSUME NEW j \in page \ {x}
              PROVE  j \in Below(hit, x)
          BY <1>1, <2>6, <3>1, <4>2, BelowIs
        <4> QED
          BY <4>1, <4>2
      <3> QED
        BY <3>1, <3>2
    <2>8. Cardinality(page \ {x}) = Cardinality(page) - 1
      BY <2>1, <2>6, FS_RemoveElement
    <2>9. Cardinality(page \ {x}) < limit
      BY <1>2, <2>6, <2>7
    <2> QED
      BY <2>1, <2>8, <2>9
  <1>9. Cardinality(page) = limit
    BY <1>3, <1>5, <1>6, <1>8
  <1> QED
    BY <1>7, <1>9 DEF page

(* At every moment what a page leaves out comes after all it holds. *)
THEOREM PagesCover == SVSpec => []PagingCoversRange
  <1>1. PagingCoversRange
    <2> SUFFICES ASSUME NEW req \in RangeRequest, NEW start \in Key, req.limit # 0,
                        NEW k \in KeysInRange(StoredKeys, start, req.end)
                                    \ RangeReply(start, req.end, req.limit)
                 PROVE  /\ Cardinality(RangeReply(start, req.end, req.limit)) = req.limit
                        /\ \A j \in RangeReply(start, req.end, req.limit) : j < k
      BY DEF PagingCoversRange
    <2>1. req.limit \in Nat \ {0} /\ start \in Nat /\ StoredKeys \in SUBSET Key
      BY KSAssumption, KeyAssumption DEF StoredKeys
    <2> QED
      BY <2>1, PageIsPrefix DEF RangeReply
  <1> QED
    BY <1>1, PTL

(* A client that pages gets every key that is stored all the while: stored[s] is
   what the store holds when the client asks for the page from s on, and the
   client asks from behind the last key of every full page. *)
THEOREM PagingFindsKey ==
  ASSUME NEW req \in RangeRequest, req.limit # 0,
         NEW starts \in SUBSET Nat, NEW stored \in [starts -> SUBSET Key],
         \A s \in starts :
           LET page == RangeKeys(stored[s], s, req.end, req.limit)
           IN  \A last \in page :
                 Cardinality(page) = req.limit /\ (\A j \in page : j <= last)
                   => last + 1 \in starts,
         NEW k \in Key, \A s \in starts : k \in stored[s],
         NEW first \in starts, KeyInRange(k, first, req.end)
  PROVE  \E s \in starts : k \in RangeKeys(stored[s], s, req.end, req.limit)
  <1> DEFINE T == {s \in starts : s <= k}
  <1>1. k \in Nat /\ req.limit \in Nat \ {0}
    BY KSAssumption, KeyAssumption
  <1>2. T \in SUBSET (0 .. k) /\ first \in T
    <2>1. first \in Nat /\ first <= k
      BY DEF KeyInRange
    <2>2. \A s \in T : s \in 0 .. k
      BY <1>1
    <2>3. first \in T
      BY <2>1
    <2> HIDE DEF T
    <2> QED
      BY <2>2, <2>3
  <1>3. PICK s \in T : \A y \in T : y <= s
    <2> HIDE DEF T
    <2> QED
      BY <1>1, <1>2, GreatestElement
  <1>4. s \in starts /\ s \in Nat /\ first <= s /\ s <= k /\ stored[s] \in SUBSET Key
    BY <1>2, <1>3
  <1>5. k \in KeysInRange(stored[s], s, req.end)
    BY <1>1, <1>4 DEF KeyInRange, KeysInRange
  <1> DEFINE page == RangeKeys(stored[s], s, req.end, req.limit)
  <1>6. ASSUME k \notin page
        PROVE  FALSE
    <2>1. Cardinality(page) = req.limit /\ \A j \in page : j < k
      BY <1>1, <1>4, <1>5, <1>6, PageIsPrefix
    <2>2. \A j \in page : j \in Nat /\ s <= j
      BY <1>4, KeyAssumption DEF RangeKeys, KeysInRange, KeyInRange
    <2> HIDE DEF page
    <2>3. page \in SUBSET (0 .. k) /\ page # {}
      <3>1. \A j \in page : j \in 0 .. k
        BY <1>1, <2>1, <2>2
      <3>2. Cardinality(page) # 0
        BY <1>1, <2>1
      <3> QED
        BY <3>1, <3>2, FS_EmptySet
    <2>4. PICK last \in page : \A j \in page : j <= last
      BY <1>1, <2>3, GreatestElement
    <2>5. last + 1 \in starts
      BY <1>4, <2>1, <2>4 DEF page
    <2>6. last + 1 \in T
      BY <1>1, <2>1, <2>2, <2>4, <2>5
    <2> QED
      BY <1>3, <1>4, <2>2, <2>4, <2>6
  <1> QED
    BY <1>4, <1>6
=============================================================================
