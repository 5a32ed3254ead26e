--------------------------- MODULE KVStore_proofs ---------------------------
(***************************************************************************)
(* Theorems of KVStore, for every set of keys, threads, values, leases and  *)
(* transactions and every bound on the revision.                            *)
(***************************************************************************)
EXTENDS KVStore, FiniteSetTheorems, SequenceTheorems, WellFoundedInduction, TLAPS

-----------------------------------------------------------------------------
(* Lemmas about the data. *)

(* The entry of a key the store does not hold is an entry. *)
LEMMA AbsentType == Absent \in Entry
  BY DEF Absent, Entry

(* What a put writes is an entry the store holds. *)
LEMMA PutEntryType ==
  ASSUME NEW old \in Entry, NEW req \in Request, NEW r \in Nat
  PROVE  PutEntry(old, req, r) \in Entry /\ Present(PutEntry(old, req, r))
  BY DEF PutEntry, Entry, Request, Present, Absent

(* The head of the list of operations is a request and the rest is a list. *)
LEMMA HeadAndTail ==
  ASSUME call \in Call, NEW type, Busy(type)
  PROVE  /\ Head(call.todo) \in Request
         /\ Head(call.todo).type = type
         /\ Head(call.todo).key \in Key
         /\ Tail(call.todo) \in Seq(Request)
  <1>1. call.todo \in Seq(Request) /\ call.todo # <<>>
    BY DEF Call, Busy
  <1>2. Head(call.todo) \in Request /\ Tail(call.todo) \in Seq(Request)
    BY <1>1, HeadTailProperties
  <1> QED
    BY <1>2 DEF Busy, Request

-----------------------------------------------------------------------------
(* Types. *)

(* Some thread takes the mutex with a list of requests, those of a call on the
   visible map. *)
Locks ==
  \E t \in Thread, kind \in {"put", "delete", "txn", "lease"}, todo \in Seq(Request),
     told \in SUBSET Key :
       Lock(t, kind, todo, told) /\ (visible = data => todo \in Serial!Calls)

(* Each kind of call starts that way. *)
LEMMA PutLocks ==
  ASSUME NEW t \in Thread, NEW k \in Key, NEW v \in Value, NEW l \in LeaseName,
         Put(t, k, v, l)
  PROVE  Locks
  <1>1. PutRequest(k, v, l) \in Request
    BY RequestAssumption DEF PutRequest, Request, RangeEnd
  <1>2. <<PutRequest(k, v, l)>> \in Seq(Request) /\ {k} \in SUBSET Key
    BY <1>1
  <1>3. Lock(t, "put", <<PutRequest(k, v, l)>>, {k})
    BY DEF Put
  <1>4. <<PutRequest(k, v, l)>> \in Serial!Calls
    BY DEF Serial!Calls, Serial!PutRequest, PutRequest
  <1> QED
    BY <1>2, <1>3, <1>4 DEF Locks

(* A DeleteRange only takes the mutex. *)
LEMMA DeleteLocks ==
  ASSUME NEW t \in Thread, NEW k \in Key, NEW end \in RangeEnd,
         DeleteRange(t, k, end) \/ LeaseDelete(t, k)
  PROVE  Locks
  <1>1. DeleteRequest(k, end) \in Request /\ DeleteRequest(k, NoEnd) \in Request
    BY DEF DeleteRequest, Request, RangeEnd
  <1>2. <<DeleteRequest(k, end)>> \in Seq(Request) /\ <<DeleteRequest(k, NoEnd)>> \in Seq(Request)
    BY <1>1
  <1>3. \/ Lock(t, "delete", <<DeleteRequest(k, end)>>, {})
        \/ Lock(t, "lease", <<DeleteRequest(k, NoEnd)>>, {})
    BY DEF DeleteRange, LeaseDelete
  <1>4. ASSUME NEW e \in RangeEnd
        PROVE  <<DeleteRequest(k, e)>> \in Serial!Calls
    <2>1. e \in Serial!RangeEnd /\ DeleteRequest(k, e) = Serial!DeleteRequest(k, e)
      BY DEF Serial!DeleteRequest, DeleteRequest, Serial!RangeEnd, RangeEnd
    <2> QED
      BY <2>1 DEF Serial!Calls
  <1>5. NoEnd \in RangeEnd
    BY DEF RangeEnd
  <1>6. {} \in SUBSET Key
    OBVIOUS
  <1>7. CASE Lock(t, "delete", <<DeleteRequest(k, end)>>, {})
    BY <1>2, <1>4, <1>6, <1>7 DEF Locks
  <1>8. CASE Lock(t, "lease", <<DeleteRequest(k, NoEnd)>>, {})
    BY <1>2, <1>4, <1>5, <1>6, <1>8 DEF Locks
  <1> QED
    BY <1>3, <1>7, <1>8

(* The code's comparison of a key is the one that is promised, as far as one is. *)
LEMMA ComparisonsAgree ==
  ASSUME visible = data, NEW cmp \in Compare, Serial!Settled(cmp)
  PROVE  /\ EvaluateCompare(cmp, data[cmp.key]) => Serial!Holds(cmp)
         /\ visible[cmp.key] # Serial!Absent /\ Serial!Holds(cmp)
              => EvaluateCompare(cmp, data[cmp.key])
  <1>1. /\ cmp.result \in {"equal", "not_equal", "greater", "less"}
        /\ Absent = Serial!Absent
    BY DEF Compare, Absent, Serial!Absent
  <1>2. Operand(cmp, IF cmp.target = "value" THEN "value" ELSE "version") = cmp.operand
    BY DEF Operand, Serial!Settled
  <1> QED
    BY <1>1, <1>2 DEF EvaluateCompare, Related, Present, Serial!Holds

(* A Txn only takes the mutex, with one of its branches to do. *)
LEMMA TxnLocks ==
  ASSUME NEW t \in Thread, NEW txn \in TxnRequest, Txn(t, txn)
  PROVE  Locks
  <1> DEFINE holds == \A i \in DOMAIN txn.compares :
                         EvaluateCompare(txn.compares[i], data[txn.compares[i].key])
             todo == IF holds THEN txn.success ELSE txn.failure
  <1>1. /\ txn.compares \in Seq(Compare)
        /\ txn.success \in Seq(Request) /\ txn.failure \in Seq(Request)
    BY RequestAssumption
  <1>2. Lock(t, "txn", todo, {})
    BY DEF Txn
  <1>3. ASSUME NEW i \in DOMAIN txn.compares
        PROVE  txn.compares[i] \in Compare
    BY <1>1, <1>3, ElementOfSeq
  <1>4. ASSUME visible = data
        PROVE  todo \in Serial!Calls
    <2>1. holds => Serial!MaySucceed(txn)
      BY <1>3, <1>4, ComparisonsAgree DEF Serial!MaySucceed
    <2>2. Serial!MustSucceed(txn) => holds
      BY <1>3, <1>4, ComparisonsAgree DEF Serial!MustSucceed
    <2>3. todo \in Serial!Branches(txn)
      BY <2>1, <2>2 DEF Serial!Branches
    <2> QED
      BY <2>3 DEF Serial!Calls
  <1> QED
    BY <1>1, <1>2, <1>4 DEF Locks

(* Every call begins by taking the mutex and does nothing else. *)
LEMMA CallLocks ==
  ASSUME NEW t \in Thread, KVCall(t)
  PROVE  Locks
  <1>1. NoEnd \in RangeEnd
    BY DEF RangeEnd
  <1> QED
    BY <1>1, PutLocks, DeleteLocks, TxnLocks DEF KVCall

(* The step that takes the mutex keeps the types. *)
LEMMA LockType ==
  ASSUME KVTypeOK, Locks
  PROVE  KVTypeOK'
  BY KVAssumption DEF KVTypeOK, Locks, Lock, Call

(* Every step inside the mutex keeps the types. *)
LEMMA ProceedType ==
  ASSUME KVTypeOK, KVProceed
  PROVE  KVTypeOK'
  <1> USE DEF KVTypeOK
  <1>1. CASE PutDetach
    BY <1>1 DEF PutDetach, Busy, Call
  <1>2. CASE PutStore
    <2>1. PutEntry(data[Head(call.todo).key], Head(call.todo), revision) \in Entry
      BY <1>2, HeadAndTail, PutEntryType DEF PutStore
    <2>2. data' \in [Key -> Entry]
      BY <1>2, <2>1 DEF PutStore
    <2>3. call' \in Call /\ call'.kind = call.kind
      BY <1>2, HeadAndTail DEF PutStore, Call
    <2> QED
      BY <1>2, <2>2, <2>3 DEF PutStore, Busy
  <1>3. CASE \E k \in Key : EraseKey(k)
    <2>1. PICK k \in Key : EraseKey(k)
      BY <1>3
    <2>2. data' \in [Key -> Entry]
      BY <2>1, AbsentType DEF EraseKey
    <2>3. call' \in Call /\ call'.kind = call.kind
      <3>1. call \in Call /\ call.told \cup {k} \in SUBSET Key
        BY DEF Call
      <3> QED
        BY <2>1, <3>1 DEF EraseKey, Call
    <2> QED
      BY <2>1, <2>2, <2>3 DEF EraseKey, Busy
  <1>4. CASE EraseDone
    BY <1>4, HeadAndTail DEF EraseDone, Call, Busy
  <1>5. CASE TxnRange
    BY <1>5, HeadAndTail DEF TxnRange, Call, Busy
  <1>6. CASE Unlock
    <2>1. \A k \in Key : data[k].mod \in Nat
      BY DEF Entry
    <2>2. Idle \in Call /\ Idle.kind = "idle"
      BY EmptySeq DEF Idle, Call
    <2> QED
      BY <1>6, <2>1, <2>2 DEF Unlock
  <1> QED
    BY <1>1, <1>2, <1>3, <1>4, <1>5, <1>6 DEF KVProceed

(* The store's variables keep their types, and the frame of a call is set
   exactly while the mutex is held. *)
THEOREM KVTypeCorrect == KVSpec => []KVTypeOK
  <1>1. KVInit => KVTypeOK
    BY AbsentType, EmptySeq DEF KVInit, KVTypeOK, Idle, Call
  <1>2. KVTypeOK /\ [KVNext]_kvVars => KVTypeOK'
    BY LockType, ProceedType, CallLocks DEF KVNext, kvVars, KVTypeOK
  <1> QED
    BY <1>1, <1>2, PTL DEF KVSpec

-----------------------------------------------------------------------------
(* Revisions. *)

(* Once a call is inside the mutex it has a revision past the first. *)
Started == revision >= 1 /\ (mutex # Free => revision >= 2)

RevisionInv == KVTypeOK /\ Started /\ RevisionOrder

(* A put keeps the order of an entry's revisions. *)
LEMMA PutEntryVersioned ==
  ASSUME RevisionInv, mutex # Free, NEW k \in Key, NEW req \in Request
  PROVE  Versioned(PutEntry(data[k], req, revision))
  <1>1. data[k] \in Entry /\ Versioned(data[k]) /\ revision \in Nat /\ revision >= 2
    BY DEF RevisionInv, RevisionOrder, KVTypeOK, Started
  <1> QED
    BY <1>1 DEF Versioned, PutEntry, Entry

(* The step that takes the mutex moves the revision past every entry. *)
LEMMA LockRevision ==
  ASSUME RevisionInv, Locks
  PROVE  Started' /\ RevisionOrder'
  <1>1. revision \in Nat /\ revision' = revision + 1 /\ data' = data
    BY DEF Locks, Lock, RevisionInv, KVTypeOK
  <1>2. ASSUME NEW k \in Key
        PROVE  Versioned(data[k])'
    <2>1. Versioned(data[k]) /\ data[k] \in Entry
      BY DEF RevisionInv, RevisionOrder, KVTypeOK
    <2> QED
      BY <1>1, <2>1 DEF Versioned, Entry
  <1> QED
    BY <1>1, <1>2 DEF RevisionInv, Started, RevisionOrder

(* The steps inside the mutex. *)
LEMMA ProceedRevision ==
  ASSUME RevisionInv, KVProceed
  PROVE  Started' /\ RevisionOrder'
  <1>1. KVTypeOK /\ Started /\ RevisionOrder
    BY DEF RevisionInv
  <1>2. CASE UNCHANGED <<data, revision, mutex>>
    BY <1>1, <1>2 DEF Started, RevisionOrder, Versioned
  <1>3. CASE PutStore
    <2> DEFINE req == Head(call.todo)
    <2>1. req \in Request /\ req.key \in Key
      BY <1>1, <1>3, HeadAndTail DEF PutStore, KVTypeOK
    <2>2. /\ mutex # Free /\ UNCHANGED <<mutex, revision>>
          /\ data' = [data EXCEPT ![req.key] = PutEntry(data[req.key], req, revision)]
      BY <1>3 DEF PutStore, Busy
    <2>3. Versioned(PutEntry(data[req.key], req, revision))
      BY <2>1, <2>2, PutEntryVersioned
    <2>4. ASSUME NEW k \in Key
          PROVE  Versioned(data[k])'
      <3>1. data'[k] = data[k] \/ data'[k] = PutEntry(data[req.key], req, revision)
        BY <1>1, <2>1, <2>2 DEF KVTypeOK
      <3>2. Versioned(data[k])
        BY <1>1 DEF RevisionOrder
      <3> QED
        BY <2>2, <2>3, <3>1, <3>2 DEF Versioned
    <2> QED
      BY <1>1, <2>2, <2>4 DEF RevisionOrder, Started
  <1>4. CASE \E k \in Key : EraseKey(k)
    <2>1. PICK k \in Key : EraseKey(k)
      BY <1>4
    <2>2. ASSUME NEW j \in Key
          PROVE  Versioned(data[j])'
      <3>1. data'[j] = data[j] \/ data'[j] = Absent
        BY <1>1, <2>1 DEF EraseKey, KVTypeOK
      <3> QED
        BY <1>1, <2>1, <3>1 DEF RevisionOrder, Versioned, Present, EraseKey
    <2> QED
      BY <1>1, <2>1, <2>2 DEF RevisionOrder, Started, EraseKey
  <1>5. CASE Unlock
    BY <1>1, <1>5 DEF Unlock, Started, RevisionOrder, Versioned
  <1> QED
    BY <1>2, <1>3, <1>4, <1>5 DEF KVProceed, PutDetach, EraseDone, TxnRange

(* Whoever makes the calls, and with whatever in between, the store moves by
   these steps. *)
KVMove == KVProceed \/ Locks \/ UNCHANGED kvVars

(* A step of the store is a lock, a step of an operation, or an unlock. *)
LEMMA NextMoves == [KVNext]_kvVars => KVMove
  BY CallLocks DEF KVNext, KVMove

(* RevisionInv is inductive. *)
LEMMA RevisionStep == RevisionInv /\ KVMove => RevisionInv'
  <1> SUFFICES ASSUME RevisionInv, KVMove
               PROVE  RevisionInv'
    OBVIOUS
  <1>1. CASE KVProceed
    BY <1>1, ProceedType, ProceedRevision DEF RevisionInv
  <1>2. CASE Locks
    BY <1>2, LockType, LockRevision DEF RevisionInv
  <1>3. CASE UNCHANGED kvVars
    BY <1>3 DEF RevisionInv, Started, RevisionOrder, Versioned, KVTypeOK, kvVars
  <1> QED
    BY <1>1, <1>2, <1>3 DEF KVMove

(* The first state has no entry to order. *)
LEMMA RevisionInit == KVInit => RevisionInv
  BY AbsentType, EmptySeq
     DEF KVInit, RevisionInv, KVTypeOK, Idle, Call, Started, RevisionOrder, Versioned, Present

(* The order of the entries holds throughout. *)
LEMMA RevisionInvariant == KVSpec => []RevisionInv
  BY RevisionInit, RevisionStep, NextMoves, PTL DEF KVSpec

(* At every step of every call the revisions of an entry are in order. *)
THEOREM RevisionsOrdered == KVSpec => []RevisionOrder
  <1>1. RevisionInv => RevisionOrder
    BY DEF RevisionInv
  <1> QED
    BY <1>1, RevisionInvariant, PTL

-----------------------------------------------------------------------------
(* The store implements the versioned map. *)

(* What the call inside the mutex has done so far is what one commit may do to
   the map that was visible when it took the mutex. *)
Uncommitted ==
  /\ mutex = Free => visible = data
  /\ mutex # Free =>
       \A k \in Key : Committed!Follows(visible[k], data[k], revision)

MapInv == RevisionInv /\ Uncommitted

(* A put on top of what this revision did to a key is still one revision. *)
LEMMA PutFollows ==
  ASSUME NEW old \in Entry, NEW cur \in Entry, NEW req \in Request, NEW r \in Nat,
         Present(cur) => cur.version >= 1,
         Committed!Follows(old, cur, r)
  PROVE  Committed!Follows(old, PutEntry(cur, req, r), r)
  <1> DEFINE new == PutEntry(cur, req, r)
  <1>1. Present(new) /\ new.mod = r
    BY PutEntryType DEF PutEntry
  <1>2. CASE ~Present(cur)
    BY <1>1, <1>2 DEF PutEntry, Present, Committed!Follows, Committed!Stamped, Committed!Present
  <1>3. CASE Present(cur)
    <2>1. new.create = cur.create /\ new.version = cur.version + 1
      BY <1>3 DEF PutEntry
    <2>2. old.version \in Nat /\ cur.version \in Nat
      BY DEF Entry
    <2> QED
      BY <1>1, <1>3, <2>1, <2>2
         DEF Present, Committed!Follows, Committed!Stamped, Committed!Present
  <1> QED
    BY <1>2, <1>3

(* The entries written by the call in progress stay one commit away from visible. *)
LEMMA UncommittedStep == MapInv /\ KVMove => Uncommitted'
  <1> SUFFICES ASSUME MapInv, KVMove
               PROVE  Uncommitted'
    OBVIOUS
  <1>1. KVTypeOK /\ RevisionOrder /\ Uncommitted
    BY DEF MapInv, RevisionInv
  <1>2. CASE Locks
    BY <1>1, <1>2 DEF Locks, Lock, Uncommitted, Committed!Follows
  <1>3. CASE UNCHANGED <<data, revision, mutex, visible>>
    BY <1>1, <1>3 DEF Uncommitted, Committed!Follows, Committed!Stamped, Committed!Present
  <1>4. CASE PutStore
    <2> DEFINE req == Head(call.todo)
    <2>1. req \in Request /\ req.key \in Key
      BY <1>1, <1>4, HeadAndTail DEF PutStore, KVTypeOK
    <2>2. /\ mutex # Free /\ UNCHANGED <<mutex, revision, visible>>
          /\ data' = [data EXCEPT ![req.key] = PutEntry(data[req.key], req, revision)]
      BY <1>4 DEF PutStore, Busy
    <2>3. Committed!Follows(visible[req.key], PutEntry(data[req.key], req, revision), revision)
      <3>1. /\ visible[req.key] \in Entry /\ data[req.key] \in Entry
            /\ revision \in Nat
            /\ Present(data[req.key]) => data[req.key].version >= 1
            /\ Committed!Follows(visible[req.key], data[req.key], revision)
        BY <1>1, <2>1, <2>2 DEF KVTypeOK, RevisionOrder, Versioned, Uncommitted
      <3> QED
        BY <2>1, <3>1, PutFollows
    <2>4. ASSUME NEW k \in Key
          PROVE  Committed!Follows(visible[k], data'[k], revision)
      <3>1. CASE k = req.key
        BY <1>1, <2>1, <2>2, <2>3, <3>1 DEF KVTypeOK
      <3>2. CASE k # req.key
        BY <1>1, <2>1, <2>2, <3>2 DEF KVTypeOK, Uncommitted
      <3> QED
        BY <3>1, <3>2
    <2> QED
      BY <2>2, <2>4 DEF Uncommitted, Committed!Follows, Committed!Stamped, Committed!Present
  <1>5. CASE \E k \in Key : EraseKey(k)
    <2>1. PICK k \in Key : EraseKey(k)
      BY <1>5
    <2>2. ASSUME NEW j \in Key
          PROVE  Committed!Follows(visible[j], data'[j], revision)
      <3>1. data'[j] = data[j] \/ data'[j] = Absent
        BY <1>1, <2>1 DEF EraseKey, KVTypeOK
      <3> QED
        BY <1>1, <2>1, <3>1 DEF Uncommitted, EraseKey, Busy, Committed!Follows
    <2> QED
      BY <2>1, <2>2
         DEF Uncommitted, EraseKey, Busy, Committed!Follows, Committed!Stamped, Committed!Present
  <1>6. CASE Unlock
    BY <1>6 DEF Unlock, Uncommitted
  <1> QED
    BY <1>2, <1>3, <1>4, <1>5, <1>6
       DEF KVMove, KVProceed, PutDetach, EraseDone, TxnRange, kvVars

(* Every step of the store is a commit of the map or leaves the map alone. *)
LEMMA StepCommits ==
  ASSUME MapInv, KVMove
  PROVE  [Committed!Commit]_<<visible, IF mutex = Free THEN revision ELSE revision - 1>>
  <1>1. KVTypeOK /\ Uncommitted
    BY DEF MapInv, RevisionInv
  <1>2. CASE Locks
    <2>1. mutex = Free /\ mutex' # Free
      BY <1>2, KVAssumption DEF Locks, Lock
    <2> QED
      BY <1>1, <1>2, <2>1 DEF Locks, Lock, KVTypeOK
  <1>3. CASE KVProceed /\ ~Unlock
    BY <1>3 DEF KVProceed, PutDetach, PutStore, EraseKey, EraseDone, TxnRange
  <1>4. CASE Unlock
    <2>1. mutex # Free /\ mutex' = Free /\ revision' = revision /\ visible' = data
      BY <1>4 DEF Unlock
    <2>2. revision - 1 + 1 = revision
      BY <1>1 DEF KVTypeOK
    <2> QED
      BY <1>1, <2>1, <2>2
         DEF Uncommitted, Committed!Commit, Committed!Follows, Committed!Stamped,
             Committed!Present
  <1>5. CASE UNCHANGED kvVars
    BY <1>5 DEF kvVars
  <1> QED
    BY <1>2, <1>3, <1>4, <1>5 DEF KVMove

(* The first state is the empty map at revision 1. *)
LEMMA MapInit == KVInit => MapInv /\ Committed!VMInit
  BY RevisionInit DEF KVInit, MapInv, Uncommitted, Committed!VMInit

(* Every step keeps the invariant of the refinement. *)
LEMMA MapStep == MapInv /\ KVMove => MapInv'
  BY RevisionStep, UncommittedStep DEF MapInv

(* Seen through the mutex, the store is a versioned map whose every call is one
   commit. *)
THEOREM ImplementsVersionedMap == KVSpec => IsVersionedMap
  BY MapInit, MapStep, StepCommits, NextMoves, PTL DEF KVSpec, IsVersionedMap, Committed!VMSpec

-----------------------------------------------------------------------------
(* What a list of operations makes of a key. *)

(* A set of natural numbers that is not empty has a least element. *)
LEMMA LeastElement ==
  ASSUME NEW T \in SUBSET Nat, T # {}
  PROVE  \E x \in T : \A y \in T : x <= y
  <1>1. PICK x \in T : \A y \in T : ~(<<y, x>> \in OpToRel(<, Nat))
    BY NatLessThanWellFounded, WFMin
  <1>2. \A y \in T : ~(y < x)
    BY <1>1 DEF OpToRel
  <1> QED
    BY <1>2

(* And a greatest one, if it is bounded. *)
LEMMA GreatestElement ==
  ASSUME NEW n \in Nat, NEW T \in SUBSET (0 .. n), T # {}
  PROVE  \E x \in T : \A y \in T : y <= x
  <1> DEFINE R == {n - x : x \in T}
  <1>1. R \in SUBSET Nat /\ R # {}
    <2>1. \A x \in T : x \in Nat /\ x <= n /\ n - x \in Nat
      OBVIOUS
    <2>2. \A y \in R : y \in Nat
      BY <2>1
    <2> QED
      BY <2>2
  <1>2. PICK z \in R : \A y \in R : z <= y
    <2> HIDE DEF R
    <2> QED
    BY <1>1, LeastElement
  <1>3. PICK x \in T : z = n - x
    OBVIOUS
  <1>4. \A y \in T : n - x <= n - y
    BY <1>2, <1>3
  <1> QED
    BY <1>4

(* The operations so far, and one more. *)
LEMMA OneMore ==
  ASSUME NEW ops \in Seq(Request), NEW op \in Request
  PROVE  /\ Append(ops, op) \in Seq(Request)
         /\ Len(ops) \in Nat
         /\ Len(Append(ops, op)) = Len(ops) + 1
         /\ 1 .. (Len(ops) + 1) = (1 .. Len(ops)) \cup {Len(ops) + 1}
         /\ Len(ops) + 1 \notin 1 .. Len(ops)
         /\ \A i \in 1 .. Len(ops) : Append(ops, op)[i] = ops[i] /\ i < Len(ops) + 1
         /\ Append(ops, op)[Len(ops) + 1] = op
  <1>1. Len(ops) \in Nat
    BY LenProperties
  <1>2. 1 .. (Len(ops) + 1) = (1 .. Len(ops)) \cup {Len(ops) + 1}
    BY <1>1
  <1> QED
    BY <1>1, <1>2, AppendProperties

(* Whether an operation is a delete that covers a key. *)
Covers(op, k) == op.type = "delete" /\ KeyInRange(k, op.key, op.end)

LEMMA DeletesOfOneMore ==
  ASSUME NEW ops \in Seq(Request), NEW op \in Request, NEW k \in Key
  PROVE  Serial!Deletes(k, Append(ops, op)) =
           Serial!Deletes(k, ops) \cup IF Covers(op, k) THEN {Len(ops) + 1} ELSE {}
  BY OneMore DEF Serial!Deletes, Covers, KeyInRange, Serial!KeyInRange

LEMMA PutsOfOneMore ==
  ASSUME NEW ops \in Seq(Request), NEW op \in Request, NEW k \in Key
  PROVE  Serial!Puts(k, Append(ops, op)) =
           IF Covers(op, k) THEN {}
           ELSE Serial!Puts(k, ops) \cup
                  IF op.type = "put" /\ op.key = k THEN {Len(ops) + 1} ELSE {}
  <1> DEFINE n == Len(ops)
             new == Append(ops, op)
             D == Serial!Deletes(k, ops)
             E == Serial!Deletes(k, new)
             P == Serial!Puts(k, ops)
             Q == Serial!Puts(k, new)
  <1>1. /\ n \in Nat /\ 1 .. Len(new) = (1 .. n) \cup {n + 1} /\ n + 1 \notin 1 .. n
        /\ \A i \in 1 .. n : new[i] = ops[i] /\ i < n + 1
        /\ new[n + 1] = op
    BY OneMore
  <1>2. E = D \cup IF Covers(op, k) THEN {n + 1} ELSE {}
    BY DeletesOfOneMore
  <1>3. D \subseteq 1 .. n
    BY DEF Serial!Deletes
  <1>4. Q = {i \in 1 .. Len(new) : new[i].type = "put" /\ new[i].key = k /\ \A j \in E : j < i}
    BY DEF Serial!Puts
  <1>5. P = {i \in 1 .. n : ops[i].type = "put" /\ ops[i].key = k /\ \A j \in D : j < i}
    BY DEF Serial!Puts
  <1> HIDE DEF n, new, D, E, P, Q
  <1>6. CASE Covers(op, k)
    <2>1. n + 1 \in E /\ op.type # "put"
      BY <1>2, <1>6 DEF Covers
    <2>2. \A i \in 1 .. n : ~(n + 1 < i)
      BY <1>1
    <2>3. Q = {}
      BY <1>1, <1>4, <2>1, <2>2
    <2> QED
      BY <1>6, <2>3 DEF Q, new
  <1>7. CASE ~Covers(op, k)
    <2>1. E = D
      BY <1>2, <1>7
    <2>2. \A j \in D : j < n + 1
      BY <1>1, <1>3
    <2>3. Q = P \cup IF op.type = "put" /\ op.key = k THEN {n + 1} ELSE {}
      BY <1>1, <1>4, <1>5, <2>1, <2>2
    <2> QED
      BY <1>7, <2>3 DEF Q, P, new, n
  <1> QED
    BY <1>6, <1>7

(* The outcome, from the deletes and the puts that count. *)
LEMMA OutcomeIs ==
  ASSUME NEW old, NEW k, NEW ops, NEW r
  PROVE  Serial!Outcome(old, k, ops, r) =
           LET base == Serial!Base(old, k, ops)
               P == Serial!Puts(k, ops)
           IN  IF P = {}
               THEN base
               ELSE [value |-> ops[Serial!Latest(P)].value, lease |-> ops[Serial!Latest(P)].lease,
                     create |-> IF Present(base) THEN base.create ELSE r, mod |-> r,
                     version |-> base.version + Cardinality(P)]
  <1>1. Present(Serial!Base(old, k, ops)) = Serial!Present(Serial!Base(old, k, ops))
    BY DEF Serial!Absent, Absent, Present, Serial!Present
  <1>2. Serial!Cardinality(Serial!Puts(k, ops)) = Cardinality(Serial!Puts(k, ops))
    BY DEF Serial!Cardinality, Cardinality
  <1> QED
    BY <1>1, <1>2 DEF Serial!Outcome

(* Nothing done, nothing changed. *)
LEMMA NothingDone ==
  ASSUME NEW old, NEW k, NEW r
  PROVE  Serial!Outcome(old, k, <<>>, r) = old
  <1>1. 1 .. Len(<<>>) = {}
    OBVIOUS
  <1>2. Serial!Deletes(k, <<>>) = {} /\ Serial!Puts(k, <<>>) = {}
    BY <1>1 DEF Serial!Deletes, Serial!Puts
  <1> QED
    BY <1>2, OutcomeIs DEF Serial!Base

(* One operation more changes the outcome for a key by what it does to it. *)
LEMMA OutcomeOfOneMore ==
  ASSUME NEW old \in Entry, NEW ops \in Seq(Request), NEW op \in Request, NEW k \in Key,
         NEW r \in Nat
  PROVE  Serial!Outcome(old, k, Append(ops, op), r) =
           IF Covers(op, k) THEN Absent
           ELSE IF op.type = "put" /\ op.key = k
                THEN PutEntry(Serial!Outcome(old, k, ops, r), op, r)
                ELSE Serial!Outcome(old, k, ops, r)
  <1> DEFINE n == Len(ops)
             new == Append(ops, op)
             D == Serial!Deletes(k, ops)
             E == Serial!Deletes(k, new)
             P == Serial!Puts(k, ops)
             Q == Serial!Puts(k, new)
             base == Serial!Base(old, k, ops)
             last == Serial!Latest(P)
             base2 == Serial!Base(old, k, new)
             last2 == Serial!Latest(Q)
             before == Serial!Outcome(old, k, ops, r)
             after == Serial!Outcome(old, k, new, r)
  <1>1. /\ n \in Nat /\ n + 1 \notin 1 .. n
        /\ \A i \in 1 .. n : new[i] = ops[i] /\ i < n + 1
        /\ new[n + 1] = op
    BY OneMore
  <1>2. P \subseteq 1 .. n
    BY DEF Serial!Puts
  <1>3. IsFiniteSet(P) /\ Cardinality(P) \in Nat /\ (P # {} => Cardinality(P) # 0)
    <2> HIDE DEF P, n
    <2>1. IsFiniteSet(1 .. n)
      BY <1>1, FS_Interval
    <2>2. IsFiniteSet(P)
      BY <1>2, <2>1, FS_Subset
    <2> QED
      BY <2>2, FS_EmptySet, FS_CardinalityType
  <1>4. /\ base = (IF D = {} THEN old ELSE Absent) /\ base \in Entry
        /\ base2 = (IF E = {} THEN old ELSE Absent)
    BY AbsentType DEF Serial!Base, Absent, Serial!Absent
  <1>5. before = IF P = {} THEN base
                 ELSE [value |-> ops[last].value, lease |-> ops[last].lease,
                       create |-> IF Present(base) THEN base.create ELSE r, mod |-> r,
                       version |-> base.version + Cardinality(P)]
    BY OutcomeIs
  <1>6. after = IF Q = {} THEN base2
                ELSE [value |-> new[last2].value, lease |-> new[last2].lease,
                      create |-> IF Present(base2) THEN base2.create ELSE r, mod |-> r,
                      version |-> base2.version + Cardinality(Q)]
    BY OutcomeIs
  <1>7. E = D \cup IF Covers(op, k) THEN {n + 1} ELSE {}
    BY DeletesOfOneMore
  <1>8. Q = IF Covers(op, k) THEN {}
            ELSE P \cup IF op.type = "put" /\ op.key = k THEN {n + 1} ELSE {}
    BY PutsOfOneMore
  <1> HIDE DEF n, new, D, E, P, Q, base, last, base2, last2, before, after
  <1>9. CASE Covers(op, k)
    <2>1. E # {} /\ Q = {}
      BY <1>7, <1>8, <1>9
    <2> QED
      BY <1>4, <1>6, <1>9, <2>1 DEF after, new
  <1>10. CASE ~Covers(op, k) /\ op.type = "put" /\ op.key = k
    <2>1. E = D /\ Q = P \cup {n + 1}
      BY <1>7, <1>8, <1>10
    <2>2. n + 1 = last2
      <3>1. \A j \in Q : j <= n + 1
        BY <1>1, <1>2, <2>1
      <3>2. \A i \in Q : (\A j \in Q : j <= i) => i = n + 1
        BY <1>1, <1>2, <2>1
      <3> QED
        BY <2>1, <3>1, <3>2 DEF last2, Serial!Latest
    <2>3. Cardinality(Q) = Cardinality(P) + 1
      BY <1>1, <1>2, <1>3, <2>1, FS_AddElement
    <2>4. after = [value |-> op.value, lease |-> op.lease,
                   create |-> IF Present(base) THEN base.create ELSE r, mod |-> r,
                   version |-> base.version + Cardinality(P) + 1]
      <3>1. base.version \in Nat
        BY <1>4 DEF Entry
      <3> QED
        <4>1. base2 = base
          BY <1>4, <2>1
        <4>2. Q # {} /\ new[last2] = op
          BY <1>1, <2>1, <2>2
        <4>3. base.version + Cardinality(Q) = base.version + Cardinality(P) + 1
          BY <1>3, <2>3, <3>1
        <4>4. after = [value |-> new[last2].value, lease |-> new[last2].lease,
                       create |-> IF Present(base) THEN base.create ELSE r, mod |-> r,
                       version |-> base.version + Cardinality(Q)]
          BY <1>6, <4>1, <4>2
        <4> QED
          BY <4>2, <4>3, <4>4
    <2>5. after = PutEntry(before, op, r)
      <3>1. CASE P = {}
        <4>1. before = base /\ Cardinality(P) = 0
          BY <1>5, <3>1, FS_EmptySet
        <4>2. Present(base) \/ base.version = 0
          BY DEF Present, Absent
        <4>3. base.version \in Nat /\ Present(base) = (base # Absent)
          BY <1>4 DEF Entry, Present
        <4> QED
          BY <2>4, <4>1, <4>2, <4>3 DEF PutEntry
      <3>2. CASE P # {}
        <4>1. /\ before.version = base.version + Cardinality(P)
              /\ before.create = IF Present(base) THEN base.create ELSE r
          BY <1>5, <3>2
        <4>2. Present(before)
          BY <1>3, <1>4, <3>2, <4>1 DEF Present, Absent, Entry
        <4> QED
          BY <2>4, <4>1, <4>2 DEF PutEntry
      <3> QED
        BY <3>1, <3>2
    <2> QED
      BY <1>10, <2>5 DEF after, before, new
  <1>11. CASE ~Covers(op, k) /\ ~(op.type = "put" /\ op.key = k)
    <2>1. E = D /\ Q = P
      BY <1>7, <1>8, <1>11
    <2>2. P # {} => last \in P
      <3>1. P \in SUBSET (0 .. n)
        <4>1. \A j \in P : j \in 0 .. n
          BY <1>1, <1>2
        <4> QED
          BY <4>1
      <3> QED
        BY <1>1, <3>1, GreatestElement DEF last, Serial!Latest
    <2>3. P # {} => new[last] = ops[last]
      BY <1>1, <1>2, <2>2
    <2>4. after = before
      BY <1>4, <1>5, <1>6, <2>1, <2>3 DEF last, last2
    <2> QED
      BY <1>11, <2>4 DEF after, before, new
  <1> QED
    BY <1>9, <1>10, <1>11

(* What one operation makes of an entry. *)
After(old, k, op, r) ==
  IF Covers(op, k) THEN Absent
  ELSE IF op.type = "put" /\ op.key = k THEN PutEntry(old, op, r) ELSE old

(* The operations, and those behind the first. *)
LEMMA FirstAndRest ==
  ASSUME NEW ops \in Seq(Request), ops # <<>>
  PROVE  /\ Tail(ops) \in Seq(Request) /\ Head(ops) \in Request
         /\ Len(Tail(ops)) \in Nat /\ Len(ops) = Len(Tail(ops)) + 1
         /\ Head(ops) = ops[1]
         /\ \A i \in 1 .. Len(Tail(ops)) : Tail(ops)[i] = ops[i + 1]
  <1>1. /\ Head(ops) \in Request /\ Tail(ops) \in Seq(Request)
        /\ Len(Tail(ops)) = Len(ops) - 1 /\ Head(ops) = ops[1]
        /\ \A i \in 1 .. Len(Tail(ops)) : Tail(ops)[i] = ops[i + 1]
    BY HeadTailProperties
  <1>2. Len(ops) \in Nat /\ Len(Tail(ops)) \in Nat
    BY <1>1, LenProperties
  <1> QED
    BY <1>1, <1>2

(* A set of indices, and the same moved up by one. *)
MovedUp(Q, n, P) ==
  /\ n \in Nat
  /\ Q \in SUBSET (1 .. n)
  /\ P \in SUBSET (1 .. (n + 1))
  /\ \A i \in 1 .. n : i \in Q <=> i + 1 \in P

LEMMA MovedUpCounts ==
  ASSUME NEW Q, NEW n, NEW P, MovedUp(Q, n, P)
  PROVE  /\ Cardinality(Q) \in Nat
         /\ Cardinality(P) = Cardinality(Q) + IF 1 \in P THEN 1 ELSE 0
         /\ Q # {} => Serial!Latest(Q) \in 1 .. n /\ Serial!Latest(P) = Serial!Latest(Q) + 1
         /\ Q = {} => P = IF 1 \in P THEN {1} ELSE {}
  <1> USE DEF MovedUp
  <1> DEFINE R == P \ {1}
             f == [i \in Q |-> i + 1]
  <1>1. \A j \in R : j - 1 \in Q /\ j = (j - 1) + 1
    <2>1. \A j \in R : j - 1 \in 1 .. n /\ j = (j - 1) + 1
      OBVIOUS
    <2> QED
      BY <2>1
  <1>2. \A i \in Q : i + 1 \in R /\ i \in Nat
    OBVIOUS
  <1>3. IsFiniteSet(Q) /\ Cardinality(Q) \in Nat /\ IsFiniteSet(P)
    <2>1. IsFiniteSet(1 .. n) /\ IsFiniteSet(1 .. (n + 1))
      BY FS_Interval
    <2>2. IsFiniteSet(Q) /\ IsFiniteSet(P)
      BY <2>1, FS_Subset
    <2> QED
      BY <2>2, FS_CardinalityType
  <1>4. Cardinality(R) = Cardinality(Q)
    <2>1. f \in Bijection(Q, R)
      <3>1. f \in [Q -> R]
        BY <1>2
      <3>2. \A a, b \in Q : f[a] = f[b] => a = b
        BY <1>2
      <3>3. \A j \in R : \E i \in Q : f[i] = j
        BY <1>1
      <3> QED
        BY <3>1, <3>2, <3>3 DEF Bijection, Injection, Surjection, IsInjective
    <2> QED
      BY <1>3, <2>1, FS_Bijection DEF ExistsBijection
  <1>5. Cardinality(P) = Cardinality(Q) + IF 1 \in P THEN 1 ELSE 0
    <2>1. CASE 1 \in P
      <3>1. Cardinality(R) = Cardinality(P) - 1 /\ Cardinality(P) \in Nat
        BY <1>3, <2>1, FS_RemoveElement, FS_CardinalityType
      <3> QED
        BY <1>3, <1>4, <2>1, <3>1
    <2>2. CASE 1 \notin P
      BY <1>3, <1>4, <2>2
    <2> QED
      BY <2>1, <2>2
  <1> HIDE DEF R, f
  <1>6. ASSUME Q # {}
        PROVE  Serial!Latest(Q) \in 1 .. n /\ Serial!Latest(P) = Serial!Latest(Q) + 1
    <2>1. Q \in SUBSET (0 .. n)
      OBVIOUS
    <2>2. PICK x \in Q : \A y \in Q : y <= x
      BY <1>6, <2>1, GreatestElement
    <2>3. \A z \in Q : (\A y \in Q : y <= z) => z = x
      BY <2>2
    <2>4. Serial!Latest(Q) = x
      BY <2>2, <2>3 DEF Serial!Latest
    <2>5. x + 1 \in P /\ \A j \in P : j <= x + 1
      <3>1. \A j \in P : j = 1 \/ j - 1 <= x
        BY <1>1, <2>2 DEF R
      <3> QED
        BY <1>2, <2>2, <3>1 DEF R
    <2>6. \A z \in P : (\A y \in P : y <= z) => z = x + 1
      BY <2>5
    <2>7. Serial!Latest(P) = x + 1
      BY <2>5, <2>6 DEF Serial!Latest
    <2> QED
      BY <2>2, <2>4, <2>7
  <1>7. Q = {} => P = IF 1 \in P THEN {1} ELSE {}
    BY <1>1 DEF R
  <1> QED
    BY <1>3, <1>5, <1>6, <1>7

(* What a list of operations leaves is what those behind the first leave of what
   the first leaves. *)
LEMMA OutcomeOfFirst ==
  ASSUME NEW old \in Entry, NEW ops \in Seq(Request), ops # <<>>, NEW k \in Key, NEW r \in Nat
  PROVE  Serial!Outcome(old, k, ops, r) =
           Serial!Outcome(After(old, k, Head(ops), r), k, Tail(ops), r)
  <1> DEFINE op == Head(ops)
             rest == Tail(ops)
             n == Len(rest)
             D == Serial!Deletes(k, ops)
             E == Serial!Deletes(k, rest)
             P == Serial!Puts(k, ops)
             Q == Serial!Puts(k, rest)
             mid == After(old, k, op, r)
             base == Serial!Base(old, k, ops)
             base2 == Serial!Base(mid, k, rest)
             one == Serial!Outcome(old, k, ops, r)
             two == Serial!Outcome(mid, k, rest, r)
  <1>1. /\ n \in Nat /\ Len(ops) = n + 1 /\ op = ops[1] /\ op \in Request
        /\ \A i \in 1 .. n : rest[i] = ops[i + 1]
    BY FirstAndRest
  <1>2. /\ D = {i \in 1 .. (n + 1) : Covers(ops[i], k)}
        /\ E = {i \in 1 .. n : Covers(rest[i], k)}
    BY <1>1 DEF Serial!Deletes, Covers, KeyInRange, Serial!KeyInRange
  <1>3. /\ P = {i \in 1 .. (n + 1) : /\ ops[i].type = "put" /\ ops[i].key = k
                                    /\ \A j \in D : j < i}
        /\ Q = {i \in 1 .. n : /\ rest[i].type = "put" /\ rest[i].key = k
                              /\ \A j \in E : j < i}
    BY <1>1 DEF Serial!Puts
  <1>4. /\ base = (IF D = {} THEN old ELSE Absent) /\ base \in Entry
        /\ base2 = (IF E = {} THEN mid ELSE Absent)
    BY AbsentType DEF Serial!Base, Absent, Serial!Absent
  <1>5. one = IF P = {} THEN base
              ELSE [value |-> ops[Serial!Latest(P)].value, lease |-> ops[Serial!Latest(P)].lease,
                    create |-> IF Present(base) THEN base.create ELSE r, mod |-> r,
                    version |-> base.version + Cardinality(P)]
    BY OutcomeIs
  <1>6. two = IF Q = {} THEN base2
              ELSE [value |-> rest[Serial!Latest(Q)].value,
                    lease |-> rest[Serial!Latest(Q)].lease,
                    create |-> IF Present(base2) THEN base2.create ELSE r, mod |-> r,
                    version |-> base2.version + Cardinality(Q)]
    BY OutcomeIs
  <1>7. mid = IF Covers(op, k) THEN Absent
              ELSE IF op.type = "put" /\ op.key = k THEN PutEntry(old, op, r) ELSE old
    BY DEF After
  <1> HIDE DEF op, rest, n, D, E, P, Q, mid, base, base2, one, two
  <1>8. /\ \A i \in 1 .. n : i \in E <=> i + 1 \in D
        /\ 1 \in D <=> Covers(op, k)
        /\ D = {} <=> E = {} /\ ~Covers(op, k)
    <2>1. /\ \A i \in 1 .. n : i \in E <=> i + 1 \in D
          /\ 1 \in D <=> Covers(op, k)
      BY <1>1, <1>2
    <2>2. \A j \in D : j = 1 \/ (j - 1 \in 1 .. n /\ j = (j - 1) + 1)
      BY <1>1, <1>2
    <2>3. E \subseteq 1 .. n
      BY <1>2
    <2> QED
      BY <2>1, <2>2, <2>3
  <1>9. \A i \in 1 .. n : i \in Q <=> i + 1 \in P
    <2> SUFFICES ASSUME NEW i \in 1 .. n
                 PROVE  (\A j \in E : j < i) <=> (\A j \in D : j < i + 1)
      BY <1>1, <1>3
    <2>1. \A j \in D : j = 1 \/ (j - 1 \in E /\ j = (j - 1) + 1)
      <3>1. \A j \in D : j = 1 \/ (j - 1 \in 1 .. n /\ j = (j - 1) + 1)
        BY <1>1, <1>2
      <3> QED
        BY <1>8, <3>1
    <2>2. \A j \in E : j + 1 \in D /\ j \in Nat
      BY <1>2, <1>8
    <2>3. ASSUME \A j \in E : j < i, NEW j \in D
          PROVE  j < i + 1
      <3>1. j \in Nat
        BY <1>1, <1>2
      <3>2. j = 1 \/ j - 1 < i
        BY <2>1, <2>3
      <3> QED
        BY <1>1, <3>1, <3>2
    <2>4. ASSUME \A j \in D : j < i + 1, NEW j \in E
          PROVE  j < i
      BY <1>1, <2>2, <2>4
    <2> QED
      BY <2>3, <2>4
  <1>10. 1 \in P <=> op.type = "put" /\ op.key = k /\ D = {}
    BY <1>1, <1>2, <1>3
  <1>11. /\ Cardinality(Q) \in Nat
         /\ Cardinality(P) = Cardinality(Q) + IF 1 \in P THEN 1 ELSE 0
         /\ Q # {} => /\ Serial!Latest(Q) \in 1 .. n
                      /\ Serial!Latest(P) = Serial!Latest(Q) + 1
         /\ Q = {} => P = IF 1 \in P THEN {1} ELSE {}
    <2>1. Q \in SUBSET (1 .. n) /\ P \in SUBSET (1 .. (n + 1))
      BY <1>3
    <2>2. MovedUp(Q, n, P)
      BY <1>1, <1>9, <2>1 DEF MovedUp
    <2> QED
      BY <2>2, MovedUpCounts
  <1>12. Q # {} => P # {} /\ ops[Serial!Latest(P)] = rest[Serial!Latest(Q)]
    BY <1>1, <1>3, <1>9, <1>11
  <1>13. CASE 1 \notin P
    <2>1. Cardinality(P) = Cardinality(Q) /\ (P = {} <=> Q = {})
      BY <1>11, <1>12, <1>13
    <2>2. base = base2
      BY <1>4, <1>7, <1>8, <1>10, <1>13 DEF Covers
    <2>3. one = two
      <3>1. CASE Q = {}
        BY <1>5, <1>6, <2>1, <2>2, <3>1
      <3>2. CASE Q # {}
        BY <1>5, <1>6, <1>12, <2>1, <2>2, <3>2
      <3> QED
        BY <3>1, <3>2
    <2> QED
      BY <2>3 DEF one, two, mid, op, rest
  <1>14. CASE 1 \in P
    <2>1. /\ base = old /\ base2 = PutEntry(old, op, r) /\ P # {}
          /\ Cardinality(P) = Cardinality(Q) + 1
      BY <1>4, <1>7, <1>8, <1>10, <1>11, <1>14
    <2>2. /\ old.version \in Nat /\ Absent.version = 0
          /\ (~Present(old) => old.version = 0)
      BY DEF Entry, Present, Absent
    <2>3. /\ base2.version = old.version + 1
          /\ base2.create = IF Present(old) THEN old.create ELSE r
          /\ base2.value = op.value /\ base2.lease = op.lease /\ base2.mod = r
          /\ base2 = [value |-> op.value, lease |-> op.lease, create |-> base2.create,
                      mod |-> r, version |-> base2.version]
      BY <2>1, <2>2 DEF PutEntry
    <2>4. Present(base2)
      BY <2>2, <2>3 DEF Present, Absent
    <2>5. CASE Q = {}
      <3>1. Serial!Latest(P) = 1 /\ Cardinality(P) = 1
        <4>1. P = {1} /\ Cardinality(Q) = 0
          BY <1>11, <1>14, <2>5, FS_EmptySet
        <4> QED
          BY <2>1, <4>1 DEF Serial!Latest
      <3> QED
        BY <1>1, <1>5, <1>6, <2>1, <2>3, <2>5, <3>1 DEF one, two, mid, op, rest
    <2>6. CASE Q # {}
      <3>1. base2.version + Cardinality(Q) = old.version + Cardinality(P)
        <4>1. Cardinality(Q) \in Nat
          BY <1>11
        <4> QED
          BY <2>1, <2>2, <2>3, <4>1
      <3>2. one = two
        <4>1. one = [value |-> rest[Serial!Latest(Q)].value,
                     lease |-> rest[Serial!Latest(Q)].lease,
                     create |-> IF Present(old) THEN old.create ELSE r, mod |-> r,
                     version |-> old.version + Cardinality(P)]
          BY <1>5, <1>12, <2>1, <2>6
        <4>2. two = [value |-> rest[Serial!Latest(Q)].value,
                     lease |-> rest[Serial!Latest(Q)].lease,
                     create |-> IF Present(old) THEN old.create ELSE r, mod |-> r,
                     version |-> base2.version + Cardinality(Q)]
          BY <1>6, <2>3, <2>4, <2>6
        <4> QED
          BY <3>1, <4>1, <4>2
      <3> QED
        BY <3>2 DEF one, two, mid, op, rest
    <2> QED
      BY <2>5, <2>6
  <1> QED
    BY <1>13, <1>14 DEF one, two, mid, op, rest

(* The outcome for a key is the entry it had, or none, or one of this revision with
   the lease of one of the puts, and is not the entry it had if there is a put. *)
LEMMA OutcomeKinds ==
  ASSUME NEW old \in Entry, NEW ops \in Seq(Request), NEW k \in Key, NEW r \in Nat
  PROVE  \/ /\ Serial!Outcome(old, k, ops, r) \in {old, Absent}
            /\ ops # <<>> /\ Head(ops).type = "put" /\ Head(ops).key = k
                 => Serial!Outcome(old, k, ops, r) = Absent
         \/ /\ Serial!Outcome(old, k, ops, r).mod = r
            /\ \E i \in 1 .. Len(ops) :
                 ops[i].type = "put" /\ Serial!Outcome(old, k, ops, r).lease = ops[i].lease
  <1> DEFINE D == Serial!Deletes(k, ops)
             P == Serial!Puts(k, ops)
             base == Serial!Base(old, k, ops)
             one == Serial!Outcome(old, k, ops, r)
  <1>1. base = IF D = {} THEN old ELSE Absent
    BY DEF Serial!Base, Absent, Serial!Absent
  <1>2. one = IF P = {} THEN base
              ELSE [value |-> ops[Serial!Latest(P)].value, lease |-> ops[Serial!Latest(P)].lease,
                    create |-> IF Present(base) THEN base.create ELSE r, mod |-> r,
                    version |-> base.version + Cardinality(P)]
    BY OutcomeIs
  <1>3. Len(ops) \in Nat
    BY LenProperties
  <1>4. \A i \in P : i \in 1 .. Len(ops) /\ ops[i].type = "put"
    BY DEF Serial!Puts
  <1>5. ASSUME ops # <<>>, Head(ops).type = "put", Head(ops).key = k, D = {}
        PROVE  P # {}
    <2>1. ops[1] = Head(ops) /\ 1 \in 1 .. Len(ops)
      BY <1>5, FirstAndRest
    <2> QED
      BY <1>5, <2>1 DEF Serial!Puts
  <1> HIDE DEF D, P, base, one
  <1>6. CASE P = {}
    BY <1>1, <1>2, <1>5, <1>6 DEF one
  <1>7. CASE P # {}
    <2>1. P \in SUBSET (0 .. Len(ops))
      <3>1. \A i \in P : i \in 0 .. Len(ops)
        BY <1>3, <1>4
      <3> QED
        BY <3>1
    <2>2. Serial!Latest(P) \in P
      BY <1>3, <1>7, <2>1, GreatestElement DEF Serial!Latest
    <2>3. one.mod = r /\ one.lease = ops[Serial!Latest(P)].lease
      BY <1>2, <1>7
    <2> QED
      BY <1>4, <2>2, <2>3 DEF one
  <1> QED
    BY <1>6, <1>7

-----------------------------------------------------------------------------
(* Every call is executed alone. *)

(* The call inside the mutex is one the map allowed when it began: some
   operations of it are done, with the outcome they should have, but for the
   keys of a delete at the head, which may be erased already. *)
Underway(done) ==
  /\ done \o call.todo \in Serial!Calls
  /\ \A k \in Key :
       \/ data[k] = Serial!Outcome(visible[k], k, done, revision)
       \/ Busy("delete") /\ Covers(Head(call.todo), k) /\ data[k] = Absent

SerialInv == MapInv /\ (mutex # Free => \E done \in Seq(Request) : Underway(done))

(* What may be called depends on the visible map alone. *)
LEMMA CallsKept == ASSUME visible' = visible PROVE Serial!Calls' = Serial!Calls
  BY DEF Serial!Calls, Serial!Branches, Serial!MaySucceed, Serial!MustSucceed, Serial!Holds

(* An operation that is over goes from what is to do to what is done. *)
LEMMA DoneAndToDo ==
  ASSUME NEW done \in Seq(Request), NEW todo \in Seq(Request), todo # <<>>
  PROVE  Append(done, Head(todo)) \o Tail(todo) = done \o todo
  <1>1. /\ Head(todo) \in Request /\ Tail(todo) \in Seq(Request)
        /\ Len(Tail(todo)) = Len(todo) - 1 /\ Head(todo) = todo[1]
        /\ \A i \in 1 .. Len(Tail(todo)) : Tail(todo)[i] = todo[i + 1]
        /\ Len(todo) \in Nat /\ Len(todo) # 0 /\ Len(done) \in Nat
    BY HeadTailProperties, EmptySeq, LenProperties
  <1> DEFINE more == Append(done, Head(todo))
  <1>2. /\ more \in Seq(Request) /\ Len(more) = Len(done) + 1
        /\ \A i \in 1 .. Len(done) : more[i] = done[i]
        /\ more[Len(done) + 1] = todo[1]
    BY <1>1, AppendProperties
  <1> HIDE DEF more
  <1>3. /\ more \o Tail(todo) \in Seq(Request)
        /\ Len(more \o Tail(todo)) = Len(more) + Len(Tail(todo))
        /\ \A i \in 1 .. Len(more) + Len(Tail(todo)) :
             (more \o Tail(todo))[i] =
               IF i <= Len(more) THEN more[i] ELSE Tail(todo)[i - Len(more)]
    BY <1>1, <1>2, ConcatProperties
  <1>4. /\ done \o todo \in Seq(Request)
        /\ Len(done \o todo) = Len(done) + Len(todo)
        /\ \A i \in 1 .. Len(done) + Len(todo) :
             (done \o todo)[i] = IF i <= Len(done) THEN done[i] ELSE todo[i - Len(done)]
    BY ConcatProperties
  <1>5. ASSUME NEW i \in 1 .. Len(done) + Len(todo)
        PROVE  (more \o Tail(todo))[i] = (done \o todo)[i]
    <2>1. CASE i <= Len(done)
      <3>1. i \in 1 .. Len(done) /\ i <= Len(more) /\ i \in 1 .. Len(more) + Len(Tail(todo))
        BY <1>1, <1>2, <1>5, <2>1
      <3> QED
        BY <1>2, <1>3, <1>4, <2>1, <3>1
    <2>2. CASE i = Len(done) + 1
      BY <1>1, <1>2, <1>3, <1>4, <1>5, <2>2
    <2>3. CASE i > Len(done) + 1
      <3>1. /\ i - Len(more) \in 1 .. Len(Tail(todo)) /\ i - Len(more) + 1 = i - Len(done)
            /\ ~(i <= Len(more)) /\ ~(i <= Len(done))
        BY <1>1, <1>2, <2>3
      <3> QED
        BY <1>1, <1>2, <1>3, <1>4, <3>1
    <2> QED
      <3>1. i <= Len(done) \/ i = Len(done) + 1 \/ i > Len(done) + 1
        BY <1>1, <1>5
      <3> QED
        BY <2>1, <2>2, <2>3, <3>1
  <1>6. Len(more \o Tail(todo)) = Len(done \o todo)
    BY <1>1, <1>2, <1>3, <1>4
  <1>7. more \o Tail(todo) = done \o todo
    BY <1>3, <1>4, <1>5, <1>6, SeqEqual
  <1> QED
    BY <1>7 DEF more

(* A call begins with nothing done. *)
LEMMA LockUnderway ==
  ASSUME SerialInv, Locks
  PROVE  \E done \in Seq(Request) : Underway(done)'
  <1>1. PICK t \in Thread, kind \in {"put", "delete", "txn", "lease"}, todo \in Seq(Request),
             told \in SUBSET Key :
               Lock(t, kind, todo, told) /\ (visible = data => todo \in Serial!Calls)
    BY DEF Locks
  <1>2. /\ mutex = Free /\ call'.todo = todo /\ UNCHANGED <<data, visible>>
        /\ visible = data
    BY <1>1 DEF Lock, SerialInv, MapInv, Uncommitted
  <1>3. <<>> \in Seq(Request) /\ <<>> \o todo = todo
    BY EmptySeq, ConcatEmptySeq
  <1>4. \A k \in Key : data'[k] = Serial!Outcome(visible'[k], k, <<>>, revision')
    BY <1>2, NothingDone
  <1>5. <<>> \o call'.todo \in Serial!Calls'
    BY <1>1, <1>2, <1>3, CallsKept
  <1>6. Underway(<<>>)'
    BY <1>4, <1>5 DEF Underway
  <1> QED
    BY <1>3, <1>6

(* The end of an operation. *)
LEMMA OperationDone ==
  ASSUME KVTypeOK, NEW done \in Seq(Request), Underway(done),
         call.todo # <<>>, call'.todo = Tail(call.todo), UNCHANGED <<revision, visible>>,
         \A k \in Key :
           data'[k] = LET before == Serial!Outcome(visible[k], k, done, revision)
                          op == Head(call.todo)
                      IN  IF Covers(op, k) THEN Absent
                          ELSE IF op.type = "put" /\ op.key = k
                               THEN PutEntry(before, op, revision) ELSE before
  PROVE  \E more \in Seq(Request) : Underway(more)'
  <1>1. call.todo \in Seq(Request) /\ Head(call.todo) \in Request /\ revision \in Nat
    BY HeadTailProperties DEF KVTypeOK, Call
  <1>2. PICK op \in Request : op = Head(call.todo)
    BY <1>1
  <1>3. PICK more \in Seq(Request) : more = Append(done, op)
    <2>1. Append(done, op) \in Seq(Request)
      BY <1>2, AppendProperties
    <2> QED
      BY <2>1
  <1>4. more \o Tail(call.todo) = done \o call.todo
    <2>1. Append(done, Head(call.todo)) \o Tail(call.todo) = done \o call.todo
      BY <1>1, DoneAndToDo
    <2> QED
      BY <1>2, <1>3, <2>1
  <1>5. more \o call'.todo \in Serial!Calls'
    <2>1. Serial!Calls' = Serial!Calls
      BY CallsKept
    <2>2. done \o call.todo \in Serial!Calls
      BY DEF Underway
    <2> QED
      BY <1>4, <2>1, <2>2
  <1>6. ASSUME NEW k \in Key
        PROVE  data'[k] = Serial!Outcome(visible'[k], k, more, revision')
    <2>1. visible[k] \in Entry
      BY DEF KVTypeOK
    <2>2. Serial!Outcome(visible[k], k, more, revision) =
            LET before == Serial!Outcome(visible[k], k, done, revision)
            IN  IF Covers(op, k) THEN Absent
                ELSE IF op.type = "put" /\ op.key = k
                     THEN PutEntry(before, op, revision) ELSE before
      BY <1>1, <1>3, <2>1, OutcomeOfOneMore
    <2> QED
      BY <1>2, <2>2
  <1>7. Underway(more)'
    BY <1>5, <1>6 DEF Underway
  <1> QED
    BY <1>7

(* The steps inside the mutex. *)
LEMMA ProceedUnderway ==
  ASSUME SerialInv, KVProceed, ~Unlock
  PROVE  mutex # Free /\ \E done \in Seq(Request) : Underway(done)'
  <1>1. KVTypeOK
    BY DEF SerialInv, MapInv, RevisionInv
  <1>2. mutex # Free
    BY DEF KVProceed, PutDetach, PutStore, EraseKey, EraseDone, TxnRange, Busy
  <1>3. PICK done \in Seq(Request) : Underway(done)
    BY <1>2 DEF SerialInv
  <1>4. call \in Call /\ data \in [Key -> Entry]
    BY <1>1 DEF KVTypeOK
  <1>5. CASE PutDetach
    <2>1. call'.todo = call.todo /\ UNCHANGED <<data, revision, visible, mutex>>
      BY <1>4, <1>5 DEF PutDetach, Call
    <2>2. Underway(done)'
      BY <1>3, <2>1, CallsKept DEF Underway, Busy
    <2> QED
      BY <1>2, <2>2
  <1>6. CASE PutStore
    <2> DEFINE op == Head(call.todo)
    <2>1. /\ op.type = "put" /\ op.key \in Key /\ call.todo # <<>>
          /\ call'.todo = Tail(call.todo) /\ UNCHANGED <<revision, visible>>
          /\ data' = [data EXCEPT ![op.key] = PutEntry(data[op.key], op, revision)]
      BY <1>4, <1>6, HeadAndTail DEF PutStore, Busy, Call
    <2>2. \A k \in Key : data[k] = Serial!Outcome(visible[k], k, done, revision)
      BY <1>3, <2>1 DEF Underway, Busy
    <2>3. ASSUME NEW k \in Key
          PROVE  /\ ~Covers(op, k)
                 /\ data'[k] = IF op.key = k THEN PutEntry(data[k], op, revision) ELSE data[k]
      BY <1>4, <2>1 DEF Covers
    <2> HIDE DEF op
    <2>4. \A k \in Key :
            data'[k] = LET before == Serial!Outcome(visible[k], k, done, revision)
                       IN  IF Covers(op, k) THEN Absent
                           ELSE IF op.type = "put" /\ op.key = k
                                THEN PutEntry(before, op, revision) ELSE before
      BY <2>1, <2>2, <2>3
    <2> QED
      BY <1>1, <1>2, <1>3, <2>1, <2>4, OperationDone DEF op
  <1>7. CASE \E k \in Key : EraseKey(k)
    <2>1. PICK k \in Key : EraseKey(k)
      BY <1>7
    <2>2. /\ call'.todo = call.todo /\ UNCHANGED <<revision, visible, mutex>>
          /\ data' = [data EXCEPT ![k] = Absent]
          /\ Busy("delete") /\ Covers(Head(call.todo), k)
      BY <1>4, <2>1 DEF EraseKey, Call, Busy, Covers, KeysToDelete, KeysInRange
    <2>3. \A j \in Key : data'[j] = IF j = k THEN Absent ELSE data[j]
      BY <1>4, <2>2
    <2>4. Busy("delete")'
      BY <2>2 DEF Busy
    <2>5. Underway(done)'
      BY <1>3, <2>2, <2>3, <2>4, CallsKept DEF Underway
    <2> QED
      BY <1>2, <2>5
  <1>8. CASE EraseDone
    <2> DEFINE op == Head(call.todo)
    <2>1. /\ op.type = "delete" /\ call.todo # <<>>
          /\ call'.todo = Tail(call.todo) /\ UNCHANGED <<data, revision, visible>>
      BY <1>4, <1>8 DEF EraseDone, Busy, Call
    <2>2. \A k \in Key : Covers(op, k) => data[k] = Absent
      BY <1>8 DEF EraseDone, Covers, KeysToDelete, KeysInRange, Present
    <2>3. \A k \in Key : ~Covers(op, k) => data[k] = Serial!Outcome(visible[k], k, done, revision)
      BY <1>3 DEF Underway
    <2> HIDE DEF op
    <2>4. \A k \in Key :
            data'[k] = LET before == Serial!Outcome(visible[k], k, done, revision)
                       IN  IF Covers(op, k) THEN Absent
                           ELSE IF op.type = "put" /\ op.key = k
                                THEN PutEntry(before, op, revision) ELSE before
      BY <2>1, <2>2, <2>3
    <2> QED
      BY <1>1, <1>2, <1>3, <2>1, <2>4, OperationDone DEF op
  <1>9. CASE TxnRange
    <2> DEFINE op == Head(call.todo)
    <2>1. /\ op.type = "range" /\ call.todo # <<>>
          /\ call'.todo = Tail(call.todo) /\ UNCHANGED <<data, revision, visible>>
      BY <1>4, <1>9 DEF TxnRange, Busy, Call
    <2>2. \A k \in Key : ~Covers(op, k) /\ data[k] = Serial!Outcome(visible[k], k, done, revision)
      BY <1>3, <2>1 DEF Underway, Covers, Busy
    <2> HIDE DEF op
    <2>3. \A k \in Key :
            data'[k] = LET before == Serial!Outcome(visible[k], k, done, revision)
                       IN  IF Covers(op, k) THEN Absent
                           ELSE IF op.type = "put" /\ op.key = k
                                THEN PutEntry(before, op, revision) ELSE before
      BY <2>1, <2>2
    <2> QED
      BY <1>1, <1>2, <1>3, <2>1, <2>3, OperationDone DEF op
  <1> QED
    BY <1>5, <1>6, <1>7, <1>8, <1>9 DEF KVProceed

(* Every step keeps what is promised of the call under way. *)
LEMMA SerialStep == SerialInv /\ KVMove => SerialInv'
  <1> SUFFICES ASSUME SerialInv, KVMove
               PROVE  mutex' # Free => \E done \in Seq(Request) : Underway(done)'
    BY MapStep DEF SerialInv
  <1>1. CASE Locks
    BY <1>1, LockUnderway
  <1>2. CASE KVProceed /\ ~Unlock
    BY <1>2, ProceedUnderway
  <1>3. CASE Unlock
    BY <1>3 DEF Unlock
  <1>4. CASE UNCHANGED kvVars
    <2>1. UNCHANGED <<data, revision, mutex, call, visible>>
      BY <1>4 DEF kvVars
    <2>2. \A done \in Seq(Request) : Underway(done) => Underway(done)'
      BY <2>1, CallsKept DEF Underway, Busy
    <2> QED
      BY <2>1, <2>2 DEF SerialInv
  <1> QED
    BY <1>1, <1>2, <1>3, <1>4 DEF KVMove

(* The release shows the outcome of a call that was allowed, and nothing else
   shows anything. *)
LEMMA StepExecutes ==
  ASSUME SerialInv, KVMove
  PROVE  [Serial!SSNext]_<<visible, IF mutex = Free THEN revision ELSE revision - 1>>
  <1>1. KVTypeOK
    BY DEF SerialInv, MapInv, RevisionInv
  <1>2. CASE Locks
    <2>1. mutex = Free /\ mutex' # Free
      BY <1>2, KVAssumption DEF Locks, Lock
    <2> QED
      BY <1>1, <1>2, <2>1 DEF Locks, Lock, KVTypeOK
  <1>3. CASE KVProceed /\ ~Unlock
    BY <1>3 DEF KVProceed, PutDetach, PutStore, EraseKey, EraseDone, TxnRange
  <1>4. CASE Unlock
    <2>1. /\ mutex # Free /\ mutex' = Free /\ revision' = revision /\ visible' = data
          /\ call.todo = <<>>
      BY <1>4 DEF Unlock
    <2>2. PICK done \in Seq(Request) : Underway(done)
      BY <2>1 DEF SerialInv
    <2>3. done \o call.todo = done
      BY <2>1, ConcatEmptySeq
    <2>4. done \in Serial!Calls
      BY <2>2, <2>3 DEF Underway
    <2>5. \A k \in Key : data[k] = Serial!Outcome(visible[k], k, done, revision)
      BY <2>1, <2>2 DEF Underway, Busy
    <2>6. revision - 1 + 1 = revision
      BY <1>1 DEF KVTypeOK
    <2>7. visible' = [k \in Key |-> Serial!Outcome(visible[k], k, done, revision)]
      <3>1. data \in [Key -> Entry]
        BY <1>1 DEF KVTypeOK
      <3> QED
        BY <2>1, <2>5, <3>1
    <2> QED
      BY <2>1, <2>4, <2>6, <2>7 DEF Serial!SSNext
  <1>5. CASE UNCHANGED kvVars
    BY <1>5 DEF kvVars
  <1> QED
    BY <1>2, <1>3, <1>4, <1>5 DEF KVMove

(* The first state is the empty map, and no call. *)
LEMMA SerialInit == KVInit => SerialInv /\ Serial!SSInit
  <1>1. Absent = Serial!Absent
    BY DEF Absent, Serial!Absent
  <1> QED
    BY <1>1, MapInit DEF KVInit, SerialInv, Serial!SSInit

(* Seen through the mutex, every call is executed alone. *)
THEOREM ImplementsSerialStore == KVSpec => IsSerial
  BY SerialInit, SerialStep, StepExecutes, NextMoves, PTL DEF KVSpec, IsSerial, Serial!SSSpec

-----------------------------------------------------------------------------
(* What clients write is reported. *)

(* What a client's put or delete has changed is what it will report, and what
   it still has to do is of its own kind. *)
Reported ==
  /\ call.kind \in {"put", "delete"} =>
       \A k \in Key : data[k] # visible[k] => k \in call.told
  /\ call.kind = "put" =>
       \A i \in 1 .. Len(call.todo) :
         call.todo[i].type = "put" /\ call.todo[i].key \in call.told
  /\ call.kind = "delete" =>
       \A i \in 1 .. Len(call.todo) : call.todo[i].type = "delete"

FeedInv == MapInv /\ Reported

(* The elements of a list of operations and of what is left of it. *)
LEMMA Elements ==
  ASSUME NEW s \in Seq(Request), s # <<>>
  PROVE  /\ Len(s) \in Nat /\ 1 \in 1 .. Len(s) /\ Head(s) = s[1]
         /\ \A i \in 1 .. Len(Tail(s)) : i + 1 \in 1 .. Len(s) /\ Tail(s)[i] = s[i + 1]
  OBVIOUS

(* A call reports nothing wrong at its start. *)
LEMMA LockReported ==
  ASSUME FeedInv, NEW t \in Thread, KVCall(t)
  PROVE  Reported'
  <1>1. mutex = Free /\ UNCHANGED <<data, visible>>
    BY CallLocks DEF Locks, Lock
  <1>2. visible = data
    BY <1>1 DEF FeedInv, MapInv, Uncommitted
  <1>3. CASE \E k \in Key, v \in Value, l \in LeaseName : Put(t, k, v, l)
    <2>1. PICK k \in Key, v \in Value, l \in LeaseName : Put(t, k, v, l)
      BY <1>3
    <2>2. call' = [kind |-> "put", todo |-> <<PutRequest(k, v, l)>>, detached |-> FALSE,
                   told |-> {k}]
      BY <2>1 DEF Put, Lock
    <2> QED
      BY <1>1, <1>2, <2>2 DEF Reported, PutRequest
  <1>4. CASE \E k \in Key, end \in RangeEnd : DeleteRange(t, k, end)
    <2>1. PICK k \in Key, end \in RangeEnd : DeleteRange(t, k, end)
      BY <1>4
    <2>2. call' = [kind |-> "delete", todo |-> <<DeleteRequest(k, end)>>,
                   detached |-> FALSE, told |-> {}]
      BY <2>1 DEF DeleteRange, Lock
    <2> QED
      BY <1>1, <1>2, <2>2 DEF Reported, DeleteRequest
  <1>5. CASE \E txn \in TxnRequest : Txn(t, txn)
    <2>1. call'.kind = "txn"
      BY <1>5 DEF Txn, Lock
    <2> QED
      BY <2>1 DEF Reported
  <1>6. CASE \E k \in Key : LeaseDelete(t, k)
    <2>1. call'.kind = "lease"
      BY <1>6 DEF LeaseDelete, Lock
    <2> QED
      BY <2>1 DEF Reported
  <1> QED
    BY <1>3, <1>4, <1>5, <1>6 DEF KVCall

(* The steps inside the mutex report what they change. *)
LEMMA ProceedReported ==
  ASSUME FeedInv, KVProceed
  PROVE  Reported'
  <1>1. KVTypeOK /\ Reported
    BY DEF FeedInv, MapInv, RevisionInv
  <1>2. call \in Call /\ call.todo \in Seq(Request)
    BY <1>1 DEF KVTypeOK, Call
  <1>3. ASSUME UNCHANGED <<data, visible>>, call'.kind = call.kind, call'.told = call.told,
               call'.todo = call.todo \/ (call.todo # <<>> /\ call'.todo = Tail(call.todo))
        PROVE  Reported'
    <2>1. ASSUME NEW i \in 1 .. Len(call'.todo)
          PROVE  \E j \in 1 .. Len(call.todo) : call'.todo[i] = call.todo[j]
      <3>1. CASE call'.todo = call.todo
        BY <2>1, <3>1
      <3>2. CASE call.todo # <<>> /\ call'.todo = Tail(call.todo)
        BY <1>2, <2>1, <3>2, Elements
      <3> QED
        BY <1>3, <3>1, <3>2
    <2> DEFINE P(req) == req.type = "put" /\ req.key \in call.told
               Q(req) == req.type = "delete"
    <2>2. ASSUME \A j \in 1 .. Len(call.todo) : P(call.todo[j])
          PROVE  \A i \in 1 .. Len(call'.todo) : P(call'.todo[i])
      BY <2>1, <2>2
    <2>3. ASSUME \A j \in 1 .. Len(call.todo) : Q(call.todo[j])
          PROVE  \A i \in 1 .. Len(call'.todo) : Q(call'.todo[i])
      BY <2>1, <2>3
    <2>4. ASSUME call'.kind = "put"
          PROVE  \A i \in 1 .. Len(call'.todo) : P(call'.todo[i])
      BY <1>1, <1>3, <2>2, <2>4 DEF Reported
    <2>5. ASSUME call'.kind = "delete"
          PROVE  \A i \in 1 .. Len(call'.todo) : Q(call'.todo[i])
      BY <1>1, <1>3, <2>3, <2>5 DEF Reported
    <2>6. call'.kind \in {"put", "delete"} =>
            \A k \in Key : data'[k] # visible'[k] => k \in call'.told
      BY <1>1, <1>3 DEF Reported
    <2> QED
      BY <1>3, <2>4, <2>5, <2>6 DEF Reported
  <1>4. CASE PutDetach
    BY <1>2, <1>3, <1>4 DEF PutDetach, Call
  <1>5. CASE EraseDone \/ TxnRange
    BY <1>2, <1>3, <1>5 DEF EraseDone, TxnRange, Busy, Call
  <1>6. CASE PutStore
    <2>1. /\ call.todo # <<>> /\ Head(call.todo).type = "put"
          /\ visible' = visible
          /\ call'.kind = call.kind /\ call'.told = call.told
          /\ call'.todo = Tail(call.todo)
      BY <1>2, <1>6 DEF PutStore, Busy, Call
    <2>2. \A k \in Key : k # Head(call.todo).key => data'[k] = data[k]
      BY <1>1, <1>6 DEF PutStore, KVTypeOK
    <2>3. call.kind = "put" => Head(call.todo).key \in call.told
      BY <1>1, <1>2, <2>1, Elements DEF Reported
    <2>4. call.kind # "delete"
      BY <1>1, <1>2, <2>1, Elements DEF Reported
    <2>5. call.kind = "put" =>
            \A i \in 1 .. Len(Tail(call.todo)) :
              Tail(call.todo)[i].type = "put" /\ Tail(call.todo)[i].key \in call.told
      BY <1>1, <1>2, <2>1, Elements DEF Reported
    <2> QED
      BY <1>1, <2>1, <2>2, <2>3, <2>4, <2>5 DEF Reported
  <1>7. CASE \E k \in Key : EraseKey(k)
    <2>1. PICK k \in Key : EraseKey(k)
      BY <1>7
    <2>2. /\ call.todo # <<>> /\ Head(call.todo).type = "delete"
          /\ visible' = visible
          /\ call'.kind = call.kind /\ call'.todo = call.todo
          /\ call.kind = "delete" => call'.told = call.told \cup {k}
      BY <1>2, <2>1 DEF EraseKey, Busy, Call
    <2>3. \A j \in Key : j # k => data'[j] = data[j]
      BY <1>1, <2>1 DEF EraseKey, KVTypeOK
    <2>4. call.kind # "put"
      BY <1>1, <1>2, <2>2, Elements DEF Reported
    <2> QED
      BY <1>1, <2>2, <2>3, <2>4 DEF Reported
  <1>8. CASE Unlock
    BY <1>8 DEF Unlock, Reported, Idle
  <1> QED
    BY <1>4, <1>5, <1>6, <1>7, <1>8 DEF KVProceed

(* FeedInv is inductive. *)
LEMMA FeedInit == KVInit => FeedInv
  BY MapInit DEF KVInit, FeedInv, Reported, Idle

LEMMA FeedStep == FeedInv /\ [KVNext]_kvVars => FeedInv'
  <1> SUFFICES ASSUME FeedInv, [KVNext]_kvVars
               PROVE  Reported'
    BY MapStep, NextMoves DEF FeedInv
  <1>1. CASE UNCHANGED kvVars
    BY <1>1 DEF FeedInv, Reported, kvVars
  <1> QED
    BY <1>1, LockReported, ProceedReported DEF KVNext

(* The visible store changes only at a release, and a client's change is
   reported by then. *)
LEMMA ReleaseShows ==
  ASSUME FeedInv, KVNext, NEW k \in Key, visible'[k] # visible[k]
  PROVE  Unlock /\ (call.kind \in {"put", "delete"} => k \in call.told)
  <1>1. \A t \in Thread : KVCall(t) => visible' = visible
    BY CallLocks DEF Locks, Lock
  <1>2. Unlock
    BY <1>1 DEF KVNext, KVProceed, PutDetach, PutStore, EraseKey, EraseDone, TxnRange
  <1> QED
    BY <1>2 DEF Unlock, FeedInv, Reported

(* Whatever a client's put or delete changes reaches the callbacks. *)
THEOREM ClientWritesFed == KVSpec => ClientWritesAreFed
  <1>1. KVSpec => []FeedInv
    BY FeedInit, FeedStep, PTL DEF KVSpec
  <1>2. FeedInv /\ [KVNext]_kvVars =>
          [call.kind \in {"put", "delete"} =>
             \A k \in Key : visible'[k] # visible[k] => replica'[k] = visible'[k].mod]_kvVars
    <2> SUFFICES ASSUME FeedInv, KVNext, call.kind \in {"put", "delete"},
                        NEW k \in Key, visible'[k] # visible[k]
                 PROVE  replica'[k] = visible'[k].mod
      OBVIOUS
    <2> QED
      BY ReleaseShows DEF Unlock
  <1> QED
    BY <1>1, <1>2, PTL DEF KVSpec, ClientWritesAreFed
=============================================================================
