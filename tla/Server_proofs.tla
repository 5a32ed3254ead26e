--------------------------- MODULE Server_proofs ---------------------------
(***************************************************************************)
(* Theorems of Server: what LeaseStore promises holds from main to its      *)
(* return, and a stop leaves nothing half-done.                             *)
(***************************************************************************)
EXTENDS Server, LeaseStore_proofs

-----------------------------------------------------------------------------
(* Within the life of the process the store and the leases move as in
   LeaseStore. *)

(* What the process does around the calls leaves the store and the leases
   alone, and the calls are those of LeaseStore. *)
LEMMA ServerMoves == [ServerNext]_allVars => [Next]_vars
  <1> SUFFICES ASSUME [ServerNext]_allVars
               PROVE  [Next]_vars
    OBVIOUS
  <1>1. Main \/ SignalHandler \/ Stop \/ LoopHead => UNCHANGED vars
    BY DEF Main, Build, StartExpirationCheck, StartShutdownThread, Wait, WaitReturns,
           WaitLost, Exit, SignalHandler, Stop, StopBegins, SweeperJoined, Drained, Reset, LoopHead
  <1>2. CheckExpiration => Next
    BY DEF CheckExpiration, Next
  <1>3. SweeperDeletes \/ SweeperErasesLease => Next
    BY LMAssumption DEF SweeperDeletes, SweeperErasesLease, Next
  <1>4. ASSUME NEW t \in Clients, InCall(t)
        PROVE  [Next]_vars
    <2>1. t \in Thread
      BY DEF Clients
    <2>2. Arrive(t) \/ StreamEnds(t) \/ Return(t) => UNCHANGED vars
      BY DEF Arrive, StreamEnds, Return
    <2>3. Begin(t) => Next
      BY DEF Begin, Next, LeaseRequest
    <2>4. StreamRequest(t) => [Next]_vars
      BY DEF StreamRequest, Next, LeaseRequest
    <2>5. RevokeStep(t) => Next
      BY <2>1 DEF RevokeStep, Next
    <2> QED
      BY <1>4, <2>2, <2>3, <2>4, <2>5 DEF InCall
  <1>5. UNCHANGED allVars => UNCHANGED vars
    BY DEF allVars
  <1> QED
    BY <1>1, <1>2, <1>3, <1>4, <1>5 DEF ServerNext, Next

(* From main to its return the server is the store with its lease manager. *)
THEOREM ServerRunsLeaseStore == ServerSpec => Init /\ [][Next]_vars
  <1>1. ServerInit => Init
    BY DEF ServerInit
  <1> QED
    BY <1>1, ServerMoves, PTL DEF ServerSpec

(* The components' invariants, the soundness of the key sets and the types
   with them, hold in the life of the process. *)
LEMMA ServerComponents == ServerSpec => [](ComponentInv /\ KeysetInv /\ SinceInv)
  <1>1. Init => ComponentInv /\ KeysetInv /\ SinceInv
    <2>1. Init => KeysetInv
      BY DEF Init, LMInit, KVInit, KeysetInv, KeysetSound, Idle
    <2>2. Init => SinceInv
      BY DEF Init, LMInit, KVInit, SinceInv, Revoking, Unseen, NoLease
    <2> QED
      BY <2>1, <2>2, ComponentInit
  <1>2. ComponentInv /\ KeysetInv /\ SinceInv /\ [Next]_vars =>
          (ComponentInv /\ KeysetInv /\ SinceInv)'
    BY ComponentStep, KeysetStep, SinceStep
  <1> QED
    BY <1>1, <1>2, ServerRunsLeaseStore, PTL

(* Whenever in the life of the process, every key in a lease's key set is
   stored with that lease. *)
THEOREM ServerKeysetsSound == ServerSpec => []KeysetSound
  <1>1. KeysetInv => KeysetSound
    BY DEF KeysetInv
  <1> QED
    BY <1>1, ServerComponents, PTL

(* So does the promise made of leases, the stop included: what it cuts off are
   threads, never a call or a revocation. *)
THEOREM ServerKeepsPromise == Naming # "any" => (ServerSpec => IsLeasedMap)
  <1> SUFFICES ASSUME Naming # "any"
               PROVE  ServerSpec => IsLeasedMap
    OBVIOUS
  <1> QED
    BY PromiseKept, ServerRunsLeaseStore, PTL

-----------------------------------------------------------------------------
(* The stages of the process. *)

Loop == {"head", "asleep", "checking", "ended"}

(* Where main and the shutdown thread are, what server_ is and whether the
   expiration thread runs go together. *)
Stage ==
  \/ main \in {"start", "exited"} /\ stopper = "none" /\ server = "null"
     /\ sweeper = "none" /\ running = FALSE
  \/ main = "built" /\ stopper = "none" /\ server = "serving"
     /\ sweeper = "none" /\ running = FALSE
  \/ main = "started" /\ stopper = "none" /\ server = "serving" /\ sweeper \in Loop
  \/ main \in {"wait", "waiting"} /\ stopper \in {"polling", "joining"} /\ server = "serving"
     /\ sweeper \in Loop
  \/ main \in {"wait", "waiting"} /\ stopper = "draining" /\ server = "closing"
     /\ sweeper = "ended"
  \/ main \in {"wait", "waiting", "join"} /\ stopper = "down" /\ server = "down"
     /\ sweeper = "ended"
  \/ main \in {"wait", "waiting", "join", "lost", "exited"} /\ stopper = "ended"
     /\ server = "null" /\ sweeper = "ended"

(* What is under way in the store and the lease manager belongs to a call in
   progress or to a check of the expiration thread, and a server that is not
   there any more has no calls. *)
Occupied ==
  /\ \A t \in Clients : Revoking(t) \/ mutex = t => rpc[t] = "busy"
  /\ sweep # Asleep \/ Revoking(Sweeper) => sweeper = "checking"
  /\ mutex = Sweeper => Revoking(Sweeper)
  /\ server \in {"null", "down"} => \A t \in Clients : rpc[t] = "idle"

RpcType == rpc \in [Clients -> {"idle", "arrived", "stream", "busy"}]

LifeInv == ComponentInv /\ RpcType /\ Stage /\ Occupied

(* The expiration thread is no client. *)
LEMMA ClientsApart == Sweeper \notin Clients /\ Thread = Clients \cup {Sweeper}
  BY LMAssumption DEF Clients

(* Main, the signal and the shutdown thread. *)
LEMMA StageStep ==
  ASSUME RpcType, Stage, Occupied, Main \/ SignalHandler \/ Stop
  PROVE  RpcType' /\ Stage' /\ Occupied'
  <1>1. UNCHANGED <<vars, rpc>>
    BY DEF Main, Build, StartExpirationCheck, StartShutdownThread, Wait, WaitReturns,
           WaitLost, Exit, SignalHandler, Stop, StopBegins, SweeperJoined, Drained, Reset
  <1>2. Stage'
    <2>1. CASE Main
      BY <2>1 DEF Stage, Loop, Main, Build, StartExpirationCheck, StartShutdownThread, Wait,
                  WaitReturns, WaitLost, Exit
    <2>2. CASE SignalHandler
      BY <2>2 DEF Stage, SignalHandler
    <2>3. CASE Stop
      BY <2>3 DEF Stage, Loop, Stop, StopBegins, SweeperJoined, Drained, Reset
    <2> QED
      BY <2>1, <2>2, <2>3
  <1>3. UNCHANGED <<mutex, revoking, sweep>>
    BY <1>1 DEF vars, kvVars, lmVars, revokeVars
  <1>4. /\ sweeper' = sweeper \/ sweeper = "none"
        /\ server' \in {"null", "down"} =>
             server \in {"null", "down"} \/ \A t \in Clients : rpc[t] = "idle"
    BY DEF Stage, Main, Build, StartExpirationCheck, StartShutdownThread, Wait,
           WaitReturns, WaitLost, Exit, SignalHandler, Stop, StopBegins, SweeperJoined, Drained,
           Reset
  <1> QED
    BY <1>1, <1>2, <1>3, <1>4 DEF RpcType, Occupied, Revoking

(* The expiration thread. *)
LEMMA SweeperStep ==
  ASSUME LMTypeOK, KVTypeOK, RpcType, Stage, Occupied,
         LoopHead \/ CheckExpiration \/ SweeperDeletes \/ SweeperErasesLease
  PROVE  RpcType' /\ Stage' /\ Occupied'
  <1>1. UNCHANGED <<rpc, main, stopper, server, running>>
    BY DEF LoopHead, CheckExpiration, SweeperDeletes, SweeperErasesLease, pVars
  <1>2. sweeper \in Loop /\ sweeper # "ended" /\ sweeper' \in Loop
    BY DEF LoopHead, CheckOver, CheckExpiration, SweeperDeletes, SweeperErasesLease, pVars,
           RevokeDeletes, RevokeKey, RevokeReturns, RevokeFinish, Occupied, Loop
  <1>3. Stage'
    BY <1>1, <1>2 DEF Stage, Loop
  <1>4. Occupied'
    <2>1. CASE LoopHead
      BY <2>1 DEF LoopHead, CheckOver, Occupied, Revoking, vars, kvVars, lmVars, revokeVars
    <2>2. CASE CheckExpiration
      <3>1. UNCHANGED <<mutex, rpc, server>> /\ sweeper' = "checking"
        BY <2>2 DEF CheckExpiration, Sweep, kvVars
      <3>2. \A t \in Clients : revoking'[t] = revoking[t]
        BY <2>2, ClientsApart
           DEF CheckExpiration, Sweep, SweepWake, SweepScan, SweepNext, revokeVars, LMTypeOK
      <3>3. Revoking(Sweeper) => Revoking(Sweeper)'
        BY <2>2 DEF CheckExpiration, Sweep, SweepWake, SweepScan, SweepNext, revokeVars, Revoking
      <3> QED
        BY <3>1, <3>2, <3>3 DEF Occupied, Revoking
    <2>3. CASE SweeperDeletes
      BY <2>3, ClientsApart
         DEF SweeperDeletes, RevokeDeletes, RevokeKey, LeaseDelete, Lock, pVars, Occupied,
             Revoking
    <2>4. CASE SweeperErasesLease
      BY <2>4, ClientsApart
         DEF SweeperErasesLease, RevokeReturns, RevokeFinish, kvVars, pVars, Occupied,
             Revoking, LMTypeOK
    <2> QED
      BY <2>1, <2>2, <2>3, <2>4
  <1> QED
    BY <1>1, <1>3, <1>4 DEF RpcType

(* The calls. *)
LEMMA CallStep ==
  ASSUME LMTypeOK, KVTypeOK, RpcType, Stage, Occupied, NEW t \in Clients, InCall(t)
  PROVE  RpcType' /\ Stage' /\ Occupied'
  <1>1. UNCHANGED <<main, stopper, server, running, sweeper, sweep>>
    BY DEF InCall, Arrive, Begin, StreamRequest, StreamEnds, Return, RevokeStep, SetRpc, pVars,
           vars, lmVars, KVRequest, ClientPut, ClientDelete, ClientTxn, ClientRevoke, RevokeStart,
           Grant, KeepAlive, RevokeDeletes, RevokeKey, RevokeReturns, RevokeFinish
  <1>2. t # Sweeper /\ t \in Thread /\ t # Free
    BY ClientsApart, KVAssumption
  <1>3. Stage'
    BY <1>1 DEF Stage
  <1> SUFFICES RpcType' /\ Occupied'
    BY <1>3
  <1>4. ASSUME UNCHANGED <<mutex, revoking>>, NEW what, rpc' = [rpc EXCEPT ![t] = what],
               what \in {"idle", "arrived", "stream", "busy"},
               Revoking(t) \/ mutex = t => what = "busy",
               server \in {"null", "down"} => what = "idle"
        PROVE  RpcType' /\ Occupied'
    BY <1>1, <1>4 DEF RpcType, Occupied, Revoking
  <1>5. CASE Arrive(t)
    <2>1. UNCHANGED <<mutex, revoking>> /\ ~Revoking(t) /\ mutex # t /\ server = "serving"
      BY <1>5 DEF Arrive, vars, kvVars, lmVars, revokeVars, Occupied
    <2>2. PICK what \in {"arrived", "stream"} : rpc' = [rpc EXCEPT ![t] = what]
      BY <1>5 DEF Arrive, SetRpc
    <2> QED
      BY <1>4, <2>1, <2>2
  <1>6. CASE Begin(t)
    <2>1. rpc[t] = "arrived" /\ rpc' = [rpc EXCEPT ![t] = "busy"] /\ RpcType'
      BY <1>6 DEF Begin, SetRpc, RpcType
    <2>2. server \notin {"null", "down"} /\ ~Revoking(t) /\ mutex # t
      BY <2>1 DEF Occupied
    <2>3. /\ mutex' \in {mutex, t}
          /\ \A s \in Thread : s # t => revoking'[s] = revoking[s]
      BY <1>6
         DEF Begin, KVRequest, ClientPut, ClientDelete, ClientTxn, Put, DeleteRange, Txn, Lock,
             ClientRevoke, RevokeStart, Grant, kvVars, lmVars, revokeVars, LMTypeOK
    <2> QED
      BY <1>1, <1>2, <2>1, <2>2, <2>3, ClientsApart DEF Occupied, Revoking, RpcType
  <1>7. CASE StreamRequest(t)
    <2>1. rpc[t] = "stream" /\ UNCHANGED <<mutex, revoking>> /\ ~Revoking(t) /\ mutex # t
      BY <1>7 DEF StreamRequest, KeepAlive, vars, kvVars, lmVars, revokeVars, Occupied
    <2>2. rpc' = rpc \/ rpc' = [rpc EXCEPT ![t] = "idle"]
      BY <1>7 DEF StreamRequest, SetRpc, pVars
    <2> QED
      BY <1>1, <1>4, <2>1, <2>2 DEF RpcType, Occupied, Revoking
  <1>8. CASE StreamEnds(t)
    <2>1. rpc[t] = "stream" /\ UNCHANGED <<mutex, revoking>> /\ ~Revoking(t) /\ mutex # t
      BY <1>8 DEF StreamEnds, vars, kvVars, lmVars, revokeVars, Occupied
    <2> QED
      BY <1>4, <1>8, <2>1 DEF StreamEnds, SetRpc
  <1>9. CASE Return(t)
    <2>1. UNCHANGED <<mutex, revoking>> /\ ~Revoking(t) /\ mutex # t
      BY <1>9 DEF Return, vars, kvVars, lmVars, revokeVars
    <2> QED
      BY <1>4, <1>9, <2>1 DEF Return, SetRpc
  <1>10. CASE RevokeStep(t)
    <2>1. /\ Revoking(t) /\ mutex' \in {mutex, t} /\ rpc' = rpc
          /\ \A s \in Thread : s # t => revoking'[s] = revoking[s]
      BY <1>10
         DEF RevokeStep, RevokeDeletes, RevokeKey, LeaseDelete, Lock, RevokeReturns, RevokeFinish,
             kvVars, pVars, LMTypeOK
    <2> QED
      BY <1>1, <1>2, <2>1, ClientsApart DEF Occupied, Revoking, RpcType
  <1> QED
    BY <1>5, <1>6, <1>7, <1>8, <1>9, <1>10 DEF InCall

(* Every step of the process keeps the stages and who is at work. *)
LEMMA LifeStep ==
  ASSUME LifeInv, [ServerNext]_allVars
  PROVE  LifeInv'
  <1>1. ComponentInv /\ LMTypeOK /\ KVTypeOK /\ RpcType /\ Stage /\ Occupied
    BY ComponentTypes DEF LifeInv
  <1>2. ComponentInv'
    BY <1>1, ServerMoves, ComponentStep
  <1>3. CASE InMutex /\ UNCHANGED pVars
    <2>1. mutex' \in {mutex, Free} /\ UNCHANGED <<revoking, sweep>>
      BY <1>3 DEF InMutex, DetachOld, AttachAndStore, DetachAndErase, DetachKey, AttachKey,
                  PutDetach, PutStore, EraseKey, EraseDone, TxnRange, Unlock, lmVars, revokeVars
    <2> QED
      BY <1>1, <1>2, <1>3, <2>1, ClientsApart, KVAssumption
         DEF LifeInv, RpcType, Stage, Occupied, Revoking, pVars
  <1>4. CASE (Tick /\ UNCHANGED <<kvVars, since, pVars>>) \/ UNCHANGED allVars
    <2>1. UNCHANGED <<mutex, revoking, sweep, pVars>>
      BY <1>4 DEF Tick, allVars, vars, kvVars, lmVars, revokeVars
    <2> QED
      BY <1>1, <1>2, <2>1 DEF LifeInv, RpcType, Stage, Occupied, Revoking, pVars
  <1> QED
    BY <1>1, <1>2, <1>3, <1>4, StageStep, SweeperStep, CallStep DEF LifeInv, ServerNext

(* The stages hold throughout. *)
LEMMA LifeInvariant == ServerSpec => []LifeInv
  <1>1. ServerInit => LifeInv
    <2> SUFFICES ASSUME ServerInit
                 PROVE  RpcType /\ Stage /\ Occupied
      BY ComponentInit DEF ServerInit, LifeInv
    <2>1. mutex = Free /\ sweep = Asleep /\ \A t \in Thread : ~Revoking(t)
      BY DEF ServerInit, Init, KVInit, LMInit, Revoking
    <2> QED
      BY <2>1, ClientsApart, KVAssumption DEF ServerInit, RpcType, Stage, Occupied
  <1> QED
    BY <1>1, LifeStep, PTL DEF ServerSpec

(* The variables keep their types, and what is under way belongs to a call in
   progress. *)
THEOREM ServerTypeCorrect == ServerSpec => []ServerTypeOK
  <1>1. LifeInv /\ SinceInv => ServerTypeOK
    BY ComponentTypes DEF LifeInv, TypeOK, SinceInv, ServerTypeOK, Stage, Occupied, Loop
  <1> QED
    BY <1>1, LifeInvariant, ServerComponents, PTL

(* With no calls and no sweep nobody holds the mutex or is in Revoke. *)
LEMMA NobodyAtWork ==
  ASSUME LifeInv, server = "null", sweeper \in {"none", "ended"}
  PROVE  mutex = Free /\ (\A t \in Thread : ~Revoking(t)) /\ \A t \in Clients : rpc[t] = "idle"
  BY ComponentTypes, ClientsApart DEF LifeInv, Occupied, KVTypeOK

(* When main returns no thread is in the server, whatever a call in it would have
   been doing, and nothing was cut short. *)
THEOREM NobodyIsLeftAtExit == ServerSpec => []NobodyLeftAtExit
  <1>1. LifeInv => NobodyLeftAtExit
    <2> SUFFICES ASSUME LifeInv, main = "exited"
                 PROVE  /\ stopper \in {"none", "ended"} /\ sweeper \in {"none", "ended"}
                        /\ mutex = Free /\ \A t \in Thread : ~Revoking(t)
                        /\ \A t \in Clients : rpc[t] = "idle"
      BY DEF NobodyLeftAtExit
    <2>1. stopper \in {"none", "ended"} /\ sweeper \in {"none", "ended"} /\ server = "null"
      BY DEF LifeInv, Stage
    <2> QED
      BY <2>1, NobodyAtWork
  <1> QED
    BY <1>1, LifeInvariant, PTL

(* After Stop has returned the store and the leases do not change any more. *)
THEOREM StopIsQuiet == ServerSpec => QuietAfterStop
  <1>1. LifeInv /\ [ServerNext]_allVars =>
          [stopper = "ended" => UNCHANGED <<data, revision, leaseTable>>]_allVars
    <2> SUFFICES ASSUME LifeInv, ServerNext, stopper = "ended"
                 PROVE  UNCHANGED <<data, revision, leaseTable>>
      OBVIOUS
    <2>1. server = "null" /\ sweeper = "ended"
      BY DEF LifeInv, Stage
    <2>2. mutex = Free /\ (\A t \in Thread : ~Revoking(t)) /\ \A t \in Clients : rpc[t] = "idle"
      BY <2>1, NobodyAtWork
    <2>3. UNCHANGED vars => UNCHANGED <<data, revision, leaseTable>>
      BY DEF vars, kvVars, lmVars, leaseTable
    <2>4. Main \/ SignalHandler \/ Stop \/ LoopHead => UNCHANGED vars
      BY DEF Main, Build, StartExpirationCheck, StartShutdownThread, Wait, WaitReturns,
           WaitLost, Exit, SignalHandler, Stop, StopBegins, SweeperJoined, Drained, Reset, LoopHead
    <2>5. ~CheckExpiration
      BY <2>1 DEF CheckExpiration
    <2>6. ~SweeperDeletes /\ ~SweeperErasesLease
      BY <2>2, LMAssumption
         DEF SweeperDeletes, SweeperErasesLease, RevokeDeletes, RevokeKey, RevokeReturns,
             RevokeFinish
    <2>7. ~InMutex
      BY <2>2 DEF InMutex, DetachOld, AttachAndStore, DetachAndErase, PutDetach, PutStore,
                  EraseKey, EraseDone, TxnRange, Unlock, Busy
    <2>8. ASSUME NEW t \in Clients, InCall(t)
          PROVE  FALSE
      BY <2>1, <2>2, <2>8, ClientsApart
         DEF InCall, Arrive, Begin, StreamRequest, StreamEnds, Return, RevokeStep, RevokeDeletes,
             RevokeKey, RevokeReturns, RevokeFinish
    <2>9. Tick /\ UNCHANGED <<kvVars, since, pVars>> => UNCHANGED <<data, revision, leaseTable>>
      BY DEF Tick, kvVars, leaseTable
    <2> QED
      BY <2>3, <2>4, <2>5, <2>6, <2>7, <2>8, <2>9 DEF ServerNext
  <1> QED
    BY <1>1, LifeInvariant, PTL DEF ServerSpec, QuietAfterStop
=============================================================================
