------------------------------- MODULE Server -------------------------------
(***************************************************************************)
(* The life of the process: main and its shutdown thread (src/main.cpp),    *)
(* Start, Stop and Wait of the server (src/server.cpp), and the start and   *)
(* the end of the expiration thread, around the calls of LeaseStore.        *)
(*                                                                          *)
(* gRPC runs every call in a thread of its own.  Shutdown refuses new calls *)
(* and, without a deadline, waits for those in progress.  A call of a       *)
(* streaming RPC is in progress until its client closes the stream.         *)
(***************************************************************************)
EXTENDS LeaseStore

VARIABLES
  main,       \* where main is
  stopper,    \* where the shutdown thread is, "none" before it runs
  sweeper,    \* where the expiration thread is in its loop, likewise
  running,    \* running_ of the lease manager
  signalled,  \* g_shutdown
  server,     \* server_: null, or what the gRPC server does
  rpc         \* what each client's thread in the server is doing

pVars == <<main, stopper, sweeper, running, signalled, server, rpc>>
allVars == <<vars, pVars>>

ServerInit ==
  /\ Init
  /\ main = "start" /\ stopper = "none" /\ sweeper = "none"
  /\ running = FALSE /\ signalled = FALSE
  /\ server = "null"
  /\ rpc = [t \in Clients |-> "idle"]

-----------------------------------------------------------------------------
(* main. *)

(* BuildAndStart fails when the address is taken: main returns. *)
Build ==
  /\ main = "start"
  /\ \/ server' = "serving" /\ main' = "built"
     \/ UNCHANGED server /\ main' = "exited"
  /\ UNCHANGED <<vars, stopper, sweeper, running, signalled, rpc>>

StartExpirationCheck ==
  /\ main = "built"
  /\ main' = "started"
  /\ IF running
     THEN UNCHANGED <<running, sweeper>>
     ELSE running' = TRUE /\ sweeper' = "head"
  /\ UNCHANGED <<vars, stopper, signalled, server, rpc>>

StartShutdownThread ==
  /\ main = "started"
  /\ main' = "wait"
  /\ stopper' = "polling"
  /\ UNCHANGED <<vars, sweeper, running, signalled, server, rpc>>

(* Wait: server_ is looked at, then the call waits inside it. *)
Wait ==
  /\ main = "wait"
  /\ main' = IF server = "null" THEN "join" ELSE "waiting"
  /\ UNCHANGED <<vars, stopper, sweeper, running, signalled, server, rpc>>

WaitReturns ==
  /\ main = "waiting"
  /\ server \in {"down", "null"}
  /\ main' = "join"
  /\ UNCHANGED <<vars, stopper, sweeper, running, signalled, server, rpc>>

(* When server_ was reset by then, the call uses what is no longer there: it may
   return all the same, or never, or end the process there and then. *)
WaitLost ==
  /\ main = "waiting"
  /\ server = "null"
  /\ main' = "lost"
  /\ UNCHANGED <<vars, stopper, sweeper, running, signalled, server, rpc>>

(* The shutdown thread is joined, main returns, and the server is destroyed. *)
Exit ==
  /\ main = "join"
  /\ stopper = "ended"
  /\ main' = "exited"
  /\ UNCHANGED <<vars, stopper, sweeper, running, signalled, server, rpc>>

Main ==
  Build \/ StartExpirationCheck \/ StartShutdownThread \/ Wait \/ WaitReturns \/ WaitLost \/ Exit

SignalHandler ==
  /\ main # "exited"
  /\ ~signalled
  /\ signalled' = TRUE
  /\ UNCHANGED <<vars, main, stopper, sweeper, running, server, rpc>>

-----------------------------------------------------------------------------
(* The shutdown thread: Stop. *)

(* StopExpirationCheck clears the flag, then joins the thread. *)
StopBegins ==
  /\ stopper = "polling"
  /\ signalled
  /\ IF server = "null"
     THEN stopper' = "ended" /\ UNCHANGED running
     ELSE stopper' = "joining" /\ running' = FALSE
  /\ UNCHANGED <<vars, main, sweeper, signalled, server, rpc>>

\* Mutant: the expiration thread is left to itself.
SweeperJoinedNot ==
  /\ stopper = "joining"
  /\ stopper' = "draining"
  /\ server' = "closing"
  /\ UNCHANGED <<vars, main, sweeper, running, signalled, rpc>>

(* The join, and Shutdown begins. *)
SweeperJoined ==
  /\ stopper = "joining"
  /\ sweeper = "ended"
  /\ stopper' = "draining"
  /\ server' = "closing"
  /\ UNCHANGED <<vars, main, sweeper, running, signalled, rpc>>

\* Mutant: Shutdown does not wait for the calls in progress.
DrainedAtOnce ==
  /\ stopper = "draining"
  /\ stopper' = "down"
  /\ server' = "down"
  /\ UNCHANGED <<vars, main, sweeper, running, signalled, rpc>>

(* Shutdown, and Wait after it, return. *)
Drained ==
  /\ stopper = "draining"
  /\ \A t \in Clients : rpc[t] = "idle"
  /\ stopper' = "down"
  /\ server' = "down"
  /\ UNCHANGED <<vars, main, sweeper, running, signalled, rpc>>

\* Mutant: server_ is not reset.
ResetNot ==
  /\ stopper = "down"
  /\ stopper' = "ended"
  /\ UNCHANGED <<vars, main, sweeper, running, signalled, server, rpc>>

Reset ==
  /\ stopper = "down"
  /\ stopper' = "ended"
  /\ server' = "null"
  /\ UNCHANGED <<vars, main, sweeper, running, signalled, rpc>>

Stop == StopBegins \/ SweeperJoined \/ Drained \/ Reset

-----------------------------------------------------------------------------
(* The expiration thread: the flag is looked at before the sleep, so a thread
   asleep when Stop clears it checks once more. *)

CheckOver == sweeper = "head" \/ (sweeper = "checking" /\ sweep = Asleep /\ ~Revoking(Sweeper))

\* Mutant: the loop does not look at the flag.
LoopHeadForever ==
  /\ CheckOver
  /\ sweeper' = "asleep"
  /\ UNCHANGED <<vars, main, stopper, running, signalled, server, rpc>>

LoopHead ==
  /\ CheckOver
  /\ sweeper' = IF running THEN "asleep" ELSE "ended"
  /\ UNCHANGED <<vars, main, stopper, running, signalled, server, rpc>>

CheckExpiration ==
  /\ \/ sweeper = "asleep" /\ sweep = Asleep
     \/ sweeper = "checking" /\ sweep # Asleep
  /\ Sweep
  /\ sweeper' = "checking"
  /\ UNCHANGED <<main, stopper, running, signalled, server, rpc>>

SweeperDeletes == (\E k \in Key : RevokeDeletes(Sweeper, k)) /\ UNCHANGED pVars

SweeperErasesLease == RevokeReturns(Sweeper) /\ UNCHANGED pVars

-----------------------------------------------------------------------------
(* The calls. *)

SetRpc(t, what) ==
  /\ rpc' = [rpc EXCEPT ![t] = what]
  /\ UNCHANGED <<main, stopper, sweeper, running, signalled, server>>

(* A call is accepted; it may wait for a mutex while Shutdown begins. *)
Arrive(t) ==
  /\ server = "serving"
  /\ rpc[t] = "idle"
  /\ \E what \in {"arrived", "stream"} : SetRpc(t, what)
  /\ UNCHANGED vars

Begin(t) ==
  /\ rpc[t] = "arrived"
  /\ SetRpc(t, "busy")
  /\ \/ KVRequest(t)
     \/ \E l \in LeaseId : ClientRevoke(t, l)
     \/ (\E seconds \in Ttl : Grant(seconds)) /\ UNCHANGED <<kvVars, since>>

(* A request on the stream of LeaseKeepAlive; NOT_FOUND ends the call. *)
StreamRequest(t) ==
  /\ rpc[t] = "stream"
  /\ \E l \in LeaseId :
       \/ KeepAlive(l) /\ UNCHANGED <<kvVars, since, pVars>>
       \/ l \notin leases /\ SetRpc(t, "idle") /\ UNCHANGED vars

(* The client closes its stream, or the write of a response fails. *)
StreamEnds(t) ==
  /\ rpc[t] = "stream"
  /\ SetRpc(t, "idle")
  /\ UNCHANGED vars

(* A call that arrived may also read, or fail, and leave nothing behind. *)
Return(t) ==
  /\ rpc[t] \in {"arrived", "busy"}
  /\ mutex # t
  /\ ~Revoking(t)
  /\ SetRpc(t, "idle")
  /\ UNCHANGED vars

RevokeStep(t) ==
  /\ (\E k \in Key : RevokeDeletes(t, k)) \/ RevokeReturns(t)
  /\ UNCHANGED pVars

InCall(t) ==
  Arrive(t) \/ Begin(t) \/ StreamRequest(t) \/ StreamEnds(t) \/ Return(t) \/ RevokeStep(t)

ServerNext ==
  \/ Main
  \/ SignalHandler
  \/ Stop
  \/ LoopHead \/ CheckExpiration \/ SweeperDeletes \/ SweeperErasesLease
  \/ InMutex /\ UNCHANGED pVars
  \/ \E t \in Clients : InCall(t)
  \/ Tick /\ UNCHANGED <<kvVars, since, pVars>>

(* The threads of the process run whenever they can; strong fairness is for
   waiting on the store's mutex.  Clients close the streams they opened. *)
ServerSpec ==
  /\ ServerInit /\ [][ServerNext]_allVars
  /\ WF_allVars(Main) /\ WF_allVars(Stop)
  /\ WF_allVars(LoopHead) /\ WF_allVars(CheckExpiration)
  /\ SF_allVars(SweeperDeletes) /\ WF_allVars(SweeperErasesLease)
  /\ WF_allVars(InMutex /\ UNCHANGED pVars)
  /\ \A t \in Clients :
       SF_allVars(RevokeStep(t)) /\ WF_allVars(Return(t)) /\ WF_allVars(StreamEnds(t))

-----------------------------------------------------------------------------
(* Properties. *)

(* The types of the store and the lease manager; the calls in progress are
   those of arrived requests, and server_ is what main and Stop made of it. *)
ServerTypeOK ==
  /\ TypeOK
  /\ main \in {"start", "built", "started", "wait", "waiting", "join", "lost", "exited"}
  /\ stopper \in {"none", "polling", "joining", "draining", "down", "ended"}
  /\ sweeper \in {"none", "head", "asleep", "checking", "ended"}
  /\ sweep # Asleep \/ Revoking(Sweeper) => sweeper = "checking"
  /\ \A t \in Clients : Revoking(t) \/ mutex = t => rpc[t] = "busy"
  /\ stopper = "ended" => server = "null"
  /\ main \in {"built", "started"} => server = "serving"

(* Once Stop has returned, the store and the leases stay as they are: neither
   a call nor a sweep is left half-way to go on. *)
QuietAfterStop ==
  [][stopper = "ended" => UNCHANGED <<data, revision, leaseTable>>]_allVars

(* When main returns and the server is destroyed, no thread is in it, whether
   it waits for a request, for a mutex or to be scheduled, and no revocation or
   call was cut short. *)
NobodyLeftAtExit ==
  main = "exited" =>
    /\ stopper \in {"none", "ended"}
    /\ sweeper \in {"none", "ended"}
    /\ \A t \in Clients : rpc[t] = "idle"
    /\ mutex = Free
    /\ \A t \in Thread : ~Revoking(t)

(* After a signal the process ends, if clients close their streams: the
   expiration thread, which may wait for the store's mutex, is joined, and the
   calls in progress return.  The one exception is a main that is lost in the
   Wait of a server that Stop destroyed (WaitSafe). *)
StopEnds == signalled ~> main \in {"exited", "lost"}

(* While no signal came, a lease that is due goes or is renewed, although its
   deletions compete with the calls for the store's mutex. *)
DueWhileServing ==
  \A l \in LeaseId : (l \in leases /\ Due(l)) ~> (l \notin leases \/ ~Due(l) \/ signalled)

-----------------------------------------------------------------------------
(* What a comment says and this program does not do. *)

(* "Now safe to call Stop() - wait() should be interrupted or we're in safe
   context" (main.cpp:50): Stop does not destroy the gRPC server while main is
   in its Wait. *)
WaitSafe == main = "waiting" => server # "null"
=============================================================================
