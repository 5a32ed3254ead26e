----------------------------- MODULE KVService -----------------------------
(***************************************************************************)
(* The handlers of the unary RPCs around the store (src/services): what a   *)
(* reply says of the store, and which revision its header names.            *)
(*                                                                          *)
(* A handler calls the store, which takes and releases its mutex, and then  *)
(* fills the header from revision_ without the mutex; only a transaction    *)
(* has its header filled inside.  Between the call and the header, and      *)
(* between the header and the return, other threads go on.  The handlers    *)
(* of Compact and of the lease service read the revision and nothing else   *)
(* of the store, but for the deletions of a revocation.                     *)
(***************************************************************************)
EXTENDS KVStore

CONSTANT RangeRequest   \* the ranges clients ask for; a limit of 0 is none

ASSUME KSAssumption ==
  RangeRequest \subseteq [key : Key, end : RangeEnd, limit : Nat]

VARIABLES
  reply,     \* the reply that the handler in each thread prepares, or NoReply
  answered,  \* history: the greatest revision in the header of a reply returned
  log        \* history: log[r][k] is the mod_revision of key k at revision r

svVars == <<kvVars, reply, answered, log>>

All(k, end) == [key |-> k, end |-> end, limit |-> 0]

NoRange == All(NoEnd, NoEnd)

(* kvs: the modification revisions of the entries in the reply, by key: those
   in a range, those a put or delete replaced.  index: raftindex of Status.
   floor: a history, what was answered when the handler took the mutex.
   at: a history, the revision of the call. *)
NoReply ==
  [rpc |-> "none", range |-> NoRange, kvs |-> <<>>, header |-> 0, index |-> 0,
   floor |-> 0, at |-> 0]

Mods(store) == [k \in Key |-> store[k].mod]

SVInit ==
  /\ KVInit
  /\ reply = [t \in Thread |-> NoReply]
  /\ answered = 0
  /\ log = <<Mods(data)>>

-----------------------------------------------------------------------------
(* The handlers: the call of the store. *)

Serve(t, rpc, range, kvs) ==
  /\ reply[t] = NoReply
  /\ reply' = [reply EXCEPT ![t] = [NoReply EXCEPT !.rpc = rpc, !.range = range,
                                                  !.kvs = kvs, !.floor = answered]]
  /\ UNCHANGED <<answered, log>>

(* Put, DeleteRange, Txn, and LeaseRevoke for a lease with one key. *)
ServeCall(t) ==
  /\ KVCall(t)
  /\ LET req == Head(call'.todo)
     IN  Serve(t, call'.kind,
               IF call'.kind \in {"put", "delete"} THEN All(req.key, req.end) ELSE NoRange,
               <<>>)

ModsOf(store, K) == [k \in K |-> store[k].mod]

\* Mutant: Range does not take the mutex.
ServeRangeUnlocked(t) ==
  \E r \in RangeRequest :
    /\ Serve(t, "range", r, ModsOf(data, RangeReply(r.key, r.end, r.limit)))
    /\ UNCHANGED kvVars

ServeRange(t) ==
  \E r \in RangeRequest :
    /\ mutex = Free
    /\ Serve(t, "range", r, ModsOf(data, RangeReply(r.key, r.end, r.limit)))
    /\ UNCHANGED kvVars

(* Compact only answers. *)
ServeCompact(t) == Serve(t, "revision", NoRange, <<>>) /\ UNCHANGED kvVars

(* So do, to the store, LeaseGrant, LeaseTimeToLive and LeaseKeepAlive. *)
ServeLease(t) == Serve(t, "revision", NoRange, <<>>) /\ UNCHANGED kvVars

ServeStatus(t) == Serve(t, "status", NoRange, <<>>) /\ UNCHANGED kvVars

-----------------------------------------------------------------------------
(* Inside the store, and the rest of the handlers. *)

InStore ==
  /\ PutDetach \/ PutStore \/ (\E k \in Key : EraseKey(k)) \/ EraseDone \/ TxnRange
  /\ UNCHANGED <<reply, answered, log>>

(* Txn fills its header while it still has the mutex; put and delete do not. *)
TxnHeader == IF call.kind = "txn" THEN revision ELSE 0

\* Mutant: the header of a transaction names the revision before it.
ReturnFromStoreStale ==
  /\ Unlock
  /\ LET replaced == {k \in call.told : Present(visible[k])}
     IN  reply' = [reply EXCEPT ![mutex].at = revision,
                                ![mutex].kvs = ModsOf(visible, replaced),
                                ![mutex].header = IF call.kind = "txn" THEN revision - 1 ELSE 0]
  /\ log' = Append(log, Mods(data))
  /\ UNCHANGED answered

(* A put hands over the entry it replaced, a delete the entries it erased, as
   they were when it took the mutex. *)
ReturnFromStore ==
  /\ Unlock
  /\ LET replaced == {k \in call.told : Present(visible[k])}
     IN  reply' = [reply EXCEPT ![mutex].at = revision,
                                ![mutex].kvs = ModsOf(visible, replaced),
                                ![mutex].header = TxnHeader]
  /\ log' = Append(log, Mods(data))
  /\ UNCHANGED answered

\* Mutant: the header is filled while the store's call is under way.
FillResponseHeaderEarly(t) ==
  /\ reply[t].rpc # "none"
  /\ reply[t].header = 0
  /\ reply' = [reply EXCEPT ![t].header = revision]
  /\ UNCHANGED <<kvVars, answered, log>>

FillResponseHeader(t) ==
  /\ reply[t].rpc # "none"
  /\ mutex # t
  /\ reply[t].header = 0
  /\ reply' = [reply EXCEPT ![t].header = revision]
  /\ UNCHANGED <<kvVars, answered, log>>

(* Status reads the revision once more. *)
FillIndex(t) ==
  /\ reply[t].rpc = "status"
  /\ reply[t].header # 0
  /\ reply[t].index = 0
  /\ reply' = [reply EXCEPT ![t].index = revision]
  /\ UNCHANGED <<kvVars, answered, log>>

Complete(t) == reply[t].header # 0 /\ (reply[t].rpc = "status" => reply[t].index # 0)

Return(t) ==
  /\ Complete(t)
  /\ answered' = IF reply[t].header > answered THEN reply[t].header ELSE answered
  /\ reply' = [reply EXCEPT ![t] = NoReply]
  /\ UNCHANGED <<kvVars, log>>

Handler(t) ==
  \/ ServeCall(t) \/ ServeRange(t) \/ ServeCompact(t) \/ ServeLease(t) \/ ServeStatus(t)
  \/ FillResponseHeader(t) \/ FillIndex(t) \/ Return(t)

SVNext == InStore \/ ReturnFromStore \/ \E t \in Thread : Handler(t)

SVSpec == SVInit /\ [][SVNext]_svVars

-----------------------------------------------------------------------------
(* Properties. *)

(* The store's types; a handler's header is filled once its call is over, and
   the log has an entry for every revision that was committed. *)
SVTypeOK ==
  /\ KVTypeOK
  /\ answered \in 0 .. revision
  /\ Len(log) = IF mutex = Free THEN revision ELSE revision - 1
  /\ mutex # Free => reply[mutex].rpc # "none" /\ reply[mutex].header = 0
  /\ \A t \in Thread :
       /\ reply[t].header \in 0 .. revision
       /\ reply[t].rpc = "none" => reply[t] = NoReply

(* Revisions in headers tell clients an order that is true although handlers
   read them without the mutex: a header is no earlier than the revision of its
   own call and than any header that was answered before the call, and a write's
   header is later than those. *)
RepliesInOrder ==
  \A t \in Thread : reply[t].header # 0 =>
    /\ reply[t].header >= reply[t].at
    /\ reply[t].header >= reply[t].floor
    /\ reply[t].rpc \in {"put", "delete", "txn", "lease"} => reply[t].header > reply[t].floor
    /\ reply[t].index # 0 => reply[t].index >= reply[t].header

(* What a request for a range finds at revision r. *)
RangeAt(r, t) ==
  LET stored == {k \in Key : log[r][k] # 0}
      range == reply[t].range
  IN  [k \in RangeKeys(stored, range.key, range.end, range.limit) |-> log[r][k]]

(* The entries in a reply are those of the store at one revision: for a range
   one between the last revision answered when it began, which may come from an
   uncommitted call, and its header; for a put and a delete the one before its
   own. *)
RepliesDescribeStore ==
  \A t \in Thread : reply[t].header # 0 =>
    /\ reply[t].rpc = "range" =>
         \E r \in DOMAIN log \cap (reply[t].floor .. reply[t].header) :
           reply[t].kvs = RangeAt(r, t)
    /\ reply[t].rpc \in {"put", "delete"} => reply[t].kvs = RangeAt(reply[t].at - 1, t)

(* A client that pages asks for a range and, as long as it gets a full page,
   again from behind the last key it got.  It misses no key that is stored all
   the while, whatever is written between its requests and whatever the order
   data_ iterates in: what a page leaves out comes after all it holds, and the
   page is full. *)
PagingCoversRange ==
  \A req \in RangeRequest, start \in Key :
    req.limit # 0 =>
      LET page == RangeReply(start, req.end, req.limit)
      IN  \A k \in KeysInRange(StoredKeys, start, req.end) \ page :
            Cardinality(page) = req.limit /\ \A j \in page : j < k
=============================================================================
