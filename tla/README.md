# etcdlite in TLA+

A specification of etcdlite, an in-memory server for the etcd v3 API (key-value
store, leases, watches) in about 1400 lines of C++. The modules are read off the
source; the documentation of the repository and the comments of its protocol
files are what the source is compared with.

## The system

| Part | State | Operations | Talks to |
|---|---|---|---|
| `KVStore` (`src/kv`) | `data_`, `revision_`, `mutex_` | Put, Get, Range, Delete, Txn | lease manager and watch callbacks, inside its mutex |
| `LeaseManager` (`src/lease`) | `leases_` with TTL, deadline and key set, `nextLeaseId_`, `mutex_`, the expiration thread | Grant, Revoke, KeepAlive, TimeToLive, AttachKey, DetachKey, CheckExpiration | the store's Delete, outside its mutex |
| `WatchManager` (`src/watch`) | `watchers_`, `nextWatchId_`, `mutex_` | RegisterWatcher, CancelWatcher, NotifyPut, NotifyDelete | client streams, the store's Range |
| gRPC services (`src/services`) | the reply under construction; the Watch and keep-alive RPCs are loops | one handler per RPC | all of the above |
| `EtcdLiteServer` (`src/server.cpp`) | the components and the gRPC server | wiring, Start, Stop, Wait | the components, gRPC |
| `main` | signal flag, shutdown thread | signal handler | the server |

Every RPC runs in a thread of its own, the expiration thread wakes once a
second. Nothing is persisted and nothing is replicated. What is hard:

- *locks that do not nest into one.* Inside its mutex the store calls the lease
  manager, which locks for each call; Revoke copies the key set under a lock,
  deletes the keys through the store with none, and erases the lease under a
  lock again. A key can change its lease, and a lease its keys, in between.
- *the expiration thread* reads the clock, scans, then revokes one by one,
  while clients renew and revoke.
- *watchers* are created in steps without the store's mutex, notified with two
  mutexes held while a write waits for a slow client, and never removed when
  their stream ends.
- *transactions* go through entries that single calls never produce.
- *replies* name a revision that is read after the store's mutex was released,
  or, for a new watcher, while a call holds it.
- *the end*: Stop runs in a thread of its own beside `main`'s Wait, joins the
  expiration thread, which may be in the middle of a revocation, and only then
  refuses and waits for calls.

What makes each part correct: the store is a versioned map whose calls are
indivisible; a lease's key set is exactly the keys stored with it, ids do not
come back, only due leases expire and all of them do; a watcher gets its events
in order, once, and all of them; a reply tells an order that is true and entries
of one revision; a stop ends, and leaves nothing half-done.

## Modules

| Module | Models |
|---|---|
| `Common`, `KeyRange` | keys, ranges, `KeyInRange`, `RangeInternal` |
| `KVData` | entries, operations, comparisons and transactions |
| `VersionedMap` | abstract specification: the revisions and versions of the entries |
| `SerialStore` | abstract specification: each call is executed alone and at once |
| `LeasedMap` | abstract specification: that, and what a grant and a revocation promise about the keys |
| `KVStore` | class `KVStore` |
| `LeaseManager` | class `LeaseManager` and its thread |
| `LeaseService` | the Lease RPCs over it: the TTLs in their replies |
| `LeaseStore` | the two together, as `server.cpp` wires them |
| `WatchManager` | class `WatchManager` and the loops of the Watch RPC |
| `WatchStore` | it and the store together |
| `KVService` | the handlers around the store: what replies contain, and their headers |
| `Server` | Start, Stop, Wait, `main`, the shutdown thread and the signal handler around `LeaseStore`; the keep-alive stream as a loop |
| `MCKVStore`, `MCLeaseStore`, `MCWatchStore` | instances for TLC (`MCKVStore` is one of `KVService`) |
| `KVStore_proofs`, `LeaseManager_proofs`, `LeaseService_proofs`, `LeaseStore_proofs`, `KVService_proofs`, `Server_proofs`, `WatchStore_proofs`, `WatchFeed_proofs` | theorems |

**Grain.** A step is what one thread does between two points where another can
come in. For the store: taking the mutex (with `++revision_`, and for a
transaction the comparisons and the choice of branch), each visit to the lease
manager with the access to `data_` next to it, and the callbacks with the
release. Accesses to `data_` and to local variables in between need no step of
their own: the mutex hides them. `call` is the frame of the call inside the
mutex: what it has still to do and what it will tell the callbacks. For the
lease manager: one step per critical section; Revoke is `RevokeStart`,
`RevokeKey` for each key and `RevokeFinish`, a sweep is `SweepWake` (the clock),
`SweepScan` and `SweepNext` for each lease. For the watch manager: one step per
critical section, and one per write to a stream, since a write may wait. For a
handler: the call of the store, the header, for Status the second look at the
revision, the return. For the process: one step per look at a flag, join, wait
or change of `server_`; `rpc` is what the thread of each client's call does.

**Data.** The store only compares keys, so keys are numbers. Values are numbers,
0 is the empty string. An absent key is the entry `Absent` of a total function,
and an erased lease has no TTL, deadline or keys. A range reply is the set of
its keys. The clock counts units of `1/Second` seconds; `ClockRange` is half the
range of its signed type, and a deadline beyond it wraps around. A response on a
watch stream keeps the watcher's id, the header's revision, and the event's key
and modification revision. The `active` flag of a watcher is left out: inside
the manager's mutex it is set for every watcher in the map. A start revision is
kept with the watcher as the number asked for, 0 for none; the code only looks
whether it is greater than 0, to send the history, but properties depend on the
number. `filters`, `progress_notify`, `fragment` and a requested
`watch_id` are not looked at by the code either. The entries in a reply are kept
as modification revisions by key. In `Server` a stream, whichever RPC it is of,
occupies its thread until the client closes it; keep-alive requests are what it
does meanwhile.

**History variables.** `visible` is `data_` when the mutex was last released;
`replica` the modification revisions a consumer of the callbacks would have;
`since` the first revision a put can have that Revoke did not see; `joined` the
revision when a watcher was registered; `log` the modification revisions at
every revision committed, `answered` the greatest revision in a header so far,
and `floor` and `at` of a reply what was answered when its call began and the
revision the call has; `promised` the latest time up to which a reply said that a
lease lives. No action reads them, but for `Callback` and
`ReturnFromStore`, where `visible` stands for the copies a Delete made of what
it erased.

**Composition.** Components are modules that `LeaseStore` and `WatchStore`
EXTEND: an action of the composition is the conjunction of a step of each. The
lease manager needs no revisions and the watch manager no leases, so the two
compositions are apart; the store alone takes any of the calls that come from
either (`Kind`). `KVService` EXTENDS the store, and `Server` EXTENDS
`LeaseStore`: both add variables of their own and let the store, or the store
and the leases, move only as their specifications do, which `ServiceRunsStore`,
`ServerRunsLeaseStore` and, for `WatchStore`, `WatchRunsStore` prove;
`LeaseService` does so with the lease manager (`ServiceRunsManager`).

## Runs

| Run | Instance | Shows |
|---|---|---|
| `kv_service` | 3 keys, 3 calls of every kind, 2 handlers; transactions with compare-and-swap, create-if-absent and comparisons of every field | refinement of `VersionedMap` and of `SerialStore`, MVCC order, pages, events of single writes; the order and the contents of replies |
| `lease_manager` | 2 leases of 0, 1 or 9 s (the last past the clock's range), half-second clock to 2 s, 1 key, a client and the expiration thread | the expiration thread takes no lease within the time a reply promised; ids once only, sweeps hit due leases only, due leases go |
| `lease_store` | 2 keys, 2 leases, 3 calls of every kind, a client and the expiration thread | refinement of `LeasedMap`; key sets sound and complete, revocations delete |
| `server` | 1 key, 1 lease, 2 calls, a client and the expiration thread, a signal at any time | a stop ends and leaves nothing half-done; until then due leases go though the store's mutex is contended |
| `watch_store` | 2 keys, 3 ranges, 2 streams, 1 watcher, 2 calls | order and completeness of what a watcher gets, by itself and with its history; no event tells what the watcher knew |
| `watch_served` | 1 key, 2 streams, 2 puts, clients that read | every watch request is served, every call ends |

The bounds. Three keys are needed for a range that excludes a key on each side,
and for a first page of two that leaves one. Two handlers, which are
interchangeable, are needed for a call to come between another's mutex and its
header; a third would only repeat either. For the store itself one is enough:
while a call has the mutex no other can do anything. In the compositions the
threads that matter are those in a Revoke or in a Watch loop. Three calls create
a key, change it and delete it, or put, rebind and race a revocation; two leases
are a rebinding's old and new one. The lease manager's clock passes every
deadline it can set, but for that of nine seconds, which lies beyond
`ClockRange` and wraps to the past; `MaxNow`, four half-seconds, leaves room for
a grant of one second, a renewal and the deadline after it. For a watcher, two
calls give it a history and a live event, or a put and the deletion; the second
stream cancels the first one's watcher, or shares nothing with it. The watched
ranges (`WatchRange`) are one key, both, and one that ends before the second;
start revisions are none, 2, the first that a write can have, and 3, which the
first write comes before. `Window = 1` makes every second write wait. In `server` one client has a call or a stream open when the signal
comes, beside a sweep at any of its steps; the signal may also come before the
shutdown thread or the server's Wait has begun.

The counters (`MaxRevision`, `MaxLease`, `MaxNow`, `MaxWatch`) bound what
clients ask for, never what the server does: a call or a sweep that began runs
to its end. That is why deadlock is not checked where clients may have nothing
left to ask for; in `lease_manager` it is.

The remaining runs find what a protocol file or a comment says and the code,
by an interleaving or over several calls, does not do; the entry under
`findings` in `PROJECT.json` quotes the line. `renewal`: an acknowledged renewal
does not save the lease. `orphan_race`: a key stored with a lease that is gone, for ever.
`rebound`: a key deleted with a lease it no longer has. `watch_missed`: a put
between the created response and the registration is lost. `watch_ended`: a
watcher outlives its stream and is written to. `wait_race`: Stop destroys the
gRPC server while `main` is inside its Wait.

Other differences, each a matter of one call that a test can show, are in the
model as the code has them. No property says that they are right, nor that they
are wrong: where one would have to take sides it is guarded, or leaves both
open. Transactions and
lease expiries cause no events (`kv_store.cpp:325`, `server.cpp:44`;
`rpc.proto:44`, `:82`); the revision in the header of a Put, Range or
DeleteRange may be that of a later call (`kv_service_impl.cpp:50`,
`rpc.proto:395`); the revision a Range asks for is not looked at
(`rpc.proto:429`); Shutdown has no deadline, so a client that keeps a stream
open keeps the process from ending, and one that does not read what it watches
can hold the store's mutex, for which the expiration thread that Stop joins may
wait (`server.cpp:103-106`, `README.md:114`); comparisons with
create_revision, mod_revision and lease read the version operand
(`kv_store.cpp:257`, `rpc.proto:576`); a missing key fails every comparison, a
version of zero included (`kv_store.cpp:215`, `kv.proto:19`), and `SerialStore`
allows either branch for both; a range reply cut
short says that there is no more and counts what it returns
(`kv_service_impl.cpp:76`, `rpc.proto:476`); a transaction may put one key twice
(`rpc.proto:46`); a put may name a lease that does not exist
(`kv_store.cpp:58`); a lease in its last second reports -1
(`lease_manager.cpp:92`, `rpc.proto:845`), while `PromisedTimeKept` asks only that
a TTL is not too great; a huge TTL overflows the clock
(`lease_manager.cpp:40`); a delete event has the old modification revision
(`watch_manager.cpp:164`, `kv.proto:43`), while `EventsAreNews` holds of either
revision; a watch's filters, chosen id and start
revision are not looked at (`rpc.proto:702-730`).

**Fairness.** Weak fairness for a thread that is inside a mutex or needs none:
the scheduler runs it. Strong fairness where a thread waits for a mutex that
others take again and again (the expiration thread's deletions, the steps of a
Watch loop, the callbacks): `std::mutex` promises less, and the liveness results
hold as far as no thread is passed over for ever. In `watch_served` clients read
what they were sent; a client that does not stops every writer of the store.
In `server` the threads of the process run, a revocation is not passed over for
ever at the store's mutex, and clients close the streams they opened: a stop
waits for them, so without that it need not end (`StopEnds`). A `main` that calls
`Wait` on a server that Stop has destroyed may return, never return or go down;
the model has the first (`WaitReturns`) and, as one state, the others
(`WaitLost`). `StopEnds` excepts the latter, so what it shows is that nothing
else keeps the process. Nothing is assumed
of clients otherwise, and nothing of the signal.

## Proofs

TLAPS proves, for any keys, threads, leases and transactions:

- `KVStore_proofs`: the types; `RevisionOrder`; that the store implements
  `VersionedMap` (`IsVersionedMap`) and `SerialStore` (`IsSerial`);
  `ClientWritesAreFed`.
- `LeaseManager_proofs`: the types; `ErasedStaysErased`;
  `SweepOnlyDue` when clients renew in time (`LateKeepAlive = FALSE`; with late renewals it is
  false, run `renewal`).
- `LeaseService_proofs`: the Lease RPCs run the lease manager
  (`ServiceRunsManager`); `PromisedTimeKept`, when clients renew in time.
- `KVService_proofs`: the handlers run the store (`ServiceRunsStore`), so what
  is proved of the store holds behind them; the types; `RepliesInOrder`;
  `RepliesDescribeStore`; `PagingCoversRange`, and from the same lemma
  `PagingFindsKey`: a client that asks for page after page gets every key that
  is stored all the while.
- `WatchStore_proofs`: the store with its watchers runs the store
  (`WatchRunsStore`); the types; `FeedInOrder`; `RegisteredAreTold`.
- `WatchFeed_proofs`: `EventsAreNews`, with transactions and leases;
  `HistoryThenEvents`, where clients use neither (`Kind` has only "put" and
  "delete"; with the others some changes have no event, and it is false). It
  speaks of watchers that asked for a start revision, and of entries no older
  than it; and of watchers whose registration no call began to race: with one
  between the created response and the map a change is lost (`watch_missed`).
- `Server_proofs`: from `main` to its return the store and the leases move as
  `LeaseStore` lets them (`ServerRunsLeaseStore`), so that its invariants hold;
  the types; `NobodyLeftAtExit`; `QuietAfterStop`.
  With it goes `IsLeasedMap`, a stop at any time included.
- `LeaseStore_proofs`: the types; `KeysetSound`; `KeysetComplete` if clients
  name only leases they were granted (`Naming # "any"`); `RevokeDeletesKeys`;
  that store and leases implement `LeasedMap` (`IsLeasedMap`), for the same
  clients; and the results of the components, carried over.

The assumptions are those named in the modules (`KeyAssumption`,
`RequestAssumption`, `KVAssumption`, `KSAssumption`, `LMAssumption`, `LSAssumption`, `WMAssumption`,
`WSAssumption`), and the three hypotheses above.

*The refinement.* `visible` changes at a release only, and `rev` counts the
revision once the mutex is free. `MapInv` says that while a call is in progress
each entry is either the visible one or one that the call may commit at this
revision (`Uncommitted`): absent, or stamped with it. A release then is one
`Commit` and every other step stutters. The strengthening is needed because a
transaction may erase and create one key, so that the entry in `data` alone does
not tell what it was.

*One call at a time.* `SerialStore` says more: which entries a call leaves, all
at once, as a function of the map it found and of its operations, those of a
transaction being a branch that its comparisons allow on that map. Of these the
protocol settles which a client of any etcd may count on: the version of a key,
zero where it is missing, or its value, compared with the operand for it
(`Settled`). The success operations need all those to hold; the failure
operations need one that does not hold or that is open here: of another field,
or of a missing key, with which every comparison fails in this server.
`ComparisonsAgree` shows that the branch the code takes is one of them.
`SerialStore` says what a call leaves without going through the operations: a
key ends as the last delete that covers it and the puts after it say
(`Outcome`). The code goes through them, and visits
the lease manager in between. `Underway(done)` says that some operations `done`
and those left (`call.todo`) make one of the calls that could be made on the
visible map, and that `data` is the outcome of `done` on it; one more operation
then gives the outcome of one more (`OutcomeOfOneMore`), by cases of whether it
deletes the key, puts it or passes it by. A release has nothing left, so what
becomes visible is the outcome of the whole call.

*Pages.* What `RangeInternal` returns are the matches with fewer than `limit`
matches below them. `PageIsPrefix`: if a match is left out, let m be the least
of those; the page then is all that is below m, there are at least `limit` of
these, and, counting below the greatest of them, no more. So what is left out
comes after a full page. A client that goes on from behind the last key of each
full page has asked, for any key k, from some greatest start that is not beyond
k; if that page left k out it would be full and end before k, and there would be
a greater such start.

*Timely renewal.* The sweep's time lies in the past, and a lease on the due list
is either gone or has a deadline that has passed: a renewal in time would have
to come before the deadline, which is over. `SweepSound` says so from the scan
to the erasure.

*Promised time.* The TTL in a reply ends no later than the lease's deadline: a
grant and a renewal set the deadline to just that, and what LeaseTimeToLive
reports is rounded down. Nor does a renewal move a deadline back: the deadline
is no later than a TTL from now (`InTime`). So `promised` stays at or below it,
and when the sweep has the lease, the deadline is over (`SweepSound`).

*Key sets.* `KeysetSound` holds at every step, not just between calls: a put
leaves the old lease before it writes. The proof goes step by step through the
pairs of a store's step and a lease manager's. The inductive invariant adds that
a put which has left the old lease has its key in no key set (`KeysetInv`), and
that every lease there, due or under revocation was handed out before
(`IdsKnown`), so that a new lease begins without keys. Completeness adds `NamedInv`: no entry
and no pending put names a lease not yet granted; without it a put could name
the id that the next Grant hands out, and the new lease would know nothing of
the key.

*Revocations.* `DeletedInv` follows each key that a lease under revocation still
has: it waits in the snapshot, is being deleted, or was put at or after the
revision `since`.

*The promise of leases.* `LeasedMap` has no locks and no key sets: a call is one
step, a grant finds no key with the new lease, a revocation knows from its
beginning which keys it will delete, and ends when every other key with its
lease was put since. The step of a call is the moment it takes the mutex, before
it has done anything: the abstract store, `Upcoming`, is the outcome on `data` of
what is left of the call, and steps inside the mutex leave it alone, since the
operation they do is the first of those (`OutcomeOfFirst`); a release stutters.
No later moment would do, because a revocation may copy the key set of a lease
between two steps of a put. If it copies before the put has attached its key,
the key has the lease in `Upcoming` and is not among those to delete; it is then
at a revision that is not below `since`. `EndingInv` says that there is no third
case, for as long as the revocation lasts, and the key sets being complete
(`KeysetComplete`) makes it so at the copy. That what it deletes had the lease, or
lost it to the call under way only, is their being sound (`RevokeFinds`). A new
lease has no keys because of `NamedInv` (`GrantFinds`): with ids made up by
clients the refinement fails.

*Replies.* `Ordered` puts what a handler has seen in order: what was answered
when it began (`floor`), the revision of its call (`at`), the header, the
store's revision; and the handler of the call in the mutex is below the revision
that call will have. For the contents, `EntriesInv` says that the last entry of
`log` is the visible map (`LogCurrent`), that a put or a delete under way has
collected what it replaces of it (`Collecting`), and that each reply holds the
entries of one index of `log` (`Described`). A range read between an increment
and its release is one of the revision before, which is why the log stops short
of the store's revision while the mutex is held.

*Feeds.* `OrderInv` of `WatchStore_proofs` says what each stream holds of the
watcher that its loop is creating (`LoopFeeds`): nothing, then the created
response, then events for the keys that are no longer among the entries left,
which are older than any call under way. A watcher in the map was created and
not canceled (`WatchersFed`); an event at the store's revision while a call is
under way is for a key whose callback has begun (`EventsPast`); a notification
is of that revision and the watchers in its `todo` have not got it
(`NoticeNew`). So whoever writes, loop, cancel or callback, the response may
follow those before it. Registration is safe at any point because it needs the
manager's mutex: between two callbacks of one call the next is for another key.
For `RegisteredAreTold`, `Owed` adds that for each key notified a watcher that
was there before the call has been told or is in `todo`, and `Reported` (of the
store) that all a put or delete changed is notified before the release.

*News.* A delete copies an entry before it erases it and sends the
copy, with its old modification revision, when it has erased them all. `SentTells` says of
every event that was written to a stream that it is of the call under way, and
tells what that call did to the key (`ToldShown`), or is no later than the
visible entry of the key (`Past`), which is itself older than the call under way
(`VisibleOlder`). So a notification, which carries the visible entry or one of
the call's own revision (`NoticeTells`), is of nothing earlier than what the
watcher has. The history is of visible entries (`EntriesPast`).

*History and events.* `WholeFeeds` says more than `HistoryThenEvents`, in that it
speaks of every state: the last events of a watcher tell of the visible entries
and, for the keys whose callback has written to it, of the entry that the call
under way leaves (`Shown`). A notification is later than all the watcher had
(`NoticeNew`), so it becomes the latest event; a release shows the entries that
were notified, and those that were not have not changed (`Reported`). A watcher
enters the map with what its loop sent. `HistoryFeeds` follows that from the
moment the history is taken: while the revision is still the one the loop read
(`CreatorKnows`), no call has begun, the mutex is free, and for each key watched
either its event was sent or its entry is among those left.

*The stop.* `Stage` ties the places of `main`, the shutdown thread, the
expiration thread and `server_` together, and `Occupied` the calls under way to
`rpc` and to a check of the expiration thread; when the thread is joined and the
calls are drained, nobody is inside a mutex or a revocation.

A proof over steps splits on the disjuncts of the next-state relation. The lemmas
`ComponentsMove`, `OutsideMoves` and `RevokeMoves` (leases), `StoreSteps` and
`WatchersOnly` (watches) state once what a step of the composition is to each
component.

Model-checked only: liveness (`MutexReleased`, `DueLeaseGoes`, `RequestServed`,
`DueWhileServing`, `StopEnds`), which the prover does not reach.

## Not modelled

- The reply to a Txn but for its header: whether it succeeded, what its ranges
  found and its puts and deletes replaced (`kv_store.cpp:290-376`). The keys in
  the reply to LeaseTimeToLive.
- Overlapping writes to one stream (`watch_manager.cpp:177`): each watcher has
  its own mutex for the stream they share, but gRPC wants one write at a time.
  A write is one step here, so what an overlap does to the bytes of two
  responses is not seen.
- `Status` objects, the protocol files, the texts of errors; `prev_kv`,
  `count_only` and `keys_only`, which select parts of a reply.
- Negative lease ids, which the code treats like 0.
- What the process does after a use of a stream or of `server_` that is gone, but
  for `main` to return or not: the runs `watch_ended` and `wait_race` show that it
  gets there.
- The lease manager's mutex as a variable: it is held within one step, since
  nobody is called under it, so no order of the two mutexes is shown.
- Crashes: nothing is persisted, so a crash is a new start.

## Plan

Done: the store with its services, the lease manager, the watch manager, their
compositions, the life of the process, and the theorems above. Left:

1. `WatchManager`: a write as two steps, with the mutex of each watcher, for
   overlapping writes; two watchers on one stream.
