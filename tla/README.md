# Verification of the liqo-resource-agent

The agent runs in a Kubernetes cluster and connects it to a resource broker. It
measures what the cluster can offer and publishes that as an *advertisement*;
in the other direction it learns of *reservations* at the broker and turns each
into an *instruction* object, which a controller acknowledges and, at its
expiry, marks as over. This directory holds TLA+ models of that machinery, the
TLC runs that check them on small instances and TLAPS proofs for all instances.

## 1. Inventory

| component | state | operations | what makes it correct |
|---|---|---|---|
| `ProviderInstructionReconciler`, `ReservationInstructionReconciler` (`internal/controller`) | work queue, requeue timers, the reconciliation under way; objects in the API server, seen through the informer cache | `Reconcile`: not found / expired / acknowledged / new; `Status().Update`; requeue at the expiry or after five minutes | a verdict is written only where it still holds; no wake-up is lost until the instruction is expired and marked; an acknowledgement is withdrawn after expiry and not before; a settled instruction is left alone |
| `ReservationPoller` (`internal/transport/http/poller.go`) | where its loop is, the snapshot it works through | fetch per role, filter phase `Reserved`, Get, Create | every reservation the broker holds gets its instruction in spite of failures; an existing instruction is never reset; the instruction's expiry follows the broker's |
| `ReservationWatcher` (`internal/publisher/reservation_watcher.go`, legacy) | the watch, the event in hand | open, back off, take an event, Get, Create/Update, reset the status | expiries only move forward; a reset acknowledgement is given again; an unchanged reservation is not processed twice |
| `HTTPCommunicator` (`internal/transport/http/client.go`) | attempt counter and request body | GET, POST, retries; fetch | the broker's `Reserved` field is preserved; a retry repeats the request; the call ends |
| `BrokerClient` (`internal/publisher/broker_client.go`, legacy) | the object it read | Get, Create or Update with resourceVersion | `Reserved` is preserved |
| `AdvertisementReconciler` (`internal/controller`) | queue, timer, reconciliation; the Advertisement object | collect, update spec, update status, publish, schedule the next boundary | what is published is what is stored; the status does not claim more than happened; the worker is not held up for ever; it comes back at the next boundary, which all agents share; what it says comes to be true |
| metrics collector (`internal/metrics`) | the lists it has read so far | list nodes, pods, instructions; sums over each | Available = allocatable - allocated - reserved, over ready nodes, live pods and instructions in force, whatever the order of the lists; an entry that cannot be read costs no other its share |
| `cmd/main.go` | none | chooses the transport, creates the Advertisement, starts the loops | every restart resumes from the stored objects |

The components share no memory but the manager's client. They meet in the API
server (instructions and the Advertisement), in its informer cache, which lags
behind and whose events queue keys, and at the broker. The poller or the watcher
runs in a goroutine of its own that is started *before* the manager: until the
cache is filled its reads fail. Each controller has one worker.

What is hard about it: reads come from a stale cache and writes race with the
other writers; the clock moves between a test and the use of its result; errors
are logged and forgotten in some places and retried in others; a controller is
woken by its own writes; a restart loses queue, timers and snapshots;
read-modify-write at the broker. `PROJECT.json` lists these hazards line by line
with the properties that watch them.

## 2. Modules

| module | models |
|---|---|
| `KubeCluster` | clock, broker reservations, API server with resourceVersions, cache; writes that succeed, conflict, fail, or fail after having been accepted (external, modelled from the agent's use of it) |
| `InstructionControllers` | both instruction controllers, their queue and timers, and the properties they owe under either transport |
| `ReservationPoller` | the HTTP polling loop |
| `ReservationWatcher` | the legacy watching loop |
| `InstructionLifecycle` | the abstract specification: the hold of each reservation is none, noted, in force or over, and which moves are allowed |
| `HttpAgent`, `LegacyAgent` | the compositions `main` starts: controllers with poller, controllers with watcher |
| `Publisher` | `PublishAdvertisement` over HTTP and over the legacy client, and the broker's copy |
| `Collector` | the metrics collector: its sums, and its three lists read one after the other |
| `AdvertisementReconciler` | the advertisement loop around `Collector` and `Publisher` |
| `ClockSync` | `calculateNextClockSync` |
| `AdvertisementSchedule` | the advertisement loop against the clock: time stamps, boundaries, timers |
| `MCHttpAgent`, `MCLegacyAgent`, `MCAdvertisement`, `MCAlgorithms`, `MCSchedule` | the modules TLC runs |
| `ControllerProofs` | the controllers by themselves: what they keep, and what they rely on of everyone else |
| `HttpAgentProofs`, `LegacyAgentProofs` | the theorems about the two compositions, on top of `ControllerProofs` |
| `AdvertisementProofs`, `ClockProofs`, `ScheduleProofs` | the theorems about the advertisement loop, about `calculateNextClockSync`, and about the two together |
| `FoldProofs` | induction, and what loops and sums over lists of any length come to |
| `CollectorProofs` | the theorems about the collector's sums, on top of `FoldProofs` |

`AdvertisementReconciler` extends `Publisher` and `Collector`; `AdvertisementSchedule`
takes its actions one by one and adds what the clock decides, so that the proofs about
the former speak of every step of the latter.

### State and actions against the code

*Instructions.* A record `[exists, rv, expiresAt, acked, lastUpdate]`; `acked` is
`Status.Enforced` of a ProviderInstruction and `Status.Delivered` of a
ReservationInstruction. Amounts, names and messages are left out: no branch
depends on them. `rv` grows with every write that changes the object.

*Time.* The clock ticks in fractions of a second (`TicksPerSecond`), because
`metav1.Time` keeps seconds: a stored expiry is cut down to its second
(`Marshal`), and a status written twice within one second does not change.
`Expired` is the code's strict `Before(time.Now())`; at the instant of expiry an
instruction is not expired, yet `time.Until` is no longer positive.

*A reconciliation* is: take a key and read the object from the cache
(`ReconcileNotFound`, `ReconcileExpired`, `ReconcileSettled`, `ReconcileAcked`,
`ReconcileNew`: the branches of `Reconcile`), then `StatusWritten` or
`StatusFailed`, then `Requeue`, with steps of everyone else, and of the clock, in
between. The two Go functions differ in one condition only, `MustMark`: the
reservation controller marks an expired instruction only if it was delivered. The
back-off of a failed key is "at once"; since nothing bounds how long the worker
waits, this allows every delay. Work queues differ in whether an immediate entry
absorbs a delayed one for the same key: `Take` allows both.

*The cache* jumps to the stored object (`Deliver`): skipping versions is what a
slow informer does. `CacheSync` is the manager's start.

*Restart* drops everything in memory, at any step. *OperatorDelete* is the only
way an instruction disappears: the agent never deletes one.

*The poller.* Reservations that are not Reserved are filtered while fetching.
The 30-second ticker is "at any time". A read of a cache that has not started is
an error and skips the reservation, as it does in the code.

*The watcher.* A watch opens with one event per reservation; MODIFIED events carry
the new state, DELETED events the last one under the version of the deletion, and the
code handles both alike. The broker never returns to a state it has left, so that state
and deletion together stand for the resourceVersion. An expiry that cannot be parsed is a
nil expiry to the code, as a missing one is: both are `NoTime`, and whether the broker
sends such a one is a matter of `Expiries`. Sleeps and back-off are "at any time".

*Publishing.* `pub.body` records whether the POST's reader has been used:
`http.Request.Clone` shares it. An attempt whose reader is used up fails (`PostUnsent`)
unless net/http, on a connection it has used before, takes the body anew from `GetBody`
(`BodyRewound`). `pub.current` says whether the broker's copy is
still the one that was read. A GET that does not bring an advertisement, for
whatever reason, leads to the POST all the same. Results are only logged, so a
legacy write that was accepted but whose answer was lost is like an accepted one.

*The transport* is what `main` makes of its flags (`Chosen`): a kubeconfig alone stands
for the legacy transport, HTTP needs a URL and certificates that load, anything else
ends the process.

*Collecting.* Quantities are integers in their base unit, a ResourceList a function on
the resources it names, so that "names no GPU" and "names zero GPUs" stay apart, as the
code keeps them apart. Each list is read in a step of its own, with changes of the
cluster in between. Strings that are empty or no quantity are values of their own
(`NoText`, `Unparsable`).

*Schedule.* A tick is a second; timers count down. `fresh` says whether the time stamps
in the object name the current second: a write then changes nothing and wakes nobody.
`time.Now` and `time.Until` are two steps with ticks in between; `RequeueAfter` counts
from the return of `Reconcile`, which comes after the publication.

*The Advertisement* has one writer, the reconciler, so its resourceVersion is
reduced to whether the cached copy and the copy in hand are still current. A read
error other than not-found is left out: a started cache gives none.

## 3. Runs

| run | instance | checks |
|---|---|---|
| `http_safety` | one provided reservation, expiries 1, 3 or none, renewals, 2 ticks a second, clock to 4, 2 upsets | `TypeOK`, `FreshVerdict`, `NoLostWakeup`, refinement of `InstructionLifecycle` |
| `http_liveness` | a reservation granted in either role, expiry 3 or none, clock to 5, 1 upset, `FairSpec` | `NoLostWakeup`, `DeliveredSettlesForGood`, `ExpiredIsReleased`, `ReservedIsHeld` |
| `http_rewrites` (violation) | one provided reservation, no failures | `EnforcedSettlesForGood` |
| `http_renewal` (violation) | renewals, no failures, `FairSpec` | `ExpiryMirrored` |
| `legacy` | one provided reservation, expiries 3 and 5, renewals, clock to 3, 1 upset, `FairSpec` | `TypeOK`, `FreshVerdict`, `NoLostWakeup`, `ExpiryNeverGoesBack`, `OnlyAResetTakesBack`, `ResetIsMadeGood`, `NewWatchBringsItBack` |
| `legacy_redelivery` (violation) | one requested reservation | `NotProcessedTwice` |
| `advertisement` | a node or none, a pod, an instruction or none, two amounts, 3 retries, all 72 command lines, `FairSpec` | `TypeOK`, `PublishesTheStored`, `LegacyKeepsReserved`, `HttpKeepsReservedItRead`, `PublicationEnds` |
| `algorithms` | three node lists (empty, one not ready, one with GPUs) x all lists of up to two of five pods x five instruction lists; an hour in half minutes x eleven intervals from 0 to an hour and a half | `AvailableIsWhatIsLeft`, `EachCountsForItself`, `AgentsAgree` |
| `schedule` | a node or none, a pod, an instruction that is enforced or not, legacy transport, a boundary every 2 seconds, deletions, failures and restarts, `ScheduleSpec` | `ScheduleTypeOK`, `StopsOnlyAtABoundary`, `TruthIsPublished` |
| `publish_reserved`, `publish_retry`, `publish_status` (violations) | a node, a pod that ends, both transports | `HttpKeepsReserved`, `RetryHasBody`, `PublishedMeansPublished` |

**Bounds.** `MaxTime` stops the clock, `MaxUpsets` counts failures, restarts and
deletions, `MaxReserved` bounds how many reservations the broker grants,
`maxRetries` is the code's 3 (0 in `schedule`, where a request that
fails once has failed). Instructions do not influence each other except through the
worker of their kind and the poller's order, so the runs
grant one: provided with two failures, or of either role with one failure under
fairness. The theorems of section 5 cover the safety properties for any number held at
once; liveness with several is not checked.
Expiry 1 with two ticks a second is cut to 0 by marshalling, 3 to 2: an expiry that is
over before it is stored, one met exactly, and a renewal from one to the other all
occur. Both liveness runs of the controllers include a reservation that does not expire
while the clock runs (no expiry, or 5), for which "acknowledged or expired" leaves only
the acknowledgement. `FiveMinutes` is 2 ticks, or 1 with the shorter clock of `legacy`:
long enough to fall after an expiry and short enough to fall due. `LegacyAgent` turns
deadlock checking off: when clock, broker and failures are used up, the watcher waits
for an event, as it should.

In `algorithms` a minute has two ticks and an hour its sixty minutes, so that the
default flag of half a minute, whole minutes, a minute and a half, and intervals at and
beyond the hour all occur at every minute. The pods are chosen so that a GPU is named
first by a container, an init container, an overhead or a pod that does not count, in
either order. In `schedule` the hour has one minute of two seconds: every boundary
wraps, a reconciliation may take any number of them, and nothing in the loop depends on
more than the distance to the next. `AgentsAgree` covers the arithmetic at full length.

**Fairness.** Time passes, the manager fills its cache, watch events are delivered,
due timers fire, each worker and each loop takes its next step. This is what the Go
scheduler, controller-runtime and client-go give; nothing is assumed of the
broker, of failures (bounded instead, or excluded by `TruthIsPublished`'s premise from
some moment on), or of a watch ever closing: `NewWatchBringsItBack` starts from a watch
that is down. In `ExpiredIsReleased` a timer that lies beyond the bounded clock counts
as an answer (`BeyondClock`).

**What the violations say.**
1. `http_rewrites`: the expired branch of the provider controller writes
   `LastUpdateTime` unconditionally, and the event of that write wakes it again: if
   the second has changed by then, an instruction that was marked already is written
   once more, although the comment says "No need to requeue - it's expired". A write in
   the same second changes nothing and ends the chain.
2. `http_renewal`: the poller returns as soon as the instruction exists;
   `ExpiresAt` "mirrors broker expiry" only at creation.
3. `legacy_redelivery`: `ObservedReservationResourceVersion`, "used to avoid double
   processing", is written and never read; a watch that is opened again announces a
   reservation under the version recorded, and that takes `Delivered` back.
4. `publish_reserved`: between GET and POST, or when the GET fails, the agent does
   overwrite the field it "MUST NOT overwrite". `HttpKeepsReservedItRead` shows that
   these two are the only ways, and `LegacyKeepsReserved` that the legacy
   transport's resourceVersion closes both.
5. `publish_retry`: a cloned request shares the body that "can only be read once": once
   an attempt has sent it, the clone for the next has nothing left to read. The retry
   then fails, unless it runs on a connection used before, where net/http rewinds the
   body by itself.
6. `publish_status`: `Published` is set before the publication and stays set when it
   fails.

Every property of a passing run has a mutant in `PROJECT.json`: an operator marked
"Mutant" in the modules that changes one definition the way a slip in the code would,
and that the property catches.

## 4. What the properties mean

`NoLostWakeup` is the heart of the controllers: an instruction that exists and is
not settled (expired and unmarked) is queued, or scheduled, or the cache has yet to
show its newest version, or its worker has it in hand, or the manager has still to
start. It fails as soon as one branch returns without scheduling, and it is why the
five-minute fallback matters: exactly at its expiry an instruction is in neither of
the other branches.

`FreshVerdict` says what optimistic concurrency buys: as long as the version in a
reconciliation's hands is the server's, the decision taken from it is still right.

`ImplementsLifecycle` hides cache, queue, versions and workers, and keeps what the
metrics collector counts: a hold in force leaves that state only when its time is
over or its instruction is removed. `LegacyAgent` does not implement it: the
watcher's reset takes acknowledgements back on purpose. What remains is that nothing else
does before the expiry (`OnlyAResetTakesBack`), and that the reset is made good
(`ResetIsMadeGood`).

`NewWatchBringsItBack`: the watcher drops an event whose upsert fails, and any read
before the cache has started fails. What makes up for it is that a watch is opened
without a resourceVersion and so replays every reservation; a watch resumed where the
last one ended would lose the event for good.

`AvailableIsWhatIsLeft` holds the loops, with their flag `hasGPU` that outlives a turn
and decides per pod what is added, against Kubernetes' definition of what a pod asks
for, written as sums and maxima over sets (`WhatIsLeft`). `EachCountsForItself` says the
same without a reference: what one entry contributes does not depend on the others.

`AgentsAgree` is the comment "all agents publish at the same clock time", under the
condition it needs: the interval in minutes divides 60.

`StopsOnlyAtABoundary` and `TruthIsPublished` describe the loop as a whole. It sleeps
for at most an interval, and there is one way for it to stop: a boundary passes between
`time.Now` and `time.Until`, so that `RequeueAfter` is not positive, in a reconciliation
whose status update changed nothing because the last one fell into the same second. A
node or pod event then has to start it again. Otherwise, once lists, writes and
publications succeed and the cluster rests, the stored and the published advertisement
become, and stay, what a measurement at one moment gives, although the lists are read at
three moments and changes of instructions wake nobody.

### Observations

Read off the code while modelling. The first is a contradiction between two of the
repository's own comments, of which `AvailableIsWhatIsLeft` takes the one the code
follows; the others contradict no property above.

* The field's comment, `advertisement_types.go:55`, says "Available - Allocatable minus
  Allocated". The code (`collector.go:93`) and the repository's README:61 subtract
  Reserved as well. Wherever an instruction in force holds something the field is less
  than its comment says, and a reader who subtracts the reservations himself counts them
  twice. `AvailableIsWhatIsLeft` holds, and with it the field's comment is false.
* An interval is cut to minutes (the comment at `advertisement_controller.go:190` says
  "Round ... to nearest"), so the default flag of 30 seconds means one minute. Intervals
  that do not divide 60 give an uneven last gap before the full hour and boundaries that
  depend on when they are computed; 60 and above mean "at minute `interval % 60` of the
  next hour".
* `RequeueAfter` counts from the end of the reconciliation, after the publication with
  its retries, so that the next one starts later than the boundary by that much.
* The reconciler's own writes wake it once more; the second round changes nothing if it
  falls into the same second, and otherwise goes on.
* The legacy client publishes no GPUs. `--broker-transport=kubernetes` without a
  kubeconfig gives a client that is not enabled: no error, nothing published, nothing
  watched.
* An init container that is restarted and runs on beside the containers (a sidecar) is
  treated like one that ends, in the code and in `EffectiveRequest` alike.
* An instruction whose memory cannot be parsed is counted with its CPU only.
* A node that is not ready drops out while its pods still count: Available may be
  negative.
* The watcher handles the DELETED event of a reservation that is still Reserved like any
  other: the instruction is written, or created, anew.
* A renewal whose upsert ends in a conflict is not made good before the next watch:
  `NewWatchBringsItBack` speaks of the instruction's existence, and until then it has
  its earlier expiry.

## 5. Proofs

All theorems hold for every value of the constants that the named assumptions allow.

### The controllers (`ControllerProofs`)

`NoLostWakeup` is not inductive: whether a write may be forgotten depends on whether
the object it was computed from is still the stored one. `CtrlInv` adds what is needed:

* `CtrlShape`: types, and `OwnKey`, a busy worker holds a key of its kind;
* `CacheCoherent`: the cache never runs ahead, and equal versions are equal objects,
  so an undelivered change shows as a version difference, that is, as a wake-up;
* `FreshVerdict`: a snapshot whose version is current has the stored expiry, and a
  snapshot marked expired really is, for good (`ExpiredStays`).

`ControllersKeepInv` (`CtrlInv /\ CtrlStep => CtrlInv'`) is a rely-guarantee statement: a
`CtrlStep` is a step of a worker, of the cache or of a timer, a restart, or `Foreign`,
which is anything that leaves the controllers' own state alone, moves the clock by at
most a tick and leaves each instruction as it is or raises its version. Poller, watcher,
broker and operator are `Foreign`, so that both compositions get the invariant from one
proof, and any further writer that goes through the API server would.

The argument: `CtrlStoreMoves` lists what a step may do to a stored object (nothing, or a
higher version); `CacheMoves` and `RecMoves` do the same for the cache and the
workers. A raised version is itself a wake-up (`RaisedWakes`), so only steps that leave
the version alone can lose one: a status write that changed nothing (`MarkSettles`:
the object is settled), a taken key (the worker has it, or, in `DroppedIsSettled`, the
branch that returns at once settles it), a fired timer (queued), a restart (not
synced).

### With the poller (`HttpAgentProofs`)

For every set of reservations and expiries, every tick rate, requeue interval and bound
(assumptions `KubeAssumption`, `KeyAssumption`, `RequeueAssumption`):

* `TypeCorrect`: `Spec => []TypeOK`;
* `InvInvariant`: `Spec => []Inv`; the poller adds `OwnReservations`, that it works on
  reservations of the role it fetched;
* `NoWakeupLost`: `Spec => []NoLostWakeup`; `VerdictsAreFresh`: `Spec => []FreshVerdict`;
* `DeliveredStaysSettled`: `Spec => DeliveredSettlesForGood`;
* `AgentImplementsLifecycle`: `Spec => ImplementsLifecycle`. The refinement follows from
  `FreshVerdict` and the monotone clock (`HoldMoves`).

### With the watcher (`LegacyAgentProofs`)

Under the same assumptions:

* `LegacyTypeCorrect`: `Spec => []TypeOK`; `LegacyInvariant`: the controllers' invariant
  and `WatchShape`, that an upsert is about a reservation in which this cluster has the
  role;
* `LegacyNoWakeupLost`, `LegacyVerdictsAreFresh`: as above, now with a second writer of
  the status, whose resets raise the version (`ResetMoves`);
* `ResetAloneTakesBack`: `Spec => OnlyAResetTakesBack`, from `FreshVerdict` and the
  versions of both writers (`TakenBackBy`);
* `EventsStayInOrder`: `Spec => [](Shape /\ InOrder)`;
* `ExpiryOnlyMovesOn`: `Spec => ExpiryNeverGoesBack`.

The last is about two states only, and what makes it true lies far from the store: the
code writes whatever expiry the event in hand has, without comparing. `InOrder` follows
an expiry on its way. The events that wait for one reservation are in the order of their
expiries, and none is later than what the broker says (`WaitingInOrder`); the event in
hand is not later than any that waits (`SeenInOrder`); what is stored is not later than
any of these (`StoredInOrder`). It holds because a channel is a queue that loses only its
whole rest (`TailInOrder`, `AppendInOrder`), a new watch starts with the broker's present
state, and cutting an expiry to its second keeps the order (`MarshalMonotone`).

### The advertisement loop (`AdvertisementProofs`)

For every set of node, pod and instruction lists, every set of amounts and command lines
and every number of retries (assumptions `PublisherAssumption`, `ContentsAssumption`, and
for the totals the two of the collector, below):

* `AdvTypeCorrect`: `Spec => []TypeOK`, the bound on the retries included;
* `AdvInvariant`: `Spec => []AdvInv`;
* `AvailableAlwaysWhatIsLeft`: `Spec => []AvailableIsWhatIsLeft`, and
  `EachAlwaysCountsForItself`: `Spec => []EachCountsForItself`, by the collector's theorems;
* `AdvertisesWhatItRead`: `Spec => MeasuresWhatItRead`, what a collection passes on is what
  is left of the three lists it read, each at its own moment;
* `SendsTheStored`: `Spec => []PublishesTheStored`;
* `LegacyReservedIsSafe`: `Spec => LegacyKeepsReserved`;
* `HttpReservedAsRead`: `Spec => HttpKeepsReservedItRead`.

`PublishesTheStored` is not inductive: it says nothing of the time between the spec update
and the request. `AdvInv` adds that the lists read so far are lists the cluster has had
(`ReadLists`), that a reconciliation past its collection holds a measurement and, from the
spec update on, the same as the object (`HoldsTheMeasured`: the object has no other
writer, and a deleted one stays deleted until a restart, which ends the reconciliation),
and that a publication belongs to the reconciliation under way, runs over one transport
and, while `pub.current`, has read the broker's present copy (`SendsTheMeasured`). The two
action properties follow from its last part: a step that changes `Reserved` is the
broker's or a `Store`, and a `Store` that is conditional on `pub.current` stores what is
there (`ReservedStep`).

### The clock and the schedule (`ClockProofs`, `ScheduleProofs`)

`ClockAgreement` states `AgentsAgree` at every second of a clock with any number of
seconds a minute and minutes an hour, and for any set of intervals (`ClockAssumption`),
so for the sixty and sixty of the code. `NextSyncIs` removes the modulo: the boundary is
`n` minutes, where `n` is the next multiple of the interval, or less if that lies beyond
the hour. An interval that divides the hour never does (`NextMinuteInHour`), and the
minute of a later second before the boundary has the same quotient (`BoundaryStays`).

`ScheduleImplementsLoop`: `ScheduleSpec => Spec`. With the clock, the loop is still the one
of `AdvertisementReconciler`, and everything proved there holds of it.
`SleepsAtMostAnInterval` and `ScheduleTypeCorrect` state the two invariants of the run
`schedule` for every interval (`IntervalAssumption`). `StopsOnlyAtABoundary` needs three
companions (`ScheduleInv`): the reconciliation that finds no object takes a key and
returns nothing, which is harmless only because a current cache is right
(`CacheIsRight`); a timer is as long as the plan it was set from, which is at most an
interval (`WithinAnInterval`, by `BoundaryAhead`); and `Awake`, the property without the
length.

### The collector (`FoldProofs`, `CollectorProofs`)

For lists of every length, in every order and with quantities of any size:

* `CollectedIsWhatIsLeft`: what `CollectClusterResources` returns as available is
  `WhatIsLeft` of its three lists;
* `TotalsAreRight`: both properties of the run `algorithms` hold wherever the caches hold
  such lists;
* `InstructionsCommute`: two instructions may change places, whatever of them cannot be
  parsed.

`ListsAssumption` says what the lists are: what a container requests, an overhead costs or
a node has is not negative, which the API server checks of every pod and node; the
amounts of an instruction may be any integer, empty or no quantity, since nothing checks
them. `NilAssumption` says that a nil pointer is no number. Without the first,
`AvailableIsWhatIsLeft` is false: the code's maximum over the init containers starts at
zero.

*Induction.* The library's induction theorems take an operator, which no installed prover
can instantiate. That the naturals are well founded takes none: a set of naturals that is
not empty has a least element (`LeastElement`), so a set with 0 and every successor has
them all (`Induction`). A property to be proved by induction is put into such a set.

*Loops.* `FoldLeft` is defined by a recursive function on the subsets of the indexes, that
is, by a CHOOSE. `FoldExists` shows that there is one, so that `FoldLeft` satisfies its
equation, and `FoldIsLoop` that its value on the first `k` indexes is what the loop holds
after turn `k`. `SumFunction`, which the reference uses, takes its elements in an order
nobody knows; `SetSumTakesOut` shows that any of them may be taken out last, by induction
on the cardinality, and so the running sum of a loop is that sum (`RunningIsSetSum`).

*Turns.* What remains is what one turn adds. For an instruction it is what the instruction
holds (`TurnAddsHeld`). For a pod it is its effective request (`TurnAddsCosts`), which
needs the two inner loops (`ContainerSumIsSum`, `LargestOfList`,
`ContributionIsEffective`), and the flag: where `hasGPU` is not set, the pod names no GPU
in any container, so that leaving out its contribution leaves out nothing.
`AllocatedRuns` carries along that without the flag the sum of the GPUs is still zero,
which is why the nil pointer the loop then returns loses nothing.

### Only model-checked

Liveness (fairness and ENABLED are beyond the prover): `ExpiredIsReleased`,
`ReservedIsHeld`, `ResetIsMadeGood`, `NewWatchBringsItBack`, `PublicationEnds`,
`TruthIsPublished`. Every other property of the passing runs is a theorem.

## 6. Not modelled

The metrics and webhook servers, TLS settings, leader election, probes, logging, the
source of the cluster ID, `Ping`, `Close`, deep copies and registration (no state of the
agent's); `FromReservationDTO` and `fromResourceQuantitiesDTO` (not called); the
formatting of quantities, which loses nothing; Cost, Storage and Used, which are never
set. A second replica during a rolling update: poller and watcher do not wait for leader
election, so two may run for a while. A cluster that is both requester and target of one
reservation is possible in the modules but not in the runs.

## 7. Plan

Done: all components of section 1, their compositions, the refinement of
`InstructionLifecycle`; proofs of every safety property of the passing runs. The order was controllers and poller first, as the part with
most actors, then the watcher, the publication, the collector and the clock.

Left: a second replica in `HttpAgent`: two pollers, one set of controllers. The second poller is
`Foreign`, so that the controllers' part of the proof stands.
