# CamBANG core: TLA+ models

This directory holds TLA+ models of the CamBANG core runtime. CamBANG is a
camera runtime: a single core thread arbitrates between host commands and a
platform camera provider. The models are checked with TLC.

The repository's C++ under `src/src/provider/` is only the provider boundary:
- `provider_contract_datatypes.h`;
- `provider_error_string.h`, which also carries `icamera_provider.h`:
  `IProviderCallbacks` and `ICameraProvider`;
- `provider_error_string.cpp` (`src/unnamed/part_000`).

The core's behaviour is defined by the design documents under `src/docs/`:
- `core_runtime_model.md`;
- `state_snapshot.md`, which concatenates the snapshot schema, the
  arbitration policy, the provider architecture and the naming doc.

Every definition is translated from those lines, and `PROJECT.json` "map"
names them. Where `src/` is silent (the spec's closed transition table, the
starvation watchdog, the rig trigger preconditions, the capture end mode),
the definition is marked `spec_modelled`.

## 1. The system (inventory)

| Part | State it keeps | Operations | Talks to |
|---|---|---|---|
| Provider (environment) | Open instances, running streams, its callback context | `open_device`, `close_device`, `create_stream`, `destroy_stream`, `start_stream`, `stop_stream`, `trigger_capture`, `abort_capture`, spec patches, `shutdown`; callbacks `on_*` | Core: it receives calls and reports facts on one serialised context |
| Core thread / event loop | `cmd_queue`, `evt_queue`, `timer_heap`, dirty flag | Wait; drain events; drain commands; process due timers; publish if dirty | Everything; it is the sole writer |
| State machines | Rig mode and `active_capture_id`; device phase and mode; stream phase, mode and `stop_reason` | Transitions on commands and callbacks | Arbitration, snapshot |
| Arbitration engine | None of its own; it reads the state machines | Deny, preempt or accept `create_stream`, `start_stream`, device capture, rig sync capture | Provider calls |
| Warm scheduling | `warm_hold_ms`; warm-expiry timers | Schedule on not-in-use; cancel on engage, stream or capture; teardown on expiry | Timer heap, provider |
| Lifecycle registry | Native-object records (phase, owner, `root_id`, `destroyed_ns`) | `on_created`, `on_destroyed`, `sweep`, `detached_roots` | Publisher |
| Snapshot builder / publisher | `gen`, `topology_gen`, current snapshot | Build, swap, emit `state_published` | Host readers |
| Frame delivery | Provider buffer pool; views in `evt_queue` or held by a consumer | `on_frame`, deliver or drop, `release_now` | Provider, consumer |
| Spec stores | Camera and imaging spec versions, pending patches | `APPLY_WHEN_SAFE`, `APPLY_NOW` | Provider |
| Shutdown | Accepting flag | Reject commands, stop, close, sweep, final publish | All |

### Hard behaviours the code is exposed to
- Provider calls return at once. Their effect is reported later, in FIFO
  order on one context, interleaved with new host commands.
- The core marks preempted streams STOPPED at decision time. The provider's
  confirmation comes later.
- `on_capture_completed` carries only a `capture_id`. A rig capture shares
  one id across members.
- v1 has no core-side capture timeout.
- Warm expiry races re-engagement.
- Publication is coalesced, once per loop iteration.

## 2. Plan

In order of importance:

1. **Arbitration** (done): the state machines, arbitration, preemption and
   warm scheduling. The provider is asynchronous.
2. **Registry + Publisher** (done): modules `Registry` and
   `SnapshotChannel`, section 4.
3. **CoreLoop** (done, section 6): the iteration order, host producers
   racing shutdown, deterministic shutdown, and the timer phase over the
   timer heap with tombstones (module `TimerHeap`), and the bounded
   `cmd_queue` answering `QUEUE_FULL`. Left open: `QUEUE_FULL` on
   `evt_queue` for lifecycle events (section 9).
4. Arbitration follow-ups:
   - `abort_capture` and `on_capture_started`;
   - priority inversion of a rig trigger behind a device capture (it
     needs two capture ids over two rig members: about 10.7M states and
     8 minutes for safety alone, beyond a run's budget);
   - rig recovery from ERROR.
5. FrameView release (done): module `FrameRelease`, section 5.
6. Spec stores (done): module `SpecStore`, section 7.

## 3. Module `Arbitration` (with `MCArbitration`)

### State
- `dev[i]`, one per device instance id: `hw` (the hardware_id), `phase`,
  `mode`, `warmHold` (`warm_hold_ms > 0`) and `warm` (a warm-expiry timer
  is pending).
- `stream[s]`: `dev`, `intent`, `phase`, `mode`, `reason` (stop_reason) and
  `stopReq` (the stop the core asked for: USER or PREEMPTED). `stopReq` is
  what `on_stream_stopped` combines with the provider's signal to get the
  public stop_reason, as the comment at `icamera_provider.h` says.
- `capture[c]`: the instances of the capture, whether it is a rig capture,
  the completions still awaited (`left`) and its status.
- `rig`: its mode and `active_capture_id`.
- `ids`: the per-space id allocator.
- `evt`: the core's `evt_queue`.
- `prov`: what the provider holds. That is the open instances and running
  streams, the instances that already reported a device error (errors
  are "non-spammy"), and `shots`: the captures it was handed (capture id,
  instance) whose outcome it has not reported yet.

### Actions
**Commands.** Each host command is one action, and only its accepted path is
a step, because a denial changes nothing:
- `EngageDevice`, `SetWarmPolicy`, `DisengageDevice`;
- `CreateStream` (with explicit replace), `DestroyStream`, `StartStream`,
  `StopStream`;
- `TriggerDeviceCapture`, `TriggerRigSyncCapture`, `ArmRig`, `DisarmRig`.

An action makes its provider calls as part of the same step. `CallProvider`
runs each call through `Exec` (what the provider does with it). Each call
may succeed or fail, and its callbacks are appended to `evt`.

**Timers.** `WarmExpire` and `StarveTimeout`.

**Provider on its own account:**
- `ProviderCaptureOutcome(c, i)`: a `trigger_capture` the provider took
  is reported later, at a time of its choosing, as the capture frame and
  `on_capture_completed`, or as `on_capture_failed`. The members of a
  rig capture report independently, in either order, and other commands
  and events can come between them;
- `ProviderStreamFailure` (`on_stream_stopped(error)` or `on_stream_error`);
- `ProviderDeviceError`, at most once per instance;
- `ProviderStreamFrame`.

**Event handling.** `HandleEvent` takes the head of `evt` and runs its
handler: `OnDeviceOpened` ... `OnCaptureFailed`. A handler that makes the
device not-in-use runs `AfterUse`, which either sets the warm timer or
tears the device down immediately (`warm_hold_ms = 0`). The teardown's
`stop_stream` and `close_device` calls are part of the same handler step.
`on_stream_error` on a running stream leaves the device as a stop does.
`StartStream` cancels a pending warm expiry, as creating a stream or
accepting a capture does (spec.md, "Warm & retention scheduling").

**Events that find no transition.** Spec 4.F calls illegal transitions
programming errors. The handlers ignore an event that finds its entity
in a state with no transition for it, because such events are reachable
in a correct core: an `on_stream_started` for a stream the host destroyed
before the confirmation arrived, or an `on_device_opened` after the
instance was already torn down. Making them fatal would stop a core that
did nothing wrong.

**Abstractions:**
- Profiles, formats, counters, timestamps and error codes are left out. A
  `ProviderError` is only OK or not OK.
- A frame is only the event it causes.
- Native-object reports belong to the registry module.

### Properties
- `TypeOK`.
- `QuiescentAgreement`: once `evt` is empty and the provider owes no
  capture outcome, the provider's open instances are exactly the LIVE
  ones, and no capture or device is left CAPTURING.
- `RigCaptureConsistent`: the rig is TRIGGERING/COLLECTING exactly while its
  `active_capture_id` names an in-flight rig capture, and no other rig
  capture is in flight.
- `CompletedAfterEveryMember`: `on_capture_completed` carries only the
  capture id, so the core counts completions. A capture is COMPLETED only
  once every instance it was triggered on has reported: no outcome of it
  is still owed by the provider or waiting in `evt`. Breaking it takes a
  two-member capture, one member's completion, and the other's outcome
  still outstanding.
- `CaptureEventuallyEnds` (liveness): every accepted capture completes or
  fails. It is checked in the `spec_store` run (section 7), on the
  composed specification with the spec stores, one camera, no streams.
- Stated and found violated (see Findings):
  - `NoStreamDuringCapture` (policy 6.2/6.3);
  - `QuiescentStreamAgreement` (provider-running streams match the core's);
  - `RigCaptureCoversMembers` (spec 8.8).

### Runs
| Run | Config | Bounds | Shows |
|---|---|---|---|
| streams | `MCArbStreams.cfg` | 1 camera (also a one-member rig), both intents, 2 stream ids, 1 instance id, 1 capture id, `evt` ≤ 2 for commands | Passes, about 1.5M distinct states in about 2 min |
| rig | `MCArbRig.cfg` | 2 cameras in one rig, 3 instance ids (a member can be re-engaged), 1 capture id, no streams, `evt` ≤ 3, camera symmetry | Passes, about 2.8M states in about 2 min |
| stale_start | `MCArb_NoStreamDuringCapture.cfg` | 1 camera, 1 stream | Violation in 8 steps |
| double_start | `MCArb_QuiescentStreamAgreement.cfg` | 1 camera, 1 stream | Violation in 9 steps |
| member_reengage | `MCArb_RigCaptureCoversMembers.cfg` | 2 cameras, 3 instance ids | Violation in 9 steps |

**Why these bounds are enough.** Every action and every branch of every
handler fires in the two passing safety runs; TLC coverage confirms this.
- `evt` bound: host commands and the provider's spontaneous reports are
  taken only while `evt` stays within `EvtCap`. Handlers that call the
  provider are not bounded. With a bound of 3 in the rig run, the two
  members' outcomes (two events each) can be reported in either order,
  and one can wait for room while the core handles the other.
- Two stream ids reach replace and a second stream after teardown.
- Three instance ids reach re-engagement of a rig member.
- Larger id bounds only repeat these shapes, at a higher cost.

**Deadlock.** `CHECK_DEADLOCK FALSE` is set because runs end when the id
bounds are exhausted (every instance destroyed, or every capture id used).
That is a model bound, not a stop of the system.

**Fairness.** `WF_vars(HandleEvent)`: the core thread wakes whenever an
event is enqueued and drains `evt_queue` (full drain in v1,
`core_runtime_model.md` 3.1-3.2). `SF_vars(ProviderCapture)`: a provider
reports every capture it took (provider architecture 4.3, no indefinite
blocking). The report can only be made while `evt` has room, which
comes and goes, hence strong fairness. Host commands and the provider's
other reports are not assumed to happen. `CaptureEventuallyEnds` rests
on these two.

**Mutants.** Each property of a passing run is broken by a plausible code
bug, defined in the module just before the definition it replaces:
- one completion too many awaited (`TypeOK`), one too few
  (`CompletedAfterEveryMember`);
- devices not restored from CAPTURING;
- a rig that leaves its capture only on success;
- `on_capture_failed` ignored.

## 4. Modules `Registry` and `SnapshotChannel` (with `MCRegistry`)

`SnapshotChannel` is the abstract specification: what readers of
`CamBANGServer` may rely on across published snapshots. Its `view` is the
registry part of a snapshot: records, live instances and
`detached_root_ids`. Its single action `Publish` says:
- `gen` moves on every publish;
- `topology_gen` moves exactly when the live instances or the set of
  root_ids changed (state_snapshot.md 8.2);
- a record keeps its root and moves only forward through CREATED, LIVE,
  TEARING_DOWN, DESTROYED, and leaves only once DESTROYED;
- a record that left never comes back (native_ids are not reused). The
  abstract `left` is the set of records that have left; the registry
  keeps it as a history variable updated by `Publish`;
- `detached_root_ids` is exactly the roots with a record whose owner is
  not alive (7).

`Registry` is the detailed module:
- **State:** `reg` holds one record per core-issued native_id (phase, root,
  `expired`). `owner` is the lifecycle of each device instance (one lineage
  root each). It also holds `nextNative`, `dirty` (snapshot_dirty), `gen`,
  `topoGen` and `pub`, the last published registry part.
- **Actions:**
  - `InstanceCreated`, `InstanceTeardown` (core-directed teardown moves
    the instance's non-DESTROYED records to TEARING_DOWN) and
    `InstanceEnded`;
  - `OnNativeObjectCreated` and `OnNativeObjectDestroyed`, the provider
    callbacks;
  - `RetentionElapses` (time);
  - `RetentionTimer` (the scheduled sweep);
  - `Publish` (publish if dirty: sweep, build, swap, bump the counters).
- **Time.** It is one flag per record. The retention window is assumed
  longer than one loop iteration, so expiry happens only while nothing is
  waiting to be published.
- **Fairness.** `WF(Publish)` and `WF(RetentionTimer)`: the loop publishes
  in every iteration that finds the snapshot dirty, and it wakes at the
  earliest timer deadline (core_runtime_model.md 3.1-3.2). The provider
  is not assumed to report destroys: a missing destroy is a leak.

`SnapshotChannel` is instantiated as `Snap` with `view <- pub`, and
`SnapshotRefinement == Snap!Spec` is checked as a PROPERTY.

| Run | Config | Bounds | Shows |
|---|---|---|---|
| registry | `MCRegistry.cfg` | 2 instances, 2 native_ids, timer on | `TypeOK`, `ExpiredEventuallyUnpublished` (8.9) and the refinement hold; about 85k states in about 25 s |
| sweep_idle | `MCReg_ExpiredEventuallyUnpublished.cfg` | the same, timer off | Violated (see Findings) |

Two instances let one lineage end while its records are retained (a
detached root), with the other still live. Two native_ids let both
lineages hold a record, or one lineage hold two, so removing one record
may or may not remove its root. Most of the state count comes from the
`gen`/`topology_gen` values, which depend on the path taken. Three
native_ids (about 1.5M states) also pass the safety properties and the
refinement; the liveness check at that size takes too long.

Mutants:
- an id allocator without its bound;
- a teardown that also rewinds DESTROYED records;
- a timer sweep that does not mark the snapshot dirty.

## 5. Module `FrameRelease` (with `MCFrameRelease`)

This module models who owns a provider frame buffer. The header
(`provider_contract_datatypes.h` 105-138) says three things:
- the provider keeps the buffer until `release()` is called;
- `release_now` calls the hook whenever it is called, if one is set;
- release happens in core thread context.

**State:**
- `free`, the provider's pool;
- per frame id, the buffer its view points at and who holds it (`QUEUE`,
  `CONSUMER`, or `DONE` once released or dropped);
- `evt`, the bounded queue of views;
- whether a consumer is `attached`;
- whether the instance is `open`.

**Actions:**
- `OnFrame`: the provider fills a pooled buffer and calls `on_frame`. The
  view is enqueued, or on `QUEUE_FULL` dropped. `ReleaseOnFull` says
  whether the callback then releases it.
- `CoreOnFrame`: the core hands the head view to the consumer, or, with
  no consumer, drops it and releases it.
- `ConsumerRelease`, `SetConsumer`, and `CloseDevice` (teardown with views
  in flight).

**Fairness:** the core drains the queue, and a consumer releases within
bounded time. This is the spec's "scoped acquisition"; the docs under
`src/` say nothing about the core-side handling, so those definitions are
`spec_modelled`.

**Properties:**
- `ExclusiveBuffer`: a live view's buffer is out of the pool, and no two
  live views share one.
- `BufferEventuallyReturned`: every buffer comes back to the pool,
  including after `CloseDevice` with views still queued or held. This is
  `state_snapshot.md` 9, "provider must not retain resources past a
  core-directed teardown", for frame buffers; `CloseDevice` itself only
  stops new frames.

| Run | Config | Bounds | Shows |
|---|---|---|---|
| frames | `MCFrameRelease.cfg` | 2 buffers, 5 frames, queue of 1, `ReleaseOnFull` | Both hold; about 1.6k states |
| frame_queue_full | `MCFrame_BufferEventuallyReturned.cfg` | the same, no release on `QUEUE_FULL` | Violated (see Findings) |

Two buffers let one be reused while a view of the other is held. A queue
of one slot makes the second undelivered frame meet `QUEUE_FULL`. Five
frames cover reuse of both buffers after a drop and a consumer release.

Mutants:
- an enqueue that ignores the bound;
- a core that releases views it handed to the consumer (double release);
- a drop without release (leak).

## 6. Module `CoreLoop` (with `MCCoreLoop`)

This module models the core thread's iteration and the shutdown sequence
of `core_runtime_model.md` 3 and 10. Each instance has one stream. The
arbitration behind the commands is `Arbitration`'s; here they are only
`start_stream`, `stop_stream`, `disengage` and `engage`.

**Timers.** The core owns a `timer_heap` (section 3; spec 4.B). Module
`TimerHeap` gives it as a value with pure operators: `Schedule` returns
a handle, `Cancel` adds a tombstone, `DueBy` is the timed-wake test on
the earliest deadline, and `PopDue(H, now)` removes every entry with
deadline `<= now`, drains their tombstones, and returns the tags of the
live ones in deadline order. `now` is a monotonic tick (`Tick`, bounded
by `MaxTime`); no wall clock is used. The clock ticks while the core
waits: an iteration takes no time, so the deadlines it sees are the ones
that were due when it woke.

Warm scheduling (section 8.1): `Disengage(d)` of an instance in
`WarmHold` (`warm_hold_ms > 0`) does not tear down; it marks it warm and
schedules a warm-expiry timer at `now + Hold`. Other instances are torn
down at once. `Engage(d)` of a warm instance cancels its timer (a
tombstone: the entry stays in the heap); so does `start_stream` on a
warm instance (spec.md, "Warm & retention scheduling": a new stream
cancels the warm timer). The fourth phase of the loop,
`ProcessTimers`, pops the due timers and tears down, in one step, the
instances they name that are still LIVE, then marks dirty.

**State:**
- `pc`, the core thread's place: `WAIT`, `EVENTS`, `COMMANDS`, `PUBLISH`,
  then the shutdown steps `SD_EVENTS` ... `EXITED`;
- `accepting` and `shutdownReq`;
- the host side: `nextCmd`, `checked` (commands that passed the accepting
  check but are not yet enqueued), `cmdq`, `replied`;
- `dev` (phase, stream and warm per instance), `prov`, `evt`, `dirty`
  and `pub`;
- `now`, `timers` (the heap), `timerOf` (the live handle of each
  instance's warm timer) and `since` (history: when it went warm).

**Actions:**
- Host: `SubmitCheck` and `SubmitEnqueue`, two steps, because the check
  and the enqueue are not one atomic step. `cmd_queue` holds at most
  `CmdCap` commands; an enqueue that finds it full returns `QUEUE_FULL`,
  which is the command's reply (spec 4.C, 5). `RequestShutdown`.
- Provider: `ProviderStreamStopped`, on its own callback context.
- Clock: `Tick`.
- Core thread: `Wake` (on a command, an event, a due timer or shutdown),
  `DrainEvent`, `EventsDrained`, `DrainCommand`, `CommandsDrained`,
  `ProcessTimers`, `Publish`, then `ShutdownStopStreams`,
  `ShutdownTeardown`, `ProviderShutdown` and `FinalPublish`.

**Fairness:** weak fairness of the core thread (it is woken on every
enqueue, on shutdown and by the timed wait), and of each started
enqueue (enqueue does not block). The enqueue fairness is stated per
command id; an id is used once, so this is fairness per command. The
clock is weakly fair: a monotonic clock keeps advancing. The timed wake
is not fairness; it is the `DueBy` disjunct of `Wake`, i.e. the core's
own code.

**Properties:**
- `PublishedConverged`: when the loop sleeps with both queues empty, the
  published snapshot is the core's state.
- `ExitClean`: after exit, the provider holds nothing and the final
  snapshot has no stream running and no instance LIVE.
- `LoopEventuallyExits`: a shutdown request always reaches the exit.
- `WarmHoldHonoured` (action property): the timer phase tears down an
  instance only if it is still warm and has been so for the whole hold.
  Breaking it takes a disengage, an engage whose cancel leaves only a
  tombstone, a tick, and the timer phase: a `pop_due` that does not honour
  the tombstone tears down an instance that is in use again. The same
  holds for an instance whose stream was started during the hold.
- `CommandAnsweredWhileRunning`: again and again every submitted command
  has been answered (executed, denied, `QUEUE_FULL`, or SHUTTING_DOWN at
  the check), or shutdown has been requested. Command ids are bounded, so
  this says each command is answered unless shutdown comes first. It is
  one `[]<>` formula rather than one leads-to per id, so the liveness
  check stays within the run's time.
- `WarmEventuallyEnds`: an instance in warm hold whose deadline is within
  the modelled clock is eventually torn down or engaged again, even if
  no command or event ever wakes the core.
- `CommandEventuallyReplied`: found violated (see Findings).

| Run | Config | Bounds | Shows |
|---|---|---|---|
| loop | `MCCoreLoop.cfg` | 2 instances (one with a warm hold), 3 commands, `cmd_queue` capacity 1, hold 1 tick, clock to 1 | All hold; about 610k states in about 3 min |
| shutdown_reply | `MCLoop_CommandEventuallyReplied.cfg` | the same | Violated (see Findings) |

Three commands let one be queued, one be checked but not yet enqueued,
and one be rejected when shutdown arrives; with a capacity of 1 a second
command pending behind a queued one is answered `QUEUE_FULL`. Two instances make the
shutdown stop and close more than one instance, in order. One tick of
hold and one of clock are enough for a timer to be scheduled, cancelled,
re-scheduled and fall due together with its stale predecessor; a longer
clock multiplies the states and adds no new ordering.

**An observation with no run.** `ExitClean` says only "no instance LIVE".
The final snapshot shows the instances TEARING_DOWN, not DESTROYED as
scenario S6 expects. The sequence drains events only in step 3, and the
`on_device_closed` callbacks come from step 4's `close_device` calls.
Adding `\A d \in Devs : pub[d].phase = "DESTROYED"` to the exit
condition fails, with a trace of 8 states.

Mutants:
- unbounded command ids;
- an event handler that does not mark dirty;
- an exit without the final publish;
- a wake condition that forgets shutdown;
- `pop_due` that returns cancelled entries too (`PopDueNoTomb`);
- an untimed wait that only notifications end (`WakeNoTimer`);
- an enqueue that loses a command at a full queue without a reply
  (`SubmitEnqueueFullLost`).

## 7. Module `SpecStore` (with `MCSpecStore`)

The spec stores (`state_snapshot.md` 3-4, spec 4.E) depend on the core
state machines: a patch may apply only when no affected device is
engaged and no in-flight capture depends on one. `SpecStore` therefore
EXTENDS `Arbitration` and adds the stores to it.

### State
- `spec[t]`: version and content of `CameraSpec[hardware_id]` for each
  camera, and of the global `ImagingSpec` (`t = "imaging"`). A patch is
  opaque, core-validated bytes (`SpecPatchView`); the store treats it as
  content-addressed, so a patch is the content it sets, one of `Values`.
- `provVer[t]`: the version last forwarded with `apply_*_spec_patch`.
- `pending`: deferred `APPLY_WHEN_SAFE` patches, in acceptance order.
- `nPatch`: requests made (bounded by `MaxPatch`).
- `want[t]`: history variable, the store as it would be had every
  accepted patch been applied at once.
- `seen[i]`, `seenCap[k]`: history variables, the versions forwarded to
  the provider (`provVer`) when the provider took hold of instance `i`
  (it executed `open_device`) and when it was handed capture `k`
  (`Record`, in the same step).

### Actions
- `UpdateSpec(t, v, mode)` (`update_camera_spec` / `update_imaging_spec`):
  apply at once if `Safe`; else defer (`APPLY_WHEN_SAFE`) or deny
  `ERR_BAD_STATE` (`APPLY_NOW`, no step).
- `ApplyTo` / `ApplyAll`: the version moves iff the content changes; the
  new version is forwarded to the provider.
- `StoreHandle`: the core handles a provider event; after the events of
  `RetryPoints` (`on_device_closed`, `on_capture_completed`,
  `on_capture_failed`: the transitions that end an engagement or a
  capture, the two things `Safe` looks at), `RetryPending` applies, in
  the same step, every pending patch whose target is now safe, in
  acceptance order. Spec 4.E says "after each relevant state
  transition"; this set is what "relevant" is taken to be.
- `StoreOther`: every other step of `Arbitration` (commands, timers,
  provider steps), with no retry.
- `Engaged`: the device holds camera resources (`engaged`, snapshot 6.2),
  from engage until close is confirmed (CREATED, LIVE, TEARING_DOWN).
  `Affected`: the camera's instances for a `CameraSpec`, every instance
  for `ImagingSpec`.

### Properties
- `StoreTypeOK`.
- `NoPendingWhenSafe`: the retry points are complete: no patch stays
  pending once its target is safe, whichever transition made it so and
  however many patches wait. A capture can end after its device was
  closed (the outcome comes late), so dropping the capture events from
  the retry points breaks it.
- `StoreConverged`: a store with nothing pending equals `want` (content
  and version), and the provider has been forwarded that version.
- `ProviderSpecStable`: the hardware never sees a spec change under it.
  From the `open_device` the provider executed until it confirmed the
  close, the provider is forwarded no new version of that instance's
  `CameraSpec` or of the `ImagingSpec`; nor while it owes the outcome of
  a capture it was handed. It is stated over the provider's side
  (`prov.open`, the pending `on_device_closed`, `prov.shots`), not over
  the core's `Engaged`, so an `Engaged` that forgets CREATED or
  TEARING_DOWN is caught.
- `CaptureEventuallyEnds` (from `Arbitration`).

### Run
| Run | Config | Bounds | Shows |
|---|---|---|---|
| spec_store | `MCSpecStore.cfg` | 1 camera (one-member rig), 1 instance id, no streams, 1 capture id, `evt` ≤ 2, 2 contents, 3 patches | Passes, about 98k states in about 2 min |

Three patches let two wait for the same or different targets while a
third arrives; one instance id covers engaged, capturing, tearing down
and closed. Fairness is `Arbitration`'s (the core thread drains
`evt_queue`; the provider reports captures), on the composed steps. Streams are left out so
that the liveness check stays within minutes; streams change neither
`Safe` nor when a capture ends.

Mutants: requests without the bound; retry points without the capture
events; a retry that applies ready patches newest first; an `Engaged`
that does not count an instance still opening (caught by
`ProviderSpecStable`).

## 8. Findings

- **stale_start**: `start_stream` is issued; then a device capture is
  accepted. The stream is still STOPPED, so there is nothing to preempt.
  Then `on_stream_started` makes the stream FLOWING while the capture is in
  flight. The policy says streams are denied or preempted during a capture.
  The core keeps no "start pending" state.
- **double_start**: two `start_stream` calls are accepted before the first
  is confirmed. The first fails and the stream goes ERROR. The second
  succeeds, but its `on_stream_started` is ignored because the stream is
  not STOPPED. The provider then runs a stream the core shows as ERROR.
- **sweep_idle**: core_runtime_model.md 8.2 offers the sweep
  "opportunistically before publish - and/or via a scheduled timer". But
  the loop publishes only if dirty, and an expiry marks nothing dirty. So
  with the opportunistic sweep alone, an idle system keeps publishing a
  record whose retention has passed, contrary to "retention sweep removals
  must trigger snapshot publish". The timer is required, not optional.
- **frame_queue_full**: the FrameView comment says `release()` is called
  in core thread context. A view whose enqueue fails with `QUEUE_FULL` on
  the provider's callback context never reaches the core thread, so its
  buffer leaks. The spec's "released exactly once by whichever party last
  holds it" needs a release on the callback context, which contradicts the
  header.
- **shutdown_reply**: shutdown stops accepting new commands, but the
  sequence never drains or rejects commands already in `cmd_queue`. It
  also misses those whose host thread passed the accepting check just
  before shutdown. Those commands are never replied, while spec 4.G says
  every command completes.
- **member_reengage**: rig authority restricts members' streams and
  captures but not `disengage_device`. A member torn down mid-capture and
  re-engaged has no record of the rig's capture, contrary to spec 8.8.

## 9. Not modelled, and why

- Profile validation and compatibility: pure, input-dependent denials that
  change no state.
- `to_string(ProviderError)`: a total switch, no state.
- Naming and repo-structure docs, and the doc tooling scripts: no
  behaviour.
- `QUEUE_FULL` on `evt_queue` for lifecycle events (confirmations,
  capture completions). The callbacks of `IProviderCallbacks` return
  `void`, so the provider cannot learn that an event was refused, and the
  docs say nothing of what happens then. A lost `on_capture_completed`
  would simply violate `CaptureEventuallyEnds`. Showing that needs a
  violation run, and the project is at its run budget: the twelve runs
  hold the findings of section 8 and the pass runs. The same drop for
  frames is modelled (`FrameRelease`).
- Drain caps (`DRAIN_MAX`): the v1 default is a full drain, which is what
  `CoreLoop` does; no capped value is given.
- `warm_remaining_ms`: display only.
- What the core does when `apply_*_spec_patch` returns an error: neither
  the docs nor spec 4.E say (roll back, retry or record). `SpecStore`
  forwards and does not consult the result; the hazard is listed without
  a property.
- `initialize`, `enumerate_endpoints`, `provider_name`: one-time setup
  and queries with no state the core's properties depend on.
- `abort_capture`: the header and spec 4.C declare it (best effort, may
  return `ERR_NOT_SUPPORTED`), but no part of the docs says when the core
  calls it; in v1 in-flight captures end only by provider completion or
  error.
- `on_capture_started`: the docs give it no transition (the rig moves to
  COLLECTING on the first member frame). Handling it would be a no-op
  event in `Arbitration`.
- A FrameView with no release hook: the header allows it (`if (release)`),
  but says nothing of who then owns the buffer.
- The registry's owners are device instances only. Rig- and stream-owned
  records, and the type, byte and buffer fields, change no behaviour of
  the registry.
