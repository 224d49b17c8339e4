----------------------------- MODULE Arbitration -----------------------------
(***************************************************************************)
(* CamBANG core state machines (device instance, stream, still capture,   *)
(* rig) and the v1 arbitration / preemption rules, driven by host         *)
(* commands and by the facts a provider reports through its single        *)
(* serialised callback context (src/src/provider/icamera_provider.h).     *)
(*                                                                         *)
(* The provider is the environment.  Each provider method is a synchronous *)
(* call that returns a ProviderResult and reports its effect later on the  *)
(* callback context: the model lets the provider act on a call when it     *)
(* returns and appends the callbacks it will make to `evt` (the core's     *)
(* evt_queue), which the core thread consumes in FIFO order.  A call that  *)
(* fails synchronously is a denial and changes nothing.  Host commands are *)
(* handled one at a time by the core thread, in no fixed cross-thread      *)
(* order.                                                                  *)
(***************************************************************************)
EXTENDS Naturals, Sequences, FiniteSets, SequencesExt

CONSTANTS
  HwIds,        \* hardware_ids reported by enumerate_endpoints
  RigMembers,   \* member_hardware_ids of the rig (fixed while it exists)
  MaxInstance,  \* bound: instance ids the core may issue
  MaxStream,    \* bound: stream ids the core may issue
  MaxCapture,   \* bound: capture ids the core may issue
  Intents,      \* StreamIntent values offered to create_stream (PREVIEW, VIEWFINDER)
  EvtCap        \* bound: host commands and provider-initiated reports are
                \* taken only while evt_queue stays within EvtCap events

\* enum class StreamIntent: the public intents of a repeating stream.
StreamIntent == {"PREVIEW", "VIEWFINDER"}

ASSUME RigMembers \subseteq HwIds
ASSUME Intents \subseteq StreamIntent /\ Intents # {}
ASSUME \A n \in {MaxInstance, MaxCapture, EvtCap} : n \in Nat \ {0}
ASSUME MaxStream \in Nat

Inst      == 1..MaxInstance
StreamId  == 1..MaxStream
CaptureId == 1..MaxCapture

Phases      == {"NONE", "CREATED", "LIVE", "TEARING_DOWN", "DESTROYED"}
DevModes    == {"IDLE", "STREAMING", "CAPTURING", "ERROR"}
StreamModes == {"STOPPED", "FLOWING", "STARVED", "ERROR"}
StopReasons == {"NONE", "USER", "PREEMPTED", "PROVIDER"}
RigModes    == {"OFF", "ARMED", "TRIGGERING", "COLLECTING", "ERROR"}
\* ProviderError abstracted to what ProviderResult::ok() tells apart.
Results     == {"OK", "ERR"}

VARIABLES
  dev,      \* [Inst -> device instance state]
  stream,   \* [StreamId -> stream state]
  capture,  \* [CaptureId -> still capture state]
  rig,      \* the rig: mode and active_capture_id
  ids,      \* ID allocator: next id per identity space
  evt,      \* evt_queue: provider -> core events, FIFO
  prov      \* provider-side facts: open instances, running streams,
            \* failed instances, captures triggered and not yet reported

vars == <<dev, stream, capture, rig, ids, evt, prov>>

Call(op, id)        == [op |-> op, id |-> id, dev |-> 0]
Event(ev, id, arg)  == [ev |-> ev, id |-> id, arg |-> arg]

(***************************************************************************)
(* Helpers over a candidate state (d, st): a handler builds its result    *)
(* step by step, including the provider calls it makes, and assigns it.   *)
(***************************************************************************)
Running(st, s)     == st[s].phase = "LIVE" /\ st[s].mode \in {"FLOWING", "STARVED"}
RunningOf(st, D)   == {s \in StreamId : st[s].dev \in D /\ Running(st, s)}
OpenStreamsOf(i)   == {s \in StreamId : stream[s].dev = i /\ stream[s].phase \in {"CREATED", "LIVE"}}
InUse(d, st, i)    == d[i].mode = "CAPTURING" \/ RunningOf(st, {i}) # {}
\* Mode a device returns to when a capture ends (spec S2: IDLE once its
\* repeating stream was preempted).
EndMode(st, i)     == IF RunningOf(st, {i}) # {} THEN "STREAMING" ELSE "IDLE"

\* Preemption order: PREVIEW before VIEWFINDER, then by stream_id.
PreemptBefore(a, b) == \/ stream[a].intent = "PREVIEW" /\ stream[b].intent = "VIEWFINDER"
                       \/ stream[a].intent = stream[b].intent /\ a < b
\* One call per id of the sequence q, in that order.
CallsFor(op, q) == [k \in DOMAIN q |-> Call(op, q[k])]
EventsFor(ev, S, arg) ==
  LET q == SetToSortSeq(S, <) IN [k \in DOMAIN q |-> Event(ev, q[k], arg)]

\* Teardown of instances D: stop streams if any, close device.
Teardown(D, d, st) ==
  LET run == RunningOf(st, D)
  IN [dev    |-> [i \in Inst |-> IF i \in D
                                 THEN [d[i] EXCEPT !.phase = "TEARING_DOWN", !.warm = FALSE]
                                 ELSE d[i]],
      stream |-> [s \in StreamId |-> IF s \in run THEN [st[s] EXCEPT !.stopReq = "USER"]
                                                  ELSE st[s]],
      calls  |-> CallsFor("stop_stream", SetToSortSeq(run, <))
                   \o CallsFor("close_device", SetToSortSeq(D, <))]

\* Devices of D that just stopped being in use: schedule warm expiry if
\* warm_hold_ms > 0, otherwise full teardown immediately.
AfterUse(D, d, st) ==
  LET idle == {i \in D : d[i].phase = "LIVE" /\ ~InUse(d, st, i)}
      hold == {i \in idle : d[i].warmHold}
      r    == Teardown(idle \ hold, d, st)
  IN [r EXCEPT !.dev = [i \in Inst |-> IF i \in hold THEN [@[i] EXCEPT !.warm = TRUE]
                                                     ELSE @[i]]]

(***************************************************************************)
(* The provider (environment).  Exec is what it does with one call: its   *)
(* new state and the callbacks it will make; `ok` chooses between the     *)
(* success and the failure it may report asynchronously.                 *)
(***************************************************************************)
\* The provider learns each stream's instance from its StreamRequest.
StreamsAt(i) == {s \in StreamId : stream[s].dev = i}
Out(p, evs) == [p |-> p, evs |-> evs]

Exec(p, c, ok) ==
  CASE c.op = "open_device" ->
         IF ok THEN Out([p EXCEPT !.open = @ \cup {c.id}], <<Event("on_device_opened", c.id, "OK")>>)
               ELSE Out(p, <<Event("on_device_error", c.id, "ERR")>>)
    [] c.op = "close_device" ->
         LET r == p.running \cap StreamsAt(c.id)
         IN Out([p EXCEPT !.open = @ \ {c.id}, !.running = @ \ r],
                EventsFor("on_stream_stopped", r, "OK") \o <<Event("on_device_closed", c.id, "OK")>>)
    [] c.op = "create_stream" ->
         Out(p, <<IF ok THEN Event("on_stream_created", c.id, "OK")
                        ELSE Event("on_stream_error", c.id, "ERR")>>)
    [] c.op = "destroy_stream" ->
         Out([p EXCEPT !.running = @ \ {c.id}],
             EventsFor("on_stream_stopped", p.running \cap {c.id}, "OK")
               \o <<Event("on_stream_destroyed", c.id, "OK")>>)
    [] c.op = "start_stream" ->
         IF c.id \in p.running THEN Out(p, <<>>)
         ELSE IF ok /\ stream[c.id].dev \in p.open
              THEN Out([p EXCEPT !.running = @ \cup {c.id}], <<Event("on_stream_started", c.id, "OK")>>)
              ELSE Out(p, <<Event("on_stream_error", c.id, "ERR")>>)
    [] c.op = "stop_stream" ->
         Out([p EXCEPT !.running = @ \ {c.id}], EventsFor("on_stream_stopped", p.running \cap {c.id}, "OK"))
    [] c.op = "trigger_capture" ->
         IF c.dev \in p.open
         THEN Out([p EXCEPT !.shots = @ \cup {<<c.id, c.dev>>}], <<>>)
         ELSE Out(p, <<Event("on_capture_failed", c.id, "ERR")>>)

RECURSIVE ExecAll(_, _, _)
ExecAll(p, cs, oks) ==
  IF cs = <<>> THEN Out(p, <<>>)
  ELSE LET h == Exec(p, Head(cs), Head(oks))
           t == ExecAll(h.p, Tail(cs), Tail(oks))
       IN Out(t.p, h.evs \o t.evs)

\* The core makes the calls cs, in order; q is evt_queue before the calls.
CallProvider(q, cs) ==
  \E oks \in [1..Len(cs) -> BOOLEAN] :
    LET r == ExecAll(prov, cs, oks) IN prov' = r.p /\ evt' = q \o r.evs

\* Assign a candidate state and make its provider calls.
Apply(q, r) == dev' = r.dev /\ stream' = r.stream /\ CallProvider(q, r.calls)

\* A host command is taken only while evt_queue has room for what it causes.
Room == Len(evt') <= EvtCap

NoDev    == [hw |-> "none", phase |-> "NONE", mode |-> "IDLE",
             warmHold |-> FALSE, warm |-> FALSE]
NoStream == [dev |-> 0, intent |-> "PREVIEW", phase |-> "NONE", mode |-> "STOPPED",
             reason |-> "NONE", stopReq |-> "NONE"]
NoCapture == [devs |-> {}, rig |-> FALSE, left |-> 0, status |-> "NONE"]

Init ==
  /\ dev     = [i \in Inst |-> NoDev]
  /\ stream  = [s \in StreamId |-> NoStream]
  /\ capture = [c \in CaptureId |-> NoCapture]
  /\ rig     = [mode |-> "OFF", active |-> 0]
  /\ ids     = [inst |-> 1, stream |-> 1, capture |-> 1]
  /\ evt     = <<>>
  /\ prov    = [open |-> {}, running |-> {}, failed |-> {}, shots |-> {}]

ArmedModes  == {"ARMED", "TRIGGERING", "COLLECTING"}
\* Instances currently standing for the rig's member hardware.
MemberInsts == {i \in Inst : dev[i].hw \in RigMembers /\ dev[i].phase \in {"CREATED", "LIVE"}}
InFlightOn(D) == \E c \in CaptureId : capture[c].status = "IN_FLIGHT" /\ capture[c].devs \cap D # {}

(***************************************************************************)
(* Host commands (core side of cmd_queue).  A denied command changes no   *)
(* state, so only the accepted path of each command is a step.            *)
(***************************************************************************)
\* engage_device: re-engaging an instance in warm hold cancels the warm
\* timer; otherwise issue a new instance_id and open_device it.
EngageDevice(h) ==
  LET cur == {i \in Inst : dev[i].hw = h /\ dev[i].phase \in {"CREATED", "LIVE"}}
  IN \/ /\ \E i \in cur : dev[i].warm
        /\ dev' = [i \in Inst |-> IF i \in cur THEN [dev[i] EXCEPT !.warm = FALSE] ELSE dev[i]]
        /\ UNCHANGED <<stream, capture, rig, ids, evt, prov>>
     \/ /\ cur = {}
        /\ ids.inst <= MaxInstance
        /\ dev' = [dev EXCEPT ![ids.inst] = [NoDev EXCEPT !.hw = h, !.phase = "CREATED"]]
        /\ ids' = [ids EXCEPT !.inst = @ + 1]
        /\ CallProvider(evt, <<Call("open_device", ids.inst)>>)
        /\ Room
        /\ UNCHANGED <<stream, capture, rig>>

\* set_warm_policy(instance_id, warm_hold_ms): only "> 0" matters.
SetWarmPolicy(i) ==
  /\ dev[i].phase \in {"CREATED", "LIVE"}
  /\ dev' = [dev EXCEPT ![i].warmHold = ~@]
  /\ UNCHANGED <<stream, capture, rig, ids, evt, prov>>

\* disengage_device: warm hold, or full teardown immediately.
DisengageDevice(i) ==
  /\ dev[i].phase \in {"CREATED", "LIVE"}
  /\ ~dev[i].warm
  /\ IF dev[i].warmHold
     THEN /\ dev' = [dev EXCEPT ![i].warm = TRUE]
          /\ UNCHANGED <<stream, evt, prov>>
     ELSE Apply(evt, Teardown({i}, dev, stream)) /\ Room
  /\ UNCHANGED <<capture, rig, ids>>

\* Warm-expiry timer: core initiates teardown of the instance.
WarmExpire(i) ==
  /\ dev[i].warm
  /\ Apply(evt, Teardown({i}, dev, stream))
  /\ Room
  /\ UNCHANGED <<capture, rig, ids>>

\* create_stream: another stream on this instance is denied ERR_BUSY
\* unless the request is an explicit replace (stop old, destroy old).
\* Profile validation and rig compatibility are input-dependent denials.
CreateStream(i, intent) ==
  LET s   == ids.stream
      old == OpenStreamsOf(i)
      run == RunningOf(stream, old)
  IN /\ dev[i].phase = "LIVE"
     /\ s <= MaxStream
     /\ stream' = [t \in StreamId |->
                    IF t = s THEN [NoStream EXCEPT !.dev = i, !.intent = intent, !.phase = "CREATED"]
                    ELSE IF t \in old THEN [stream[t] EXCEPT !.phase = "TEARING_DOWN", !.stopReq = "USER"]
                    ELSE stream[t]]
     /\ CallProvider(evt, CallsFor("stop_stream", SetToSortSeq(run, <))
                            \o CallsFor("destroy_stream", SetToSortSeq(old, <))
                            \o <<Call("create_stream", s)>>)
     /\ Room
     /\ dev' = [dev EXCEPT ![i].warm = FALSE]
     /\ ids' = [ids EXCEPT !.stream = @ + 1]
     /\ UNCHANGED <<capture, rig>>

DestroyStream(s) ==
  /\ stream[s].phase \in {"CREATED", "LIVE"}
  /\ stream' = [stream EXCEPT ![s].phase = "TEARING_DOWN", ![s].stopReq = "USER"]
  /\ CallProvider(evt, <<Call("destroy_stream", s)>>)
  /\ Room
  /\ UNCHANGED <<dev, capture, rig, ids>>

\* start_stream: ERR_BAD_STATE while a capture is in flight on the device,
\* or on any rig member while the rig is armed.  FLOWING is entered only
\* when the provider confirms with on_stream_started.
StartStream(s) ==
  LET i     == stream[s].dev
      scope == IF dev[i].hw \in RigMembers /\ rig.mode \in ArmedModes THEN MemberInsts \cup {i} ELSE {i}
  IN /\ stream[s].phase = "LIVE"
     /\ stream[s].mode = "STOPPED"
     /\ ~InFlightOn(scope)
     /\ CallProvider(evt, <<Call("start_stream", s)>>)
     /\ Room
     /\ dev' = [dev EXCEPT ![i].warm = FALSE]
     /\ UNCHANGED <<stream, capture, rig, ids>>

\* stop_stream: the core records its intent; STOPPED follows on_stream_stopped.
StopStream(s) ==
  /\ stream[s].phase = "LIVE"
  /\ stream[s].mode # "STOPPED"
  /\ stream' = [stream EXCEPT ![s].stopReq = "USER"]
  /\ CallProvider(evt, <<Call("stop_stream", s)>>)
  /\ Room
  /\ UNCHANGED <<dev, capture, rig, ids>>

\* Preempt the running repeating streams of D: the core marks them STOPPED
\* (PREEMPTED) at decision time and calls stop_stream, in preemption order.
Preempt(D) ==
  LET run == RunningOf(stream, D)
  IN [stream |-> [s \in StreamId |->
                   IF s \in run
                   THEN [stream[s] EXCEPT !.mode = "STOPPED", !.reason = "PREEMPTED",
                                          !.stopReq = "PREEMPTED"]
                   ELSE stream[s]],
      calls  |-> CallsFor("stop_stream", SetToSortSeq(run, PreemptBefore))]

TriggerCalls(c, D) ==
  LET q == SetToSortSeq(D, <)
  IN [k \in DOMAIN q |-> [op |-> "trigger_capture", id |-> c, dev |-> q[k]]]

\* Accept a capture on instances D expecting n completions: preempt, issue
\* one capture_id for the whole set, devices CAPTURING (warm timers
\* cancelled), trigger_capture on each.
AcceptCaptureExpecting(c, D, isRig, n) ==
  LET p == Preempt(D)
  IN /\ stream'  = p.stream
     /\ CallProvider(evt, p.calls \o TriggerCalls(c, D))
     /\ Room
     /\ dev'     = [i \in Inst |-> IF i \in D
                                   THEN [dev[i] EXCEPT !.mode = "CAPTURING", !.warm = FALSE]
                                   ELSE dev[i]]
     /\ capture' = [capture EXCEPT ![c] = [devs |-> D, rig |-> isRig,
                                           left |-> n, status |-> "IN_FLIGHT"]]
     /\ ids'     = [ids EXCEPT !.capture = @ + 1]

\* Mutant: one completion too many expected for the capture set.
AcceptCaptureLeftOffByOne(c, D, isRig) == AcceptCaptureExpecting(c, D, isRig, Cardinality(D) + 1)

\* Mutant: one completion too few expected for the capture set.
AcceptCaptureLeftShort(c, D, isRig) == AcceptCaptureExpecting(c, D, isRig, Cardinality(D) - 1)

\* One completion is expected from each instance of the capture set.
AcceptCapture(c, D, isRig) == AcceptCaptureExpecting(c, D, isRig, Cardinality(D))

\* trigger_device_capture: a member of an armed rig is denied
\* ERR_RIG_AUTHORITATIVE (v1 default); otherwise preempt and accept.
TriggerDeviceCapture(i) ==
  /\ dev[i].phase = "LIVE"
  /\ dev[i].mode \in {"IDLE", "STREAMING"}
  /\ ~(dev[i].hw \in RigMembers /\ rig.mode \in ArmedModes)
  /\ ids.capture <= MaxCapture
  /\ AcceptCapture(ids.capture, {i}, FALSE)
  /\ UNCHANGED rig

\* trigger_rig_sync_capture: rig ARMED and every member LIVE and not
\* capturing; one capture_id shared by all members; ARMED -> TRIGGERING.
TriggerRigSyncCapture ==
  LET D == {i \in MemberInsts : dev[i].phase = "LIVE"}
  IN /\ rig.mode = "ARMED"
     /\ \A h \in RigMembers : \E i \in D : dev[i].hw = h
     /\ \A i \in D : dev[i].mode \in {"IDLE", "STREAMING"}
     /\ ids.capture <= MaxCapture
     /\ AcceptCapture(ids.capture, D, TRUE)
     /\ rig' = [mode |-> "TRIGGERING", active |-> ids.capture]

ArmRig ==
  /\ rig.mode = "OFF"
  /\ rig' = [rig EXCEPT !.mode = "ARMED"]
  /\ UNCHANGED <<dev, stream, capture, ids, evt, prov>>

\* disarm_rig: ARMED -> OFF, only if no capture in flight.
DisarmRig ==
  /\ rig.mode = "ARMED"
  /\ rig' = [rig EXCEPT !.mode = "OFF"]
  /\ UNCHANGED <<dev, stream, capture, ids, evt, prov>>

(***************************************************************************)
(* Core timer: stream-starvation watchdog (no frame within STARVE_MS).    *)
(***************************************************************************)
StarveTimeout(s) ==
  /\ stream[s].phase = "LIVE"
  /\ stream[s].mode = "FLOWING"
  /\ stream' = [stream EXCEPT ![s].mode = "STARVED"]
  /\ UNCHANGED <<dev, capture, rig, ids, evt, prov>>

(***************************************************************************)
(* What the provider does on its own account, on its callback context.    *)
(***************************************************************************)
Emit(es) == Len(evt) + Len(es) <= EvtCap /\ evt' = evt \o es

\* A running stream stops or errors on the provider's own account.
ProviderStreamFailure(s) ==
  /\ s \in prov.running
  /\ prov' = [prov EXCEPT !.running = @ \ {s}]
  /\ \/ Emit(<<Event("on_stream_stopped", s, "ERR")>>)
     \/ Emit(<<Event("on_stream_error", s, "ERR")>>)
  /\ UNCHANGED <<dev, stream, capture, rig, ids>>

\* Errors are reported non-spammily (provider_architecture 8): at most one
\* device error per open instance.
ProviderDeviceError(i) ==
  /\ i \in prov.open \ prov.failed
  /\ prov' = [prov EXCEPT !.failed = @ \cup {i}]
  /\ Emit(<<Event("on_device_error", i, "ERR")>>)
  /\ UNCHANGED <<dev, stream, capture, rig, ids>>

\* The provider reports one triggered capture of instance i, at a time of
\* its choosing: the capture frame then on_capture_completed, or
\* on_capture_failed.  Members of a rig capture report in any order.
ProviderCaptureOutcome(c, i) ==
  /\ <<c, i>> \in prov.shots
  /\ prov' = [prov EXCEPT !.shots = @ \ {<<c, i>>}]
  /\ \/ Emit(<<Event("on_frame", c, "CAPTURE"), Event("on_capture_completed", c, "OK")>>)
     \/ Emit(<<Event("on_capture_failed", c, "ERR")>>)
  /\ UNCHANGED <<dev, stream, capture, rig, ids>>

ProviderCapture == \E x \in prov.shots : ProviderCaptureOutcome(x[1], x[2])

\* A frame of a running stream; a second frame queued behind an unhandled
\* one changes nothing the core keeps, so at most one is pending.
ProviderStreamFrame(s) ==
  /\ s \in prov.running
  /\ Event("on_frame", s, "STREAM") \notin ToSet(evt)
  /\ Emit(<<Event("on_frame", s, "STREAM")>>)
  /\ UNCHANGED <<dev, stream, capture, rig, ids, prov>>

(***************************************************************************)
(* Core handlers for provider events (IProviderCallbacks).  An event that *)
(* finds the entity in a state with no transition for it changes nothing. *)
(***************************************************************************)
\* The handler consumes the event; only handlers that call the provider
\* change what it runs.
Consume == evt' = Tail(evt) /\ UNCHANGED prov
Ignore  == Consume /\ UNCHANGED <<dev, stream, capture, rig>>

OnDeviceOpened(i) ==
  /\ IF dev[i].phase = "CREATED"
     THEN dev' = [dev EXCEPT ![i].phase = "LIVE"]
     ELSE UNCHANGED dev
  /\ Consume /\ UNCHANGED <<stream, capture, rig>>

OnDeviceClosed(i) ==
  /\ dev' = [dev EXCEPT ![i].phase = "DESTROYED", ![i].warm = FALSE]
  /\ Consume /\ UNCHANGED <<stream, capture, rig>>

OnDeviceError(i) ==
  /\ IF dev[i].phase \in {"CREATED", "LIVE"}
     THEN dev' = [dev EXCEPT ![i].mode = "ERROR"]
     ELSE UNCHANGED dev
  /\ Consume /\ UNCHANGED <<stream, capture, rig>>

OnStreamCreated(s) ==
  /\ IF stream[s].phase = "CREATED"
     THEN stream' = [stream EXCEPT ![s].phase = "LIVE"]
     ELSE UNCHANGED stream
  /\ Consume /\ UNCHANGED <<dev, capture, rig>>

OnStreamDestroyed(s) ==
  /\ stream' = [stream EXCEPT ![s].phase = "DESTROYED"]
  /\ Consume /\ UNCHANGED <<dev, capture, rig>>

\* STOPPED -> FLOWING; the device goes IDLE -> STREAMING.
OnStreamStarted(s) ==
  LET i == stream[s].dev
  IN IF stream[s].phase = "LIVE" /\ stream[s].mode = "STOPPED"
     THEN /\ stream' = [stream EXCEPT ![s].mode = "FLOWING", ![s].reason = "NONE", ![s].stopReq = "NONE"]
          /\ dev' = IF dev[i].mode = "IDLE" THEN [dev EXCEPT ![i].mode = "STREAMING"] ELSE dev
          /\ Consume /\ UNCHANGED <<capture, rig>>
     ELSE Ignore

\* The public stop_reason from the core's intent and the provider's signal.
StopReason(req, r) == IF r = "OK" /\ req # "NONE" THEN req ELSE "PROVIDER"

\* any -> STOPPED; the device leaves STREAMING when its last stream stops,
\* which schedules warm expiry or tears it down.
OnStreamStopped(s, r) ==
  LET i   == stream[s].dev
      st1 == [stream EXCEPT ![s].mode = "STOPPED", ![s].stopReq = "NONE",
                            ![s].reason = StopReason(stream[s].stopReq, r)]
      d1  == IF dev[i].mode = "STREAMING" /\ RunningOf(st1, {i}) = {}
             THEN [dev EXCEPT ![i].mode = "IDLE"] ELSE dev
  IN IF stream[s].phase \in {"CREATED", "LIVE", "TEARING_DOWN"}
     THEN /\ Apply(Tail(evt), AfterUse({i}, d1, st1))
          /\ UNCHANGED <<capture, rig>>
     ELSE Ignore

\* any -> ERROR; a running stream that errors leaves its device as a stop
\* does (STREAMING -> IDLE, then warm expiry or teardown).
OnStreamError(s) ==
  LET i   == stream[s].dev
      st1 == [stream EXCEPT ![s].mode = "ERROR"]
      d1  == IF dev[i].mode = "STREAMING" /\ RunningOf(st1, {i}) = {}
             THEN [dev EXCEPT ![i].mode = "IDLE"] ELSE dev
  IN IF Running(stream, s)
     THEN Apply(Tail(evt), AfterUse({i}, d1, st1)) /\ UNCHANGED <<capture, rig>>
     ELSE stream' = st1 /\ Consume /\ UNCHANGED <<dev, capture, rig>>

\* STARVED -> FLOWING on the next stream frame; TRIGGERING -> COLLECTING on
\* the first member frame of the rig's capture.
OnFrame(id, kind) ==
  \/ /\ kind = "STREAM"
     /\ IF stream[id].phase = "LIVE" /\ stream[id].mode = "STARVED"
        THEN stream' = [stream EXCEPT ![id].mode = "FLOWING"]
        ELSE UNCHANGED stream
     /\ Consume /\ UNCHANGED <<dev, capture, rig>>
  \/ /\ kind = "CAPTURE"
     /\ IF rig.mode = "TRIGGERING" /\ rig.active = id
        THEN rig' = [rig EXCEPT !.mode = "COLLECTING"]
        ELSE UNCHANGED rig
     /\ Consume /\ UNCHANGED <<dev, stream, capture>>

\* Mutant: devices are not returned from CAPTURING when the capture ends.
FinishCaptureNoRestore(c, status) ==
  LET D  == capture[c].devs
      d1 == dev
  IN /\ capture' = [capture EXCEPT ![c].status = status, ![c].left = 0]
     /\ rig' = IF rig.active = c
               THEN [mode |-> IF status = "COMPLETED" THEN "ARMED" ELSE "ERROR", active |-> 0]
               ELSE rig
     /\ Apply(Tail(evt), AfterUse(D, d1, stream))

\* Mutant: the rig leaves its capture only on success, not on failure.
FinishCaptureRigOnlyOnSuccess(c, status) ==
  LET D  == capture[c].devs
      d1 == [i \in Inst |-> IF i \in D /\ dev[i].mode = "CAPTURING"
                            THEN [dev[i] EXCEPT !.mode = EndMode(stream, i)] ELSE dev[i]]
  IN /\ capture' = [capture EXCEPT ![c].status = status, ![c].left = 0]
     /\ rig' = IF rig.active = c /\ status = "COMPLETED"
               THEN [mode |-> IF status = "COMPLETED" THEN "ARMED" ELSE "ERROR", active |-> 0]
               ELSE rig
     /\ Apply(Tail(evt), AfterUse(D, d1, stream))

\* A capture ends: CAPTURING -> previous on every device of the capture,
\* the rig leaves its capture (COLLECTING -> ARMED, or -> ERROR on failure).
FinishCapture(c, status) ==
  LET D  == capture[c].devs
      d1 == [i \in Inst |-> IF i \in D /\ dev[i].mode = "CAPTURING"
                            THEN [dev[i] EXCEPT !.mode = EndMode(stream, i)] ELSE dev[i]]
  IN /\ capture' = [capture EXCEPT ![c].status = status, ![c].left = 0]
     /\ rig' = IF rig.active = c
               THEN [mode |-> IF status = "COMPLETED" THEN "ARMED" ELSE "ERROR", active |-> 0]
               ELSE rig
     /\ Apply(Tail(evt), AfterUse(D, d1, stream))

\* on_capture_completed carries only the capture_id: a rig capture is done
\* when as many completions as members have arrived.
OnCaptureCompleted(c) ==
  IF capture[c].status # "IN_FLIGHT" THEN Ignore
  ELSE IF capture[c].left > 1
       THEN /\ capture' = [capture EXCEPT ![c].left = @ - 1]
            /\ Consume /\ UNCHANGED <<dev, stream, rig>>
       ELSE FinishCapture(c, "COMPLETED")

\* Mutant: on_capture_failed ignored (e.g. when no on_capture_started came first).
OnCaptureFailedIgnored(c) == Ignore

\* Tolerated without a prior on_capture_started.
OnCaptureFailed(c) ==
  IF capture[c].status = "IN_FLIGHT" THEN FinishCapture(c, "FAILED") ELSE Ignore

Dispatch(e) ==
  \/ e.ev = "on_device_opened"     /\ OnDeviceOpened(e.id)
  \/ e.ev = "on_device_closed"     /\ OnDeviceClosed(e.id)
  \/ e.ev = "on_device_error"      /\ OnDeviceError(e.id)
  \/ e.ev = "on_stream_created"    /\ OnStreamCreated(e.id)
  \/ e.ev = "on_stream_destroyed"  /\ OnStreamDestroyed(e.id)
  \/ e.ev = "on_stream_started"    /\ OnStreamStarted(e.id)
  \/ e.ev = "on_stream_stopped"    /\ OnStreamStopped(e.id, e.arg)
  \/ e.ev = "on_stream_error"      /\ OnStreamError(e.id)
  \/ e.ev = "on_frame"             /\ OnFrame(e.id, e.arg)
  \/ e.ev = "on_capture_completed" /\ OnCaptureCompleted(e.id)
  \/ e.ev = "on_capture_failed"    /\ OnCaptureFailed(e.id)

\* The core thread takes the oldest event from evt_queue.
HandleEvent ==
  /\ evt # <<>>
  /\ Dispatch(Head(evt))
  /\ UNCHANGED ids

Command ==
  \/ \E h \in HwIds : EngageDevice(h)
  \/ \E i \in Inst : \/ SetWarmPolicy(i)
                     \/ DisengageDevice(i)
                     \/ \E intent \in Intents : CreateStream(i, intent)
                     \/ TriggerDeviceCapture(i)
  \/ \E s \in StreamId : StartStream(s) \/ StopStream(s) \/ DestroyStream(s)
  \/ ArmRig \/ DisarmRig \/ TriggerRigSyncCapture

Timer ==
  \/ \E i \in Inst : WarmExpire(i)
  \/ \E s \in StreamId : StarveTimeout(s)

Provider ==
  \/ \E s \in StreamId : ProviderStreamFailure(s) \/ ProviderStreamFrame(s)
  \/ \E i \in Inst : ProviderDeviceError(i)
  \/ ProviderCapture

Next == Command \/ Timer \/ HandleEvent \/ Provider

\* The core thread drains evt_queue whenever it is non-empty.  A provider
\* reports every capture it accepted (4.3: no indefinite blocking); the
\* report waits while evt_queue is full, so it is strongly fair.
Fairness == WF_vars(HandleEvent) /\ SF_vars(ProviderCapture)

Spec == Init /\ [][Next]_vars /\ Fairness

(***************************************************************************)
(* Properties                                                              *)
(***************************************************************************)
EventKinds == {"on_device_opened", "on_device_closed", "on_device_error",
               "on_stream_created", "on_stream_destroyed", "on_stream_started",
               "on_stream_stopped", "on_stream_error", "on_frame",
               "on_capture_completed", "on_capture_failed"}

TypeOK ==
  /\ dev \in [Inst -> [hw: HwIds \cup {"none"}, phase: Phases, mode: DevModes, warmHold: BOOLEAN, warm: BOOLEAN]]
  /\ stream \in [StreamId -> [dev: Inst \cup {0}, intent: {"PREVIEW", "VIEWFINDER"}, phase: Phases,
                              mode: StreamModes, reason: StopReasons,
                              stopReq: {"NONE", "USER", "PREEMPTED"}]]
  /\ capture \in [CaptureId -> [devs: SUBSET Inst, rig: BOOLEAN, left: 0..MaxInstance,
                                status: {"NONE", "IN_FLIGHT", "COMPLETED", "FAILED"}]]
  /\ rig \in [mode: RigModes, active: CaptureId \cup {0}]
  /\ ids \in [inst: 1..MaxInstance + 1, stream: 1..MaxStream + 1, capture: 1..MaxCapture + 1]
  /\ evt \in Seq([ev: EventKinds, id: Nat, arg: Results \cup {"STREAM", "CAPTURE"}])
  /\ prov \in [open: SUBSET Inst, running: SUBSET StreamId, failed: SUBSET Inst,
              shots: SUBSET (CaptureId \X Inst)]

\* Arbitration policy 6.1/6.3: while a triggered capture (device or rig) is
\* in flight, no repeating stream on an affected device is flowing.
NoStreamDuringCapture ==
  \A c \in CaptureId, s \in StreamId :
    capture[c].status = "IN_FLIGHT" /\ stream[s].dev \in capture[c].devs
      => ~Running(stream, s)

\* Once the core has no provider event left to handle and the provider no
\* capture left to report, the core's view of the devices and captures is
\* the provider's: the open devices are the LIVE instances and no capture
\* is left in flight.
Quiescent == evt = <<>> /\ prov.shots = {}
QuiescentAgreement ==
  Quiescent =>
    /\ \A i \in Inst : i \in prov.open <=> dev[i].phase = "LIVE"
    /\ \A c \in CaptureId : capture[c].status # "IN_FLIGHT"
    /\ \A i \in Inst : dev[i].mode # "CAPTURING"

\* Likewise for streams: at quiescence the streams the provider runs are
\* exactly those the core shows FLOWING or STARVED.
QuiescentStreamAgreement ==
  Quiescent => \A s \in StreamId : s \in prov.running <=> Running(stream, s)

\* The rig and the capture table agree: the rig is TRIGGERING or COLLECTING
\* exactly while its active_capture_id names an in-flight rig capture, and
\* no other rig capture is in flight, whatever order the member
\* completions, failures and frames arrive in.
RigCaptureConsistent ==
  /\ rig.mode \in {"TRIGGERING", "COLLECTING"} <=>
       rig.active # 0 /\ capture[rig.active].status = "IN_FLIGHT"
  /\ \A c \in CaptureId :
       capture[c].rig /\ capture[c].status = "IN_FLIGHT" => rig.active = c

\* on_capture_completed carries only the capture_id (icamera_provider.h
\* 45), so the core counts completions: a capture is COMPLETED only once
\* every instance it was triggered on has reported, whatever order the
\* members' outcomes reach evt_queue in and whatever commands and events
\* come between them; nothing of it is still to be reported or handled.
CompletedAfterEveryMember ==
  \A c \in CaptureId : capture[c].status = "COMPLETED" =>
    /\ \A i \in Inst : <<c, i>> \notin prov.shots
    /\ \A k \in DOMAIN evt :
         evt[k].ev \in {"on_capture_completed", "on_capture_failed"} => evt[k].id # c

\* Spec 8.8: while the rig is TRIGGERING or COLLECTING, every member device
\* (the instance currently engaged for each member hardware_id) has a
\* capture record with the shared capture_id.
RigCaptureCoversMembers ==
  rig.mode \in {"TRIGGERING", "COLLECTING"} =>
    \A i \in MemberInsts : i \in capture[rig.active].devs

\* Every accepted capture eventually completes or fails (v1 has no core
\* timeout: this rests on the provider reporting the outcome).
CaptureEventuallyEnds ==
  \A c \in CaptureId : capture[c].status = "IN_FLIGHT" ~> capture[c].status \in {"COMPLETED", "FAILED"}
=============================================================================
