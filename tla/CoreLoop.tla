------------------------------ MODULE CoreLoop ------------------------------
(***************************************************************************)
(* The core thread's event loop and its deterministic shutdown            *)
(* (core_runtime_model.md 3, 4, 10).  One iteration waits, drains          *)
(* provider events, drains commands and publishes if dirty.  Shutdown     *)
(* stops accepting commands, notifies the loop, drains events, stops      *)
(* streams, tears devices down, shuts the provider down, publishes a      *)
(* final snapshot and exits.                                               *)
(*                                                                         *)
(* Each device instance has one repeating stream.  Commands are            *)
(* start_stream, stop_stream, disengage and engage; the arbitration       *)
(* behind them is module Arbitration.  An instance with warm_hold_ms > 0  *)
(* is held warm on disengage: a warm-expiry timer is scheduled on the     *)
(* timer_heap, cancelled by re-engaging, and its firing in the timer      *)
(* phase of the loop tears the instance down (core_runtime_model.md 8.1). *)
(* Time is a clock of ticks; warm_hold_ms is Hold ticks.                   *)
(* A host thread submits a command in two steps, the check of the         *)
(* accepting flag and the enqueue; cmd_queue is bounded and a full queue   *)
(* answers QUEUE_FULL instead of blocking (spec 4.C, 5).                   *)
(***************************************************************************)
EXTENDS Naturals, Sequences, SequencesExt

CONSTANTS
  Devs,        \* device instance ids, all LIVE when the loop starts
  MaxCmd,      \* commands submitted in one behaviour (ids 1..MaxCmd)
  CmdCap,      \* capacity of cmd_queue
  WarmHold,    \* instances whose warm_hold_ms is > 0
  Hold,        \* warm_hold_ms, in clock ticks
  MaxTime      \* bound: the clock stops at MaxTime

ASSUME MaxCmd \in Nat \ {0} /\ WarmHold \subseteq Devs
ASSUME Hold \in Nat \ {0} /\ MaxTime \in Nat /\ CmdCap \in Nat \ {0}

CmdIds == 1..MaxCmd
Ops    == {"start_stream", "stop_stream", "disengage", "engage"}
Loop   == {"WAIT", "EVENTS", "COMMANDS", "TIMERS", "PUBLISH"}
Halt   == {"SD_EVENTS", "SD_STOP", "SD_CLOSE", "SD_PROVIDER", "SD_PUBLISH", "EXITED"}

VARIABLES
  pc,          \* where the core thread is
  accepting,   \* commands are accepted (cleared by shutdown)
  shutdownReq, \* shutdown requested (the loop is notified)
  nextCmd,     \* next command id a host thread uses
  checked,     \* commands that passed the accepting check, not yet enqueued
  cmdq,        \* cmd_queue
  replied,     \* commands whose reply was posted
  dev,         \* instance -> [phase, stream, warm] as the core keeps it
  prov,        \* the provider: open instances, running streams, shut down
  evt,         \* evt_queue
  dirty,
  pub,         \* the devices of the snapshot CamBANGServer holds
  now,         \* monotonic clock
  timers,      \* timer_heap
  timerOf,     \* instance -> handle of its warm-expiry timer (0: none)
  since        \* instance -> time its warm hold began (history, for checking)

timeVars == <<now, timers, timerOf, since>>
vars == <<pc, accepting, shutdownReq, nextCmd, checked, cmdq, replied, dev, prov, evt, dirty, pub,
          now, timers, timerOf, since>>

TH == INSTANCE TimerHeap

Cmd(id, op, d) == [id |-> id, op |-> op, d |-> d]
Ev(ev, d)      == [ev |-> ev, d |-> d]

\* Callbacks for a set of instances, in instance order.
EventsFor(ev, D) == LET q == SetToSortSeq(D, <) IN [k \in DOMAIN q |-> Ev(ev, q[k])]

\* Snapshot contents the loop publishes: the core's device view.
Build == dev

-----------------------------------------------------------------------------
(* Command execution (the accepted path; a denial only replies).  Provider *)
(* calls return at once and queue their callbacks.                         *)
(* start_stream: the stream stays STOPPED until on_stream_started.         *)
(* A provider already running the stream reports nothing new.  A new      *)
(* stream on an instance in warm hold cancels its warm timer (spec 4.J). *)
StartStream(d) ==
  /\ dev[d].phase = "LIVE" /\ dev[d].stream = "STOPPED"
  /\ IF d \in prov.running
     THEN UNCHANGED <<prov, evt>>
     ELSE /\ prov' = [prov EXCEPT !.running = @ \cup {d}]
          /\ evt' = Append(evt, Ev("on_stream_started", d))
  /\ dev' = [dev EXCEPT ![d].warm = FALSE]
  /\ timers' = TH!Cancel(timers, timerOf[d])
  /\ timerOf' = [timerOf EXCEPT ![d] = 0]

(* stop_stream: the core marks the stream STOPPED at once.                 *)
StopStream(d) ==
  /\ dev[d].phase = "LIVE" /\ dev[d].stream = "FLOWING"
  /\ dev' = [dev EXCEPT ![d].stream = "STOPPED"]
  /\ prov' = [prov EXCEPT !.running = @ \ {d}]
  /\ evt' = Append(evt, Ev("on_stream_stopped", d))

(* Teardown of instances D, in instance order: stop their streams, close  *)
(* them; DESTROYED comes with on_device_closed.                            *)
Teardown(D) ==
  /\ dev' = [d \in Devs |-> IF d \in D THEN [phase |-> "TEARING_DOWN", stream |-> "STOPPED", warm |-> FALSE]
                                        ELSE dev[d]]
  /\ prov' = [prov EXCEPT !.running = @ \ D, !.open = @ \ D]
  /\ evt' = evt \o EventsFor("on_stream_stopped", D \cap prov.running)
                \o EventsFor("on_device_closed", D)

(* disengage_device: with warm_hold_ms > 0 the instance is held warm and  *)
(* a warm-expiry timer is scheduled at now + warm_hold_ms; otherwise it is *)
(* torn down at once.                                                      *)
Disengage(d) ==
  /\ dev[d].phase = "LIVE" /\ ~dev[d].warm
  /\ IF d \in WarmHold
     THEN /\ dev' = [dev EXCEPT ![d].warm = TRUE]
          /\ timers' = TH!Schedule(timers, now + Hold, d)
          /\ timerOf' = [timerOf EXCEPT ![d] = timers.next]
          /\ since' = [since EXCEPT ![d] = now]
          /\ UNCHANGED <<prov, evt>>
     ELSE Teardown({d}) /\ UNCHANGED <<timers, timerOf, since>>

(* engage_device on an instance in warm hold: cancel its warm timer.       *)
Engage(d) ==
  /\ dev[d].phase = "LIVE" /\ dev[d].warm
  /\ dev' = [dev EXCEPT ![d].warm = FALSE]
  /\ timers' = TH!Cancel(timers, timerOf[d])
  /\ timerOf' = [timerOf EXCEPT ![d] = 0]
  /\ UNCHANGED <<prov, evt, since>>

Execute(c) ==
  \/ c.op = "start_stream" /\ StartStream(c.d) /\ UNCHANGED since
  \/ c.op = "stop_stream"  /\ StopStream(c.d) /\ UNCHANGED <<timers, timerOf, since>>
  \/ c.op = "disengage"    /\ Disengage(c.d)
  \/ c.op = "engage"       /\ Engage(c.d)

Denied(c) == ~ENABLED Execute(c)

(* Provider event handlers.                                                *)
Handle(e) ==
  CASE e.ev = "on_stream_started" ->
         IF dev[e.d].phase = "LIVE" /\ dev[e.d].stream = "STOPPED"
         THEN dev' = [dev EXCEPT ![e.d].stream = "FLOWING"] ELSE UNCHANGED dev
    [] e.ev = "on_stream_stopped" ->
         dev' = [dev EXCEPT ![e.d].stream = "STOPPED"]
    [] e.ev = "on_device_closed" ->
         dev' = [dev EXCEPT ![e.d].phase = "DESTROYED"]

-----------------------------------------------------------------------------
Init ==
  /\ pc = "WAIT"
  /\ accepting = TRUE /\ shutdownReq = FALSE
  /\ nextCmd = 1 /\ checked = {} /\ cmdq = <<>> /\ replied = {}
  /\ dev = [d \in Devs |-> [phase |-> "LIVE", stream |-> "STOPPED", warm |-> FALSE]]
  /\ prov = [open |-> Devs, running |-> {}, down |-> FALSE]
  /\ evt = <<>>
  /\ dirty = FALSE
  /\ pub = dev
  /\ now = 0 /\ timers = TH!Empty
  /\ timerOf = [d \in Devs |-> 0] /\ since = [d \in Devs |-> 0]

(* Mutant: command ids are issued without a bound.                        *)
SubmitCheckUnbounded(op, d) ==
  /\ nextCmd' = nextCmd + 1
  /\ IF accepting
     THEN checked' = checked \cup {Cmd(nextCmd, op, d)} /\ UNCHANGED replied
     ELSE replied' = replied \cup {nextCmd} /\ UNCHANGED checked
  /\ UNCHANGED <<pc, accepting, shutdownReq, cmdq, dev, prov, evt, dirty, pub, timeVars>>

(* Host thread: the enqueue API checks the accepting flag; after shutdown *)
(* the command is replied SHUTTING_DOWN at once.                           *)
SubmitCheck(op, d) ==
  /\ nextCmd \in CmdIds
  /\ nextCmd' = nextCmd + 1
  /\ IF accepting
     THEN checked' = checked \cup {Cmd(nextCmd, op, d)} /\ UNCHANGED replied
     ELSE replied' = replied \cup {nextCmd} /\ UNCHANGED checked
  /\ UNCHANGED <<pc, accepting, shutdownReq, cmdq, dev, prov, evt, dirty, pub, timeVars>>

(* Mutant: a command that finds cmd_queue full is lost without a reply.   *)
SubmitEnqueueFullLost(c) ==
  /\ c \in checked
  /\ checked' = checked \ {c}
  /\ IF Len(cmdq) < CmdCap THEN cmdq' = Append(cmdq, c) ELSE UNCHANGED cmdq
  /\ UNCHANGED <<pc, accepting, shutdownReq, nextCmd, replied, dev, prov, evt, dirty, pub, timeVars>>

(* ... and then enqueues (notify), or, with cmd_queue at its capacity,     *)
(* returns QUEUE_FULL to the caller, which is the command's reply.         *)
SubmitEnqueue(c) ==
  /\ c \in checked
  /\ checked' = checked \ {c}
  /\ IF Len(cmdq) < CmdCap
     THEN cmdq' = Append(cmdq, c) /\ UNCHANGED replied
     ELSE replied' = replied \cup {c.id} /\ UNCHANGED cmdq
  /\ UNCHANGED <<pc, accepting, shutdownReq, nextCmd, dev, prov, evt, dirty, pub, timeVars>>

(* Shutdown steps 1-2: stop accepting, notify the loop.                    *)
RequestShutdown ==
  /\ ~shutdownReq
  /\ accepting' = FALSE /\ shutdownReq' = TRUE
  /\ UNCHANGED <<pc, nextCmd, checked, cmdq, replied, dev, prov, evt, dirty, pub, timeVars>>

(* The provider stops a running stream on its own (on its callback         *)
(* context, concurrently with the core thread).                            *)
ProviderStreamStopped(d) ==
  /\ d \in prov.running /\ ~prov.down
  /\ prov' = [prov EXCEPT !.running = @ \ {d}]
  /\ evt' = Append(evt, Ev("on_stream_stopped", d))
  /\ UNCHANGED <<pc, accepting, shutdownReq, nextCmd, checked, cmdq, replied, dev, dirty, pub, timeVars>>

(* Time passes while the core thread waits; its processing is instant.    *)
Tick ==
  /\ pc = "WAIT"
  /\ now < MaxTime
  /\ now' = now + 1
  /\ UNCHANGED <<pc, accepting, shutdownReq, nextCmd, checked, cmdq, replied, dev, prov, evt, dirty, pub,
                 timers, timerOf, since>>

-----------------------------------------------------------------------------
(* Mutant: the wake condition forgets the shutdown notification.          *)
WakeNoShutdown ==
  /\ pc = "WAIT"
  /\ evt # <<>> \/ cmdq # <<>>
  /\ pc' = IF shutdownReq THEN "SD_EVENTS" ELSE "EVENTS"
  /\ UNCHANGED <<accepting, shutdownReq, nextCmd, checked, cmdq, replied, dev, prov, evt, dirty, pub, timeVars>>

(* Mutant: the wait is untimed; only notifications wake the core.         *)
WakeNoTimer ==
  /\ pc = "WAIT"
  /\ evt # <<>> \/ cmdq # <<>> \/ shutdownReq
  /\ pc' = IF shutdownReq THEN "SD_EVENTS" ELSE "EVENTS"
  /\ UNCHANGED <<accepting, shutdownReq, nextCmd, checked, cmdq, replied, dev, prov, evt, dirty, pub, timeVars>>

(* The core thread.                                                        *)
Wake ==
  /\ pc = "WAIT"
  /\ evt # <<>> \/ cmdq # <<>> \/ shutdownReq \/ TH!DueBy(timers, now)
  /\ pc' = IF shutdownReq THEN "SD_EVENTS" ELSE "EVENTS"
  /\ UNCHANGED <<accepting, shutdownReq, nextCmd, checked, cmdq, replied, dev, prov, evt, dirty, pub, timeVars>>

(* Mutant: an event handler changes state without marking dirty.         *)
DrainEventNoDirty ==
  /\ pc \in {"EVENTS", "SD_EVENTS"}
  /\ evt # <<>>
  /\ Handle(Head(evt))
  /\ evt' = Tail(evt)
  /\ UNCHANGED <<pc, accepting, shutdownReq, nextCmd, checked, cmdq, replied, prov, dirty, pub, timeVars>>

(* Drain provider events in FIFO order (full drain); also shutdown step 3. *)
DrainEvent ==
  /\ pc \in {"EVENTS", "SD_EVENTS"}
  /\ evt # <<>>
  /\ Handle(Head(evt))
  /\ evt' = Tail(evt)
  /\ dirty' = TRUE
  /\ UNCHANGED <<pc, accepting, shutdownReq, nextCmd, checked, cmdq, replied, prov, pub, timeVars>>

EventsDrained ==
  /\ pc \in {"EVENTS", "SD_EVENTS"}
  /\ evt = <<>>
  /\ pc' = IF pc = "EVENTS" THEN "COMMANDS" ELSE "SD_STOP"
  /\ UNCHANGED <<accepting, shutdownReq, nextCmd, checked, cmdq, replied, dev, prov, evt, dirty, pub, timeVars>>

(* Drain commands: execute or deny, and always reply.                      *)
DrainCommand ==
  LET c == Head(cmdq) IN
  /\ pc = "COMMANDS"
  /\ cmdq # <<>>
  /\ cmdq' = Tail(cmdq)
  /\ replied' = replied \cup {c.id}
  /\ \/ Execute(c) /\ dirty' = TRUE
     \/ Denied(c) /\ UNCHANGED <<dev, prov, evt, dirty, timers, timerOf, since>>
  /\ UNCHANGED <<pc, accepting, shutdownReq, nextCmd, checked, pub, now>>

CommandsDrained ==
  /\ pc = "COMMANDS"
  /\ cmdq = <<>>
  /\ pc' = "TIMERS"
  /\ UNCHANGED <<accepting, shutdownReq, nextCmd, checked, cmdq, replied, dev, prov, evt, dirty, pub, timeVars>>

(* Process due timers: pop_due(now); a warm-expiry tag whose instance is  *)
(* still LIVE starts its teardown.                                         *)
ProcessTimers ==
  LET r == TH!PopDue(timers, now)
      D == {d \in Range(r.tags) : dev[d].phase = "LIVE"}
  IN /\ pc = "TIMERS"
     /\ pc' = "PUBLISH"
     /\ timers' = r.heap
     /\ timerOf' = [d \in Devs |-> IF timerOf[d] \in r.popped THEN 0 ELSE timerOf[d]]
     /\ IF D # {} THEN Teardown(D) /\ dirty' = TRUE ELSE UNCHANGED <<dev, prov, evt, dirty>>
     /\ UNCHANGED <<accepting, shutdownReq, nextCmd, checked, cmdq, replied, pub, now, since>>

(* Publish if dirty, once per iteration.                                   *)
Publish ==
  /\ pc = "PUBLISH"
  /\ pc' = "WAIT"
  /\ IF dirty THEN pub' = Build /\ dirty' = FALSE ELSE UNCHANGED <<pub, dirty>>
  /\ UNCHANGED <<accepting, shutdownReq, nextCmd, checked, cmdq, replied, dev, prov, evt, timeVars>>

(* Shutdown step 3 (continued): stop every running stream.                 *)
ShutdownStopStreams ==
  LET run == {d \in Devs : dev[d].phase = "LIVE" /\ dev[d].stream = "FLOWING"} IN
  /\ pc = "SD_STOP"
  /\ dev' = [d \in Devs |-> IF d \in run THEN [dev[d] EXCEPT !.stream = "STOPPED"] ELSE dev[d]]
  /\ prov' = [prov EXCEPT !.running = @ \ run]
  /\ evt' = evt \o EventsFor("on_stream_stopped", run \cap prov.running)
  /\ pc' = "SD_CLOSE"
  /\ dirty' = TRUE
  /\ UNCHANGED <<accepting, shutdownReq, nextCmd, checked, cmdq, replied, pub, timeVars>>

(* Shutdown step 4: tear down every live instance, in instance order.      *)
ShutdownTeardown ==
  LET live == {d \in Devs : dev[d].phase = "LIVE"} IN
  /\ pc = "SD_CLOSE"
  /\ Teardown(live)
  /\ pc' = "SD_PROVIDER"
  /\ dirty' = TRUE
  /\ UNCHANGED <<accepting, shutdownReq, nextCmd, checked, cmdq, replied, pub, timeVars>>

(* Step 5: provider shutdown() stops streams, closes devices, releases     *)
(* everything and makes no further callbacks.                              *)
ProviderShutdown ==
  /\ pc = "SD_PROVIDER"
  /\ prov' = [open |-> {}, running |-> {}, down |-> TRUE]
  /\ pc' = "SD_PUBLISH"
  /\ UNCHANGED <<accepting, shutdownReq, nextCmd, checked, cmdq, replied, dev, evt, dirty, pub, timeVars>>

(* Mutant: the loop exits without the final publish.                      *)
FinalPublishSkipped ==
  /\ pc = "SD_PUBLISH"
  /\ pc' = "EXITED"
  /\ UNCHANGED <<accepting, shutdownReq, nextCmd, checked, cmdq, replied, dev, prov, evt, dirty, pub, timeVars>>

(* Steps 6-8: final sweep (registry: module Registry), final publish, exit. *)
FinalPublish ==
  /\ pc = "SD_PUBLISH"
  /\ pub' = Build /\ dirty' = FALSE
  /\ pc' = "EXITED"
  /\ UNCHANGED <<accepting, shutdownReq, nextCmd, checked, cmdq, replied, dev, prov, evt, timeVars>>

CoreThread ==
  \/ Wake \/ DrainEvent \/ EventsDrained \/ DrainCommand \/ CommandsDrained
  \/ ProcessTimers \/ Publish
  \/ ShutdownStopStreams \/ ShutdownTeardown \/ ProviderShutdown \/ FinalPublish

Next ==
  \/ CoreThread
  \/ \E op \in Ops, d \in Devs : SubmitCheck(op, d)
  \/ \E c \in checked : SubmitEnqueue(c)
  \/ RequestShutdown
  \/ \E d \in Devs : ProviderStreamStopped(d)
  \/ Tick

(* The core thread runs whenever it can (it is woken on every enqueue and  *)
(* on shutdown); a host thread that passed the check completes its         *)
(* non-blocking enqueue; the monotonic clock keeps advancing (up to the    *)
(* bound MaxTime).  Waking at a deadline is the core's job, not fairness'. *)
\* (A command id is used once, so fairness per id is fairness per command.)
Fairness ==
  /\ WF_vars(CoreThread)
  /\ \A i \in CmdIds : WF_vars(\E c \in checked : c.id = i /\ SubmitEnqueue(c))
  /\ WF_vars(Tick)

Spec == Init /\ [][Next]_vars /\ Fairness

-----------------------------------------------------------------------------
DevView == [phase : {"LIVE", "TEARING_DOWN", "DESTROYED"}, stream : {"STOPPED", "FLOWING"},
            warm : BOOLEAN]

TypeOK ==
  /\ pc \in Loop \cup Halt
  /\ accepting \in BOOLEAN /\ shutdownReq \in BOOLEAN
  /\ nextCmd \in 1..(MaxCmd + 1)
  /\ checked \subseteq [id : CmdIds, op : Ops, d : Devs]
  /\ replied \subseteq CmdIds
  /\ dev \in [Devs -> DevView]
  /\ prov.open \subseteq Devs /\ prov.running \subseteq Devs /\ prov.down \in BOOLEAN
  /\ pub \in [Devs -> DevView]
  /\ cmdq \in Seq([id : CmdIds, op : Ops, d : Devs]) /\ Len(cmdq) <= CmdCap
  /\ now \in 0..MaxTime
  /\ timerOf \in [Devs -> Nat]

(* Publication reflects converged state (core_runtime_model.md 3.2): when  *)
(* the loop sleeps with both queues empty, the snapshot CamBANGServer      *)
(* holds is the core's state.                                              *)
PublishedConverged ==
  pc = "WAIT" /\ evt = <<>> /\ cmdq = <<>> => pub = dev

(* Shutdown leaves nothing behind (core_runtime_model.md 10, S6): once the  *)
(* loop has exited, the provider holds no open instance or running stream  *)
(* and the final snapshot shows every stream STOPPED and no instance LIVE. *)
ExitClean ==
  pc = "EXITED" =>
    /\ prov.open = {} /\ prov.running = {}
    /\ \A d \in Devs : pub[d].stream = "STOPPED" /\ pub[d].phase # "LIVE"

(* Once shutdown is requested the loop reaches its exit, whatever host     *)
(* threads and the provider do meanwhile.                                  *)
LoopEventuallyExits == shutdownReq ~> pc = "EXITED"

(* Warm expiry honours warm_hold_ms (core_runtime_model.md 8.1, spec      *)
(* 4.B): a teardown in the timer phase only hits an instance that is      *)
(* still in warm hold and has been since at least warm_hold_ms ago.  A    *)
(* timer cancelled by re-engaging must not fire, not even after a later   *)
(* disengage has scheduled a fresh one for the same instance.             *)
WarmHoldHonoured ==
  [][pc = "TIMERS" =>
       \A d \in Devs : dev[d].phase = "LIVE" /\ dev'[d].phase = "TEARING_DOWN" =>
          dev[d].warm /\ now - since[d] >= Hold]_vars

(* A warm hold ends (core_runtime_model.md 3.1, 8.1): an instance in warm  *)
(* hold whose deadline falls within the modelled clock is eventually torn  *)
(* down or engaged again, even when no command or event arrives to wake a *)
(* sleeping core: the timed wait on the earliest deadline must do it.     *)
WarmEventuallyEnds ==
  \A d \in Devs : dev[d].warm /\ since[d] + Hold <= MaxTime ~> ~dev[d].warm

(* Every command is answered while the core runs (spec 4.C, 4.G): a       *)
(* submitted command is eventually replied (executed, denied, QUEUE_FULL  *)
(* or SHUTTING_DOWN at the check) unless shutdown is requested first,      *)
(* however the host threads' checks, enqueues and the loop's drains        *)
(* interleave and whether or not cmd_queue was full.  Command ids are      *)
(* bounded, so "again and again every submitted command is answered" says *)
(* that each one is.                                                       *)
AllAnswered == \A c \in CmdIds : c < nextCmd => c \in replied

CommandAnsweredWhileRunning == []<>(AllAnswered \/ shutdownReq)

(* Every command completes: a submitted command is eventually replied      *)
(* (success, denial or SHUTTING_DOWN; spec 4.G).                           *)
CommandEventuallyReplied ==
  \A c \in CmdIds : c < nextCmd ~> c \in replied
=============================================================================
