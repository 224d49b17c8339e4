---------------------------- MODULE FrameRelease ----------------------------
(***************************************************************************)
(* Ownership of provider frame buffers (FrameView, provider_contract_      *)
(* datatypes.h).  The provider takes a buffer from its pool and delivers a *)
(* FrameView through on_frame on its callback context; the view is queued *)
(* in the bounded evt_queue (enqueue returns QUEUE_FULL when full); the    *)
(* core thread hands it to the consumer or drops it; whichever party last  *)
(* holds the view calls release_now, which runs the provider's release    *)
(* hook and returns the buffer to the pool.                                *)
(***************************************************************************)
EXTENDS Naturals, Sequences

CONSTANTS
  Buffers,     \* the provider's buffer pool
  MaxFrame,    \* frames delivered in one behaviour (frame ids 1..MaxFrame)
  EvtCap,      \* evt_queue capacity
  ReleaseOnFull \* on QUEUE_FULL the callback releases the view it still holds

ASSUME MaxFrame \in Nat \ {0} /\ EvtCap \in Nat \ {0} /\ ReleaseOnFull \in BOOLEAN

Frames == 1..MaxFrame
Holders == {"NONE", "QUEUE", "CONSUMER", "DONE"}

VARIABLES
  free,        \* buffers in the provider's pool
  frame,       \* frame id -> [buf, holder]: which buffer the view points at, who holds it
  evt,         \* evt_queue: the frame views not yet handled by the core
  attached,    \* a consumer is registered for the stream's frames
  open,        \* the device instance is open (frames may arrive)
  nextFrame    \* the next frame id

vars == <<free, frame, evt, attached, open, nextFrame>>

\* The FrameView fields the model keeps: the buffer it points at (data).
NoFrame == [buf |-> CHOOSE b \in Buffers : TRUE, holder |-> "NONE"]
Live(f) == frame[f].holder \in {"QUEUE", "CONSUMER"}

(* release_now: if a release hook is set, call it; the provider's hook    *)
(* puts the buffer back into its pool.  Nothing in FrameView stops a      *)
(* second call on the same view or on a copy of it.                        *)
ReleaseNow(f) ==
  /\ free' = free \cup {frame[f].buf}
  /\ frame' = [frame EXCEPT ![f].holder = "DONE"]

Init ==
  /\ free = Buffers
  /\ frame = [f \in Frames |-> NoFrame]
  /\ evt = <<>>
  /\ attached \in BOOLEAN
  /\ open = TRUE
  /\ nextFrame = 1

(* Mutant: the callback enqueues without honouring the queue bound.       *)
OnFrameNoQueueBound(b) ==
  LET f == nextFrame IN
  /\ open
  /\ b \in free
  /\ f \in Frames
  /\ nextFrame' = f + 1
  /\ free' = free \ {b}
  /\ frame' = [frame EXCEPT ![f] = [buf |-> b, holder |-> "QUEUE"]]
  /\ evt' = Append(evt, f)
  /\ UNCHANGED <<attached, open>>

(* on_frame: the provider fills a pooled buffer and calls on_frame; the    *)
(* callback enqueues the view.  On QUEUE_FULL the view is dropped: with    *)
(* ReleaseOnFull the callback, still holding it, releases it at once;     *)
(* otherwise nobody holds the view and the buffer stays out of the pool.   *)
OnFrame(b) ==
  LET f == nextFrame IN
  /\ open
  /\ b \in free
  /\ f \in Frames
  /\ nextFrame' = f + 1
  /\ IF Len(evt) < EvtCap
     THEN /\ free' = free \ {b}
          /\ frame' = [frame EXCEPT ![f] = [buf |-> b, holder |-> "QUEUE"]]
          /\ evt' = Append(evt, f)
     ELSE /\ frame' = [frame EXCEPT ![f] = [buf |-> b, holder |-> "DONE"]]
          /\ free' = IF ReleaseOnFull THEN free ELSE free \ {b}
          /\ UNCHANGED evt
  /\ UNCHANGED <<attached, open>>

(* Mutant: the core releases every view it handles, including the ones it *)
(* hands to the consumer.                                                  *)
CoreOnFrameReleaseDelivered ==
  /\ evt # <<>>
  /\ LET f == Head(evt) IN
       /\ free' = free \cup {frame[f].buf}
       /\ frame' = [frame EXCEPT ![f].holder = IF attached THEN "CONSUMER" ELSE "DONE"]
  /\ evt' = Tail(evt)
  /\ UNCHANGED <<attached, open, nextFrame>>

(* Mutant: a dropped frame is counted but its view is not released.        *)
CoreOnFrameDropNoRelease ==
  /\ evt # <<>>
  /\ LET f == Head(evt) IN
       /\ frame' = [frame EXCEPT ![f].holder = IF attached THEN "CONSUMER" ELSE "DONE"]
       /\ UNCHANGED free
  /\ evt' = Tail(evt)
  /\ UNCHANGED <<attached, open, nextFrame>>

(* The core thread handles the next queued frame: with a consumer it hands *)
(* the view over (frames_delivered), otherwise it drops it                 *)
(* (frames_dropped) and, as its last holder, releases it.                 *)
CoreOnFrame ==
  /\ evt # <<>>
  /\ LET f == Head(evt) IN
       IF attached
       THEN /\ frame' = [frame EXCEPT ![f].holder = "CONSUMER"]
            /\ UNCHANGED free
       ELSE ReleaseNow(f)
  /\ evt' = Tail(evt)
  /\ UNCHANGED <<attached, open, nextFrame>>

(* The consumer's scoped acquisition ends: it releases the view.           *)
ConsumerRelease(f) ==
  /\ frame[f].holder = "CONSUMER"
  /\ ReleaseNow(f)
  /\ UNCHANGED <<evt, attached, open, nextFrame>>

\* The host attaches or detaches its consumer at any time.
SetConsumer ==
  /\ attached' = ~attached
  /\ UNCHANGED <<free, frame, evt, open, nextFrame>>

(* Core-directed teardown of the instance: no more frames, while views     *)
(* may still be queued or held by the consumer.                            *)
CloseDevice ==
  /\ open
  /\ open' = FALSE
  /\ UNCHANGED <<free, frame, evt, attached, nextFrame>>

Next ==
  \/ \E b \in Buffers : OnFrame(b)
  \/ CoreOnFrame
  \/ \E f \in Frames : ConsumerRelease(f)
  \/ SetConsumer
  \/ CloseDevice

(* The core drains evt_queue whenever it is non-empty; a consumer releases *)
(* within a bounded time (scoped acquisition).                             *)
Fairness == WF_vars(CoreOnFrame) /\ \A f \in Frames : WF_vars(ConsumerRelease(f))

Spec == Init /\ [][Next]_vars /\ Fairness

-----------------------------------------------------------------------------
TypeOK ==
  /\ free \subseteq Buffers
  /\ frame \in [Frames -> [buf : Buffers, holder : Holders]]
  /\ evt \in Seq(Frames) /\ Len(evt) <= EvtCap
  /\ attached \in BOOLEAN /\ open \in BOOLEAN
  /\ nextFrame \in 1..(MaxFrame + 1)

(* A buffer has one owner at a time: a live view's buffer is out of the   *)
(* provider's pool and no other live view points at it.  A second release *)
(* of a view, or a release by a party that handed the view on, puts back   *)
(* a buffer the consumer may still be reading, and the provider reuses it. *)
ExclusiveBuffer ==
  \A f \in Frames : Live(f) =>
    /\ frame[f].buf \notin free
    /\ \A g \in Frames \ {f} : Live(g) => frame[g].buf # frame[f].buf

(* No buffer leaks: every buffer taken from the pool comes back, even when *)
(* the instance closes with views queued or held, or no consumer is        *)
(* attached; after a core-directed teardown the provider retains nothing   *)
(* (state_snapshot.md 9).                                                  *)
BufferEventuallyReturned ==
  \A b \in Buffers : b \notin free ~> b \in free
=============================================================================
