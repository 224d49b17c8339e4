------------------------------ MODULE TimerHeap ------------------------------
(***************************************************************************)
(* The core's timer_heap (core_runtime_model.md 3; spec 4.B) as a value   *)
(* and pure operators over it: a min-heap of entries keyed by absolute    *)
(* deadline with an opaque tag, schedule returning a handle, logical      *)
(* cancellation by tombstone, peek at the earliest deadline, and pop_due  *)
(* returning the tags of the due entries that were not cancelled, in      *)
(* deadline order.  Tombstones are drained when their entry is popped.    *)
(***************************************************************************)
EXTENDS Naturals, SequencesExt

\* entries: the scheduled [h, dl, tag]; tomb: cancelled handles; next: handle
Empty == [entries |-> {}, tomb |-> {}, next |-> 1]

\* schedule(deadline, tag) -> handle: the handle is H.next.
Schedule(H, dl, tag) ==
  [H EXCEPT !.entries = @ \cup {[h |-> H.next, dl |-> dl, tag |-> tag]},
            !.next = @ + 1]

\* cancel(handle): logical; a handle no longer in the heap is ignored.
Cancel(H, h) ==
  IF \E e \in H.entries : e.h = h THEN [H EXCEPT !.tomb = @ \cup {h}] ELSE H

\* peek() <= now: the earliest deadline, cancelled or not, has passed.
DueBy(H, now) == \E e \in H.entries : e.dl <= now

\* Min-heap order: deadline, then scheduling order.
Before(a, b) == a.dl < b.dl \/ (a.dl = b.dl /\ a.h < b.h)

\* Mutant: pop_due returns cancelled entries as well.
PopDueNoTomb(H, now) ==
  LET due  == {e \in H.entries : e.dl <= now}
      live == SetToSortSeq(due, Before)
  IN [heap    |-> [H EXCEPT !.entries = @ \ due, !.tomb = @ \ {e.h : e \in due}],
      popped  |-> {e.h : e \in due},
      tags    |-> [k \in DOMAIN live |-> live[k].tag]]

\* pop_due(now): remove every entry with deadline <= now, drain their
\* tombstones, and return the tags of the live ones in heap order.
PopDue(H, now) ==
  LET due  == {e \in H.entries : e.dl <= now}
      live == SetToSortSeq({e \in due : e.h \notin H.tomb}, Before)
  IN [heap    |-> [H EXCEPT !.entries = @ \ due, !.tomb = @ \ {e.h : e \in due}],
      popped  |-> {e.h : e \in due},
      tags    |-> [k \in DOMAIN live |-> live[k].tag]]
=============================================================================
