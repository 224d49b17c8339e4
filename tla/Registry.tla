------------------------------- MODULE Registry -------------------------------
(***************************************************************************)
(* CBLifecycleRegistry and the publish step of CBStatePublisher            *)
(* (core_runtime_model.md 7, 8.2, 9; state_snapshot.md 7-9; provider       *)
(* architecture 5).  The registry keeps one record per core-issued         *)
(* native_id; the provider reports creation and destruction through        *)
(* on_native_object_created / _destroyed; core-directed teardown moves an  *)
(* owner's records to TEARING_DOWN; DESTROYED records are retained until   *)
(* their retention window has passed and a sweep retires them.  Owners are *)
(* device instances, each the root of its own lineage (root_id).           *)
(*                                                                         *)
(* Time is abstracted to one flag per record: `expired` means              *)
(* destroyed_ns + RETENTION_MS is in the past.                             *)
(***************************************************************************)
EXTENDS Naturals, FiniteSets

CONSTANTS
  Natives,     \* the native_ids core may issue, 1..MaxNative
  Owners,      \* device instance ids; instance i is lineage root i
  SweepTimer   \* TRUE iff core schedules a timer for the next retention expiry

ASSUME /\ Natives = 1..Cardinality(Natives)
       /\ Owners \subseteq Nat \ {0}
       /\ SweepTimer \in BOOLEAN

VARIABLES
  reg,         \* native_id -> record (phase, root, expired)
  owner,       \* instance id -> UNBORN | LIVE | TEARING_DOWN | ENDED
  nextNative,  \* next native_id core issues (monotonic)
  dirty,       \* snapshot_dirty
  gen, topoGen,
  pub,         \* the registry part of the last published snapshot
  left         \* history: native_ids whose record has left the published snapshot

vars == <<reg, owner, nextNative, dirty, gen, topoGen, pub, left>>

Snap == INSTANCE SnapshotChannel WITH view <- pub

RecPhases == Snap!RecPhases
Absent    == Snap!Absent
NoRec     == [phase |-> Absent, root |-> 0, expired |-> FALSE]
Rec       == [phase : RecPhases \cup {Absent}, root : Owners \cup {0}, expired : BOOLEAN]

(* NativeObjectCreateInfo as the registry keeps it: the core-issued       *)
(* native_id indexes the record; root_id is the owning instance's lineage. *)
CreateInfo(o, p) == [phase |-> p, root |-> o, expired |-> FALSE]
(* NativeObjectDestroyInfo: destroyed_ns starts the retention window.      *)
DestroyInfo(r)   == [r EXCEPT !.phase = "DESTROYED", !.expired = FALSE]

Present(n)  == reg[n].phase # Absent
Retired(n)  == reg[n].phase = "DESTROYED" /\ reg[n].expired
\* Only LIVE and TEARING_DOWN instances are present-and-alive.
Alive       == {o \in Owners : owner[o] \in {"LIVE", "TEARING_DOWN"}}

-----------------------------------------------------------------------------
(* The retirement sweep: remove every expired DESTROYED record.            *)
Sweep(r)   == [n \in Natives |-> IF r[n].phase = "DESTROYED" /\ r[n].expired
                                 THEN NoRec ELSE r[n]]

(* Assemble the snapshot's registry part: records, live instances and the   *)
(* detached roots (owner ended and a record of the root still exists).    *)
DetachedRoots(r, alive) ==
  {r[n].root : n \in {m \in Natives : r[m].phase # Absent}} \ alive
Build(r) == [recs     |-> r,
             owners   |-> Alive,
             detached |-> DetachedRoots(r, Alive)]

TopologyChanged(v, w) == Snap!Topology(v) # Snap!Topology(w)

-----------------------------------------------------------------------------
Init ==
  /\ reg = [n \in Natives |-> NoRec]
  /\ owner = [o \in Owners |-> "UNBORN"]
  /\ nextNative = 1
  /\ dirty = FALSE
  /\ gen = 0 /\ topoGen = 0
  /\ pub = Snap!NoView
  /\ left = {}

(* A device instance is created (open_device) or ends (on_device_closed):  *)
(* membership/topology change, so the snapshot is dirty.                   *)
InstanceCreated(o) ==
  /\ owner[o] = "UNBORN"
  /\ owner' = [owner EXCEPT ![o] = "LIVE"]
  /\ dirty' = TRUE
  /\ UNCHANGED <<reg, nextNative, gen, topoGen, pub, left>>

(* Mutant: teardown marks every record of the instance, DESTROYED ones     *)
(* included.                                                               *)
InstanceTeardownAll(o) ==
  /\ owner[o] = "LIVE"
  /\ owner' = [owner EXCEPT ![o] = "TEARING_DOWN"]
  /\ reg' = [n \in Natives |->
               IF reg[n].root = o /\ reg[n].phase # Absent
               THEN [reg[n] EXCEPT !.phase = "TEARING_DOWN"] ELSE reg[n]]
  /\ dirty' = TRUE
  /\ UNCHANGED <<nextNative, gen, topoGen, pub, left>>

(* Core-directed teardown of an instance: its records that are not yet     *)
(* DESTROYED move to TEARING_DOWN.                                         *)
InstanceTeardown(o) ==
  /\ owner[o] = "LIVE"
  /\ owner' = [owner EXCEPT ![o] = "TEARING_DOWN"]
  /\ reg' = [n \in Natives |->
               IF reg[n].root = o /\ reg[n].phase \in {"CREATED", "LIVE"}
               THEN [reg[n] EXCEPT !.phase = "TEARING_DOWN"] ELSE reg[n]]
  /\ dirty' = TRUE
  /\ UNCHANGED <<nextNative, gen, topoGen, pub, left>>

InstanceEnded(o) ==
  /\ owner[o] = "TEARING_DOWN"
  /\ owner' = [owner EXCEPT ![o] = "ENDED"]
  /\ dirty' = TRUE
  /\ UNCHANGED <<reg, nextNative, gen, topoGen, pub, left>>

(* Mutant: native_ids are issued without checking the id space.           *)
OnNativeObjectCreatedUnbounded(o) ==
  /\ owner[o] = "LIVE"
  /\ \E p \in {"CREATED", "LIVE"} :
       reg' = [reg EXCEPT ![nextNative] = CreateInfo(o, p)]
  /\ nextNative' = nextNative + 1
  /\ dirty' = TRUE
  /\ UNCHANGED <<owner, gen, topoGen, pub, left>>

(* on_native_object_created: the provider reports an object under a live   *)
(* instance with the next core-issued native_id; it enters as CREATED or   *)
(* already LIVE.                                                           *)
OnNativeObjectCreated(o) ==
  /\ owner[o] = "LIVE"
  /\ nextNative \in Natives
  /\ \E p \in {"CREATED", "LIVE"} :
       reg' = [reg EXCEPT ![nextNative] = CreateInfo(o, p)]
  /\ nextNative' = nextNative + 1
  /\ dirty' = TRUE
  /\ UNCHANGED <<owner, gen, topoGen, pub, left>>

(* on_native_object_destroyed: the record becomes DESTROYED and its        *)
(* retention window starts.  A missing destroy is a leak: nothing forces   *)
(* this action.                                                            *)
OnNativeObjectDestroyed(n) ==
  /\ Present(n)
  /\ reg[n].phase # "DESTROYED"
  /\ reg' = [reg EXCEPT ![n] = DestroyInfo(reg[n])]
  /\ dirty' = TRUE
  /\ UNCHANGED <<owner, nextNative, gen, topoGen, pub, left>>

(* Time passes beyond destroyed_ns + RETENTION_MS.  The retention window  *)
(* is longer than one loop iteration, so a window that began with a        *)
(* destroy still to be published cannot end before that publish.          *)
RetentionElapses(n) ==
  /\ reg[n].phase = "DESTROYED" /\ ~reg[n].expired
  /\ ~dirty
  /\ reg' = [reg EXCEPT ![n].expired = TRUE]
  /\ UNCHANGED <<owner, nextNative, dirty, gen, topoGen, pub, left>>

(* Mutant: the timer's sweep does not mark the snapshot dirty.            *)
RetentionTimerQuiet ==
  /\ SweepTimer
  /\ \E n \in Natives : Retired(n)
  /\ reg' = Sweep(reg)
  /\ UNCHANGED <<owner, nextNative, dirty, gen, topoGen, pub, left>>

(* The scheduled retention timer fires: sweep; removals mark dirty.        *)
RetentionTimer ==
  /\ SweepTimer
  /\ \E n \in Natives : Retired(n)
  /\ reg' = Sweep(reg)
  /\ dirty' = TRUE
  /\ UNCHANGED <<owner, nextNative, gen, topoGen, pub, left>>

(* Publish if dirty: sweep, assemble, swap, emit (gen, topology_gen).      *)
Publish ==
  /\ dirty
  /\ LET r == Sweep(reg)
         s == Build(r)
     IN /\ reg' = r
        /\ pub' = s
        /\ gen' = gen + 1
        /\ topoGen' = IF TopologyChanged(pub, s) THEN topoGen + 1 ELSE topoGen
        /\ left' = left \cup Snap!Leaving(pub, s)
  /\ dirty' = FALSE
  /\ UNCHANGED <<owner, nextNative>>

Next ==
  \/ \E o \in Owners : InstanceCreated(o) \/ InstanceTeardown(o) \/ InstanceEnded(o)
  \/ \E o \in Owners : OnNativeObjectCreated(o)
  \/ \E n \in Natives : OnNativeObjectDestroyed(n) \/ RetentionElapses(n)
  \/ RetentionTimer
  \/ Publish

(* The core loop publishes on every iteration that finds the snapshot      *)
(* dirty, and wakes at the earliest timer deadline (core_runtime_model.md  *)
(* 3.1-3.2).                                                               *)
Fairness == WF_vars(Publish) /\ WF_vars(RetentionTimer)

Spec == Init /\ [][Next]_vars /\ Fairness

-----------------------------------------------------------------------------
TypeOK ==
  /\ reg \in [Natives -> Rec]
  /\ owner \in [Owners -> {"UNBORN", "LIVE", "TEARING_DOWN", "ENDED"}]
  /\ nextNative \in 1..(Cardinality(Natives) + 1)
  /\ dirty \in BOOLEAN
  /\ gen \in Nat /\ topoGen \in Nat
  /\ pub.recs \in [Natives -> Rec]

(* The publish step implements the snapshot channel: gen moves on every    *)
(* publish, topology_gen exactly when instances or root_ids changed        *)
(* (including a detached branch expiring), records keep their root and     *)
(* move forward through CREATED, LIVE, TEARING_DOWN, DESTROYED, leave only  *)
(* once DESTROYED, and detached_root_ids is exact (spec 8.2-8.4, 8.7).      *)
SnapshotRefinement == Snap!Spec

(* Sweep removals are published (spec 8.9, core_runtime_model.md 12): a    *)
(* record whose retention has passed eventually disappears from the       *)
(* published snapshot, even if nothing else happens.                       *)
ExpiredEventuallyUnpublished ==
  \A n \in Natives : Retired(n) ~> pub.recs[n].phase = Absent

=============================================================================
