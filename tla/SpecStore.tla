------------------------------ MODULE SpecStore ------------------------------
(***************************************************************************)
(* The spec stores (state_snapshot.md 3-4; spec 4.E) composed with the    *)
(* core state machines of Arbitration.  CameraSpec is kept per            *)
(* hardware_id and ImagingSpec once, each with a version.  A patch is     *)
(* opaque, core-validated bytes (SpecPatchView); the store treats it as   *)
(* content-addressed, so a patch is the content it sets (one of Values).  *)
(* update_*_spec applies at once when the affected devices are safe;      *)
(* otherwise APPLY_WHEN_SAFE stores it as pending and APPLY_NOW is denied *)
(* ERR_BAD_STATE.  Pending patches are retried after each relevant state  *)
(* transition (one that can end an engagement or a capture), in the same  *)
(* step as the transition, on the core thread.                             *)
(***************************************************************************)
EXTENDS Arbitration

CONSTANTS
  Values,      \* the contents a patch may set
  MaxPatch     \* bound: update_*_spec requests the host makes

ASSUME MaxPatch \in Nat /\ Values # {}

Imaging == "imaging"
Targets == HwIds \cup {Imaging}
Modes   == {"APPLY_WHEN_SAFE", "APPLY_NOW"}
V0      == CHOOSE v \in Values : TRUE

VARIABLES
  spec,        \* target -> [ver, val]: the effective CameraSpec / ImagingSpec
  provVer,     \* target -> the version last forwarded by apply_*_spec_patch
  pending,     \* deferred APPLY_WHEN_SAFE patches, in the order accepted
  nPatch,      \* update requests made so far
  want,        \* target -> [ver, val] had every accepted patch applied at once
  seen,        \* history: instance -> provider versions when the provider opened it
  seenCap      \* history: capture id -> provider versions when it was triggered

storeVars == <<spec, provVer, pending, nPatch, want>>
histVars  == <<seen, seenCap>>
allVars   == <<vars, storeVars, histVars>>

Versions(s) == [t \in Targets |-> s[t].ver]

\* Mutant: an instance still opening is not counted as engaged.
EngagedNoCreated(d, i) == d[i].phase \in {"LIVE", "TEARING_DOWN"}

\* A device holds camera resources from engage until close is confirmed.
Engaged(d, i) == d[i].phase \in {"CREATED", "LIVE", "TEARING_DOWN"}

\* ImagingSpec is global: it affects every device.
Affected(d, t) == {i \in Inst : t = Imaging \/ d[i].hw = t}

\* Safe: no affected device engaged, no in-flight capture depending on one.
Safe(d, c, t) ==
  /\ \A i \in Affected(d, t) : ~Engaged(d, i)
  /\ \A k \in CaptureId : c[k].status = "IN_FLIGHT" => c[k].devs \cap Affected(d, t) = {}

\* One patch applied to a store: the version moves iff the content does.
ApplyTo(s, p) ==
  IF s[p.tgt].val = p.val THEN s
  ELSE [s EXCEPT ![p.tgt] = [ver |-> @.ver + 1, val |-> p.val]]

(* A successful apply: bump the version if the content changed, forward   *)
(* the new version to the provider with apply_*_spec_patch.                *)
ApplyAll(ps) ==
  LET s == FoldLeft(ApplyTo, spec, ps)
  IN /\ spec' = s
     /\ provVer' = [t \in Targets |-> IF s[t] # spec[t] THEN s[t].ver ELSE provVer[t]]

\* Mutant: only the close confirmation is a retry point.
RetryPointsNoCapture == {"on_device_closed"}

\* The transitions after which a deferred patch can have become safe: an
\* engagement ends (close confirmed) or a capture ends.
RetryPoints == {"on_device_closed", "on_capture_completed", "on_capture_failed"}

\* Mutant: the retry applies only the oldest ready patch of each step.
RetryPendingOne ==
  LET ready == {k \in DOMAIN pending : Safe(dev', capture', pending[k].tgt)}
  IN IF ready = {} THEN UNCHANGED <<spec, provVer, pending>>
     ELSE LET k == Min(ready)
          IN /\ ApplyAll(<<pending[k]>>)
             /\ pending' = RemoveAt(pending, k)

\* Mutant: ready patches are applied newest first.
RetryPendingReversed ==
  LET ready(p) == Safe(dev', capture', p.tgt)
  IN /\ ApplyAll(Reverse(SelectSeq(pending, ready)))
     /\ pending' = SelectSeq(pending, LAMBDA p : ~ready(p))

(* After a core transition: every pending patch whose target is now safe   *)
(* is applied, in the order it was accepted; the rest stay pending.        *)
RetryPending ==
  LET ready(p) == Safe(dev', capture', p.tgt)
  IN /\ ApplyAll(SelectSeq(pending, ready))
     /\ pending' = SelectSeq(pending, LAMBDA p : ~ready(p))

\* Mutant: requests are taken without the request bound.
UpdateSpecUnbounded(t, v, mode) ==
  LET p == [tgt |-> t, val |-> v]
  IN /\ nPatch' = nPatch + 1
     /\ \/ /\ Safe(dev, capture, t)
           /\ ApplyAll(<<p>>) /\ UNCHANGED pending
        \/ /\ ~Safe(dev, capture, t) /\ mode = "APPLY_WHEN_SAFE"
           /\ pending' = Append(pending, p) /\ UNCHANGED <<spec, provVer>>
     /\ want' = ApplyTo(want, p)

\* Mutant: APPLY_NOW applies without checking that the target is safe.
UpdateSpecUnchecked(t, v, mode) ==
  LET p == [tgt |-> t, val |-> v]
  IN /\ nPatch < MaxPatch
     /\ nPatch' = nPatch + 1
     /\ IF Safe(dev, capture, t) \/ mode = "APPLY_NOW"
        THEN ApplyAll(<<p>>) /\ UNCHANGED pending
        ELSE pending' = Append(pending, p) /\ UNCHANGED <<spec, provVer>>
     /\ want' = ApplyTo(want, p)

(* update_camera_spec(camera_id, patch, mode) / update_imaging_spec(patch, *)
(* mode) on the core thread: apply now if safe; else defer (WHEN_SAFE) or  *)
(* deny with ERR_BAD_STATE (NOW), which changes nothing.                   *)
UpdateSpec(t, v, mode) ==
  LET p == [tgt |-> t, val |-> v]
  IN /\ nPatch < MaxPatch
     /\ nPatch' = nPatch + 1
     /\ \/ /\ Safe(dev, capture, t)
           /\ ApplyAll(<<p>>) /\ UNCHANGED pending
        \/ /\ ~Safe(dev, capture, t) /\ mode = "APPLY_WHEN_SAFE"
           /\ pending' = Append(pending, p) /\ UNCHANGED <<spec, provVer>>
     /\ want' = ApplyTo(want, p)

StoreInit ==
  /\ Init
  /\ spec = [t \in Targets |-> [ver |-> 0, val |-> V0]]
  /\ provVer = [t \in Targets |-> 0]
  /\ pending = <<>>
  /\ nPatch = 0
  /\ want = spec
  /\ seen = [i \in Inst |-> provVer]
  /\ seenCap = [k \in CaptureId |-> provVer]

\* The provider holds instance i from the open_device it executed until it
\* has confirmed the close (on_device_closed not yet taken by the core).
ProvHolds(p, q, i) == i \in p.open \/ Event("on_device_closed", i, "OK") \in ToSet(q)
ShotsOf(p, k) == {x \in p.shots : x[1] = k}

\* History: the versions forwarded to the provider when it took hold of an
\* instance, and when it was handed a capture.
Record ==
  /\ seen' = [i \in Inst |-> IF ~ProvHolds(prov, evt, i) /\ ProvHolds(prov', evt', i)
                             THEN provVer' ELSE seen[i]]
  /\ seenCap' = [k \in CaptureId |-> IF ShotsOf(prov, k) = {} /\ ShotsOf(prov', k) # {}
                                     THEN provVer' ELSE seenCap[k]]

\* The core takes a provider event; pending patches are retried after the
\* events in RetryPoints.
StoreHandle ==
  /\ HandleEvent
  /\ IF Head(evt).ev \in RetryPoints THEN RetryPending ELSE UNCHANGED <<spec, provVer, pending>>
  /\ UNCHANGED <<nPatch, want>> /\ Record

\* Any other step of the core state machines or of the provider.
StoreOther(A) == A /\ UNCHANGED storeVars /\ Record

CoreStep == StoreHandle \/ StoreOther(Command \/ Timer \/ Provider)

HostUpdate ==
  /\ \E t \in Targets, v \in Values, mode \in Modes : UpdateSpec(t, v, mode)
  /\ UNCHANGED <<vars, histVars>>

StoreNext == CoreStep \/ HostUpdate

StoreSpec == StoreInit /\ [][StoreNext]_allVars
              /\ WF_allVars(StoreHandle) /\ SF_allVars(StoreOther(ProviderCapture))

-----------------------------------------------------------------------------
StoreTypeOK ==
  /\ spec \in [Targets -> [ver : 0..MaxPatch, val : Values]]
  /\ provVer \in [Targets -> 0..MaxPatch]
  /\ pending \in Seq([tgt : Targets, val : Values]) /\ Len(pending) <= MaxPatch
  /\ nPatch \in 0..MaxPatch

(* "Retried after each relevant state transition" (spec 4.E): the retry   *)
(* points are complete, so no patch is left pending once its target is    *)
(* safe, whichever transition made it so (a close confirmed, a capture of *)
(* a device already closed completing or failing) and however many        *)
(* patches for that and other targets are waiting.                        *)
NoPendingWhenSafe ==
  \A k \in DOMAIN pending : ~Safe(dev, capture, pending[k].tgt)

(* Deferral is invisible once it ends: a store with nothing pending holds *)
(* the content and version it would hold had every accepted patch been    *)
(* applied at once in acceptance order (version moves iff content does,   *)
(* spec 3), and the provider has been forwarded that version.             *)
StoreConverged ==
  \A t \in Targets :
    (\A k \in DOMAIN pending : pending[k].tgt # t) =>
      spec[t] = want[t] /\ provVer[t] = spec[t].ver

(* The hardware never sees a spec change under it (state_snapshot.md 4):  *)
(* from the open_device the provider executes until it confirms the       *)
(* close, the provider is forwarded no new version of that instance's     *)
(* CameraSpec or of the ImagingSpec, and none while it still owes the     *)
(* outcome of a capture it was handed, whichever of the immediate path    *)
(* and the deferred retry applied the patches and however engage, open    *)
(* confirmation, teardown, capture outcomes and host updates interleave.  *)
ProviderSpecStable ==
  /\ \A i \in Inst : ProvHolds(prov, evt, i) =>
        \A t \in {dev[i].hw, Imaging} : provVer[t] = seen[i][t]
  /\ \A x \in prov.shots : \A t \in {dev[x[2]].hw, Imaging} : provVer[t] = seenCap[x[1]][t]
=============================================================================
