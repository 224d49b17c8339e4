--------------------------- MODULE SnapshotChannel ---------------------------
(***************************************************************************)
(* What CamBANGServer promises its readers about the sequence of published *)
(* snapshots (state_snapshot.md 1.2-1.3, 7, 8; spec 8.2-8.4, 8.7), with    *)
(* nothing of how core builds them.  `view` is the registry part of the    *)
(* current snapshot: the native-object records, the live device instances *)
(* that own them, and detached_root_ids.                                   *)
(***************************************************************************)
EXTENDS Naturals

CONSTANTS Natives, Owners

RecPhases == {"CREATED", "LIVE", "TEARING_DOWN", "DESTROYED"}
Absent    == "NONE"
Rank(p)   == CASE p = "CREATED" -> 1 [] p = "LIVE" -> 2
               [] p = "TEARING_DOWN" -> 3 [] p = "DESTROYED" -> 4

VARIABLES gen, topoGen, view,
          left    \* native_ids whose record has left the published snapshot

NoView == [recs     |-> [n \in Natives |-> [phase |-> Absent, root |-> 0, expired |-> FALSE]],
           owners   |-> {},
           detached |-> {}]

Present(v, n) == v.recs[n].phase # Absent
RootsOf(v)    == {v.recs[n].root : n \in {m \in Natives : Present(v, m)}}
\* A root is detached iff its owner is not live and a record of it remains.
Detached(v)   == RootsOf(v) \ v.owners
\* The structural part of a snapshot: instances and root_ids present.
Topology(v)   == <<v.owners, RootsOf(v)>>

\* A record keeps its root and only moves forward through the phases; it
\* leaves the snapshot only once DESTROYED (retention).
Forward(v, w) ==
  \A n \in Natives :
    /\ Present(v, n) /\ Present(w, n) =>
         w.recs[n].root = v.recs[n].root /\ Rank(v.recs[n].phase) <= Rank(w.recs[n].phase)
    /\ Present(v, n) /\ ~Present(w, n) => v.recs[n].phase = "DESTROYED"

\* The records that leave between two snapshots.
Leaving(v, w) == {n \in Natives : Present(v, n) /\ ~Present(w, n)}

Init == gen = 0 /\ topoGen = 0 /\ view = NoView /\ left = {}

\* One publish: gen always moves, topology_gen moves iff the topology did.
\* A record that left never comes back (native_ids are not reused).
Publish ==
  /\ Forward(view, view')
  /\ \A n \in left : ~Present(view', n)
  /\ left' = left \cup Leaving(view, view')
  /\ view'.detached = Detached(view')
  /\ gen' = gen + 1
  /\ topoGen' = IF Topology(view') # Topology(view) THEN topoGen + 1 ELSE topoGen

Spec == Init /\ [][Publish]_<<gen, topoGen, view, left>>
=============================================================================
