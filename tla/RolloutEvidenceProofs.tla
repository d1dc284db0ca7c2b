------------------------ MODULE RolloutEvidenceProofs ------------------------
(***************************************************************************)
(* Proofs about the evidence by which rollouts are judged, for any number  *)
(* of rollouts, overlapping collections, edits by others and crashes.      *)
(*                                                                         *)
(* The argument follows what the observed generation of the workload says. *)
(* Ready pods that anybody sees belong to a generation that did become     *)
(* ready; while nobody edits the workload every generation but the first   *)
(* is the work of an applied patch; and a collection that began after a    *)
(* rollback was asked for sees at least the generation the rollback is     *)
(* judged against.                                                         *)
(***************************************************************************)
EXTENDS RolloutEvidence, TLAPS

-----------------------------------------------------------------------------
(***************************************************************************)
(* The inductive invariant                                                 *)
(***************************************************************************)
Items == {inv} \cup {col[c].item : c \in Collectors}

Own(r) == {<<"restart", r>>, <<"rollback", r>>}

\* Whoever sees all pods ready sees a generation that became ready.
Recorded(o) ==
    o # Absent /\ o.pods = "ready" =>
        \E s \in readied : s.uid = o.uid /\ s.gen = o.seen

ReadyIsRecorded == Recorded(live) /\ \A i \in Items : Recorded(i.obj)

\* A rollout before its request, its start and its rollback.
InOrder(r) ==
    /\ act[r] = "none" => /\ exec[r] = "new"
                          /\ roll[r].status = "rejected" /\ roll[r].tgt = NoBase
                          /\ <<"restart", r>> \notin wire \cup applied
    /\ exec[r] = "check" => roll[r].status = "approved"
    /\ roll[r].status \notin Broken => roll[r].rb = ""
    /\ ~roll[r].auto => roll[r].rb = ""
    /\ roll[r].rb = "" => /\ roller[r] = "idle"
                          /\ <<"rollback", r>> \notin wire \cup applied
                          /\ \A i \in Items : r \notin i.rbSince

\* The template that patches write back is the one there was.
Faithful(s) == s.tpl = Original /\ s.by \in applied \cup {None}

\* While nobody else edits it, the workload changes by patches alone.
Patched(o) ==
    o # Absent =>
        /\ o.uid = 1 /\ 1 <= o.seen /\ o.seen <= o.gen
        /\ Faithful(o.spec)
        /\ o.spec.by = None => o.gen = 1 /\ o.spec = Spec0

\* What was observed is older than what is there.
Older(seen) == live # Absent => seen <= live.seen

UneditedWorkload ==
    edits = 0 =>
        /\ Patched(live)
        /\ \A i \in Items : Patched(i.obj) /\ (i.obj # Absent => Older(i.obj.seen))
        /\ \A s \in readied : Faithful(s.spec) /\ (s.spec.by = None => s.gen = 1)

\* A rollback is judged by what was observed after what it is compared with.
TargetInOrder(r) ==
    edits = 0 /\ roll[r].tgt # NoBase =>
        /\ 1 <= roll[r].tgt.seen /\ Older(roll[r].tgt.seen)
        /\ \A i \in Items :
              r \in i.rbSince /\ i.obj # Absent => roll[r].tgt.seen <= i.obj.seen

\* An undisturbed rollout started from the first generation.
StartedFirst(r) ==
    /\ edits = 0 => prev[r].spec.tpl = Original
    /\ ~Disturbed(r) /\ act[r] # "none" =>
          prev[r] = [uid |-> 1, spec |-> Spec0, seen |-> 1]

\* Without a rollback the target is noted after the rollout's own patch.
NotedExecuted(r) == roll[r].tgt # NoBase /\ ~roll[r].auto => Executed(r)

RowInv(r) ==
    /\ InOrder(r)
    /\ TargetInOrder(r)
    /\ StartedFirst(r)
    /\ NotedExecuted(r)
    /\ RealSuccess(r)
    /\ RealRestore(r)
    /\ RealExecution(r)

JudgedInv ==
    /\ TypeOK
    /\ ReadyIsRecorded
    /\ UneditedWorkload
    /\ \A r \in Rollouts : RowInv(r)

-----------------------------------------------------------------------------
(***************************************************************************)
(* Types                                                                   *)
(***************************************************************************)
\* Every item there is has the shape of one.
LEMMA ItemTypes ==
    ASSUME TypeOK
    PROVE  /\ \A i \in Items : i \in Item
           /\ \A i \in Items : i.obj \in {Absent} \cup Object
BY DEF TypeOK, Items, Item

\* What began before can only be confirmed later.
LEMMA Later ==
    ASSUME edits \in Nat, edits' \in Nat, edits <= edits', applied \subseteq applied',
           NEW r \in Rollouts
    PROVE  /\ Disturbed(r) => Disturbed(r)'
           /\ Executed(r) => Executed(r)'
BY DEF Disturbed, Executed

(***************************************************************************)
(* The histories grow and the ledgers stay: a row's verdicts stand.        *)
(***************************************************************************)
LEMMA VerdictsStand ==
    ASSUME JudgedInv, NEW r \in Rollouts, UNCHANGED <<act, roll, prev>>,
           edits' \in Nat, edits <= edits', applied \subseteq applied',
           readied \subseteq readied'
    PROVE  /\ StartedFirst(r)' /\ NotedExecuted(r)'
           /\ RealSuccess(r)' /\ RealRestore(r)' /\ RealExecution(r)'
<1>1. RowInv(r) /\ edits \in Nat
  BY DEF JudgedInv, TypeOK
<1>2. /\ Disturbed(r) => Disturbed(r)'
      /\ Executed(r) => Executed(r)'
  BY <1>1, Later
<1>3. StartedFirst(r)'
  BY <1>1, <1>2 DEF RowInv, StartedFirst
<1>4. NotedExecuted(r)' /\ RealExecution(r)'
  BY <1>1, <1>2 DEF RowInv, NotedExecuted, RealExecution
<1>5. RealSuccess(r)' /\ RealRestore(r)'
  BY <1>1, <1>2 DEF RowInv, RealSuccess, RealRestore
<1>. QED BY <1>3, <1>4, <1>5

-----------------------------------------------------------------------------
(***************************************************************************)
(* The cluster                                                             *)
(***************************************************************************)
\* A step of the cluster leaves every row as it is judged.
LEMMA RowsStand ==
    ASSUME JudgedInv, UNCHANGED <<ledger, inv, col>>, edits' \in Nat, edits <= edits',
           applied \subseteq applied', readied \subseteq readied',
           wire' \cup applied' \subseteq wire \cup applied,
           edits' = 0 /\ live' # Absent => /\ live # Absent /\ live \in Object
                                           /\ live' \in Object
                                           /\ live.seen <= live'.seen
    PROVE  \A r \in Rollouts : RowInv(r)'
<1>. SUFFICES ASSUME NEW r \in Rollouts PROVE RowInv(r)'
  OBVIOUS
<1>1. RowInv(r) /\ roll[r] \in RolloutRow /\ edits \in Nat
  BY DEF JudgedInv, TypeOK
<1>2. UNCHANGED <<act, roll, prev, exec, roller, Items>>
  BY DEF ledger, Items
<1>3. InOrder(r)'
  BY <1>1, <1>2 DEF RowInv, InOrder
<1>4. TargetInOrder(r)'
  <2>. SUFFICES ASSUME edits' = 0, roll[r].tgt # NoBase
                PROVE  /\ 1 <= roll[r].tgt.seen /\ Older(roll[r].tgt.seen)'
                       /\ \A i \in Items :
                             r \in i.rbSince /\ i.obj # Absent
                                => roll[r].tgt.seen <= i.obj.seen
    BY <1>2 DEF TargetInOrder
  <2>1. edits = 0 /\ roll[r].tgt.seen \in Nat
    BY <1>1 DEF RolloutRow
  <2>2. /\ 1 <= roll[r].tgt.seen /\ Older(roll[r].tgt.seen)
        /\ \A i \in Items :
              r \in i.rbSince /\ i.obj # Absent => roll[r].tgt.seen <= i.obj.seen
    BY <1>1, <2>1 DEF RowInv, TargetInOrder
  <2>3. Older(roll[r].tgt.seen)'
    <3>. SUFFICES ASSUME live' # Absent PROVE roll'[r].tgt.seen <= live'.seen
      BY DEF Older
    <3>1. live # Absent /\ live.seen <= live'.seen /\ live.seen \in Nat /\ live'.seen \in Nat
      BY DEF Object
    <3>. QED BY <1>2, <2>1, <2>2, <3>1 DEF Older
  <2>. QED BY <2>2, <2>3
<1>. QED BY <1>2, <1>3, <1>4, VerdictsStand DEF RowInv

\* The workload after a patch or an edit: status and UID stay.
LEMMA ChangedObject ==
    ASSUME NEW o \in Object, NEW sp \in Specs
    PROVE  LET n == [o EXCEPT !.spec = sp, !.gen = @ + 1] IN
           /\ n \in Object /\ n.uid = o.uid /\ n.spec = sp /\ n.gen = o.gen + 1
           /\ n.seen = o.seen /\ n.pods = o.pods
<1>1. o.gen + 1 \in Nat
  BY DEF Object
<1>. QED BY <1>1 DEF Object

\* A patch that is applied writes the template that was there.
LEMMA ApplyPatchOK ==
    ASSUME JudgedInv, NEW q \in Patches, ApplyPatch(q)
    PROVE  JudgedInv'
<1>. DEFINE tpl == IF q[1] = "rollback" THEN prev[q[2]].spec.tpl ELSE live.spec.tpl
            sp == [tpl |-> tpl, by |-> q]
            new == [live EXCEPT !.spec = sp, !.gen = @ + 1]
<1>1. /\ live \in Object /\ live # Absent /\ q[2] \in Rollouts /\ q \in wire
      /\ prev[q[2]].spec \in Specs /\ edits \in Nat
  BY DEF ApplyPatch, JudgedInv, TypeOK, Patches
<1>2. sp \in Specs
  BY <1>1 DEF Specs, Object
<1>3. /\ new \in Object /\ new.uid = live.uid /\ new.spec = sp
      /\ new.gen = live.gen + 1 /\ new.seen = live.seen /\ new.pods = live.pods
  BY <1>1, <1>2, ChangedObject
<1>4. /\ live' = new /\ wire' = wire \ {q} /\ applied' = applied \cup {q}
      /\ UNCHANGED <<ledger, readied, edits, crashes, inv, col, Items>>
  BY DEF ApplyPatch, Change, Items
<1>5. sp.tpl = tpl /\ sp.by = q /\ q # None
  BY NamesAssumption DEF Patches
<1>6. edits = 0 => tpl = Original
  BY <1>1 DEF JudgedInv, UneditedWorkload, Patched, Faithful, RowInv, StartedFirst
<1>. HIDE DEF new, sp, tpl
<1>7. TypeOK'
  BY <1>1, <1>3, <1>4 DEF JudgedInv, TypeOK, ledger
<1>8. ReadyIsRecorded'
  BY <1>1, <1>3, <1>4 DEF JudgedInv, ReadyIsRecorded, Recorded
<1>9. UneditedWorkload'
  <2>. SUFFICES ASSUME edits = 0
                PROVE  /\ Patched(live)'
                       /\ \A i \in Items : Patched(i.obj)' /\ (i.obj # Absent => Older(i.obj.seen)')
                       /\ \A s \in readied : Faithful(s.spec)' /\ (s.spec.by = None => s.gen = 1)
    BY <1>4 DEF UneditedWorkload
  <2>1. /\ Patched(live)
        /\ \A i \in Items : Patched(i.obj) /\ (i.obj # Absent => Older(i.obj.seen))
        /\ \A s \in readied : Faithful(s.spec) /\ (s.spec.by = None => s.gen = 1)
    BY DEF JudgedInv, UneditedWorkload
  <2>2. live'.seen = live.seen
    BY <1>3, <1>4
  <2>3. Patched(live)'
    <3>1. live.gen \in Nat /\ live.seen \in Nat
      BY <1>1 DEF Object
    <3>. QED BY <1>1, <1>3, <1>4, <1>5, <1>6, <2>1, <3>1 DEF Patched, Faithful
  <2>4. \A i \in Items : Patched(i.obj)' /\ (i.obj # Absent => Older(i.obj.seen)')
    BY <1>1, <1>4, <2>1, <2>2 DEF Patched, Faithful, Older
  <2>. QED BY <1>4, <2>1, <2>3, <2>4 DEF Faithful
<1>10. \A r \in Rollouts : RowInv(r)'
  BY <1>1, <1>3, <1>4, RowsStand DEF Object
<1>. QED BY <1>7, <1>8, <1>9, <1>10 DEF JudgedInv

\* A patch that is lost changes nothing.
LEMMA LosePatchOK ==
    ASSUME JudgedInv, NEW q \in Patches, LosePatch(q)
    PROVE  JudgedInv'
<1>1. /\ wire' = wire \ {q}
      /\ UNCHANGED <<ledger, live, applied, readied, edits, crashes, inv, col, Items>>
  BY DEF LosePatch, Items
<1>2. TypeOK' /\ ReadyIsRecorded' /\ UneditedWorkload'
  BY <1>1 DEF JudgedInv, TypeOK, ledger, ReadyIsRecorded, Recorded, UneditedWorkload,
              Patched, Faithful, Older
<1>3. edits \in Nat /\ (live # Absent => live \in Object)
  BY DEF JudgedInv, TypeOK
<1>4. live # Absent => live.seen \in Nat
  BY <1>3 DEF Object
<1>5. \A r \in Rollouts : RowInv(r)'
  BY <1>1, <1>3, <1>4, RowsStand
<1>. QED BY <1>2, <1>5 DEF JudgedInv

\* The controller and its pods leave the spec alone.
LEMMA ControllerOK ==
    ASSUME JudgedInv, ControllerActs \/ PodsSettle
    PROVE  JudgedInv'
<1>1. /\ live \in Object /\ live # Absent /\ edits \in Nat
      /\ readied \subseteq [uid : Nat, gen : Nat, spec : Specs]
  BY DEF ControllerActs, PodsSettle, JudgedInv, TypeOK
<1>2. UNCHANGED <<ledger, wire, applied, edits, crashes, inv, col, Items>>
  BY DEF ControllerActs, PodsSettle, Items
<1>3. /\ live' \in Object /\ live'.uid = live.uid /\ live'.gen = live.gen
      /\ live'.spec = live.spec /\ live.seen \in Nat /\ live.gen \in Nat
      /\ live'.seen \in {live.seen, live.gen}
  BY <1>1 DEF ControllerActs, PodsSettle, Object
<1>4. Generation(live) \in [uid : Nat, gen : Nat, spec : Specs]
  BY <1>1 DEF Generation, Object
<1>5. readied \subseteq readied' /\ readied' \subseteq readied \cup {Generation(live)}
  BY DEF ControllerActs, PodsSettle
<1>6. TypeOK'
  BY <1>1, <1>2, <1>3, <1>4, <1>5 DEF JudgedInv, TypeOK, ledger
<1>7. ReadyIsRecorded'
  <2>1. Recorded(live)'
    <3>1. CASE ControllerActs
      BY <1>1, <3>1 DEF ControllerActs, Recorded, Object
    <3>2. CASE PodsSettle /\ readied' = readied \cup {Generation(live)}
      <4>1. live'.seen = live.gen
        BY <1>1, <3>2 DEF PodsSettle, Object
      <4>2. /\ Generation(live) \in readied'
            /\ Generation(live).uid = live'.uid /\ Generation(live).gen = live'.seen
        BY <1>3, <3>2, <4>1 DEF Generation
      <4>. QED BY <4>2 DEF Recorded
    <3>3. CASE PodsSettle /\ live' = [live EXCEPT !.pods = "failing"]
      <4>1. live'.pods = "failing"
        BY <1>1, <3>3 DEF Object
      <4>. QED BY <4>1 DEF Recorded
    <3>. QED BY <3>1, <3>2, <3>3 DEF ControllerActs, PodsSettle
  <2>2. \A i \in Items : Recorded(i.obj)'
    BY <1>2, <1>5 DEF JudgedInv, ReadyIsRecorded, Recorded
  <2>. QED BY <1>2, <2>1, <2>2 DEF ReadyIsRecorded
<1>8. UneditedWorkload' /\ (edits = 0 => live.seen <= live'.seen)
  <2>. SUFFICES ASSUME edits = 0
                PROVE  /\ Patched(live)' /\ live.seen <= live'.seen
                       /\ \A i \in Items : Patched(i.obj)' /\ (i.obj # Absent => Older(i.obj.seen)')
                       /\ \A s \in readied' : Faithful(s.spec)' /\ (s.spec.by = None => s.gen = 1)
    BY <1>2 DEF UneditedWorkload
  <2>1. /\ Patched(live)
        /\ \A i \in Items : Patched(i.obj) /\ (i.obj # Absent => Older(i.obj.seen))
        /\ \A s \in readied : Faithful(s.spec) /\ (s.spec.by = None => s.gen = 1)
    BY DEF JudgedInv, UneditedWorkload
  <2>2. /\ 1 <= live.seen /\ live.seen <= live.gen /\ live.uid = 1 /\ Faithful(live.spec)
        /\ live.spec.by = None => live.gen = 1 /\ live.spec = Spec0
    BY <1>1, <2>1 DEF Patched
  <2>3. Patched(live)' /\ live.seen <= live'.seen
    BY <1>2, <1>3, <2>2 DEF Patched, Faithful
  <2>4. ASSUME NEW i \in Items
        PROVE  Patched(i.obj)' /\ (i.obj # Absent => Older(i.obj.seen)')
    <3>1. Patched(i.obj)'
      BY <1>2, <2>1 DEF Patched, Faithful
    <3>2. i.obj # Absent => i.obj.seen \in Nat /\ i.obj.seen <= live.seen
      BY <1>1, <2>1, ItemTypes DEF JudgedInv, Object, Older
    <3>. QED BY <1>1, <1>3, <2>3, <3>1, <3>2 DEF Older
  <2>5. \A s \in readied' : Faithful(s.spec)' /\ (s.spec.by = None => s.gen = 1)
    BY <1>2, <1>5, <2>1, <2>2 DEF Faithful, Generation
  <2>. QED BY <2>3, <2>4, <2>5
<1>9. \A r \in Rollouts : RowInv(r)'
  BY <1>1, <1>2, <1>3, <1>5, <1>8, RowsStand
<1>. QED BY <1>6, <1>7, <1>8, <1>9 DEF JudgedInv

\* After an edit nothing is promised of the workload but what is recorded.
LEMMA DisturbOK ==
    ASSUME JudgedInv, Disturb
    PROVE  JudgedInv'
<1>1. /\ UNCHANGED <<ledger, wire, applied, readied, crashes, inv, col, Items>>
      /\ edits' = edits + 1 /\ edits \in Nat /\ edits' \in 0 .. MaxEdits
  BY BoundsAssumption DEF Disturb, Items, JudgedInv, TypeOK
<1>2. live' \in {Absent} \cup Object /\ Recorded(live)'
  <2>1. ASSUME live # Absent, NEW t \in Templates,
               Change([live.spec EXCEPT !.tpl = t])
        PROVE  live' \in Object /\ Recorded(live)'
    <3>. DEFINE sp == [live.spec EXCEPT !.tpl = t]
                new == [live EXCEPT !.spec = sp, !.gen = @ + 1]
    <3>1. live \in Object /\ Recorded(live)
      BY <2>1 DEF JudgedInv, TypeOK, ReadyIsRecorded
    <3>2. sp \in Specs
      BY <3>1 DEF Object, Specs
    <3>3. new \in Object /\ new.uid = live.uid /\ new.seen = live.seen /\ new.pods = live.pods
      BY <3>1, <3>2, ChangedObject
    <3>4. live' = new
      BY <2>1 DEF Change
    <3>. HIDE DEF new
    <3>. QED BY <1>1, <2>1, <3>1, <3>3, <3>4 DEF Recorded
  <2>2. ASSUME live # Absent, live' = Workload(live.uid + 1)
        PROVE  live' \in Object /\ Recorded(live)'
    <3>1. Spec0 \in Specs /\ live.uid + 1 \in Nat
      BY <2>2, BoundsAssumption DEF Spec0, Specs, JudgedInv, TypeOK, Object
    <3>. QED BY <2>2, <3>1 DEF Workload, Object, Recorded
  <2>3. CASE live' = Absent
    BY <2>3 DEF Recorded
  <2>. QED BY <2>1, <2>2, <2>3 DEF Disturb
<1>3. TypeOK'
  BY <1>1, <1>2 DEF JudgedInv, TypeOK, ledger
<1>4. ReadyIsRecorded'
  BY <1>1, <1>2 DEF JudgedInv, ReadyIsRecorded, Recorded
<1>5. UneditedWorkload'
  BY <1>1 DEF UneditedWorkload
<1>6. \A r \in Rollouts : RowInv(r)'
  BY <1>1, RowsStand
<1>. QED BY <1>3, <1>4, <1>5, <1>6 DEF JudgedInv

-----------------------------------------------------------------------------
(***************************************************************************)
(* The collectors                                                          *)
(***************************************************************************)
(***************************************************************************)
(* A collection step: an item is as some item before, begins with what is  *)
(* started by then, or is filled with the workload as it is.               *)
(***************************************************************************)
Begun(i) ==
    i.obj = Absent /\ \A r \in Rollouts : r \in i.rbSince => RollbackStarted(r)

Listed(i) ==
    \E j \in Items : i.obj = live /\ i.rbSince = j.rbSince

\* Whatever such steps do to the items, the rows stay as they were judged.
LEMMA CollectionOK ==
    ASSUME JudgedInv, UNCHANGED <<ledger, cluster>>, TypeOK',
           \A i \in Items' : i \in Items \/ Begun(i) \/ Listed(i)
    PROVE  JudgedInv'
<1>1. UNCHANGED <<act, roll, prev, exec, roller, live, wire, applied, readied, edits>>
  BY DEF ledger, cluster
<1>2. \A i \in Items' : i.obj \in {Absent} \cup Object
  BY ItemTypes DEF TypeOK, Items, Item
<1>3. ReadyIsRecorded'
  BY <1>1 DEF JudgedInv, ReadyIsRecorded, Recorded, Begun, Listed
<1>4. UneditedWorkload'
  <2>. SUFFICES ASSUME edits = 0
                PROVE  \A i \in Items' : Patched(i.obj)
                                         /\ (i.obj # Absent => Older(i.obj.seen))
    BY <1>1 DEF JudgedInv, UneditedWorkload, Patched, Faithful, Older
  <2>1. live # Absent => live.seen \in Nat
    BY DEF JudgedInv, TypeOK, Object
  <2>. QED BY <2>1 DEF JudgedInv, UneditedWorkload, Patched, Older, Begun, Listed
<1>5. ASSUME NEW r \in Rollouts PROVE RowInv(r)'
  <2>1. RowInv(r)
    BY DEF JudgedInv
  <2>2. InOrder(r)'
    <3>1. roll[r].rb = "" => \A i \in Items' : r \notin i.rbSince
      BY <2>1 DEF RowInv, InOrder, Begun, Listed, RollbackStarted
    <3>. QED BY <1>1, <2>1, <3>1 DEF RowInv, InOrder
  <2>3. TargetInOrder(r)'
    <3>. SUFFICES ASSUME edits = 0, roll[r].tgt # NoBase, NEW i \in Items',
                         r \in i.rbSince, i.obj # Absent
                  PROVE  roll[r].tgt.seen <= i.obj.seen
      BY <1>1, <2>1 DEF RowInv, TargetInOrder, Older
    <3>. QED BY <2>1 DEF RowInv, TargetInOrder, Older, Begun, Listed
  <2>4. edits \in Nat
    BY DEF JudgedInv, TypeOK
  <2>. QED BY <1>1, <2>2, <2>3, <2>4, VerdictsStand DEF RowInv
<1>. QED BY <1>3, <1>4, <1>5 DEF JudgedInv

\* A collection begins, lists, and writes what it listed whenever it can.
LEMMA InventoryOK ==
    ASSUME JudgedInv, NEW c \in Collectors,
           BeginCollect(c) \/ Collect(c) \/ UpsertK8sInventory(c)
    PROVE  JudgedInv'
<1>. DEFINE Work == [pc : {"idle", "list", "upsert"}, item : Item]
            fresh == [obj |-> Absent,
                      since |-> {r \in Rollouts : Started(r)},
                      rbSince |-> {r \in Rollouts : RollbackStarted(r)}]
<1>1. /\ UNCHANGED <<ledger, cluster>> /\ col \in [Collectors -> Work]
      /\ inv \in Item /\ live \in {Absent} \cup Object /\ NoItem \in Item
  BY DEF BeginCollect, Collect, UpsertK8sInventory, JudgedInv, TypeOK, NoItem, Item
<1>2. CASE BeginCollect(c)
  <2>1. fresh \in Item /\ fresh.obj = Absent
        /\ \A r \in Rollouts : r \in fresh.rbSince => RollbackStarted(r)
    BY DEF Item
  <2>2. inv' = inv /\ col' = [col EXCEPT ![c] = [pc |-> "list", item |-> fresh]]
    BY <1>2 DEF BeginCollect
  <2>. HIDE DEF fresh
  <2>3. TypeOK'
    BY <1>1, <2>1, <2>2 DEF JudgedInv, TypeOK, ledger, cluster
  <2>4. \A d \in Collectors : col'[d].item = IF d = c THEN fresh ELSE col[d].item
    BY <1>1, <2>2
  <2>5. \A i \in Items' : i \in Items \/ Begun(i)
    BY <2>1, <2>2, <2>4 DEF Items, Begun
  <2>. QED BY <1>1, <2>3, <2>5, CollectionOK
<1>3. CASE Collect(c)
  <2>. DEFINE item == [col[c].item EXCEPT !.obj = live]
  <2>1. col[c].item \in Item /\ col[c] \in Work /\ col[c].item \in Items
    BY <1>1 DEF Items
  <2>2. item \in Item /\ item.obj = live /\ item.rbSince = col[c].item.rbSince
    BY <1>1, <2>1 DEF Item
  <2>3. /\ inv' = inv /\ [pc |-> "upsert", item |-> item] \in Work
        /\ col' = [col EXCEPT ![c] = [pc |-> "upsert", item |-> item]]
    BY <1>1, <1>3, <2>1, <2>2 DEF Collect
  <2>. HIDE DEF item
  <2>4. TypeOK'
    BY <1>1, <2>3 DEF JudgedInv, TypeOK, ledger, cluster
  <2>5. \A d \in Collectors : col'[d].item = IF d = c THEN item ELSE col[d].item
    BY <1>1, <2>3
  <2>6. \A i \in Items' : i \in Items \/ Listed(i)
    BY <2>1, <2>2, <2>3, <2>5 DEF Items, Listed
  <2>. QED BY <1>1, <2>4, <2>6, CollectionOK
<1>4. CASE UpsertK8sInventory(c)
  <2>1. /\ inv' = col[c].item
        /\ col' = [col EXCEPT ![c] = [pc |-> "idle", item |-> NoItem]]
    BY <1>4 DEF UpsertK8sInventory
  <2>2. TypeOK'
    BY <1>1, <2>1 DEF JudgedInv, TypeOK, ledger, cluster
  <2>3. \A d \in Collectors : col'[d].item = IF d = c THEN NoItem ELSE col[d].item
    BY <1>1, <2>1
  <2>4. Begun(NoItem)
    BY DEF Begun, NoItem
  <2>5. \A i \in Items' : i \in Items \/ Begun(i)
    BY <2>1, <2>3, <2>4 DEF Items
  <2>. QED BY <1>1, <2>2, <2>5, CollectionOK
<1>. QED BY <1>2, <1>3, <1>4

-----------------------------------------------------------------------------
(***************************************************************************)
(* The ledgers                                                             *)
(***************************************************************************)
\* A step on one rollout concerns no other one.
LEMMA RowStep ==
    ASSUME JudgedInv, TypeOK', NEW r \in Rollouts,
           UNCHANGED <<live, inv, col, applied, readied, edits>>,
           wire' \subseteq wire \cup Own(r),
           \A q \in Rollouts \ {r} :
              /\ act'[q] = act[q] /\ roll'[q] = roll[q] /\ prev'[q] = prev[q]
              /\ exec'[q] = exec[q] /\ roller'[q] = roller[q],
           RowInv(r)'
    PROVE  JudgedInv'
<1>1. UNCHANGED Items
  BY DEF Items
<1>2. ReadyIsRecorded' /\ UneditedWorkload'
  BY <1>1 DEF JudgedInv, ReadyIsRecorded, Recorded, UneditedWorkload, Patched,
              Faithful, Older
<1>3. ASSUME NEW q \in Rollouts \ {r}
      PROVE  RowInv(q)'
  <2>1. RowInv(q)
    BY DEF JudgedInv
  <2>2. <<"restart", q>> \notin Own(r) /\ <<"rollback", q>> \notin Own(r)
    BY DEF Own
  <2>3. InOrder(q)'
    BY <1>1, <2>1, <2>2 DEF RowInv, InOrder
  <2>4. TargetInOrder(q)'
    BY <1>1, <2>1 DEF RowInv, TargetInOrder, Older
  <2>5. UNCHANGED Disturbed(q) /\ UNCHANGED Executed(q)
    BY DEF Disturbed, Executed
  <2>6. StartedFirst(q)' /\ NotedExecuted(q)'
    BY <2>1, <2>5 DEF RowInv, StartedFirst, NotedExecuted
  <2>7. RealSuccess(q)' /\ RealRestore(q)' /\ RealExecution(q)'
    BY <2>1, <2>5 DEF RowInv, RealSuccess, RealRestore, RealExecution
  <2>. QED BY <2>3, <2>4, <2>6, <2>7 DEF RowInv
<1>. QED BY <1>2, <1>3 DEF JudgedInv

\* What nobody else disturbed is the work of the rollout's own patches.
LEMMA Undisturbed ==
    ASSUME JudgedInv, NEW r \in Rollouts, ~Disturbed(r), act[r] # "none"
    PROVE  /\ edits = 0 /\ applied \subseteq Own(r)
           /\ prev[r].uid = 1 /\ prev[r].spec = Spec0 /\ prev[r].seen = 1
           /\ \A s \in readied : Faithful(s.spec) /\ (s.spec.by = None => s.gen = 1)
<1>1. edits = 0
  BY DEF Disturbed, JudgedInv, TypeOK
<1>2. applied \subseteq Own(r)
  BY DEF Disturbed, JudgedInv, TypeOK, Patches, Own
<1>3. prev[r] = [uid |-> 1, spec |-> Spec0, seen |-> 1]
  BY DEF JudgedInv, RowInv, StartedFirst
<1>. QED BY <1>1, <1>2, <1>3 DEF JudgedInv, UneditedWorkload

\* Before any patch the inventory shows the first generation.
LEMMA Untouched ==
    ASSUME JudgedInv, edits = 0, applied = {}, NEW i \in Items, i.obj # Absent
    PROVE  i.obj.uid = 1 /\ i.obj.spec = Spec0 /\ i.obj.seen = 1
<1>1. Patched(i.obj) /\ i.obj \in Object
  BY ItemTypes DEF JudgedInv, UneditedWorkload
<1>2. i.obj.spec.by = None
  BY <1>1 DEF Patched, Faithful
<1>. QED BY <1>1, <1>2 DEF Patched, Object

\* As long as there was no rollback, a mutation that is seen was executed.
LEMMA TouchedIsExecuted ==
    ASSUME JudgedInv, NEW r \in Rollouts, act[r] # "none", roll[r].rb = "",
           MutationObserved(r) \/ ControllerObserved(r)
    PROVE  Executed(r)
<1>. SUFFICES ASSUME ~Disturbed(r), <<"restart", r>> \notin applied
              PROVE  FALSE
  BY DEF Executed
<1>1. <<"rollback", r>> \notin applied
  BY DEF JudgedInv, RowInv, InOrder
<1>2. /\ edits = 0 /\ applied \subseteq Own(r)
      /\ prev[r].spec = Spec0 /\ prev[r].seen = 1
  BY Undisturbed
<1>3. applied = {}
  BY <1>1, <1>2 DEF Own
<1>4. inv.obj # Absent /\ inv \in Items
  BY DEF MutationObserved, ControllerObserved, Items
<1>5. inv.obj.spec = Spec0 /\ inv.obj.seen = 1
  BY <1>2, <1>3, <1>4, Untouched
<1>6. Spec0.by \notin {<<"restart", r>>, <<"rollback", r>>}
  <2>1. <<"restart", r>> \in Patches /\ <<"rollback", r>> \in Patches
    BY DEF Patches
  <2>. QED BY <2>1, NamesAssumption DEF Patches, Spec0
<1>7. ~MutationObserved(r)
  BY <1>2, <1>5, <1>6 DEF MutationObserved
<1>8. ~ControllerObserved(r)
  BY <1>2, <1>5 DEF ControllerObserved, Moved
<1>. QED BY <1>7, <1>8

\* A rollout starts from what the inventory shows.
LEMMA RequestRolloutOK ==
    ASSUME JudgedInv, NEW r \in Rollouts, NEW auto \in BOOLEAN,
           NEW restorable \in BOOLEAN, RequestRollout(r, auto, restorable)
    PROVE  JudgedInv'
<1>. DEFINE row == NewRow(auto, restorable)
            saved == [uid |-> inv.obj.uid, spec |-> inv.obj.spec, seen |-> inv.obj.seen]
<1>1. /\ inv \in Items /\ inv.obj # Absent /\ inv.obj \in Object
      /\ RowInv(r) /\ act[r] = "none" /\ edits \in Nat
  BY ItemTypes DEF RequestRollout, JudgedInv, TypeOK, Items
<1>2. /\ row.status = "approved" /\ row.rb = "" /\ row.tgt = NoBase /\ row \in RolloutRow
  BY DEF NewRow, RolloutRow, Status, Waiting, RollbackStatus
<1>3. /\ saved \in [uid : Nat, spec : Specs, seen : Nat]
      /\ saved.uid = inv.obj.uid /\ saved.spec = inv.obj.spec /\ saved.seen = inv.obj.seen
  BY <1>1 DEF Object
<1>4. /\ act' = [act EXCEPT ![r] = "approved"] /\ roll' = [roll EXCEPT ![r] = row]
      /\ prev' = [prev EXCEPT ![r] = saved] /\ exec' = [exec EXCEPT ![r] = "check"]
      /\ UNCHANGED <<roller, cluster, inv, col, Items>>
  BY DEF RequestRollout, Items
<1>. HIDE DEF row
<1>5. TypeOK'
  BY <1>2, <1>3, <1>4 DEF JudgedInv, TypeOK, cluster, ActionStatus
<1>6. act'[r] = "approved" /\ roll'[r] = row /\ prev'[r] = saved /\ exec'[r] = "check"
  BY <1>4 DEF JudgedInv, TypeOK
<1>7. roll[r].rb = ""
  BY <1>1 DEF RowInv, InOrder, Broken
<1>8. InOrder(r)'
  BY <1>1, <1>2, <1>4, <1>6, <1>7 DEF RowInv, InOrder, cluster
<1>9. StartedFirst(r)'
  <2>1. edits = 0 => saved.spec.tpl = Original
    BY <1>1, <1>3 DEF JudgedInv, UneditedWorkload, Patched, Faithful
  <2>2. ASSUME ~Disturbed(r)
        PROVE  saved = [uid |-> 1, spec |-> Spec0, seen |-> 1]
    <3>1. edits = 0 /\ applied \subseteq Own(r)
      BY <2>2 DEF Disturbed, JudgedInv, TypeOK, Patches, Own
    <3>2. applied = {}
      BY <1>1, <1>7, <3>1 DEF RowInv, InOrder, Own
    <3>. QED BY <1>1, <3>1, <3>2, Untouched
  <2>3. Disturbed(r)' <=> Disturbed(r)
    BY <1>4 DEF Disturbed, cluster
  <2>. QED BY <1>4, <1>6, <2>1, <2>2, <2>3 DEF StartedFirst, cluster
<1>10. RowInv(r)'
  BY <1>2, <1>6, <1>8, <1>9 DEF RowInv, TargetInOrder, NotedExecuted, RealSuccess,
                                RealRestore, RealExecution
<1>. QED BY <1>4, <1>5, <1>10, RowStep DEF cluster, JudgedInv, TypeOK

(***************************************************************************)
(* A step that leaves the target, what was saved and the success of the    *)
(* row alone keeps the judgements, if the action is closed rightly and the *)
(* row stays in order.                                                     *)
(***************************************************************************)
LEMMA PlainStep ==
    ASSUME JudgedInv, TypeOK', NEW r \in Rollouts,
           UNCHANGED <<live, prev, inv, col, applied, readied, edits>>,
           wire' \subseteq wire \cup Own(r),
           \A q \in Rollouts \ {r} :
              /\ act'[q] = act[q] /\ roll'[q] = roll[q]
              /\ exec'[q] = exec[q] /\ roller'[q] = roller[q],
           roll'[r].tgt = roll[r].tgt, roll'[r].auto = roll[r].auto,
           roll'[r].status = "succeeded" => roll[r].status = "succeeded",
           roll'[r].rb = "succeeded" => roll[r].rb = "succeeded",
           act[r] # "none" \/ act'[r] = "none",
           act'[r] = "executed" /\ ~roll[r].auto => act[r] = "executed" \/ Executed(r),
           InOrder(r)'
    PROVE  JudgedInv'
<1>1. RowInv(r) /\ UNCHANGED Items
  BY DEF JudgedInv, Items
<1>2. (Disturbed(r)' <=> Disturbed(r)) /\ (Executed(r)' <=> Executed(r))
  BY DEF Disturbed, Executed
<1>3. TargetInOrder(r)'
  BY <1>1 DEF RowInv, TargetInOrder, Older
<1>4. StartedFirst(r)' /\ NotedExecuted(r)'
  BY <1>1, <1>2 DEF RowInv, StartedFirst, NotedExecuted
<1>5. RealSuccess(r)' /\ RealRestore(r)' /\ RealExecution(r)'
  BY <1>1, <1>2 DEF RowInv, RealSuccess, RealRestore, RealExecution
<1>6. RowInv(r)'
  BY <1>3, <1>4, <1>5 DEF RowInv
<1>. QED BY <1>6, RowStep

\* What a rollout that was never requested has not begun.
LEMMA Requested ==
    ASSUME JudgedInv, NEW r \in Rollouts,
           exec[r] # "new" \/ roll[r].status # "rejected" \/ roll[r].rb # ""
             \/ roller[r] # "idle"
    PROVE  act[r] # "none"
BY DEF JudgedInv, RowInv, InOrder, Broken

\* The execution starts, or is blocked, before anything is sent.
LEMMA StartK8sRolloutExecutionOK ==
    ASSUME JudgedInv, NEW r \in Rollouts, StartK8sRolloutExecution(r)
    PROVE  JudgedInv'
<1>. DEFINE row == [roll[r] EXCEPT !.status = "running"]
<1>1. RowInv(r) /\ roll[r] \in RolloutRow /\ exec[r] = "check" /\ act[r] # "none"
  BY Requested DEF JudgedInv, TypeOK, StartK8sRolloutExecution
<1>2. /\ row \in RolloutRow /\ row.status = "running" /\ row.rb = roll[r].rb
      /\ row.tgt = roll[r].tgt /\ row.auto = roll[r].auto
  BY <1>1 DEF RolloutRow, Status, Driving
<1>3. /\ act' = [act EXCEPT ![r] = "running"] /\ roll' = [roll EXCEPT ![r] = row]
      /\ exec' = [exec EXCEPT ![r] = exec'[r]] /\ exec'[r] \in {"blocked", "send"}
      /\ UNCHANGED <<prev, roller, cluster, inv, col, Items>>
  BY DEF StartK8sRolloutExecution, JudgedInv, TypeOK, Items
<1>. HIDE DEF row
<1>4. TypeOK'
  BY <1>2, <1>3 DEF JudgedInv, TypeOK, cluster, ActionStatus
<1>5. act'[r] = "running" /\ roll'[r] = row
  BY <1>3 DEF JudgedInv, TypeOK
<1>6. roll[r].rb = ""
  BY <1>1 DEF RowInv, InOrder, Broken
<1>7. InOrder(r)'
  BY <1>1, <1>2, <1>3, <1>5, <1>6 DEF RowInv, InOrder, cluster
<1>. QED BY <1>1, <1>2, <1>3, <1>4, <1>5, <1>6, <1>7, PlainStep
         DEF cluster, JudgedInv, TypeOK

\* The restart is on the wire.
LEMMA SendRestartOK ==
    ASSUME JudgedInv, NEW r \in Rollouts, SendRestart(r)
    PROVE  JudgedInv'
<1>1. /\ RowInv(r) /\ act[r] # "none" /\ exec' = [exec EXCEPT ![r] = "await"]
      /\ wire' = wire \cup {<<"restart", r>>}
      /\ UNCHANGED <<act, roll, prev, roller, live, applied, readied, edits,
                     crashes, inv, col, Items>>
  BY Requested DEF JudgedInv, SendRestart, Items
<1>2. exec'[r] = "await"
  BY <1>1 DEF JudgedInv, TypeOK
<1>3. TypeOK'
  BY <1>1 DEF JudgedInv, TypeOK, Patches
<1>4. InOrder(r)'
  BY <1>1, <1>2 DEF RowInv, InOrder
<1>5. wire' \subseteq wire \cup Own(r)
  BY <1>1 DEF Own
<1>. QED BY <1>1, <1>2, <1>3, <1>4, <1>5, PlainStep DEF JudgedInv, TypeOK, RowInv

\* The answer closes what still runs: with success only if it was applied.
LEMMA FinalizeK8sRolloutMutationOK ==
    ASSUME JudgedInv, NEW r \in Rollouts, FinalizeK8sRolloutMutation(r)
    PROVE  JudgedInv'
<1>1. PICK out \in IF exec[r] = "blocked" THEN {"blocked"}
                   ELSE Answer(<<"restart", r>>) :
        /\ exec[r] \in {"blocked", "await"}
        /\ exec' = [exec EXCEPT ![r] = "done"]
        /\ IF act[r] = "running" /\ roll[r].status = "running"
           THEN /\ act' = [act EXCEPT ![r] = FinalAction(out)]
                /\ roll' = [roll EXCEPT ![r] = FinalRow(roll[r], out)]
           ELSE UNCHANGED <<act, roll>>
        /\ UNCHANGED <<prev, roller, cluster, inv, col>>
  BY DEF FinalizeK8sRolloutMutation
<1>. DEFINE status == IF Refused(out) THEN "failed" ELSE "monitoring"
            rb == IF Refused(out) /\ roll[r].auto THEN "failed" ELSE ""
            row == [roll[r] EXCEPT !.status = status, !.rb = rb]
<1>2. /\ RowInv(r) /\ roll[r] \in RolloutRow /\ act[r] # "none"
      /\ UNCHANGED Items /\ exec'[r] = "done"
  BY <1>1, Requested DEF JudgedInv, TypeOK, Items
<1>3. /\ status \in {"failed", "monitoring"} /\ rb \in {"", "failed"}
      /\ status \in Status /\ rb \in RollbackStatus
      /\ rb # "" => status \in Broken /\ roll[r].auto
  BY DEF Status, RollbackStatus, Terminal, Broken, Driving
<1>. HIDE DEF status, rb
<1>4. /\ row \in RolloutRow /\ row.status = status /\ row.rb = rb
      /\ row.tgt = roll[r].tgt /\ row.auto = roll[r].auto
  BY <1>2, <1>3 DEF RolloutRow
<1>5. out = "ok" => <<"restart", r>> \in applied
  BY <1>1 DEF Answer
<1>6. FinalAction(out) \in ActionStatus \ {"none"}
      /\ (FinalAction(out) = "executed" => out = "ok")
  BY DEF FinalAction, ActionStatus
<1>7. FinalRow(roll[r], out) = row
  BY DEF FinalRow, status, rb
<1>. HIDE DEF row
<1>8. CASE act[r] = "running" /\ roll[r].status = "running"
  <2>1. act' = [act EXCEPT ![r] = FinalAction(out)] /\ roll' = [roll EXCEPT ![r] = row]
    BY <1>1, <1>7, <1>8
  <2>2. act'[r] = FinalAction(out) /\ roll'[r] = row
    BY <2>1 DEF JudgedInv, TypeOK
  <2>3. TypeOK'
    BY <1>1, <1>4, <1>6, <2>1 DEF JudgedInv, TypeOK, cluster
  <2>4. roll[r].rb = ""
    BY <1>2, <1>8 DEF RowInv, InOrder, Broken
  <2>5. InOrder(r)'
    BY <1>1, <1>2, <1>3, <1>4, <1>6, <2>2, <2>4 DEF RowInv, InOrder, cluster
  <2>6. Executed(r) \/ out # "ok"
    BY <1>5 DEF Executed
  <2>. QED BY <1>1, <1>2, <1>3, <1>4, <1>6, <2>1, <2>2, <2>3, <2>5, <2>6, PlainStep
           DEF cluster, JudgedInv, TypeOK
<1>9. CASE ~(act[r] = "running" /\ roll[r].status = "running")
  <2>1. UNCHANGED <<act, roll>>
    BY <1>1, <1>9
  <2>2. TypeOK'
    BY <1>1, <2>1 DEF JudgedInv, TypeOK, cluster
  <2>3. InOrder(r)'
    BY <1>1, <1>2, <2>1 DEF RowInv, InOrder, cluster
  <2>. QED BY <1>1, <1>2, <2>1, <2>2, <2>3, PlainStep
           DEF cluster, JudgedInv, TypeOK, RowInv
<1>. QED BY <1>8, <1>9

\* What a judgement is made of.
Observation == [found : BOOLEAN, other : BOOLEAN, touched : BOOLEAN, failed : BOOLEAN,
                healthy : BOOLEAN, restoreFailed : BOOLEAN, restored : BOOLEAN,
                base : {NoBase} \cup [spec : Specs, seen : Nat]]

(***************************************************************************)
(* One judgement, field by field.  Only a reconcile that had to do         *)
(* something notes a target, and it does so before there is a rollback.    *)
(***************************************************************************)
JudgedFrom(row, new, ev) ==
    /\ new \in RolloutRow /\ new.auto = row.auto
    /\ new.status \notin Broken => new.rb = ""
    /\ ~new.auto => new.rb = ""
    /\ new.rb = "" => row.rb = ""
    /\ row.status # "approved" /\ row.status # "rejected"
    /\ new.status = "succeeded" =>
          \/ row.status = "succeeded"
          \/ row.status \in Driving /\ ev.healthy /\ ~ev.failed
    /\ new.rb = "succeeded" =>
          row.rb = "succeeded" \/ (row.rb = "monitoring" /\ ev.restored)
    /\ \/ new.tgt = row.tgt
       \/ new.tgt = ev.base /\ row.rb = "" /\ (row.auto \/ ev.touched)

\* What a reconcile stores is judged from what it read and what it saw.
LEMMA JudgedRow ==
    ASSUME NEW row \in RolloutRow, NEW l \in BOOLEAN, NEW m \in BOOLEAN,
           NEW ev \in Observation,
           row.status \notin Broken => row.rb = "",
           ~row.auto => row.rb = "",
           rolloutReconcileDue(row)
    PROVE  JudgedFrom(row, Judge(row, ev, l, m), ev)
<1>. DEFINE status == JudgedStatus(row, ev, l)
            owed   == status \in Broken /\ row.auto /\ row.rb = ""
            noted  == (ev.touched /\ row.rb = "") \/ (owed /\ ev.found)
            tgt    == IF noted THEN ev.base ELSE row.tgt
            rb     == IF owed THEN RequestedRollback(row, ev)
                      ELSE JudgedRollback(row, ev, m)
            new    == [row EXCEPT !.status = status, !.tgt = tgt, !.rb = rb]
<1>1. Judge(row, ev, l, m) = new
  BY DEF Judge
<1>2. /\ row.status \in Status /\ row.rb \in RollbackStatus
      /\ row.tgt \in {NoBase} \cup [spec : Specs, seen : Nat]
      /\ ev.base \in {NoBase} \cup [spec : Specs, seen : Nat]
  BY DEF RolloutRow, Observation
<1>3. /\ status \in Status
      /\ row.status \in Broken => status = row.status
      /\ status = "succeeded" =>
            \/ row.status = "succeeded"
            \/ row.status \in Driving /\ ev.healthy /\ ~ev.failed
  BY <1>2 DEF JudgedStatus, Status, Driving, Terminal, Broken
<1>4. row.status # "approved" /\ row.status # "rejected"
  BY DEF rolloutReconcileDue, RollbackOpen, NeedsRollback, Driving, Broken
<1>5. /\ rb \in RollbackStatus
      /\ rb # "" => status \in Broken /\ row.auto
      /\ rb = "" => row.rb = ""
      /\ rb = "succeeded" =>
            row.rb = "succeeded" \/ (row.rb = "monitoring" /\ ev.restored)
  <2>1. CASE owed
    BY <2>1 DEF RequestedRollback, RollbackStatus, RollbackOpen
  <2>2. CASE ~owed
    BY <1>2, <1>3, <2>2 DEF JudgedRollback, RollbackStatus, RollbackOpen
  <2>. QED BY <2>1, <2>2
<1>6. /\ tgt \in {NoBase} \cup [spec : Specs, seen : Nat]
      /\ \/ tgt = row.tgt
         \/ tgt = ev.base /\ row.rb = "" /\ (row.auto \/ ev.touched)
  BY <1>2
<1>. HIDE DEF status, tgt, rb
<1>7. /\ new \in RolloutRow /\ new.status = status /\ new.rb = rb /\ new.tgt = tgt
      /\ new.auto = row.auto
  BY <1>2, <1>3, <1>5, <1>6 DEF RolloutRow
<1>. HIDE DEF new
<1>. QED BY <1>1, <1>3, <1>4, <1>5, <1>6, <1>7 DEF JudgedFrom

\* What is called succeeded has been seen ready under a later generation.
LEMMA HealthyIsReal ==
    ASSUME JudgedInv, NEW r \in Rollouts, act[r] # "none",
           roll[r].status \in Driving, Evidence(r).healthy, ~Evidence(r).failed
    PROVE  \E s \in readied : /\ s.uid = prev[r].uid /\ s.gen # prev[r].seen
                              /\ s.spec.by = <<"restart", r>> \/ Disturbed(r)
<1>1. /\ inv.obj # Absent /\ inv.obj.pods = "ready"
      /\ inv.obj.uid = prev[r].uid /\ inv.obj.seen # prev[r].seen
  BY DEF Evidence, MutationObserved, ControllerObserved, Moved
<1>2. PICK s \in readied : s.uid = inv.obj.uid /\ s.gen = inv.obj.seen
  BY <1>1 DEF JudgedInv, ReadyIsRecorded, Recorded, Items
<1>3. s.spec.by = <<"restart", r>> \/ Disturbed(r)
  <2>. SUFFICES ASSUME ~Disturbed(r) PROVE s.spec.by = <<"restart", r>>
    OBVIOUS
  <2>1. /\ applied \subseteq Own(r) /\ prev[r].seen = 1
        /\ s.spec.by \in applied \cup {None} /\ (s.spec.by = None => s.gen = 1)
    BY Undisturbed DEF Faithful
  <2>2. <<"rollback", r>> \notin applied
    BY DEF JudgedInv, RowInv, InOrder, Driving, Broken
  <2>. QED BY <1>1, <1>2, <2>1, <2>2 DEF Own
<1>. QED BY <1>1, <1>2, <1>3

\* What is called restored has been seen ready under a patch of its own.
LEMMA RestoredIsReal ==
    ASSUME JudgedInv, NEW r \in Rollouts, act[r] # "none", Evidence(r).restored
    PROVE  \/ \E s \in readied : /\ s.spec.tpl = prev[r].spec.tpl
                                 /\ s.spec.by \in {<<"restart", r>>, <<"rollback", r>>}
           \/ Disturbed(r)
<1>. SUFFICES ASSUME ~Disturbed(r)
              PROVE  \E s \in readied : /\ s.spec.tpl = prev[r].spec.tpl
                                        /\ s.spec.by \in Own(r)
  BY DEF Own
<1>1. /\ inv.obj # Absent /\ inv.obj.pods = "ready" /\ r \in inv.rbSince
      /\ roll[r].tgt # NoBase /\ inv.obj.seen # roll[r].tgt.seen
  BY DEF Evidence, RollbackObserved, Moved
<1>2. PICK s \in readied : s.uid = inv.obj.uid /\ s.gen = inv.obj.seen
  BY <1>1 DEF JudgedInv, ReadyIsRecorded, Recorded, Items
<1>3. /\ edits = 0 /\ applied \subseteq Own(r) /\ prev[r].spec = Spec0
      /\ Faithful(s.spec) /\ (s.spec.by = None => s.gen = 1)
  BY Undisturbed
<1>4. s.gen # 1
  <2>1. 1 <= roll[r].tgt.seen /\ roll[r].tgt.seen <= inv.obj.seen
    BY <1>1, <1>3 DEF JudgedInv, RowInv, TargetInOrder, Items
  <2>2. inv.obj \in Object /\ roll[r] \in RolloutRow
    BY <1>1, ItemTypes DEF JudgedInv, TypeOK, Items
  <2>. QED BY <1>1, <1>2, <2>1, <2>2 DEF Object, RolloutRow
<1>5. s.spec.tpl = prev[r].spec.tpl /\ s.spec.by \in Own(r)
  BY <1>3, <1>4 DEF Faithful, Spec0
<1>. QED BY <1>5

\* A reconcile judges by the inventory, and by nothing older than it needs.
LEMMA ReconcileRolloutOK ==
    ASSUME JudgedInv, NEW r \in Rollouts, ReconcileRollout(r)
    PROVE  JudgedInv'
<1>. DEFINE ev == Evidence(r)
<1>1. PICK l \in BOOLEAN, m \in BOOLEAN :
        roll' = [roll EXCEPT ![r] = Judge(roll[r], ev, l, m)]
  BY DEF ReconcileRollout
<1>. DEFINE new == Judge(roll[r], ev, l, m)
<1>2. /\ RowInv(r) /\ roll[r] \in RolloutRow /\ act[r] # "none" /\ edits \in Nat
      /\ rolloutReconcileDue(roll[r])
      /\ UNCHANGED <<act, prev, exec, roller, cluster, inv, col, Items>>
  BY DEF ReconcileRollout, JudgedInv, TypeOK, Items
<1>3. /\ inv.obj \in {Absent} \cup Object /\ inv \in Items
  BY ItemTypes DEF JudgedInv, Items
<1>4. /\ ev \in Observation
      /\ ev.base # NoBase => inv.obj # Absent /\ ev.base.seen = inv.obj.seen
      /\ ev.touched => MutationObserved(r) \/ ControllerObserved(r)
  BY <1>3 DEF Evidence, Object, Observation
<1>5. /\ roll[r].status \notin Broken => roll[r].rb = ""
      /\ ~roll[r].auto => roll[r].rb = ""
  BY <1>2 DEF RowInv, InOrder
<1>. HIDE DEF ev, new
<1>6. /\ new \in RolloutRow /\ new.auto = roll[r].auto
      /\ new.status \notin Broken => new.rb = ""
      /\ ~new.auto => new.rb = ""
      /\ new.rb = "" => roll[r].rb = ""
      /\ roll[r].status # "approved" /\ roll[r].status # "rejected"
      /\ new.status = "succeeded" =>
            \/ roll[r].status = "succeeded"
            \/ roll[r].status \in Driving /\ ev.healthy /\ ~ev.failed
      /\ new.rb = "succeeded" =>
            roll[r].rb = "succeeded" \/ (roll[r].rb = "monitoring" /\ ev.restored)
      /\ \/ new.tgt = roll[r].tgt
         \/ new.tgt = ev.base /\ roll[r].rb = "" /\ (roll[r].auto \/ ev.touched)
  <2>1. JudgedFrom(roll[r], new, ev)
    BY <1>2, <1>4, <1>5, JudgedRow DEF new
  <2>. QED BY <2>1 DEF JudgedFrom
<1>7. roll' = [roll EXCEPT ![r] = new]
  BY <1>1 DEF new
<1>8. TypeOK' /\ roll'[r] = new
  BY <1>2, <1>6, <1>7 DEF JudgedInv, TypeOK, cluster
<1>9. (Disturbed(r)' <=> Disturbed(r)) /\ (Executed(r)' <=> Executed(r))
  BY <1>2 DEF Disturbed, Executed, cluster
<1>10. InOrder(r)'
  BY <1>2, <1>6, <1>8 DEF RowInv, InOrder, cluster
<1>11. TargetInOrder(r)'
  <2>1. CASE new.tgt = roll[r].tgt
    BY <1>2, <1>8, <2>1 DEF RowInv, TargetInOrder, Older, cluster
  <2>2. CASE new.tgt = ev.base /\ roll[r].rb = ""
    <3>. SUFFICES ASSUME edits = 0, new.tgt # NoBase
                  PROVE  /\ 1 <= new.tgt.seen /\ Older(new.tgt.seen)
                         /\ \A i \in Items : r \notin i.rbSince
      BY <1>2, <1>8 DEF TargetInOrder, Older, cluster
    <3>1. inv.obj # Absent /\ new.tgt.seen = inv.obj.seen
      BY <1>4, <2>2
    <3>2. 1 <= inv.obj.seen /\ Older(inv.obj.seen)
      BY <1>3, <3>1 DEF JudgedInv, UneditedWorkload, Patched
    <3>3. \A i \in Items : r \notin i.rbSince
      BY <1>2, <2>2 DEF RowInv, InOrder
    <3>. QED BY <3>1, <3>2, <3>3
  <2>. QED BY <1>6, <2>1, <2>2
<1>12. StartedFirst(r)'
  BY <1>2, <1>9 DEF RowInv, StartedFirst, cluster
<1>13. NotedExecuted(r)'
  <2>1. CASE new.tgt = roll[r].tgt
    BY <1>2, <1>6, <1>8, <1>9, <2>1 DEF RowInv, NotedExecuted
  <2>2. CASE roll[r].rb = "" /\ ev.touched
    BY <1>2, <1>4, <1>9, <2>2, TouchedIsExecuted DEF NotedExecuted
  <2>3. CASE roll[r].auto
    BY <1>6, <1>8, <2>3 DEF NotedExecuted
  <2>. QED BY <1>6, <2>1, <2>2, <2>3
<1>14. RealSuccess(r)'
  <2>. SUFFICES ASSUME new.status = "succeeded"
                PROVE  \E s \in readied : /\ s.uid = prev[r].uid /\ s.gen # prev[r].seen
                                          /\ s.spec.by = <<"restart", r>> \/ Disturbed(r)
    BY <1>2, <1>8, <1>9 DEF RealSuccess, cluster
  <2>1. CASE roll[r].status = "succeeded"
    BY <1>2, <2>1 DEF RowInv, RealSuccess
  <2>2. CASE roll[r].status \in Driving /\ ev.healthy /\ ~ev.failed
    BY <1>2, <2>2, HealthyIsReal DEF ev
  <2>. QED BY <1>6, <2>1, <2>2
<1>15. RealRestore(r)'
  <2>. SUFFICES ASSUME new.rb = "succeeded"
                PROVE  \/ \E s \in readied :
                             /\ s.spec.tpl = prev[r].spec.tpl
                             /\ s.spec.by \in {<<"restart", r>>, <<"rollback", r>>}
                       \/ Disturbed(r)
    BY <1>2, <1>8, <1>9 DEF RealRestore, cluster
  <2>1. CASE roll[r].rb = "succeeded"
    BY <1>2, <2>1 DEF RowInv, RealRestore
  <2>2. CASE ev.restored
    BY <1>2, <2>2, RestoredIsReal DEF ev
  <2>. QED BY <1>6, <2>1, <2>2
<1>16. RealExecution(r)'
  BY <1>2, <1>6, <1>8, <1>9 DEF RowInv, RealExecution
<1>17. RowInv(r)'
  BY <1>10, <1>11, <1>12, <1>13, <1>14, <1>15, <1>16 DEF RowInv
<1>. QED BY <1>2, <1>7, <1>8, <1>17, RowStep DEF cluster, JudgedInv, TypeOK

(***************************************************************************)
(* A rollback that was asked for: its claim, its check, its patch and its  *)
(* answer move the rollback on, and leave everything else of the row.      *)
(***************************************************************************)
LEMMA RollbackRowStep ==
    ASSUME JudgedInv, NEW r \in Rollouts, act[r] # "none", roll[r].rb # "",
           NEW row \in RolloutRow, row.status = roll[r].status,
           row.tgt = roll[r].tgt, row.auto = roll[r].auto,
           row.rb \in {"", "succeeded"} => row.rb = roll[r].rb,
           NEW at \in {"idle", "verify", "send", "await"},
           roll' = [roll EXCEPT ![r] = row], roller' = [roller EXCEPT ![r] = at],
           wire' \subseteq wire \cup Own(r), wire' \subseteq Patches,
           UNCHANGED <<act, prev, exec, live, applied, readied, edits, crashes, inv, col>>
    PROVE  JudgedInv'
<1>1. RowInv(r) /\ roll'[r] = row
  BY DEF JudgedInv, TypeOK
<1>2. TypeOK'
  BY DEF JudgedInv, TypeOK
<1>3. InOrder(r)'
  BY <1>1 DEF RowInv, InOrder
<1>. QED BY <1>1, <1>2, <1>3, PlainStep DEF JudgedInv, TypeOK, RowInv

\* The same, said of the rollback's new status.
LEMMA RollbackStep ==
    ASSUME JudgedInv, NEW r \in Rollouts, act[r] # "none", roll[r].rb # "",
           NEW rb \in RollbackStatus, rb \in {"", "succeeded"} => rb = roll[r].rb,
           NEW at \in {"idle", "verify", "send", "await"},
           roll' = [roll EXCEPT ![r] = [roll[r] EXCEPT !.rb = rb]],
           roller' = [roller EXCEPT ![r] = at],
           wire' \subseteq wire \cup Own(r), wire' \subseteq Patches,
           UNCHANGED <<act, prev, exec, live, applied, readied, edits, crashes, inv, col>>
    PROVE  JudgedInv'
<1>. DEFINE row == [roll[r] EXCEPT !.rb = rb]
<1>1. roll[r] \in RolloutRow
  BY DEF JudgedInv, TypeOK
<1>2. /\ row \in RolloutRow /\ row.status = roll[r].status /\ row.rb = rb
      /\ row.tgt = roll[r].tgt /\ row.auto = roll[r].auto
  BY <1>1 DEF RolloutRow
<1>3. roll' = [roll EXCEPT ![r] = row]
  OBVIOUS
<1>. HIDE DEF row
<1>. QED BY <1>2, <1>3, RollbackRowStep

\* Whoever is at a rollback has one to do.
LEMMA RollerHasWork ==
    ASSUME JudgedInv, NEW r \in Rollouts, roller[r] # "idle"
    PROVE  act[r] # "none" /\ roll[r].rb # ""
BY Requested DEF JudgedInv, RowInv, InOrder

\* The rollback is claimed, ...
LEMMA ClaimRollbackOK ==
    ASSUME JudgedInv, NEW r \in Rollouts, ClaimRollback(r)
    PROVE  JudgedInv'
<1>1. act[r] # "none" /\ roll[r].rb = "requested"
  BY Requested DEF ClaimRollback
<1>2. "running" \in RollbackStatus
  BY DEF RollbackStatus, RollbackOpen
<1>. QED BY <1>1, <1>2, RollbackStep DEF ClaimRollback, cluster, JudgedInv, TypeOK

\* ... its target looked at, ...
LEMMA VerifyLiveTargetOK ==
    ASSUME JudgedInv, NEW r \in Rollouts, VerifyLiveTarget(r)
    PROVE  JudgedInv'
<1>1. /\ act[r] # "none" /\ roll[r].rb # "" /\ roll[r] \in RolloutRow
      /\ wire \subseteq Patches
  BY RollerHasWork DEF VerifyLiveTarget, JudgedInv, TypeOK
<1>2. /\ roll[r].rb \in RollbackStatus /\ "failed" \in RollbackStatus
      /\ [roll[r] EXCEPT !.rb = roll[r].rb] = roll[r]
  BY <1>1 DEF RollbackStatus, RolloutRow
<1>3. CASE live # Absent /\ live.uid = prev[r].uid
  <2>1. /\ roll' = [roll EXCEPT ![r] = [roll[r] EXCEPT !.rb = roll[r].rb]]
        /\ roller' = [roller EXCEPT ![r] = "send"]
    BY <1>2, <1>3 DEF VerifyLiveTarget, JudgedInv, TypeOK
  <2>2. UNCHANGED <<act, prev, exec, live, wire, applied, readied, edits, crashes, inv, col>>
    BY DEF VerifyLiveTarget, cluster
  <2>. QED BY <1>1, <1>2, <2>1, <2>2, RollbackStep
<1>4. CASE ~(live # Absent /\ live.uid = prev[r].uid)
  <2>1. /\ roll' = [roll EXCEPT ![r] = [roll[r] EXCEPT !.rb = "failed"]]
        /\ roller' = [roller EXCEPT ![r] = "idle"]
    BY <1>4 DEF VerifyLiveTarget, RollbackRow, Refused
  <2>2. UNCHANGED <<act, prev, exec, live, wire, applied, readied, edits, crashes, inv, col>>
    BY DEF VerifyLiveTarget, cluster
  <2>. QED BY <1>1, <1>2, <2>1, <2>2, RollbackStep
<1>. QED BY <1>3, <1>4

\* ... its patch sent ...
LEMMA SendRollbackOK ==
    ASSUME JudgedInv, NEW r \in Rollouts, SendRollback(r)
    PROVE  JudgedInv'
<1>1. /\ act[r] # "none" /\ roll[r].rb # "" /\ roll[r] \in RolloutRow
      /\ wire \subseteq Patches
  BY RollerHasWork DEF SendRollback, JudgedInv, TypeOK
<1>2. /\ roll[r].rb \in RollbackStatus
      /\ [roll[r] EXCEPT !.rb = roll[r].rb] = roll[r]
  BY <1>1 DEF RolloutRow
<1>3. roll' = [roll EXCEPT ![r] = [roll[r] EXCEPT !.rb = roll[r].rb]]
  BY <1>2 DEF SendRollback, JudgedInv, TypeOK
<1>4. wire' \subseteq wire \cup Own(r) /\ wire' \subseteq Patches
  <2>1. <<"rollback", r>> \in Own(r) /\ <<"rollback", r>> \in Patches
    BY DEF Own, Patches
  <2>2. wire' = wire \cup {<<"rollback", r>>}
    BY DEF SendRollback
  <2>. QED BY <1>1, <2>1, <2>2
<1>. QED BY <1>1, <1>2, <1>3, <1>4, RollbackStep DEF SendRollback

\* ... and answered: how it went is judged later.
LEMMA FinalizeRollbackOK ==
    ASSUME JudgedInv, NEW r \in Rollouts, FinalizeRollback(r)
    PROVE  JudgedInv'
<1>1. act[r] # "none" /\ roll[r].rb # "" /\ wire \subseteq Patches
  BY RollerHasWork DEF FinalizeRollback, JudgedInv, TypeOK
<1>2. PICK rb \in {"failed", "monitoring"} :
        roll' = [roll EXCEPT ![r] = [roll[r] EXCEPT !.rb = rb]]
  BY DEF FinalizeRollback, RollbackRow
<1>3. rb \in RollbackStatus
  BY DEF RollbackStatus, RollbackOpen
<1>. QED BY <1>1, <1>2, <1>3, RollbackStep DEF FinalizeRollback, cluster

\* An action is closed as executed for a reason that stands.
LEMMA SyncOK ==
    ASSUME JudgedInv, NEW r \in Rollouts, syncRolloutActionRequest(r)
    PROVE  JudgedInv'
<1>. DEFINE a == SyncedAction(roll[r], MutationObserved(r))
<1>1. RowInv(r) /\ act[r] = "running" /\ edits \in Nat
  BY DEF JudgedInv, TypeOK, syncRolloutActionRequest
<1>2. /\ a \in {"executed", "failed"}
      /\ a = "executed" =>
            roll[r].status = "succeeded" \/ roll[r].tgt # NoBase \/ MutationObserved(r)
  BY DEF SyncedAction
<1>. HIDE DEF a
<1>3. /\ act' = [act EXCEPT ![r] = a]
      /\ UNCHANGED <<roll, prev, exec, roller, cluster, inv, col, Items>>
  BY DEF syncRolloutActionRequest, Items, a
<1>4. TypeOK' /\ act'[r] = a
  BY <1>2, <1>3 DEF JudgedInv, TypeOK, cluster, ActionStatus
<1>5. InOrder(r)'
  BY <1>1, <1>2, <1>3, <1>4 DEF RowInv, InOrder, cluster
<1>6. ASSUME a = "executed", ~roll[r].auto PROVE Executed(r)
  <2>1. CASE roll[r].status = "succeeded"
    <3>1. PICK s \in readied : s.spec.by = <<"restart", r>> \/ Disturbed(r)
      BY <1>1, <2>1 DEF RowInv, RealSuccess
    <3>2. <<"restart", r>> # None
      <4>1. <<"restart", r>> \in {"restart", "rollback"} \X Rollouts
        OBVIOUS
      <4>. QED BY <4>1, NamesAssumption
    <3>3. ~Disturbed(r) => s.spec.by \in applied \cup {None}
      BY <1>1, Undisturbed DEF Faithful
    <3>. QED BY <3>1, <3>2, <3>3 DEF Executed
  <2>2. CASE roll[r].tgt # NoBase
    BY <1>1, <1>6, <2>2 DEF RowInv, NotedExecuted
  <2>3. CASE MutationObserved(r)
    BY <1>1, <1>6, <2>3, TouchedIsExecuted DEF RowInv, InOrder
  <2>. QED BY <1>2, <1>6, <2>1, <2>2, <2>3
<1>. QED BY <1>1, <1>2, <1>3, <1>4, <1>5, <1>6, PlainStep
         DEF cluster, JudgedInv, TypeOK, RowInv

\* A process that dies leaves the ledgers as they are.
LEMMA CrashOK ==
    ASSUME JudgedInv, NEW r \in Rollouts, Crash(r)
    PROVE  JudgedInv'
<1>0. crashes' \in 0 .. MaxCrashes
  BY BoundsAssumption DEF Crash, JudgedInv, TypeOK
<1>1. /\ RowInv(r) /\ act[r] # "none" /\ crashes' \in 0 .. MaxCrashes
      /\ UNCHANGED <<act, roll, prev, live, wire, applied, readied, edits, inv, col, Items>>
  BY <1>0, Requested DEF Crash, JudgedInv, Items
<1>2. CASE exec' = [exec EXCEPT ![r] = "done"] /\ UNCHANGED roller
  <2>1. TypeOK' /\ exec'[r] = "done"
    BY <1>1, <1>2 DEF JudgedInv, TypeOK
  <2>2. InOrder(r)'
    BY <1>1, <1>2, <2>1 DEF RowInv, InOrder
  <2>. QED BY <1>1, <1>2, <2>1, <2>2, PlainStep DEF JudgedInv, TypeOK, RowInv
<1>3. CASE roller' = [roller EXCEPT ![r] = "idle"] /\ UNCHANGED exec
  <2>1. TypeOK' /\ roller'[r] = "idle"
    BY <1>1, <1>3 DEF JudgedInv, TypeOK
  <2>2. InOrder(r)'
    BY <1>1, <1>3, <2>1 DEF RowInv, InOrder
  <2>. QED BY <1>1, <1>3, <2>1, <2>2, PlainStep DEF JudgedInv, TypeOK, RowInv
<1>. QED BY <1>2, <1>3 DEF Crash

-----------------------------------------------------------------------------
(***************************************************************************)
(* The theorems                                                            *)
(***************************************************************************)
\* It starts with one healthy workload and no rollout.
LEMMA InitJudged == Init => JudgedInv
<1>. SUFFICES ASSUME Init PROVE JudgedInv
  OBVIOUS
<1>1. Spec0 \in Specs /\ Spec0.tpl = Original /\ Spec0.by = None
  BY BoundsAssumption DEF Spec0, Specs
<1>2. /\ Settled \in Object /\ Settled.uid = 1 /\ Settled.gen = 1 /\ Settled.seen = 1
      /\ Settled.spec = Spec0 /\ Settled.pods = "ready"
  BY <1>1 DEF Settled, Workload, Object
<1>3. /\ live = Settled /\ inv.obj = Settled /\ inv.rbSince = {} /\ inv \in Item
      /\ NoItem \in Item /\ NoItem.obj = Absent /\ NoItem.rbSince = {}
  BY <1>2 DEF Init, NoItem, Item
<1>4. \A c \in Collectors : col[c] = [pc |-> "idle", item |-> NoItem]
  BY DEF Init
<1>5. \A i \in Items : i.obj \in {Absent, Settled} /\ i.rbSince = {}
  BY <1>3, <1>4 DEF Items
<1>. DEFINE s == Generation(Settled)
            row == [NewRow(FALSE, FALSE) EXCEPT !.status = "rejected"]
<1>6. /\ s \in [uid : Nat, gen : Nat, spec : Specs] /\ s.uid = 1 /\ s.gen = 1
      /\ s.spec = Spec0 /\ readied = {s}
  BY <1>1, <1>2 DEF Generation, Init
<1>7. /\ row \in RolloutRow /\ row.status = "rejected" /\ row.rb = ""
      /\ row.tgt = NoBase /\ row.auto = FALSE
  BY DEF NewRow, RolloutRow, Status, Terminal, RollbackStatus
<1>. HIDE DEF s, row
<1>8. roll = [r \in Rollouts |-> row]
  BY DEF Init, row
<1>9. TypeOK
  <2>1. live \in {Absent} \cup Object /\ inv \in Item
    BY <1>2, <1>3
  <2>2. col \in [Collectors -> [pc : {"idle", "list", "upsert"}, item : Item]]
    BY <1>3 DEF Init
  <2>3. roll \in [Rollouts -> RolloutRow] /\ readied \subseteq [uid : Nat, gen : Nat, spec : Specs]
    BY <1>6, <1>7, <1>8
  <2>4. prev \in [Rollouts -> [uid : Nat, spec : Specs, seen : Nat]]
    BY <1>1 DEF Init
  <2>5. /\ act \in [Rollouts -> ActionStatus]
        /\ exec \in [Rollouts -> {"new", "check", "blocked", "send", "await", "done"}]
        /\ roller \in [Rollouts -> {"idle", "verify", "send", "await"}]
    BY DEF Init, ActionStatus
  <2>6. /\ wire \subseteq Patches /\ applied \subseteq Patches
        /\ edits \in 0 .. MaxEdits /\ crashes \in 0 .. MaxCrashes
    BY BoundsAssumption DEF Init
  <2>. QED BY <2>1, <2>2, <2>3, <2>4, <2>5, <2>6 DEF TypeOK
<1>10. ReadyIsRecorded
  BY <1>2, <1>3, <1>5, <1>6 DEF ReadyIsRecorded, Recorded
<1>11. UneditedWorkload
  BY <1>1, <1>2, <1>3, <1>5, <1>6 DEF UneditedWorkload, Patched, Faithful, Older
<1>12. ASSUME NEW r \in Rollouts PROVE RowInv(r)
  <2>1. /\ act[r] = "none" /\ exec[r] = "new" /\ roller[r] = "idle" /\ roll[r] = row
        /\ wire = {} /\ applied = {} /\ prev[r].spec = Spec0
    BY <1>8 DEF Init
  <2>2. InOrder(r)
    BY <1>5, <1>7, <2>1 DEF InOrder
  <2>3. TargetInOrder(r) /\ StartedFirst(r) /\ NotedExecuted(r)
    BY <1>1, <1>7, <2>1 DEF TargetInOrder, StartedFirst, NotedExecuted
  <2>4. RealSuccess(r) /\ RealRestore(r) /\ RealExecution(r)
    BY <1>7, <2>1 DEF RealSuccess, RealRestore, RealExecution
  <2>. QED BY <2>2, <2>3, <2>4 DEF RowInv
<1>. QED BY <1>9, <1>10, <1>11, <1>12 DEF JudgedInv

\* Every step keeps it.
LEMMA StepJudged == JudgedInv /\ [Next]_vars => JudgedInv'
<1>. SUFFICES ASSUME JudgedInv, [Next]_vars PROVE JudgedInv'
  OBVIOUS
<1>1. CASE UNCHANGED vars
  <2>1. UNCHANGED <<ledger, live, wire, applied, readied, edits, crashes, inv, col, Items>>
    BY <1>1 DEF vars, cluster, Items
  <2>2. TypeOK' /\ ReadyIsRecorded' /\ UneditedWorkload'
    BY <2>1 DEF JudgedInv, TypeOK, ledger, ReadyIsRecorded, Recorded, UneditedWorkload,
                Patched, Faithful, Older
  <2>3. edits \in Nat /\ (live # Absent => live \in Object /\ live.seen \in Nat)
    BY DEF JudgedInv, TypeOK, Object
  <2>4. \A r \in Rollouts : RowInv(r)'
    BY <2>1, <2>3, RowsStand
  <2>. QED BY <2>2, <2>4 DEF JudgedInv
<1>2. CASE Cluster
  BY <1>2, ApplyPatchOK, LosePatchOK, ControllerOK, DisturbOK DEF Cluster
<1>3. CASE Inventory
  BY <1>3, InventoryOK DEF Inventory
<1>4. ASSUME NEW r \in Rollouts, Drive(r) PROVE JudgedInv'
  BY <1>4, RequestRolloutOK, StartK8sRolloutExecutionOK, SendRestartOK,
     FinalizeK8sRolloutMutationOK, ReconcileRolloutOK, ClaimRollbackOK,
     VerifyLiveTargetOK, SendRollbackOK, FinalizeRollbackOK, SyncOK, CrashOK DEF Drive
<1>. QED BY <1>1, <1>2, <1>3, <1>4 DEF Next

(***************************************************************************)
(* The inductive invariant holds for any number of rollouts, overlapping   *)
(* collections, edits by others and processes that die.                    *)
(***************************************************************************)
THEOREM JudgedInvariance == Spec => []JudgedInv
BY InitJudged, StepJudged, PTL DEF Spec

(***************************************************************************)
(* A success the hub reports is real, whoever else edits, deletes or       *)
(* recreates the workload meanwhile (observeRollout).                      *)
(***************************************************************************)
THEOREM EvidenceHolds == Spec => []EvidenceInv
<1>1. JudgedInv => EvidenceInv
  BY DEF JudgedInv, RowInv, EvidenceInv, SuccessIsReal
<1>. QED BY <1>1, JudgedInvariance, PTL

\* The same of the success alone (observeRollout).
THEOREM SuccessesAreReal == Spec => []SuccessIsReal
<1>1. JudgedInv => SuccessIsReal
  BY DEF JudgedInv, RowInv, SuccessIsReal
<1>. QED BY <1>1, JudgedInvariance, PTL

(***************************************************************************)
(* A restore the hub reports is real: the saved template ran, under a      *)
(* patch of the rollout's own (observeRollout).                            *)
(***************************************************************************)
THEOREM RestoresAreReal == Spec => []RestoredTemplateRuns
<1>1. JudgedInv => RestoredTemplateRuns
  BY DEF JudgedInv, RowInv, RestoredTemplateRuns
<1>. QED BY <1>1, JudgedInvariance, PTL

(***************************************************************************)
(* An action without a rollback is closed as executed only when its patch  *)
(* was applied (FinalizeK8sRolloutMutation, syncRolloutActionRequest).     *)
(***************************************************************************)
THEOREM ExecutionsAreReal == Spec => []ExecutedWithoutRollback
<1>1. JudgedInv => ExecutedWithoutRollback
  BY DEF JudgedInv, RowInv, ExecutedWithoutRollback
<1>. QED BY <1>1, JudgedInvariance, PTL
=============================================================================
