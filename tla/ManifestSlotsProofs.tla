------------------------ MODULE ManifestSlotsProofs ------------------------
(***************************************************************************)
(* Proofs about the manifest slots, for every set of manifests and every    *)
(* bound on epochs: a mounted store works from the manifest a power loss    *)
(* would bring back, and the two slot files implement one atomic cell.      *)
(* The inductive invariant is the conjunction of the three invariants the   *)
(* run checks: RamIsRecoverable needs CacheIsWinner (the cached publish     *)
(* spares the winner), which needs the epochs to be ordered.                *)
(***************************************************************************)
EXTENDS ManifestSlots, TLAPS

SlotInv == TypeOK /\ RamIsRecoverable /\ CacheIsWinner

Bad == {NoManifest, TornManifest}

LEMMA SlotTypes == Slot = {"A", "B"} /\ "A" # "B" /\ "none" \notin Slot
  BY DEF Slot

\* The content of a written slot is never taken for a missing or torn one.
LEMMA WrittenIsValid ==
  ASSUME NEW n \in Nat, NEW b \in Body
  PROVE  /\ [epoch |-> n, body |-> b] \notin Bad
         /\ [epoch |-> n, body |-> b] \in Content
  BY SlotConstants DEF Bad, Content

LEMMA SlotInit == Init => SlotInv
  <1> SUFFICES ASSUME Init PROVE SlotInv
    OBVIOUS
  <1>1. slot["A"] = NoManifest /\ slot["B"] = NoManifest
    BY SlotTypes DEF Init
  <1>2. TypeOK
    BY DEF Init, TypeOK
  <1>3. RamIsRecoverable /\ CacheIsWinner
    BY DEF Init, RamIsRecoverable, CacheIsWinner
  <1> QED
    BY <1>2, <1>3 DEF SlotInv

LEMMA MountKeeps == SlotInv /\ Mount => SlotInv'
  <1> SUFFICES ASSUME SlotInv, Mount PROVE SlotInv'
    OBVIOUS
  <1>1. slot' = slot
    BY DEF Mount
  <1>2. Recovered' = Recovered /\ Recovered \in Body \cup {NoManifest}
    BY <1>1 DEF Recovered, Winner, Valid, SlotInv, TypeOK, Content, Slot
  <1>3. TypeOK'
    BY <1>2, <1>1 DEF Mount, SlotInv, TypeOK
  <1>4. RamIsRecoverable'
    BY <1>2 DEF Mount, RamIsRecoverable
  <1>5. CacheIsWinner'
    BY DEF Mount, CacheIsWinner
  <1> QED
    BY <1>3, <1>4, <1>5 DEF SlotInv

\* The slot a publish writes is not the one that holds the manifest in force.
LEMMA TargetSparesWinner ==
  ASSUME SlotInv
  PROVE  /\ Target \in Slot \cup {"none"}
         /\ Target # "none" => Target # Winner
         /\ BaseEpoch \in Nat
         /\ Winner # "none" => Winner \in Slot /\ Valid(Winner) /\ BaseEpoch = slot[Winner].epoch
         /\ Winner = "none" => ~Valid("A") /\ ~Valid("B")
         /\ Target # "none" /\ Winner = "none" => slot["A"] = NoManifest /\ slot["B"] = NoManifest
  <1> USE DEF SlotInv, TypeOK, CacheIsWinner, Target, BaseEpoch, Winner, Valid, Other, Inactive,
              Slot, Content
  <1>1. CASE cached = "none"
    BY <1>1, SlotConstants
  <1>2. CASE cached = "A"
    BY <1>2, SlotConstants
  <1>3. CASE cached = "B"
    BY <1>3, SlotConstants
  <1> QED
    BY <1>1, <1>2, <1>3

\* After a step the winner is the valid slot of the higher epoch.
LEMMA WinnerAfter ==
  ASSUME NEW t \in Slot, slot' \in [Slot -> Content \cup Bad], slot'[t] \notin Bad,
         slot'[Other(t)] \notin Bad => slot'[Other(t)].epoch < slot'[t].epoch
  PROVE  Winner' = t
  <1> USE DEF Slot, Other, Winner, Valid, Bad, Content
  <1>1. CASE t = "A"
    BY <1>1
  <1>2. CASE t = "B"
    BY <1>2
  <1> QED
    BY <1>1, <1>2

LEMMA PublishKeeps ==
  ASSUME SlotInv, NEW b \in Body, PublishManifest(b)
  PROVE  SlotInv' /\ Winner' = Target /\ slot'[Target].body = b
  <1> DEFINE new == [epoch |-> BaseEpoch + 1, body |-> b]
  <1>1. PICK t \in Slot : t = Target
    BY TargetSparesWinner DEF PublishManifest
  <1>2. /\ t # Winner /\ BaseEpoch \in Nat
        /\ slot \in [Slot -> Content \cup Bad]
        /\ slot' = [slot EXCEPT ![t] = new]
        /\ up' = TRUE /\ known' = b /\ cached' = t /\ cachedEpoch' = BaseEpoch + 1
    BY <1>1, TargetSparesWinner, SlotTypes DEF PublishManifest, SlotInv, TypeOK, Bad
  <1>3. new \in Content /\ new \notin Bad /\ new.epoch = BaseEpoch + 1 /\ new.body = b
    BY <1>2, WrittenIsValid
  <1> HIDE DEF new
  <1>4. Other(t) \in Slot /\ Other(t) # t
    BY DEF Slot, Other
  <1>5. /\ slot' \in [Slot -> Content \cup Bad]
        /\ slot'[t] = new /\ slot'[Other(t)] = slot[Other(t)]
    BY <1>2, <1>3, <1>4
  <1>6. slot[Other(t)] \notin Bad => slot[Other(t)].epoch = BaseEpoch
    <2>1. ASSUME slot[Other(t)] \notin Bad PROVE Winner = Other(t)
      <3>1. Winner # "none"
        BY <2>1, TargetSparesWinner DEF Bad, Valid, Slot, Other
      <3> QED
        BY <3>1, <1>2, <1>4, TargetSparesWinner DEF Slot
    <2> QED
      BY <2>1, <1>4, SlotTypes, TargetSparesWinner
  <1>7. slot'[Other(t)] \notin Bad => slot'[Other(t)].epoch < slot'[t].epoch
    BY <1>2, <1>3, <1>5, <1>6
  <1>8. Winner' = t
    BY <1>3, <1>5, <1>7, WinnerAfter
  <1>9. TypeOK'
    BY <1>2, <1>5 DEF TypeOK, Bad
  <1>10. RamIsRecoverable'
    BY <1>2, <1>3, <1>5, <1>8, SlotTypes DEF RamIsRecoverable, Recovered
  <1>11. CacheIsWinner'
    <2>1. Valid(t)' /\ slot'[t].epoch = cachedEpoch'
      BY <1>2, <1>3, <1>5 DEF Valid, Bad
    <2>2. Valid(Other(t))' => slot'[Other(t)].epoch < cachedEpoch'
      BY <1>2, <1>3, <1>5, <1>7 DEF Valid, Bad
    <2> QED
      BY <1>2, <2>1, <2>2 DEF CacheIsWinner
  <1> QED
    BY <1>1, <1>3, <1>5, <1>8, <1>9, <1>10, <1>11 DEF SlotInv

LEMMA CacheIsWinnerFact ==
  ASSUME SlotInv, cached # "none"
  PROVE  Winner = cached
  <1> USE DEF SlotInv, TypeOK, CacheIsWinner, Winner, Valid, Other, Slot, Content
  <1>1. CASE cached = "A"
    BY <1>1
  <1>2. CASE cached = "B"
    BY <1>2
  <1> QED
    BY <1>1, <1>2

\* A write that is cut short leaves the manifest in force and its slot alone.
LEMMA CutShortSpares ==
  ASSUME SlotInv, CutShort
  PROVE  /\ slot' \in [Slot -> Content \cup Bad]
         /\ Winner' = Winner
         /\ Winner # "none" => slot'[Winner] = slot[Winner]
         /\ \A s \in Slot : slot'[s] = slot[s] \/ (slot'[s] \in Bad /\ s # Winner)
  <1>1. slot \in [Slot -> Content \cup Bad]
    BY DEF SlotInv, TypeOK, Bad
  <1>2. CASE UNCHANGED slot
    <2>1. slot' = slot
      BY <1>2
    <2>2. Winner' = Winner
      BY <2>1 DEF Winner, Valid
    <2> QED
      BY <1>1, <2>1, <2>2
  <1>3. ASSUME Target # "none",
               NEW rest \in Bad, slot' = [slot EXCEPT ![Target] = rest]
        PROVE  /\ slot' \in [Slot -> Content \cup Bad]
               /\ Winner' = Winner
               /\ Winner # "none" => slot'[Winner] = slot[Winner]
               /\ \A s \in Slot : slot'[s] = slot[s] \/ (slot'[s] \in Bad /\ s # Winner)
    <2>1. PICK t \in Slot : t = Target
      BY <1>3, TargetSparesWinner
    <2>2. t # Winner /\ slot' = [slot EXCEPT ![t] = rest]
      BY <1>3, <2>1, TargetSparesWinner, SlotTypes
    <2>3. /\ slot' \in [Slot -> Content \cup Bad]
          /\ slot'[t] = rest
          /\ slot'[Other(t)] = slot[Other(t)] /\ Slot = {t, Other(t)} /\ t # Other(t)
      BY <1>1, <2>2 DEF Slot, Other, Bad
    <2>4. Winner # "none" => Winner = Other(t) /\ slot[Other(t)] \notin Bad
      BY <2>2, <2>3, TargetSparesWinner DEF Valid, Bad
    <2>5. Winner' = Winner
      <3>1. CASE Winner # "none"
        <4>1. Other(t) \in Slot /\ Other(Other(t)) = t
          BY DEF Slot, Other
        <4>2. slot'[Other(t)] \notin Bad /\ slot'[Other(Other(t))] \in Bad
          BY <3>1, <2>3, <2>4, <4>1 DEF Bad
        <4>3. Winner' = Other(t)
          BY <2>3, <4>1, <4>2, WinnerAfter
        <4> QED
          BY <3>1, <2>4, <4>3
      <3>2. CASE Winner = "none"
        BY <3>2, <2>3, TargetSparesWinner DEF Winner, Valid, Slot, Bad
      <3> QED
        BY <3>1, <3>2
    <2>6. Winner # "none" => slot'[Winner] = slot[Winner]
      BY <2>3, <2>4
    <2>7. \A s \in Slot : slot'[s] = slot[s] \/ (slot'[s] \in Bad /\ s # Winner)
      <3> TAKE s \in Slot
      <3>1. s = t \/ s = Other(t)
        BY <2>3
      <3> QED
        BY <3>1, <2>2, <2>3
    <2> QED
      BY <2>3, <2>5, <2>6, <2>7
  <1> QED
    BY <1>2, <1>3 DEF CutShort, Bad

LEMMA KnownFailureKeeps == SlotInv /\ PublishFails => SlotInv'
  <1> SUFFICES ASSUME SlotInv, PublishFails PROVE SlotInv'
    OBVIOUS
  <1>1. CutShort /\ UNCHANGED <<up, known, cached, cachedEpoch>>
    BY DEF PublishFails
  <1>2. TypeOK'
    BY <1>1, CutShortSpares DEF SlotInv, TypeOK, Bad
  <1>3. RamIsRecoverable'
    BY <1>1, CutShortSpares DEF SlotInv, RamIsRecoverable, Recovered
  <1>4. CacheIsWinner'
    <2>1. SUFFICES ASSUME cached # "none"
                   PROVE  /\ up /\ Valid(cached)' /\ slot'[cached].epoch = cachedEpoch
                          /\ Valid(Other(cached))' =>
                                slot'[Other(cached)].epoch < cachedEpoch
      BY <1>1 DEF CacheIsWinner, Valid
    <2>2. /\ up /\ cached \in Slot /\ Other(cached) \in Slot
          /\ slot[cached] \notin Bad /\ slot[cached].epoch = cachedEpoch
          /\ slot[Other(cached)] \notin Bad => slot[Other(cached)].epoch < cachedEpoch
      BY <2>1 DEF SlotInv, TypeOK, CacheIsWinner, Valid, Bad, Other, Slot
    <2>3. Winner = cached
      BY <2>1, CacheIsWinnerFact
    <2>4. slot'[cached] = slot[cached]
      BY <1>1, <2>2, <2>3, SlotTypes, CutShortSpares
    <2>5. slot'[Other(cached)] = slot[Other(cached)] \/ slot'[Other(cached)] \in Bad
      BY <1>1, <2>2, CutShortSpares DEF Bad
    <2> QED
      BY <1>1, <2>2, <2>4, <2>5 DEF Valid, Bad
  <1> QED
    BY <1>2, <1>3, <1>4 DEF SlotInv

LEMMA PowerLossKeeps == SlotInv /\ PowerLoss => SlotInv'
  <1> SUFFICES ASSUME SlotInv, PowerLoss PROVE SlotInv'
    OBVIOUS
  <1>1. CutShort /\ up' = FALSE /\ known' = NoManifest /\ cached' = "none" /\ cachedEpoch' = 0
    BY DEF PowerLoss
  <1> QED
    BY <1>1, CutShortSpares DEF SlotInv, TypeOK, Bad, RamIsRecoverable, CacheIsWinner

LEMMA SlotStep == SlotInv /\ [Next]_vars => SlotInv'
  <1> SUFFICES ASSUME SlotInv, [Next]_vars PROVE SlotInv'
    OBVIOUS
  <1>1. CASE Mount
    BY <1>1, MountKeeps
  <1>2. CASE PublishFails
    BY <1>2, KnownFailureKeeps
  <1>3. CASE PowerLoss
    BY <1>3, PowerLossKeeps
  <1>4. CASE \E b \in Body : PublishManifest(b)
    BY <1>4, PublishKeeps
  <1>5. CASE UNCHANGED vars
    BY <1>5 DEF vars, SlotInv, TypeOK, RamIsRecoverable, CacheIsWinner, Recovered, Winner, Valid
  <1> QED
    BY <1>1, <1>2, <1>3, <1>4, <1>5 DEF Next

THEOREM SlotsInvariant == Spec => []SlotInv
  <1> QED
    BY SlotInit, SlotStep, PTL DEF Spec

\* applyManifestToRam() and mount agree, whatever was cut short in between: the
\* manifest in RAM is the one the slots would yield after a power loss.
THEOREM RamAlwaysRecoverable == Spec => []RamIsRecoverable
  <1>1. SlotInv => RamIsRecoverable
    BY DEF SlotInv
  <1> QED
    BY <1>1, SlotsInvariant, PTL

\* cachedWrittenSlot_ always names the slot that chooseWinningSlot() would find.
THEOREM CacheAlwaysWinner == Spec => []CacheIsWinner
  <1>1. SlotInv => CacheIsWinner
    BY DEF SlotInv
  <1> QED
    BY <1>1, SlotsInvariant, PTL

-----------------------------------------------------------------------------
(* The two files implement the cell. *)

LEMMA InForceFacts ==
  ASSUME SlotInv
  PROVE  /\ Winner # "none" => InForce = slot[Winner].body /\ InForce \in Body
         /\ InForce # NoManifest /\ InForce # TornManifest => Winner # "none"
         /\ Recovered = IF InForce = TornManifest THEN NoManifest ELSE InForce
         /\ InForce # TornManifest <=> Target # "none"
  <1>1. Winner # "none" => slot[Winner] \in Content
    BY TargetSparesWinner DEF SlotInv, TypeOK, Valid
  <1>2. Winner # "none" => InForce = slot[Winner].body /\ InForce \in Body
    BY <1>1 DEF InForce, Content
  <1>3. Winner # "none" => Target # "none"
    BY DEF SlotInv, TypeOK, CacheIsWinner, Target, Winner, Inactive, Valid, Other, Slot
  <1>4. Target # "none" /\ Winner = "none" => InForce = NoManifest
    BY TargetSparesWinner DEF InForce
  <1>5. Winner = "none" /\ InForce = NoManifest => Target # "none"
    <2>1. SUFFICES ASSUME Winner = "none", InForce = NoManifest PROVE Target # "none"
      OBVIOUS
    <2>2. slot["A"] = NoManifest /\ slot["B"] = NoManifest
      BY <2>1, SlotConstants DEF InForce
    <2> QED
      BY <2>2 DEF Target, Inactive, Other
  <1>6. Winner = "none" => InForce \in {NoManifest, TornManifest}
    BY DEF InForce
  <1> QED
    BY <1>2, <1>3, <1>4, <1>5, <1>6, SlotConstants DEF Recovered

\* A write cut short is no step of the cell, or tears one that was never written.
LEMMA CutShortInterrupts == SlotInv /\ CutShort => Cell!Interrupted
  <1> SUFFICES ASSUME SlotInv, CutShort PROVE Cell!Interrupted
    OBVIOUS
  <1>1. CASE Winner # "none"
    BY <1>1, CutShortSpares DEF InForce, Cell!Interrupted
  <1>2. CASE Winner = "none"
    <2>1. Winner' = "none"
      BY <1>2, CutShortSpares
    <2>2. CASE slot' = slot
      BY <1>2, <2>1, <2>2 DEF InForce, Cell!Interrupted
    <2>3. CASE Target # "none"
      <3>1. InForce = NoManifest
        BY <1>2, <2>3, TargetSparesWinner DEF InForce
      <3>2. InForce' \in {NoManifest, TornManifest}
        BY <2>1 DEF InForce
      <3> QED
        BY <3>1, <3>2 DEF Cell!Interrupted
    <2> QED
      BY <2>2, <2>3 DEF CutShort
  <1> QED
    BY <1>1, <1>2

LEMMA CellStart == Init => Cell!Init
  <1> SUFFICES ASSUME Init PROVE Cell!Init
    OBVIOUS
  <1>1. slot["A"] = NoManifest /\ slot["B"] = NoManifest
    BY SlotTypes DEF Init
  <1>2. InForce = NoManifest
    BY <1>1 DEF InForce, Winner, Valid
  <1> QED
    BY <1>2 DEF Init, Cell!Init

LEMMA CellStep == SlotInv /\ [Next]_vars => [Cell!Next]_<<InForce, up, known>>
  <1> SUFFICES ASSUME SlotInv, [Next]_vars PROVE [Cell!Next]_<<InForce, up, known>>
    OBVIOUS
  <1>1. CASE Mount
    <2>1. ~up /\ up' = TRUE /\ known' = Recovered /\ slot' = slot
      BY <1>1 DEF Mount
    <2>2. InForce' = InForce
      BY <2>1 DEF InForce, Winner, Valid
    <2> QED
      BY <2>1, <2>2, InForceFacts DEF Cell!Next, Cell!Mount
  <1>2. ASSUME NEW b \in Body, PublishManifest(b) PROVE Cell!Next
    <2>1. up /\ up' = up /\ known' = b /\ Target # "none"
      BY <1>2 DEF PublishManifest
    <2>2. InForce' = b
      BY <1>2, <2>1, PublishKeeps DEF InForce
    <2> QED
      BY <2>1, <2>2, InForceFacts DEF Cell!Next, Cell!Publish
  <1>3. CASE PublishFails
    BY <1>3, CutShortInterrupts DEF PublishFails, Cell!Next, Cell!PublishFails
  <1>4. CASE PowerLoss
    BY <1>4, CutShortInterrupts DEF PowerLoss, Cell!Next, Cell!PowerLoss
  <1>5. CASE UNCHANGED vars
    BY <1>5 DEF vars, InForce, Winner, Valid
  <1> QED
    BY <1>1, <1>2, <1>3, <1>4, <1>5 DEF Next

\* The types of the slots and of the mounted store's cache.
THEOREM SlotTypesHold == Spec => []TypeOK
  <1>1. SlotInv => TypeOK
    BY DEF SlotInv
  <1> QED
    BY <1>1, SlotsInvariant, PTL

\* publishManifest() and readManifest() over the two slot files implement one
\* durable cell that a publish replaces whole or not at all.
THEOREM SlotsImplementCell == Spec => ImplementsCell
  <1> QED
    BY CellStart, CellStep, SlotsInvariant, PTL DEF Spec, ImplementsCell, Cell!Spec
=============================================================================
