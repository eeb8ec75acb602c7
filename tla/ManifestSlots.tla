--------------------------- MODULE ManifestSlots ---------------------------
(***************************************************************************)
(* The two manifest slot files (append_log_store/manifest.cpp).  A publish   *)
(* overwrites the slot that does not hold the winning manifest: the first    *)
(* one after a mount finds it by reading both slots, later ones trust        *)
(* cachedWrittenSlot_.  An interrupted or failed write leaves the slot       *)
(* untouched or torn; a torn slot does not parse (its CRC is taken to catch  *)
(* every tear).  Slot sizes and the removal of both slots by format() are    *)
(* not modelled.                                                             *)
(***************************************************************************)
EXTENDS Integers

CONSTANTS
    Body,           \* manifests, their epoch left out
    NoManifest,     \* the content of a slot file that does not exist
    TornManifest,   \* the content of a slot file that does not parse
    MaxEpoch        \* bound: epochs; the code's uint32_t is taken not to wrap

ASSUME SlotConstants ==
    /\ NoManifest # TornManifest
    /\ NoManifest \notin Body /\ TornManifest \notin Body
    /\ NoManifest \notin [epoch : Nat, body : Body]
    /\ TornManifest \notin [epoch : Nat, body : Body]
    /\ MaxEpoch \in Nat

VARIABLES
    slot,           \* manifest-a.bin and manifest-b.bin
    up,             \* mounted_
    known,          \* the manifest in RAM: manifestRanges_, activeGeneration_, ...
    cached,         \* cachedWrittenSlot_, "none" for nullptr
    cachedEpoch     \* cachedWrittenEpoch_

vars == <<slot, up, known, cached, cachedEpoch>>

Slot     == {"A", "B"}
Other(s) == IF s = "A" THEN "B" ELSE "A"
Valid(s) == slot[s] \notin {NoManifest, TornManifest}

-----------------------------------------------------------------------------
\* Variant: the comparison turned round.
LowestWins == IF Valid("B") /\ (Valid("A") => slot["B"].epoch < slot["A"].epoch) THEN "B"
              ELSE IF Valid("A") THEN "A" ELSE "none"
\* chooseWinningSlot(): the valid slot of the higher epoch, A on a tie.
Winner == IF Valid("B") /\ (Valid("A") => slot["B"].epoch > slot["A"].epoch) THEN "B"
          ELSE IF Valid("A") THEN "A" ELSE "none"

\* Variant: of two valid slots the newer one is taken.
NewestInactive ==
    IF slot["A"] = NoManifest /\ slot["B"] = NoManifest THEN "A"
    ELSE IF ~Valid("A") /\ ~Valid("B") THEN "none"
    ELSE IF ~Valid("A") THEN "A"
    ELSE IF ~Valid("B") THEN "B"
    ELSE IF slot["B"].epoch > slot["A"].epoch THEN "B" ELSE "A"
\* chooseInactiveSlot(): "none" when slot files exist and none of them is valid.
Inactive ==
    IF slot["A"] = NoManifest /\ slot["B"] = NoManifest THEN "A"
    ELSE IF ~Valid("A") /\ ~Valid("B") THEN "none"
    ELSE IF ~Valid("A") THEN "A"
    ELSE IF ~Valid("B") THEN "B"
    ELSE IF slot["B"].epoch <= slot["A"].epoch THEN "B" ELSE "A"

\* Variant: the cache names the slot to write next.
TargetIsCached == IF cached # "none" THEN cached ELSE Inactive
\* The slot publishManifest() writes, and the epoch it counts from.
Target    == IF cached # "none" THEN Other(cached) ELSE Inactive
BaseEpoch == IF cached # "none" THEN cachedEpoch
             ELSE IF Winner # "none" THEN slot[Winner].epoch ELSE 0

\* What readManifest() finds.
Recovered == IF Winner # "none" THEN slot[Winner].body ELSE NoManifest

Init ==
    /\ slot = [s \in Slot |-> NoManifest]
    /\ up = FALSE /\ known = NoManifest /\ cached = "none" /\ cachedEpoch = 0

Mount ==
    /\ ~up /\ up' = TRUE
    /\ known' = Recovered
    /\ cached' = "none" /\ cachedEpoch' = 0
    /\ UNCHANGED slot

PublishManifest(b) ==
    /\ up /\ Target # "none" /\ BaseEpoch < MaxEpoch
    /\ slot' = [slot EXCEPT ![Target] = [epoch |-> BaseEpoch + 1, body |-> b]]
    /\ known' = b
    /\ cached' = Target /\ cachedEpoch' = BaseEpoch + 1
    /\ UNCHANGED up

\* A write that does not succeed leaves the slot untouched, torn, or removed (LittleFS).
CutShort ==
    \/ UNCHANGED slot
    \/ /\ Target # "none"
       /\ \E rest \in {TornManifest, NoManifest} : slot' = [slot EXCEPT ![Target] = rest]

\* writeFile() reports an error: RAM and the cache stay as they are.
PublishFails == up /\ CutShort /\ UNCHANGED <<up, known, cached, cachedEpoch>>

PowerLoss ==
    /\ up /\ CutShort
    /\ up' = FALSE /\ known' = NoManifest /\ cached' = "none" /\ cachedEpoch' = 0

Next == Mount \/ PublishFails \/ PowerLoss \/ \E b \in Body : PublishManifest(b)
Spec == Init /\ [][Next]_vars

-----------------------------------------------------------------------------
Content == [epoch : Nat, body : Body]

\* The types of the slots and of what RAM holds about them.
TypeOK ==
    /\ slot \in [Slot -> Content \cup {NoManifest, TornManifest}]
    /\ up \in BOOLEAN /\ known \in Body \cup {NoManifest}
    /\ cached \in Slot \cup {"none"} /\ cachedEpoch \in Nat

\* The manifest a mounted store works from is the one a power loss now would
\* bring back, although the cached publishes never read the slots again.
RamIsRecoverable == up => known = Recovered

\* publishManifest()'s cache is the winner: the next publish spares it.
CacheIsWinner ==
    cached # "none" =>
        /\ up /\ Valid(cached) /\ slot[cached].epoch = cachedEpoch
        /\ Valid(Other(cached)) => slot[Other(cached)].epoch < cachedEpoch

\* What the two files hold together.
InForce == IF Winner # "none" THEN slot[Winner].body
           ELSE IF slot["A"] = NoManifest /\ slot["B"] = NoManifest THEN NoManifest
           ELSE TornManifest

\* The two files are one cell: a publish, wherever it is cut, leaves the old
\* manifest or the new one in force, and the one a mounted store works from.
Cell == INSTANCE ManifestCell WITH cell <- InForce, view <- known
ImplementsCell == Cell!Spec
=============================================================================
