---------------------------- MODULE ManifestCell ----------------------------
(***************************************************************************)
(* What publishManifest() and readManifest() promise: one durable cell that  *)
(* a publish replaces whole or not at all, and a mounted store that knows    *)
(* what is in it.  Only where no manifest was ever published may an          *)
(* interrupted publish leave the cell unusable.  AppendLogStore uses the     *)
(* manifest as such a cell; ManifestSlots implements it.                     *)
(***************************************************************************)
CONSTANTS
    Body,           \* manifests, their epoch left out
    NoManifest,     \* no slot file exists
    TornManifest    \* a slot file exists and none parses

VARIABLES
    cell,           \* the manifest in force
    up,             \* the store is mounted
    view            \* the manifest it works from

Init == cell = NoManifest /\ up = FALSE /\ view = NoManifest

Mount ==
    /\ ~up /\ up' = TRUE
    /\ view' = IF cell = TornManifest THEN NoManifest ELSE cell
    /\ UNCHANGED cell

Publish(b) ==
    /\ up /\ cell # TornManifest
    /\ cell' = b /\ view' = b
    /\ UNCHANGED up

\* A first publish that was cut short; any later one leaves the cell as it is.
Interrupted == \/ UNCHANGED cell
               \/ cell = NoManifest /\ cell' = TornManifest

PublishFails == up /\ Interrupted /\ UNCHANGED <<up, view>>
PowerLoss    == up /\ Interrupted /\ up' = FALSE /\ view' = NoManifest

Next == Mount \/ PublishFails \/ PowerLoss \/ \E b \in Body : Publish(b)
Spec == Init /\ [][Next]_<<cell, up, view>>
=============================================================================
