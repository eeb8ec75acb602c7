-------------------------- MODULE MCManifestSlots --------------------------
(* Two manifests and eight publishes: every order of good, torn and lost     *)
(* writes on both slots, before and after a mount.                           *)
EXTENDS ManifestSlots
=============================================================================
