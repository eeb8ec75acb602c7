------------------------------- MODULE Repair -------------------------------
(***************************************************************************)
(* Queue::format() and Queue::validate() over the append-log store.         *)
(* format() takes the queue lock, which mounts the store, then removes the   *)
(* segment files, the two slot files and what RAM knew of them, one file at  *)
(* a time.  validate() reads what mount() would read and reports what it     *)
(* finds.  The manifest cell gets its two slot files back here, because      *)
(* removing the slot in force brings the other one into force.               *)
(***************************************************************************)
EXTENDS AppendLogStore

CONSTANT FormatFaults       \* what format() may fail to remove: "segment", "slot"

ASSUME RepairConstants == FormatFaults \subseteq {"segment", "slot"}

VARIABLES
    slots,      \* durable: manifest-a.bin and manifest-b.bin
    newest,     \* durable: the slot with the higher epoch
    formatting, \* a format() has been called and has not returned
    doomed      \* the segment files it has listed and still has to remove

repair == <<slots, newest, formatting, doomed>>
rvars  == <<vars, repair>>

Parses(s) == s \notin {NoManifest, TornManifest}

\* Variant: slot A wins whenever it parses.
FirstValid(ss, n) == IF Parses(ss[1]) THEN ss[1] ELSE ss[2]
\* chooseWinningSlot() and what the mount makes of slots that do not parse.
InForce(ss, n) ==
    IF Parses(ss[n]) THEN ss[n]
    ELSE IF Parses(ss[3 - n]) THEN ss[3 - n]
    ELSE IF ss = <<NoManifest, NoManifest>> THEN NoManifest ELSE TornManifest

\* chooseInactiveSlot(): where the next manifest is written.
Target == IF ~HasManifest THEN 1 ELSE IF Parses(slots[newest]) THEN 3 - newest ELSE newest

RInit == /\ Init
         /\ slots = <<NoManifest, NoManifest>> /\ newest = 1
         /\ formatting = FALSE /\ doomed = {}

-----------------------------------------------------------------------------
(* The steps of the store, with the slots behind its manifest.              *)

RPublishTail ==
    /\ PublishTail
    /\ slots' = [slots EXCEPT ![Target] = manifest'] /\ newest' = Target
    /\ UNCHANGED <<formatting, doomed>>

\* A write cut short may leave the slot that was to be written unreadable.
SlotCutShort ==
    /\ \/ UNCHANGED slots
       \/ pc = "publishTail" /\ slots' = [slots EXCEPT ![Target] = TornManifest]
    /\ manifest' = InForce(slots', newest)
    /\ UNCHANGED newest

RFailing ==
    \/ PowerLoss  /\ SlotCutShort /\ formatting' = FALSE /\ doomed' = {}
    \/ WriteError /\ SlotCutShort /\ UNCHANGED <<formatting, doomed>>

\* Any call but format() mounts an unmounted store, too.
RMounting == Mounting /\ (pc = "failed" => ~formatting) /\ UNCHANGED repair
RCalling  == Calling /\ ~formatting /\ UNCHANGED repair
RWorking  == \/ RPublishTail
             \/ (Admit \/ PlaceEvent \/ CreateTail \/ AppendEvent \/ PublishRefused) /\ UNCHANGED repair

-----------------------------------------------------------------------------
(* Queue::format(): acquireLock() mounts, AppendLogStore::format() removes.  *)

\* Variant: the manifests go first, the segments after them.
SlotsFirst  == <<"formatA", "formatB", "formatSegs">>
FormatSteps == <<"formatSegs", "formatA", "formatB">>

AskFormat ==
    /\ ~formatting /\ formatting' = TRUE
    /\ MountBegin
    /\ UNCHANGED <<slots, newest, doomed>>

\* The mount failed: acquireLock() returns its status, and so does format().
FormatRefused ==
    /\ formatting /\ pc = "failed"
    /\ formatting' = FALSE
    /\ UNCHANGED <<vars, slots, newest, doomed>>

\* Variant: only the segments the manifest names.
BeginFormatOfLive ==
    /\ pc = "idle"
    /\ formatting' = TRUE
    /\ doomed' = DOMAIN segs \cap (IF HasManifest THEN LiveGens(manifest) ELSE {})
    /\ pc' = FormatSteps[1]
    /\ UNCHANGED <<disk, ram, call, scan, plan, queue, issued, failures, slots, newest>>
BeginFormat ==
    /\ pc = "idle"
    /\ formatting' = TRUE /\ doomed' = DOMAIN segs
    /\ pc' = FormatSteps[1]
    /\ UNCHANGED <<disk, ram, call, scan, plan, queue, issued, failures, slots, newest>>

\* RAM as of an empty store.
Forget ==
    /\ records' = <<>> /\ ranges' = <<>> /\ tail' = 0 /\ tailBytes' = 0
    /\ nextGen' = 1 /\ nextSeq' = 0 /\ sealed' = <<>> /\ deps' = {}

\* The next step of format(), or its return.  The queue is empty from there on, or
\* already from the moment that no segment and no manifest is left.
EndStep ==
    \/ /\ pc # FormatSteps[3]
       /\ \E i \in 1..2 : FormatSteps[i] = pc /\ pc' = FormatSteps[i + 1]
       /\ queue' = IF segs' = <<>> /\ ~Parses(manifest') THEN <<>> ELSE queue
       /\ UNCHANGED <<ram, formatting>>
    \/ /\ pc = FormatSteps[3]
       /\ Forget /\ queue' = <<>> /\ pc' = "idle" /\ formatting' = FALSE

\* removeFile() of a segment; its status is not looked at.
RemoveSegment ==
    /\ pc = "formatSegs"
    /\ \E g \in doomed :
         /\ doomed' = doomed \ {g}
         /\ segs' = Without(segs, g) \/ ("segment" \in FormatFaults /\ UNCHANGED segs)
    /\ UNCHANGED <<manifest, ram, pc, call, scan, plan, queue, issued, failures,
                   slots, newest, formatting>>

SegmentsRemoved ==
    /\ pc = "formatSegs" /\ doomed = {}
    /\ UNCHANGED <<disk, call, scan, plan, issued, failures, slots, newest, doomed>>
    /\ EndStep

RemoveSlot(k) ==
    /\ \/ slots' = [slots EXCEPT ![k] = NoManifest]
       \/ "slot" \in FormatFaults /\ UNCHANGED slots
    /\ manifest' = InForce(slots', newest)
    /\ UNCHANGED <<segs, call, scan, plan, issued, failures, newest, doomed>>
    /\ EndStep

Formatting == \/ FormatRefused \/ (formatting /\ BeginFormat)
              \/ RemoveSegment \/ SegmentsRemoved
              \/ (pc = "formatA" /\ RemoveSlot(1)) \/ (pc = "formatB" /\ RemoveSlot(2))

RNext == RMounting \/ RCalling \/ RWorking \/ RFailing \/ AskFormat \/ BeginFormat \/ Formatting
RSpec == RInit /\ [][RNext]_rvars
FairRSpec == RSpec /\ WF_rvars(RMounting) /\ WF_rvars(RWorking) /\ WF_rvars(Formatting)

-----------------------------------------------------------------------------
(* validateUnlocked(): the manifest first, then the segments it names.      *)

EventBytes(g) == LET es == segs[g].events
                     upTo[n \in 0..Len(es)] ==
                         IF n = 0 THEN HeaderBytes ELSE upTo[n - 1] + BytesOf(es[n])
                 IN  upTo[Len(es)]
Leftover(g) == segs[g].size > EventBytes(g)

Disjoint(rs) == \A i, j \in DOMAIN rs : i < j => rs[i].hi < rs[j].lo \/ rs[j].hi < rs[i].lo
ManifestSound ==
    /\ \A i \in DOMAIN manifest.ranges : manifest.ranges[i].lo <= manifest.ranges[i].hi
    /\ Disjoint(manifest.ranges)
    /\ manifest.tail \notin GensOf(manifest.ranges)
    /\ \A g \in LiveGens(manifest) : g < manifest.next
    /\ Cardinality(LiveGens(manifest)) <= Cardinality(DOMAIN segs)

\* Bytes behind the last event of the tail are a torn event, which is no issue, or
\* the rest of an older and longer one, once a failed write was written over.
TailIssues == IF Leftover(manifest.tail) /\ Faults # {} THEN {"none", "JournalCorrupt"}
              ELSE {"none"}

\* Variant: a torn end is no issue in any segment.
TornAnywhere ==
    IF ~HasManifest THEN {IF manifest = NoManifest /\ segs = <<>> THEN "none" ELSE "MetadataCorrupt"}
    ELSE IF ~ManifestSound \/ \E g \in LiveGens(manifest) : ~SegmentReadable(g)
         THEN {"MetadataCorrupt"}
    ELSE TailIssues
\* Variant: a torn end is an issue in every segment.
TornNowhere ==
    IF ~HasManifest THEN {IF manifest = NoManifest /\ segs = <<>> THEN "none" ELSE "MetadataCorrupt"}
    ELSE IF ~ManifestSound \/ \E g \in LiveGens(manifest) : ~SegmentReadable(g)
         THEN {"MetadataCorrupt"}
    ELSE IF \E g \in LiveGens(manifest) : Leftover(g) THEN {"JournalCorrupt"}
    ELSE TailIssues
\* The issues validate() may report; "none" is a clean bill.
Issues ==
    IF ~HasManifest THEN {IF manifest = NoManifest /\ segs = <<>> THEN "none" ELSE "MetadataCorrupt"}
    ELSE IF ~ManifestSound \/ \E g \in LiveGens(manifest) : ~SegmentReadable(g)
         THEN {"MetadataCorrupt"}
    ELSE IF \E g \in GensOf(manifest.ranges) : Leftover(g) THEN {"JournalCorrupt"}
    ELSE TailIssues

-----------------------------------------------------------------------------
\* The types of what this module adds; the cell of AppendLogStore is what the two
\* slot files yield.
RTypeOK ==
    /\ \A k \in 1..2 : slots[k] \in Manifest \cup {NoManifest, TornManifest}
    /\ newest \in 1..2 /\ manifest = InForce(slots, newest)
    /\ formatting \in BOOLEAN /\ doomed \subseteq DOMAIN segs
    /\ pc \in Phases \cup {"formatSegs", "formatA", "formatB"}

\* format() is all or nothing for whoever mounts after it: power lost between any two
\* of its removals leaves the whole queue, an empty one or a store that does not mount,
\* never the queue as an older manifest knew it (store.cpp:926-933).
WholeQueueOrNone == Mounted /\ ~formatting => Vals(records) = queue

\* Once format() has returned success nothing of the old queue is on disk.
FormatLeavesNothing ==
    [][formatting /\ ~formatting' /\ pc' = "idle" =>
          segs' = <<>> /\ slots' = <<NoManifest, NoManifest>>]_rvars

\* validate() and mount() are two readers of one format (store.cpp:958-1226 and
\* 176-414): a store that does not mount never gets a clean bill, and ...
NoFalseClean == pc = "failed" => "none" \notin Issues
\* ... one whose mount gets through never gets a hint to format it, unless it cannot
\* publish or its truncation wiped the tail.
NoFalseAlarm ==
    /\ pc = "sweep" /\ manifest # TornManifest
    /\ HasManifest => segs[manifest.tail].hdr
    => "none" \in Issues

\* doctor.md:182 and 241-248: format() reinitialises the queue, one that cannot be
\* repaired above all; it does not return from a store that does not mount.
FormatRepairs == [][formatting /\ ~formatting' => pc # "failed"]_rvars
=============================================================================
