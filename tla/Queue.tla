-------------------------------- MODULE Queue --------------------------------
(***************************************************************************)
(* pqueue::Queue (queue.cpp) over the append-log store, with the byte        *)
(* budget that Compaction leaves open: the counter totalOnDiskBytes_ the     *)
(* store keeps instead of asking the file system, the admission of an        *)
(* enqueue or a rewrite against maxTotalBytes, and the eviction of           *)
(* FullQueuePolicy::DropOldest, one pop after another until the record fits. *)
(*                                                                           *)
(* The manifest cell gets back the two slot files it stands for, as far as   *)
(* bytes go: their sizes and which of them is in force.                      *)
(***************************************************************************)
EXTENDS Compaction

CONSTANTS
    Policies,           \* values of config_.fullQueuePolicy to start with
    MaxTotalBytes,      \* config_.maxTotalBytes (Config::reservedBytes), 0 for no cap
    DrainReserve,       \* config_.drainReserveBytes
    ManifestFixed,      \* kManifestFixedBytes
    RangeEntry          \* kManifestRangeEntryBytes

ASSUME QueueConstants ==
    /\ Policies \subseteq {"RejectNewest", "DropOldest"}
    /\ MaxTotalBytes \in Nat /\ DrainReserve \in Nat
    /\ ManifestFixed \in Nat \ {0} /\ RangeEntry \in Nat

VARIABLES
    slots,          \* durable: sizes of manifest-a.bin and manifest-b.bin, 0 when absent
    force,          \* durable: the slot in force, 0 while there is none
    total,          \* totalOnDiskBytes_
    slotBytes,      \* manifestSlotBytes_
    written,        \* cachedWrittenSlot_, 0 for nullptr
    policy,         \* config_.fullQueuePolicy
    pending,        \* the enqueue() whose eviction runs a pop, and the record it evicts
    evicted,        \* observer: records the enqueue() in progress has evicted
    erred           \* observer: a write has reported an error

bytes == <<slots, force, total, slotBytes, written>>
loop  == <<policy, pending, evicted, erred>>
qvars == <<vars, bytes, loop>>

-----------------------------------------------------------------------------
(* Bytes on disk, and the estimate of what the next append adds.            *)

SlotSize(rs) == ManifestFixed + RangeEntry * Len(rs)

SegmentBytes(ss) == Sum([g \in DOMAIN ss |-> ss[g].size], DOMAIN ss)
DiskBytes == SegmentBytes(segs) + slots[1] + slots[2]

\* chooseInactiveSlot() and the fast path past it: the slot to write next.
Inactive == IF written # 0 THEN 3 - written ELSE IF force # 0 THEN 3 - force ELSE 1

\* What is known of the slot's size; the smaller one while the slot is not known.
KnownInactiveBytes ==
    IF written # 0 THEN slotBytes[3 - written]
    ELSE IF slotBytes[1] <= slotBytes[2] THEN slotBytes[1] ELSE slotBytes[2]

\* Variant: the manifest is left out of the estimate.
GrowthWithoutManifest ==
    IF tailBytes = 0 \/ TailIsFull THEN BytesOf(CallEvent) + HeaderBytes ELSE BytesOf(CallEvent)
\* appendGrowthBytes().
Growth ==
    LET slot == ManifestFixed + RangeEntry * (Len(ranges) + Count(TailIsFull)) IN
    IF tailBytes = 0 \/ TailIsFull
    THEN BytesOf(CallEvent) + HeaderBytes + SetMax(slot - KnownInactiveBytes, 0)
    ELSE BytesOf(CallEvent)

OverBudget == MaxTotalBytes > 0 /\ total + Growth + DrainReserve > MaxTotalBytes

-----------------------------------------------------------------------------
(* The counters beside each step of the store.                              *)

Nothing == [enqueue |-> Idle, front |-> 0]

QInit ==
    /\ Init
    /\ slots = <<0, 0>> /\ force = 0
    /\ total = 0 /\ slotBytes = <<0, 0>> /\ written = 0
    /\ policy \in Policies /\ pending = Nothing /\ evicted = 0 /\ erred = FALSE

\* scanSegments() starts: nothing is known of the slots.
ForgetSlots == slotBytes' = <<0, 0>> /\ written' = 0 /\ UNCHANGED <<slots, force, total>>

\* Variant: dangling files are not counted.
CountLiveOnly ==
    /\ total' = Sum([g \in DOMAIN segs \ Dangling |-> segs[g].size], DOMAIN segs \ Dangling)
                + slots[1] + slots[2]
    /\ slotBytes' = slots
    /\ UNCHANGED <<slots, force, written>>
\* mount() sums up every file there is, less the one it then removes.
CountFiles ==
    /\ total' = SegmentBytes(segs') + slots[1] + slots[2]
    /\ slotBytes' = slots
    /\ UNCHANGED <<slots, force, written>>

\* writeSegmentFileTracked(MustBeNew): the new file's size is added, whatever was there.
CountNewFile(size) == total' = total + size /\ UNCHANGED <<slots, force, slotBytes, written>>

\* writeSegmentFileTracked(MayOverwrite) on a slot: the difference is added.
CountManifest ==
    LET size == SlotSize(manifest'.ranges) IN
    /\ slots' = [slots EXCEPT ![Inactive] = size]
    /\ total' = total + size - slots[Inactive]
    /\ force' = Inactive /\ written' = Inactive
    /\ slotBytes' = [slotBytes EXCEPT ![Inactive] = size]

CountEvent == total' = total + BytesOf(CallEvent) /\ UNCHANGED <<slots, force, slotBytes, written>>

\* Variant: what the removed file took is never given back.
CountNoRemoval == UNCHANGED bytes
\* cleanupInputSegments(): a file that could not be removed still counts.
CountRemoved ==
    LET g == plan.lo + plan.done IN
    /\ total' = IF g \in DOMAIN segs' THEN total ELSE total - TotalBytes(g)
    /\ UNCHANGED <<slots, force, slotBytes, written>>

\* A write cut short: the slot keeps the old manifest or holds a part of the new one.
SlotCutShort ==
    \/ UNCHANGED <<slots, manifest>>
    \/ UNCHANGED slots /\ pc \notin {"publishTail", "publish"}
    \/ /\ pc \in {"publishTail", "publish"} /\ manifest' # NoManifest
       /\ slots' = [slots EXCEPT ![Inactive] = 1]

-----------------------------------------------------------------------------
(* Queue::enqueue(), Queue::rewriteFront(), Queue::pop().                   *)

\* reclaimDeadFrontSegment(): the range it would compact, if there is one.
DeadFront ==
    IF ranges = <<>> \/ HasLive(ranges[1].lo, ranges[1].lo) THEN {}
    ELSE InputOf([lo |-> ranges[1].lo, hi |-> ranges[1].lo], FALSE)

\* enqueue(): near the budget DropOldest first drops a dead front segment.
Enqueue ==
    /\ MayStart("enqueue") /\ pending = Nothing
    /\ issued < MaxValues /\ IndexTail < MaxSequence
    /\ call' = [op |-> "enqueue", seq |-> IndexTail, val |-> issued + 1]
    /\ issued' = issued + 1
    /\ evicted' = 0
    /\ IF policy = "DropOldest" /\ records # <<>> /\ OverBudget /\ DeadFront # {}
       THEN \E in \in DeadFront : BeginCompaction(in)
       ELSE pc' = "admit" /\ UNCHANGED <<plan, sealed>>
    /\ UNCHANGED <<disk, RamButSealed, scan, queue, failures, bytes, policy, pending, erred>>

\* rewriteFront(); the store's rewriteRecord() takes any sequence.
RewriteFront ==
    /\ pending = Nothing /\ RewriteRecord /\ call'.seq = Head(records).seq
    /\ UNCHANGED <<bytes, loop>>

Pop == pending = Nothing /\ CommitPop /\ UNCHANGED <<bytes, loop>>

QCompactIdle == pending = Nothing /\ CompactIdle /\ UNCHANGED <<bytes, loop>>

\* The admission loop of commitEnqueue() and rewriteRecord().
Admitted   == ~OverBudget /\ Admit /\ UNCHANGED <<bytes, loop>>
MakeRoom   == OverBudget /\ CompactForAdmission /\ UNCHANGED <<bytes, loop>>
NoRoom     == pc = "admit" /\ OverBudget /\ NextInput(FALSE) = {}

MayEvict   == call.op = "enqueue" /\ policy = "DropOldest" /\ records # <<>>

\* commitEnqueue() or rewriteRecord() returns QueueFull and so does the queue.
Refuse == NoRoom /\ ~MayEvict /\ QueueFull /\ UNCHANGED <<bytes, loop>>

\* evictFront(): the enqueue stands by while the front is popped.
EvictFront ==
    /\ NoRoom /\ MayEvict
    /\ pending' = [enqueue |-> call, front |-> Head(records).seq]
    /\ call' = [op |-> "pop", seq |-> Head(records).seq, val |-> 0]
    /\ pc' = "place"
    /\ UNCHANGED <<disk, ram, scan, plan, queue, issued, failures, bytes, policy, evicted, erred>>

\* The pop is through: commitEnqueue() is called again with the same sequence.
RetryEnqueue ==
    /\ pc = "idle" /\ pending # Nothing /\ pending.front \notin SeqsOf(records)
    /\ call' = pending.enqueue /\ pc' = "admit"
    /\ pending' = Nothing /\ evicted' = evicted + 1
    /\ UNCHANGED <<disk, ram, scan, plan, queue, issued, failures, bytes, policy, erred>>

\* The pop failed: enqueue() returns its status.
EvictionFailed ==
    /\ pc = "idle" /\ pending # Nothing /\ pending.front \in SeqsOf(records)
    /\ pending' = Nothing
    /\ UNCHANGED <<vars, bytes, policy, evicted, erred>>

-----------------------------------------------------------------------------
(* The steps of the store, each with what it does to the counters.          *)

QMounting ==
    /\ \/ MountBegin /\ ForgetSlots
       \/ MountDone /\ CountFiles
       \/ /\ \/ ReplayUnreadable \/ ReplayEvent \/ ReplayTornSealed
             \/ ReplayNextSegment \/ ReplayDone \/ TruncateTail
          /\ UNCHANGED bytes
    /\ UNCHANGED loop

QWorking ==
    /\ \/ (PlaceEvent \/ PublishRefused \/ ResolveAfterRotation) /\ UNCHANGED bytes
       \/ CreateTail /\ CountNewFile(HeaderBytes)
       \/ WriteOutput /\ CountNewFile(OutputSegment(plan.done).size)
       \/ (PublishTail \/ PublishCompaction) /\ CountManifest
       \/ AppendEvent /\ CountEvent
       \/ CleanupInput /\ CountRemoved
    /\ UNCHANGED loop

Admission == Admitted \/ MakeRoom \/ Refuse \/ EvictFront \/ RetryEnqueue \/ EvictionFailed

QFailing ==
    \/ /\ PowerLoss /\ SlotCutShort
       /\ total' = 0 /\ slotBytes' = <<0, 0>> /\ written' = 0
       /\ pending' = Nothing /\ evicted' = 0
       /\ UNCHANGED <<force, policy, erred>>
    \/ /\ WriteError /\ SlotCutShort /\ erred' = TRUE
       /\ UNCHANGED <<force, total, slotBytes, written, policy, pending, evicted>>

QNext == \/ Enqueue \/ RewriteFront \/ Pop \/ QCompactIdle
         \/ Admission \/ QMounting \/ QWorking \/ QFailing
QSpec == QInit /\ [][QNext]_qvars

\* A call runs to its end, an unmounted store is mounted by the next call.
FairQSpec == QSpec /\ WF_qvars(QMounting) /\ WF_qvars(QWorking \/ Admission)

-----------------------------------------------------------------------------
\* internals.md:600-606: totalOnDiskBytes_ is what the files really take, whatever was
\* rotated, compacted, left dangling or lost to a power failure, until a write
\* reports an error.
TotalIsFootprint == Mounted /\ ~erred => total = DiskBytes

\* The estimate of appendGrowthBytes() never undercounts (store.cpp:602-604): when the
\* event is about to be written, it and the reserve still fit the budget, although
\* a rotation and a manifest were written since the admission.
AdmittedFits ==
    /\ pc = "append" /\ call.op \in {"enqueue", "rewrite"}
    /\ MaxTotalBytes > 0 /\ ~erred
    => DiskBytes + BytesOf(CallEvent) + DrainReserve <= MaxTotalBytes

\* Power losses, failing removals and compactions never leave a store that does not
\* mount: that takes a reported write error, or no first manifest yet.
MountFailsOnlyAfterError == pc = "failed" => erred \/ ~HasManifest

\* QueueFull means live records: with a budget of one full segment, one segment for the
\* record and two full manifests, and no dangling file, dead bytes alone never make an
\* enqueue fail, and DropOldest never evicts the whole queue to refuse all the same.
RefusedOnlyWhenFull ==
    [][pc = "admit" /\ pc' = "idle" /\ Dangling = {} /\ ~erred => records # <<>>]_qvars

\* enqueue() evicts only as long as the record does not fit, and every enqueue(),
\* its evictions included, returns.
EnqueueReturns ==
    pc \notin {"idle", "down", "failed"} \/ pending # Nothing
        ~> pc \in {"idle", "down", "failed"} /\ pending = Nothing
=============================================================================
