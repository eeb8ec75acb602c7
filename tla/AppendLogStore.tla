--------------------------- MODULE AppendLogStore ---------------------------
(***************************************************************************)
(* The append-log store of src/pqueue/append_log_store: one caller at a    *)
(* time (the queue lock is held around every call), a durable part (segment *)
(* files and the published manifest) and a RAM part rebuilt by mount().     *)
(* Every file operation is a step of its own, so that power may fail        *)
(* between any two of them and in the middle of each write.                 *)
(*                                                                          *)
(* Abstractions.  A segment file is its sequence of complete events plus    *)
(* its length; bytes past the last complete event are a torn write.  The    *)
(* manifest is one cell: that the A/B slot files implement it, torn writes  *)
(* included, is module ManifestSlots.  A record is [seq, gen, val], where   *)
(* val stands for the payload found at (segmentGeneration, payloadOffset).  *)
(* All payloads have the same length, so EnqueueBytes is a constant.        *)
(***************************************************************************)
EXTENDS Integers, Sequences, FiniteSets

CONSTANTS
    HeaderBytes,        \* kSegmentHeaderBytes
    EnqueueBytes,       \* kEnqueueOverheadBytes + payload bytes (ENQUEUE, REWRITE)
    PopBytes,           \* kPopEventBytes
    MaxSegmentBytes,    \* config_.maxSegmentBytes
    MaxRanges,          \* kManifestMaxRanges
    MaxSequence,        \* the largest value of a uint32_t sequence number
    Calls,              \* the calls the application makes
    Faults,             \* the file operations that may report an error
    ShrinkKeepsPrefix,  \* resizeFile to a smaller size keeps the leading bytes
    MaxValues,          \* bound: payloads ever written
    MaxGeneration,      \* bound: no call starts with nextGeneration_ above it
    MaxFailures         \* bound: power losses and reported write errors

ASSUME StoreConstants ==
    /\ HeaderBytes \in Nat \ {0} /\ EnqueueBytes \in Nat \ {0} /\ PopBytes \in Nat \ {0}
    /\ MaxSegmentBytes \in Nat /\ MaxRanges \in Nat /\ MaxSequence \in Nat
    /\ HeaderBytes + EnqueueBytes <= MaxSegmentBytes
    /\ Calls \subseteq {"enqueue", "pop", "rewrite", "compact"}
    /\ Faults \subseteq {"write", "remove", "truncate"}
    /\ ShrinkKeepsPrefix \in BOOLEAN
    /\ MaxValues \in Nat /\ MaxGeneration \in Nat /\ MaxFailures \in Nat

VARIABLES
    \* durable
    segs,       \* seg-*.bin: generation -> [hdr, events, size]
    manifest,   \* the manifest the two slots hold
    \* RAM of the mounted store
    records,    \* records_
    ranges,     \* manifestRanges_
    tail,       \* activeGeneration_
    tailBytes,  \* activeSegmentBytes_ (the scan cursor "offset" during mount)
    nextGen,    \* nextGeneration_
    nextSeq,    \* nextSequence_
    sealed,     \* sealedSegmentBytes_
    deps,       \* activeTailAffectedGenerations_
    \* control
    pc,         \* where the call (or the mount) in progress stands
    call,       \* the call in progress
    scan,       \* the replay cursor of scanSegments()
    plan,       \* compactRange()'s input range and progress; NoPlan outside it
    \* observers
    queue,      \* the payloads the callers were told are queued, in order
    issued,     \* payloads written so far
    failures    \* power losses and write errors so far

disk == <<segs, manifest>>
ram  == <<records, ranges, tail, tailBytes, nextGen, nextSeq, sealed, deps>>
vars == <<disk, ram, pc, call, scan, plan, queue, issued, failures>>

-----------------------------------------------------------------------------
(* Data *)

Gen       == Nat \ {0}
Val       == 1..MaxValues
Event     == [type : {"enq", "rew"}, seq : Nat, val : Val] \cup [type : {"pop"}, seq : Nat]
Segment   == [hdr : BOOLEAN, events : Seq(Event), size : Nat]
ManifestRange == [lo : Gen, hi : Gen]
Manifest  == [ranges : Seq(ManifestRange), tail : Gen, next : Gen]
Record    == [seq : Nat, gen : Gen, val : Val]
NoManifest   == [slots |-> "absent"]    \* neither slot file exists
TornManifest == [slots |-> "torn"]      \* a slot file exists, none parses
Idle      == [op |-> "none", seq |-> 0, val |-> 0]
NoPlan    == [lo |-> 0, hi |-> 0, first |-> 0, outs |-> 0, done |-> 0]

GensOf(rs)  == UNION {rs[i].lo .. rs[i].hi : i \in DOMAIN rs}
LiveGens(m) == GensOf(m.ranges) \cup {m.tail}
HasManifest == manifest \notin {NoManifest, TornManifest}

BytesOf(e) == IF e.type = "pop" THEN PopBytes ELSE EnqueueBytes
CallEvent  == IF call.op = "pop" THEN [type |-> "pop", seq |-> call.seq]
              ELSE [type |-> IF call.op = "rewrite" THEN "rew" ELSE "enq",
                    seq |-> call.seq, val |-> call.val]

WithSegment(ss, g, s) == [h \in DOMAIN ss \cup {g} |-> IF h = g THEN s ELSE ss[h]]
Without(ss, g)        == [h \in DOMAIN ss \ {g} |-> ss[h]]
SetMax(a, b)          == IF a >= b THEN a ELSE b
Vals(rs)              == [i \in DOMAIN rs |-> rs[i].val]

TornSegment  == [hdr |-> FALSE, events |-> <<>>, size |-> 0]
EmptySegment == [hdr |-> TRUE, events |-> <<>>, size |-> HeaderBytes]

-----------------------------------------------------------------------------
(* Initially there is no file and nothing is mounted. *)

Unmounted ==
    /\ records = <<>> /\ ranges = <<>> /\ tail = 0 /\ tailBytes = 0
    /\ nextGen = 1 /\ nextSeq = 0 /\ sealed = <<>> /\ deps = {}
    /\ call = Idle /\ scan = [r |-> 1, gen |-> 0, ev |-> 1] /\ plan = NoPlan

Init ==
    /\ segs = <<>> /\ manifest = NoManifest
    /\ Unmounted /\ pc = "down"
    /\ queue = <<>> /\ issued = 0 /\ failures = 0

-----------------------------------------------------------------------------
(* mount(): scanSegments() replays the segments in manifest order, event by *)
(* event, truncates a torn tail and removes one dangling file.  A failed    *)
(* mount is retried by the next call.                                       *)

StartScan(m) ==
    [r   |-> 1, ev |-> 1, gen |-> IF m.ranges = <<>> THEN m.tail ELSE m.ranges[1].lo]

\* nextGeneration_ moves past every file on disk, dangling ones included.
AdvancePast(n) == CHOOSE k \in {n} \cup {g + 1 : g \in DOMAIN segs} :
                      k >= n /\ \A g \in DOMAIN segs : k > g

MountBegin ==
    /\ pc \in {"down", "failed"}
    /\ records' = <<>> /\ tail' = 0 /\ nextSeq' = 0 /\ sealed' = <<>> /\ deps' = {}
    /\ \/ /\ HasManifest
          /\ ranges' = manifest.ranges
          /\ nextGen' = AdvancePast(manifest.next)
          /\ scan' = StartScan(manifest)
          /\ tailBytes' = HeaderBytes
          /\ pc' = "replay"
       \/ /\ ~HasManifest
          /\ nextGen' = 1
          /\ tailBytes' = 0
          /\ pc' = IF DOMAIN segs = {} THEN "sweep" ELSE "failed"
          /\ UNCHANGED <<ranges, scan>>
    /\ UNCHANGED <<disk, call, plan, queue, issued, failures>>

OnLastSegment == scan.r > Len(ranges)
SegmentReadable(g) == g \in DOMAIN segs /\ segs[g].hdr /\ segs[g].size >= HeaderBytes

FailMount ==
    /\ pc' = "failed"
    /\ UNCHANGED <<disk, ram, call, scan, plan, queue, issued, failures>>

\* A referenced file is missing, too small or has no valid header.
ReplayUnreadable == pc = "replay" /\ ~SegmentReadable(scan.gen) /\ FailMount

Located(e) == [seq |-> e.seq, gen |-> scan.gen, val |-> e.val]
SeqsOf(rs) == {rs[i].seq : i \in DOMAIN rs}
FirstAt(rs, q) == CHOOSE i \in DOMAIN rs : rs[i].seq = q /\ \A j \in 1 .. i - 1 : rs[j].seq # q
\* The place of an orphaned REWRITE: before the first larger or equal sequence.
Below(rs, q) == CHOOSE n \in 0 .. Len(rs) : /\ \A i \in 1 .. n : rs[i].seq < q
                                            /\ n < Len(rs) => rs[n + 1].seq >= q
\* Variant: an orphaned REWRITE is appended like an ENQUEUE.
InsertedAtEnd(rs, r) == Append(rs, r)
Inserted(rs, r) == LET n == Below(rs, r.seq)
                   IN  SubSeq(rs, 1, n) \o <<r>> \o SubSeq(rs, n + 1, Len(rs))
TailTouches(g) == deps' = IF OnLastSegment THEN deps \cup {g} ELSE deps

IsFront(e) == records # <<>> /\ Head(records).seq = e.seq

ReplayEvent ==
    /\ pc = "replay" /\ SegmentReadable(scan.gen)
    /\ scan.ev <= Len(segs[scan.gen].events)
    /\ LET e == segs[scan.gen].events[scan.ev] IN
       /\ \/ /\ e.type = "enq"
             /\ records' = Append(records, Located(e))
             /\ UNCHANGED deps
          \/ /\ e.type = "rew" /\ e.seq \in SeqsOf(records)
             /\ LET i == FirstAt(records, e.seq)
                IN  records' = [records EXCEPT ![i] = Located(e)] /\ TailTouches(records[i].gen)
          \/ /\ e.type = "rew" /\ e.seq \notin SeqsOf(records)
             /\ records' = Inserted(records, Located(e))
             /\ UNCHANGED deps
          \/ /\ e.type = "pop" /\ IsFront(e)
             /\ records' = Tail(records)
             /\ TailTouches(Head(records).gen)
          \/ /\ e.type = "pop" /\ ~IsFront(e)
             /\ UNCHANGED <<records, deps>>
       /\ nextSeq' = SetMax(nextSeq, e.seq + 1)
       /\ tailBytes' = tailBytes + BytesOf(e)
    /\ scan' = [scan EXCEPT !.ev = @ + 1]
    /\ UNCHANGED <<disk, ranges, tail, nextGen, sealed, pc, call, plan, queue, issued, failures>>

\* Variant: the scan only ends where the file does.
AtExactSegmentEnd == /\ pc = "replay" /\ SegmentReadable(scan.gen)
                     /\ scan.ev > Len(segs[scan.gen].events)
                     /\ tailBytes = segs[scan.gen].size
AtSegmentEnd ==
    pc = "replay" /\ SegmentReadable(scan.gen) /\ scan.ev > Len(segs[scan.gen].events)

\* Bytes after the last good event: fatal in a sealed segment, a torn tail in the last.
ReplayTornSealed ==
    /\ AtSegmentEnd /\ tailBytes < segs[scan.gen].size /\ ~OnLastSegment
    /\ pc' = "failed" /\ tail' = scan.gen
    /\ UNCHANGED <<disk, records, ranges, tailBytes, nextGen, nextSeq, sealed, deps,
                   call, scan, plan, queue, issued, failures>>

ReplayNextSegment ==
    /\ AtSegmentEnd /\ tailBytes >= segs[scan.gen].size /\ ~OnLastSegment
    /\ tail' = scan.gen
    /\ tailBytes' = HeaderBytes
    /\ scan' = IF scan.gen < ranges[scan.r].hi
               THEN [r |-> scan.r, ev |-> 1, gen |-> scan.gen + 1]
               ELSE [r |-> scan.r + 1, ev |-> 1,
                     gen |-> IF scan.r < Len(ranges) THEN ranges[scan.r + 1].lo
                             ELSE manifest.tail]
    /\ UNCHANGED <<disk, records, ranges, nextGen, nextSeq, sealed, deps, pc,
                   call, plan, queue, issued, failures>>

ReplayDone ==
    /\ AtSegmentEnd /\ OnLastSegment
    /\ tail' = scan.gen
    /\ pc' = IF tailBytes < segs[scan.gen].size THEN "truncate" ELSE "sweep"
    /\ UNCHANGED <<disk, records, ranges, tailBytes, nextGen, nextSeq, sealed, deps,
                   call, scan, plan, queue, issued, failures>>

\* resizeFile() to a smaller size: the file's first bytes, or zeros on LittleFS, which
\* removes the file and writes it anew.
Shrunk(s, size) == IF ShrinkKeepsPrefix THEN [s EXCEPT !.size = size]
                   ELSE [hdr |-> FALSE, events |-> <<>>, size |-> size]

\* resizeFile(name, lastGoodOffset); its status is ignored.
TruncateTail ==
    /\ pc = "truncate"
    /\ \/ segs' = WithSegment(segs, tail, Shrunk(segs[tail], tailBytes))
       \/ "truncate" \in Faults /\ UNCHANGED segs
    /\ pc' = "sweep"
    /\ UNCHANGED <<manifest, ram, call, scan, plan, queue, issued, failures>>

Dangling == DOMAIN segs \ (IF HasManifest THEN LiveGens(manifest) ELSE {})

\* sealedSegmentBytes_ from the files, cleanupOneDanglingSegment(), mounted_ = true.
MountDone ==
    /\ pc = "sweep"
    /\ \/ \E g \in Dangling : segs' = Without(segs, g)
       \/ (Dangling = {} \/ "remove" \in Faults) /\ UNCHANGED segs
    /\ sealed' = [g \in DOMAIN segs' |-> segs[g].size]
    /\ pc' = "idle"
    /\ UNCHANGED <<manifest, records, ranges, tail, tailBytes, nextGen, nextSeq, deps,
                   call, scan, plan, queue, issued, failures>>

-----------------------------------------------------------------------------
(* Calls of the mounted store: commitEnqueue, commitPop, rewriteRecord.     *)

MayStart(op) == pc = "idle" /\ op \in Calls /\ nextGen <= MaxGeneration

\* Variant: the counter of the last mount, although records were added since.
IndexTailFromMount == nextSeq
\* indexFromRecords().tail, the sequence Queue::enqueue passes down.
IndexTail == IF records = <<>> THEN nextSeq ELSE records[Len(records)].seq + 1

CommitEnqueue ==
    /\ MayStart("enqueue") /\ issued < MaxValues
    /\ IndexTail < MaxSequence           \* SequenceExhausted otherwise
    /\ call' = [op |-> "enqueue", seq |-> IndexTail, val |-> issued + 1]
    /\ issued' = issued + 1
    /\ pc' = "admit"
    /\ UNCHANGED <<disk, ram, scan, plan, queue, failures>>

RewriteRecord ==
    /\ MayStart("rewrite") /\ issued < MaxValues
    /\ \E q \in SeqsOf(records) : call' = [op |-> "rewrite", seq |-> q, val |-> issued + 1]
    /\ issued' = issued + 1
    /\ pc' = "admit"
    /\ UNCHANGED <<disk, ram, scan, plan, queue, failures>>

\* rotateSegment()'s range list: the old tail sealed, merged if contiguous.
SealedRanges ==
    LET n == Len(ranges) IN
    IF tail = 0 THEN ranges
    ELSE IF n > 0 /\ ranges[n].hi + 1 = tail THEN [ranges EXCEPT ![n].hi = tail]
    ELSE Append(ranges, [lo |-> tail, hi |-> tail])

CommitPop ==
    /\ MayStart("pop") /\ records # <<>>
    /\ call' = [op |-> "pop", seq |-> Head(records).seq, val |-> 0]
    /\ pc' = "place"
    /\ UNCHANGED <<disk, ram, scan, plan, queue, issued, failures>>

\* No byte budget in the way (Compaction adds the case that there is).
Admit ==
    /\ pc = "admit"
    /\ pc' = "place"
    /\ UNCHANGED <<disk, ram, call, scan, plan, queue, issued, failures>>

TailIsFull == tailBytes > HeaderBytes /\ tailBytes + BytesOf(CallEvent) > MaxSegmentBytes
RangesFull == Len(SealedRanges) > MaxRanges

SealTailSize == sealed' = [g \in DOMAIN sealed \cup {tail} |->
                              IF g = tail THEN tailBytes ELSE sealed[g]]

\* The common head of the appends: rotate a full tail, create a missing one.
PlaceEvent ==
    /\ pc = "place"
    /\ \/ TailIsFull /\ RangesFull /\ pc' = "idle" /\ call' = Idle /\ UNCHANGED sealed
       \/ TailIsFull /\ ~RangesFull /\ pc' = "create" /\ SealTailSize /\ UNCHANGED call
       \/ /\ ~TailIsFull
          /\ pc' = IF tailBytes = 0 THEN "create" ELSE "append"
          /\ UNCHANGED <<call, sealed>>
    /\ UNCHANGED <<disk, records, ranges, tail, tailBytes, nextGen, nextSeq, deps,
                   scan, plan, queue, issued, failures>>

\* rotateSegment() and ensureActiveSegment(): the new file, then the manifest.
CreateTail ==
    /\ pc = "create"
    /\ segs' = WithSegment(segs, nextGen, EmptySegment)
    /\ sealed' = [g \in DOMAIN sealed \cup {nextGen} |->
                     IF g = nextGen THEN HeaderBytes ELSE sealed[g]]
    /\ pc' = "publishTail"
    /\ UNCHANGED <<manifest, records, ranges, tail, tailBytes, nextGen, nextSeq, deps,
                   call, scan, plan, queue, issued, failures>>

\* Variant: nextGeneration_ is not taken from the manifest just published.
PublishKeepingNext(m) ==
    /\ manifest # TornManifest
    /\ manifest' = m
    /\ ranges' = m.ranges
    /\ nextGen' = nextGen
\* publishManifest() and applyManifestToRam(), one step: the slot write decides.
Publish(m) ==
    /\ manifest # TornManifest          \* DataCorrupt: no slot to choose
    /\ manifest' = m
    /\ ranges' = m.ranges
    /\ nextGen' = m.next

PublishTail ==
    /\ pc = "publishTail"
    /\ Publish([ranges |-> SealedRanges, tail |-> nextGen, next |-> nextGen + 1])
    /\ tail' = nextGen
    /\ tailBytes' = HeaderBytes
    /\ deps' = {}
    /\ pc' = IF plan = NoPlan THEN "append" ELSE "resolve"
    /\ UNCHANGED <<segs, records, nextSeq, sealed, call, scan, plan, queue, issued, failures>>

\* writeAt(tail, activeSegmentBytes_, event): the file grows, or old torn bytes
\* under the event are overwritten and the rest of them stays.
Appended(seg, e) == [seg EXCEPT !.events = Append(@, e),
                                !.size = SetMax(@, tailBytes + BytesOf(e))]

TailRecord == [seq |-> call.seq, gen |-> tail, val |-> call.val]

AppendEvent ==
    /\ pc = "append"
    /\ segs' = [segs EXCEPT ![tail] = Appended(@, CallEvent)]
    /\ tailBytes' = tailBytes + BytesOf(CallEvent)
    /\ \/ /\ call.op = "enqueue"
          /\ records' = Append(records, TailRecord)
          /\ queue' = Append(queue, call.val)
          /\ UNCHANGED deps
       \/ /\ call.op = "pop"
          /\ records' = Tail(records)
          /\ queue' = IF Len(queue) = Len(records) THEN Tail(queue) ELSE queue
          /\ deps' = deps \cup {Head(records).gen}
       \/ /\ call.op = "rewrite"
          /\ LET i == FirstAt(records, call.seq)
                 j == i - (Len(records) - Len(queue))
             IN
             /\ records' = [records EXCEPT ![i] = TailRecord]
             /\ queue' = IF j >= 1 THEN [queue EXCEPT ![j] = call.val] ELSE queue
             /\ deps' = deps \cup {records[i].gen}
    /\ pc' = "idle" /\ call' = Idle
    /\ UNCHANGED <<manifest, ranges, tail, nextGen, nextSeq, sealed, scan, plan, issued, failures>>

-----------------------------------------------------------------------------
(* Failures.  A write that power loss or an error cuts short leaves a file   *)
(* without its header, a slot that does not parse, or a partial event.       *)

Unwritten == UNCHANGED disk
PartialWrite ==
    \/ /\ pc = "create" /\ segs' = WithSegment(segs, nextGen, TornSegment)
       /\ UNCHANGED manifest
    \/ /\ pc = "write" /\ segs' = WithSegment(segs, plan.first + plan.done, TornSegment)
       /\ UNCHANGED manifest
    \/ /\ pc \in {"publishTail", "publish"}
       /\ manifest' = IF HasManifest THEN manifest ELSE TornManifest
       /\ UNCHANGED segs
    \/ /\ pc = "append"
       /\ \E n \in {1, BytesOf(CallEvent) - 1} :
             segs' = [segs EXCEPT ![tail].size = SetMax(@, tailBytes + n)]
       /\ UNCHANGED manifest

PowerLoss ==
    /\ pc # "down" /\ failures < MaxFailures
    /\ Unwritten \/ PartialWrite
    /\ records' = <<>> /\ ranges' = <<>> /\ tail' = 0 /\ tailBytes' = 0
    /\ nextGen' = 1 /\ nextSeq' = 0 /\ sealed' = <<>> /\ deps' = {}
    /\ call' = Idle /\ scan' = [r |-> 1, gen |-> 0, ev |-> 1] /\ plan' = NoPlan
    /\ pc' = "down"
    /\ failures' = failures + 1
    /\ UNCHANGED <<queue, issued>>

WritePoints == {"create", "publishTail", "append", "write", "publish"}

\* The write reports an error and the call returns it; RAM is as it was.
ReturnError ==
    /\ pc' = "idle" /\ call' = Idle /\ plan' = NoPlan
    /\ UNCHANGED <<ram, scan, queue, issued>>

WriteError ==
    /\ "write" \in Faults /\ pc \in WritePoints /\ failures < MaxFailures
    /\ Unwritten \/ PartialWrite
    /\ failures' = failures + 1
    /\ ReturnError

\* Variant: rotation does not return the refusal.
PublishRefusedLate ==
    /\ pc = "publish" /\ manifest = TornManifest
    /\ ReturnError
    /\ UNCHANGED <<disk, failures>>

\* publishManifest() finds slot files but no valid one: DataCorrupt.
PublishRefused ==
    /\ pc \in {"publishTail", "publish"} /\ manifest = TornManifest
    /\ ReturnError
    /\ UNCHANGED <<disk, failures>>

-----------------------------------------------------------------------------
Mounting == \/ MountBegin \/ ReplayUnreadable \/ ReplayEvent \/ ReplayTornSealed
            \/ ReplayNextSegment \/ ReplayDone \/ TruncateTail \/ MountDone
Calling  == CommitEnqueue \/ RewriteRecord \/ CommitPop
Working  == Admit \/ PlaceEvent \/ CreateTail \/ PublishTail \/ AppendEvent \/ PublishRefused
Failing  == PowerLoss \/ WriteError

Next == Mounting \/ Calling \/ Working \/ Failing
Spec == Init /\ [][Next]_vars

\* A call runs to its end, and every use of an unmounted store mounts it.
FairSpec == Spec /\ WF_vars(Mounting) /\ WF_vars(Working)

-----------------------------------------------------------------------------
Phases == {"down", "failed", "replay", "truncate", "sweep", "idle", "admit", "place",
           "create", "publishTail", "append", "resolve", "write", "publish", "cleanup"}

SegmentFiles(ss) == /\ IsFiniteSet(DOMAIN ss) /\ DOMAIN ss \subseteq Gen
                    /\ \A g \in DOMAIN ss : ss[g] \in Segment

\* The types of the state. A record always carries a real generation and payload,
\* and so does every event in a file, whatever calls and failures came before.
TypeOK ==
    /\ SegmentFiles(segs)
    /\ manifest \in Manifest \cup {NoManifest, TornManifest}
    /\ records \in Seq(Record) /\ ranges \in Seq(ManifestRange)
    /\ tail \in Nat /\ tailBytes \in Nat /\ nextGen \in Gen /\ nextSeq \in Nat
    /\ DOMAIN sealed \subseteq Nat /\ \A g \in DOMAIN sealed : sealed[g] \in Nat
    /\ deps \subseteq Gen
    /\ pc \in Phases
    /\ call \in [op : {"none", "enqueue", "pop", "rewrite"}, seq : Nat, val : 0 .. MaxValues]
    /\ scan \in [r : Nat \ {0}, gen : Nat, ev : Nat \ {0}]
    /\ plan \in [lo : Nat, hi : Nat, first : Nat, outs : Nat, done : Nat]
    /\ queue \in Seq(Val) /\ issued \in 0 .. MaxValues /\ failures \in 0 .. MaxFailures

Mounted == pc \notin {"down", "failed", "replay", "truncate", "sweep"}

\* Every segment the durable manifest names has a readable file, at every
\* instant: createSegment() precedes publishManifest(), and retired files are
\* removed only after the manifest without them.
ManifestBacked ==
    HasManifest => \A g \in LiveGens(manifest) : SegmentReadable(g)

\* What RAM knows of the manifest is what is published, and nextGeneration_ is
\* above every file the manifest names: the next segment file overwrites none.
RamMatchesManifest ==
    Mounted => IF HasManifest
               THEN /\ ranges = manifest.ranges /\ tail = manifest.tail
                    /\ \A g \in LiveGens(manifest) : g < nextGen
               ELSE ranges = <<>> /\ tail = 0 /\ tailBytes = 0

\* A record in RAM is where RAM says it is: its segment holds its event.
ReadsBack ==
    Mounted /\ pc # "cleanup" => \A i \in DOMAIN records : LET r == records[i] IN
        /\ r.gen \in DOMAIN segs
        /\ \E k \in DOMAIN segs[r.gen].events : LET e == segs[r.gen].events[k] IN
              e.type # "pop" /\ e.seq = r.seq /\ e.val = r.val

\* usage.md, "What survives a crash": the records of a mounted store, after any
\* number of power losses, are exactly the acknowledged queue (an operation in
\* flight counts once its event is complete).
RamIsQueue == Mounted => Vals(records) = queue

\* readRecord() finds a sequence at (sequence - head): no gap may exist.
Contiguous == Mounted => \A i \in DOMAIN records : records[i].seq = records[1].seq + i - 1

\* A file the manifest names only ever grows by events at its end: no
\* generation is reused while it is live, none is truncated below its events,
\* and one is removed only by a manifest that no longer names it.
Extends(t, s) == \A k \in DOMAIN s.events : k \in DOMAIN t.events /\ t.events[k] = s.events[k]
LiveSegmentsOnlyGrow ==
    [][HasManifest => \A g \in LiveGens(manifest) :
          g \in DOMAIN segs' /\ Extends(segs'[g], segs[g])]_vars

\* Every call returns (or power fails), and an unmounted store gets mounted or
\* reports failure: no phase is a dead end.
CallsReturn == pc \in {"admit", "place", "create", "publishTail", "append", "resolve",
                       "write", "publish", "cleanup"} ~> pc \in {"idle", "down"}
MountsEnd == pc \in {"down", "replay", "truncate", "sweep"} ~> pc \in {"idle", "failed"}
=============================================================================
