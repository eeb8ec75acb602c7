----------------------------- MODULE Compaction -----------------------------
(***************************************************************************)
(* The append-log store with compaction (append_log_store/compaction.cpp).  *)
(* compactOneSegment() picks a manifest range, narrows it to the output     *)
(* budget, and compactRange() moves its live records into new segments (or  *)
(* drops the range when nothing in it is live), publishes a manifest        *)
(* without it and removes its files.  It runs from compactIdle() and from   *)
(* commitEnqueue()/rewriteRecord() under byte pressure; pressure is a free  *)
(* choice here; module Queue counts the bytes.                              *)
(***************************************************************************)
EXTENDS AppendLogStore, SequencesExt

CONSTANT MaxOutputSegments      \* config_.maxOutputSegments, 0 for no bound

ASSUME CompactionConstants == MaxOutputSegments \in Nat

-----------------------------------------------------------------------------
(* segmentStats() and the choice of a range.                                *)

RecordsIn(lo, hi) == {i \in DOMAIN records : records[i].gen \in lo .. hi}
HasLive(lo, hi)   == RecordsIn(lo, hi) # {}

LiveBytes(g)  == HeaderBytes + EnqueueBytes * Cardinality(RecordsIn(g, g))
TotalBytes(g) == IF g \in DOMAIN sealed THEN sealed[g] ELSE 0
DeadBytes(g)  == SetMax(TotalBytes(g) - LiveBytes(g), 0)

Sum(f, S)      == FoldFunctionOnSet(+, 0, f, S)
Live(lo, hi)   == Sum([g \in lo .. hi |-> LiveBytes(g)], lo .. hi)
Total(lo, hi)  == Sum([g \in lo .. hi |-> TotalBytes(g)], lo .. hi)
Dead(lo, hi)   == Sum([g \in lo .. hi |-> DeadBytes(g)], lo .. hi)

\* a/b > c/d for the dead ratios the code computes as floats.
RatioAbove(a, b, c, d) == a * d > c * b

\* chooseCompactionRange(): the first range without live records, else the first
\* with the highest ratio of dead bytes, if any byte is dead.
DeadRanges == {i \in DOMAIN ranges : ~HasLive(ranges[i].lo, ranges[i].hi)}
Candidates ==
    IF DeadRanges # {} THEN {i \in DeadRanges : \A j \in DeadRanges : i <= j}
    ELSE {i \in DOMAIN ranges : LET r == ranges[i] IN
            /\ Dead(r.lo, r.hi) > 0
            /\ \A j \in DOMAIN ranges \ {i} : LET s == ranges[j] IN
                  /\ ~RatioAbove(Dead(s.lo, s.hi), Total(s.lo, s.hi),
                                 Dead(r.lo, r.hi), Total(r.lo, r.hi))
                  /\ j < i => RatioAbove(Dead(r.lo, r.hi), Total(r.lo, r.hi),
                                         Dead(s.lo, s.hi), Total(s.lo, s.hi))}

\* narrowRange(): the whole range if its predicted output fits the budget, else
\* the first window inside it with the highest dead ratio that does.
PredictOut(bytes) == (bytes + MaxSegmentBytes - 1) \div MaxSegmentBytes
Windows(lo, hi) ==
    {w \in [lo : lo .. hi, hi : lo .. hi] :
        w.lo <= w.hi /\ PredictOut(Live(w.lo, w.hi)) <= MaxOutputSegments}
Better(v, w) ==
    LET dv == Total(v.lo, v.hi) - Live(v.lo, v.hi)
        dw == Total(w.lo, w.hi) - Live(w.lo, w.hi)
    IN  \/ RatioAbove(dv, Total(v.lo, v.hi), dw, Total(w.lo, w.hi))
        \/ /\ dv * Total(w.lo, w.hi) = dw * Total(v.lo, v.hi)
           /\ v.lo < w.lo \/ (v.lo = w.lo /\ v.hi < w.hi)
Narrowed(r) ==
    IF MaxOutputSegments = 0 \/ PredictOut(Live(r.lo, r.hi)) <= MaxOutputSegments THEN {r}
    ELSE IF PredictOut(LiveBytes(r.lo)) > MaxOutputSegments THEN {[lo |-> r.lo, hi |-> r.lo]}
    ELSE {w \in Windows(r.lo, r.hi) : \A v \in Windows(r.lo, r.hi) \ {w} : ~Better(v, w)}

-----------------------------------------------------------------------------
(* compactRange() up to its first write: the gates.                         *)

ParentOf(lo, hi) == {i \in DOMAIN ranges : ranges[i].lo <= lo /\ hi <= ranges[i].hi}
HasLeft(w, p)    == w.lo > p.lo
HasRight(w, p)   == w.hi < p.hi
Count(b)         == IF b THEN 1 ELSE 0

\* How many ranges the split of p adds (dead prefixes and suffixes add none).
SplitDelta(w, p) ==
    IF HasLive(w.lo, w.hi) THEN Count(HasLeft(w, p)) + Count(HasRight(w, p))
    ELSE Count(HasLeft(w, p) /\ HasRight(w, p))

ReachesTail(w) ==
    LET last == ranges[Len(ranges)].hi IN
    w.hi = last /\ tailBytes > HeaderBytes /\ last + 1 = tail
TailDepsContained(w) == \A g \in deps : w.lo <= g /\ g <= tail
WouldRotate(w) == ReachesTail(w) /\ TailDepsContained(w)

PerSegment   == (MaxSegmentBytes - HeaderBytes) \div EnqueueBytes
OutputSegs(n) == (n + PerSegment - 1) \div PerSegment
InputBytes(lo, hi) ==
    Sum([g \in lo .. hi |-> IF g = tail THEN tailBytes ELSE TotalBytes(g)], lo .. hi)
WouldShrink(lo, hi) ==
    LET n == Cardinality(RecordsIn(lo, hi)) IN
    n > 0 => \/ OutputSegs(n) < hi - lo + 1
             \/ /\ OutputSegs(n) = hi - lo + 1
                /\ OutputSegs(n) * HeaderBytes + n * EnqueueBytes < InputBytes(lo, hi)

\* The input range after the two range-count gates ({} = NoOp), where "fallback"
\* is AllowFullRangeFallback::yes.
Gated(w, p, fallback) ==
    IF Len(ranges) + SplitDelta(w, p) > MaxRanges THEN (IF fallback THEN {p} ELSE {})
    ELSE IF /\ WouldRotate(w) /\ HasLive(w.lo, tail) /\ HasLeft(w, p)
            /\ Len(ranges) + 1 > MaxRanges
         THEN (IF fallback THEN {p} ELSE {})
    ELSE {w}
-----------------------------------------------------------------------------
(* compactRange() from its first write to its last.                         *)

\* The records in S, each after those that come before it.
InOrder(S, Before(_, _)) ==
    [k \in 1 .. Cardinality(S) |->
        records[CHOOSE i \in S : Cardinality({j \in S : Before(j, i)}) = k - 1]]

BySequence(i, j) == \/ records[i].seq < records[j].seq
                    \/ records[i].seq = records[j].seq /\ i < j
ByFile(i, j)     == \/ records[i].gen < records[j].gen
                    \/ records[i].gen = records[j].gen /\ i < j

\* Variant: the live records as they are read, file by file.
LiveRecordsByFile(lo, hi) == InOrder(RecordsIn(lo, hi), ByFile)
\* collectLiveRecords(): the live records of the input range, by sequence.
LiveRecords(lo, hi) == InOrder(RecordsIn(lo, hi), BySequence)

\* Variant: the manifest is not published before the inputs are removed.
ResolveUnpublished(lo, hi) ==
    LET n == Cardinality(RecordsIn(lo, hi)) IN
    /\ plan' = [lo |-> lo, hi |-> hi, first |-> nextGen,
                outs |-> OutputSegs(n), done |-> 0]
    /\ pc' = IF n = 0 THEN "cleanup" ELSE "write"

\* Re-derive the parent and lay out the output; the dead range has none.
Resolve(lo, hi) ==
    LET n == Cardinality(RecordsIn(lo, hi)) IN
    /\ plan' = [lo |-> lo, hi |-> hi, first |-> nextGen,
                outs |-> OutputSegs(n), done |-> 0]
    /\ pc' = IF n = 0 THEN "publish" ELSE "write"

\* Where compactRange(w) ends once a rotation has sealed the tail.
EndOf(in) == IF WouldRotate(in) THEN tail ELSE in.hi

\* The range compactRange(w) works on: at most one, none when it is a NoOp.
InputOf(w, fallback) ==
    {in \in UNION {Gated(w, ranges[i], fallback) : i \in ParentOf(w.lo, w.hi)} :
        WouldShrink(in.lo, EndOf(in))}

\* compactOneSegment(): the range it compacts next, none when it is a NoOp.
NextInput(fallback) ==
    UNION {InputOf(w, fallback) : w \in UNION {Narrowed(ranges[i]) : i \in Candidates}}

\* compactRange() up to its first file operation.
BeginCompaction(in) ==
    IF WouldRotate(in) /\ HasLive(in.lo, EndOf(in))
    THEN /\ plan' = [NoPlan EXCEPT !.lo = in.lo, !.hi = in.hi]
         /\ pc' = "create" /\ SealTailSize
    ELSE Resolve(in.lo, in.hi) /\ UNCHANGED sealed

RamButSealed == <<records, ranges, tail, tailBytes, nextGen, nextSeq, deps>>

\* One step of compactIdle(); several steps are several calls.
CompactIdle ==
    /\ MayStart("compact")
    /\ \E in \in NextInput(TRUE) : BeginCompaction(in)
    /\ UNCHANGED <<disk, RamButSealed, call, scan, queue, issued, failures>>

\* Queue::enqueue under DropOldest: drop the first segment if it is dead.
ReclaimDeadFrontSegment ==
    /\ MayStart("compact") /\ ranges # <<>>
    /\ ~HasLive(ranges[1].lo, ranges[1].lo)
    /\ \E in \in InputOf([lo |-> ranges[1].lo, hi |-> ranges[1].lo], FALSE) :
          BeginCompaction(in)
    /\ UNCHANGED <<disk, RamButSealed, call, scan, queue, issued, failures>>

\* The admission loop: over budget, compact and look again, or give up.
CompactForAdmission ==
    /\ pc = "admit"
    /\ \E in \in NextInput(FALSE) : BeginCompaction(in)
    /\ UNCHANGED <<disk, RamButSealed, call, scan, queue, issued, failures>>

QueueFull ==
    /\ pc = "admit"
    /\ NextInput(FALSE) = {}
    /\ pc' = "idle" /\ call' = Idle
    /\ UNCHANGED <<disk, ram, scan, plan, queue, issued, failures>>

\* After the rotation the input range reaches to the end of its parent.
ResolveAfterRotation ==
    /\ pc = "resolve"
    /\ \E i \in ParentOf(plan.lo, plan.hi) : Resolve(plan.lo, ranges[i].hi)
    /\ UNCHANGED <<disk, ram, call, scan, queue, issued, failures>>

AsEvent(r) == [type |-> "enq", seq |-> r.seq, val |-> r.val]
OutputSegment(k) ==
    LET live   == LiveRecords(plan.lo, plan.hi)
        chunk  == SubSeq(live, k * PerSegment + 1,
                         IF k = plan.outs - 1 THEN Len(live) ELSE (k + 1) * PerSegment)
    IN  [hdr |-> TRUE, events |-> [j \in DOMAIN chunk |-> AsEvent(chunk[j])],
         size |-> HeaderBytes + Len(chunk) * EnqueueBytes]

WriteOutput ==
    /\ pc = "write"
    /\ LET g == plan.first + plan.done
           s == OutputSegment(plan.done)
       IN  /\ segs' = WithSegment(segs, g, s)
           /\ sealed' = [h \in DOMAIN sealed \cup {g} |-> IF h = g THEN s.size ELSE sealed[h]]
    /\ plan' = [plan EXCEPT !.done = @ + 1]
    /\ pc' = IF plan.done + 1 = plan.outs THEN "publish" ELSE "write"
    /\ UNCHANGED <<manifest, RamButSealed, call, scan, queue, issued, failures>>

\* The manifest with the input range replaced by its output: what is left of the
\* parent on both sides stays, and the output merges with contiguous neighbours.
\* Variant: the empty rest of a parent range is kept.
SpanOrEmpty(lo, hi) == <<[lo |-> lo, hi |-> hi]>>
Span(lo, hi) == IF lo <= hi THEN <<[lo |-> lo, hi |-> hi]>> ELSE <<>>
Joined(rs, ss) ==
    IF rs # <<>> /\ ss # <<>> /\ rs[Len(rs)].hi + 1 = ss[1].lo
    THEN SubSeq(rs, 1, Len(rs) - 1) \o <<[lo |-> rs[Len(rs)].lo, hi |-> ss[1].hi]>> \o Tail(ss)
    ELSE rs \o ss
\* Variant: a dead range stays in the manifest.
SplicedKeepingDead ==
    LET i == CHOOSE k \in ParentOf(plan.lo, plan.hi) : TRUE IN
    IF plan.outs = 0 THEN ranges
    ELSE SubSeq(ranges, 1, i - 1) \o Span(ranges[i].lo, plan.lo - 1)
         \o Span(plan.first, plan.first + plan.outs - 1)
         \o Span(plan.hi + 1, ranges[i].hi) \o SubSeq(ranges, i + 1, Len(ranges))
Spliced ==
    LET i      == CHOOSE k \in ParentOf(plan.lo, plan.hi) : TRUE
        before == SubSeq(ranges, 1, i - 1) \o Span(ranges[i].lo, plan.lo - 1)
        after  == Span(plan.hi + 1, ranges[i].hi) \o SubSeq(ranges, i + 1, Len(ranges))
        output == Span(plan.first, plan.first + plan.outs - 1)
    IN  IF plan.outs = 0 THEN before \o after ELSE Joined(before, Joined(output, after))

\* Variant: the generations of the output are not reserved.
PublishWithoutReserving ==
    /\ pc = "publish"
    /\ Publish([ranges |-> Spliced, tail |-> tail, next |-> nextGen])
    /\ plan' = [plan EXCEPT !.done = 0]
    /\ pc' = "cleanup"
    /\ UNCHANGED <<segs, records, tail, tailBytes, nextSeq, sealed, deps, call, scan,
                   queue, issued, failures>>

PublishCompaction ==
    /\ pc = "publish"
    /\ Publish([ranges |-> Spliced, tail |-> tail, next |-> nextGen + plan.outs])
    /\ plan' = [plan EXCEPT !.done = 0]
    /\ pc' = "cleanup"
    /\ UNCHANGED <<segs, records, tail, tailBytes, nextSeq, sealed, deps, call, scan,
                   queue, issued, failures>>

\* Variant: records_ keep pointing into the inputs.
NotRelocated == records

\* records_ point at the copies once the inputs are gone.
Relocated ==
    LET live == LiveRecords(plan.lo, plan.hi) IN
    [i \in DOMAIN records |->
        IF records[i].gen \notin plan.lo .. plan.hi THEN records[i]
        ELSE LET j == FirstAt(live, records[i].seq)
             IN  [live[j] EXCEPT !.gen = plan.first + (j - 1) \div PerSegment]]

\* cleanupInputSegments(), one removeFile a step; a failed one is skipped.
CleanupInput ==
    /\ pc = "cleanup"
    /\ LET g == plan.lo + plan.done IN
       \/ /\ segs' = Without(segs, g)
          /\ sealed' = [h \in DOMAIN sealed \ {g} |-> sealed[h]]
       \/ "remove" \in Faults /\ UNCHANGED <<segs, sealed>>
    /\ IF plan.lo + plan.done < plan.hi
       THEN /\ plan' = [plan EXCEPT !.done = @ + 1]
            /\ UNCHANGED <<pc, records, deps>>
       ELSE /\ plan' = NoPlan
            /\ pc' = IF call = Idle THEN "idle" ELSE "admit"
            /\ records' = Relocated
            /\ deps' = deps \ (plan.lo .. plan.hi)
    /\ UNCHANGED <<manifest, ranges, tail, tailBytes, nextGen, nextSeq, call, scan,
                   queue, issued, failures>>

-----------------------------------------------------------------------------
Compacting == \/ CompactForAdmission \/ ResolveAfterRotation
              \/ WriteOutput \/ PublishCompaction \/ CleanupInput

CNext == Next \/ CompactIdle \/ ReclaimDeadFrontSegment \/ QueueFull \/ Compacting
CSpec == Init /\ [][CNext]_vars
-----------------------------------------------------------------------------
\* Whatever compaction did before a power loss, mount() rebuilds the acknowledged
\* queue, complete and in order, behind whatever it brings back.
QueueSurvives == Mounted => IsSuffix(queue, Vals(records))

\* Replay in manifest order yields the records in sequence order, however often
\* the segments were rewritten, split and merged: records_ needs no sort.
Ordered == Mounted => \A i, j \in DOMAIN records : i < j => records[i].seq < records[j].seq
=============================================================================
