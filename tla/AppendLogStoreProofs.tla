------------------------ MODULE AppendLogStoreProofs ------------------------
(***************************************************************************)
(* Proofs about AppendLogStore: its types, that every file the published    *)
(* manifest names is readable at every instant, that such a file only ever   *)
(* grows, and that the records of a mounted store are the queue, in order    *)
(* and without a gap.                                                       *)
(***************************************************************************)
EXTENDS AppendLogStore, NaturalLemmas, SequenceTheorems

-----------------------------------------------------------------------------
(* The inductive invariant: what each phase relies on.                      *)

\* A compaction in progress writes its output from the next generation on.
OutputFacts == pc = "write" => plan.first = nextGen

\* The call in progress names what it works on.
CallFacts ==
    /\ pc \in {"down", "failed", "replay", "truncate", "sweep", "idle"} => call = Idle
    /\ call.op \in {"enqueue", "rewrite"} => call.val # 0
    /\ call.op = "pop" => records # <<>>
    /\ call.op = "rewrite" => call.seq \in SeqsOf(records)

\* The scan follows the published manifest; its last segment is the tail.
ReplayFacts ==
    pc = "replay" => /\ HasManifest /\ ranges = manifest.ranges
                     /\ scan.r > Len(ranges) => scan.gen = manifest.tail
                     /\ tailBytes >= HeaderBytes

\* From its first step on the scan knows the manifest, and from its end on RAM
\* agrees with it.
Scanned == pc \in {"truncate", "sweep"} \/ Mounted
RamFacts ==
    /\ (pc = "replay" \/ Scanned) /\ HasManifest => ranges = manifest.ranges
    /\ Scanned /\ HasManifest => tail = manifest.tail /\ tailBytes >= HeaderBytes
    /\ Scanned /\ ~HasManifest => tailBytes = 0
    /\ ~HasManifest => ranges = <<>> /\ tail = 0

\* The next generation is above every one the manifest names.
FreshFacts ==
    (pc = "replay" \/ Scanned) /\ HasManifest => \A g \in LiveGens(manifest) : g < nextGen

\* The file about to be published as the tail is complete.
NewTailReadable == pc = "publishTail" => SegmentReadable(nextGen)

\* Truncation and appends work on the published tail.
TailFacts ==
    /\ pc \in {"truncate", "append"} => HasManifest
    /\ pc = "truncate" => tail \in DOMAIN segs

TypeInv == TypeOK /\ OutputFacts /\ CallFacts /\ ReplayFacts /\ RamFacts /\ TailFacts

-----------------------------------------------------------------------------
(* The operators of the scan.                                               *)

\* nextGeneration_ as mount() computes it is above every file on disk.
LEMMA AdvancePastIsFresh ==
    ASSUME IsFiniteSet(DOMAIN segs), DOMAIN segs \subseteq Gen, NEW n \in Gen
    PROVE  /\ AdvancePast(n) \in Gen /\ n <= AdvancePast(n)
           /\ \A g \in DOMAIN segs : g < AdvancePast(n)
<1>1. \E k \in {n} \cup {g + 1 : g \in DOMAIN segs} :
          k >= n /\ \A g \in DOMAIN segs : k > g
      BY LeastAbove DEF Gen
<1>. QED BY <1>1 DEF AdvancePast, Gen

\* The loop of scanSegments() and appendRewriteEvent() that looks for a sequence
\* finds a record that has it, when there is one.
LEMMA FirstAtFinds ==
    ASSUME NEW rs \in Seq(Record), NEW q \in SeqsOf(rs)
    PROVE  FirstAt(rs, q) \in DOMAIN rs /\ rs[FirstAt(rs, q)].seq = q
<1>. DEFINE At == {i \in DOMAIN rs : rs[i].seq = q}
<1>1. DOMAIN rs = 1 .. Len(rs) /\ Len(rs) \in Nat
      BY LenProperties
<1>2. At # {} /\ At \in SUBSET Nat
      BY <1>1 DEF SeqsOf
<1>3. PICK i \in At : \A j \in At : i <= j
      BY <1>2, LeastNatural
<1>4. \A j \in 1 .. i - 1 : rs[j].seq # q
      BY <1>1, <1>3
<1>. QED BY <1>3, <1>4 DEF FirstAt

\* Likewise the place of an orphaned REWRITE exists.
LEMMA BelowInBounds ==
    ASSUME NEW rs \in Seq(Record), NEW q \in Nat
    PROVE  Below(rs, q) \in 0 .. Len(rs)
<1>. DEFINE NotBelow == {i \in 1 .. Len(rs) : rs[i].seq >= q}
<1>1. \A i \in 1 .. Len(rs) : rs[i].seq \in Nat
  <2>1. \A i \in 1 .. Len(rs) : rs[i] \in Record
        OBVIOUS
  <2>. QED BY <2>1 DEF Record
<1>2. Len(rs) \in Nat
      OBVIOUS
<1>3. \E n \in 0 .. Len(rs) : /\ \A i \in 1 .. n : rs[i].seq < q
                              /\ n < Len(rs) => rs[n + 1].seq >= q
  <2>1. CASE NotBelow = {}
        BY <1>1, <1>2, <2>1
  <2>2. CASE NotBelow # {}
    <3>1. PICK i \in NotBelow : \A j \in NotBelow : i <= j
          BY <1>2, <2>2, LeastNatural, NotBelow \in SUBSET Nat
    <3>2. i - 1 \in 0 .. Len(rs) /\ (i - 1) + 1 = i
          BY <1>2, <3>1
    <3>3. \A j \in 1 .. i - 1 : rs[j].seq < q
          BY <1>1, <1>2, <3>1
    <3>. QED BY <3>1, <3>2, <3>3
  <2>. QED BY <2>1, <2>2
<1>. QED BY <1>3 DEF Below

\* An orphaned REWRITE is added to the records, whatever they are.
LEMMA InsertedType ==
    ASSUME NEW rs \in Seq(Record), NEW r \in Record
    PROVE  Inserted(rs, r) \in Seq(Record)
<1>. DEFINE n == Below(rs, r.seq)
<1>1. n \in 0 .. Len(rs)
      BY BelowInBounds DEF Record
<1>2. SubSeq(rs, 1, n) \in Seq(Record) /\ SubSeq(rs, n + 1, Len(rs)) \in Seq(Record)
      BY <1>1, SubSeqProperties
<1>3. <<r>> \in Seq(Record)
      OBVIOUS
<1>. QED BY <1>2, <1>3, ConcatProperties DEF Inserted

-----------------------------------------------------------------------------
(* The types, and the facts of the phases, are an inductive invariant.      *)

LEMMA TypeInit == Init => TypeInv
<1>. SUFFICES ASSUME Init PROVE TypeInv
     OBVIOUS
<1>1. TypeOK
      BY StoreConstants, FS_EmptySet
      DEF Init, Unmounted, TypeOK, SegmentFiles, Idle, NoPlan, NoManifest, Phases, Gen
<1>2. OutputFacts /\ CallFacts /\ ReplayFacts /\ RamFacts /\ TailFacts
      BY DEF Init, Unmounted, OutputFacts, CallFacts, ReplayFacts, RamFacts, TailFacts,
             Scanned, Mounted, HasManifest, Idle
<1>. QED BY <1>1, <1>2 DEF TypeInv

LEMMA MountBeginKeeps == TypeInv /\ MountBegin => TypeInv'
<1>. SUFFICES ASSUME TypeInv, MountBegin PROVE TypeInv'
     OBVIOUS
<1>. USE DEF TypeInv
<1>1. UNCHANGED <<segs, manifest, call, plan, queue, issued, failures>> /\ call = Idle
      BY DEF MountBegin, disk, CallFacts
<1>2. OutputFacts' /\ CallFacts'
      BY <1>1 DEF MountBegin, OutputFacts, CallFacts, Idle
<1>3. CASE HasManifest
  <2>1. manifest \in Manifest
        BY <1>3 DEF TypeOK, HasManifest
  <2>2. nextGen' \in Gen
        BY <1>3, <2>1, AdvancePastIsFresh DEF MountBegin, TypeOK, SegmentFiles, Manifest
  <2>3. scan' \in [r : Nat \ {0}, gen : Nat, ev : Nat \ {0}]
    <3>1. manifest.ranges \in Seq(ManifestRange) /\ manifest.tail \in Nat
          BY <2>1 DEF Manifest, Gen
    <3>2. manifest.ranges # <<>> => manifest.ranges[1] \in ManifestRange
          BY <3>1
    <3>. QED BY <1>3, <3>1, <3>2 DEF MountBegin, StartScan, ManifestRange, Gen
  <2>4. TypeOK'
        BY <1>1, <1>3, <2>1, <2>2, <2>3, StoreConstants
        DEF MountBegin, TypeOK, Manifest, Phases, Gen
  <2>5. ReplayFacts' /\ RamFacts' /\ TailFacts'
        BY <1>1, <1>3, <2>1, StoreConstants
        DEF MountBegin, HasManifest, ReplayFacts, RamFacts, TailFacts, Scanned,
            Mounted, StartScan, Manifest, ManifestRange
  <2>. QED BY <1>2, <2>4, <2>5
<1>4. CASE ~HasManifest
  <2>1. TypeOK'
        BY <1>1, <1>4 DEF MountBegin, TypeOK, Phases, Gen
  <2>2. ReplayFacts' /\ RamFacts' /\ TailFacts'
        BY <1>1, <1>4
        DEF MountBegin, HasManifest, ReplayFacts, RamFacts, TailFacts, Scanned, Mounted
  <2>. QED BY <1>2, <2>1, <2>2
<1>. QED BY <1>3, <1>4

\* Replaying one event: the records found so far stay records.
LEMMA ReplayEventKeeps == TypeInv /\ ReplayEvent => TypeInv'
<1>. SUFFICES ASSUME TypeInv, ReplayEvent PROVE TypeInv'
     OBVIOUS
<1>. USE DEF TypeInv
<1>. DEFINE e == segs[scan.gen].events[scan.ev]
<1>1. /\ UNCHANGED <<segs, manifest, ranges, tail, nextGen, sealed, pc, call, plan,
                      queue, issued, failures>>
      /\ call = Idle /\ pc = "replay" /\ HasManifest
      BY DEF ReplayEvent, disk, CallFacts, ReplayFacts
<1>2. scan.gen \in Gen /\ e \in Event
  <2>1. scan.gen \in DOMAIN segs /\ segs[scan.gen].events \in Seq(Event)
        BY DEF ReplayEvent, SegmentReadable, TypeOK, SegmentFiles, Segment
  <2>2. scan.ev \in 1 .. Len(segs[scan.gen].events)
        BY DEF ReplayEvent, TypeOK
  <2>. QED BY <2>1, <2>2 DEF TypeOK, SegmentFiles
<1>3. e.seq \in Nat /\ BytesOf(e) \in Nat
      BY <1>2, StoreConstants DEF Event, BytesOf
<1>4. records' \in Seq(Record) /\ deps' \subseteq Gen
  <2>1. e.type \in {"enq", "rew"} => Located(e) \in Record
        BY <1>2 DEF Located, Record, Event
  <2>2. records \in Seq(Record) /\ deps \subseteq Gen
        BY DEF TypeOK
  <2>3. \A r \in Record : r.gen \in Gen
        BY DEF Record
  <2>4. CASE e.type = "enq" /\ records' = Append(records, Located(e)) /\ UNCHANGED deps
        BY <2>1, <2>2, <2>4
  <2>5. CASE /\ e.type = "rew" /\ e.seq \in SeqsOf(records)
             /\ LET i == FirstAt(records, e.seq)
                IN  /\ records' = [records EXCEPT ![i] = Located(e)]
                    /\ TailTouches(records[i].gen)
        BY <2>1, <2>2, <2>3, <2>5, FirstAtFinds DEF TailTouches
  <2>6. CASE /\ e.type = "rew" /\ records' = Inserted(records, Located(e))
             /\ UNCHANGED deps
        BY <2>1, <2>2, <2>6, InsertedType
  <2>7. CASE /\ IsFront(e) /\ records' = Tail(records)
             /\ TailTouches(Head(records).gen)
        BY <2>2, <2>3, <2>7 DEF IsFront, TailTouches
  <2>8. CASE UNCHANGED <<records, deps>>
        BY <2>2, <2>8
  <2>. QED BY <2>4, <2>5, <2>6, <2>7, <2>8 DEF ReplayEvent
<1>5. /\ nextSeq' \in Nat /\ tailBytes' \in Nat /\ tailBytes' >= tailBytes
      /\ scan' \in [r : Nat \ {0}, gen : Nat, ev : Nat \ {0}]
      /\ scan'.r = scan.r /\ scan'.gen = scan.gen
  <2>1. /\ nextSeq' = SetMax(nextSeq, e.seq + 1) /\ tailBytes' = tailBytes + BytesOf(e)
        /\ scan' = [scan EXCEPT !.ev = @ + 1]
        BY DEF ReplayEvent
  <2>2. nextSeq' \in Nat /\ tailBytes' \in Nat /\ tailBytes' >= tailBytes
    <3>1. nextSeq \in Nat /\ tailBytes \in Nat
          BY DEF TypeOK
    <3>. HIDE DEF e
    <3>. QED BY <1>3, <2>1, <3>1 DEF SetMax
  <2>3. scan \in [r : Nat \ {0}, gen : Nat, ev : Nat \ {0}]
        BY DEF TypeOK
  <2>4. /\ scan' \in [r : Nat \ {0}, gen : Nat, ev : Nat \ {0}]
        /\ scan'.r = scan.r /\ scan'.gen = scan.gen
        BY <2>1, <2>3
  <2>. QED BY <2>2, <2>4
<1>6. TypeOK'
      BY <1>1, <1>4, <1>5 DEF TypeOK
<1>7. OutputFacts' /\ CallFacts' /\ TailFacts'
      BY <1>1 DEF OutputFacts, CallFacts, TailFacts, HasManifest, Idle
<1>8. ReplayFacts' /\ RamFacts'
      BY <1>1, <1>5, StoreConstants
      DEF ReplayFacts, RamFacts, HasManifest, Scanned, Mounted, TypeOK
<1>. QED BY <1>6, <1>7, <1>8

\* The other steps of the scan move the cursor or give up.
LEMMA ScanStepKeeps ==
    TypeInv /\ (ReplayUnreadable \/ ReplayTornSealed \/ ReplayNextSegment \/ ReplayDone)
        => TypeInv'
<1>. SUFFICES ASSUME TypeInv,
                     ReplayUnreadable \/ ReplayTornSealed \/ ReplayNextSegment \/ ReplayDone
              PROVE  TypeInv'
     OBVIOUS
<1>. USE DEF TypeInv
<1>1. pc = "replay" /\ HasManifest /\ call = Idle
      BY DEF ReplayUnreadable, ReplayTornSealed, ReplayNextSegment, ReplayDone, AtSegmentEnd,
             ReplayFacts, CallFacts
<1>2. CASE ReplayUnreadable \/ ReplayTornSealed
  <2>1. /\ UNCHANGED <<segs, manifest, records, ranges, tailBytes, nextGen, nextSeq, sealed,
                       deps, call, scan, plan, queue, issued, failures>>
        /\ pc' = "failed" /\ tail' \in {tail, scan.gen}
        BY <1>2 DEF ReplayUnreadable, ReplayTornSealed, FailMount, disk, ram
  <2>2. TypeOK'
        BY <2>1 DEF TypeOK, Phases
  <2>3. OutputFacts' /\ CallFacts' /\ ReplayFacts' /\ RamFacts' /\ TailFacts'
        BY <1>1, <2>1 DEF OutputFacts, CallFacts, ReplayFacts, RamFacts, TailFacts,
                          HasManifest, Scanned, Mounted, Idle
  <2>. QED BY <2>2, <2>3
<1>3. CASE ReplayNextSegment
  <2>1. /\ UNCHANGED <<segs, manifest, records, ranges, nextGen, nextSeq, sealed, deps, pc,
                       call, plan, queue, issued, failures>>
        /\ tail' = scan.gen /\ tailBytes' = HeaderBytes /\ scan.r <= Len(ranges)
        BY <1>3 DEF ReplayNextSegment, OnLastSegment, disk, TypeOK
  <2>2. /\ scan' \in [r : Nat \ {0}, gen : Nat, ev : Nat \ {0}]
        /\ scan'.r > Len(ranges) => scan'.gen = manifest.tail
    <3>1. /\ scan \in [r : Nat \ {0}, gen : Nat, ev : Nat \ {0}]
          /\ Len(ranges) \in Nat
          /\ \A i \in 1 .. Len(ranges) : ranges[i].lo \in Nat
      <4>1. ranges \in Seq(ManifestRange) /\ scan \in [r : Nat \ {0}, gen : Nat, ev : Nat \ {0}]
            BY DEF TypeOK
      <4>2. \A i \in 1 .. Len(ranges) : ranges[i] \in ManifestRange
            BY <4>1
      <4>3. \A i \in 1 .. Len(ranges) : ranges[i].lo \in Nat
            BY <4>2 DEF ManifestRange, Gen
      <4>. QED BY <4>1, <4>3
    <3>2. manifest.tail \in Nat
          BY <1>1 DEF TypeOK, HasManifest, Manifest, Gen
    <3>3. CASE scan.gen < ranges[scan.r].hi
      <4>1. scan' = [r |-> scan.r, ev |-> 1, gen |-> scan.gen + 1]
            BY <1>3, <3>3 DEF ReplayNextSegment
      <4>. QED BY <2>1, <3>1, <4>1
    <3>4. CASE ~(scan.gen < ranges[scan.r].hi)
      <4>1. scan' = [r |-> scan.r + 1, ev |-> 1,
                     gen |-> IF scan.r < Len(ranges) THEN ranges[scan.r + 1].lo
                             ELSE manifest.tail]
            BY <1>3, <3>4 DEF ReplayNextSegment
      <4>2. scan.r < Len(ranges) => ranges[scan.r + 1].lo \in Nat
            BY <3>1
      <4>3. scan.r \in Nat \ {0}
            BY <3>1
      <4>. QED BY <2>1, <3>1, <3>2, <4>1, <4>2, <4>3
    <3>. QED BY <3>3, <3>4
  <2>3. TypeOK'
        BY <2>1, <2>2, StoreConstants DEF TypeOK
  <2>4. OutputFacts' /\ CallFacts' /\ ReplayFacts' /\ RamFacts' /\ TailFacts'
        BY <1>1, <2>1, <2>2, StoreConstants
        DEF OutputFacts, CallFacts, ReplayFacts, RamFacts, TailFacts, HasManifest,
            Scanned, Mounted, Idle
  <2>. QED BY <2>3, <2>4
<1>4. CASE ReplayDone
  <2>1. /\ UNCHANGED <<segs, manifest, records, ranges, tailBytes, nextGen, nextSeq, sealed,
                       deps, call, scan, plan, queue, issued, failures>>
        /\ pc' \in {"truncate", "sweep"} /\ tail' = scan.gen /\ scan.gen = manifest.tail
        /\ scan.gen \in DOMAIN segs
        BY <1>4 DEF ReplayDone, AtSegmentEnd, SegmentReadable, OnLastSegment, ReplayFacts, disk
  <2>2. TypeOK'
        BY <2>1 DEF TypeOK, Phases
  <2>3. OutputFacts' /\ CallFacts' /\ ReplayFacts' /\ RamFacts' /\ TailFacts'
        BY <1>1, <2>1 DEF OutputFacts, CallFacts, ReplayFacts, RamFacts, TailFacts,
                          HasManifest, Scanned, Mounted, Idle
  <2>. QED BY <2>2, <2>3
<1>. QED BY <1>2, <1>3, <1>4

\* Files added, replaced or removed leave well-formed files.
LEMMA WithSegmentType ==
    ASSUME NEW ss, SegmentFiles(ss), NEW g \in Gen, NEW s \in Segment
    PROVE  SegmentFiles(WithSegment(ss, g, s))
BY FS_AddElement DEF SegmentFiles, WithSegment

LEMMA WithoutType ==
    ASSUME NEW ss, SegmentFiles(ss), NEW g
    PROVE  SegmentFiles(Without(ss, g))
BY FS_RemoveElement DEF SegmentFiles, Without

LEMMA EndOfMountKeeps == TypeInv /\ (TruncateTail \/ MountDone) => TypeInv'
<1>. SUFFICES ASSUME TypeInv, TruncateTail \/ MountDone PROVE TypeInv'
     OBVIOUS
<1>. USE DEF TypeInv
<1>1. call = Idle
      BY DEF TruncateTail, MountDone, CallFacts
<1>2. CASE TruncateTail
  <2>1. /\ UNCHANGED <<manifest, records, ranges, tail, tailBytes, nextGen, nextSeq, sealed,
                       deps, call, scan, plan, queue, issued, failures>>
        /\ pc = "truncate" /\ pc' = "sweep" /\ HasManifest
        BY <1>2 DEF TruncateTail, ram, TailFacts
  <2>2. tail \in Gen /\ tailBytes \in Nat
        BY <2>1 DEF RamFacts, Scanned, TypeOK, Manifest, HasManifest
  <2>3. SegmentFiles(segs')
    <3>1. SegmentFiles(segs) /\ segs[tail] \in Segment /\ tail \in DOMAIN segs
          BY <2>1 DEF TypeOK, SegmentFiles, TailFacts
    <3>2. /\ [segs[tail] EXCEPT !.size = tailBytes] \in Segment
          /\ [hdr |-> FALSE, events |-> <<>>, size |-> tailBytes] \in Segment
          BY <2>2, <3>1 DEF Segment
    <3>. QED BY <1>2, <2>2, <3>1, <3>2, WithSegmentType DEF TruncateTail, Shrunk
  <2>4. TypeOK'
        BY <2>1, <2>3 DEF TypeOK, Phases
  <2>5. OutputFacts' /\ CallFacts' /\ ReplayFacts' /\ RamFacts' /\ TailFacts'
        BY <1>1, <2>1 DEF OutputFacts, CallFacts, ReplayFacts, RamFacts, TailFacts,
                          HasManifest, Scanned, Mounted, Idle
  <2>. QED BY <2>4, <2>5
<1>3. CASE MountDone
  <2>1. /\ UNCHANGED <<manifest, records, ranges, tail, tailBytes, nextGen, nextSeq, deps,
                       call, scan, plan, queue, issued, failures>>
        /\ pc = "sweep" /\ pc' = "idle"
        /\ sealed' = [g \in DOMAIN segs' |-> segs[g].size]
        BY <1>3 DEF MountDone
  <2>2. SegmentFiles(segs) /\ SegmentFiles(segs') /\ DOMAIN segs' \subseteq DOMAIN segs
    <3>1. SegmentFiles(segs) /\ \A g : DOMAIN Without(segs, g) \subseteq DOMAIN segs
          BY DEF TypeOK, Without
    <3>2. UNCHANGED segs \/ \E g \in Dangling : segs' = Without(segs, g)
          BY <1>3 DEF MountDone
    <3>. QED BY <3>1, <3>2, WithoutType
  <2>3. /\ DOMAIN sealed' \subseteq Nat
        /\ \A g \in DOMAIN sealed' : sealed'[g] \in Nat
        BY <2>1, <2>2 DEF SegmentFiles, Gen, Segment
  <2>4. TypeOK'
        BY <2>1, <2>2, <2>3 DEF TypeOK, Phases
  <2>5. OutputFacts' /\ CallFacts' /\ ReplayFacts' /\ RamFacts' /\ TailFacts'
        BY <1>1, <2>1 DEF OutputFacts, CallFacts, ReplayFacts, RamFacts, TailFacts,
                          HasManifest, Scanned, Mounted, Idle
  <2>. QED BY <2>4, <2>5
<1>. QED BY <1>2, <1>3

\* The starts of the calls, and the two steps that decide where to go on.
LEMMA CallStartKeeps ==
    TypeInv /\ (CommitEnqueue \/ RewriteRecord \/ CommitPop \/ Admit) => TypeInv'
<1>. SUFFICES ASSUME TypeInv, CommitEnqueue \/ RewriteRecord \/ CommitPop \/ Admit
              PROVE  TypeInv'
     OBVIOUS
<1>. USE DEF TypeInv
<1>1. /\ UNCHANGED <<segs, manifest, records, ranges, tail, tailBytes, nextGen, nextSeq, sealed,
                     deps, scan, plan, queue, failures>>
      /\ pc \in {"idle", "admit"} /\ pc' \in {"admit", "place"}
      BY DEF CommitEnqueue, RewriteRecord, CommitPop, Admit, MayStart, disk, ram
<1>2. /\ call' \in [op : {"none", "enqueue", "pop", "rewrite"}, seq : Nat, val : 0 .. MaxValues]
      /\ issued' \in 0 .. MaxValues
      /\ CallFacts'
  <2>1. /\ records \in Seq(Record) /\ nextSeq \in Nat /\ issued \in 0 .. MaxValues
        /\ MaxValues \in Nat
        /\ call \in [op : {"none", "enqueue", "pop", "rewrite"}, seq : Nat, val : 0 .. MaxValues]
        BY StoreConstants DEF TypeOK
  <2>2. \A i \in DOMAIN records : records[i].seq \in Nat
    <3>1. \A i \in DOMAIN records : records[i] \in Record
          BY <2>1
    <3>. QED BY <3>1 DEF Record
  <2>3. CASE CommitEnqueue
    <3>1. IndexTail \in Nat
      <4>1. CASE records = <<>>
            BY <2>1, <4>1 DEF IndexTail
      <4>2. CASE records # <<>>
        <5>1. Len(records) \in DOMAIN records
              BY <2>1, <4>2
        <5>. QED BY <2>2, <4>2, <5>1 DEF IndexTail
      <4>. QED BY <4>1, <4>2
    <3>2. /\ call' = [op |-> "enqueue", seq |-> IndexTail, val |-> issued + 1]
          /\ issued' = issued + 1 /\ issued < MaxValues
          BY <2>3 DEF CommitEnqueue
    <3>. QED BY <1>1, <2>1, <3>1, <3>2 DEF CallFacts
  <2>4. CASE RewriteRecord
    <3>1. PICK q \in SeqsOf(records) :
              call' = [op |-> "rewrite", seq |-> q, val |-> issued + 1]
          BY <2>4 DEF RewriteRecord
    <3>2. q \in Nat
          BY <2>2 DEF SeqsOf
    <3>3. issued' = issued + 1 /\ issued < MaxValues
          BY <2>4 DEF RewriteRecord
    <3>. QED BY <1>1, <2>1, <3>1, <3>2, <3>3 DEF CallFacts, SeqsOf
  <2>5. CASE CommitPop
    <3>1. 1 \in DOMAIN records /\ Head(records) = records[1]
          BY <2>1, <2>5 DEF CommitPop
    <3>2. call' = [op |-> "pop", seq |-> records[1].seq, val |-> 0]
          BY <2>5, <3>1 DEF CommitPop
    <3>. QED BY <1>1, <2>1, <2>2, <2>5, <3>1, <3>2 DEF CommitPop, CallFacts
  <2>6. CASE Admit
        BY <1>1, <2>1, <2>6 DEF Admit, CallFacts, SeqsOf
  <2>. QED BY <2>3, <2>4, <2>5, <2>6
<1>3. TypeOK'
      BY <1>1, <1>2 DEF TypeOK, Phases
<1>4. OutputFacts' /\ ReplayFacts' /\ RamFacts' /\ TailFacts'
      BY <1>1 DEF OutputFacts, ReplayFacts, RamFacts, TailFacts, HasManifest, Scanned, Mounted
<1>. QED BY <1>2, <1>3, <1>4

LEMMA PlaceEventKeeps == TypeInv /\ PlaceEvent => TypeInv'
<1>. SUFFICES ASSUME TypeInv, PlaceEvent PROVE TypeInv'
     OBVIOUS
<1>. USE DEF TypeInv
<1>1. /\ UNCHANGED <<segs, manifest, records, ranges, tail, tailBytes, nextGen, nextSeq, deps,
                     scan, plan, queue, issued, failures>>
      /\ pc = "place" /\ pc' \in {"idle", "create", "append"}
      /\ pc' = "append" => tailBytes # 0
      /\ call' \in {call, Idle} /\ (pc' = "idle" => call' = Idle)
      BY DEF PlaceEvent, disk
<1>2. DOMAIN sealed' \subseteq Nat /\ \A g \in DOMAIN sealed' : sealed'[g] \in Nat
      BY DEF PlaceEvent, SealTailSize, TypeOK
<1>3. TypeOK'
      BY <1>1, <1>2, StoreConstants DEF TypeOK, Phases, Idle
<1>4. OutputFacts' /\ CallFacts' /\ ReplayFacts' /\ RamFacts' /\ TailFacts'
      BY <1>1 DEF OutputFacts, CallFacts, ReplayFacts, RamFacts, TailFacts, HasManifest,
                  Scanned, Mounted, Idle, SeqsOf
<1>. QED BY <1>3, <1>4

\* rotateSegment() publishes a well-formed list of ranges.
LEMMA SealedRangesType ==
    ASSUME TypeOK
    PROVE  /\ SealedRanges \in Seq(ManifestRange)
           /\ tail = 0 => SealedRanges = ranges
<1>1. ranges \in Seq(ManifestRange) /\ tail \in Nat
      BY DEF TypeOK
<1>2. CASE tail = 0
      BY <1>1, <1>2 DEF SealedRanges
<1>3. CASE tail # 0 /\ Len(ranges) > 0 /\ ranges[Len(ranges)].hi + 1 = tail
  <2>1. Len(ranges) \in DOMAIN ranges /\ ranges[Len(ranges)] \in ManifestRange
        BY <1>1, <1>3
  <2>2. [ranges[Len(ranges)] EXCEPT !.hi = tail] \in ManifestRange
        BY <1>1, <1>3, <2>1 DEF ManifestRange, Gen
  <2>3. SealedRanges = [ranges EXCEPT ![Len(ranges)] = [ranges[Len(ranges)] EXCEPT !.hi = tail]]
        BY <1>3 DEF SealedRanges
  <2>. QED BY <1>1, <1>3, <2>1, <2>2, <2>3
<1>4. CASE tail # 0 /\ ~(Len(ranges) > 0 /\ ranges[Len(ranges)].hi + 1 = tail)
  <2>1. [lo |-> tail, hi |-> tail] \in ManifestRange
        BY <1>1, <1>4 DEF ManifestRange, Gen
  <2>2. SealedRanges = Append(ranges, [lo |-> tail, hi |-> tail])
        BY <1>4 DEF SealedRanges
  <2>. QED BY <1>1, <1>4, <2>1, <2>2
<1>. QED BY <1>2, <1>3, <1>4

LEMMA CreateTailKeeps == TypeInv /\ CreateTail => TypeInv'
<1>. SUFFICES ASSUME TypeInv, CreateTail PROVE TypeInv'
     OBVIOUS
<1>. USE DEF TypeInv
<1>1. /\ UNCHANGED <<manifest, records, ranges, tail, tailBytes, nextGen, nextSeq, deps,
                     call, scan, plan, queue, issued, failures>>
      /\ pc = "create" /\ pc' = "publishTail"
      BY DEF CreateTail
<1>2. EmptySegment \in Segment /\ nextGen \in Gen
      BY StoreConstants DEF EmptySegment, Segment, TypeOK
<1>3. SegmentFiles(segs')
      BY <1>2, WithSegmentType DEF CreateTail, TypeOK
<1>4. DOMAIN sealed' \subseteq Nat /\ \A g \in DOMAIN sealed' : sealed'[g] \in Nat
      BY <1>2, StoreConstants DEF CreateTail, TypeOK, Gen
<1>5. TypeOK'
      BY <1>1, <1>3, <1>4 DEF TypeOK, Phases
<1>6. OutputFacts' /\ CallFacts' /\ ReplayFacts' /\ RamFacts' /\ TailFacts'
      BY <1>1 DEF OutputFacts, CallFacts, ReplayFacts, RamFacts, TailFacts, HasManifest,
                  Scanned, Mounted, SeqsOf
<1>. QED BY <1>5, <1>6

\* A manifest is neither of the two ways of not having one.
LEMMA ManifestIsOne ==
    ASSUME NEW m \in Manifest
    PROVE  m # NoManifest /\ m # TornManifest
BY DEF Manifest, NoManifest, TornManifest

LEMMA PublishTailKeeps == TypeInv /\ PublishTail => TypeInv'
<1>. SUFFICES ASSUME TypeInv, PublishTail PROVE TypeInv'
     OBVIOUS
<1>. USE DEF TypeInv
<1>1. /\ UNCHANGED <<segs, records, nextSeq, sealed, call, scan, plan, queue, issued, failures>>
      /\ pc = "publishTail" /\ pc' \in {"append", "resolve"}
      /\ manifest' = [ranges |-> SealedRanges, tail |-> nextGen, next |-> nextGen + 1]
      /\ ranges' = SealedRanges /\ nextGen' = nextGen + 1
      /\ tail' = nextGen /\ tailBytes' = HeaderBytes /\ deps' = {}
      BY DEF PublishTail, Publish
<1>2. nextGen \in Gen /\ nextGen + 1 \in Gen
      BY DEF TypeOK, Gen
<1>3. SealedRanges \in Seq(ManifestRange) /\ manifest' \in Manifest
      BY <1>1, <1>2, SealedRangesType DEF Manifest
<1>4. HasManifest'
      BY <1>3, ManifestIsOne DEF HasManifest
<1>5. TypeOK'
      BY <1>1, <1>2, <1>3, StoreConstants DEF TypeOK, Phases, Gen
<1>6. OutputFacts' /\ CallFacts' /\ ReplayFacts' /\ TailFacts'
      BY <1>1, <1>4 DEF OutputFacts, CallFacts, ReplayFacts, TailFacts, SeqsOf
<1>7. RamFacts'
      BY <1>1, <1>4, StoreConstants DEF RamFacts
<1>. QED BY <1>5, <1>6, <1>7

\* Appending the event of a call: the file, the records and the queue stay
\* well-formed.
LEMMA AppendEventKeeps == TypeInv /\ AppendEvent => TypeInv'
<1>. SUFFICES ASSUME TypeInv, AppendEvent PROVE TypeInv'
     OBVIOUS
<1>. USE DEF TypeInv
<1>1. /\ UNCHANGED <<manifest, ranges, tail, nextGen, nextSeq, sealed, scan, plan, issued,
                     failures>>
      /\ pc = "append" /\ pc' = "idle" /\ call' = Idle /\ HasManifest
      /\ call.op \in {"enqueue", "pop", "rewrite"}
      BY DEF AppendEvent, TailFacts
<1>2. tail \in Gen /\ tailBytes \in Nat
      BY <1>1 DEF RamFacts, Scanned, Mounted, HasManifest, TypeOK, Manifest
<1>3. CallEvent \in Event /\ BytesOf(CallEvent) \in Nat
  <2>1. call \in [op : {"none", "enqueue", "pop", "rewrite"}, seq : Nat, val : 0 .. MaxValues]
        BY DEF TypeOK
  <2>2. call.op # "pop" => call.val \in Val
        BY <1>1, <2>1, StoreConstants DEF CallFacts, Val
  <2>. QED BY <1>1, <2>1, <2>2, StoreConstants DEF CallEvent, Event, BytesOf
<1>4. tailBytes' \in Nat /\ tailBytes' >= tailBytes
      BY <1>2, <1>3, StoreConstants DEF AppendEvent
<1>5. SegmentFiles(segs')
  <2>1. SegmentFiles(segs) /\ segs' = [segs EXCEPT ![tail] = Appended(segs[tail], CallEvent)]
        BY DEF AppendEvent, TypeOK
  <2>2. tail \in DOMAIN segs => Appended(segs[tail], CallEvent) \in Segment
    <3>1. SUFFICES ASSUME tail \in DOMAIN segs
                   PROVE  Appended(segs[tail], CallEvent) \in Segment
          OBVIOUS
    <3>2. segs[tail] \in Segment
          BY <2>1, <3>1 DEF SegmentFiles
    <3>3. /\ Append(segs[tail].events, CallEvent) \in Seq(Event)
          /\ SetMax(segs[tail].size, tailBytes + BytesOf(CallEvent)) \in Nat
          BY <1>2, <1>3, <3>2 DEF Segment, SetMax
    <3>. QED BY <3>2, <3>3 DEF Appended, Segment
  <2>. QED BY <2>1, <2>2 DEF SegmentFiles
<1>6. records' \in Seq(Record) /\ queue' \in Seq(Val) /\ deps' \subseteq Gen
  <2>1. records \in Seq(Record) /\ queue \in Seq(Val) /\ deps \subseteq Gen
        BY DEF TypeOK
  <2>2. \A i \in DOMAIN records : records[i].gen \in Gen
    <3>1. \A i \in DOMAIN records : records[i] \in Record
          BY <2>1
    <3>. QED BY <3>1 DEF Record
  <2>3. call.op # "pop" => call.val \in Val /\ TailRecord \in Record
    <3>1. call \in [op : {"none", "enqueue", "pop", "rewrite"}, seq : Nat, val : 0 .. MaxValues]
          BY DEF TypeOK
    <3>2. call.op # "pop" => call.val \in Val
          BY <1>1, <3>1, StoreConstants DEF CallFacts, Val
    <3>. QED BY <1>2, <3>1, <3>2 DEF TailRecord, Record
  <2>4. CASE call.op = "enqueue"
    <3>1. /\ records' = Append(records, TailRecord) /\ queue' = Append(queue, call.val)
          /\ UNCHANGED deps
          BY <2>4 DEF AppendEvent
    <3>. QED BY <2>1, <2>3, <2>4, <3>1
  <2>5. CASE call.op = "pop"
    <3>1. records # <<>> /\ 1 \in DOMAIN records /\ Head(records) = records[1]
          BY <2>1, <2>5 DEF CallFacts
    <3>2. /\ records' = Tail(records)
          /\ queue' = IF Len(queue) = Len(records) THEN Tail(queue) ELSE queue
          /\ deps' = deps \cup {Head(records).gen}
          BY <2>5 DEF AppendEvent
    <3>3. Len(queue) = Len(records) => Tail(queue) \in Seq(Val)
          BY <2>1, <3>1
    <3>. QED BY <2>1, <2>2, <3>1, <3>2, <3>3
  <2>6. CASE call.op = "rewrite"
    <3>. DEFINE i == FirstAt(records, call.seq)
                j == i - (Len(records) - Len(queue))
    <3>1. i \in DOMAIN records
          BY <2>1, <2>6, FirstAtFinds DEF CallFacts
    <3>2. /\ records' = [records EXCEPT ![i] = TailRecord]
          /\ queue' = IF j >= 1 THEN [queue EXCEPT ![j] = call.val] ELSE queue
          /\ deps' = deps \cup {records[i].gen}
          BY <2>6 DEF AppendEvent
    <3>. HIDE DEF i
    <3>3. records' \in Seq(Record) /\ deps' \subseteq Gen
          BY <2>1, <2>2, <2>3, <2>6, <3>1, <3>2
    <3>4. queue' \in Seq(Val)
      <4>1. call.val \in Val
            BY <2>3, <2>6
      <4>2. j >= 1 => j \in 1 .. Len(queue)
            BY <2>1, <3>1
      <4>. HIDE DEF j
      <4>. QED BY <2>1, <3>2, <4>1, <4>2, ExceptSeq
    <3>. QED BY <3>3, <3>4
  <2>. QED BY <1>1, <2>4, <2>5, <2>6
<1>7. TypeOK'
      BY <1>1, <1>4, <1>5, <1>6, StoreConstants DEF TypeOK, Phases, Idle
<1>8. OutputFacts' /\ CallFacts' /\ ReplayFacts' /\ RamFacts' /\ TailFacts'
      BY <1>1, <1>2, <1>4, StoreConstants
      DEF OutputFacts, CallFacts, ReplayFacts, RamFacts, TailFacts, HasManifest,
          Scanned, Mounted, Idle
<1>. QED BY <1>7, <1>8

\* Power loss, a failed write and a refused publish leave whatever they leave in
\* the files, but nothing ill-formed.
LEMMA PartialWriteType ==
    ASSUME TypeInv, Unwritten \/ PartialWrite
    PROVE  /\ SegmentFiles(segs')
           /\ manifest' \in Manifest \cup {NoManifest, TornManifest}
           /\ HasManifest => UNCHANGED manifest
           /\ ~HasManifest => ~HasManifest'
<1>. USE DEF TypeInv
<1>1. SegmentFiles(segs) /\ manifest \in Manifest \cup {NoManifest, TornManifest}
      BY DEF TypeOK
<1>2. CASE Unwritten
      BY <1>1, <1>2 DEF Unwritten, disk, HasManifest
<1>3. CASE pc = "create" /\ segs' = WithSegment(segs, nextGen, TornSegment) /\ UNCHANGED manifest
  <2>1. nextGen \in Gen /\ TornSegment \in Segment
        BY DEF TypeOK, TornSegment, Segment
  <2>. QED BY <1>1, <1>3, <2>1, WithSegmentType DEF HasManifest
<1>4. CASE /\ manifest' = IF HasManifest THEN manifest ELSE TornManifest
           /\ UNCHANGED segs
      BY <1>1, <1>4 DEF HasManifest
<1>5. CASE /\ pc = "append" /\ UNCHANGED manifest
           /\ \E n \in {1, BytesOf(CallEvent) - 1} :
                 segs' = [segs EXCEPT ![tail].size = SetMax(@, tailBytes + n)]
  <2>1. PICK n \in {1, BytesOf(CallEvent) - 1} :
             segs' = [segs EXCEPT ![tail].size = SetMax(segs[tail].size, tailBytes + n)]
        BY <1>5
  <2>2. n \in Nat /\ tailBytes \in Nat
        BY StoreConstants DEF BytesOf, TypeOK
  <2>3. tail \in DOMAIN segs =>
            [segs[tail] EXCEPT !.size = SetMax(segs[tail].size, tailBytes + n)] \in Segment
    <3>1. SUFFICES ASSUME tail \in DOMAIN segs
                   PROVE  [segs[tail] EXCEPT !.size = SetMax(segs[tail].size, tailBytes + n)]
                              \in Segment
          OBVIOUS
    <3>2. segs[tail] \in Segment /\ SetMax(segs[tail].size, tailBytes + n) \in Nat
          BY <1>1, <2>2, <3>1 DEF SegmentFiles, Segment, SetMax
    <3>. QED BY <3>2 DEF Segment
  <2>. QED BY <1>1, <1>5, <2>1, <2>3 DEF SegmentFiles, HasManifest
<1>6. CASE /\ pc = "write" /\ segs' = WithSegment(segs, plan.first + plan.done, TornSegment)
           /\ UNCHANGED manifest
  <2>1. plan.first \in Gen /\ plan.done \in Nat
        BY <1>6 DEF TypeOK, OutputFacts
  <2>2. plan.first + plan.done \in Gen /\ TornSegment \in Segment
        BY <2>1 DEF Gen, TornSegment, Segment
  <2>. QED BY <1>1, <1>6, <2>2, WithSegmentType DEF HasManifest
<1>. QED BY <1>2, <1>3, <1>4, <1>5, <1>6 DEF PartialWrite

LEMMA FailureKeeps == TypeInv /\ (PowerLoss \/ WriteError \/ PublishRefused) => TypeInv'
<1>. SUFFICES ASSUME TypeInv, PowerLoss \/ WriteError \/ PublishRefused PROVE TypeInv'
     OBVIOUS
<1>. USE DEF TypeInv
<1>1. CASE PowerLoss
  <2>1. /\ SegmentFiles(segs') /\ manifest' \in Manifest \cup {NoManifest, TornManifest}
        BY <1>1, PartialWriteType DEF PowerLoss
  <2>2. TypeOK'
        BY <1>1, <2>1, StoreConstants DEF PowerLoss, TypeOK, Phases, Idle, NoPlan, Gen
  <2>3. OutputFacts' /\ CallFacts' /\ ReplayFacts' /\ RamFacts' /\ TailFacts'
        BY <1>1 DEF PowerLoss, OutputFacts, CallFacts, ReplayFacts, RamFacts, TailFacts,
                    HasManifest, Scanned, Mounted, Idle
  <2>. QED BY <2>2, <2>3
<1>2. CASE WriteError
  <2>1. /\ SegmentFiles(segs') /\ manifest' \in Manifest \cup {NoManifest, TornManifest}
        /\ HasManifest => UNCHANGED manifest
        /\ ~HasManifest => ~HasManifest'
        BY <1>2, PartialWriteType DEF WriteError
  <2>2. /\ UNCHANGED <<records, ranges, tail, tailBytes, nextGen, nextSeq, sealed, deps, scan,
                       queue, issued>>
        /\ pc \in WritePoints /\ pc' = "idle" /\ call' = Idle /\ plan' = NoPlan
        /\ failures' = failures + 1 /\ failures < MaxFailures
        BY <1>2 DEF WriteError, ReturnError, ram
  <2>3. TypeOK'
        BY <2>1, <2>2, StoreConstants DEF TypeOK, Phases, Idle, NoPlan
  <2>4. OutputFacts' /\ CallFacts' /\ ReplayFacts' /\ RamFacts' /\ TailFacts'
        BY <2>1, <2>2 DEF OutputFacts, CallFacts, ReplayFacts, RamFacts, TailFacts,
                          HasManifest, Scanned, Mounted, Idle, WritePoints
  <2>. QED BY <2>3, <2>4
<1>3. CASE PublishRefused
  <2>1. /\ UNCHANGED <<segs, manifest, records, ranges, tail, tailBytes, nextGen, nextSeq,
                       sealed, deps, scan, queue, issued, failures>>
        /\ pc \in WritePoints /\ pc' = "idle" /\ call' = Idle /\ plan' = NoPlan
        BY <1>3 DEF PublishRefused, ReturnError, ram, disk, WritePoints
  <2>2. TypeOK'
        BY <2>1, StoreConstants DEF TypeOK, Phases, Idle, NoPlan
  <2>3. OutputFacts' /\ CallFacts' /\ ReplayFacts' /\ RamFacts' /\ TailFacts'
        BY <2>1 DEF OutputFacts, CallFacts, ReplayFacts, RamFacts, TailFacts, HasManifest,
                    Scanned, Mounted, Idle, WritePoints
  <2>. QED BY <2>2, <2>3
<1>. QED BY <1>1, <1>2, <1>3

LEMMA TypeStep == TypeInv /\ [Next]_vars => TypeInv'
<1>. SUFFICES ASSUME TypeInv, [Next]_vars PROVE TypeInv'
     OBVIOUS
<1>1. CASE UNCHANGED vars
      BY <1>1 DEF vars, disk, ram, TypeInv, TypeOK, OutputFacts, CallFacts, ReplayFacts,
                  RamFacts, TailFacts, HasManifest, Scanned, Mounted, SeqsOf
<1>2. CASE Mounting
      BY <1>2, MountBeginKeeps, ReplayEventKeeps, ScanStepKeeps, EndOfMountKeeps DEF Mounting
<1>3. CASE Calling \/ Working
      BY <1>3, CallStartKeeps, PlaceEventKeeps, CreateTailKeeps, PublishTailKeeps,
         AppendEventKeeps, FailureKeeps DEF Calling, Working
<1>4. CASE Failing
      BY <1>4, FailureKeeps DEF Failing
<1>. QED BY <1>1, <1>2, <1>3, <1>4 DEF Next

\* The store's state keeps its types through every call, power loss and write
\* error: no record or event ever carries generation 0 or a payload never written.
THEOREM TypeCorrect == Spec => []TypeOK
<1>1. Spec => []TypeInv
      BY TypeInit, TypeStep, PTL DEF Spec
<1>. QED BY <1>1, PTL DEF TypeInv

-----------------------------------------------------------------------------
(* Every file the published manifest names is readable, at every instant.   *)

SafeInv == TypeInv /\ ManifestBacked /\ NewTailReadable /\ FreshFacts

\* What a step may do to the files: those of the manifest keep their events.
LiveGrow == HasManifest => \A g \in LiveGens(manifest) :
                g \in DOMAIN segs' /\ Extends(segs'[g], segs[g])

LEMMA SafeInit == Init => SafeInv
BY TypeInit DEF SafeInv, Init, ManifestBacked, NewTailReadable, FreshFacts, HasManifest,
                Scanned, Mounted

\* Sealing the tail names no generation but the tail that was not named before.
LEMMA SealedGens ==
    ASSUME TypeOK
    PROVE  \A g \in GensOf(SealedRanges) : g \in GensOf(ranges) \/ (tail # 0 /\ g = tail)
<1>1. ranges \in Seq(ManifestRange) /\ tail \in Nat
      BY DEF TypeOK
<1>2. \A i \in DOMAIN ranges : ranges[i] \in ManifestRange /\ ranges[i].lo \in Nat
                              /\ ranges[i].hi \in Nat
  <2>1. \A i \in DOMAIN ranges : ranges[i] \in ManifestRange
        BY <1>1
  <2>. QED BY <2>1 DEF ManifestRange, Gen
<1>. SUFFICES ASSUME NEW i \in DOMAIN SealedRanges,
                     NEW g \in SealedRanges[i].lo .. SealedRanges[i].hi
              PROVE  g \in GensOf(ranges) \/ (tail # 0 /\ g = tail)
     BY DEF GensOf
<1>3. CASE tail = 0
      BY <1>3 DEF SealedRanges, GensOf
<1>4. CASE tail # 0 /\ Len(ranges) > 0 /\ ranges[Len(ranges)].hi + 1 = tail
  <2>1. SealedRanges = [ranges EXCEPT ![Len(ranges)] = [ranges[Len(ranges)] EXCEPT !.hi = tail]]
        BY <1>4 DEF SealedRanges
  <2>2. CASE i # Len(ranges)
        BY <2>1, <2>2 DEF GensOf
  <2>3. CASE i = Len(ranges)
    <3>1. i \in DOMAIN ranges
          BY <2>1
    <3>2. SealedRanges[i].lo = ranges[i].lo /\ SealedRanges[i].hi = tail
          BY <1>2, <2>1, <2>3, <3>1 DEF ManifestRange
    <3>3. g = tail \/ g \in ranges[i].lo .. ranges[i].hi
          BY <1>1, <1>2, <1>4, <2>3, <3>1, <3>2
    <3>. QED BY <1>4, <3>1, <3>3 DEF GensOf
  <2>. QED BY <2>2, <2>3
<1>5. CASE tail # 0 /\ ~(Len(ranges) > 0 /\ ranges[Len(ranges)].hi + 1 = tail)
  <2>1. SealedRanges = Append(ranges, [lo |-> tail, hi |-> tail])
        BY <1>5 DEF SealedRanges
  <2>2. CASE i \in DOMAIN ranges
    <3>1. SealedRanges[i] = ranges[i]
          BY <1>1, <2>1, <2>2
    <3>. QED BY <2>2, <3>1 DEF GensOf
  <2>3. CASE i \notin DOMAIN ranges
    <3>1. SealedRanges[i] = [lo |-> tail, hi |-> tail]
          BY <1>1, <2>1, <2>3
    <3>. QED BY <1>1, <1>5, <3>1
  <2>. QED BY <2>2, <2>3
<1>. QED BY <1>3, <1>4, <1>5

\* The steps that write nothing.
LEMMA SafeQuietStep ==
    ASSUME SafeInv, TypeInv', UNCHANGED <<segs, manifest>>,
           \/ MountBegin
           \/ UNCHANGED nextGen /\ pc \notin {"down", "failed"} /\ pc' # "publishTail"
    PROVE  SafeInv' /\ LiveGrow
<1>1. LiveGrow
      BY DEF SafeInv, LiveGrow, Extends, ManifestBacked, SegmentReadable
<1>2. ManifestBacked'
      BY DEF SafeInv, ManifestBacked, HasManifest, SegmentReadable
<1>3. CASE MountBegin
  <2>1. pc' \in {"replay", "sweep", "failed"} /\ (HasManifest => nextGen' = AdvancePast(manifest.next))
        BY <1>3 DEF MountBegin
  <2>2. HasManifest => \A g \in DOMAIN segs : g < nextGen'
    <3>1. HasManifest => manifest.next \in Gen
          BY DEF SafeInv, TypeInv, TypeOK, HasManifest, Manifest
    <3>2. IsFiniteSet(DOMAIN segs) /\ DOMAIN segs \subseteq Gen
          BY DEF SafeInv, TypeInv, TypeOK, SegmentFiles
    <3>. QED BY <2>1, <3>1, <3>2, AdvancePastIsFresh
  <2>3. NewTailReadable' /\ FreshFacts'
        BY <2>1, <2>2 DEF SafeInv, ManifestBacked, SegmentReadable, NewTailReadable, FreshFacts,
                          HasManifest
  <2>. QED BY <1>1, <1>2, <2>3 DEF SafeInv
<1>4. CASE UNCHANGED nextGen /\ pc \notin {"down", "failed"} /\ pc' # "publishTail"
  <2>1. NewTailReadable' /\ FreshFacts'
        BY <1>4 DEF SafeInv, NewTailReadable, FreshFacts, HasManifest, Scanned, Mounted
  <2>. QED BY <1>1, <1>2, <2>1 DEF SafeInv
<1>. QED BY <1>3, <1>4

\* mount() truncates and removes only what no record is in.
LEMMA SafeEndOfMount ==
    ASSUME SafeInv, TypeInv', TruncateTail \/ MountDone, ShrinkKeepsPrefix
    PROVE  SafeInv' /\ LiveGrow
<1>1. UNCHANGED <<manifest, nextGen>> /\ pc \in {"truncate", "sweep"} /\ pc' \in {"sweep", "idle"}
      BY DEF TruncateTail, MountDone, ram
<1>2. NewTailReadable' /\ FreshFacts'
      BY <1>1 DEF SafeInv, NewTailReadable, FreshFacts, HasManifest, Scanned, Mounted
<1>3. SegmentFiles(segs) /\ (HasManifest => LiveGens(manifest) \subseteq DOMAIN segs)
      BY DEF SafeInv, TypeInv, TypeOK, ManifestBacked, SegmentReadable
<1>4. CASE UNCHANGED segs
      BY <1>1, <1>2, <1>3, <1>4
      DEF SafeInv, LiveGrow, Extends, ManifestBacked, SegmentReadable, HasManifest
<1>5. CASE TruncateTail /\ segs' # segs
  <2>1. /\ HasManifest /\ tail \in DOMAIN segs /\ tailBytes >= HeaderBytes
        /\ segs[tail].hdr /\ segs[tail] \in Segment
    <3>1. HasManifest /\ tail \in DOMAIN segs /\ tailBytes >= HeaderBytes /\ tail = manifest.tail
          BY <1>5 DEF SafeInv, TypeInv, TruncateTail, TailFacts, RamFacts, Scanned
    <3>2. SegmentReadable(tail)
          BY <3>1 DEF SafeInv, ManifestBacked, LiveGens
    <3>. QED BY <1>3, <3>1, <3>2 DEF SegmentReadable, SegmentFiles
  <2>2. segs' = WithSegment(segs, tail, [segs[tail] EXCEPT !.size = tailBytes])
        BY <1>5 DEF TruncateTail, Shrunk
  <2>3. /\ DOMAIN segs' = DOMAIN segs
        /\ \A g \in DOMAIN segs : g # tail => segs'[g] = segs[g]
        /\ segs'[tail] = [segs[tail] EXCEPT !.size = tailBytes]
        BY <2>1, <2>2 DEF WithSegment
  <2>4. segs'[tail].hdr /\ segs'[tail].size >= HeaderBytes /\ segs'[tail].events = segs[tail].events
        BY <2>1, <2>3 DEF Segment
  <2>5. LiveGrow
        BY <1>3, <2>3, <2>4 DEF LiveGrow, Extends
  <2>6. ManifestBacked'
        BY <1>1, <1>3, <2>3, <2>4 DEF SafeInv, ManifestBacked, SegmentReadable, HasManifest
  <2>. QED BY <1>2, <2>5, <2>6 DEF SafeInv
<1>6. CASE \E g \in Dangling : segs' = Without(segs, g)
  <2>1. HasManifest => \A g \in LiveGens(manifest) : g \in DOMAIN segs' /\ segs'[g] = segs[g]
        BY <1>3, <1>6 DEF Dangling, Without
  <2>2. LiveGrow
        BY <2>1 DEF LiveGrow, Extends
  <2>3. ManifestBacked'
        BY <1>1, <2>1 DEF SafeInv, ManifestBacked, SegmentReadable, HasManifest
  <2>. QED BY <1>2, <2>2, <2>3 DEF SafeInv
<1>. QED BY <1>4, <1>5, <1>6 DEF MountDone

\* A file with no live generation's name is written: nothing live changes.
LEMMA NewFileIsHarmless ==
    ASSUME SafeInv, NEW n \in Nat, n >= nextGen, NEW s, segs' = WithSegment(segs, n, s),
           UNCHANGED manifest, Mounted
    PROVE  ManifestBacked' /\ LiveGrow
<1>1. HasManifest => \A g \in LiveGens(manifest) :
          g \in DOMAIN segs /\ g \in DOMAIN segs' /\ segs'[g] = segs[g]
  <2>1. HasManifest => \A g \in LiveGens(manifest) : g \in DOMAIN segs /\ g # n
    <3>1. HasManifest => \A g \in LiveGens(manifest) : g \in DOMAIN segs /\ g < nextGen
          BY DEF SafeInv, ManifestBacked, SegmentReadable, FreshFacts, Scanned
    <3>2. nextGen \in Nat /\ DOMAIN segs \subseteq Nat
          BY DEF SafeInv, TypeInv, TypeOK, SegmentFiles, Gen
    <3>. QED BY <3>1, <3>2
  <2>. QED BY <2>1 DEF WithSegment
<1>2. ManifestBacked'
      BY <1>1 DEF SafeInv, ManifestBacked, SegmentReadable, HasManifest
<1>. QED BY <1>1, <1>2 DEF LiveGrow, Extends

LEMMA SafeNewTail ==
    ASSUME SafeInv, TypeInv', CreateTail \/ PublishTail
    PROVE  SafeInv' /\ LiveGrow
<1>1. CASE CreateTail
  <2>1. ManifestBacked' /\ LiveGrow
    <3>1. nextGen \in Nat /\ nextGen >= nextGen
          BY DEF SafeInv, TypeInv, TypeOK, Gen
    <3>. QED BY <1>1, <3>1, NewFileIsHarmless DEF CreateTail, Mounted
  <2>2. NewTailReadable'
        BY <1>1, StoreConstants
        DEF CreateTail, NewTailReadable, SegmentReadable, WithSegment, EmptySegment
  <2>3. FreshFacts'
        BY <1>1 DEF CreateTail, SafeInv, FreshFacts, HasManifest, Scanned, Mounted
  <2>. QED BY <2>1, <2>2, <2>3 DEF SafeInv
<1>2. CASE PublishTail
  <2>1. /\ manifest' = [ranges |-> SealedRanges, tail |-> nextGen, next |-> nextGen + 1]
        /\ UNCHANGED segs /\ pc = "publishTail" /\ pc' # "publishTail" /\ nextGen' = nextGen + 1
        BY <1>2 DEF PublishTail, Publish
  <2>2. \A g \in LiveGens(manifest') :
            g = nextGen \/ (HasManifest /\ g \in LiveGens(manifest))
    <3>1. LiveGens(manifest') = GensOf(SealedRanges) \cup {nextGen}
          BY <2>1 DEF LiveGens
    <3>2. /\ HasManifest => ranges = manifest.ranges /\ tail = manifest.tail
          /\ ~HasManifest => ranges = <<>> /\ tail = 0
          BY <2>1 DEF SafeInv, TypeInv, RamFacts, Scanned, Mounted
    <3>3. GensOf(<<>>) = {}
          BY DEF GensOf
    <3>. QED BY <3>1, <3>2, <3>3, SealedGens DEF SafeInv, TypeInv, LiveGens
  <2>3. ManifestBacked'
        BY <2>1, <2>2 DEF SafeInv, ManifestBacked, NewTailReadable, SegmentReadable
  <2>4. FreshFacts'
    <3>1. nextGen \in Nat
          BY DEF SafeInv, TypeInv, TypeOK, Gen
    <3>2. HasManifest => \A g \in LiveGens(manifest) : g < nextGen
          BY <2>1 DEF SafeInv, FreshFacts, Scanned, Mounted
    <3>3. \A g \in LiveGens(manifest) : HasManifest => g \in Nat
          BY DEF SafeInv, TypeInv, TypeOK, SegmentFiles, ManifestBacked, SegmentReadable, Gen
    <3>. QED BY <2>1, <2>2, <3>1, <3>2, <3>3 DEF FreshFacts
  <2>5. NewTailReadable' /\ LiveGrow
        BY <2>1 DEF SafeInv, NewTailReadable, LiveGrow, Extends, ManifestBacked, SegmentReadable
  <2>. QED BY <2>3, <2>4, <2>5 DEF SafeInv
<1>. QED BY <1>1, <1>2

\* An event, or a part of one, at the end of a file leaves its events there.
LEMMA LongerFileIsHarmless ==
    ASSUME SafeInv, UNCHANGED manifest, NEW s,
           segs' = [segs EXCEPT ![tail] = s],
           tail \in DOMAIN segs => /\ s.hdr = segs[tail].hdr /\ s.size >= segs[tail].size
                                  /\ s.size \in Nat /\ Extends(s, segs[tail])
    PROVE  ManifestBacked' /\ LiveGrow
<1>1. HasManifest => \A g \in LiveGens(manifest) :
          /\ g \in DOMAIN segs /\ segs[g].hdr /\ segs[g].size >= HeaderBytes
          /\ segs[g].size \in Nat
      BY DEF SafeInv, TypeInv, TypeOK, SegmentFiles, Segment, ManifestBacked, SegmentReadable
<1>2. HasManifest => \A g \in LiveGens(manifest) :
          /\ g \in DOMAIN segs' /\ segs'[g].hdr /\ segs'[g].size >= HeaderBytes
          /\ Extends(segs'[g], segs[g])
  <2>1. SUFFICES ASSUME HasManifest, NEW g \in LiveGens(manifest)
                 PROVE  /\ g \in DOMAIN segs' /\ segs'[g].hdr /\ segs'[g].size >= HeaderBytes
                        /\ Extends(segs'[g], segs[g])
        OBVIOUS
  <2>2. CASE g = tail
        BY <1>1, <2>1, <2>2, StoreConstants
  <2>3. CASE g # tail
        BY <1>1, <2>1, <2>3 DEF Extends
  <2>. QED BY <2>2, <2>3
<1>. QED BY <1>2 DEF ManifestBacked, SegmentReadable, LiveGrow, HasManifest

LEMMA SafeAppend ==
    ASSUME SafeInv, TypeInv', AppendEvent
    PROVE  SafeInv' /\ LiveGrow
<1>1. /\ UNCHANGED <<manifest, nextGen>> /\ pc = "append" /\ pc' = "idle"
      /\ segs' = [segs EXCEPT ![tail] = Appended(segs[tail], CallEvent)]
      BY DEF AppendEvent
<1>2. tail \in DOMAIN segs =>
          LET s == Appended(segs[tail], CallEvent) IN
          /\ s.hdr = segs[tail].hdr /\ s.size >= segs[tail].size
          /\ s.size \in Nat /\ Extends(s, segs[tail])
  <2>1. SUFFICES ASSUME tail \in DOMAIN segs
                 PROVE  LET s == Appended(segs[tail], CallEvent) IN
                        /\ s.hdr = segs[tail].hdr /\ s.size >= segs[tail].size
                        /\ s.size \in Nat /\ Extends(s, segs[tail])
        OBVIOUS
  <2>2. segs[tail] \in Segment /\ tailBytes + BytesOf(CallEvent) \in Nat
        BY <2>1, StoreConstants DEF SafeInv, TypeInv, TypeOK, SegmentFiles, BytesOf
  <2>3. /\ SetMax(segs[tail].size, tailBytes + BytesOf(CallEvent)) \in Nat
        /\ SetMax(segs[tail].size, tailBytes + BytesOf(CallEvent)) >= segs[tail].size
        BY <2>2 DEF SetMax, Segment
  <2>4. \A k \in DOMAIN segs[tail].events :
            /\ k \in DOMAIN Append(segs[tail].events, CallEvent)
            /\ Append(segs[tail].events, CallEvent)[k] = segs[tail].events[k]
        BY <2>2 DEF Segment
  <2>. QED BY <2>2, <2>3, <2>4 DEF Appended, Extends, Segment
<1>3. ManifestBacked' /\ LiveGrow
      BY <1>1, <1>2, LongerFileIsHarmless
<1>4. NewTailReadable' /\ FreshFacts'
      BY <1>1 DEF SafeInv, NewTailReadable, FreshFacts, HasManifest, Scanned, Mounted
<1>. QED BY <1>3, <1>4 DEF SafeInv

\* Whatever part of a write reaches the disk.
LEMMA PartialWriteIsHarmless ==
    ASSUME SafeInv, Unwritten \/ PartialWrite
    PROVE  ManifestBacked' /\ LiveGrow /\ (HasManifest' => HasManifest /\ UNCHANGED manifest)
<1>1. HasManifest' => HasManifest /\ UNCHANGED manifest
      BY PartialWriteType DEF SafeInv
<1>2. CASE UNCHANGED segs
      BY <1>1, <1>2
      DEF SafeInv, ManifestBacked, LiveGrow, Extends, SegmentReadable
<1>3. CASE pc = "create" /\ segs' = WithSegment(segs, nextGen, TornSegment) /\ UNCHANGED manifest
  <2>1. nextGen \in Nat /\ nextGen >= nextGen
        BY DEF SafeInv, TypeInv, TypeOK, Gen
  <2>. QED BY <1>1, <1>3, <2>1, NewFileIsHarmless DEF Mounted
<1>4. CASE /\ pc = "append" /\ UNCHANGED manifest
           /\ \E n \in {1, BytesOf(CallEvent) - 1} :
                 segs' = [segs EXCEPT ![tail].size = SetMax(@, tailBytes + n)]
  <2>1. PICK n \in {1, BytesOf(CallEvent) - 1} :
             segs' = [segs EXCEPT ![tail] = [segs[tail] EXCEPT
                                                !.size = SetMax(segs[tail].size, tailBytes + n)]]
        BY <1>4
  <2>. DEFINE s == [segs[tail] EXCEPT !.size = SetMax(segs[tail].size, tailBytes + n)]
  <2>2. tail \in DOMAIN segs => /\ s.hdr = segs[tail].hdr /\ s.size >= segs[tail].size
                                /\ s.size \in Nat /\ Extends(s, segs[tail])
    <3>1. SUFFICES ASSUME tail \in DOMAIN segs
                   PROVE  /\ s.hdr = segs[tail].hdr /\ s.size >= segs[tail].size
                          /\ s.size \in Nat /\ Extends(s, segs[tail])
          OBVIOUS
    <3>2. segs[tail] \in Segment /\ tailBytes + n \in Nat
          BY <3>1, StoreConstants DEF SafeInv, TypeInv, TypeOK, SegmentFiles, BytesOf
    <3>3. /\ SetMax(segs[tail].size, tailBytes + n) \in Nat
          /\ SetMax(segs[tail].size, tailBytes + n) >= segs[tail].size
          BY <3>2 DEF SetMax, Segment
    <3>. QED BY <3>2, <3>3 DEF Extends, Segment
  <2>. HIDE DEF s
  <2>3. segs' = [segs EXCEPT ![tail] = s]
        BY <2>1 DEF s
  <2>. QED BY <1>1, <1>4, <2>2, <2>3, LongerFileIsHarmless
<1>5. CASE /\ pc = "write" /\ segs' = WithSegment(segs, plan.first + plan.done, TornSegment)
           /\ UNCHANGED manifest
  <2>1. plan.first + plan.done \in Nat /\ plan.first + plan.done >= nextGen
        BY <1>5 DEF SafeInv, TypeInv, TypeOK, OutputFacts, Gen
  <2>. QED BY <1>1, <1>5, <2>1, NewFileIsHarmless DEF Mounted
<1>. QED BY <1>2, <1>3, <1>4, <1>5 DEF Unwritten, disk, PartialWrite

LEMMA SafeFailure ==
    ASSUME SafeInv, TypeInv', PowerLoss \/ WriteError
    PROVE  SafeInv' /\ LiveGrow
<1>1. ManifestBacked' /\ LiveGrow /\ (HasManifest' => HasManifest /\ UNCHANGED manifest)
      BY PartialWriteIsHarmless DEF PowerLoss, WriteError
<1>2. CASE PowerLoss
      BY <1>1, <1>2 DEF PowerLoss, SafeInv, NewTailReadable, FreshFacts, Scanned, Mounted
<1>3. CASE WriteError
      BY <1>1, <1>3 DEF WriteError, ReturnError, WritePoints, ram, SafeInv, NewTailReadable,
                        FreshFacts, Scanned, Mounted
<1>. QED BY <1>2, <1>3

LEMMA SafeStep ==
    ASSUME SafeInv, [Next]_vars, ShrinkKeepsPrefix
    PROVE  SafeInv' /\ LiveGrow
<1>1. TypeInv'
      BY TypeStep DEF SafeInv
<1>2. CASE UNCHANGED vars
      BY <1>1, <1>2 DEF vars, disk, ram, SafeInv, ManifestBacked, NewTailReadable, FreshFacts,
                        LiveGrow, Extends, HasManifest, Scanned, Mounted, SegmentReadable
<1>3. CASE MountBegin
      BY <1>1, <1>3, SafeQuietStep DEF MountBegin, disk
<1>4. CASE ReplayUnreadable \/ ReplayEvent \/ ReplayTornSealed \/ ReplayNextSegment \/ ReplayDone
  <2>1. UNCHANGED <<segs, manifest, nextGen>> /\ pc = "replay" /\ pc' # "publishTail"
        BY <1>4 DEF ReplayUnreadable, ReplayEvent, ReplayTornSealed, ReplayNextSegment,
                    ReplayDone, FailMount, AtSegmentEnd, disk, ram
  <2>. QED BY <1>1, <2>1, SafeQuietStep
<1>5. CASE TruncateTail \/ MountDone
      BY <1>1, <1>5, SafeEndOfMount
<1>6. CASE Calling \/ Admit \/ PlaceEvent \/ PublishRefused
  <2>1. UNCHANGED <<segs, manifest, nextGen>> /\ pc \notin {"down", "failed"} /\ pc' # "publishTail"
        BY <1>6 DEF Calling, CommitEnqueue, RewriteRecord, CommitPop, MayStart, Admit, PlaceEvent,
                    PublishRefused, ReturnError, disk, ram
  <2>. QED BY <1>1, <2>1, SafeQuietStep
<1>7. CASE CreateTail \/ PublishTail
      BY <1>1, <1>7, SafeNewTail
<1>8. CASE AppendEvent
      BY <1>1, <1>8, SafeAppend
<1>9. CASE Failing
      BY <1>1, <1>9, SafeFailure DEF Failing
<1>. QED BY <1>2, <1>3, <1>4, <1>5, <1>6, <1>7, <1>8, <1>9 DEF Next, Mounting, Working

\* Where a file system shrinks a file without touching its leading bytes, every
\* segment the published manifest names has a readable file at every instant,
\* through power losses and failed writes: createSegment() precedes
\* publishManifest(), and only unnamed files are overwritten or removed.
THEOREM ManifestAlwaysBacked ==
    ASSUME ShrinkKeepsPrefix
    PROVE  Spec => []ManifestBacked
<1>1. SafeInv /\ [Next]_vars => SafeInv'
      BY SafeStep
<1>2. Spec => []SafeInv
      BY SafeInit, <1>1, PTL DEF Spec
<1>3. SafeInv => ManifestBacked
      BY DEF SafeInv
<1>. QED BY <1>2, <1>3, PTL

\* What RAM holds of the manifest is what is published, in every mounted state.
THEOREM RamAlwaysMatches ==
    ASSUME ShrinkKeepsPrefix
    PROVE  Spec => []RamMatchesManifest
<1>1. SafeInv /\ [Next]_vars => SafeInv'
      BY SafeStep
<1>2. Spec => []SafeInv
      BY SafeInit, <1>1, PTL DEF Spec
<1>3. SafeInv => RamMatchesManifest
      BY DEF SafeInv, TypeInv, RamFacts, FreshFacts, RamMatchesManifest, Scanned
<1>. QED BY <1>2, <1>3, PTL

\* Under the same condition, no step of any call, mount or failure takes an event
\* from a file the manifest names, nor reuses or removes such a file.
THEOREM LiveSegmentsAlwaysGrow ==
    ASSUME ShrinkKeepsPrefix
    PROVE  Spec => LiveSegmentsOnlyGrow
<1>1. SafeInv /\ [Next]_vars => SafeInv'
      BY SafeStep
<1>2. SafeInv /\ [Next]_vars =>
          [HasManifest => \A g \in LiveGens(manifest) :
              g \in DOMAIN segs' /\ Extends(segs'[g], segs[g])]_vars
      BY SafeStep DEF LiveGrow
<1>. QED BY SafeInit, <1>1, <1>2, PTL DEF Spec, LiveSegmentsOnlyGrow

-----------------------------------------------------------------------------
(* The log as a sequence of states.  Without compaction the files of a      *)
(* manifest ascend, and the replay of their events, one after the other,    *)
(* runs through states of records_ that are fixed once and for all.         *)

Consecutive(rs) == \A i \in DOMAIN rs : rs[i].seq = rs[1].seq + i - 1

\* The generations of a manifest in the order of the scan, the tail last.
Ascending(m) ==
    /\ \A i \in DOMAIN m.ranges : m.ranges[i].lo <= m.ranges[i].hi /\ m.ranges[i].hi < m.tail
    /\ \A i, j \in DOMAIN m.ranges : i < j => m.ranges[i].hi < m.ranges[j].lo
    /\ m.tail < m.next

\* What an event makes of the records when nothing is orphaned or ignored.
Turns(rs, e, g, ss) ==
    \/ e.type = "enq" /\ ss = Append(rs, [seq |-> e.seq, gen |-> g, val |-> e.val])
    \/ /\ e.type = "rew" /\ e.seq \in SeqsOf(rs)
       /\ ss = [rs EXCEPT ![FirstAt(rs, e.seq)] = [seq |-> e.seq, gen |-> g, val |-> e.val]]
    \/ e.type = "pop" /\ rs # <<>> /\ Head(rs).seq = e.seq /\ ss = Tail(rs)

\* t[g][k] are the records after the first k events of file g.
Traces == [Gen -> [Nat -> Seq(Record)]]
IsTrace(ss, m, t) ==
    /\ \A g \in LiveGens(m) : (\A h \in LiveGens(m) : g <= h) => t[g][0] = <<>>
    /\ \A g \in LiveGens(m) : \A k \in 1 .. Len(ss[g].events) :
          Turns(t[g][k - 1], ss[g].events[k], g, t[g][k])
    /\ \A g, h \in LiveGens(m) : g < h /\ (\A x \in LiveGens(m) : x <= g \/ h <= x) =>
          t[h][0] = t[g][Len(ss[g].events)]
EndState(ss, m, t) == t[m.tail][Len(ss[m.tail].events)]

Remembers(ss, m, t, q) ==
    /\ t \in Traces /\ IsTrace(ss, m, t)
    /\ Vals(EndState(ss, m, t)) = q /\ Consecutive(EndState(ss, m, t))

\* The files of the manifest all exist and begin with a header.
Intact(ss, m) == \A g \in LiveGens(m) : g \in DOMAIN ss /\ ss[g].hdr

LEMMA LiveOrder ==
    ASSUME NEW m \in Manifest, Ascending(m)
    PROVE  /\ m.tail \in LiveGens(m) /\ m.tail \in Gen /\ m.next \in Gen
           /\ m.ranges \in Seq(ManifestRange) /\ Len(m.ranges) \in Nat
           /\ DOMAIN m.ranges = 1 .. Len(m.ranges)
           /\ \A i \in DOMAIN m.ranges : m.ranges[i].lo \in Gen /\ m.ranges[i].hi \in Gen
           /\ \A g \in LiveGens(m) : g \in Gen /\ g \in Nat /\ g <= m.tail
           /\ \A g \in LiveGens(m) : g = m.tail \/ \E i \in DOMAIN m.ranges :
                                                  m.ranges[i].lo <= g /\ g <= m.ranges[i].hi
           /\ \A i \in DOMAIN m.ranges : \A g \in m.ranges[i].lo .. m.ranges[i].hi :
                  g \in LiveGens(m) /\ g < m.tail
<1>1. /\ m.tail \in Gen /\ m.next \in Gen /\ m.ranges \in Seq(ManifestRange)
      BY DEF Manifest
<1>2. Len(m.ranges) \in Nat /\ DOMAIN m.ranges = 1 .. Len(m.ranges)
      BY <1>1, LenProperties
<1>3. \A i \in DOMAIN m.ranges : m.ranges[i].lo \in Gen /\ m.ranges[i].hi \in Gen
  <2>1. \A i \in DOMAIN m.ranges : m.ranges[i] \in ManifestRange
        BY <1>1
  <2>. QED BY <2>1 DEF ManifestRange
<1>4. \A i \in DOMAIN m.ranges : m.ranges[i].lo <= m.ranges[i].hi /\ m.ranges[i].hi < m.tail
      BY DEF Ascending
<1>5. \A g \in LiveGens(m) : g = m.tail \/ \E i \in DOMAIN m.ranges :
                                               g \in m.ranges[i].lo .. m.ranges[i].hi
      BY DEF LiveGens, GensOf
<1>6. \A i \in DOMAIN m.ranges : \A g \in m.ranges[i].lo .. m.ranges[i].hi : g \in LiveGens(m)
      BY DEF LiveGens, GensOf
<1>7. \A g \in LiveGens(m) : g \in Gen /\ g \in Nat /\ g <= m.tail
  <2>. SUFFICES ASSUME NEW g \in LiveGens(m) PROVE g \in Gen /\ g \in Nat /\ g <= m.tail
       OBVIOUS
  <2>1. CASE g = m.tail
        BY <1>1, <2>1 DEF Gen
  <2>2. CASE g # m.tail
    <3>1. PICK i \in DOMAIN m.ranges : g \in m.ranges[i].lo .. m.ranges[i].hi
          BY <1>5, <2>2
    <3>. QED BY <1>1, <1>3, <1>4, <3>1 DEF Gen
  <2>. QED BY <2>1, <2>2
<1>8. m.tail \in LiveGens(m)
      BY DEF LiveGens
<1>9. \A i \in DOMAIN m.ranges : \A g \in m.ranges[i].lo .. m.ranges[i].hi : g < m.tail
      BY <1>1, <1>3, <1>4 DEF Gen
<1>. QED BY <1>1, <1>2, <1>3, <1>5, <1>6, <1>7, <1>8, <1>9

\* The scan starts at the lowest generation.
LEMMA ScanStartsLowest ==
    ASSUME NEW m \in Manifest, Ascending(m)
    PROVE  LET g == StartScan(m).gen IN
           /\ g \in LiveGens(m) /\ \A h \in LiveGens(m) : g <= h
           /\ m.ranges # <<>> => g = m.ranges[1].lo /\ g \in m.ranges[1].lo .. m.ranges[1].hi
           /\ m.ranges = <<>> => g = m.tail
<1>1. CASE m.ranges = <<>>
  <2>1. StartScan(m).gen = m.tail /\ LiveGens(m) = {m.tail}
        BY <1>1 DEF StartScan, LiveGens, GensOf
  <2>. QED BY <1>1, <2>1, LiveOrder
<1>2. CASE m.ranges # <<>>
  <2>1. StartScan(m).gen = m.ranges[1].lo
        BY <1>2 DEF StartScan
  <2>2. 1 \in DOMAIN m.ranges
        BY <1>2, LiveOrder, EmptySeq
  <2>3. m.ranges[1].lo \in m.ranges[1].lo .. m.ranges[1].hi
        BY <2>2, LiveOrder DEF Ascending, Gen
  <2>4. \A h \in LiveGens(m) : m.ranges[1].lo <= h
    <3>. SUFFICES ASSUME NEW h \in LiveGens(m) PROVE m.ranges[1].lo <= h
         OBVIOUS
    <3>1. CASE h = m.tail
          BY <2>2, <3>1, LiveOrder DEF Ascending, Gen
    <3>2. CASE h # m.tail
      <4>1. PICK i \in DOMAIN m.ranges : m.ranges[i].lo <= h /\ h <= m.ranges[i].hi
            BY <3>2, LiveOrder
      <4>2. i \in Nat /\ (i = 1 \/ 1 < i)
            BY LiveOrder
      <4>. QED BY <2>2, <4>1, <4>2, LiveOrder DEF Ascending, Gen
    <3>. QED BY <3>1, <3>2
  <2>. QED BY <1>2, <2>1, <2>2, <2>3, <2>4, LiveOrder
<1>. QED BY <1>1, <1>2

\* Where the scan goes on from generation g of range r.
NextGenOf(m, r, g) == IF g < m.ranges[r].hi THEN g + 1
                      ELSE IF r < Len(m.ranges) THEN m.ranges[r + 1].lo ELSE m.tail

\* It leaves out no generation of the manifest.
LEMMA ScanSkipsNone ==
    ASSUME NEW m \in Manifest, Ascending(m), NEW r \in 1 .. Len(m.ranges),
           NEW g \in m.ranges[r].lo .. m.ranges[r].hi
    PROVE  LET h == NextGenOf(m, r, g) IN
           /\ g \in LiveGens(m) /\ h \in LiveGens(m) /\ g < h
           /\ \A x \in LiveGens(m) : x <= g \/ h <= x
<1>. DEFINE h == NextGenOf(m, r, g)
<1>1. r \in DOMAIN m.ranges /\ g \in LiveGens(m) /\ g < m.tail /\ g \in Nat
      BY LiveOrder
<1>2. \A x \in LiveGens(m) : x = m.tail \/ \E i \in DOMAIN m.ranges :
                                  x \in Nat /\ m.ranges[i].lo <= x /\ x <= m.ranges[i].hi
      BY LiveOrder
<1>3. CASE g < m.ranges[r].hi
  <2>1. h = g + 1 /\ h \in m.ranges[r].lo .. m.ranges[r].hi
        BY <1>1, <1>3, LiveOrder DEF NextGenOf, Gen
  <2>2. h \in LiveGens(m)
        BY <1>1, <2>1, LiveOrder
  <2>. QED BY <1>1, <2>1, <2>2, LiveOrder
<1>4. CASE g >= m.ranges[r].hi /\ r < Len(m.ranges)
  <2>1. r + 1 \in DOMAIN m.ranges /\ h = m.ranges[r + 1].lo /\ g = m.ranges[r].hi
        BY <1>1, <1>4, LiveOrder DEF NextGenOf, Gen
  <2>2. h \in m.ranges[r + 1].lo .. m.ranges[r + 1].hi /\ g < h
    <3>1. /\ m.ranges[r].hi \in Nat /\ m.ranges[r + 1].lo \in Nat /\ m.ranges[r + 1].hi \in Nat
          /\ r \in Nat
          BY <1>1, <2>1, LiveOrder DEF Gen
    <3>2. r < r + 1
          BY <3>1
    <3>3. m.ranges[r].hi < m.ranges[r + 1].lo /\ m.ranges[r + 1].lo <= m.ranges[r + 1].hi
          BY <1>1, <2>1, <3>2 DEF Ascending
    <3>. HIDE DEF h
    <3>. QED BY <1>1, <2>1, <3>1, <3>3
  <2>3. h \in LiveGens(m)
        BY <2>1, <2>2, LiveOrder
  <2>4. \A x \in LiveGens(m) : x <= g \/ h <= x
    <3>. SUFFICES ASSUME NEW x \in LiveGens(m) PROVE x <= g \/ h <= x
         OBVIOUS
    <3>1. CASE x = m.tail
          BY <2>3, <3>1, LiveOrder
    <3>2. CASE x # m.tail
      <4>1. PICK i \in DOMAIN m.ranges : x \in Nat /\ m.ranges[i].lo <= x /\ x <= m.ranges[i].hi
            BY <1>2, <3>2
      <4>2. i \in Nat /\ r \in Nat /\ (i < r \/ i = r \/ i = r + 1 \/ r + 1 < i)
            BY LiveOrder
      <4>3. /\ m.ranges[i].lo \in Nat /\ m.ranges[i].hi \in Nat /\ m.ranges[r].lo \in Nat
            /\ m.ranges[r].hi \in Nat /\ m.ranges[r + 1].lo \in Nat /\ m.ranges[r + 1].hi \in Nat
            BY <1>1, <2>1, <4>1, LiveOrder DEF Gen
      <4>4. CASE i < r
            BY <1>1, <2>1, <4>1, <4>3, <4>4 DEF Ascending
      <4>5. CASE i = r
            BY <2>1, <4>1, <4>3, <4>5
      <4>6. CASE i = r + 1
            BY <2>1, <4>1, <4>3, <4>6
      <4>7. CASE r + 1 < i
            BY <2>1, <4>1, <4>3, <4>7 DEF Ascending
      <4>. QED BY <4>2, <4>4, <4>5, <4>6, <4>7
    <3>. QED BY <3>1, <3>2
  <2>. QED BY <1>1, <2>2, <2>3, <2>4
<1>5. CASE g >= m.ranges[r].hi /\ r >= Len(m.ranges)
  <2>1. r = Len(m.ranges) /\ h = m.tail /\ g = m.ranges[r].hi
        BY <1>1, <1>5, LiveOrder DEF NextGenOf, Gen
  <2>2. \A x \in LiveGens(m) : x <= g \/ h <= x
    <3>. SUFFICES ASSUME NEW x \in LiveGens(m) PROVE x <= g \/ h <= x
         OBVIOUS
    <3>1. CASE x = m.tail
          BY <2>1, <3>1, LiveOrder DEF Gen
    <3>2. CASE x # m.tail
      <4>1. PICK i \in DOMAIN m.ranges : x \in Nat /\ m.ranges[i].lo <= x /\ x <= m.ranges[i].hi
            BY <1>2, <3>2
      <4>2. i \in Nat /\ r \in Nat /\ (i < r \/ i = r)
            BY <2>1, LiveOrder
      <4>3. /\ m.ranges[i].lo \in Nat /\ m.ranges[i].hi \in Nat /\ m.ranges[r].lo \in Nat
            /\ m.ranges[r].hi \in Nat
            BY <1>1, <4>1, LiveOrder DEF Gen
      <4>4. CASE i < r
            BY <1>1, <2>1, <4>1, <4>3, <4>4 DEF Ascending
      <4>5. CASE i = r
            BY <2>1, <4>1, <4>3, <4>5
      <4>. QED BY <4>2, <4>4, <4>5
    <3>. QED BY <3>1, <3>2
  <2>. QED BY <1>1, <2>1, <2>2, LiveOrder
<1>6. g \in Int /\ m.ranges[r].hi \in Int /\ r \in Int /\ Len(m.ranges) \in Int
      BY <1>1, LiveOrder DEF Gen
<1>. QED BY <1>3, <1>4, <1>5, <1>6

-----------------------------------------------------------------------------
(* What the steps of the store do to records, to their payloads and to       *)
(* their numbers.                                                            *)

LEMMA ValsOf ==
    ASSUME NEW rs \in Seq(Record)
    PROVE  Vals(rs) \in Seq(Val) /\ Len(Vals(rs)) = Len(rs) /\ (rs = <<>> => Vals(rs) = <<>>)
<1>1. DOMAIN rs = 1 .. Len(rs) /\ Len(rs) \in Nat
      BY LenProperties
<1>2. \A i \in 1 .. Len(rs) : rs[i].val \in Val
  <2>1. \A i \in 1 .. Len(rs) : rs[i] \in Record
        BY <1>1
  <2>. QED BY <2>1 DEF Record
<1>3. Vals(rs) = [i \in 1 .. Len(rs) |-> rs[i].val]
      BY <1>1 DEF Vals
<1>. QED BY <1>1, <1>2, <1>3

LEMMA ValsOfAppend ==
    ASSUME NEW rs \in Seq(Record), NEW r \in Record
    PROVE  Vals(Append(rs, r)) = Append(Vals(rs), r.val)
<1>1. /\ Append(rs, r) \in Seq(Record) /\ Len(Append(rs, r)) = Len(rs) + 1
      /\ Len(rs) \in Nat /\ r.val \in Val
      BY LenProperties DEF Record
<1>2. /\ Vals(rs) \in Seq(Val) /\ Len(Vals(rs)) = Len(rs) /\ Len(rs) \in Nat
      /\ Vals(Append(rs, r)) \in Seq(Val) /\ Len(Vals(Append(rs, r))) = Len(rs) + 1
      BY <1>1, ValsOf
<1>3. Append(Vals(rs), r.val) \in Seq(Val) /\ Len(Append(Vals(rs), r.val)) = Len(rs) + 1
      BY <1>1, <1>2
<1>4. \A i \in 1 .. Len(rs) + 1 : Vals(Append(rs, r))[i] = Append(Vals(rs), r.val)[i]
  <2>. SUFFICES ASSUME NEW i \in 1 .. Len(rs) + 1
                PROVE  Vals(Append(rs, r))[i] = Append(Vals(rs), r.val)[i]
       OBVIOUS
  <2>1. i \in DOMAIN Append(rs, r)
        OBVIOUS
  <2>2. Vals(Append(rs, r))[i] = Append(rs, r)[i].val
        BY <2>1 DEF Vals
  <2>3. CASE i = Len(rs) + 1
        BY <1>1, <1>2, <2>2, <2>3
  <2>4. CASE i # Len(rs) + 1
    <3>1. i \in 1 .. Len(rs) /\ i \in DOMAIN rs
          BY <1>2, <2>4
    <3>2. Vals(rs)[i] = rs[i].val
          BY <3>1 DEF Vals
    <3>. QED BY <1>1, <1>2, <2>2, <3>1, <3>2
  <2>. QED BY <2>3, <2>4
<1>. QED BY <1>2, <1>3, <1>4, SeqEqual

LEMMA ValsOfTail ==
    ASSUME NEW rs \in Seq(Record), rs # <<>>
    PROVE  Vals(Tail(rs)) = Tail(Vals(rs))
<1>1. Tail(rs) \in Seq(Record) /\ Len(Tail(rs)) = Len(rs) - 1 /\ Len(rs) \in Nat \ {0}
      BY HeadTailProperties, EmptySeq
<1>2. /\ Vals(rs) \in Seq(Val) /\ Len(Vals(rs)) = Len(rs)
      /\ Vals(Tail(rs)) \in Seq(Val) /\ Len(Vals(Tail(rs))) = Len(rs) - 1
      BY <1>1, ValsOf
<1>3. Vals(rs) # <<>>
      BY <1>1, <1>2
<1>4. Tail(Vals(rs)) \in Seq(Val) /\ Len(Tail(Vals(rs))) = Len(rs) - 1
      BY <1>2, <1>3, HeadTailProperties
<1>5. \A i \in 1 .. Len(rs) - 1 : Vals(Tail(rs))[i] = Tail(Vals(rs))[i]
  <2>. SUFFICES ASSUME NEW i \in 1 .. Len(rs) - 1
                PROVE  Vals(Tail(rs))[i] = Tail(Vals(rs))[i]
       OBVIOUS
  <2>1. i \in DOMAIN Tail(rs) /\ i + 1 \in DOMAIN rs
        BY <1>1
  <2>2. Vals(Tail(rs))[i] = Tail(rs)[i].val /\ Vals(rs)[i + 1] = rs[i + 1].val
        BY <2>1 DEF Vals
  <2>3. Tail(rs)[i] = rs[i + 1] /\ Tail(Vals(rs))[i] = Vals(rs)[i + 1]
        BY <1>1, <1>2, <1>3, HeadTailProperties
  <2>. QED BY <2>2, <2>3
<1>. QED BY <1>2, <1>4, <1>5, SeqEqual

LEMMA ValsOfExcept ==
    ASSUME NEW rs \in Seq(Record), NEW i \in DOMAIN rs, NEW r \in Record
    PROVE  Vals([rs EXCEPT ![i] = r]) = [Vals(rs) EXCEPT ![i] = r.val]
<1>1. DOMAIN [rs EXCEPT ![i] = r] = DOMAIN rs
      OBVIOUS
<1>2. \A j \in DOMAIN rs : [rs EXCEPT ![i] = r][j].val = [Vals(rs) EXCEPT ![i] = r.val][j]
      BY DEF Vals
<1>. QED BY <1>1, <1>2 DEF Vals

\* Consecutive numbers stay consecutive.
LEMMA ConsecutiveSteps ==
    ASSUME NEW rs \in Seq(Record), Consecutive(rs), NEW r \in Record
    PROVE  /\ (rs = <<>> \/ r.seq = rs[Len(rs)].seq + 1) => Consecutive(Append(rs, r))
           /\ rs # <<>> => Consecutive(Tail(rs))
           /\ \A i \in DOMAIN rs : r.seq = rs[i].seq => Consecutive([rs EXCEPT ![i] = r])
<1>1. DOMAIN rs = 1 .. Len(rs) /\ Len(rs) \in Nat
      BY LenProperties
<1>2. \A i \in 1 .. Len(rs) : rs[i].seq \in Nat
  <2>1. \A i \in 1 .. Len(rs) : rs[i] \in Record
        BY <1>1
  <2>. QED BY <2>1 DEF Record
<1>3. \A i \in 1 .. Len(rs) : rs[i].seq = rs[1].seq + i - 1
      BY <1>1 DEF Consecutive
<1>4. ASSUME rs = <<>> \/ r.seq = rs[Len(rs)].seq + 1
      PROVE  Consecutive(Append(rs, r))
  <2>1. r.seq \in Nat
        BY DEF Record
  <2>2. CASE rs = <<>>
    <3>1. Append(rs, r) = <<r>>
          BY <2>2
    <3>. QED BY <2>1, <3>1 DEF Consecutive
  <2>3. CASE rs # <<>>
    <3>. DEFINE us == Append(rs, r)
    <3>1. /\ DOMAIN us = 1 .. Len(rs) + 1 /\ us[Len(rs) + 1] = r
          /\ \A i \in 1 .. Len(rs) : us[i] = rs[i]
          BY <1>1
    <3>2. Len(rs) # 0
          BY <2>3
    <3>3. rs[Len(rs)].seq = rs[1].seq + Len(rs) - 1 /\ rs[1].seq \in Nat /\ rs[Len(rs)].seq \in Nat
          BY <1>1, <1>2, <1>3, <3>2
    <3>4. us[1] = rs[1]
          BY <1>1, <3>1, <3>2
    <3>5. \A i \in 1 .. Len(rs) + 1 : us[i].seq = us[1].seq + i - 1
      <4>. HIDE DEF us
      <4>. SUFFICES ASSUME NEW i \in 1 .. Len(rs) + 1 PROVE us[i].seq = us[1].seq + i - 1
           OBVIOUS
      <4>1. CASE i = Len(rs) + 1
            BY <1>1, <1>4, <2>3, <3>1, <3>3, <3>4, <4>1
      <4>2. CASE i # Len(rs) + 1
            BY <1>1, <1>3, <3>1, <3>4, <4>2
      <4>. QED BY <4>1, <4>2
    <3>. QED BY <3>1, <3>5 DEF Consecutive
  <2>. QED BY <2>2, <2>3
<1>5. ASSUME rs # <<>>
      PROVE  Consecutive(Tail(rs))
  <2>1. /\ Tail(rs) \in Seq(Record) /\ Len(Tail(rs)) = Len(rs) - 1 /\ Len(rs) # 0
        /\ \A i \in 1 .. Len(Tail(rs)) : Tail(rs)[i] = rs[i + 1]
        BY <1>5, HeadTailProperties, EmptySeq
  <2>2. DOMAIN Tail(rs) = 1 .. Len(rs) - 1
        BY <2>1, LenProperties
  <2>3. \A i \in 1 .. Len(rs) - 1 : Tail(rs)[i].seq = Tail(rs)[1].seq + i - 1
    <3>. SUFFICES ASSUME NEW i \in 1 .. Len(rs) - 1
                  PROVE  Tail(rs)[i].seq = Tail(rs)[1].seq + i - 1
         OBVIOUS
    <3>1. Tail(rs)[i] = rs[i + 1] /\ Tail(rs)[1] = rs[2]
          BY <1>1, <2>1
    <3>2. rs[i + 1].seq = rs[1].seq + (i + 1) - 1 /\ rs[2].seq = rs[1].seq + 2 - 1
          BY <1>1, <1>3
    <3>. QED BY <1>1, <1>2, <3>1, <3>2
  <2>. QED BY <2>2, <2>3 DEF Consecutive
<1>6. ASSUME NEW i \in DOMAIN rs, r.seq = rs[i].seq
      PROVE  Consecutive([rs EXCEPT ![i] = r])
  <2>1. \A j \in DOMAIN rs : [rs EXCEPT ![i] = r][j].seq = rs[j].seq
        BY <1>6
  <2>2. DOMAIN rs # {} => 1 \in DOMAIN rs
        BY <1>1
  <2>. QED BY <2>1, <2>2 DEF Consecutive
<1>. QED BY <1>4, <1>5, <1>6

-----------------------------------------------------------------------------
(* The invariant of the log: what the files hold is the queue.              *)

\* There is no compaction.
Plain == plan = NoPlan /\ pc \notin {"resolve", "write", "publish", "cleanup"}

OrderFacts ==
    HasManifest => /\ Ascending(manifest)
                   /\ (pc = "replay" \/ Scanned) => manifest.next <= nextGen

NewTailFacts == pc = "publishTail" => nextGen \in DOMAIN segs /\ segs[nextGen] = EmptySegment

\* The files before the scan's were readable, and it passed no event it did not read.
CursorFacts ==
    pc = "replay" =>
        /\ scan.r <= Len(ranges) => scan.gen \in ranges[scan.r].lo .. ranges[scan.r].hi
        /\ \A g \in LiveGens(manifest) : g < scan.gen => SegmentReadable(g)
        /\ SegmentReadable(scan.gen) => scan.ev <= Len(segs[scan.gen].events) + 1

\* A replay of the files gives the queue, in consecutive sequences; the scan is on
\* its way there, and from its end on records_ is what it gives.
LogFacts ==
    HasManifest /\ Intact(segs, manifest) =>
        \E t \in Traces : /\ Remembers(segs, manifest, t, queue)
                          /\ pc = "replay" => records = t[scan.gen][scan.ev - 1]
                          /\ Scanned => records = EndState(segs, manifest, t)

\* Records in RAM, also those of a tail that a truncation has wiped.
RamLog == Scanned => Vals(records) = queue /\ Consecutive(records)
NoLog  == ~HasManifest => queue = <<>>

\* Each call was made for the records as they are.
CallFits ==
    /\ call.op = "enqueue" /\ records # <<>> => call.seq = records[Len(records)].seq + 1
    /\ call.op = "pop" => call.seq = Head(records).seq

LogInv == /\ TypeInv /\ Plain /\ OrderFacts /\ NewTailFacts /\ CursorFacts
          /\ LogFacts /\ RamLog /\ NoLog /\ CallFits

LEMMA LogInit == Init => LogInv
<1>. SUFFICES ASSUME Init PROVE LogInv
     OBVIOUS
<1>1. TypeInv
      BY TypeInit
<1>2. pc = "down" /\ ~HasManifest /\ plan = NoPlan /\ queue = <<>> /\ call = Idle
      BY DEF Init, Unmounted, HasManifest
<1>. QED BY <1>1, <1>2 DEF LogInv, Plain, OrderFacts, NewTailFacts, CursorFacts, LogFacts, RamLog,
                           NoLog, CallFits, Scanned, Mounted, Idle

\* A log is told by the events of its files.
LEMMA TraceCarries ==
    ASSUME NEW ss, NEW uu, NEW m, NEW t, \A g \in LiveGens(m) : uu[g].events = ss[g].events
    PROVE  /\ IsTrace(ss, m, t) => IsTrace(uu, m, t)
           /\ EndState(uu, m, t) = EndState(ss, m, t)
<1>1. m.tail \in LiveGens(m)
      BY DEF LiveGens
<1>2. EndState(uu, m, t) = EndState(ss, m, t)
      BY <1>1 DEF EndState
<1>3. ASSUME IsTrace(ss, m, t) PROVE IsTrace(uu, m, t)
      BY <1>3 DEF IsTrace
<1>. QED BY <1>2, <1>3

\* The steps that leave the events of the manifest's files and the queue alone.
LEMMA LogKept ==
    ASSUME LogFacts, UNCHANGED <<manifest, queue>>,
           HasManifest /\ Intact(segs', manifest) =>
               /\ Intact(segs, manifest)
               /\ \A g \in LiveGens(manifest) : segs'[g].events = segs[g].events,
           pc' = "replay" => pc = "replay" /\ UNCHANGED <<records, scan>>,
           Scanned' => Scanned /\ UNCHANGED records
    PROVE  LogFacts'
<1>. SUFFICES ASSUME HasManifest, Intact(segs', manifest)
              PROVE  \E t \in Traces : /\ Remembers(segs', manifest, t, queue)
                                       /\ pc' = "replay" => records' = t[scan'.gen][scan'.ev - 1]
                                       /\ Scanned' => records' = EndState(segs', manifest, t)
     BY DEF LogFacts, HasManifest
<1>1. PICK t \in Traces : /\ Remembers(segs, manifest, t, queue)
                          /\ pc = "replay" => records = t[scan.gen][scan.ev - 1]
                          /\ Scanned => records = EndState(segs, manifest, t)
      BY DEF LogFacts
<1>2. /\ IsTrace(segs, manifest, t) => IsTrace(segs', manifest, t)
      /\ EndState(segs', manifest, t) = EndState(segs, manifest, t)
      BY TraceCarries
<1>3. Remembers(segs', manifest, t, queue)
      BY <1>1, <1>2 DEF Remembers
<1>. QED BY <1>1, <1>2, <1>3

\* mount() begins: nothing is replayed yet.
LEMMA LogMountBegin == LogInv /\ MountBegin => LogInv'
<1>. SUFFICES ASSUME LogInv, MountBegin PROVE LogInv'
     OBVIOUS
<1>1. TypeInv' /\ TypeInv
      BY MountBeginKeeps DEF LogInv
<1>2. /\ UNCHANGED <<segs, manifest, call, plan, queue, issued, failures>> /\ records' = <<>>
      /\ pc \in {"down", "failed"} /\ pc' \in {"replay", "sweep", "failed"} /\ call = Idle
      BY DEF MountBegin, disk, LogInv, TypeInv, CallFacts
<1>3. Plain' /\ NewTailFacts' /\ NoLog' /\ CallFits'
      BY <1>2 DEF LogInv, Plain, NewTailFacts, NoLog, CallFits, HasManifest, Idle
<1>4. CASE HasManifest
  <2>1. /\ pc' = "replay" /\ ranges' = manifest.ranges /\ scan' = StartScan(manifest)
        /\ nextGen' = AdvancePast(manifest.next)
        BY <1>4 DEF MountBegin
  <2>2. /\ manifest \in Manifest /\ Ascending(manifest) /\ manifest.next \in Gen
        /\ IsFiniteSet(DOMAIN segs) /\ DOMAIN segs \subseteq Gen
        BY <1>1, <1>4 DEF LogInv, TypeInv, TypeOK, HasManifest, OrderFacts, Manifest, SegmentFiles
  <2>3. OrderFacts'
        BY <1>2, <2>1, <2>2, AdvancePastIsFresh DEF OrderFacts, HasManifest
  <2>. DEFINE g == StartScan(manifest).gen
  <2>4. /\ g \in LiveGens(manifest) /\ \A h \in LiveGens(manifest) : g <= h
        /\ manifest.ranges # <<>> => g \in manifest.ranges[1].lo .. manifest.ranges[1].hi
        BY <2>2, ScanStartsLowest
  <2>5. scan'.r = 1 /\ scan'.ev = 1 /\ scan'.gen = g
        BY <2>1 DEF StartScan
  <2>6. CursorFacts'
    <3>1. scan'.r <= Len(ranges') => scan'.gen \in ranges'[scan'.r].lo .. ranges'[scan'.r].hi
          BY <2>1, <2>2, <2>4, <2>5, LiveOrder, EmptySeq
    <3>2. \A h \in LiveGens(manifest') : ~(h < scan'.gen)
      <4>. HIDE DEF g
      <4>1. g \in Nat /\ \A h \in LiveGens(manifest) : h \in Nat /\ g <= h
            BY <2>2, <2>4, LiveOrder
      <4>2. LiveGens(manifest') = LiveGens(manifest) /\ scan'.gen = g
            BY <1>2, <2>5
      <4>. QED BY <4>1, <4>2
    <3>3. SegmentReadable(scan.gen)' => scan'.ev <= Len(segs'[scan'.gen].events) + 1
      <4>1. ASSUME SegmentReadable(scan.gen)' PROVE Len(segs'[scan'.gen].events) \in Nat
        <5>1. segs'[scan'.gen] \in Segment
              BY <1>1, <4>1 DEF SegmentReadable, TypeInv, TypeOK, SegmentFiles
        <5>. QED BY <5>1 DEF Segment
      <4>. QED BY <2>5, <4>1
    <3>. QED BY <3>1, <3>2, <3>3 DEF CursorFacts
  <2>7. LogFacts'
    <3>. SUFFICES ASSUME Intact(segs, manifest)
                  PROVE  \E t \in Traces : /\ Remembers(segs, manifest, t, queue)
                                           /\ records' = t[g][0]
         BY <1>2, <1>4, <2>1, <2>5 DEF LogFacts, HasManifest, Scanned, Mounted
    <3>1. PICK t \in Traces : Remembers(segs, manifest, t, queue)
          BY <1>4 DEF LogInv, LogFacts
    <3>2. t[g][0] = <<>>
          BY <2>4, <3>1 DEF Remembers, IsTrace
    <3>. QED BY <1>2, <3>1, <3>2
  <2>8. RamLog'
        BY <2>1 DEF RamLog, Scanned, Mounted
  <2>. QED BY <1>1, <1>3, <2>3, <2>6, <2>7, <2>8 DEF LogInv
<1>5. CASE ~HasManifest
  <2>1. ~HasManifest' /\ pc' # "replay"
        BY <1>2, <1>5 DEF MountBegin, HasManifest
  <2>2. queue' = <<>> /\ Vals(<<>>) = <<>> /\ Consecutive(<<>>)
        BY <1>2, <1>5 DEF LogInv, NoLog, Vals, Consecutive
  <2>. QED BY <1>1, <1>2, <1>3, <2>1, <2>2 DEF LogInv, OrderFacts, CursorFacts, LogFacts, RamLog
<1>. QED BY <1>4, <1>5

\* One event is read: the scan does what the trace says.
LEMMA LogReplayEvent == LogInv /\ ReplayEvent => LogInv'
<1>. SUFFICES ASSUME LogInv, ReplayEvent PROVE LogInv'
     OBVIOUS
<1>. DEFINE g == scan.gen
            e == segs[scan.gen].events[scan.ev]
<1>1. TypeInv' /\ TypeInv
      BY ReplayEventKeeps DEF LogInv
<1>2. /\ UNCHANGED <<segs, manifest, ranges, nextGen, pc, call, plan, queue>>
      /\ pc = "replay" /\ HasManifest /\ call = Idle /\ SegmentReadable(g)
      /\ scan.ev <= Len(segs[g].events) /\ scan' = [scan EXCEPT !.ev = @ + 1]
      BY <1>1 DEF ReplayEvent, disk, TypeInv, CallFacts, ReplayFacts
<1>3. /\ scan.ev \in Nat \ {0} /\ scan'.ev = scan.ev + 1 /\ scan'.gen = g /\ scan'.r = scan.r
      /\ Len(segs[g].events) \in Nat
  <2>1. scan \in [r : Nat \ {0}, gen : Nat, ev : Nat \ {0}]
        BY <1>1 DEF TypeInv, TypeOK
  <2>2. segs[g] \in Segment
        BY <1>1, <1>2 DEF SegmentReadable, TypeInv, TypeOK, SegmentFiles
  <2>. QED BY <1>2, <2>1, <2>2 DEF Segment
<1>4. Plain' /\ OrderFacts' /\ NewTailFacts' /\ NoLog' /\ CallFits' /\ RamLog'
      BY <1>2 DEF LogInv, Plain, OrderFacts, NewTailFacts, NoLog, CallFits, RamLog, HasManifest, Idle,
                  Scanned, Mounted
<1>5. CursorFacts'
      BY <1>2, <1>3 DEF LogInv, CursorFacts, SegmentReadable
<1>6. g \in LiveGens(manifest)
  <2>1. /\ manifest \in Manifest /\ Ascending(manifest) /\ ranges = manifest.ranges
        /\ scan.r > Len(ranges) => g = manifest.tail
        /\ scan.r <= Len(ranges) => g \in ranges[scan.r].lo .. ranges[scan.r].hi
        /\ scan.r \in Nat \ {0} /\ Len(ranges) \in Nat
        BY <1>1, <1>2 DEF LogInv, TypeInv, TypeOK, HasManifest, OrderFacts, ReplayFacts, CursorFacts
  <2>2. CASE scan.r <= Len(ranges)
    <3>1. scan.r \in DOMAIN manifest.ranges
          BY <2>1, <2>2, LiveOrder
    <3>. QED BY <2>1, <2>2, <3>1, LiveOrder
  <2>3. CASE scan.r > Len(ranges)
        BY <2>1, <2>3, LiveOrder
  <2>. QED BY <2>1, <2>2, <2>3
<1>7. LogFacts'
  <2>. SUFFICES ASSUME Intact(segs, manifest)
                PROVE  \E t \in Traces : /\ Remembers(segs, manifest, t, queue)
                                         /\ records' = t[g][scan'.ev - 1]
       BY <1>2, <1>3 DEF LogFacts, HasManifest, Scanned, Mounted
  <2>1. PICK t \in Traces : /\ Remembers(segs, manifest, t, queue)
                            /\ records = t[g][scan.ev - 1]
        BY <1>2 DEF LogInv, LogFacts
  <2>2. scan.ev \in 1 .. Len(segs[g].events)
        BY <1>2, <1>3
  <2>3. Turns(records, e, g, t[g][scan.ev])
        BY <1>6, <2>1, <2>2 DEF Remembers, IsTrace
  <2>4. records' = t[g][scan.ev]
    <3>1. \/ e.type = "enq" /\ records' = Append(records, Located(e))
          \/ e.type = "rew" /\ e.seq \in SeqsOf(records)
             /\ records' = [records EXCEPT ![FirstAt(records, e.seq)] = Located(e)]
          \/ e.type = "rew" /\ e.seq \notin SeqsOf(records)
          \/ e.type = "pop" /\ IsFront(e) /\ records' = Tail(records)
          \/ e.type = "pop" /\ ~IsFront(e)
          BY DEF ReplayEvent
    <3>2. CASE e.type = "enq"
          BY <2>3, <3>1, <3>2 DEF Turns, Located
    <3>3. CASE e.type = "rew"
          BY <2>3, <3>1, <3>3 DEF Turns, Located
    <3>4. CASE e.type = "pop"
          BY <2>3, <3>1, <3>4 DEF Turns, IsFront
    <3>. HIDE DEF e
    <3>. QED BY <3>1, <3>2, <3>3, <3>4
  <2>. QED BY <1>3, <2>1, <2>4
<1>. QED BY <1>1, <1>4, <1>5, <1>7 DEF LogInv

\* The scan is always in a file of the manifest.
LEMMA ScanIsLive ==
    ASSUME LogInv, pc = "replay"
    PROVE  /\ HasManifest /\ manifest \in Manifest /\ Ascending(manifest) /\ ranges = manifest.ranges
           /\ scan.r \in Nat \ {0} /\ scan.gen \in Nat /\ scan.ev \in Nat \ {0}
           /\ Len(ranges) \in Nat
           /\ scan.gen \in LiveGens(manifest)
<1>1. /\ HasManifest /\ manifest \in Manifest /\ Ascending(manifest) /\ ranges = manifest.ranges
      /\ scan.r > Len(ranges) => scan.gen = manifest.tail
      /\ scan.r <= Len(ranges) => scan.gen \in ranges[scan.r].lo .. ranges[scan.r].hi
      /\ scan.r \in Nat \ {0} /\ scan.gen \in Nat /\ scan.ev \in Nat \ {0} /\ Len(ranges) \in Nat
      BY DEF LogInv, TypeInv, TypeOK, HasManifest, OrderFacts, ReplayFacts, CursorFacts
<1>2. CASE scan.r <= Len(ranges)
  <2>1. scan.r \in DOMAIN manifest.ranges
        BY <1>1, <1>2, LiveOrder
  <2>. QED BY <1>1, <1>2, <2>1, LiveOrder
<1>3. CASE scan.r > Len(ranges)
      BY <1>1, <1>3, LiveOrder
<1>. QED BY <1>1, <1>2, <1>3

\* At the end of a file the records are those after all of its events.
LEMMA EndOfFile ==
    ASSUME LogInv, AtSegmentEnd
    PROVE  /\ pc = "replay" /\ SegmentReadable(scan.gen)
           /\ Len(segs[scan.gen].events) \in Nat
           /\ scan.ev - 1 = Len(segs[scan.gen].events)
<1>1. pc = "replay" /\ SegmentReadable(scan.gen) /\ scan.ev > Len(segs[scan.gen].events)
      BY DEF AtSegmentEnd
<1>2. segs[scan.gen] \in Segment /\ scan.ev \in Nat \ {0}
      BY <1>1, ScanIsLive DEF SegmentReadable, LogInv, TypeInv, TypeOK, SegmentFiles
<1>3. Len(segs[scan.gen].events) \in Nat
      BY <1>2 DEF Segment
<1>4. scan.ev <= Len(segs[scan.gen].events) + 1
      BY <1>1 DEF LogInv, CursorFacts
<1>. QED BY <1>1, <1>2, <1>3, <1>4

LEMMA LogReplayNextSegment == LogInv /\ ReplayNextSegment => LogInv'
<1>. SUFFICES ASSUME LogInv, ReplayNextSegment PROVE LogInv'
     OBVIOUS
<1>. DEFINE g == scan.gen
            h == NextGenOf(manifest, scan.r, g)
<1>1. TypeInv'
      BY ScanStepKeeps DEF LogInv
<1>2. /\ UNCHANGED <<segs, manifest, records, ranges, nextGen, pc, call, plan, queue>>
      /\ AtSegmentEnd /\ scan.r <= Len(ranges) /\ pc = "replay"
      /\ scan' = IF scan.gen < ranges[scan.r].hi
                 THEN [r |-> scan.r, ev |-> 1, gen |-> scan.gen + 1]
                 ELSE [r |-> scan.r + 1, ev |-> 1,
                       gen |-> IF scan.r < Len(ranges) THEN ranges[scan.r + 1].lo
                               ELSE manifest.tail]
  <2>1. ~(scan.r > Len(ranges)) /\ pc = "replay"
        BY DEF ReplayNextSegment, OnLastSegment, AtSegmentEnd
  <2>2. scan.r \in Nat /\ Len(ranges) \in Nat
        BY <2>1, ScanIsLive
  <2>. QED BY <2>1, <2>2 DEF ReplayNextSegment, disk
<1>3. /\ HasManifest /\ manifest \in Manifest /\ Ascending(manifest) /\ ranges = manifest.ranges
      /\ scan.r \in 1 .. Len(manifest.ranges) /\ scan.gen \in LiveGens(manifest)
      BY <1>2, ScanIsLive
<1>4. g \in manifest.ranges[scan.r].lo .. manifest.ranges[scan.r].hi
      BY <1>2, <1>3 DEF LogInv, CursorFacts
<1>5. h \in LiveGens(manifest) /\ g < h /\ \A x \in LiveGens(manifest) : x <= g \/ h <= x
      BY <1>3, <1>4, ScanSkipsNone
<1>6. scan'.gen = h /\ scan'.ev = 1
      BY <1>2, <1>3 DEF NextGenOf
<1>7. Plain' /\ OrderFacts' /\ NewTailFacts' /\ NoLog' /\ CallFits' /\ RamLog'
      BY <1>2 DEF LogInv, Plain, OrderFacts, NewTailFacts, NoLog, CallFits, RamLog, HasManifest, Idle,
                  Scanned, Mounted
<1>8. CursorFacts'
  <2>1. scan'.r <= Len(ranges') => scan'.gen \in ranges'[scan'.r].lo .. ranges'[scan'.r].hi
    <3>1. /\ \A i \in DOMAIN manifest.ranges : /\ manifest.ranges[i].lo \in Nat
                                               /\ manifest.ranges[i].hi \in Nat
                                               /\ manifest.ranges[i].lo <= manifest.ranges[i].hi
          /\ DOMAIN manifest.ranges = 1 .. Len(manifest.ranges) /\ Len(manifest.ranges) \in Nat
      <4>1. /\ \A i \in DOMAIN manifest.ranges : manifest.ranges[i].lo \in Gen
                                               /\ manifest.ranges[i].hi \in Gen
            /\ DOMAIN manifest.ranges = 1 .. Len(manifest.ranges) /\ Len(manifest.ranges) \in Nat
            BY <1>3, LiveOrder
      <4>. QED BY <1>3, <4>1 DEF Ascending, Gen
    <3>2. CASE scan.gen < ranges[scan.r].hi
      <4>1. scan' = [r |-> scan.r, ev |-> 1, gen |-> scan.gen + 1]
            BY <1>2, <3>2
      <4>. QED BY <1>2, <1>3, <1>4, <3>1, <3>2, <4>1
    <3>3. CASE ~(scan.gen < ranges[scan.r].hi)
      <4>1. scan'.r = scan.r + 1 /\ scan'.gen = IF scan.r < Len(ranges) THEN ranges[scan.r + 1].lo
                                                ELSE manifest.tail
            BY <1>2, <3>3
      <4>2. scan.r < Len(ranges) => scan.r + 1 \in DOMAIN manifest.ranges
            BY <1>3, <3>1
      <4>. QED BY <1>2, <1>3, <3>1, <4>1, <4>2
    <3>. QED BY <3>2, <3>3
  <2>2. \A x \in LiveGens(manifest) : x < h => SegmentReadable(x)
    <3>1. \A x \in LiveGens(manifest) : x < g => SegmentReadable(x)
          BY <1>2 DEF LogInv, CursorFacts
    <3>2. SegmentReadable(g)
          BY <1>2, EndOfFile
    <3>3. g \in Nat /\ h \in Nat /\ \A x \in LiveGens(manifest) : x \in Nat
          BY <1>3, <1>5, LiveOrder
    <3>. HIDE DEF g, h
    <3>. QED BY <1>5, <3>1, <3>2, <3>3
  <2>3. SegmentReadable(scan'.gen) => Len(segs[scan'.gen].events) \in Nat
    <3>1. SegmentReadable(scan'.gen) => segs[scan'.gen] \in Segment
          BY DEF SegmentReadable, LogInv, TypeInv, TypeOK, SegmentFiles
    <3>. QED BY <3>1 DEF Segment
  <2>. HIDE DEF h
  <2>4. \A x \in LiveGens(manifest') : x < scan'.gen => SegmentReadable(x)'
        BY <1>2, <1>6, <2>2 DEF SegmentReadable
  <2>5. (segs'[scan'.gen].hdr /\ scan'.gen \in DOMAIN segs' /\ segs'[scan'.gen].size >= HeaderBytes)
            => scan'.ev <= Len(segs'[scan'.gen].events) + 1
    <3>1. segs' = segs /\ scan'.ev = 1
          BY <1>2, <1>6
    <3>2. (segs[scan'.gen].hdr /\ scan'.gen \in DOMAIN segs /\ segs[scan'.gen].size >= HeaderBytes)
              => 1 <= Len(segs[scan'.gen].events) + 1
          BY <2>3 DEF SegmentReadable
    <3>. QED BY <3>1, <3>2
  <2>. QED BY <2>1, <2>4, <2>5 DEF CursorFacts, SegmentReadable
<1>9. LogFacts'
  <2>. SUFFICES ASSUME Intact(segs, manifest)
                PROVE  \E t \in Traces : /\ Remembers(segs, manifest, t, queue)
                                         /\ records = t[h][0]
       BY <1>2, <1>6 DEF LogFacts, HasManifest, Scanned, Mounted
  <2>1. PICK t \in Traces : /\ Remembers(segs, manifest, t, queue)
                            /\ records = t[g][scan.ev - 1]
        BY <1>2, <1>3 DEF LogInv, LogFacts
  <2>2. t[h][0] = t[g][Len(segs[g].events)]
        BY <1>3, <1>5, <2>1 DEF Remembers, IsTrace
  <2>. QED BY <1>2, <2>1, <2>2, EndOfFile
<1>. QED BY <1>1, <1>7, <1>8, <1>9 DEF LogInv

\* The last file is read: records_ is the queue.
LEMMA LogReplayDone == LogInv /\ ReplayDone => LogInv'
<1>. SUFFICES ASSUME LogInv, ReplayDone PROVE LogInv'
     OBVIOUS
<1>. DEFINE g == scan.gen
<1>1. TypeInv'
      BY ScanStepKeeps DEF LogInv
<1>2. /\ UNCHANGED <<segs, manifest, records, ranges, nextGen, call, scan, plan, queue>>
      /\ AtSegmentEnd /\ pc = "replay" /\ pc' \in {"truncate", "sweep"} /\ scan.r > Len(ranges)
      BY DEF ReplayDone, AtSegmentEnd, OnLastSegment, disk
<1>3. /\ HasManifest /\ manifest \in Manifest /\ Ascending(manifest)
      /\ g = manifest.tail /\ SegmentReadable(g) /\ scan.ev - 1 = Len(segs[g].events)
      BY <1>2, ScanIsLive, EndOfFile DEF LogInv, TypeInv, ReplayFacts
<1>4. \A x \in LiveGens(manifest) : SegmentReadable(x)
  <2>1. \A x \in LiveGens(manifest) : x < g \/ x = g
        BY <1>3, LiveOrder DEF Gen
  <2>2. \A x \in LiveGens(manifest) : x < g => SegmentReadable(x)
        BY <1>2 DEF LogInv, CursorFacts
  <2>. QED BY <1>3, <2>1, <2>2
<1>5. Intact(segs, manifest)
      BY <1>4 DEF Intact, SegmentReadable
<1>6. PICK t \in Traces : Remembers(segs, manifest, t, queue) /\ records = t[g][scan.ev - 1]
      BY <1>2, <1>3, <1>5 DEF LogInv, LogFacts
<1>7. records = EndState(segs, manifest, t)
      BY <1>3, <1>6 DEF EndState
<1>8. LogFacts' /\ RamLog'
      BY <1>2, <1>6, <1>7 DEF LogFacts, RamLog, Remembers
<1>9. Plain' /\ OrderFacts' /\ NewTailFacts' /\ NoLog' /\ CallFits' /\ CursorFacts'
      BY <1>2 DEF LogInv, Plain, OrderFacts, NewTailFacts, NoLog, CallFits, CursorFacts, HasManifest
<1>. QED BY <1>1, <1>8, <1>9 DEF LogInv

LEMMA LogMountFails == LogInv /\ (ReplayUnreadable \/ ReplayTornSealed) => LogInv'
<1>. SUFFICES ASSUME LogInv, ReplayUnreadable \/ ReplayTornSealed PROVE LogInv'
     OBVIOUS
<1>1. TypeInv'
      BY ScanStepKeeps DEF LogInv
<1>2. /\ UNCHANGED <<segs, manifest, records, ranges, nextGen, call, scan, plan, queue>>
      /\ pc' = "failed" /\ ~Scanned'
      BY DEF ReplayUnreadable, ReplayTornSealed, FailMount, disk, ram, Scanned, Mounted
<1>3. LogFacts'
      BY <1>2, LogKept DEF LogInv
<1>4. Plain' /\ OrderFacts' /\ NewTailFacts' /\ NoLog' /\ CallFits' /\ CursorFacts' /\ RamLog'
      BY <1>2 DEF LogInv, Plain, OrderFacts, NewTailFacts, NoLog, CallFits, CursorFacts, RamLog,
                  HasManifest
<1>. QED BY <1>1, <1>3, <1>4 DEF LogInv

\* Whatever mount() removes or truncates, the events of a log that is still intact
\* are those it had.
LEMMA LogEndOfMount == LogInv /\ (TruncateTail \/ MountDone) => LogInv'
<1>. SUFFICES ASSUME LogInv, TruncateTail \/ MountDone PROVE LogInv'
     OBVIOUS
<1>1. TypeInv'
      BY EndOfMountKeeps DEF LogInv
<1>2. /\ UNCHANGED <<manifest, records, ranges, nextGen, call, scan, plan, queue>>
      /\ Scanned /\ pc' \in {"sweep", "idle"} /\ call = Idle
      BY DEF TruncateTail, MountDone, ram, Scanned, LogInv, TypeInv, CallFacts
<1>3. Intact(segs', manifest) => /\ Intact(segs, manifest)
                                 /\ \A g \in LiveGens(manifest) : segs'[g].events = segs[g].events
  <2>1. CASE UNCHANGED segs
        BY <2>1
  <2>2. CASE \E g \in Dangling : segs' = Without(segs, g)
        BY <2>2 DEF Without, Intact
  <2>3. CASE TruncateTail /\ segs' = WithSegment(segs, tail, Shrunk(segs[tail], tailBytes))
    <3>1. tail = manifest.tail /\ tail \in DOMAIN segs /\ segs[tail] \in Segment
          BY <2>3 DEF TruncateTail, LogInv, TypeInv, TailFacts, RamFacts, TypeOK, SegmentFiles, Scanned
    <3>2. /\ DOMAIN segs' = DOMAIN segs /\ segs'[tail] = Shrunk(segs[tail], tailBytes)
          /\ \A g \in DOMAIN segs : g # tail => segs'[g] = segs[g]
          BY <2>3, <3>1 DEF WithSegment
    <3>3. CASE ShrinkKeepsPrefix
      <4>1. segs'[tail].hdr = segs[tail].hdr /\ segs'[tail].events = segs[tail].events
            BY <3>1, <3>2, <3>3 DEF Shrunk, Segment
      <4>. QED BY <3>2, <4>1 DEF Intact
    <3>4. CASE ~ShrinkKeepsPrefix
      <4>1. ~segs'[tail].hdr /\ tail \in LiveGens(manifest)
            BY <3>1, <3>2, <3>4 DEF Shrunk, LiveGens
      <4>. QED BY <4>1 DEF Intact
    <3>. QED BY <3>3, <3>4
  <2>. QED BY <2>1, <2>2, <2>3 DEF TruncateTail, MountDone
<1>4. LogFacts'
      BY <1>2, <1>3, LogKept DEF LogInv
<1>5. Plain' /\ OrderFacts' /\ NewTailFacts' /\ NoLog' /\ CallFits' /\ CursorFacts' /\ RamLog'
      BY <1>2 DEF LogInv, Plain, OrderFacts, NewTailFacts, NoLog, CallFits, CursorFacts, RamLog,
                  HasManifest, Idle
<1>. QED BY <1>1, <1>4, <1>5 DEF LogInv

\* The calls begin, and are placed or refused: nothing is written.
LEMMA LogQuietCall ==
    LogInv /\ (Calling \/ Admit \/ PlaceEvent \/ PublishRefused) => LogInv'
<1>. SUFFICES ASSUME LogInv, Calling \/ Admit \/ PlaceEvent \/ PublishRefused PROVE LogInv'
     OBVIOUS
<1>1. TypeInv'
      BY CallStartKeeps, PlaceEventKeeps, FailureKeeps DEF LogInv, Calling
<1>2. /\ UNCHANGED <<segs, manifest, records, ranges, nextGen, scan, queue>>
      /\ plan' \in {plan, NoPlan}
      /\ Mounted /\ pc' \in {"idle", "admit", "place", "create", "append"}
      BY DEF Calling, CommitEnqueue, RewriteRecord, CommitPop, MayStart, Admit, PlaceEvent,
             PublishRefused, ReturnError, disk, ram, Mounted
<1>3. CallFits'
  <2>1. CASE Calling
        BY <2>1 DEF Calling, CommitEnqueue, RewriteRecord, CommitPop, CallFits, IndexTail, ram
  <2>2. CASE call' \in {call, Idle}
        BY <1>2, <2>2 DEF LogInv, CallFits, Idle
  <2>3. Admit \/ PlaceEvent \/ PublishRefused => call' \in {call, Idle}
        BY DEF Admit, PlaceEvent, PublishRefused, ReturnError
  <2>. QED BY <2>1, <2>2, <2>3
<1>4. LogFacts'
  <2>1. pc' # "replay" /\ Scanned /\ UNCHANGED records
        BY <1>2 DEF Scanned
  <2>2. LogFacts
        BY DEF LogInv
  <2>3. HasManifest /\ Intact(segs', manifest) =>
               /\ Intact(segs, manifest)
               /\ \A g \in LiveGens(manifest) : segs'[g].events = segs[g].events
        BY <1>2
  <2>. QED BY <1>2, <2>1, <2>2, <2>3, LogKept
<1>5. Plain' /\ OrderFacts' /\ NewTailFacts' /\ NoLog' /\ CursorFacts' /\ RamLog'
      BY <1>2 DEF LogInv, Plain, OrderFacts, NewTailFacts, NoLog, CursorFacts, RamLog,
                  HasManifest, Scanned, Mounted
<1>. QED BY <1>1, <1>3, <1>4, <1>5 DEF LogInv

\* The next generation names no file of the manifest.
LEMMA NextIsNotLive ==
    ASSUME LogInv, HasManifest, Scanned
    PROVE  /\ manifest \in Manifest /\ Ascending(manifest) /\ nextGen \in Nat
           /\ \A g \in LiveGens(manifest) : g \in Nat /\ g < nextGen
<1>1. manifest \in Manifest /\ Ascending(manifest) /\ manifest.next <= nextGen /\ nextGen \in Gen
      BY DEF LogInv, TypeInv, TypeOK, HasManifest, OrderFacts
<1>2. /\ manifest.tail \in Nat /\ manifest.next \in Nat
      /\ \A g \in LiveGens(manifest) : g \in Nat /\ g <= manifest.tail
      BY <1>1, LiveOrder DEF Gen
<1>3. manifest.tail < manifest.next /\ nextGen \in Nat
      BY <1>1 DEF Ascending, Gen
<1>. QED BY <1>1, <1>2, <1>3

LEMMA LogCreateTail == LogInv /\ CreateTail => LogInv'
<1>. SUFFICES ASSUME LogInv, CreateTail PROVE LogInv'
     OBVIOUS
<1>1. TypeInv'
      BY CreateTailKeeps DEF LogInv
<1>2. /\ UNCHANGED <<manifest, records, ranges, nextGen, call, scan, plan, queue>>
      /\ segs' = WithSegment(segs, nextGen, EmptySegment)
      /\ Scanned /\ pc' = "publishTail"
      BY DEF CreateTail, Scanned, Mounted
<1>3. HasManifest /\ Intact(segs', manifest) =>
          /\ Intact(segs, manifest)
          /\ \A g \in LiveGens(manifest) : segs'[g].events = segs[g].events
  <2>1. HasManifest => \A g \in LiveGens(manifest) : g # nextGen
        BY <1>2, NextIsNotLive
  <2>. QED BY <1>2, <2>1 DEF WithSegment, Intact
<1>4. LogFacts'
      BY <1>2, <1>3, LogKept DEF LogInv
<1>5. NewTailFacts'
      BY <1>2 DEF NewTailFacts, WithSegment
<1>6. Plain' /\ OrderFacts' /\ NoLog' /\ CallFits' /\ CursorFacts' /\ RamLog'
      BY <1>2 DEF LogInv, Plain, OrderFacts, NoLog, CallFits, CursorFacts, RamLog, HasManifest,
                  Scanned, Mounted
<1>. QED BY <1>1, <1>4, <1>5, <1>6 DEF LogInv

\* Sealing the tail keeps the order of the files and adds one, the last.
LEMMA SealedOrder ==
    ASSUME TypeOK, NEW m \in Manifest, Ascending(m), ranges = m.ranges, tail = m.tail,
           NEW n \in Gen, m.next <= n,
           NEW w, w = [ranges |-> SealedRanges, tail |-> n, next |-> n + 1]
    PROVE  /\ w \in Manifest /\ Ascending(w)
           /\ LiveGens(w) = LiveGens(m) \cup {n}
<1>. DEFINE k == Len(ranges)
<1>1. /\ ranges \in Seq(ManifestRange) /\ k \in Nat /\ DOMAIN ranges = 1 .. k
      /\ tail \in Nat /\ tail # 0 /\ n \in Nat /\ tail < n /\ n < n + 1 /\ n + 1 \in Gen
  <2>1. ranges \in Seq(ManifestRange) /\ tail \in Gen /\ m.next \in Gen /\ tail < m.next
        BY DEF Manifest, Ascending
  <2>. QED BY <2>1, LenProperties DEF Gen
<1>2. \A i \in 1 .. k : /\ ranges[i].lo \in Nat /\ ranges[i].hi \in Nat
                        /\ ranges[i].lo <= ranges[i].hi /\ ranges[i].hi < tail
  <2>1. \A i \in 1 .. k : ranges[i].lo \in Gen /\ ranges[i].hi \in Gen
        BY <1>1, LiveOrder
  <2>. QED BY <1>1, <2>1 DEF Ascending, Gen
<1>3. \A i, j \in 1 .. k : i < j => ranges[i].hi < ranges[j].lo
      BY <1>1 DEF Ascending
<1>4. w \in Manifest
      BY <1>1, SealedRangesType DEF Manifest
<1>5. \A g \in GensOf(SealedRanges) : g \in GensOf(ranges) \/ g = tail
      BY SealedGens
<1>6. CASE Len(ranges) > 0 /\ ranges[Len(ranges)].hi + 1 = tail
  <2>1. SealedRanges = [ranges EXCEPT ![k] = [ranges[k] EXCEPT !.hi = tail]]
        BY <1>1, <1>6 DEF SealedRanges
  <2>2. k \in 1 .. k /\ ranges[k] \in ManifestRange
        BY <1>1, <1>6
  <2>3. /\ DOMAIN SealedRanges = 1 .. k
        /\ SealedRanges[k].lo = ranges[k].lo /\ SealedRanges[k].hi = tail
        /\ \A i \in 1 .. k : i # k => SealedRanges[i] = ranges[i]
        BY <1>1, <2>1, <2>2 DEF ManifestRange
  <2>. HIDE DEF k
  <2>4. Ascending(w)
    <3>1. \A i \in 1 .. k : SealedRanges[i].lo <= SealedRanges[i].hi /\ SealedRanges[i].hi < n
      <4>. SUFFICES ASSUME NEW i \in 1 .. k
                    PROVE  SealedRanges[i].lo <= SealedRanges[i].hi /\ SealedRanges[i].hi < n
           OBVIOUS
      <4>1. CASE i = k
            BY <1>1, <1>2, <2>2, <2>3, <4>1
      <4>2. CASE i # k
            BY <1>1, <1>2, <2>3, <4>2
      <4>. QED BY <4>1, <4>2
    <3>2. \A i, j \in 1 .. k : i < j => SealedRanges[i].hi < SealedRanges[j].lo
      <4>. SUFFICES ASSUME NEW i \in 1 .. k, NEW j \in 1 .. k, i < j
                    PROVE  SealedRanges[i].hi < SealedRanges[j].lo
           OBVIOUS
      <4>1. i # k
            BY <1>1
      <4>2. SealedRanges[j].lo = ranges[j].lo
            BY <2>3
      <4>. QED BY <1>3, <2>3, <4>1, <4>2
    <3>. QED BY <1>1, <2>3, <3>1, <3>2 DEF Ascending
  <2>5. tail \in GensOf(SealedRanges)
    <3>1. tail \in SealedRanges[k].lo .. SealedRanges[k].hi
          BY <1>1, <1>2, <2>2, <2>3
    <3>. QED BY <2>2, <2>3, <3>1 DEF GensOf
  <2>6. \A i \in 1 .. k : \A g \in ranges[i].lo .. ranges[i].hi : g \in GensOf(SealedRanges)
    <3>. SUFFICES ASSUME NEW i \in 1 .. k, NEW g \in ranges[i].lo .. ranges[i].hi
                  PROVE  g \in GensOf(SealedRanges)
         OBVIOUS
    <3>1. g \in SealedRanges[i].lo .. SealedRanges[i].hi
      <4>1. CASE i = k
            BY <1>1, <1>2, <2>3, <4>1
      <4>2. CASE i # k
            BY <2>3, <4>2
      <4>. QED BY <4>1, <4>2
    <3>. QED BY <2>3, <3>1 DEF GensOf
  <2>7. GensOf(ranges) \subseteq GensOf(SealedRanges)
        BY <1>1, <2>6 DEF GensOf
  <2>. QED BY <1>4, <1>5, <2>4, <2>5, <2>7 DEF LiveGens
<1>7. CASE ~(Len(ranges) > 0 /\ ranges[Len(ranges)].hi + 1 = tail)
  <2>. DEFINE last == [lo |-> tail, hi |-> tail]
  <2>1. SealedRanges = Append(ranges, last)
        BY <1>1, <1>7 DEF SealedRanges
  <2>2. /\ DOMAIN SealedRanges = 1 .. k + 1
        /\ SealedRanges[k + 1].lo = tail /\ SealedRanges[k + 1].hi = tail
        /\ \A i \in 1 .. k : SealedRanges[i] = ranges[i]
        BY <1>1, <2>1
  <2>. HIDE DEF k
  <2>3. Ascending(w)
    <3>1. \A i \in 1 .. k + 1 : SealedRanges[i].lo <= SealedRanges[i].hi /\ SealedRanges[i].hi < n
      <4>. SUFFICES ASSUME NEW i \in 1 .. k + 1
                    PROVE  SealedRanges[i].lo <= SealedRanges[i].hi /\ SealedRanges[i].hi < n
           OBVIOUS
      <4>1. CASE i = k + 1
            BY <1>1, <2>2, <4>1
      <4>2. CASE i # k + 1
        <5>1. i \in 1 .. k
              BY <1>1, <4>2
        <5>. QED BY <1>1, <1>2, <2>2, <5>1
      <4>. QED BY <4>1, <4>2
    <3>2. \A i, j \in 1 .. k + 1 : i < j => SealedRanges[i].hi < SealedRanges[j].lo
      <4>. SUFFICES ASSUME NEW i \in 1 .. k + 1, NEW j \in 1 .. k + 1, i < j
                    PROVE  SealedRanges[i].hi < SealedRanges[j].lo
           OBVIOUS
      <4>1. i \in 1 .. k
            BY <1>1
      <4>2. CASE j = k + 1
            BY <1>2, <2>2, <4>1, <4>2
      <4>3. CASE j # k + 1
        <5>1. j \in 1 .. k
              BY <1>1, <4>3
        <5>. QED BY <1>3, <2>2, <4>1, <5>1
      <4>. QED BY <4>2, <4>3
    <3>. QED BY <1>1, <2>2, <3>1, <3>2 DEF Ascending
  <2>4. tail \in GensOf(SealedRanges)
    <3>1. k + 1 \in 1 .. k + 1 /\ tail \in SealedRanges[k + 1].lo .. SealedRanges[k + 1].hi
          BY <1>1, <2>2
    <3>. QED BY <2>2, <3>1 DEF GensOf
  <2>5. GensOf(ranges) \subseteq GensOf(SealedRanges)
    <3>1. \A i \in 1 .. k : i \in 1 .. k + 1
          BY <1>1
    <3>. QED BY <1>1, <2>2, <3>1 DEF GensOf
  <2>. QED BY <1>4, <1>5, <2>3, <2>4, <2>5 DEF LiveGens
<1>. QED BY <1>6, <1>7

\* The new tail is empty: the replay ends where it did.
LEMMA LogPublishTail == LogInv /\ PublishTail => LogInv'
<1>. SUFFICES ASSUME LogInv, PublishTail PROVE LogInv'
     OBVIOUS
<1>. DEFINE n == nextGen
            w == [ranges |-> SealedRanges, tail |-> n, next |-> n + 1]
<1>1. TypeInv'
      BY PublishTailKeeps DEF LogInv
<1>2. /\ UNCHANGED <<segs, records, call, scan, plan, queue>>
      /\ manifest' = w /\ nextGen' = n + 1 /\ pc' = "append" /\ pc = "publishTail" /\ plan = NoPlan
      /\ TypeOK /\ n \in Gen /\ n \in Nat
      BY DEF PublishTail, Publish, LogInv, Plain, TypeInv, TypeOK, Gen
<1>3. segs[n] = EmptySegment /\ segs[n].events = <<>> /\ Len(segs[n].events) = 0
      BY <1>2 DEF LogInv, NewTailFacts, EmptySegment
<1>4. /\ HasManifest => ranges = manifest.ranges /\ tail = manifest.tail
      /\ ~HasManifest => ranges = <<>> /\ tail = 0 /\ queue = <<>>
      /\ Vals(records) = queue /\ Consecutive(records) /\ records \in Seq(Record)
      BY <1>2 DEF LogInv, TypeInv, TypeOK, RamFacts, NoLog, RamLog, Scanned, Mounted
<1>5. w \in Manifest /\ Ascending(w) /\ (~HasManifest => LiveGens(w) = {n})
  <2>1. CASE HasManifest
    <3>1. manifest \in Manifest /\ Ascending(manifest) /\ manifest.next <= n
          BY <1>2, <2>1 DEF LogInv, OrderFacts, TypeOK, HasManifest, Scanned, Mounted
    <3>. QED BY <1>2, <1>4, <2>1, <3>1, SealedOrder
  <2>2. CASE ~HasManifest
    <3>1. SealedRanges = <<>> /\ SealedRanges \in Seq(ManifestRange)
          BY <1>2, <1>4, <2>2, SealedRangesType
    <3>2. w \in Manifest /\ LiveGens(w) = {n}
          BY <1>2, <3>1 DEF Manifest, LiveGens, GensOf, Gen
    <3>3. Ascending(w)
          BY <1>2, <3>1 DEF Ascending
    <3>. QED BY <2>2, <3>2, <3>3
  <2>. QED BY <2>1, <2>2
<1>6. HasManifest'
      BY <1>2, <1>5, ManifestIsOne DEF HasManifest
<1>7. LogFacts'
  <2>. SUFFICES ASSUME Intact(segs, w)
                PROVE  \E t \in Traces : Remembers(segs, w, t, queue) /\ records = EndState(segs, w, t)
       BY <1>2 DEF LogFacts, Scanned, Mounted
  <2>1. CASE HasManifest
    <3>1. /\ manifest \in Manifest /\ Ascending(manifest) /\ manifest.next <= n
          /\ \A g \in LiveGens(manifest) : g \in Nat /\ g < n
          BY <1>2, <2>1, NextIsNotLive DEF LogInv, OrderFacts, Scanned, Mounted
    <3>2. LiveGens(w) = LiveGens(manifest) \cup {n}
          BY <1>2, <1>4, <2>1, <3>1, SealedOrder
    <3>3. manifest.tail \in LiveGens(manifest) /\ manifest.tail \in Gen
          /\ \A g \in LiveGens(manifest) : g \in Gen /\ g <= manifest.tail
          BY <3>1, LiveOrder
    <3>4. Intact(segs, manifest)
          BY <3>2 DEF Intact
    <3>5. PICK t \in Traces : Remembers(segs, manifest, t, queue) /\ records = EndState(segs, manifest, t)
          BY <1>2, <2>1, <3>4 DEF LogInv, LogFacts, Scanned, Mounted
    <3>. DEFINE u == [t EXCEPT ![n] = [k \in Nat |-> records]]
    <3>6. u \in Traces /\ u[n] = [k \in Nat |-> records] /\ \A g \in Gen : g # n => u[g] = t[g]
      <4>1. [k \in Nat |-> records] \in [Nat -> Seq(Record)] /\ t \in [Gen -> [Nat -> Seq(Record)]]
            BY <1>4, <3>5 DEF Traces
      <4>. QED BY <1>2, <4>1 DEF Traces
    <3>. HIDE DEF u, w, n
    <3>7. IsTrace(segs, manifest, t) /\ records = t[manifest.tail][Len(segs[manifest.tail].events)]
          BY <3>5 DEF Remembers, EndState
    <3>8. \A g \in LiveGens(w) : (\A h \in LiveGens(w) : g <= h) => u[g][0] = <<>>
      <4>. SUFFICES ASSUME NEW g \in LiveGens(w), \A h \in LiveGens(w) : g <= h
                    PROVE  u[g][0] = <<>>
           OBVIOUS
      <4>1. g <= manifest.tail /\ manifest.tail < n /\ manifest.tail \in Nat /\ n \in Nat
            BY <1>2, <3>1, <3>2, <3>3
      <4>2. g # n
            BY <4>1
      <4>3. g \in LiveGens(manifest) /\ \A h \in LiveGens(manifest) : g <= h
            BY <3>2, <4>2
      <4>. QED BY <3>3, <3>6, <3>7, <4>2, <4>3 DEF IsTrace
    <3>9. \A g \in LiveGens(w) : \A k \in 1 .. Len(segs[g].events) :
              Turns(u[g][k - 1], segs[g].events[k], g, u[g][k])
      <4>. SUFFICES ASSUME NEW g \in LiveGens(w), NEW k \in 1 .. Len(segs[g].events)
                    PROVE  Turns(u[g][k - 1], segs[g].events[k], g, u[g][k])
           OBVIOUS
      <4>1. g # n
            BY <1>3
      <4>2. g \in LiveGens(manifest) /\ u[g] = t[g]
            BY <3>2, <3>3, <3>6, <4>1
      <4>. QED BY <3>7, <4>2 DEF IsTrace
    <3>10. \A g, h \in LiveGens(w) : g < h /\ (\A x \in LiveGens(w) : x <= g \/ h <= x) =>
               u[h][0] = u[g][Len(segs[g].events)]
      <4>. SUFFICES ASSUME NEW g \in LiveGens(w), NEW h \in LiveGens(w), g < h,
                           \A x \in LiveGens(w) : x <= g \/ h <= x
                    PROVE  u[h][0] = u[g][Len(segs[g].events)]
           OBVIOUS
      <4>1. manifest.tail \in Nat /\ n \in Nat /\ manifest.tail < n /\ g \in Nat /\ h \in Nat /\ h <= n
            BY <1>2, <3>1, <3>2, <3>3
      <4>2. g # n /\ g \in LiveGens(manifest) /\ u[g] = t[g]
            BY <3>2, <3>3, <3>6, <4>1
      <4>3. CASE h = n
        <5>1. manifest.tail <= g /\ g <= manifest.tail
              BY <3>2, <3>3, <4>1, <4>2, <4>3
        <5>2. g = manifest.tail
              BY <4>1, <5>1
        <5>. QED BY <3>6, <3>7, <4>2, <4>3, <5>2
      <4>4. CASE h # n
        <5>1. h \in LiveGens(manifest) /\ u[h] = t[h] /\ \A x \in LiveGens(manifest) : x <= g \/ h <= x
              BY <3>2, <3>3, <3>6, <4>4
        <5>. QED BY <3>7, <4>2, <5>1 DEF IsTrace
      <4>. QED BY <4>3, <4>4
    <3>11. IsTrace(segs, w, u)
           BY <3>8, <3>9, <3>10 DEF IsTrace
    <3>12. EndState(segs, w, u) = records
           BY <1>3, <3>6 DEF EndState, w
    <3>. QED BY <1>4, <3>6, <3>11, <3>12 DEF Remembers
  <2>2. CASE ~HasManifest
    <3>. DEFINE u == [g \in Gen |-> [k \in Nat |-> <<>>]]
    <3>1. records = <<>>
      <4>1. Len(Vals(records)) = Len(records) /\ Len(<<>>) = 0
            BY <1>4, ValsOf
      <4>. QED BY <1>4, <2>2, <4>1, EmptySeq
    <3>2. u \in Traces /\ u[n] = [k \in Nat |-> <<>>]
          BY <1>2 DEF Traces
    <3>. HIDE DEF u, w
    <3>3. LiveGens(w) = {n}
          BY <1>5, <2>2
    <3>4. IsTrace(segs, w, u)
          BY <1>2, <1>3, <3>2, <3>3 DEF IsTrace
    <3>5. EndState(segs, w, u) = <<>>
          BY <1>3, <3>2 DEF EndState, w
    <3>. QED BY <1>4, <3>1, <3>2, <3>4, <3>5 DEF Remembers
  <2>. QED BY <2>1, <2>2
<1>8. OrderFacts' /\ RamLog' /\ NoLog'
      BY <1>2, <1>4, <1>5, <1>6 DEF OrderFacts, RamLog, NoLog
<1>9. Plain' /\ NewTailFacts' /\ CursorFacts' /\ CallFits'
      BY <1>2 DEF LogInv, Plain, NewTailFacts, CursorFacts, CallFits
<1>. QED BY <1>1, <1>7, <1>8, <1>9 DEF LogInv

\* What the event of the call makes of the records, the replay will make of them.
LEMMA AppendTurns ==
    ASSUME LogInv, AppendEvent
    PROVE  /\ records' \in Seq(Record)
           /\ Turns(records, CallEvent, tail, records')
           /\ Vals(records') = queue' /\ Consecutive(records')
<1>1. /\ pc = "append" /\ records \in Seq(Record) /\ Vals(records) = queue /\ Consecutive(records)
      /\ TypeOK' /\ CallFacts /\ CallFits
      BY AppendEventKeeps DEF AppendEvent, LogInv, TypeInv, TypeOK, RamLog, Scanned, Mounted
<1>2. Len(queue) = Len(records) /\ Len(records) \in Nat /\ DOMAIN records = 1 .. Len(records)
      BY <1>1, ValsOf, LenProperties
<1>3. tail \in Gen
      BY <1>1 DEF LogInv, TypeInv, TypeOK, TailFacts, RamFacts, Scanned, Mounted, HasManifest, Manifest
<1>4. call.op # "pop" => TailRecord \in Record
  <2>1. call \in [op : {"none", "enqueue", "pop", "rewrite"}, seq : Nat, val : 0 .. MaxValues]
        BY DEF LogInv, TypeInv, TypeOK
  <2>2. call.op \in {"enqueue", "pop", "rewrite"}
        BY DEF AppendEvent
  <2>3. call.op # "pop" => call.val \in Val
        BY <1>1, <2>1, <2>2, StoreConstants DEF CallFacts, Val
  <2>. QED BY <1>3, <2>1, <2>3 DEF TailRecord, Record
<1>5. records' \in Seq(Record)
      BY <1>1 DEF TypeOK
<1>6. CASE call.op = "enqueue"
  <2>1. records' = Append(records, TailRecord) /\ queue' = Append(queue, call.val)
        BY <1>6 DEF AppendEvent
  <2>2. TailRecord.val = call.val /\ TailRecord.seq = call.seq
        BY DEF TailRecord
  <2>3. records = <<>> \/ call.seq = records[Len(records)].seq + 1
        BY <1>1, <1>6 DEF CallFits
  <2>4. Vals(records') = queue' /\ Consecutive(records')
        BY <1>1, <1>4, <1>6, <2>1, <2>2, <2>3, ValsOfAppend, ConsecutiveSteps
  <2>5. Turns(records, CallEvent, tail, records')
        BY <1>6, <2>1 DEF Turns, CallEvent, TailRecord
  <2>. QED BY <1>5, <2>4, <2>5
<1>7. CASE call.op = "pop"
  <2>1. records # <<>> /\ call.seq = Head(records).seq
        BY <1>1, <1>7 DEF CallFacts, CallFits
  <2>2. records' = Tail(records) /\ queue' = Tail(queue)
        BY <1>2, <1>7 DEF AppendEvent
  <2>4. Consecutive(Tail(records))
    <3>1. records[1] \in Record
          BY <1>1, <2>1
    <3>. QED BY <1>1, <2>1, <3>1, ConsecutiveSteps
  <2>5. Vals(records') = queue'
        BY <1>1, <2>1, <2>2, ValsOfTail
  <2>6. Turns(records, CallEvent, tail, records')
        BY <1>7, <2>1, <2>2 DEF Turns, CallEvent
  <2>. QED BY <1>5, <2>2, <2>4, <2>5, <2>6
<1>8. CASE call.op = "rewrite"
  <2>. DEFINE i == FirstAt(records, call.seq)
  <2>1. i \in DOMAIN records /\ records[i].seq = call.seq /\ call.seq \in SeqsOf(records)
        BY <1>1, <1>8, FirstAtFinds DEF CallFacts
  <2>2. records' = [records EXCEPT ![i] = TailRecord] /\ queue' = [queue EXCEPT ![i] = call.val]
    <3>1. /\ records' = [records EXCEPT ![i] = TailRecord]
          /\ queue' = IF i - (Len(records) - Len(queue)) >= 1
                      THEN [queue EXCEPT ![i - (Len(records) - Len(queue))] = call.val] ELSE queue
          BY <1>8 DEF AppendEvent
    <3>2. i - (Len(records) - Len(queue)) = i /\ i >= 1
          BY <1>2, <2>1
    <3>. QED BY <3>1, <3>2
  <2>. HIDE DEF i
  <2>3. TailRecord.val = call.val /\ TailRecord.seq = call.seq
        BY DEF TailRecord
  <2>4. Vals(records') = queue' /\ Consecutive(records')
    <3>1. TailRecord \in Record
          BY <1>4, <1>8
    <3>2. Vals([records EXCEPT ![i] = TailRecord]) = [Vals(records) EXCEPT ![i] = TailRecord.val]
          BY <1>1, <2>1, <3>1, ValsOfExcept
    <3>3. Consecutive([records EXCEPT ![i] = TailRecord])
          BY <1>1, <2>1, <2>3, <3>1, ConsecutiveSteps
    <3>. QED BY <1>1, <2>2, <2>3, <3>2, <3>3
  <2>5. Turns(records, CallEvent, tail, records')
        BY <1>8, <2>1, <2>2 DEF Turns, CallEvent, TailRecord, i
  <2>. QED BY <1>5, <2>4, <2>5
<1>. QED BY <1>6, <1>7, <1>8 DEF AppendEvent

LEMMA LogAppendEvent == LogInv /\ AppendEvent => LogInv'
<1>. SUFFICES ASSUME LogInv, AppendEvent PROVE LogInv'
     OBVIOUS
<1>. DEFINE n == Len(segs[tail].events)
<1>1. TypeInv'
      BY AppendEventKeeps DEF LogInv
<1>2. /\ UNCHANGED <<manifest, ranges, nextGen, scan, plan>>
      /\ pc = "append" /\ pc' = "idle" /\ call' = Idle /\ HasManifest /\ tail = manifest.tail
      /\ manifest \in Manifest /\ Ascending(manifest)
      /\ segs' = [segs EXCEPT ![tail] = Appended(segs[tail], CallEvent)]
      BY DEF AppendEvent, LogInv, TypeInv, TypeOK, OrderFacts, TailFacts, RamFacts, HasManifest,
             Scanned, Mounted
<1>3. /\ records' \in Seq(Record) /\ Turns(records, CallEvent, tail, records')
      /\ Vals(records') = queue' /\ Consecutive(records')
      BY AppendTurns
<1>4. LogFacts'
  <2>. SUFFICES ASSUME Intact(segs', manifest)
                PROVE  \E t \in Traces : /\ Remembers(segs', manifest, t, queue')
                                         /\ records' = EndState(segs', manifest, t)
       BY <1>2 DEF LogFacts, HasManifest
  <2>1. /\ tail \in LiveGens(manifest) /\ tail \in Gen
        /\ \A g \in LiveGens(manifest) : g \in Gen /\ g \in Nat /\ g <= tail
        BY <1>2, LiveOrder
  <2>2. tail \in DOMAIN segs /\ segs[tail] \in Segment
        BY <1>2, <2>1 DEF Intact, LogInv, TypeInv, TypeOK, SegmentFiles
  <2>3. /\ segs'[tail].hdr = segs[tail].hdr /\ segs'[tail].events = Append(segs[tail].events, CallEvent)
        /\ \A g \in DOMAIN segs : g # tail => segs'[g] = segs[g]
        /\ DOMAIN segs' = DOMAIN segs
        BY <1>2, <2>2 DEF Appended, Segment
  <2>4. Intact(segs, manifest)
        BY <2>3 DEF Intact
  <2>5. PICK t \in Traces : Remembers(segs, manifest, t, queue) /\ records = EndState(segs, manifest, t)
        BY <1>2, <2>4 DEF LogInv, LogFacts, Scanned, Mounted
  <2>6. /\ n \in Nat /\ Len(segs'[tail].events) = n + 1
        /\ segs'[tail].events[n + 1] = CallEvent
        /\ \A k \in 1 .. n : segs'[tail].events[k] = segs[tail].events[k]
    <3>1. segs[tail].events \in Seq(Event)
          BY <2>2 DEF Segment
    <3>. QED BY <2>3, <3>1
  <2>. DEFINE u == [t EXCEPT ![tail] = [t[tail] EXCEPT ![n + 1] = records']]
  <2>7. /\ u \in Traces /\ u[tail][n + 1] = records'
        /\ \A k \in Nat : k # n + 1 => u[tail][k] = t[tail][k]
        /\ \A g \in Gen : g # tail => u[g] = t[g]
    <3>1. t \in [Gen -> [Nat -> Seq(Record)]] /\ t[tail] \in [Nat -> Seq(Record)]
          BY <2>1, <2>5 DEF Traces
    <3>2. [t[tail] EXCEPT ![n + 1] = records'] \in [Nat -> Seq(Record)]
          BY <1>3, <2>6, <3>1
    <3>. HIDE DEF n
    <3>3. u[tail] = [t[tail] EXCEPT ![n + 1] = records'] /\ \A g \in Gen : g # tail => u[g] = t[g]
          BY <2>1, <3>1
    <3>4. u \in Traces
          BY <2>1, <3>1, <3>2 DEF Traces
    <3>5. n + 1 \in Nat
          BY <2>6
    <3>6. /\ [t[tail] EXCEPT ![n + 1] = records'][n + 1] = records'
          /\ \A k \in Nat : k # n + 1 => [t[tail] EXCEPT ![n + 1] = records'][k] = t[tail][k]
          BY <3>1, <3>5
    <3>. HIDE DEF u
    <3>. QED BY <3>3, <3>4, <3>6
  <2>. HIDE DEF u, n
  <2>8. IsTrace(segs, manifest, t) /\ records = t[tail][n]
        BY <1>2, <2>5 DEF Remembers, EndState, n
  <2>9. \A g \in LiveGens(manifest) : (\A h \in LiveGens(manifest) : g <= h) => u[g][0] = <<>>
    <3>. SUFFICES ASSUME NEW g \in LiveGens(manifest), \A h \in LiveGens(manifest) : g <= h
                  PROVE  u[g][0] = <<>>
         OBVIOUS
    <3>1. t[g][0] = <<>>
          BY <2>8 DEF IsTrace
    <3>2. 0 # n + 1
          BY <2>6
    <3>. QED BY <2>1, <2>7, <3>1, <3>2
  <2>10. \A g \in LiveGens(manifest) : \A k \in 1 .. Len(segs'[g].events) :
             Turns(u[g][k - 1], segs'[g].events[k], g, u[g][k])
    <3>. SUFFICES ASSUME NEW g \in LiveGens(manifest), NEW k \in 1 .. Len(segs'[g].events)
                  PROVE  Turns(u[g][k - 1], segs'[g].events[k], g, u[g][k])
         OBVIOUS
    <3>1. CASE g # tail
      <4>1. segs'[g] = segs[g] /\ u[g] = t[g]
            BY <2>1, <2>3, <2>4, <2>7, <3>1 DEF Intact
      <4>. QED BY <2>8, <4>1 DEF IsTrace
    <3>2. CASE g = tail /\ k = n + 1
      <4>1. k - 1 = n /\ n \in Nat /\ n # n + 1
            BY <2>6, <3>2
      <4>. QED BY <1>3, <2>6, <2>7, <2>8, <3>2, <4>1
    <3>3. CASE g = tail /\ k # n + 1
      <4>1. k \in 1 .. n /\ k - 1 \in Nat /\ k \in Nat /\ k - 1 # n + 1
            BY <2>6, <3>3
      <4>2. Turns(t[g][k - 1], segs[g].events[k], g, t[g][k])
            BY <2>8, <3>3, <4>1 DEF IsTrace, n
      <4>. QED BY <2>6, <2>7, <3>3, <4>1, <4>2
    <3>. QED BY <3>1, <3>2, <3>3
  <2>11. \A g, h \in LiveGens(manifest) :
             g < h /\ (\A x \in LiveGens(manifest) : x <= g \/ h <= x) =>
                 u[h][0] = u[g][Len(segs'[g].events)]
    <3>. SUFFICES ASSUME NEW g \in LiveGens(manifest), NEW h \in LiveGens(manifest), g < h,
                         \A x \in LiveGens(manifest) : x <= g \/ h <= x
                  PROVE  u[h][0] = u[g][Len(segs'[g].events)]
         OBVIOUS
    <3>1. g # tail
          BY <2>1
    <3>2. segs'[g] = segs[g] /\ u[g] = t[g]
          BY <2>1, <2>3, <2>4, <2>7, <3>1 DEF Intact
    <3>3. t[h][0] = t[g][Len(segs[g].events)]
          BY <2>8 DEF IsTrace
    <3>4. u[h][0] = t[h][0]
      <4>1. 0 # n + 1
            BY <2>6
      <4>. QED BY <2>1, <2>7, <4>1
    <3>. QED BY <3>2, <3>3, <3>4
  <2>12. IsTrace(segs', manifest, u)
         BY <2>9, <2>10, <2>11 DEF IsTrace
  <2>13. EndState(segs', manifest, u) = records'
         BY <1>2, <2>6, <2>7 DEF EndState
  <2>. QED BY <1>3, <2>7, <2>12, <2>13 DEF Remembers
<1>5. RamLog' /\ NoLog'
      BY <1>2, <1>3 DEF RamLog, NoLog, HasManifest
<1>6. Plain' /\ OrderFacts' /\ NewTailFacts' /\ CursorFacts' /\ CallFits'
      BY <1>2 DEF LogInv, Plain, OrderFacts, NewTailFacts, CursorFacts, CallFits, HasManifest, Idle,
                  Scanned, Mounted
<1>. QED BY <1>1, <1>4, <1>5, <1>6 DEF LogInv

\* Whatever a cut write leaves of a file, it takes no event from one.
LEMMA CutKeepsLog ==
    ASSUME LogInv, Unwritten \/ PartialWrite
    PROVE  /\ HasManifest => UNCHANGED manifest
           /\ ~HasManifest => ~HasManifest'
           /\ HasManifest /\ Intact(segs', manifest) =>
                  /\ Intact(segs, manifest)
                  /\ \A g \in LiveGens(manifest) : segs'[g].events = segs[g].events
<1>1. (HasManifest => UNCHANGED manifest) /\ (~HasManifest => ~HasManifest')
      BY PartialWriteType DEF LogInv
<1>2. ASSUME HasManifest, Intact(segs', manifest)
      PROVE  /\ Intact(segs, manifest)
             /\ \A g \in LiveGens(manifest) : segs'[g].events = segs[g].events
  <2>1. CASE UNCHANGED segs
        BY <1>2, <2>1
  <2>2. CASE pc = "create" /\ segs' = WithSegment(segs, nextGen, TornSegment)
    <3>1. \A g \in LiveGens(manifest) : g # nextGen
          BY <1>2, <2>2, NextIsNotLive DEF Scanned, Mounted
    <3>. QED BY <1>2, <2>2, <3>1 DEF WithSegment, Intact
  <2>3. CASE \E n \in {1, BytesOf(CallEvent) - 1} :
                 segs' = [segs EXCEPT ![tail].size = SetMax(@, tailBytes + n)]
    <3>1. PICK n : segs' = [segs EXCEPT ![tail] = [segs[tail] EXCEPT
                                                  !.size = SetMax(segs[tail].size, tailBytes + n)]]
          BY <2>3
    <3>2. tail \in DOMAIN segs => segs[tail] \in Segment
          BY DEF LogInv, TypeInv, TypeOK, SegmentFiles
    <3>3. DOMAIN segs' = DOMAIN segs
          BY <3>1
    <3>4. \A g \in DOMAIN segs : segs'[g].hdr = segs[g].hdr /\ segs'[g].events = segs[g].events
      <4>. SUFFICES ASSUME NEW g \in DOMAIN segs
                    PROVE  segs'[g].hdr = segs[g].hdr /\ segs'[g].events = segs[g].events
           OBVIOUS
      <4>1. CASE g = tail
            BY <3>1, <3>2, <4>1 DEF Segment
      <4>2. CASE g # tail
            BY <3>1, <4>2
      <4>. QED BY <4>1, <4>2
    <3>. QED BY <1>2, <3>3, <3>4 DEF Intact
  <2>. QED BY <2>1, <2>2, <2>3 DEF LogInv, Plain, Unwritten, disk, PartialWrite
<1>. QED BY <1>1, <1>2

LEMMA LogFailure == LogInv /\ (PowerLoss \/ WriteError) => LogInv'
<1>. SUFFICES ASSUME LogInv, PowerLoss \/ WriteError PROVE LogInv'
     OBVIOUS
<1>1. TypeInv'
      BY FailureKeeps DEF LogInv
<1>2. Unwritten \/ PartialWrite
      BY DEF PowerLoss, WriteError
<1>3. /\ pc' \in {"down", "idle"} /\ call' = Idle /\ plan' = NoPlan /\ UNCHANGED queue
      /\ Scanned' => Scanned /\ UNCHANGED <<records, nextGen>>
      BY DEF PowerLoss, WriteError, ReturnError, ram, Scanned, Mounted, WritePoints
<1>4. LogFacts'
  <2>1. CASE HasManifest
        BY <1>2, <1>3, <2>1, CutKeepsLog, LogKept DEF LogInv
  <2>2. CASE ~HasManifest
        BY <1>2, <2>2, CutKeepsLog DEF LogFacts
  <2>. QED BY <2>1, <2>2
<1>5. OrderFacts' /\ NoLog'
  <2>1. CASE HasManifest
        BY <1>2, <1>3, <2>1, CutKeepsLog DEF LogInv, OrderFacts, NoLog, HasManifest
  <2>2. CASE ~HasManifest
        BY <1>2, <1>3, <2>2, CutKeepsLog DEF LogInv, OrderFacts, NoLog
  <2>. QED BY <2>1, <2>2
<1>6. Plain' /\ NewTailFacts' /\ CursorFacts' /\ CallFits' /\ RamLog'
      BY <1>3 DEF LogInv, Plain, NewTailFacts, CursorFacts, CallFits, RamLog, Idle
<1>. QED BY <1>1, <1>4, <1>5, <1>6 DEF LogInv

LEMMA LogStep == LogInv /\ [Next]_vars => LogInv'
<1>. SUFFICES ASSUME LogInv, [Next]_vars PROVE LogInv'
     OBVIOUS
<1>1. CASE UNCHANGED vars
  <2>1. TypeInv'
        BY TypeStep DEF LogInv
  <2>2. LogFacts'
        BY <1>1, LogKept DEF LogInv, vars, disk, ram, Scanned, Mounted
  <2>. QED BY <1>1, <2>1, <2>2
           DEF vars, disk, ram, LogInv, Plain, OrderFacts, NewTailFacts, CursorFacts, RamLog, NoLog,
               CallFits, HasManifest, Scanned, Mounted, SegmentReadable
<1>2. CASE Mounting
      BY <1>2, LogMountBegin, LogReplayEvent, LogReplayNextSegment, LogReplayDone, LogMountFails,
         LogEndOfMount DEF Mounting
<1>3. CASE Calling \/ Working
      BY <1>3, LogQuietCall, LogCreateTail, LogPublishTail, LogAppendEvent DEF Working
<1>4. CASE Failing
      BY <1>4, LogFailure DEF Failing
<1>. QED BY <1>1, <1>2, <1>3, <1>4 DEF Next

\* usage.md, "What survives a crash": after any number of power losses, failed writes
\* and mounts the records of a mounted store are exactly the acknowledged queue, as
\* long as nothing is compacted.  It holds on every file system: where a truncation
\* wipes the tail, no later mount gets through.
THEOREM RamIsAlwaysQueue == Spec => []RamIsQueue
<1>1. Spec => []LogInv
      BY LogInit, LogStep, PTL DEF Spec
<1>2. LogInv => RamIsQueue
      BY DEF LogInv, RamLog, RamIsQueue, Scanned
<1>. QED BY <1>1, <1>2, PTL

\* readRecord() finds a sequence at its distance from the head: the sequences in RAM
\* leave no gap.
THEOREM AlwaysContiguous == Spec => []Contiguous
<1>1. Spec => []LogInv
      BY LogInit, LogStep, PTL DEF Spec
<1>2. LogInv => Contiguous
      BY DEF LogInv, RamLog, Consecutive, Contiguous, Scanned
<1>. QED BY <1>1, <1>2, PTL
=============================================================================
