---------------------------- MODULE QueueProofs ----------------------------
(***************************************************************************)
(* Proofs about Compaction, and about Queue, which runs it.                 *)
(* Compaction: while segments are rewritten, split, merged and removed the   *)
(* state keeps its types, every file the published manifest names stays      *)
(* readable, and none of them loses an event.  Queue: the counter            *)
(* totalOnDiskBytes_ is what the files take, an admitted event fits the      *)
(* budget, and no power loss, failing removal or compaction leaves a store   *)
(* that does not mount.                                                      *)
(***************************************************************************)
EXTENDS Queue, AppendLogStoreProofs

-----------------------------------------------------------------------------
(* The inductive invariant.                                                 *)

\* The ranges of the manifest are not empty, no two of them share a generation,
\* and the tail is in none of them.
SpanOf(r)  == r.lo .. r.hi
Proper(rs) == \A i \in DOMAIN rs : rs[i].lo <= rs[i].hi
Apart(rs)  == \A i, j \in DOMAIN rs : i # j => SpanOf(rs[i]) \cap SpanOf(rs[j]) = {}
ManifestFacts ==
    HasManifest => LET rs == manifest.ranges IN
        Proper(rs) /\ Apart(rs) /\ manifest.tail \notin GensOf(rs)

\* Which phases compactRange() goes through, and what its input range is.
CompactPhases == {"resolve", "write", "publish", "cleanup"}
InRange(p, rs) == \E i \in DOMAIN rs : rs[i].lo <= p.lo /\ p.hi <= rs[i].hi
PlanFacts ==
    /\ pc \in CompactPhases => plan # NoPlan
    /\ pc = "admit" => call.op # "pop"
    /\ plan # NoPlan => /\ pc \in CompactPhases \cup {"create", "publishTail"}
                        /\ call.op # "pop"
                        /\ plan.lo \in Gen /\ plan.lo <= plan.hi
                        /\ pc # "cleanup" => InRange(plan, ranges)

\* The output segments are complete up to plan.done, all of them when it is published.
WritingFacts ==
    pc \in {"write", "publish"} =>
        /\ plan.first = nextGen
        /\ plan.outs = OutputSegs(Cardinality(RecordsIn(plan.lo, plan.hi)))
        /\ IF pc = "write" THEN plan.done < plan.outs ELSE plan.done = plan.outs
        /\ \A g \in plan.first .. plan.first + plan.done - 1 : SegmentReadable(g)

\* What is removed is in no manifest any more.
CleanupFacts ==
    pc = "cleanup" => /\ HasManifest /\ plan.first \in Gen
                      /\ plan.lo + plan.done <= plan.hi
                      /\ (plan.lo .. plan.hi) \cap LiveGens(manifest) = {}

CompactInv == SafeInv /\ ManifestFacts /\ PlanFacts /\ WritingFacts /\ CleanupFacts

-----------------------------------------------------------------------------
(* The live records of an input range, by sequence.                          *)

\* The records of a range of segments are finitely many.
LEMMA RecordsInRange ==
    ASSUME records \in Seq(Record), NEW lo, NEW hi
    PROVE  /\ RecordsIn(lo, hi) \subseteq 1 .. Len(records) /\ Len(records) \in Nat
           /\ IsFiniteSet(RecordsIn(lo, hi)) /\ Cardinality(RecordsIn(lo, hi)) \in Nat
<1>1. RecordsIn(lo, hi) \subseteq 1 .. Len(records) /\ Len(records) \in Nat
      BY DEF RecordsIn
<1>2. IsFiniteSet(1 .. Len(records))
      BY <1>1, FS_Interval
<1>. QED BY <1>1, <1>2, FS_Subset, FS_CardinalityType

\* How many records of S come before the record i.
Place(S, i) == Cardinality({j \in S : BySequence(j, i)})

\* Each record has a place of its own in the order, and every place is taken.
LEMMA PlacesAreTaken ==
    ASSUME records \in Seq(Record), NEW S \in SUBSET DOMAIN records, IsFiniteSet(S)
    PROVE  /\ \A k \in 1 .. Cardinality(S) : \E i \in S : Place(S, i) = k - 1
           /\ \A i \in S : Place(S, i) \in 0 .. Cardinality(S) - 1
           /\ \A i, h \in S : Place(S, i) = Place(S, h) => i = h
<1>. DEFINE Ahead(i) == {j \in S : BySequence(j, i)}
            n == Cardinality(S)
            place == [i \in S |-> Place(S, i)]
<1>0. \A i : Place(S, i) = Cardinality(Ahead(i))
      BY DEF Place
<1>1. \A i \in DOMAIN records : records[i].seq \in Nat /\ i \in Nat
  <2>1. \A i \in DOMAIN records : records[i] \in Record /\ i \in Nat
        OBVIOUS
  <2>. QED BY <2>1 DEF Record
<1>2. n \in Nat
      BY FS_CardinalityType
<1>3. \A i \in S : IsFiniteSet(Ahead(i)) /\ Cardinality(Ahead(i)) \in 0 .. n - 1
  <2>. SUFFICES ASSUME NEW i \in S PROVE IsFiniteSet(Ahead(i)) /\ Cardinality(Ahead(i)) \in 0 .. n - 1
       OBVIOUS
  <2>1. ~BySequence(i, i)
        BY <1>1 DEF BySequence
  <2>2. Ahead(i) \in SUBSET (S \ {i}) /\ IsFiniteSet(S \ {i}) /\ Cardinality(S \ {i}) = n - 1
        BY <2>1, FS_RemoveElement
  <2>. HIDE DEF Ahead, n
  <2>3. IsFiniteSet(Ahead(i)) /\ Cardinality(Ahead(i)) <= n - 1
        BY <2>2, FS_Subset
  <2>4. Cardinality(Ahead(i)) \in Nat
        BY <2>3, FS_CardinalityType
  <2>. QED BY <2>3, <2>4, <1>2
<1>4. ASSUME NEW i \in S, NEW h \in S, BySequence(i, h)
      PROVE  Cardinality(Ahead(i)) < Cardinality(Ahead(h))
  <2>1. \A j \in S : BySequence(j, i) => BySequence(j, h)
        BY <1>1, <1>4 DEF BySequence
  <2>2. i \in Ahead(h) /\ i \notin Ahead(i)
        BY <1>1, <1>4 DEF BySequence
  <2>3. Ahead(i) \in SUBSET (Ahead(h) \ {i})
        BY <2>1, <2>2
  <2>. HIDE DEF Ahead, n
  <2>4. IsFiniteSet(Ahead(h) \ {i}) /\ Cardinality(Ahead(h) \ {i}) = Cardinality(Ahead(h)) - 1
        BY <1>3, <2>2, FS_RemoveElement
  <2>5. Cardinality(Ahead(i)) <= Cardinality(Ahead(h)) - 1
        BY <2>3, <2>4, FS_Subset
  <2>6. Cardinality(Ahead(i)) \in Nat /\ Cardinality(Ahead(h)) \in Nat
        BY <1>2, <1>3
  <2>. QED BY <2>5, <2>6
<1>. HIDE DEF Ahead, n
<1>5. \A i, h \in S : Place(S, i) = Place(S, h) => i = h
  <2>1. \A i, h \in S : i # h => BySequence(i, h) \/ BySequence(h, i)
        BY <1>1 DEF BySequence
  <2>2. \A i \in S : Cardinality(Ahead(i)) \in Nat
        BY <1>2, <1>3
  <2>3. \A i, h \in S : i # h => Cardinality(Ahead(i)) # Cardinality(Ahead(h))
        BY <1>4, <2>1, <2>2
  <2>. QED BY <1>0, <2>3
<1>6. \A i \in S : Place(S, i) \in 0 .. n - 1
      BY <1>0, <1>3
<1>7. place \in Injection(S, 0 .. n - 1)
      BY <1>5, <1>6 DEF Injection, IsInjective
<1>8. IsFiniteSet(0 .. n - 1) /\ Cardinality(0 .. n - 1) = n
  <2>1. IsFiniteSet(0 .. n - 1) /\ Cardinality(0 .. n - 1) = IF 0 > n - 1 THEN 0 ELSE (n - 1) - 0 + 1
        BY ONLY <1>2, n - 1 \in Int, FS_Interval
  <2>. QED BY <1>2, <2>1
<1>9. place \in Surjection(S, 0 .. n - 1)
      BY <1>7, <1>8, FS_Injection DEF n
<1>10. \A k \in 1 .. n : \E i \in S : Place(S, i) = k - 1
  <2>1. \A k \in 1 .. n : k - 1 \in 0 .. n - 1
        BY <1>2
  <2>2. \A k \in 1 .. n : \E i \in S : place[i] = k - 1
        BY <1>9, <2>1 DEF Surjection
  <2>. QED BY <2>2
<1>. QED BY <1>5, <1>6, <1>10 DEF n

\* collectLiveRecords() returns every live record of the range, and nothing else.
LEMMA LiveRecordsAreAll ==
    ASSUME records \in Seq(Record), NEW lo, NEW hi
    PROVE  /\ LiveRecords(lo, hi) \in Seq(Record)
           /\ Len(LiveRecords(lo, hi)) = Cardinality(RecordsIn(lo, hi))
           /\ \A i \in RecordsIn(lo, hi) : \E k \in DOMAIN LiveRecords(lo, hi) :
                  LiveRecords(lo, hi)[k] = records[i]
<1>. DEFINE S == RecordsIn(lo, hi)
            n == Cardinality(S)
            at == [k \in 1 .. n |-> CHOOSE i \in S : Place(S, i) = k - 1]
            live == LiveRecords(lo, hi)
<1>1. IsFiniteSet(S) /\ n \in Nat /\ S \in SUBSET DOMAIN records
      BY RecordsInRange DEF RecordsIn
<1>2. live = [k \in 1 .. n |-> records[at[k]]]
      BY DEF LiveRecords, InOrder, Place
<1>3. /\ \A k \in 1 .. n : \E i \in S : Place(S, i) = k - 1
      /\ \A i \in S : Place(S, i) \in 0 .. n - 1
      /\ \A i, h \in S : Place(S, i) = Place(S, h) => i = h
  <2>. HIDE DEF S
  <2>. QED BY <1>1, PlacesAreTaken
<1>. HIDE DEF S, n
<1>4. \A k \in 1 .. n : at[k] \in S /\ Place(S, at[k]) = k - 1
      BY <1>3
<1>. HIDE DEF at, live
<1>5. \A k \in 1 .. n : records[at[k]] \in Record
      BY <1>1, <1>4
<1>6. live \in Seq(Record) /\ Len(live) = n /\ DOMAIN live = 1 .. n
      BY <1>1, <1>2, <1>5
<1>7. \A i \in S : \E k \in 1 .. n : at[k] = i
  <2>. TAKE i \in S
  <2>1. PICK p : p = Place(S, i)
        OBVIOUS
  <2>2. p + 1 \in 1 .. n /\ (p + 1) - 1 = p
        BY <1>1, <1>3, <2>1
  <2>3. at[p + 1] = i
        BY <1>3, <1>4, <2>1, <2>2
  <2>. QED BY <2>2, <2>3
<1>8. \A i \in S : \E k \in DOMAIN live : live[k] = records[i]
      BY <1>2, <1>6, <1>7
<1>. QED BY <1>6, <1>8 DEF S, live, n

-----------------------------------------------------------------------------
(* The layout of the output.                                                 *)

\* The number of output segments: none for no record, and all but the last are full.
LEMMA OutputCount ==
    ASSUME NEW n \in Nat
    PROVE  /\ PerSegment \in Nat \ {0} /\ OutputSegs(n) \in Nat
           /\ OutputSegs(n) = 0 <=> n = 0
           /\ \A k \in Nat : k < OutputSegs(n) => k * PerSegment \in Nat /\ k * PerSegment < n
<1>. DEFINE P == PerSegment
            q == OutputSegs(n)
            room == MaxSegmentBytes - HeaderBytes
<1>1. P \in Nat \ {0}
  <2>1. room \in Nat /\ EnqueueBytes \in Nat /\ EnqueueBytes > 0 /\ room >= EnqueueBytes
        BY StoreConstants
  <2>2. P = room \div EnqueueBytes
        BY DEF PerSegment
  <2>. HIDE DEF room, P
  <2>. DEFINE e == EnqueueBytes
              d == room \div e
  <2>3. d \in Nat /\ room - e * d \in 0 .. e - 1
        BY <2>1
  <2>4. d # 0
    <3>. HIDE DEF d
    <3>. QED BY <2>1, <2>3
  <2>. QED BY <2>2, <2>3, <2>4
<1>2. q = (n + P - 1) \div P
      BY DEF OutputSegs
<1>. HIDE DEF P
<1>3. (n + P - 1) \in Nat /\ q \in Nat /\ (n + P - 1) - P * q \in 0 .. P - 1
  <2>. DEFINE m == n + P - 1
  <2>1. m \in Nat
        BY <1>1
  <2>. HIDE DEF m, q
  <2>2. q = m \div P
        BY <1>2 DEF m
  <2>3. q \in Nat /\ m - P * q \in 0 .. P - 1
        BY <1>1, <2>1, <2>2
  <2>. QED BY <2>1, <2>3 DEF m
<1>. HIDE DEF q
<1>4. P * q \in Nat /\ P * q <= n + P - 1 /\ n <= P * q
      BY <1>1, <1>3
<1>5. q = 0 <=> n = 0
  <2>1. q = 0 => P * q = 0
        BY <1>1
  <2>2. q # 0 => P * q >= P
        BY <1>1, <1>3
  <2>. QED BY <1>1, <1>3, <1>4, <2>1, <2>2
<1>6. ASSUME NEW k \in Nat, k < q PROVE k * P \in Nat /\ k * P < n
  <2>1. k * P \in Nat /\ P * (q - 1) = P * q - P
        BY <1>1, <1>3
  <2>2. k * P <= P * (q - 1)
    <3>1. \A x, y, z \in Nat : x <= y => x * z <= z * y
          OBVIOUS
    <3>2. q - 1 \in Nat /\ k <= q - 1
          BY <1>3, <1>6
    <3>. QED BY ONLY <3>1, <3>2, <1>1
  <2>. QED BY <1>1, <1>4, <2>1, <2>2
<1>. QED BY <1>1, <1>3, <1>5, <1>6 DEF P, q

\* Every output segment is a whole file of ENQUEUE events.
LEMMA OutputIsSegment ==
    ASSUME TypeOK, NEW k \in Nat, k < plan.outs,
           plan.outs = OutputSegs(Cardinality(RecordsIn(plan.lo, plan.hi)))
    PROVE  /\ OutputSegment(k) \in Segment /\ OutputSegment(k).hdr
           /\ OutputSegment(k).size = HeaderBytes + Len(OutputSegment(k).events) * EnqueueBytes
           /\ \A j \in DOMAIN OutputSegment(k).events : OutputSegment(k).events[j].type = "enq"
<1>. DEFINE live == LiveRecords(plan.lo, plan.hi)
            n == Len(live)
            first == k * PerSegment + 1
            last == IF k = plan.outs - 1 THEN n ELSE (k + 1) * PerSegment
            chunk == SubSeq(live, first, last)
            events == [j \in DOMAIN chunk |-> AsEvent(chunk[j])]
<1>1. live \in Seq(Record) /\ n = Cardinality(RecordsIn(plan.lo, plan.hi)) /\ n \in Nat
      BY LiveRecordsAreAll DEF TypeOK
<1>2. plan.outs \in Nat /\ plan.outs = OutputSegs(n)
      BY <1>1 DEF TypeOK
<1>. HIDE DEF live, n
<1>3. first \in Nat /\ first >= 1
  <2>1. k * PerSegment \in Nat
        BY ONLY <1>1, <1>2, k \in Nat, k < plan.outs, OutputCount
  <2>. QED BY <2>1
<1>4. last \in Int /\ last <= n
  <2>1. CASE k = plan.outs - 1
        BY <1>1, <2>1
  <2>2. CASE k # plan.outs - 1
    <3>1. k + 1 \in Nat /\ k + 1 < OutputSegs(n)
          BY <1>2, <2>2
    <3>2. (k + 1) * PerSegment \in Nat /\ (k + 1) * PerSegment < n
          BY <1>1, <3>1, OutputCount
    <3>. QED BY <1>1, <2>2, <3>2
  <2>. QED BY <2>1, <2>2
<1>. HIDE DEF first, last
<1>5. chunk \in Seq(Record)
  <2>1. \A i \in first .. last : live[i] \in Record
        BY <1>1, <1>3, <1>4 DEF n
  <2>. QED BY <1>1, <1>3, <1>4, <2>1 DEF n
<1>6. OutputSegment(k) = [hdr |-> TRUE, events |-> events, size |-> HeaderBytes + Len(chunk) * EnqueueBytes]
      BY DEF OutputSegment, live, n, first, last
<1>. HIDE DEF chunk
<1>7. \A j \in DOMAIN chunk : AsEvent(chunk[j]) \in Event /\ AsEvent(chunk[j]).type = "enq"
  <2>1. \A j \in DOMAIN chunk : chunk[j] \in Record
        BY <1>5
  <2>. QED BY <2>1 DEF AsEvent, Event, Record
<1>8. events \in Seq(Event) /\ Len(events) = Len(chunk) /\ DOMAIN events = DOMAIN chunk
      BY <1>5, <1>7
<1>9. HeaderBytes + Len(chunk) * EnqueueBytes \in Nat
      BY <1>5, StoreConstants
<1>10. \A j \in DOMAIN events : events[j].type = "enq"
      BY <1>7
<1>. HIDE DEF events
<1>. QED BY <1>6, <1>8, <1>9, <1>10 DEF Segment

\* When the inputs are gone records_ name the same sequences, in their new segments.
LEMMA RelocatedType ==
    ASSUME TypeOK, plan.first \in Gen
    PROVE  /\ Relocated \in Seq(Record) /\ Len(Relocated) = Len(records)
           /\ SeqsOf(Relocated) = SeqsOf(records)
<1>. DEFINE live == LiveRecords(plan.lo, plan.hi)
<1>1. records \in Seq(Record) /\ live \in Seq(Record)
      BY LiveRecordsAreAll DEF TypeOK
<1>2. ASSUME NEW i \in DOMAIN records
      PROVE  Relocated[i] \in Record /\ Relocated[i].seq = records[i].seq
  <2>1. records[i] \in Record
        BY <1>1
  <2>2. CASE records[i].gen \notin plan.lo .. plan.hi
        BY <2>1, <2>2 DEF Relocated
  <2>3. CASE records[i].gen \in plan.lo .. plan.hi
    <3>. DEFINE j == FirstAt(live, records[i].seq)
                g == plan.first + (j - 1) \div PerSegment
    <3>1. i \in RecordsIn(plan.lo, plan.hi)
          BY <2>3 DEF RecordsIn
    <3>2. records[i].seq \in SeqsOf(live)
          BY <1>1, <3>1, LiveRecordsAreAll DEF SeqsOf
    <3>3. j \in DOMAIN live /\ live[j].seq = records[i].seq
          BY <1>1, <3>2, FirstAtFinds
    <3>4. Relocated[i] = [live[j] EXCEPT !.gen = g]
          BY <2>3 DEF Relocated
    <3>. HIDE DEF j
    <3>5. g \in Gen
      <4>1. j - 1 \in Nat /\ PerSegment \in Nat /\ PerSegment > 0
            BY <1>1, <3>3, OutputCount
      <4>. DEFINE m == j - 1
                  p == PerSegment
      <4>. HIDE DEF m, p
      <4>2. m \div p \in Nat
            BY <4>1 DEF m, p
      <4>. QED BY <4>2 DEF m, p, Gen
    <3>6. live[j] \in Record
          BY <1>1, <3>3
    <3>. QED BY <3>3, <3>4, <3>5, <3>6 DEF Record
  <2>. QED BY <2>2, <2>3
<1>3. Relocated = [i \in DOMAIN records |-> Relocated[i]]
      BY DEF Relocated
<1>. HIDE DEF live
<1>4. DOMAIN Relocated = DOMAIN records
      BY <1>3
<1>5. Relocated \in Seq(Record) /\ Len(Relocated) = Len(records)
  <2>. DEFINE rs == Relocated
  <2>. HIDE DEF rs
  <2>1. /\ DOMAIN rs = 1 .. Len(records) /\ Len(records) \in Nat
        /\ \A i \in 1 .. Len(records) : rs[i] \in Record
        BY <1>1, <1>2, <1>4 DEF rs
  <2>2. rs = [i \in 1 .. Len(records) |-> rs[i]]
        BY <1>1, <1>3 DEF rs
  <2>3. rs \in Seq(Record) /\ Len(rs) = Len(records)
        BY <2>1, <2>2
  <2>. QED BY <2>3 DEF rs
<1>6. SeqsOf(Relocated) = SeqsOf(records)
      BY <1>2, <1>4 DEF SeqsOf
<1>. QED BY <1>5, <1>6

-----------------------------------------------------------------------------
(* The input range.                                                          *)

\* What compactRange() is given lies inside one range of the manifest.
LEMMA InputOfRange ==
    ASSUME ranges \in Seq(ManifestRange), Proper(ranges),
           NEW w \in ManifestRange, w.lo <= w.hi, NEW fallback, NEW in \in InputOf(w, fallback)
    PROVE  in \in ManifestRange /\ in.lo <= in.hi /\ InRange(in, ranges)
<1>1. PICK i \in ParentOf(w.lo, w.hi) : in \in Gated(w, ranges[i], fallback)
      BY DEF InputOf
<1>2. i \in DOMAIN ranges /\ ranges[i].lo <= w.lo /\ w.hi <= ranges[i].hi
      BY DEF ParentOf
<1>3. in = w \/ in = ranges[i]
      BY <1>1 DEF Gated
<1>4. ranges[i] \in ManifestRange
      BY <1>2
<1>5. ranges[i].lo <= ranges[i].lo /\ ranges[i].hi <= ranges[i].hi
      BY <1>4 DEF ManifestRange, Gen
<1>. QED BY <1>2, <1>3, <1>4, <1>5 DEF Proper, InRange

\* narrowRange() returns a range inside the one it is given.
LEMMA NarrowedRange ==
    ASSUME NEW r \in ManifestRange, r.lo <= r.hi, NEW w \in Narrowed(r)
    PROVE  w \in ManifestRange /\ w.lo <= w.hi
<1>1. w = r \/ w = [lo |-> r.lo, hi |-> r.lo] \/ w \in Windows(r.lo, r.hi)
      BY DEF Narrowed
<1>2. CASE w \in Windows(r.lo, r.hi)
  <2>1. w \in [lo : r.lo .. r.hi, hi : r.lo .. r.hi] /\ w.lo <= w.hi
        BY <1>2 DEF Windows
  <2>2. r.lo .. r.hi \subseteq Gen
        BY DEF ManifestRange, Gen
  <2>. QED BY <2>1, <2>2 DEF ManifestRange
<1>3. r.lo <= r.lo
      BY DEF ManifestRange, Gen
<1>. QED BY <1>1, <1>2, <1>3 DEF ManifestRange

LEMMA NextInputRange ==
    ASSUME ranges \in Seq(ManifestRange), Proper(ranges), NEW fallback, NEW in \in NextInput(fallback)
    PROVE  in \in ManifestRange /\ in.lo <= in.hi /\ InRange(in, ranges)
<1>1. PICK w \in UNION {Narrowed(ranges[i]) : i \in Candidates} : in \in InputOf(w, fallback)
      BY DEF NextInput
<1>. PICK i \in Candidates : w \in Narrowed(ranges[i])
     OBVIOUS
<1>2. i \in DOMAIN ranges
      BY DEF Candidates, DeadRanges
<1>3. ranges[i] \in ManifestRange /\ ranges[i].lo <= ranges[i].hi
      BY <1>2 DEF Proper
<1>4. w \in ManifestRange /\ w.lo <= w.hi
      BY <1>3, NarrowedRange
<1>. QED BY <1>1, <1>4, InputOfRange

-----------------------------------------------------------------------------
(* The range lists that are published.                                       *)

\* A list of manifest ranges, none empty and no two overlapping.
Ranges(rs) == rs \in Seq(ManifestRange) /\ Proper(rs) /\ Apart(rs)

LEMMA GensOfIn ==
    ASSUME NEW rs, NEW g
    PROVE  g \in GensOf(rs) <=> \E i \in DOMAIN rs : g \in SpanOf(rs[i])
BY DEF GensOf, SpanOf

\* One range, or none.
LEMMA SpanRanges ==
    ASSUME NEW lo \in Gen, NEW hi \in Nat
    PROVE  Ranges(Span(lo, hi)) /\ GensOf(Span(lo, hi)) = lo .. hi
<1>1. CASE lo <= hi
  <2>. DEFINE r == [lo |-> lo, hi |-> hi]
  <2>1. Span(lo, hi) = <<r>> /\ r \in ManifestRange /\ r.lo = lo /\ r.hi = hi
        BY <1>1 DEF Span, ManifestRange, Gen
  <2>. HIDE DEF r
  <2>2. DOMAIN <<r>> = {1} /\ <<r>>[1] = r /\ <<r>> \in Seq(ManifestRange)
        BY <2>1
  <2>3. GensOf(<<r>>) = lo .. hi
        BY <2>1, <2>2 DEF GensOf
  <2>. QED BY <1>1, <2>1, <2>2, <2>3 DEF Ranges, Proper, Apart
<1>2. CASE ~(lo <= hi)
  <2>1. Span(lo, hi) = <<>> /\ lo .. hi = {}
        BY <1>2 DEF Span, Gen
  <2>. QED BY <2>1 DEF Ranges, Proper, Apart, GensOf
<1>. QED BY <1>1, <1>2

\* Lists without a common generation may follow one another.
LEMMA ConcatRanges ==
    ASSUME NEW rs, NEW ss, Ranges(rs), Ranges(ss), GensOf(rs) \cap GensOf(ss) = {}
    PROVE  Ranges(rs \o ss) /\ GensOf(rs \o ss) = GensOf(rs) \cup GensOf(ss)
<1>. DEFINE both == rs \o ss
            n == Len(rs)
            m == Len(ss)
<1>1. rs \in Seq(ManifestRange) /\ ss \in Seq(ManifestRange)
      BY DEF Ranges
<1>2. n \in Nat /\ m \in Nat /\ DOMAIN rs = 1 .. n /\ DOMAIN ss = 1 .. m
      BY <1>1
<1>3. /\ both \in Seq(ManifestRange) /\ DOMAIN both = 1 .. n + m
      /\ \A i \in 1 .. n : both[i] = rs[i]
      /\ \A i \in 1 .. n + m : i > n => both[i] = ss[i - n]
      BY <1>1
<1>. HIDE DEF both, n, m
<1>4. \A i \in 1 .. n + m : i > n => i - n \in DOMAIN ss
      BY <1>2
<1>5. \A i \in 1 .. m : i + n \in DOMAIN both /\ i + n > n /\ (i + n) - n = i
      BY <1>2, <1>3
<1>6. \A i \in 1 .. n : i \in DOMAIN both
      BY <1>2, <1>3
<1>7. Proper(both)
  <2>1. \A i \in 1 .. n + m : i \in 1 .. n \/ i > n
        BY <1>2
  <2>. QED BY <1>2, <1>3, <1>4, <2>1 DEF Ranges, Proper
<1>8. \A g : g \in GensOf(both) <=> g \in GensOf(rs) \cup GensOf(ss)
  <2>. TAKE g
  <2>1. ASSUME g \in GensOf(both) PROVE g \in GensOf(rs) \cup GensOf(ss)
    <3>1. PICK i \in DOMAIN both : g \in SpanOf(both[i])
          BY <2>1, GensOfIn
    <3>2. i \in 1 .. n \/ i > n
          BY <1>2, <1>3
    <3>. QED BY <1>2, <1>3, <1>4, <3>1, <3>2, GensOfIn
  <2>2. ASSUME g \in GensOf(rs) PROVE g \in GensOf(both)
        BY <1>2, <1>3, <1>6, <2>2, GensOfIn
  <2>3. ASSUME g \in GensOf(ss) PROVE g \in GensOf(both)
    <3>1. PICK i \in 1 .. m : g \in SpanOf(ss[i])
          BY <1>2, <2>3, GensOfIn
    <3>2. both[i + n] = ss[i] /\ i + n \in DOMAIN both
          BY <1>3, <1>5
    <3>. QED BY <3>1, <3>2, GensOfIn
  <2>. QED BY <2>1, <2>2, <2>3
<1>9. Apart(both)
  <2>. SUFFICES ASSUME NEW i \in DOMAIN both, NEW j \in DOMAIN both, i # j,
                       NEW g \in SpanOf(both[i]), g \in SpanOf(both[j])
                PROVE  FALSE
       BY DEF Apart
  <2>1. i \in 1 .. n + m /\ j \in 1 .. n + m
        BY <1>3
  <2>2. CASE i \in 1 .. n /\ j \in 1 .. n
        BY <1>2, <1>3, <2>2 DEF Ranges, Apart
  <2>3. CASE i > n /\ j > n
    <3>1. i - n # j - n
          BY <1>2, <2>1
    <3>. QED BY <1>3, <1>4, <2>1, <2>3, <3>1 DEF Ranges, Apart
  <2>4. CASE i \in 1 .. n /\ j > n
        BY <1>2, <1>3, <1>4, <2>1, <2>4, GensOfIn
  <2>5. CASE i > n /\ j \in 1 .. n
        BY <1>2, <1>3, <1>4, <2>1, <2>5, GensOfIn
  <2>6. (i \in 1 .. n \/ i > n) /\ (j \in 1 .. n \/ j > n)
        BY <1>2, <2>1
  <2>. QED BY <2>2, <2>3, <2>4, <2>5, <2>6
<1>. QED BY <1>3, <1>7, <1>8, <1>9 DEF Ranges, both

\* A part of a list.
LEMMA PartRanges ==
    ASSUME NEW rs, Ranges(rs), NEW a \in 1 .. Len(rs) + 1, NEW b \in 0 .. Len(rs)
    PROVE  /\ Ranges(SubSeq(rs, a, b))
           /\ \A g : g \in GensOf(SubSeq(rs, a, b)) <=> \E i \in a .. b : g \in SpanOf(rs[i])
<1>. DEFINE part == SubSeq(rs, a, b)
            m == Len(part)
<1>1. rs \in Seq(ManifestRange) /\ Len(rs) \in Nat /\ DOMAIN rs = 1 .. Len(rs)
      BY DEF Ranges
<1>2. /\ part \in Seq(ManifestRange) /\ m \in Nat /\ DOMAIN part = 1 .. m
      /\ m = IF a <= b THEN b - a + 1 ELSE 0
      /\ \A i \in 1 .. m : part[i] = rs[a + i - 1]
  <2>1. \A i \in a .. b : rs[i] \in ManifestRange
        BY <1>1
  <2>2. part \in Seq(ManifestRange) /\ Len(part) = IF a <= b THEN b - a + 1 ELSE 0
        BY <1>1, <2>1
  <2>3. \A i \in 1 .. m : part[i] = rs[a + i - 1]
        BY <1>1, <2>1, <2>2
  <2>. QED BY <2>2, <2>3
<1>. HIDE DEF part, m
<1>3. \A i \in 1 .. m : a + i - 1 \in DOMAIN rs /\ a + i - 1 \in a .. b
      BY <1>1, <1>2
<1>4. Proper(part)
      BY <1>2, <1>3 DEF Ranges, Proper
<1>5. Apart(part)
  <2>. SUFFICES ASSUME NEW i \in 1 .. m, NEW j \in 1 .. m, i # j
                PROVE  SpanOf(part[i]) \cap SpanOf(part[j]) = {}
       BY <1>2 DEF Apart
  <2>1. a + i - 1 # a + j - 1
        OBVIOUS
  <2>. QED BY <1>2, <1>3, <2>1 DEF Ranges, Apart
<1>6. \A g : g \in GensOf(part) <=> \E i \in a .. b : g \in SpanOf(rs[i])
  <2>. TAKE g
  <2>1. ASSUME g \in GensOf(part) PROVE \E i \in a .. b : g \in SpanOf(rs[i])
    <3>1. PICK i \in 1 .. m : g \in SpanOf(part[i])
          BY <1>2, <2>1, GensOfIn
    <3>2. a + i - 1 \in a .. b /\ part[i] = rs[a + i - 1]
          BY <1>2, <1>3
    <3>. QED BY <3>1, <3>2
  <2>2. ASSUME NEW i \in a .. b, g \in SpanOf(rs[i]) PROVE g \in GensOf(part)
    <3>1. i - a + 1 \in 1 .. m /\ a + (i - a + 1) - 1 = i
          BY <1>1, <1>2
    <3>2. part[i - a + 1] = rs[i]
          BY <1>2, <3>1
    <3>. QED BY <1>2, <2>2, <3>1, <3>2, GensOfIn
  <2>. QED BY <2>1, <2>2
<1>. QED BY <1>2, <1>4, <1>5, <1>6 DEF Ranges, part

\* Merging the last range of one list with the first of the next keeps the generations.
LEMMA JoinedRanges ==
    ASSUME NEW rs, NEW ss, Ranges(rs), Ranges(ss), GensOf(rs) \cap GensOf(ss) = {}
    PROVE  Ranges(Joined(rs, ss)) /\ GensOf(Joined(rs, ss)) = GensOf(rs) \cup GensOf(ss)
<1>1. rs \in Seq(ManifestRange) /\ ss \in Seq(ManifestRange)
      BY DEF Ranges
<1>2. CASE ~(rs # <<>> /\ ss # <<>> /\ rs[Len(rs)].hi + 1 = ss[1].lo)
  <2>1. Joined(rs, ss) = rs \o ss
        BY <1>2 DEF Joined
  <2>. QED BY <2>1, ConcatRanges
<1>3. CASE rs # <<>> /\ ss # <<>> /\ rs[Len(rs)].hi + 1 = ss[1].lo
  <2>. DEFINE n == Len(rs)
              a == rs[n]
              b == ss[1]
              front == SubSeq(rs, 1, n - 1)
              rest == SubSeq(ss, 2, Len(ss))
              mid == Span(a.lo, b.hi)
  <2>1. /\ n \in 1 .. Len(rs) /\ n - 1 \in 0 .. Len(rs) /\ 1 \in 1 .. Len(rs) + 1
        /\ Len(ss) \in 0 .. Len(ss) /\ 2 \in 1 .. Len(ss) + 1 /\ 1 \in DOMAIN ss /\ n \in DOMAIN rs
        /\ DOMAIN rs = 1 .. n /\ DOMAIN ss = 1 .. Len(ss)
        BY <1>1, <1>3
  <2>2. a \in ManifestRange /\ b \in ManifestRange /\ a.lo <= a.hi /\ b.lo <= b.hi /\ a.hi + 1 = b.lo
        BY <1>1, <1>3, <2>1 DEF Ranges, Proper
  <2>3. a.lo \in Gen /\ b.hi \in Nat /\ a.lo <= b.hi /\ SpanOf(a) \cup SpanOf(b) = a.lo .. b.hi
        BY <2>2 DEF ManifestRange, Gen, SpanOf
  <2>4. Joined(rs, ss) = (front \o mid) \o rest
    <3>1. Tail(ss) = rest
          BY <1>1, <1>3, TailIsSubSeq
    <3>2. mid = <<[lo |-> a.lo, hi |-> b.hi]>>
          BY <2>3 DEF Span
    <3>. HIDE DEF mid, front, rest
    <3>. QED BY <1>3, <3>1, <3>2 DEF Joined, front
  <2>5. Ranges(front) /\ \A g : g \in GensOf(front) <=> \E i \in 1 .. n - 1 : g \in SpanOf(rs[i])
        BY ONLY Ranges(rs), <2>1, PartRanges
  <2>6. Ranges(rest) /\ \A g : g \in GensOf(rest) <=> \E i \in 2 .. Len(ss) : g \in SpanOf(ss[i])
        BY ONLY Ranges(ss), <2>1, PartRanges
  <2>7. Ranges(mid) /\ GensOf(mid) = SpanOf(a) \cup SpanOf(b)
        BY <2>3, SpanRanges
  <2>. HIDE DEF front, rest, mid
  <2>8. /\ GensOf(rs) = GensOf(front) \cup SpanOf(a)
        /\ GensOf(front) \cap SpanOf(a) = {}
    <3>0. n \in Nat
          BY <1>1
    <3>1. \A i \in 1 .. n : i \in 1 .. n - 1 \/ i = n
      <4>. HIDE DEF n
      <4>. QED BY ONLY <3>0
    <3>2. \A i \in 1 .. n - 1 : i \in 1 .. n /\ i # n
      <4>. HIDE DEF n
      <4>. QED BY ONLY <3>0
    <3>3. \A g : g \in GensOf(rs) <=> \E i \in 1 .. n : g \in SpanOf(rs[i])
          BY <2>1, GensOfIn
    <3>4. \A i \in 1 .. n - 1 : SpanOf(rs[i]) \cap SpanOf(a) = {}
          BY <2>1, <3>2 DEF Ranges, Apart
    <3>. QED BY <2>1, <2>5, <3>1, <3>2, <3>3, <3>4
  <2>9. /\ GensOf(ss) = GensOf(rest) \cup SpanOf(b)
        /\ GensOf(rest) \cap SpanOf(b) = {}
    <3>1. \A i \in 1 .. Len(ss) : i \in 2 .. Len(ss) \/ i = 1
          BY <2>1
    <3>2. \A i \in 2 .. Len(ss) : i \in 1 .. Len(ss) /\ i # 1
          BY <2>1
    <3>3. \A g : g \in GensOf(ss) <=> \E i \in 1 .. Len(ss) : g \in SpanOf(ss[i])
          BY <2>1, GensOfIn
    <3>4. \A i \in 2 .. Len(ss) : SpanOf(ss[i]) \cap SpanOf(b) = {}
          BY <2>1, <3>2 DEF Ranges, Apart
    <3>. QED BY <2>1, <2>6, <3>1, <3>2, <3>3, <3>4
  <2>. HIDE DEF a, b
  <2>10. GensOf(front) \cap GensOf(mid) = {}
        BY <2>7, <2>8, <2>9
  <2>11. Ranges(front \o mid) /\ GensOf(front \o mid) = GensOf(front) \cup GensOf(mid)
        BY <2>5, <2>7, <2>10, ConcatRanges
  <2>12. GensOf(front \o mid) \cap GensOf(rest) = {}
        BY <2>7, <2>8, <2>9, <2>11
  <2>13. /\ Ranges((front \o mid) \o rest)
         /\ GensOf((front \o mid) \o rest) = GensOf(front \o mid) \cup GensOf(rest)
        BY <2>6, <2>11, <2>12, ConcatRanges
  <2>. QED BY <2>4, <2>7, <2>8, <2>9, <2>11, <2>13
<1>. QED BY <1>2, <1>3

\* The manifest without the input range and with its output.
LEMMA SplicedRanges ==
    ASSUME Ranges(ranges), \A g \in GensOf(ranges) : g < plan.first,
           plan.lo \in Gen, plan.hi \in Nat, plan.lo <= plan.hi, plan.first \in Gen,
           plan.outs \in Nat, InRange(plan, ranges)
    PROVE  /\ Ranges(Spliced)
           /\ GensOf(Spliced) = (GensOf(ranges) \ (plan.lo .. plan.hi))
                                \cup (plan.first .. plan.first + plan.outs - 1)
<1>. DEFINE i == CHOOSE k \in ParentOf(plan.lo, plan.hi) : TRUE
            p == ranges[i]
            n == Len(ranges)
            before1 == SubSeq(ranges, 1, i - 1)
            before2 == Span(p.lo, plan.lo - 1)
            after1 == Span(plan.hi + 1, p.hi)
            after2 == SubSeq(ranges, i + 1, n)
            out == Span(plan.first, plan.first + plan.outs - 1)
            before == before1 \o before2
            after == after1 \o after2
            outs == plan.first .. plan.first + plan.outs - 1
            gone == plan.lo .. plan.hi
<1>1. ranges \in Seq(ManifestRange) /\ n \in Nat /\ DOMAIN ranges = 1 .. n
      BY DEF Ranges
<1>2. i \in DOMAIN ranges /\ p.lo <= plan.lo /\ plan.hi <= p.hi
  <2>1. ParentOf(plan.lo, plan.hi) # {}
        BY DEF InRange, ParentOf
  <2>2. i \in ParentOf(plan.lo, plan.hi)
        BY <2>1
  <2>. HIDE DEF i
  <2>. QED BY <2>2 DEF ParentOf
<1>. HIDE DEF i
<1>3. /\ p \in ManifestRange /\ p.lo \in Gen /\ p.hi \in Gen /\ plan.lo - 1 \in Nat /\ plan.hi + 1 \in Gen
      /\ i - 1 \in 0 .. n /\ i + 1 \in 1 .. n + 1 /\ 1 \in 1 .. n + 1 /\ n \in 0 .. n
  <2>1. p \in ManifestRange
        BY <1>1, <1>2
  <2>2. p.lo \in Gen /\ p.hi \in Gen
        BY <2>1 DEF ManifestRange
  <2>3. plan.lo - 1 \in Nat /\ plan.hi + 1 \in Gen
        BY DEF Gen
  <2>4. i - 1 \in 0 .. n /\ i + 1 \in 1 .. n + 1 /\ 1 \in 1 .. n + 1 /\ n \in 0 .. n
    <3>. HIDE DEF n
    <3>. QED BY <1>1, <1>2
  <2>. QED BY <2>1, <2>2, <2>3, <2>4
<1>4. Ranges(before1) /\ \A g : g \in GensOf(before1) <=> \E k \in 1 .. i - 1 : g \in SpanOf(ranges[k])
      BY ONLY Ranges(ranges), <1>3, PartRanges
<1>5. Ranges(after2) /\ \A g : g \in GensOf(after2) <=> \E k \in i + 1 .. n : g \in SpanOf(ranges[k])
      BY ONLY Ranges(ranges), <1>3, PartRanges
<1>6. Ranges(before2) /\ GensOf(before2) = p.lo .. plan.lo - 1
      BY ONLY <1>3, SpanRanges
<1>7. Ranges(after1) /\ GensOf(after1) = plan.hi + 1 .. p.hi
      BY ONLY <1>3, SpanRanges DEF Gen
<1>8. Ranges(out) /\ GensOf(out) = outs
  <2>1. plan.first + plan.outs - 1 \in Nat
        BY DEF Gen
  <2>. QED BY <2>1, SpanRanges
<1>9. \A g : g \in GensOf(ranges) <=>
          \/ g \in GensOf(before1) \/ g \in GensOf(after2) \/ g \in SpanOf(p)
  <2>1. \A k \in 1 .. n : k \in 1 .. i - 1 \/ k \in i + 1 .. n \/ k = i
        BY <1>1, <1>2
  <2>2. \A k \in (1 .. i - 1) \cup (i + 1 .. n) \cup {i} : k \in 1 .. n
        BY <1>1, <1>2
  <2>3. \A g : g \in GensOf(ranges) <=> \E k \in 1 .. n : g \in SpanOf(ranges[k])
        BY <1>1, GensOfIn
  <2>. QED BY <1>4, <1>5, <2>1, <2>2, <2>3
<1>10. GensOf(before1) \cap SpanOf(p) = {} /\ GensOf(after2) \cap SpanOf(p) = {}
  <2>1. \A k \in (1 .. i - 1) \cup (i + 1 .. n) : k \in 1 .. n /\ k # i
        BY <1>1, <1>2
  <2>2. \A k \in (1 .. i - 1) \cup (i + 1 .. n) : SpanOf(ranges[k]) \cap SpanOf(p) = {}
        BY <1>1, <1>2, <2>1 DEF Ranges, Apart
  <2>. QED BY <1>4, <1>5, <2>2
<1>11. GensOf(before1) \cap GensOf(after2) = {}
  <2>1. \A k \in 1 .. i - 1, l \in i + 1 .. n : k \in 1 .. n /\ l \in 1 .. n /\ k # l
        BY <1>1, <1>2
  <2>2. \A k \in 1 .. i - 1, l \in i + 1 .. n : SpanOf(ranges[k]) \cap SpanOf(ranges[l]) = {}
        BY <1>1, <2>1 DEF Ranges, Apart
  <2>. QED BY <1>4, <1>5, <2>2
<1>12. /\ SpanOf(p) = GensOf(before2) \cup gone \cup GensOf(after1)
       /\ GensOf(before2) \cap gone = {} /\ GensOf(after1) \cap gone = {}
       /\ GensOf(before2) \cap GensOf(after1) = {}
       /\ \A g \in outs : g >= plan.first
  <2>. DEFINE lo == p.lo
              hi == p.hi
              x == plan.lo
              y == plan.hi
  <2>1. lo \in Nat /\ hi \in Nat /\ x \in Nat /\ y \in Nat /\ lo <= x /\ x <= y /\ y <= hi
        BY <1>2, <1>3 DEF Gen
  <2>2. SpanOf(p) = lo .. hi
        BY DEF SpanOf
  <2>. HIDE DEF lo, hi, x, y
  <2>3. /\ lo .. hi = (lo .. x - 1) \cup (x .. y) \cup (y + 1 .. hi)
        /\ (lo .. x - 1) \cap (x .. y) = {} /\ (y + 1 .. hi) \cap (x .. y) = {}
        /\ (lo .. x - 1) \cap (y + 1 .. hi) = {}
        BY ONLY <2>1
  <2>4. \A g \in outs : g >= plan.first
        BY DEF Gen
  <2>. QED BY <1>6, <1>7, <2>2, <2>3, <2>4 DEF lo, hi, x, y
<1>13. \A g \in outs : g \notin GensOf(ranges)
  <2>1. \A g \in outs : g \in Nat /\ plan.first \in Nat
        BY DEF Gen
  <2>. QED BY <1>12, <2>1
<1>. HIDE DEF before1, before2, after1, after2, out, p, n, outs, gone
<1>14. Ranges(before) /\ GensOf(before) = GensOf(before1) \cup GensOf(before2)
  <2>1. GensOf(before1) \cap GensOf(before2) = {}
        BY <1>10, <1>12
  <2>. QED BY <1>4, <1>6, <2>1, ConcatRanges
<1>15. Ranges(after) /\ GensOf(after) = GensOf(after1) \cup GensOf(after2)
  <2>1. GensOf(after1) \cap GensOf(after2) = {}
        BY <1>10, <1>12
  <2>. QED BY <1>5, <1>7, <2>1, ConcatRanges
<1>16. /\ GensOf(before) \cup GensOf(after) = GensOf(ranges) \ gone
       /\ GensOf(before) \cap GensOf(after) = {}
  <2>1. GensOf(before) \cap GensOf(after) = {}
        BY <1>10, <1>11, <1>12, <1>14, <1>15
  <2>2. \A g : g \in GensOf(before) \cup GensOf(after) <=> g \in GensOf(ranges) /\ g \notin gone
        BY <1>9, <1>10, <1>12, <1>14, <1>15
  <2>. QED BY <2>1, <2>2
<1>17. Spliced = IF plan.outs = 0 THEN before \o after ELSE Joined(before, Joined(out, after))
      BY DEF Spliced, i, p, n, before1, before2, after1, after2, out
<1>. HIDE DEF before, after
<1>18. CASE plan.outs = 0
  <2>1. outs = {}
        BY <1>18 DEF outs, Gen
  <2>. QED BY <1>14, <1>15, <1>16, <1>17, <1>18, <2>1, ConcatRanges DEF outs, gone
<1>19. CASE plan.outs # 0
  <2>1. GensOf(out) \cap GensOf(after) = {} /\ GensOf(out) \cap GensOf(before) = {}
        BY <1>8, <1>13, <1>16
  <2>2. Ranges(Joined(out, after)) /\ GensOf(Joined(out, after)) = GensOf(out) \cup GensOf(after)
        BY <1>8, <1>15, <2>1, JoinedRanges
  <2>3. GensOf(before) \cap GensOf(Joined(out, after)) = {}
        BY <1>16, <2>1, <2>2
  <2>4. /\ Ranges(Joined(before, Joined(out, after)))
        /\ GensOf(Joined(before, Joined(out, after))) = GensOf(before) \cup GensOf(Joined(out, after))
        BY <1>14, <2>2, <2>3, JoinedRanges
  <2>5. GensOf(before) \cup (outs \cup GensOf(after)) = (GensOf(ranges) \ gone) \cup outs
        BY <1>16
  <2>. QED BY <1>8, <1>17, <1>19, <2>2, <2>4, <2>5 DEF outs, gone
<1>. QED BY <1>18, <1>19

\* rotateSegment()'s list: the input range stays inside one range.
LEMMA SealedRangesKeep ==
    ASSUME TypeOK, Ranges(ranges), tail \notin GensOf(ranges)
    PROVE  /\ Ranges(SealedRanges)
           /\ \A p : p.hi \in Nat /\ InRange(p, ranges) => InRange(p, SealedRanges)
<1>. DEFINE n == Len(ranges)
<1>1. ranges \in Seq(ManifestRange) /\ SealedRanges \in Seq(ManifestRange) /\ tail \in Nat
      /\ n \in Nat /\ DOMAIN ranges = 1 .. n
      BY SealedRangesType DEF TypeOK
<1>2. \A i \in DOMAIN ranges : ranges[i] \in ManifestRange /\ ranges[i].lo \in Nat
                              /\ ranges[i].hi \in Nat
  <2>1. \A i \in DOMAIN ranges : ranges[i] \in ManifestRange
        BY <1>1
  <2>. QED BY <2>1 DEF ManifestRange, Gen
<1>3. CASE tail = 0
      BY <1>3 DEF SealedRanges
<1>4. CASE tail # 0 /\ n > 0 /\ ranges[n].hi + 1 = tail
  <2>1. SealedRanges = [ranges EXCEPT ![n] = [ranges[n] EXCEPT !.hi = tail]]
        BY <1>4 DEF SealedRanges
  <2>2. n \in DOMAIN ranges /\ DOMAIN SealedRanges = DOMAIN ranges
        BY <1>1, <1>4, <2>1
  <2>. HIDE DEF n
  <2>3. /\ \A i \in DOMAIN ranges : i # n => SealedRanges[i] = ranges[i]
        /\ SealedRanges[n].lo = ranges[n].lo /\ SealedRanges[n].hi = tail
        BY <1>2, <2>1, <2>2 DEF ManifestRange
  <2>4. SpanOf(SealedRanges[n]) = SpanOf(ranges[n]) \cup {tail}
    <3>1. ranges[n].lo <= ranges[n].hi
          BY <2>2 DEF Ranges, Proper
    <3>. QED BY <1>1, <1>2, <1>4, <2>2, <2>3, <3>1 DEF SpanOf
  <2>5. Proper(SealedRanges)
    <3>1. ranges[n].lo <= tail
          BY <1>1, <1>2, <1>4, <2>2 DEF Ranges, Proper
    <3>. QED BY <2>2, <2>3, <3>1 DEF Ranges, Proper
  <2>6. Apart(SealedRanges)
    <3>1. \A i \in DOMAIN ranges : tail \notin SpanOf(ranges[i])
          BY GensOfIn
    <3>2. \A i \in DOMAIN ranges : i # n => SpanOf(SealedRanges[i]) \cap SpanOf(SealedRanges[n]) = {}
          BY <2>2, <2>3, <2>4, <3>1 DEF Ranges, Apart
    <3>. SUFFICES ASSUME NEW i \in DOMAIN ranges, NEW j \in DOMAIN ranges, i # j
                  PROVE  SpanOf(SealedRanges[i]) \cap SpanOf(SealedRanges[j]) = {}
         BY <2>2 DEF Apart
    <3>. QED BY <2>3, <3>2 DEF Ranges, Apart
  <2>7. ASSUME NEW p, p.hi \in Nat, InRange(p, ranges) PROVE InRange(p, SealedRanges)
    <3>1. PICK i \in DOMAIN ranges : ranges[i].lo <= p.lo /\ p.hi <= ranges[i].hi
          BY <2>7 DEF InRange
    <3>2. SealedRanges[i].lo <= p.lo /\ p.hi <= SealedRanges[i].hi
          BY <1>1, <1>2, <1>4, <2>2, <2>3, <2>7, <3>1
    <3>. QED BY <2>2, <3>2 DEF InRange
  <2>. QED BY <1>1, <2>5, <2>6, <2>7 DEF Ranges
<1>5. CASE tail # 0 /\ ~(n > 0 /\ ranges[n].hi + 1 = tail)
  <2>. DEFINE r == [lo |-> tail, hi |-> tail]
  <2>1. SealedRanges = Append(ranges, r)
        BY <1>5 DEF SealedRanges
  <2>2. Span(tail, tail) = <<r>> /\ tail \in Gen
        BY <1>1, <1>5 DEF Span, Gen
  <2>3. SealedRanges = ranges \o Span(tail, tail)
    <3>. HIDE DEF r
    <3>. QED BY <1>1, <2>1, <2>2
  <2>4. Ranges(Span(tail, tail)) /\ GensOf(Span(tail, tail)) = {tail}
        BY <1>1, <2>2, SpanRanges
  <2>5. Ranges(SealedRanges)
        BY <2>3, <2>4, ConcatRanges
  <2>6. ASSUME NEW p, InRange(p, ranges) PROVE InRange(p, SealedRanges)
    <3>1. PICK i \in DOMAIN ranges : ranges[i].lo <= p.lo /\ p.hi <= ranges[i].hi
          BY <2>6 DEF InRange
    <3>2. i \in DOMAIN SealedRanges /\ SealedRanges[i] = ranges[i]
      <4>. HIDE DEF r
      <4>. QED BY <1>1, <2>1
    <3>. QED BY <3>1, <3>2 DEF InRange
  <2>. QED BY <2>5, <2>6
<1>. QED BY <1>3, <1>4, <1>5

-----------------------------------------------------------------------------
(* The invariant is kept: the steps of the store without compaction.         *)

\* What RAM knows of the manifest, as these proofs use it.
LEMMA Known ==
    ASSUME CompactInv
    PROVE  /\ TypeOK /\ nextGen \in Gen
           /\ Mounted /\ HasManifest =>
                 /\ manifest \in Manifest /\ ranges = manifest.ranges /\ tail = manifest.tail
                 /\ tail \in Gen
                 /\ Ranges(ranges) /\ tail \notin GensOf(ranges) /\ tail < nextGen
                 /\ \A g \in GensOf(ranges) : g < nextGen
           /\ Mounted /\ ranges # <<>> => HasManifest
           /\ Mounted /\ ~HasManifest => ranges = <<>> /\ tail = 0 /\ tailBytes = 0
<1>1. TypeOK /\ nextGen \in Gen
      BY DEF CompactInv, SafeInv, TypeInv, TypeOK
<1>2. ASSUME Mounted, HasManifest
      PROVE  /\ manifest \in Manifest /\ ranges = manifest.ranges /\ tail = manifest.tail
             /\ tail \in Gen
             /\ Ranges(ranges) /\ tail \notin GensOf(ranges) /\ tail < nextGen
             /\ \A g \in GensOf(ranges) : g < nextGen
  <2>1. manifest \in Manifest /\ ranges = manifest.ranges /\ tail = manifest.tail
        BY <1>1, <1>2 DEF CompactInv, SafeInv, TypeInv, RamFacts, Scanned, TypeOK, HasManifest
  <2>2. tail \in Gen
        BY <2>1 DEF Manifest
  <2>3. Ranges(ranges) /\ tail \notin GensOf(ranges)
        BY <1>1, <1>2, <2>1 DEF CompactInv, ManifestFacts, Ranges, TypeOK
  <2>4. tail < nextGen /\ \A g \in GensOf(ranges) : g < nextGen
        BY <1>2, <2>1 DEF CompactInv, SafeInv, FreshFacts, Scanned, LiveGens
  <2>. QED BY <2>1, <2>2, <2>3, <2>4
<1>3. (Mounted /\ ranges # <<>> => HasManifest)
      /\ (Mounted /\ ~HasManifest => ranges = <<>> /\ tail = 0 /\ tailBytes = 0)
      BY DEF CompactInv, SafeInv, TypeInv, RamFacts, Scanned
<1>. QED BY <1>1, <1>2, <1>3

LEMMA CompactInit == Init => CompactInv
BY SafeInit DEF Init, Unmounted, CompactInv, ManifestFacts, PlanFacts, CompactPhases, WritingFacts,
                CleanupFacts, HasManifest

\* The steps outside a compaction, and those that end one early.
LEMMA OutsideStep ==
    ASSUME CompactInv, SafeInv', HasManifest' => HasManifest /\ UNCHANGED manifest,
           plan' = NoPlan, pc' \notin CompactPhases, pc' = "admit" => call'.op # "pop"
    PROVE  CompactInv'
<1>1. ManifestFacts'
      BY DEF CompactInv, ManifestFacts, HasManifest
<1>2. PlanFacts' /\ WritingFacts' /\ CleanupFacts'
      BY DEF PlanFacts, WritingFacts, CleanupFacts, CompactPhases
<1>. QED BY <1>1, <1>2 DEF CompactInv

LEMMA TailStep ==
    ASSUME CompactInv, SafeInv', CreateTail \/ PublishTail
    PROVE  CompactInv'
<1>1. CASE CreateTail
  <2>1. UNCHANGED <<manifest, records, ranges, tail, nextGen, call, plan>> /\ pc = "create"
        /\ pc' = "publishTail"
        BY <1>1 DEF CreateTail
  <2>2. ManifestFacts' /\ PlanFacts' /\ WritingFacts' /\ CleanupFacts'
        BY <2>1 DEF CompactInv, ManifestFacts, PlanFacts, WritingFacts, CleanupFacts, HasManifest,
                    CompactPhases, InRange
  <2>. QED BY <2>2 DEF CompactInv
<1>2. CASE PublishTail
  <2>1. /\ manifest' = [ranges |-> SealedRanges, tail |-> nextGen, next |-> nextGen + 1]
        /\ ranges' = SealedRanges /\ UNCHANGED <<call, plan>> /\ pc = "publishTail"
        /\ pc' = (IF plan = NoPlan THEN "append" ELSE "resolve")
        BY <1>2 DEF PublishTail, Publish
  <2>2. Mounted /\ TypeOK /\ nextGen \in Gen
        BY <2>1, Known DEF Mounted
  <2>3. Ranges(ranges) /\ tail \notin GensOf(ranges)
    <3>1. CASE HasManifest
          BY <2>2, <3>1, Known
    <3>2. CASE ~HasManifest
      <4>1. ranges = <<>>
            BY <2>2, <3>2, Known
      <4>. QED BY <4>1 DEF Ranges, Proper, Apart, GensOf
    <3>. QED BY <3>1, <3>2
  <2>4. Ranges(SealedRanges)
        /\ \A p : p.hi \in Nat /\ InRange(p, ranges) => InRange(p, SealedRanges)
        BY <2>2, <2>3, SealedRangesKeep
  <2>5. nextGen \notin GensOf(SealedRanges)
    <3>1. \A g \in GensOf(ranges) : g < nextGen
      <4>1. CASE HasManifest
            BY <2>2, <4>1, Known
      <4>2. CASE ~HasManifest
            BY <2>2, <4>2, Known DEF GensOf
      <4>. QED BY <4>1, <4>2
    <3>2. tail # 0 => tail < nextGen
          BY <2>2, Known
    <3>3. tail \in Nat /\ nextGen \in Nat
          BY <2>2 DEF TypeOK, Gen
    <3>. QED BY <2>2, <3>1, <3>2, <3>3, SealedGens
  <2>6. ManifestFacts'
        BY <2>1, <2>4, <2>5 DEF ManifestFacts, Ranges
  <2>7. PlanFacts'
    <3>1. plan.hi \in Nat
          BY <2>2 DEF TypeOK
    <3>. QED BY <2>1, <2>4, <3>1 DEF CompactInv, PlanFacts, CompactPhases
  <2>8. WritingFacts' /\ CleanupFacts'
        BY <2>1 DEF WritingFacts, CleanupFacts
  <2>. QED BY <2>6, <2>7, <2>8 DEF CompactInv
<1>. QED BY <1>1, <1>2

\* Every step of the store as AppendLogStore has it.
LEMMA StoreStep ==
    ASSUME CompactInv, Next, ShrinkKeepsPrefix
    PROVE  CompactInv' /\ LiveGrow
<1>1. SafeInv' /\ LiveGrow
      BY SafeStep DEF CompactInv
<1>2. CASE Mounting \/ Calling \/ Admit \/ PlaceEvent \/ AppendEvent
  <2>1. /\ UNCHANGED <<manifest, plan>>
        /\ pc \notin CompactPhases \cup {"create", "publishTail"} /\ pc' \notin CompactPhases
    <3>1. CASE Mounting
          BY <3>1 DEF Mounting, MountBegin, ReplayUnreadable, ReplayEvent, ReplayTornSealed,
             ReplayNextSegment, ReplayDone, TruncateTail, MountDone, FailMount, AtSegmentEnd,
             disk, ram, CompactPhases
    <3>2. CASE Calling
          BY <3>2 DEF Calling, CommitEnqueue, RewriteRecord, CommitPop, MayStart, disk, ram,
             CompactPhases
    <3>3. CASE Admit \/ PlaceEvent
          BY <3>3 DEF Admit, PlaceEvent, disk, ram, CompactPhases
    <3>4. CASE AppendEvent
          BY <3>4 DEF AppendEvent, CompactPhases
    <3>. QED BY <1>2, <3>1, <3>2, <3>3, <3>4
  <2>2. plan = NoPlan
        BY <2>1 DEF CompactInv, PlanFacts
  <2>3. pc' = "admit" => call'.op # "pop"
    <3>1. CASE Mounting
          BY <3>1 DEF Mounting, MountBegin, ReplayUnreadable, ReplayEvent, ReplayTornSealed,
             ReplayNextSegment, ReplayDone, TruncateTail, MountDone, FailMount, AtSegmentEnd
    <3>2. CASE Calling
          BY <3>2 DEF Calling, CommitEnqueue, RewriteRecord, CommitPop
    <3>3. CASE Admit \/ PlaceEvent \/ AppendEvent
          BY <3>3 DEF Admit, PlaceEvent, AppendEvent
    <3>. QED BY <1>2, <3>1, <3>2, <3>3
  <2>. QED BY <1>1, <2>1, <2>2, <2>3, OutsideStep DEF HasManifest
<1>3. CASE PublishRefused \/ Failing
  <2>1. plan' = NoPlan /\ pc' \notin CompactPhases /\ pc' # "admit"
        BY <1>3 DEF PublishRefused, Failing, PowerLoss, WriteError, ReturnError, CompactPhases
  <2>2. HasManifest' => HasManifest /\ UNCHANGED manifest
        BY <1>3, PartialWriteIsHarmless
        DEF CompactInv, PublishRefused, Failing, PowerLoss, WriteError, disk, HasManifest
  <2>. QED BY <1>1, <2>1, <2>2, OutsideStep
<1>4. CASE CreateTail \/ PublishTail
      BY <1>1, <1>4, TailStep
<1>. QED BY <1>2, <1>3, <1>4 DEF Next, Working

-----------------------------------------------------------------------------
(* The invariant is kept: the steps of compactRange().                       *)

\* A call that compaction may run in, or none.
CompactCall(c) ==
    /\ c \in [op : {"none", "enqueue", "rewrite"}, seq : Nat, val : 0 .. MaxValues]
    /\ c.op \in {"enqueue", "rewrite"} => c.val # 0
    /\ c.op = "rewrite" => c.seq \in SeqsOf(records)

\* The input range is fixed, and the output laid out: nothing is written yet.
LEMMA ResolveStep ==
    ASSUME CompactInv, Mounted, pc # "publishTail", NEW lo, NEW hi, Resolve(lo, hi), lo \in Gen, hi \in Nat, lo <= hi,
           InRange([lo |-> lo, hi |-> hi], ranges),
           UNCHANGED <<disk, ram, scan, failures>>, CompactCall(call'),
           queue' \in Seq(Val), issued' \in 0 .. MaxValues
    PROVE  CompactInv' /\ LiveGrow
<1>. DEFINE n == Cardinality(RecordsIn(lo, hi))
<1>1. TypeOK /\ n \in Nat
      BY Known, RecordsInRange DEF TypeOK
<1>. HIDE DEF n
<1>2. /\ plan' = [lo |-> lo, hi |-> hi, first |-> nextGen, outs |-> OutputSegs(n), done |-> 0]
      /\ pc' = IF n = 0 THEN "publish" ELSE "write"
      BY DEF Resolve, n
<1>3. OutputSegs(n) \in Nat /\ (OutputSegs(n) = 0 <=> n = 0)
      BY <1>1, OutputCount
<1>4. nextGen \in Gen
      BY Known
<1>5. UNCHANGED <<segs, manifest, records, ranges, tail, tailBytes, nextGen, nextSeq, sealed,
                  deps, scan, failures>>
      BY DEF disk, ram
<1>6. TypeInv'
  <2>1. plan' \in [lo : Nat, hi : Nat, first : Nat, outs : Nat, done : Nat]
        BY <1>2, <1>3, <1>4 DEF Gen
  <2>2. TypeOK'
        BY <1>1, <1>2, <1>5, <2>1 DEF TypeOK, Phases, CompactCall
  <2>3. OutputFacts' /\ CallFacts' /\ ReplayFacts' /\ TailFacts'
        BY <1>2, <1>5 DEF OutputFacts, CallFacts, ReplayFacts, TailFacts, CompactCall, SeqsOf
  <2>4. RamFacts'
        BY <1>2, <1>5 DEF CompactInv, SafeInv, TypeInv, RamFacts, Scanned, Mounted, HasManifest
  <2>. QED BY <2>2, <2>3, <2>4 DEF TypeInv
<1>7. SafeInv' /\ LiveGrow
      BY <1>2, <1>5, <1>6, SafeQuietStep DEF CompactInv, Mounted
<1>8. ManifestFacts'
      BY <1>5 DEF CompactInv, ManifestFacts, HasManifest
<1>9. PlanFacts'
  <2>1. plan' # NoPlan /\ plan'.lo = lo /\ plan'.hi = hi
        BY <1>2, <1>4 DEF NoPlan, Gen
  <2>. QED BY <1>2, <1>5, <2>1 DEF PlanFacts, CompactPhases, CompactCall, InRange
<1>10. WritingFacts'
  <2>1. plan'.first = nextGen /\ plan'.outs = OutputSegs(n) /\ plan'.done = 0
        /\ plan'.lo = lo /\ plan'.hi = hi
        BY <1>2
  <2>2. RecordsIn(lo, hi)' = RecordsIn(lo, hi)
        BY <1>5 DEF RecordsIn
  <2>3. (Cardinality(RecordsIn(plan.lo, plan.hi)))' = n
        BY <2>1, <1>5 DEF RecordsIn, n
  <2>4. (OutputSegs(Cardinality(RecordsIn(plan.lo, plan.hi))))' = OutputSegs(n)
        BY <2>3 DEF OutputSegs
  <2>5. plan'.first .. plan'.first + plan'.done - 1 = {}
        BY <1>4, <2>1 DEF Gen
  <2>. QED BY <1>2, <1>3, <1>5, <2>1, <2>4, <2>5 DEF WritingFacts
<1>11. CleanupFacts'
      BY <1>2 DEF CleanupFacts
<1>. QED BY <1>7, <1>8, <1>9, <1>10, <1>11 DEF CompactInv

\* compactRange() starts on a range inside one range of the manifest.
LEMMA BeginStep ==
    ASSUME CompactInv, pc \in {"idle", "admit"}, NEW in \in ManifestRange, in.lo <= in.hi,
           InRange(in, ranges), BeginCompaction(in),
           UNCHANGED <<disk, RamButSealed, scan, failures>>, CompactCall(call'),
           queue' \in Seq(Val), issued' \in 0 .. MaxValues
    PROVE  CompactInv' /\ LiveGrow
<1>1. in.lo \in Gen /\ in.hi \in Gen /\ in.hi \in Nat /\ Mounted /\ pc # "publishTail"
      BY DEF ManifestRange, Gen, Mounted
<1>2. CASE Resolve(in.lo, in.hi) /\ UNCHANGED sealed
  <2>1. InRange([lo |-> in.lo, hi |-> in.hi], ranges)
        BY DEF InRange
  <2>. QED BY <1>1, <1>2, <2>1, ResolveStep DEF RamButSealed, ram
<1>3. CASE /\ plan' = [NoPlan EXCEPT !.lo = in.lo, !.hi = in.hi]
           /\ pc' = "create" /\ SealTailSize
  <2>1. UNCHANGED <<segs, manifest, records, ranges, tail, tailBytes, nextGen, nextSeq,
                    deps, scan, failures>>
        BY DEF disk, RamButSealed
  <2>2. plan' = [lo |-> in.lo, hi |-> in.hi, first |-> 0, outs |-> 0, done |-> 0]
        BY <1>3 DEF NoPlan
  <2>3. TypeInv'
    <3>1. TypeOK /\ plan' \in [lo : Nat, hi : Nat, first : Nat, outs : Nat, done : Nat]
          BY <1>1, <2>2, Known DEF Gen
    <3>2. DOMAIN sealed' \subseteq Nat /\ \A g \in DOMAIN sealed' : sealed'[g] \in Nat
          BY <1>3, <3>1 DEF SealTailSize, TypeOK
    <3>3. TypeOK'
          BY <1>3, <2>1, <3>1, <3>2 DEF TypeOK, Phases, CompactCall
    <3>4. OutputFacts' /\ CallFacts' /\ ReplayFacts' /\ TailFacts'
          BY <1>3, <2>1 DEF OutputFacts, CallFacts, ReplayFacts, TailFacts, CompactCall, SeqsOf
    <3>5. RamFacts'
          BY <1>3, <2>1 DEF CompactInv, SafeInv, TypeInv, RamFacts, Scanned, Mounted, HasManifest
    <3>. QED BY <3>3, <3>4, <3>5 DEF TypeInv
  <2>4. SafeInv' /\ LiveGrow
        BY <1>3, <2>1, <2>3, SafeQuietStep DEF CompactInv
  <2>5. ManifestFacts'
        BY <2>1 DEF CompactInv, ManifestFacts, HasManifest
  <2>6. PlanFacts'
    <3>1. plan' # NoPlan /\ plan'.lo = in.lo /\ plan'.hi = in.hi
          BY <1>1, <2>2 DEF NoPlan, Gen
    <3>. QED BY <1>1, <1>3, <2>1, <3>1 DEF PlanFacts, CompactPhases, CompactCall, InRange
  <2>7. WritingFacts' /\ CleanupFacts'
        BY <1>3 DEF WritingFacts, CleanupFacts
  <2>. QED BY <2>4, <2>5, <2>6, <2>7 DEF CompactInv
<1>. QED BY <1>2, <1>3 DEF BeginCompaction

\* After the rotation of the tail the input range is laid out again.
LEMMA ResolveAgainStep ==
    ASSUME CompactInv, ResolveAfterRotation
    PROVE  CompactInv' /\ LiveGrow
<1>1. PICK i \in ParentOf(plan.lo, plan.hi) : Resolve(plan.lo, ranges[i].hi)
      BY DEF ResolveAfterRotation
<1>2. i \in DOMAIN ranges /\ ranges[i].lo <= plan.lo /\ plan.hi <= ranges[i].hi
      BY DEF ParentOf
<1>3. pc = "resolve" /\ UNCHANGED <<disk, ram, call, scan, queue, issued, failures>>
      BY DEF ResolveAfterRotation
<1>4. TypeOK /\ ranges[i] \in ManifestRange
      BY <1>2, Known DEF TypeOK
<1>5. plan.lo \in Gen /\ plan.lo <= plan.hi /\ plan.hi \in Nat /\ ranges[i].hi \in Nat
      /\ call.op # "pop"
      BY <1>3, <1>4 DEF CompactInv, PlanFacts, CompactPhases, TypeOK, ManifestRange, Gen
<1>6. plan.lo <= ranges[i].hi
      BY <1>2, <1>5 DEF Gen
<1>7. InRange([lo |-> plan.lo, hi |-> ranges[i].hi], ranges)
  <2>1. ranges[i].hi <= ranges[i].hi
        BY <1>5
  <2>. QED BY <1>2, <2>1 DEF InRange
<1>8. CompactCall(call')
      BY <1>3, <1>4, <1>5 DEF CompactInv, SafeInv, TypeInv, TypeOK, CallFacts, CompactCall
<1>9. queue' \in Seq(Val) /\ issued' \in 0 .. MaxValues
      BY <1>3, <1>4 DEF TypeOK
<1>. QED BY <1>1, <1>3, <1>5, <1>6, <1>7, <1>8, <1>9, ResolveStep DEF Mounted

\* One output file more.
LEMMA WriteStep ==
    ASSUME CompactInv, WriteOutput
    PROVE  CompactInv' /\ LiveGrow
<1>. DEFINE g == plan.first + plan.done
            s == OutputSegment(plan.done)
<1>1. /\ pc = "write" /\ segs' = WithSegment(segs, g, s)
      /\ sealed' = [h \in DOMAIN sealed \cup {g} |-> IF h = g THEN s.size ELSE sealed[h]]
      /\ plan' = [plan EXCEPT !.done = @ + 1]
      /\ pc' = (IF plan.done + 1 = plan.outs THEN "publish" ELSE "write")
      /\ UNCHANGED <<manifest, records, ranges, tail, tailBytes, nextGen, nextSeq, deps, call, scan,
                     queue, issued, failures>>
      BY DEF WriteOutput, RamButSealed
<1>2. TypeOK /\ nextGen \in Gen
      BY Known
<1>3. /\ plan \in [lo : Nat, hi : Nat, first : Nat, outs : Nat, done : Nat]
      /\ plan.first = nextGen /\ plan.done < plan.outs /\ plan.done \in Nat /\ plan.outs \in Nat
      /\ plan.outs = OutputSegs(Cardinality(RecordsIn(plan.lo, plan.hi)))
      /\ \A h \in plan.first .. g - 1 : SegmentReadable(h)
  <2>1. plan \in [lo : Nat, hi : Nat, first : Nat, outs : Nat, done : Nat]
        BY <1>2 DEF TypeOK
  <2>2. plan.done \in Nat /\ plan.outs \in Nat
        BY <2>1
  <2>3. /\ plan.first = nextGen
        /\ plan.outs = OutputSegs(Cardinality(RecordsIn(plan.lo, plan.hi)))
        /\ plan.done < plan.outs
        BY <1>1 DEF CompactInv, WritingFacts
  <2>4. \A h \in plan.first .. plan.first + plan.done - 1 : SegmentReadable(h)
    <3>. HIDE DEF g, s
    <3>1. WritingFacts /\ pc \in {"write", "publish"}
          BY <1>1 DEF CompactInv
    <3>. QED BY <3>1, Zenon DEF WritingFacts
  <2>. QED BY <2>1, <2>2, <2>3, <2>4
<1>4. g \in Gen /\ g \in Nat /\ g >= nextGen /\ nextGen \in Nat
      BY <1>2, <1>3 DEF Gen
<1>5. s \in Segment /\ s.hdr /\ s.size \in Nat /\ s.size >= HeaderBytes
  <2>1. /\ s \in Segment /\ s.hdr /\ s.size = HeaderBytes + Len(s.events) * EnqueueBytes
        BY <1>2, <1>3, OutputIsSegment
  <2>. HIDE DEF s
  <2>2. Len(s.events) \in Nat /\ s.size \in Nat
        BY <2>1 DEF Segment
  <2>3. Len(s.events) * EnqueueBytes \in Nat
        BY <2>2, StoreConstants
  <2>. QED BY <2>1, <2>2, <2>3, StoreConstants
<1>6. /\ plan' \in [lo : Nat, hi : Nat, first : Nat, outs : Nat, done : Nat]
      /\ plan'.lo = plan.lo /\ plan'.hi = plan.hi /\ plan'.first = plan.first
      /\ plan'.outs = plan.outs /\ plan'.done = plan.done + 1
      BY <1>1, <1>3
<1>. HIDE DEF s
<1>7. TypeInv'
  <2>1. SegmentFiles(segs')
        BY <1>1, <1>2, <1>4, <1>5, WithSegmentType DEF TypeOK
  <2>2. DOMAIN sealed' \subseteq Nat /\ \A h \in DOMAIN sealed' : sealed'[h] \in Nat
        BY <1>1, <1>2, <1>4, <1>5 DEF TypeOK
  <2>3. TypeOK'
        BY <1>1, <1>2, <1>6, <2>1, <2>2 DEF TypeOK, Phases
  <2>4. OutputFacts' /\ CallFacts' /\ ReplayFacts' /\ TailFacts'
        BY <1>1, <1>3, <1>6
        DEF CompactInv, SafeInv, TypeInv, OutputFacts, CallFacts, ReplayFacts, TailFacts, SeqsOf
  <2>5. RamFacts'
        BY <1>1 DEF CompactInv, SafeInv, TypeInv, RamFacts, Scanned, Mounted, HasManifest
  <2>. QED BY <2>3, <2>4, <2>5 DEF TypeInv
<1>8. SafeInv' /\ LiveGrow
  <2>1. ManifestBacked' /\ LiveGrow
        BY <1>1, <1>4, NewFileIsHarmless DEF CompactInv, Mounted
  <2>2. NewTailReadable' /\ FreshFacts'
        BY <1>1 DEF CompactInv, SafeInv, NewTailReadable, FreshFacts, HasManifest, Scanned, Mounted
  <2>. QED BY <1>7, <2>1, <2>2 DEF SafeInv
<1>9. ManifestFacts' /\ CleanupFacts'
      BY <1>1 DEF CompactInv, ManifestFacts, CleanupFacts, HasManifest
<1>10. PlanFacts'
  <2>1. plan # NoPlan /\ plan.lo \in Gen
        BY <1>1 DEF CompactInv, PlanFacts, CompactPhases
  <2>2. plan' # NoPlan
        BY <1>6, <2>1 DEF NoPlan, Gen
  <2>. QED BY <1>1, <1>6, <2>1, <2>2 DEF CompactInv, PlanFacts, CompactPhases, InRange
<1>11. WritingFacts'
  <2>1. (OutputSegs(Cardinality(RecordsIn(plan.lo, plan.hi))))' = plan.outs
    <3>1. (RecordsIn(plan.lo, plan.hi))' = RecordsIn(plan.lo, plan.hi)
          BY <1>1, <1>6 DEF RecordsIn
    <3>. QED BY <1>3, <3>1 DEF OutputSegs
  <2>2. IF pc' = "write" THEN plan'.done < plan'.outs ELSE plan'.done = plan'.outs
        BY <1>1, <1>3, <1>6
  <2>3. \A h \in plan'.first .. plan'.first + plan'.done - 1 : SegmentReadable(h)'
    <3>1. \A h \in plan'.first .. plan'.first + plan'.done - 1 :
              h = g \/ (h # g /\ h \in plan.first .. g - 1)
          BY <1>3, <1>4, <1>6
    <3>2. DOMAIN segs' = DOMAIN segs \cup {g} /\ segs'[g] = s
          /\ \A h \in DOMAIN segs : h # g => segs'[h] = segs[h]
          BY <1>1 DEF WithSegment
    <3>3. ASSUME NEW h \in plan'.first .. plan'.first + plan'.done - 1
          PROVE  h \in DOMAIN segs' /\ segs'[h].hdr /\ segs'[h].size >= HeaderBytes
      <4>1. CASE h = g
            BY <1>5, <3>2, <4>1
      <4>2. CASE h # g /\ h \in plan.first .. g - 1
        <5>1. SegmentReadable(h)
              BY <1>3, <4>2
        <5>. QED BY <3>2, <4>2, <5>1 DEF SegmentReadable
      <4>. QED BY <3>1, <4>1, <4>2
    <3>. QED BY <3>3 DEF SegmentReadable
  <2>. QED BY <1>1, <1>3, <1>6, <2>1, <2>2, <2>3 DEF WritingFacts
<1>. QED BY <1>8, <1>9, <1>10, <1>11 DEF CompactInv

\* What RAM and the manifest are when compactRange() publishes its result.
LEMMA PublishedRanges ==
    ASSUME CompactInv, PublishCompaction
    PROVE  /\ HasManifest /\ tail = manifest.tail /\ tail \in Gen
           /\ manifest' = [ranges |-> Spliced, tail |-> tail, next |-> nextGen + plan.outs]
           /\ ranges' = Spliced /\ nextGen' = nextGen + plan.outs
           /\ pc = "publish" /\ pc' = "cleanup" /\ plan' = [plan EXCEPT !.done = 0]
           /\ UNCHANGED <<segs, records, tail, tailBytes, nextSeq, sealed, deps, call, scan,
                          queue, issued, failures>>
           /\ plan.lo \in Gen /\ plan.hi \in Nat /\ plan.lo <= plan.hi
           /\ plan.first = nextGen /\ plan.outs \in Nat /\ plan.done = plan.outs
           /\ Ranges(ranges) /\ Ranges(Spliced)
           /\ GensOf(Spliced) = (GensOf(ranges) \ (plan.lo .. plan.hi))
                                \cup (nextGen .. nextGen + plan.outs - 1)
           /\ \A g \in GensOf(ranges) \cup {tail} : g \in LiveGens(manifest) /\ g \in Nat /\ g < nextGen
           /\ plan.lo .. plan.hi \subseteq GensOf(ranges) /\ tail \notin GensOf(ranges)
<1>1. /\ pc = "publish" /\ pc' = "cleanup" /\ plan' = [plan EXCEPT !.done = 0]
      /\ manifest' = [ranges |-> Spliced, tail |-> tail, next |-> nextGen + plan.outs]
      /\ ranges' = Spliced /\ nextGen' = nextGen + plan.outs
      /\ UNCHANGED <<segs, records, tail, tailBytes, nextSeq, sealed, deps, call, scan,
                     queue, issued, failures>>
      BY DEF PublishCompaction, Publish
<1>2. TypeOK /\ nextGen \in Gen /\ Mounted
      BY <1>1, Known DEF Mounted
<1>3. /\ plan.lo \in Gen /\ plan.hi \in Nat /\ plan.lo <= plan.hi /\ InRange(plan, ranges)
      /\ plan.first = nextGen /\ plan.outs \in Nat /\ plan.done = plan.outs
      BY <1>1, <1>2 DEF CompactInv, PlanFacts, WritingFacts, CompactPhases, TypeOK
<1>4. ranges # <<>>
      BY <1>3 DEF InRange
<1>5. /\ HasManifest /\ ranges = manifest.ranges /\ tail = manifest.tail /\ tail \in Gen
      /\ Ranges(ranges) /\ tail \notin GensOf(ranges) /\ tail < nextGen
      /\ \A g \in GensOf(ranges) : g < nextGen
      BY <1>2, <1>4, Known
<1>6. /\ Ranges(Spliced)
      /\ GensOf(Spliced) = (GensOf(ranges) \ (plan.lo .. plan.hi))
                           \cup (nextGen .. nextGen + plan.outs - 1)
      BY <1>2, <1>3, <1>5, SplicedRanges
<1>7. \A g \in GensOf(ranges) \cup {tail} : g \in LiveGens(manifest) /\ g \in Nat /\ g < nextGen
  <2>1. ranges \in Seq(ManifestRange)
        BY <1>5 DEF Ranges
  <2>2. \A i \in DOMAIN ranges : ranges[i].lo \in Nat /\ ranges[i].hi \in Nat
    <3>1. \A i \in DOMAIN ranges : ranges[i] \in ManifestRange
          BY <2>1
    <3>. QED BY <3>1 DEF ManifestRange, Gen
  <2>3. \A g \in GensOf(ranges) : g \in Nat
        BY <2>2 DEF GensOf
  <2>. QED BY <1>5, <2>3 DEF LiveGens, Gen
<1>8. plan.lo .. plan.hi \subseteq GensOf(ranges)
  <2>1. PICK i \in DOMAIN ranges : ranges[i].lo <= plan.lo /\ plan.hi <= ranges[i].hi
        BY <1>3 DEF InRange
  <2>2. ranges[i] \in ManifestRange
        BY <1>5, <2>1 DEF Ranges
  <2>3. \A g \in plan.lo .. plan.hi : g \in SpanOf(ranges[i])
        BY <1>3, <2>1, <2>2 DEF SpanOf, ManifestRange, Gen
  <2>. QED BY <2>1, <2>3, GensOfIn
<1>. QED BY <1>1, <1>3, <1>5, <1>6, <1>7, <1>8

LEMMA PublishStep ==
    ASSUME CompactInv, PublishCompaction
    PROVE  CompactInv' /\ LiveGrow
<1>1. TypeOK /\ nextGen \in Gen
      BY Known
<1>2. nextGen + plan.outs \in Gen /\ nextGen \in Nat /\ plan.outs \in Nat
      BY <1>1, PublishedRanges DEF Gen
<1>3. manifest' \in Manifest /\ HasManifest'
  <2>1. manifest' \in Manifest
        BY <1>2, PublishedRanges DEF Manifest, Ranges
  <2>. QED BY <2>1, ManifestIsOne DEF HasManifest
<1>4. /\ plan' \in [lo : Nat, hi : Nat, first : Nat, outs : Nat, done : Nat]
      /\ plan'.lo = plan.lo /\ plan'.hi = plan.hi /\ plan'.first = nextGen /\ plan'.done = 0
      BY <1>1, PublishedRanges DEF TypeOK
<1>5. \A g \in LiveGens(manifest') :
          \/ g \in LiveGens(manifest) /\ g \in Nat /\ g < nextGen /\ g \notin plan.lo .. plan.hi
          \/ g \in nextGen .. nextGen + plan.outs - 1
  <2>1. LiveGens(manifest') = GensOf(Spliced) \cup {tail}
        BY PublishedRanges DEF LiveGens
  <2>. QED BY <2>1, PublishedRanges
<1>6. TypeInv'
  <2>1. TypeOK'
        BY <1>1, <1>2, <1>3, <1>4, PublishedRanges DEF TypeOK, Phases, Ranges
  <2>2. OutputFacts' /\ ReplayFacts' /\ TailFacts'
        BY PublishedRanges DEF OutputFacts, ReplayFacts, TailFacts
  <2>3. CallFacts'
        BY PublishedRanges DEF CompactInv, SafeInv, TypeInv, CallFacts, SeqsOf
  <2>4. RamFacts'
        BY <1>3, PublishedRanges DEF CompactInv, SafeInv, TypeInv, RamFacts, Scanned, Mounted
  <2>. QED BY <2>1, <2>2, <2>3, <2>4 DEF TypeInv
<1>7. ManifestBacked'
  <2>1. \A g \in LiveGens(manifest) : SegmentReadable(g)
        BY PublishedRanges DEF CompactInv, SafeInv, ManifestBacked
  <2>2. \A g \in nextGen .. nextGen + plan.outs - 1 : SegmentReadable(g)
        BY PublishedRanges DEF CompactInv, WritingFacts
  <2>3. \A g : SegmentReadable(g) => SegmentReadable(g)'
        BY PublishedRanges DEF SegmentReadable
  <2>. QED BY <1>5, <2>1, <2>2, <2>3 DEF ManifestBacked
<1>8. FreshFacts'
  <2>1. \A g \in LiveGens(manifest') : g < nextGen + plan.outs
        BY <1>2, <1>5
  <2>. QED BY <2>1, PublishedRanges DEF FreshFacts
<1>9. LiveGrow
      BY PublishedRanges DEF CompactInv, SafeInv, LiveGrow, Extends, ManifestBacked, SegmentReadable
<1>10. NewTailReadable'
      BY PublishedRanges DEF NewTailReadable
<1>11. ManifestFacts'
  <2>1. tail \notin GensOf(Spliced)
        BY <1>2, PublishedRanges
  <2>. QED BY <2>1, PublishedRanges DEF ManifestFacts, Ranges
<1>12. PlanFacts'
  <2>1. plan' # NoPlan /\ plan'.lo \in Gen /\ plan'.lo <= plan'.hi
        BY <1>4, PublishedRanges DEF NoPlan, Gen
  <2>2. call'.op # "pop"
        BY PublishedRanges DEF CompactInv, PlanFacts, CompactPhases
  <2>. QED BY <2>1, <2>2, PublishedRanges DEF PlanFacts, CompactPhases
<1>13. WritingFacts'
      BY PublishedRanges DEF WritingFacts
<1>14. CleanupFacts'
  <2>1. \A g \in plan.lo .. plan.hi : g \in Nat /\ g < nextGen
        BY PublishedRanges
  <2>2. (plan.lo .. plan.hi) \cap LiveGens(manifest') = {}
        BY <1>2, <1>5, <2>1
  <2>3. plan'.lo + plan'.done <= plan'.hi /\ plan'.first \in Gen
        BY <1>1, <1>4, PublishedRanges DEF Gen
  <2>. QED BY <1>3, <1>4, <2>2, <2>3 DEF CleanupFacts
<1>. QED BY <1>6, <1>7, <1>8, <1>9, <1>10, <1>11, <1>12, <1>13, <1>14 DEF SafeInv, CompactInv

\* One input file less, and at the end the records point at the copies.
LEMMA CleanupStep ==
    ASSUME CompactInv, CleanupInput
    PROVE  CompactInv' /\ LiveGrow
<1>. DEFINE g == plan.lo + plan.done
<1>1. /\ pc = "cleanup"
      /\ UNCHANGED <<manifest, ranges, tail, tailBytes, nextGen, nextSeq, call, scan, queue,
                     issued, failures>>
      BY DEF CleanupInput
<1>2. /\ HasManifest /\ plan.first \in Gen /\ g <= plan.hi
      /\ (plan.lo .. plan.hi) \cap LiveGens(manifest) = {}
      BY <1>1 DEF CompactInv, CleanupFacts
<1>3. /\ TypeOK /\ plan # NoPlan /\ call.op # "pop" /\ plan.lo \in Gen /\ plan.lo <= plan.hi
      /\ plan \in [lo : Nat, hi : Nat, first : Nat, outs : Nat, done : Nat]
      BY <1>1, Known DEF CompactInv, PlanFacts, CompactPhases, TypeOK
<1>4. g \in plan.lo .. plan.hi
      BY <1>2, <1>3 DEF Gen
<1>5. \/ segs' = Without(segs, g) /\ sealed' = [h \in DOMAIN sealed \ {g} |-> sealed[h]]
      \/ UNCHANGED <<segs, sealed>>
      BY DEF CleanupInput
<1>6. \/ /\ g < plan.hi /\ plan' = [plan EXCEPT !.done = @ + 1]
         /\ UNCHANGED <<pc, records, deps>>
      \/ /\ plan' = NoPlan /\ pc' = (IF call = Idle THEN "idle" ELSE "admit")
         /\ records' = Relocated /\ deps' = deps \ (plan.lo .. plan.hi)
      BY DEF CleanupInput
<1>. HIDE DEF g
<1>7. /\ SegmentFiles(segs')
      /\ DOMAIN sealed' \subseteq Nat /\ \A h \in DOMAIN sealed' : sealed'[h] \in Nat
      BY <1>3, <1>5, WithoutType DEF TypeOK
<1>8. /\ records' \in Seq(Record) /\ SeqsOf(records') = SeqsOf(records) /\ deps' \subseteq Gen
      BY <1>2, <1>3, <1>6, RelocatedType DEF TypeOK
<1>9. plan' \in [lo : Nat, hi : Nat, first : Nat, outs : Nat, done : Nat]
      BY <1>3, <1>6 DEF NoPlan
<1>10. TypeInv'
  <2>1. TypeOK'
        BY <1>1, <1>3, <1>6, <1>7, <1>8, <1>9 DEF TypeOK, Phases
  <2>2. OutputFacts' /\ ReplayFacts' /\ TailFacts'
        BY <1>1, <1>6 DEF OutputFacts, ReplayFacts, TailFacts
  <2>3. CallFacts'
        BY <1>1, <1>3, <1>6, <1>8 DEF CompactInv, SafeInv, TypeInv, CallFacts
  <2>4. RamFacts'
        BY <1>1, <1>6 DEF CompactInv, SafeInv, TypeInv, RamFacts, Scanned, Mounted, HasManifest
  <2>. QED BY <2>1, <2>2, <2>3, <2>4 DEF TypeInv
<1>11. \A h \in LiveGens(manifest) : h \in DOMAIN segs /\ h \in DOMAIN segs' /\ segs'[h] = segs[h]
  <2>1. \A h \in LiveGens(manifest) : h \in DOMAIN segs /\ h # g
        BY <1>2, <1>4 DEF CompactInv, SafeInv, ManifestBacked, SegmentReadable
  <2>. QED BY <1>5, <2>1 DEF Without
<1>12. ManifestBacked' /\ LiveGrow
      BY <1>1, <1>2, <1>11
      DEF CompactInv, SafeInv, ManifestBacked, SegmentReadable, LiveGrow, Extends, HasManifest
<1>13. NewTailReadable' /\ FreshFacts'
      BY <1>1, <1>6 DEF CompactInv, SafeInv, NewTailReadable, FreshFacts, HasManifest, Scanned, Mounted
<1>14. ManifestFacts'
      BY <1>1 DEF CompactInv, ManifestFacts, HasManifest
<1>15. PlanFacts' /\ WritingFacts' /\ CleanupFacts'
  <2>1. CASE plan' = NoPlan /\ pc' = (IF call = Idle THEN "idle" ELSE "admit")
        BY <1>1, <1>3, <2>1 DEF PlanFacts, WritingFacts, CleanupFacts, CompactPhases
  <2>2. CASE g < plan.hi /\ plan' = [plan EXCEPT !.done = @ + 1] /\ UNCHANGED pc
    <3>1. /\ plan'.lo = plan.lo /\ plan'.hi = plan.hi /\ plan'.first = plan.first
          /\ plan'.done = plan.done + 1
          BY <1>3, <2>2
    <3>2. plan' # NoPlan
          BY <1>3, <3>1 DEF NoPlan, Gen
    <3>3. plan'.lo + plan'.done <= plan'.hi
          BY <1>3, <2>2, <3>1 DEF g
    <3>. QED BY <1>1, <1>2, <1>3, <2>2, <3>1, <3>2, <3>3
             DEF PlanFacts, WritingFacts, CleanupFacts, CompactPhases, HasManifest
  <2>. QED BY <1>6, <2>1, <2>2
<1>. QED BY <1>10, <1>12, <1>13, <1>14, <1>15 DEF SafeInv, CompactInv

\* A call that starts, is refused or stands by touches no file and no record.
LEMMA CallStep ==
    ASSUME CompactInv, pc \in {"idle", "admit"}, pc' \in {"idle", "admit", "place"},
           UNCHANGED <<disk, ram, scan, plan, queue, failures>>, issued' \in 0 .. MaxValues,
           call' \in [op : {"none", "enqueue", "pop", "rewrite"}, seq : Nat, val : 0 .. MaxValues],
           CallFacts', pc' = "admit" => call'.op # "pop"
    PROVE  CompactInv' /\ LiveGrow
<1>1. TypeOK /\ plan = NoPlan
      BY Known DEF CompactInv, PlanFacts, CompactPhases
<1>2. UNCHANGED <<segs, manifest, records, ranges, tail, tailBytes, nextGen, nextSeq, sealed,
                  deps, scan, plan, queue, failures>>
      BY DEF disk, ram
<1>3. TypeInv'
  <2>1. TypeOK'
        BY <1>1, <1>2 DEF TypeOK, Phases
  <2>2. OutputFacts' /\ ReplayFacts' /\ TailFacts'
        BY DEF OutputFacts, ReplayFacts, TailFacts
  <2>3. RamFacts'
        BY <1>2 DEF CompactInv, SafeInv, TypeInv, RamFacts, Scanned, Mounted, HasManifest
  <2>. QED BY <2>1, <2>2, <2>3 DEF TypeInv
<1>4. SafeInv' /\ LiveGrow
      BY <1>2, <1>3, SafeQuietStep DEF CompactInv
<1>. QED BY <1>1, <1>2, <1>4, OutsideStep DEF CompactPhases, HasManifest

\* The ranges compaction chooses from are those of the manifest, none empty.
LEMMA MountedRanges ==
    ASSUME CompactInv, Mounted
    PROVE  ranges \in Seq(ManifestRange) /\ Proper(ranges)
<1>1. CASE ranges = <<>>
      BY <1>1 DEF Proper
<1>2. CASE ranges # <<>>
      BY <1>2, Known DEF Ranges
<1>. QED BY <1>1, <1>2

\* compactOneSegment() starts, from an idle call or from an admission.
LEMMA ChooseStep ==
    ASSUME CompactInv, pc \in {"idle", "admit"}, NEW fallback, NEW in \in NextInput(fallback),
           BeginCompaction(in),
           UNCHANGED <<disk, RamButSealed, call, scan, queue, issued, failures>>
    PROVE  CompactInv' /\ LiveGrow
<1>1. in \in ManifestRange /\ in.lo <= in.hi /\ InRange(in, ranges)
      BY MountedRanges, NextInputRange DEF Mounted
<1>2. TypeOK /\ CallFacts
      BY DEF CompactInv, SafeInv, TypeInv
<1>3. call.op # "pop"
      BY <1>2 DEF CompactInv, PlanFacts, CallFacts, Idle
<1>. QED BY <1>1, <1>2, <1>3, BeginStep DEF CompactCall, TypeOK, CallFacts, Idle

\* reclaimDeadFrontSegment() starts on the first segment of the first range.
LEMMA FrontRange ==
    ASSUME CompactInv, Mounted, ranges # <<>>, NEW fallback,
           NEW in \in InputOf([lo |-> ranges[1].lo, hi |-> ranges[1].lo], fallback)
    PROVE  in \in ManifestRange /\ in.lo <= in.hi /\ InRange(in, ranges)
<1>1. ranges \in Seq(ManifestRange) /\ Proper(ranges)
      BY MountedRanges
<1>2. ranges[1] \in ManifestRange
      BY <1>1
<1>3. [lo |-> ranges[1].lo, hi |-> ranges[1].lo] \in ManifestRange
      BY <1>2 DEF ManifestRange
<1>4. ranges[1].lo <= ranges[1].lo
      BY <1>2 DEF ManifestRange, Gen
<1>. QED BY <1>1, <1>3, <1>4, InputOfRange

LEMMA CompactStep ==
    ASSUME CompactInv, CNext, ShrinkKeepsPrefix
    PROVE  CompactInv' /\ LiveGrow
<1>1. CASE Next
      BY <1>1, StoreStep
<1>2. CASE CompactIdle
  <2>1. pc \in {"idle", "admit"}
        BY <1>2 DEF CompactIdle, MayStart
  <2>2. PICK in \in NextInput(TRUE) : BeginCompaction(in)
        BY <1>2 DEF CompactIdle
  <2>3. UNCHANGED <<disk, RamButSealed, call, scan, queue, issued, failures>>
        BY <1>2 DEF CompactIdle
  <2>. QED BY <2>1, <2>2, <2>3, ChooseStep
<1>3. CASE ReclaimDeadFrontSegment
  <2>1. pc = "idle" /\ ranges # <<>>
        BY <1>3 DEF ReclaimDeadFrontSegment, MayStart
  <2>2. PICK in \in InputOf([lo |-> ranges[1].lo, hi |-> ranges[1].lo], FALSE) : BeginCompaction(in)
        BY <1>3 DEF ReclaimDeadFrontSegment
  <2>3. UNCHANGED <<disk, RamButSealed, call, scan, queue, issued, failures>>
        BY <1>3 DEF ReclaimDeadFrontSegment
  <2>4. in \in ManifestRange /\ in.lo <= in.hi /\ InRange(in, ranges)
        BY <2>1, FrontRange DEF Mounted
  <2>5. TypeOK /\ CallFacts
        BY DEF CompactInv, SafeInv, TypeInv
  <2>. QED BY <2>1, <2>2, <2>3, <2>4, <2>5, BeginStep DEF CompactCall, TypeOK, CallFacts, Idle
<1>4. CASE QueueFull
  <2>1. TypeOK
        BY Known
  <2>. QED BY <1>4, <2>1, CallStep, StoreConstants DEF QueueFull, CallFacts, Idle, TypeOK
<1>5. CASE CompactForAdmission
  <2>1. pc \in {"idle", "admit"}
        BY <1>5 DEF CompactForAdmission
  <2>2. PICK in \in NextInput(FALSE) : BeginCompaction(in)
        BY <1>5 DEF CompactForAdmission
  <2>3. UNCHANGED <<disk, RamButSealed, call, scan, queue, issued, failures>>
        BY <1>5 DEF CompactForAdmission
  <2>. QED BY <2>1, <2>2, <2>3, ChooseStep
<1>6. CASE ResolveAfterRotation \/ WriteOutput \/ PublishCompaction \/ CleanupInput
      BY <1>6, ResolveAgainStep, WriteStep, PublishStep, CleanupStep
<1>. QED BY <1>1, <1>2, <1>3, <1>4, <1>5, <1>6 DEF CNext, Compacting

\* A step that changes no variable of the store keeps its invariant.
LEMMA CompactStutter ==
    ASSUME CompactInv, UNCHANGED vars
    PROVE  CompactInv' /\ LiveGrow
<1>1. SafeInv' /\ LiveGrow
      BY DEF CompactInv, vars, disk, ram, SafeInv, TypeInv, TypeOK, OutputFacts, CallFacts,
             ReplayFacts, RamFacts, TailFacts, ManifestBacked, NewTailReadable, FreshFacts, LiveGrow,
             Extends, HasManifest, Scanned, Mounted, SegmentReadable, SeqsOf
<1>2. ManifestFacts' /\ PlanFacts' /\ CleanupFacts'
      BY DEF CompactInv, vars, disk, ram, ManifestFacts, PlanFacts, CleanupFacts, HasManifest, InRange
<1>3. WritingFacts'
  <2>1. (OutputSegs(Cardinality(RecordsIn(plan.lo, plan.hi))))'
            = OutputSegs(Cardinality(RecordsIn(plan.lo, plan.hi)))
        BY DEF OutputSegs, RecordsIn, vars, ram
  <2>2. \A g : SegmentReadable(g) => SegmentReadable(g)'
        BY DEF SegmentReadable, vars, disk
  <2>. QED BY <2>1, <2>2 DEF CompactInv, WritingFacts, vars, ram
<1>. QED BY <1>1, <1>2, <1>3 DEF CompactInv

-----------------------------------------------------------------------------
(* What compaction keeps.                                                   *)

LEMMA CompactInvHolds ==
    ASSUME ShrinkKeepsPrefix
    PROVE  CSpec => []CompactInv
<1>1. CompactInv /\ [CNext]_vars => CompactInv'
      BY CompactStep, CompactStutter
<1>. QED BY CompactInit, <1>1, PTL DEF CSpec

\* With compaction splitting, merging and dropping ranges at any point of any call,
\* every file the published manifest names is still readable at every instant:
\* compactRange() writes its output before publishManifest() and removes its input
\* after it.
THEOREM CompactionBacksManifest ==
    ASSUME ShrinkKeepsPrefix
    PROVE  CSpec => []ManifestBacked
<1>1. CompactInv => ManifestBacked
      BY DEF CompactInv, SafeInv
<1>. QED BY CompactInvHolds, <1>1, PTL

\* No generation is in two ranges of a published manifest, nor in a range and the
\* tail: replaceRange() never counts a segment twice.
THEOREM CompactionKeepsRangesApart ==
    ASSUME ShrinkKeepsPrefix
    PROVE  CSpec => []ManifestFacts
<1>1. CompactInv => ManifestFacts
      BY DEF CompactInv
<1>. QED BY CompactInvHolds, <1>1, PTL

\* No step of a compaction takes an event from a file that the manifest names, nor
\* reuses or removes such a file.
THEOREM CompactionOnlyAppends ==
    ASSUME ShrinkKeepsPrefix
    PROVE  CSpec => LiveSegmentsOnlyGrow
<1>1. CompactInv /\ [CNext]_vars => CompactInv'
      BY CompactStep, CompactStutter
<1>2. CompactInv /\ [CNext]_vars =>
          [HasManifest => \A g \in LiveGens(manifest) :
              g \in DOMAIN segs' /\ Extends(segs'[g], segs[g])]_vars
      BY CompactStep, CompactStutter DEF LiveGrow
<1>. QED BY CompactInit, <1>1, <1>2, PTL DEF CSpec, LiveSegmentsOnlyGrow

-----------------------------------------------------------------------------
(* The types of the counters, and the store below.                          *)

\* An eviction stands for an enqueue() that is called again.
Enqueues == [op : {"enqueue"}, seq : Nat, val : Val]
SizePair == [{1, 2} -> Nat]
LoopFacts ==
    /\ slots \in SizePair /\ slotBytes \in SizePair
    /\ force \in 0 .. 2 /\ written \in 0 .. 2 /\ total \in Int
    /\ pending # Nothing => pending.enqueue \in Enqueues

QueueInv == CompactInv /\ LoopFacts

LEMMA PairType ==
    ASSUME NEW a \in Nat, NEW b \in Nat
    PROVE  <<a, b>> \in SizePair /\ <<a, b>>[1] = a /\ <<a, b>>[2] = b
<1>1. DOMAIN <<a, b>> = {1, 2}
      OBVIOUS
<1>. QED BY <1>1 DEF SizePair

LEMMA QueueInit == QInit => QueueInv
<1>. SUFFICES ASSUME QInit PROVE QueueInv
     OBVIOUS
<1>1. slots \in SizePair /\ slotBytes \in SizePair
      BY PairType DEF QInit
<1>. QED BY <1>1, CompactInit DEF QInit, QueueInv, LoopFacts

\* The steps that only the queue takes: an eviction between the calls of the store.
LEMMA QueueOnlyStep ==
    ASSUME QueueInv, Enqueue \/ EvictFront \/ RetryEnqueue
    PROVE  CompactInv' /\ LiveGrow
<1>1. TypeOK /\ CallFacts /\ CompactInv
      BY DEF QueueInv, CompactInv, SafeInv, TypeInv
<1>2. CASE Enqueue
  <2>1. /\ pc = "idle" /\ issued < MaxValues
        /\ UNCHANGED <<disk, RamButSealed, scan, queue, failures>>
        /\ call' = [op |-> "enqueue", seq |-> IndexTail, val |-> issued + 1]
        /\ issued' = issued + 1
        BY <1>2 DEF Enqueue, MayStart
  <2>2. IndexTail \in Nat
    <3>1. CASE records = <<>>
          BY <1>1, <3>1 DEF IndexTail, TypeOK
    <3>2. CASE records # <<>>
      <4>1. records[Len(records)] \in Record
            BY <1>1, <3>2 DEF TypeOK
      <4>. QED BY <3>2, <4>1 DEF IndexTail, Record
    <3>. QED BY <3>1, <3>2
  <2>3. /\ issued \in Nat /\ issued' \in 0 .. MaxValues /\ issued + 1 \in 0 .. MaxValues
        /\ issued + 1 # 0
        BY <1>1, <2>1, StoreConstants DEF TypeOK
  <2>4. CompactCall(call')
        BY <2>1, <2>2, <2>3 DEF CompactCall
  <2>5. CASE pc' = "admit" /\ UNCHANGED <<plan, sealed>>
    <3>1. CallFacts'
          BY <2>1, <2>3, <2>5 DEF CallFacts
    <3>. QED BY <1>1, <2>1, <2>2, <2>3, <2>5, <3>1, CallStep DEF RamButSealed, ram
  <2>6. CASE ranges # <<>> /\ \E in \in DeadFront : BeginCompaction(in)
    <3>1. PICK in \in DeadFront : BeginCompaction(in)
          BY <2>6
    <3>2. in \in InputOf([lo |-> ranges[1].lo, hi |-> ranges[1].lo], FALSE)
          BY <3>1 DEF DeadFront
    <3>3. in \in ManifestRange /\ in.lo <= in.hi /\ InRange(in, ranges)
          BY <1>1, <2>1, <2>6, <3>2, FrontRange DEF Mounted
    <3>4. queue' \in Seq(Val)
          BY <1>1, <2>1 DEF TypeOK
    <3>. QED BY <1>1, <2>1, <2>3, <2>4, <3>1, <3>3, <3>4, BeginStep
  <2>. QED BY <1>2, <2>5, <2>6 DEF Enqueue, DeadFront
<1>3. CASE EvictFront
  <2>1. /\ pc = "admit" /\ pc' = "place" /\ records # <<>>
        /\ UNCHANGED <<disk, ram, scan, plan, queue, issued, failures>>
        /\ call' = [op |-> "pop", seq |-> Head(records).seq, val |-> 0]
        BY <1>3 DEF EvictFront, NoRoom, MayEvict
  <2>2. records[1] \in Record /\ Head(records) = records[1]
        BY <1>1, <2>1 DEF TypeOK
  <2>3. call' \in [op : {"none", "enqueue", "pop", "rewrite"}, seq : Nat, val : 0 .. MaxValues]
        BY <2>1, <2>2, StoreConstants DEF Record
  <2>4. CallFacts'
        BY <2>1 DEF CallFacts, ram
  <2>. QED BY <1>1, <2>1, <2>3, <2>4, CallStep DEF TypeOK
<1>4. CASE RetryEnqueue
  <2>1. /\ pc = "idle" /\ pc' = "admit" /\ call' = pending.enqueue /\ pending # Nothing
        /\ UNCHANGED <<disk, ram, scan, plan, queue, issued, failures>>
        BY <1>4 DEF RetryEnqueue
  <2>2. call' \in Enqueues
        BY <2>1 DEF QueueInv, LoopFacts
  <2>3. /\ call' \in [op : {"none", "enqueue", "pop", "rewrite"}, seq : Nat, val : 0 .. MaxValues]
        /\ call'.op = "enqueue" /\ call'.val # 0
        BY <2>2, StoreConstants DEF Enqueues, Val
  <2>4. CallFacts'
        BY <2>1, <2>3 DEF CallFacts
  <2>. QED BY <1>1, <2>1, <2>3, <2>4, CallStep DEF TypeOK
<1>. QED BY <1>2, <1>3, <1>4

\* Every other step is one of the store.
LEMMA StoreOrQueue ==
    QNext => CNext \/ Enqueue \/ EvictFront \/ RetryEnqueue \/ UNCHANGED vars
BY DEF QNext, CNext, Next, Calling, Working, Mounting, Failing, Compacting, RewriteFront, Pop,
       QCompactIdle, Admission, Admitted, MakeRoom, Refuse, EvictionFailed, QMounting, QWorking,
       QFailing

LEMMA QueueStoreStep ==
    ASSUME QueueInv, [QNext]_qvars, ShrinkKeepsPrefix
    PROVE  CompactInv' /\ LiveGrow
BY StoreOrQueue, QueueOnlyStep, CompactStep, CompactStutter DEF QueueInv, qvars

\* How a step changes the counters; the slot it writes is one of the two.
LEMMA SlotChosen ==
    ASSUME LoopFacts
    PROVE  /\ Inactive \in {1, 2}
           /\ \A pair \in SizePair, n \in Nat : [pair EXCEPT ![Inactive] = n] \in SizePair
           /\ slots[1] \in Nat /\ slots[2] \in Nat /\ slots[Inactive] \in Nat
           /\ slotBytes[1] \in Nat /\ slotBytes[2] \in Nat
<1>1. Inactive \in {1, 2}
      BY DEF LoopFacts, Inactive
<1>. QED BY <1>1 DEF LoopFacts, SizePair

LEMMA SlotSizeType ==
    ASSUME NEW rs \in Seq(ManifestRange)
    PROVE  SlotSize(rs) \in Nat \ {0} /\ Len(rs) \in Nat
<1>1. Len(rs) \in Nat /\ RangeEntry * Len(rs) \in Nat
      BY QueueConstants
<1>. QED BY <1>1, QueueConstants DEF SlotSize

LEMMA SegmentBytesType ==
    ASSUME NEW ss, SegmentFiles(ss)
    PROVE  SegmentBytes(ss) \in Nat
<1>. DEFINE f == [g \in DOMAIN ss |-> ss[g].size]
<1>1. \A g \in DOMAIN ss : f[g] \in Nat
      BY DEF SegmentFiles, Segment
<1>2. Sum(f, DOMAIN ss) = SumFunctionOnSet(f, DOMAIN ss)
      BY DEF Sum, SumFunctionOnSet
<1>3. IsFiniteSet(DOMAIN ss)
      BY DEF SegmentFiles
<1>. HIDE DEF f
<1>4. SumFunctionOnSet(f, DOMAIN ss) \in Nat
      BY <1>1, <1>3, SumIsNatural
<1>. QED BY <1>2, <1>4 DEF SegmentBytes, f

LEMMA LoopStep ==
    ASSUME QueueInv, CompactInv', [QNext]_qvars
    PROVE  LoopFacts'
<1>1. LoopFacts /\ TypeOK /\ TypeOK' /\ CallFacts
      BY DEF QueueInv, CompactInv, SafeInv, TypeInv
<1>. USE <1>1
<1>2. CASE UNCHANGED bytes /\ (pending' = pending \/ pending' = Nothing)
      BY <1>2 DEF LoopFacts, bytes
<1>3. CASE EvictFront
  <2>1. pending'.enqueue = call /\ call.op = "enqueue" /\ call.val # 0
        BY <1>3 DEF EvictFront, MayEvict, CallFacts
  <2>2. call \in Enqueues
    <3>1. call \in [op : {"none", "enqueue", "pop", "rewrite"}, seq : Nat, val : 0 .. MaxValues]
          BY DEF TypeOK
    <3>2. call.val \in Val
          BY <2>1, <3>1, StoreConstants DEF Val
    <3>. QED BY <2>1, <3>1, <3>2 DEF Enqueues
  <2>. QED BY <1>3, <2>1, <2>2 DEF EvictFront, LoopFacts, bytes
<1>4. CASE (ForgetSlots \/ CountFiles) /\ UNCHANGED pending
  <2>1. SegmentBytes(segs') \in Nat
        BY SegmentBytesType DEF TypeOK
  <2>2. slots[1] \in Nat /\ slots[2] \in Nat
        BY SlotChosen
  <2>3. CASE ForgetSlots
        BY <1>4, <2>3, PairType DEF ForgetSlots, LoopFacts
  <2>4. CASE CountFiles
        BY <1>4, <2>1, <2>2, <2>4 DEF CountFiles, LoopFacts
  <2>. QED BY <1>4, <2>3, <2>4
<1>5. CASE CountManifest /\ manifest' \in Manifest /\ UNCHANGED pending
  <2>1. SlotSize(manifest'.ranges) \in Nat
        BY <1>5, SlotSizeType DEF Manifest
  <2>. DEFINE size == SlotSize(manifest'.ranges)
  <2>2. /\ slots' = [slots EXCEPT ![Inactive] = size]
        /\ total' = total + size - slots[Inactive]
        /\ force' = Inactive /\ written' = Inactive
        /\ slotBytes' = [slotBytes EXCEPT ![Inactive] = size]
        BY <1>5 DEF CountManifest
  <2>. HIDE DEF size
  <2>3. size \in Nat
        BY <2>1 DEF size
  <2>4. slots \in SizePair /\ slotBytes \in SizePair /\ total \in Int
        BY DEF LoopFacts
  <2>5. Inactive \in {1, 2} /\ slots[Inactive] \in Nat
        BY SlotChosen
  <2>6. slots' \in SizePair /\ slotBytes' \in SizePair
        BY <2>2, <2>3, <2>4, SlotChosen
  <2>7. force' \in 0 .. 2 /\ written' \in 0 .. 2 /\ total' \in Int
        BY <2>2, <2>3, <2>4, <2>5
  <2>. QED BY <1>5, <2>6, <2>7 DEF LoopFacts
<1>6. CASE CountEvent /\ UNCHANGED pending
      BY <1>6, StoreConstants DEF CountEvent, LoopFacts, BytesOf
<1>7. CASE CountRemoved /\ UNCHANGED pending
  <2>1. \A g : TotalBytes(g) \in Nat
        BY DEF TotalBytes, TypeOK
  <2>. QED BY <1>7, <2>1 DEF CountRemoved, LoopFacts
<1>8. CASE QFailing
  <2>1. slots' \in SizePair
        BY <1>8, SlotChosen DEF QFailing, SlotCutShort, LoopFacts
  <2>. QED BY <1>8, <2>1, PairType DEF QFailing, LoopFacts
<1>9. CASE CreateTail /\ CountNewFile(HeaderBytes) /\ UNCHANGED pending
      BY <1>9, StoreConstants DEF CountNewFile, LoopFacts
<1>10. CASE WriteOutput /\ CountNewFile(OutputSegment(plan.done).size) /\ UNCHANGED pending
  <2>1. OutputSegment(plan.done) \in Segment
    <3>1. /\ plan.done \in Nat /\ plan.done < plan.outs
          /\ plan.outs = OutputSegs(Cardinality(RecordsIn(plan.lo, plan.hi)))
          BY <1>10 DEF WriteOutput, QueueInv, CompactInv, WritingFacts, TypeOK
    <3>. QED BY <3>1, OutputIsSegment
  <2>2. OutputSegment(plan.done).size \in Nat
        BY <2>1 DEF Segment
  <2>. QED BY <1>10, <2>2 DEF CountNewFile, LoopFacts
<1>11. PublishTail \/ PublishCompaction => manifest' \in Manifest
  <2>1. PublishTail \/ PublishCompaction => manifest' \notin {NoManifest, TornManifest}
        BY ManifestIsOne, Known DEF PublishTail, PublishCompaction, Publish, NoManifest, TornManifest
  <2>. QED BY <2>1 DEF TypeOK
<1>12. CASE UNCHANGED qvars
       BY <1>2, <1>12 DEF qvars, loop
<1>13. CASE Enqueue \/ RewriteFront \/ Pop \/ QCompactIdle
       BY <1>2, <1>13 DEF Enqueue, RewriteFront, Pop, QCompactIdle, loop
<1>14. CASE Admitted \/ MakeRoom \/ Refuse \/ RetryEnqueue \/ EvictionFailed
       BY <1>2, <1>14 DEF Admitted, MakeRoom, Refuse, RetryEnqueue, EvictionFailed, loop
<1>15. CASE QMounting
       BY <1>2, <1>4, <1>15 DEF QMounting, loop
<1>16. CASE QWorking
       BY <1>2, <1>5, <1>6, <1>7, <1>9, <1>10, <1>11, <1>16 DEF QWorking, loop
<1>. QED BY <1>3, <1>8, <1>12, <1>13, <1>14, <1>15, <1>16 DEF QNext, Admission

LEMMA QueueStep ==
    ASSUME QueueInv, [QNext]_qvars, ShrinkKeepsPrefix
    PROVE  QueueInv' /\ LiveGrow
BY QueueStoreStep, LoopStep DEF QueueInv

-----------------------------------------------------------------------------
(* The bytes of the events of a file, and of all the files.                 *)

\* The bytes of the first n events.
EventBytes(es, n) == Sum([k \in DOMAIN es |-> BytesOf(es[k])], 1 .. n)
Filled(s) == HeaderBytes + EventBytes(s.events, Len(s.events))
Exact(s)  == s.size = Filled(s)

LEMMA EventTakesBytes == \A e : BytesOf(e) \in Nat \ {0}
BY StoreConstants DEF BytesOf

\* The scan counts one event after the other.
LEMMA EventBytesGrow ==
    ASSUME NEW es \in Seq(Event), NEW n \in 0 .. Len(es)
    PROVE  /\ EventBytes(es, n) \in Nat /\ EventBytes(es, 0) = 0
           /\ n < Len(es) => EventBytes(es, n + 1) = EventBytes(es, n) + BytesOf(es[n + 1])
<1>. DEFINE f == [k \in DOMAIN es |-> BytesOf(es[k])]
<1>1. \A m : EventBytes(es, m) = SumFunctionOnSet(f, 1 .. m)
      BY DEF EventBytes, Sum, SumFunctionOnSet
<1>2. Len(es) \in Nat /\ DOMAIN es = 1 .. Len(es) /\ n \in Nat
      BY LenProperties
<1>3. \A k \in 1 .. Len(es) : f[k] \in Nat /\ f[k] = BytesOf(es[k])
      BY <1>2, EventTakesBytes
<1>. HIDE DEF f
<1>4. IsFiniteSet(1 .. n) /\ IsFiniteSet(1 .. n + 1)
      BY <1>2, FS_Interval
<1>5. EventBytes(es, n) \in Nat
  <2>1. \A k \in 1 .. n : f[k] \in Nat
        BY <1>2, <1>3
  <2>. QED BY <1>1, <1>4, <2>1, SumIsNatural
<1>6. EventBytes(es, 0) = 0
  <2>1. 1 .. 0 = {}
        OBVIOUS
  <2>. QED BY <1>1, <2>1, SumOfNone
<1>7. ASSUME n < Len(es)
      PROVE  EventBytes(es, n + 1) = EventBytes(es, n) + BytesOf(es[n + 1])
  <2>1. \A k \in 1 .. n + 1 : f[k] \in Nat
        BY <1>2, <1>3, <1>7
  <2>2. n + 1 \in 1 .. n + 1 /\ (1 .. n + 1) \ {n + 1} = 1 .. n /\ n + 1 \in 1 .. Len(es)
        BY <1>2, <1>7
  <2>3. SumFunctionOnSet(f, 1 .. n + 1) = f[n + 1] + SumFunctionOnSet(f, (1 .. n + 1) \ {n + 1})
        BY <1>4, <2>1, <2>2, SumTakeOut
  <2>4. f[n + 1] = BytesOf(es[n + 1]) /\ f[n + 1] \in Nat
        BY <1>3, <2>2
  <2>5. SumFunctionOnSet(f, (1 .. n + 1) \ {n + 1}) = EventBytes(es, n)
        BY <1>1, <2>2
  <2>6. SumFunctionOnSet(f, 1 .. n + 1) = EventBytes(es, n + 1)
        BY <1>1
  <2>. QED BY <1>5, <2>3, <2>4, <2>5, <2>6
<1>. QED BY <1>5, <1>6, <1>7

\* writeAt() of one event more.
LEMMA AppendedBytes ==
    ASSUME NEW es \in Seq(Event), NEW e \in Event
    PROVE  EventBytes(Append(es, e), Len(es) + 1) = EventBytes(es, Len(es)) + BytesOf(e)
<1>. DEFINE et == Append(es, e)
            n == Len(es)
            f == [k \in DOMAIN es |-> BytesOf(es[k])]
            h == [k \in DOMAIN et |-> BytesOf(et[k])]
<1>1. /\ n \in Nat /\ DOMAIN es = 1 .. n /\ et \in Seq(Event) /\ Len(et) = n + 1
      /\ DOMAIN et = 1 .. n + 1 /\ et[n + 1] = e /\ \A k \in 1 .. n : et[k] = es[k]
      BY AppendProperties, LenProperties
<1>2. \A k \in 1 .. n : f[k] \in Nat /\ h[k] = f[k]
      BY <1>1, EventTakesBytes
<1>3. \A m : EventBytes(es, m) = SumFunctionOnSet(f, 1 .. m)
             /\ EventBytes(et, m) = SumFunctionOnSet(h, 1 .. m)
      BY DEF EventBytes, Sum, SumFunctionOnSet
<1>. HIDE DEF f, h, et, n
<1>4. SumFunctionOnSet(h, 1 .. n) = SumFunctionOnSet(f, 1 .. n)
  <2>1. IsFiniteSet(1 .. n)
        BY <1>1, FS_Interval
  <2>. QED BY <1>2, <2>1, SumOfSame
<1>5. EventBytes(et, n + 1) = EventBytes(et, n) + BytesOf(et[n + 1])
  <2>1. n \in 0 .. Len(et) /\ n < Len(et)
        BY <1>1
  <2>. QED BY <1>1, <2>1, EventBytesGrow
<1>. QED BY <1>1, <1>3, <1>4, <1>5 DEF et, n

\* A compaction output holds nothing but ENQUEUE events.
LEMMA EnqueuesTakeBytes ==
    ASSUME NEW es \in Seq(Event), \A k \in DOMAIN es : es[k].type = "enq"
    PROVE  EventBytes(es, Len(es)) = Len(es) * EnqueueBytes
<1>. DEFINE P == {n \in Nat : n <= Len(es) => EventBytes(es, n) = n * EnqueueBytes}
<1>1. Len(es) \in Nat /\ DOMAIN es = 1 .. Len(es)
      BY LenProperties
<1>2. 0 \in P
      BY <1>1, EventBytesGrow, StoreConstants
<1>3. ASSUME NEW n \in Nat, n \in P PROVE n + 1 \in P
  <2>. SUFFICES ASSUME n + 1 <= Len(es) PROVE EventBytes(es, n + 1) = (n + 1) * EnqueueBytes
       BY <1>1
  <2>1. n \in 0 .. Len(es) /\ n < Len(es) /\ n + 1 \in DOMAIN es
        BY <1>1
  <2>2. EventBytes(es, n + 1) = EventBytes(es, n) + BytesOf(es[n + 1])
        BY <2>1, EventBytesGrow
  <2>3. BytesOf(es[n + 1]) = EnqueueBytes
        BY <2>1 DEF BytesOf
  <2>4. EventBytes(es, n) = n * EnqueueBytes
        BY <1>1, <1>3, <2>1
  <2>5. (n + 1) * EnqueueBytes = n * EnqueueBytes + EnqueueBytes
        BY StoreConstants
  <2>. QED BY <2>2, <2>3, <2>4, <2>5
<1>. HIDE DEF P
<1>4. Len(es) \in P
      BY <1>1, <1>2, <1>3, Induction
<1>. QED BY <1>1, <1>4 DEF P

\* A new file, or a new version of one.
LEMMA FileWritten ==
    ASSUME NEW ss, SegmentFiles(ss), NEW g \in Gen, NEW s \in Segment
    PROVE  SegmentBytes(WithSegment(ss, g, s)) =
               SegmentBytes(ss) + s.size - (IF g \in DOMAIN ss THEN ss[g].size ELSE 0)
<1>. DEFINE tt == WithSegment(ss, g, s)
            f == [h \in DOMAIN ss |-> ss[h].size]
            t == [h \in DOMAIN tt |-> tt[h].size]
            rest == DOMAIN ss \ {g}
<1>1. /\ DOMAIN tt = DOMAIN ss \cup {g} /\ tt[g] = s /\ \A h \in rest : tt[h] = ss[h]
      /\ DOMAIN tt \ {g} = rest
      BY DEF WithSegment
<1>2. SegmentFiles(tt)
      BY WithSegmentType
<1>3. /\ IsFiniteSet(DOMAIN ss) /\ IsFiniteSet(DOMAIN tt) /\ IsFiniteSet(rest)
      /\ \A h \in DOMAIN ss : f[h] \in Nat /\ f[h] = ss[h].size
      /\ \A h \in DOMAIN tt : t[h] \in Nat /\ t[h] = tt[h].size
      BY <1>2, FS_RemoveElement DEF SegmentFiles, Segment
<1>4. /\ SegmentBytes(ss) = SumFunctionOnSet(f, DOMAIN ss)
      /\ SegmentBytes(tt) = SumFunctionOnSet(t, DOMAIN tt)
      BY DEF SegmentBytes, Sum, SumFunctionOnSet
<1>5. t[g] = s.size /\ s.size \in Nat
      BY <1>1, <1>3 DEF Segment
<1>. HIDE DEF f, t, tt, rest
<1>6. /\ SumFunctionOnSet(t, rest) = SumFunctionOnSet(f, rest)
      /\ SumFunctionOnSet(f, rest) \in Nat
  <2>1. \A h \in rest : f[h] \in Nat /\ t[h] = f[h]
        BY <1>1, <1>3 DEF rest
  <2>. QED BY <1>3, <2>1, SumOfSame, SumIsNatural
<1>7. SumFunctionOnSet(t, DOMAIN tt) = t[g] + SumFunctionOnSet(t, rest)
      BY <1>1, <1>3, SumTakeOut
<1>8. CASE g \in DOMAIN ss
  <2>1. SumFunctionOnSet(f, DOMAIN ss) = f[g] + SumFunctionOnSet(f, rest)
        BY <1>3, <1>8, SumTakeOut DEF rest
  <2>2. f[g] = ss[g].size /\ f[g] \in Nat
        BY <1>3, <1>8
  <2>. QED BY <1>4, <1>5, <1>6, <1>7, <1>8, <2>1, <2>2 DEF tt
<1>9. CASE g \notin DOMAIN ss
  <2>1. rest = DOMAIN ss
        BY <1>9 DEF rest
  <2>. QED BY <1>4, <1>5, <1>6, <1>7, <1>9, <2>1 DEF tt
<1>. QED BY <1>8, <1>9

\* removeFile().
LEMMA FileRemoved ==
    ASSUME NEW ss, SegmentFiles(ss), NEW g \in DOMAIN ss
    PROVE  SegmentBytes(Without(ss, g)) = SegmentBytes(ss) - ss[g].size
<1>. DEFINE tt == Without(ss, g)
            f == [h \in DOMAIN ss |-> ss[h].size]
            t == [h \in DOMAIN tt |-> tt[h].size]
            rest == DOMAIN ss \ {g}
<1>1. DOMAIN tt = rest /\ \A h \in rest : tt[h] = ss[h]
      BY DEF Without
<1>2. /\ IsFiniteSet(DOMAIN ss) /\ IsFiniteSet(rest)
      /\ \A h \in DOMAIN ss : f[h] \in Nat /\ f[h] = ss[h].size
      BY FS_RemoveElement DEF SegmentFiles, Segment
<1>3. \A h \in rest : t[h] = f[h] /\ f[h] \in Nat
      BY <1>1, <1>2
<1>4. /\ SegmentBytes(ss) = SumFunctionOnSet(f, DOMAIN ss)
      /\ SegmentBytes(tt) = SumFunctionOnSet(t, DOMAIN tt)
      BY DEF SegmentBytes, Sum, SumFunctionOnSet
<1>5. f[g] = ss[g].size /\ f[g] \in Nat
      BY <1>2
<1>. HIDE DEF f, t, tt, rest
<1>6. SumFunctionOnSet(t, rest) = SumFunctionOnSet(f, rest) /\ SumFunctionOnSet(f, rest) \in Nat
      BY <1>2, <1>3, SumOfSame, SumIsNatural
<1>7. SumFunctionOnSet(f, DOMAIN ss) = f[g] + SumFunctionOnSet(f, rest)
      BY <1>2, SumTakeOut DEF rest
<1>. QED BY <1>1, <1>4, <1>5, <1>6, <1>7 DEF tt

\* Half a manifest more or less in one of the slots.
LEMMA SlotWritten ==
    ASSUME NEW pair \in SizePair, NEW k \in {1, 2}, NEW n \in Nat
    PROVE  LET new == [pair EXCEPT ![k] = n] IN new[1] + new[2] = pair[1] + pair[2] + n - pair[k]
<1>. DEFINE new == [pair EXCEPT ![k] = n]
<1>1. pair[1] \in Nat /\ pair[2] \in Nat
      BY DEF SizePair
<1>2. new[k] = n /\ \A j \in {1, 2} : j # k => new[j] = pair[j]
      BY DEF SizePair
<1>. HIDE DEF new
<1>3. new[1] + new[2] = pair[1] + pair[2] + n - pair[k]
  <2>1. CASE k = 1
        BY <1>1, <1>2, <2>1
  <2>2. CASE k = 2
        BY <1>1, <1>2, <2>2
  <2>. QED BY <2>1, <2>2
<1>. QED BY <1>3 DEF new

-----------------------------------------------------------------------------
(* The inductive invariant: what the files hold as long as no write has     *)
(* reported an error.                                                       *)

\* No file on disk has the number of the next one to be written, so that a new file
\* overwrites none.
NextFile == IF pc = "publishTail" THEN nextGen + 1
            ELSE IF pc \in {"write", "publish"} THEN nextGen + plan.done ELSE nextGen
NewFiles == pc \notin {"down", "failed"} => \A g \in DOMAIN segs : g < NextFile

\* Torn slots without a manifest are left only beside a segment, and such a store never
\* mounts.
TornFacts == manifest = TornManifest => pc \in {"down", "failed"} /\ DOMAIN segs # {}

\* Files hold whole events and nothing else, all but the tail that a power loss cut.
SealedExact == HasManifest => \A g \in GensOf(manifest.ranges) : Exact(segs[g])
TailHolds   == HasManifest => segs[manifest.tail].size >= Filled(segs[manifest.tail])
TailExact   == Scanned /\ HasManifest =>
                   /\ tailBytes = Filled(segs[tail])
                   /\ pc # "truncate" => segs[tail].size = tailBytes
OutputExact == /\ pc = "publishTail" => segs[nextGen] = EmptySegment
               /\ pc \in {"write", "publish"} =>
                      \A g \in nextGen .. nextGen + plan.done - 1 : Exact(segs[g])

\* The scan counts what it has read, and a manifest that is there mounts.
ScanFacts ==
    /\ pc = "replay" =>
        /\ scan.gen \in LiveGens(manifest)
        /\ scan.r <= Len(ranges) => scan.gen \in SpanOf(ranges[scan.r])
        /\ scan.ev <= Len(segs[scan.gen].events) + 1
        /\ tailBytes = HeaderBytes + EventBytes(segs[scan.gen].events, scan.ev - 1)
    /\ pc = "failed" => ~HasManifest

\* sealedSegmentBytes_ has the size of every file, the tail's before it is replaced.
SealedFacts ==
    Mounted => \A g \in DOMAIN segs : g # tail \/ pc \in {"create", "publishTail"} =>
                  g \in DOMAIN sealed /\ sealed[g] = segs[g].size
CleanupFiles == pc = "cleanup" => plan.lo + plan.done .. plan.hi \subseteq DOMAIN segs

Counted == Mounted => total = DiskBytes /\ slotBytes = slots

FileFacts == /\ NewFiles /\ TornFacts /\ SealedExact /\ TailHolds /\ TailExact /\ OutputExact
             /\ ScanFacts /\ SealedFacts /\ CleanupFiles /\ Counted

\* What was admitted fits, the rotation and the manifest before it included.
EventGrowth == BytesOf(CallEvent) + DrainReserve
SlotGrowth  ==
    LET slot == ManifestFixed + RangeEntry * (Len(ranges) + Count(TailIsFull))
    IN  SetMax(slot - KnownInactiveBytes, 0)
Budget ==
    call.op \in {"enqueue", "rewrite"} /\ MaxTotalBytes > 0 /\ plan = NoPlan =>
        /\ pc = "place" => total + Growth + DrainReserve <= MaxTotalBytes
        /\ pc \in {"create", "publishTail"} => tailBytes = 0 \/ TailIsFull
        /\ pc = "create" => total + EventGrowth + HeaderBytes + SlotGrowth <= MaxTotalBytes
        /\ pc = "publishTail" => total + EventGrowth + SlotGrowth <= MaxTotalBytes
        /\ pc = "append" => total + EventGrowth <= MaxTotalBytes

ExactInv == QueueInv /\ (~erred => FileFacts /\ Budget)

LEMMA ExactInit == QInit => ExactInv
<1>. SUFFICES ASSUME QInit PROVE ExactInv
     OBVIOUS
<1>1. Init /\ pc = "down" /\ manifest = NoManifest /\ call = Idle
      BY DEF QInit, Init, Unmounted
<1>2. FileFacts
      BY <1>1 DEF FileFacts, NewFiles, TornFacts, SealedExact, TailHolds, TailExact, OutputExact, ScanFacts,
             SealedFacts, CleanupFiles, Counted, Scanned, Mounted, HasManifest, NoManifest, TornManifest
<1>. QED BY <1>1, <1>2, QueueInit DEF ExactInv, Budget, Idle

-----------------------------------------------------------------------------
(* The steps that write no file.                                            *)

\* What is known of the files of a mounted store.
LEMMA FilesKnown ==
    ASSUME QueueInv
    PROVE  /\ TypeOK /\ SegmentFiles(segs) /\ nextGen \in Gen /\ nextGen \in Nat
           /\ \A g \in DOMAIN segs : g \in Nat /\ g # 0 /\ segs[g] \in Segment
                                     /\ segs[g].events \in Seq(Event) /\ segs[g].size \in Nat
           /\ HasManifest => \A g \in LiveGens(manifest) : g \in DOMAIN segs
           /\ HasManifest => LiveGens(manifest) = GensOf(manifest.ranges) \cup {manifest.tail}
                             /\ manifest.tail \notin GensOf(manifest.ranges)
           /\ Scanned /\ HasManifest => tail = manifest.tail /\ ranges = manifest.ranges
                             /\ tail \in DOMAIN segs /\ tailBytes >= HeaderBytes
           /\ Scanned /\ ~HasManifest => tail = 0 /\ tail \notin DOMAIN segs /\ tailBytes = 0
<1>1. TypeOK /\ CompactInv /\ ManifestBacked /\ RamFacts
      BY DEF QueueInv, CompactInv, SafeInv, TypeInv
<1>2. \A g \in DOMAIN segs : g \in Nat /\ g # 0 /\ segs[g] \in Segment
                             /\ segs[g].events \in Seq(Event) /\ segs[g].size \in Nat
      BY <1>1 DEF TypeOK, SegmentFiles, Segment, Gen
<1>3. HasManifest => \A g \in LiveGens(manifest) : g \in DOMAIN segs
      BY <1>1 DEF ManifestBacked, SegmentReadable
<1>4. HasManifest => LiveGens(manifest) = GensOf(manifest.ranges) \cup {manifest.tail}
                     /\ manifest.tail \notin GensOf(manifest.ranges)
      BY <1>1 DEF LiveGens, CompactInv, ManifestFacts
<1>5. Scanned /\ HasManifest => tail = manifest.tail /\ ranges = manifest.ranges
                                /\ tail \in DOMAIN segs /\ tailBytes >= HeaderBytes
      BY <1>1, <1>3, <1>4 DEF RamFacts
<1>6. Scanned /\ ~HasManifest => tail = 0 /\ tail \notin DOMAIN segs /\ tailBytes = 0
      BY <1>1, <1>2 DEF RamFacts
<1>. QED BY <1>1, <1>2, <1>3, <1>4, <1>5, <1>6 DEF TypeOK, Gen

Control ==
    /\ pc \in {"idle", "admit", "place", "resolve"}
    /\ pc' \in {"idle", "admit", "place", "create", "append", "write", "publish"}
    /\ UNCHANGED <<segs, manifest, ranges, tail, tailBytes, nextGen, bytes, erred>>
    /\ pc' \in {"write", "publish"} => plan'.done = 0
    /\ UNCHANGED sealed \/ SealTailSize
    /\ pc' = "create" => SealTailSize \/ tailBytes = 0

LEMMA ControlFacts ==
    ASSUME QueueInv, FileFacts, Control
    PROVE  FileFacts'
<1>1. /\ UNCHANGED <<segs, manifest, ranges, tail, tailBytes, nextGen, slots, total, slotBytes>>
      /\ Mounted /\ Mounted' /\ Scanned /\ Scanned'
      BY DEF Control, bytes, Mounted, Scanned
<1>. USE FilesKnown
<1>2. NewFiles' /\ TornFacts'
      BY <1>1 DEF FileFacts, NewFiles, NextFile, TornFacts, Control
<1>3. SealedExact' /\ TailHolds' /\ TailExact'
      BY <1>1 DEF FileFacts, SealedExact, TailHolds, TailExact, HasManifest, Control
<1>4. OutputExact' /\ ScanFacts' /\ CleanupFiles'
      BY <1>1 DEF OutputExact, ScanFacts, CleanupFiles, Control, Gen
<1>5. Counted'
      BY <1>1 DEF FileFacts, Counted, DiskBytes
<1>6. SealedFacts'
  <2>1. \A g \in DOMAIN segs : g # tail => g \in DOMAIN sealed' /\ sealed'[g] = segs[g].size
        BY <1>1 DEF FileFacts, SealedFacts, Control, SealTailSize
  <2>2. pc' = "create" /\ tail \in DOMAIN segs => tail \in DOMAIN sealed' /\ sealed'[tail] = segs[tail].size
    <3>. SUFFICES ASSUME pc' = "create", tail \in DOMAIN segs
                  PROVE  tail \in DOMAIN sealed' /\ sealed'[tail] = segs[tail].size
         OBVIOUS
    <3>1. HasManifest /\ tailBytes >= HeaderBytes /\ tailBytes = segs[tail].size
          BY <1>1 DEF FileFacts, TailExact, Control
    <3>2. SealTailSize
          BY <3>1, StoreConstants DEF Control
    <3>. QED BY <3>1, <3>2 DEF SealTailSize
  <2>. QED BY <1>1, <2>1, <2>2 DEF SealedFacts, Control
<1>. QED BY <1>2, <1>3, <1>4, <1>5, <1>6 DEF FileFacts

\* A compaction that begins.
LEMMA BeginIsControl ==
    ASSUME NEW in, BeginCompaction(in)
    PROVE  /\ pc' \in {"create", "write", "publish"}
           /\ pc' \in {"write", "publish"} => plan'.done = 0
           /\ UNCHANGED sealed \/ SealTailSize
           /\ pc' = "create" => SealTailSize
BY DEF BeginCompaction, Resolve

QuietSteps ==
    \/ Enqueue \/ RewriteFront \/ Pop \/ QCompactIdle \/ Admission
    \/ (PlaceEvent \/ ResolveAfterRotation) /\ UNCHANGED bytes /\ UNCHANGED loop

LEMMA ControlSteps ==
    ASSUME QuietSteps
    PROVE  Control
<1>1. CASE Enqueue
  <2>1. /\ pc = "idle" /\ UNCHANGED <<segs, manifest, ranges, tail, tailBytes, nextGen, bytes, erred>>
        BY <1>1 DEF Enqueue, MayStart, disk, RamButSealed
  <2>2. CASE \E in \in DeadFront : BeginCompaction(in)
        BY <2>1, <2>2, BeginIsControl DEF Control
  <2>3. CASE pc' = "admit" /\ UNCHANGED <<plan, sealed>>
        BY <2>1, <2>3 DEF Control
  <2>. QED BY <1>1, <2>2, <2>3 DEF Enqueue
<1>2. CASE RewriteFront \/ Pop \/ Admitted \/ Refuse \/ EvictFront \/ RetryEnqueue
      BY <1>2 DEF RewriteFront, RewriteRecord, Pop, CommitPop, MayStart, Admitted, Admit, Refuse, QueueFull,
                  EvictFront, NoRoom, RetryEnqueue, Control, disk, ram, loop
<1>3. CASE EvictionFailed
      BY <1>3 DEF EvictionFailed, Control, vars, disk, ram
<1>4. CASE QCompactIdle
  <2>1. PICK in \in NextInput(TRUE) : BeginCompaction(in)
        BY <1>4 DEF QCompactIdle, CompactIdle
  <2>2. pc = "idle" /\ UNCHANGED <<segs, manifest, ranges, tail, tailBytes, nextGen, bytes, erred>>
        BY <1>4 DEF QCompactIdle, CompactIdle, MayStart, disk, RamButSealed, loop
  <2>. QED BY <2>1, <2>2, BeginIsControl DEF Control
<1>5. CASE MakeRoom
  <2>1. PICK in \in NextInput(FALSE) : BeginCompaction(in)
        BY <1>5 DEF MakeRoom, CompactForAdmission
  <2>2. pc = "admit" /\ UNCHANGED <<segs, manifest, ranges, tail, tailBytes, nextGen, bytes, erred>>
        BY <1>5 DEF MakeRoom, CompactForAdmission, disk, RamButSealed, loop
  <2>. QED BY <2>1, <2>2, BeginIsControl DEF Control
<1>6. CASE PlaceEvent /\ UNCHANGED bytes /\ UNCHANGED loop
      BY <1>6 DEF PlaceEvent, Control, disk, loop
<1>7. CASE ResolveAfterRotation /\ UNCHANGED bytes /\ UNCHANGED loop
      BY <1>7 DEF ResolveAfterRotation, Resolve, Control, disk, ram, loop
<1>. QED BY <1>1, <1>2, <1>3, <1>4, <1>5, <1>6, <1>7 DEF QuietSteps, Admission

\* The estimate of appendGrowthBytes(), by what the event needs: nothing else, a new
\* tail, or a new tail and one range more.
LEMMA GrowthIs ==
    ASSUME QueueInv
    PROVE  /\ EventGrowth \in Nat /\ SlotGrowth \in Nat /\ Growth \in Nat /\ total \in Int
           /\ MaxTotalBytes \in Nat /\ BytesOf(CallEvent) \in Nat \ {0}
           /\ DrainReserve \in Nat /\ EventGrowth = BytesOf(CallEvent) + DrainReserve
           /\ KnownInactiveBytes \in Nat
           /\ tailBytes = 0 \/ TailIsFull =>
                  Growth + DrainReserve = EventGrowth + HeaderBytes + SlotGrowth
           /\ ~(tailBytes = 0 \/ TailIsFull) => Growth + DrainReserve = EventGrowth
<1>. DEFINE e == BytesOf(CallEvent)
            slot == ManifestFixed + RangeEntry * (Len(ranges) + Count(TailIsFull))
            k == KnownInactiveBytes
<1>1. total \in Int /\ MaxTotalBytes \in Nat /\ DrainReserve \in Nat /\ HeaderBytes \in Nat
      BY QueueConstants, StoreConstants DEF QueueInv, LoopFacts
<1>2. e \in Nat \ {0}
      BY EventTakesBytes
<1>3. slot \in Nat
  <2>1. Len(ranges) \in Nat /\ Count(TailIsFull) \in Nat
        BY FilesKnown DEF TypeOK, Count
  <2>2. RangeEntry * (Len(ranges) + Count(TailIsFull)) \in Nat
        BY <2>1, QueueConstants
  <2>. QED BY <2>2, QueueConstants
<1>4. k \in Nat
      BY DEF QueueInv, LoopFacts, KnownInactiveBytes, SizePair
<1>5. /\ EventGrowth = e + DrainReserve /\ SlotGrowth = SetMax(slot - k, 0)
      /\ Growth = IF tailBytes = 0 \/ TailIsFull THEN e + HeaderBytes + SetMax(slot - k, 0) ELSE e
  <2>1. EventGrowth = e + DrainReserve /\ SlotGrowth = SetMax(slot - k, 0)
        BY Zenon DEF EventGrowth, SlotGrowth
  <2>2. Growth = IF tailBytes = 0 \/ TailIsFull THEN e + HeaderBytes + SetMax(slot - k, 0) ELSE e
        BY Zenon DEF Growth
  <2>. QED BY <2>1, <2>2
<1>. HIDE DEF e, slot, k
<1>6. SetMax(slot - k, 0) \in Nat
      BY <1>3, <1>4 DEF SetMax
<1>. QED BY <1>1, <1>2, <1>4, <1>5, <1>6 DEF e, k

LEMMA BeginHasPlan ==
    ASSUME NEW in \in ManifestRange, BeginCompaction(in)
    PROVE  plan' # NoPlan
<1>1. in.lo # 0
      BY DEF ManifestRange, Gen
<1>2. plan'.lo = in.lo
  <2>1. CASE Resolve(in.lo, in.hi)
        BY <2>1 DEF Resolve
  <2>2. CASE plan' = [NoPlan EXCEPT !.lo = in.lo, !.hi = in.hi]
        BY <2>2 DEF NoPlan
  <2>. QED BY <2>1, <2>2 DEF BeginCompaction
<1>. QED BY <1>1, <1>2 DEF NoPlan

\* An admission against the budget, and the placing of what was admitted.
LEMMA QuietBudget ==
    ASSUME QueueInv, CompactInv', Budget, QuietSteps
    PROVE  Budget'
<1>. USE GrowthIs
<1>1. CASE Admitted \/ (PlaceEvent /\ UNCHANGED bytes)
  <2>1. UNCHANGED <<ranges, tail, tailBytes, plan, total, slotBytes, written>>
        BY <1>1 DEF PlaceEvent, Admitted, Admit, disk, ram, bytes
  <2>2. call' = call =>
            UNCHANGED <<Growth, EventGrowth, SlotGrowth>> /\ (TailIsFull' <=> TailIsFull)
        BY <2>1 DEF Growth, EventGrowth, SlotGrowth, TailIsFull, CallEvent, KnownInactiveBytes
  <2>3. CASE Admitted
    <3>1. MaxTotalBytes > 0 => total + Growth + DrainReserve <= MaxTotalBytes
          BY <2>3 DEF Admitted, OverBudget
    <3>2. call' = call /\ pc' = "place"
          BY <2>3 DEF Admitted, Admit
    <3>. QED BY <2>1, <2>2, <3>1, <3>2 DEF Budget
  <2>4. CASE PlaceEvent /\ call' = call
    <3>1. /\ pc = "place" /\ pc' \in {"idle", "create", "append"}
          /\ pc' = "create" => tailBytes = 0 \/ TailIsFull
          /\ pc' = "append" => ~(tailBytes = 0 \/ TailIsFull)
          BY <2>4 DEF PlaceEvent
    <3>2. call.op \in {"enqueue", "rewrite"} /\ MaxTotalBytes > 0 /\ plan = NoPlan =>
              total + (Growth + DrainReserve) <= MaxTotalBytes
          BY <3>1 DEF Budget
    <3>3. CASE pc' = "create"
          BY <2>1, <2>2, <2>4, <3>1, <3>2, <3>3, StoreConstants DEF Budget
    <3>4. CASE pc' = "append"
          BY <2>1, <2>2, <2>4, <3>1, <3>2, <3>4 DEF Budget
    <3>5. CASE pc' = "idle"
          BY <3>5 DEF Budget
    <3>. QED BY <3>1, <3>3, <3>4, <3>5
  <2>5. CASE PlaceEvent /\ call' = Idle
        BY <2>5 DEF Budget, Idle
  <2>. QED BY <1>1, <2>3, <2>4, <2>5 DEF PlaceEvent
<1>2. CASE \/ Enqueue \/ RewriteFront \/ Pop \/ QCompactIdle \/ MakeRoom \/ Refuse \/ EvictFront
           \/ RetryEnqueue \/ EvictionFailed \/ ResolveAfterRotation
  <2>1. pc' = "place" => call'.op = "pop"
    <3>1. CASE Enqueue \/ QCompactIdle \/ MakeRoom \/ ResolveAfterRotation
          BY <3>1, BeginIsControl
          DEF Enqueue, QCompactIdle, CompactIdle, MakeRoom, CompactForAdmission, ResolveAfterRotation, Resolve
    <3>2. CASE RewriteFront \/ Pop \/ Refuse \/ EvictFront \/ RetryEnqueue \/ EvictionFailed
          BY <3>2 DEF RewriteFront, RewriteRecord, Pop, CommitPop, Refuse, QueueFull, EvictFront,
                      RetryEnqueue, EvictionFailed, vars
    <3>. QED BY <1>2, <3>1, <3>2
  <2>2. pc' \in {"create", "append"} => plan' # NoPlan
    <3>1. CASE Enqueue
      <4>1. CASE pc' = "admit"
            BY <4>1
      <4>2. CASE \E in \in DeadFront : BeginCompaction(in)
        <5>1. PICK in \in DeadFront : BeginCompaction(in)
              BY <4>2
        <5>2. pc = "idle" /\ ranges # <<>>
              BY <3>1, <5>1 DEF Enqueue, MayStart, DeadFront
        <5>3. in \in InputOf([lo |-> ranges[1].lo, hi |-> ranges[1].lo], FALSE)
              BY <5>1 DEF DeadFront
        <5>4. in \in ManifestRange
              BY <5>2, <5>3, FrontRange DEF QueueInv, Mounted
        <5>. QED BY <5>1, <5>4, BeginHasPlan
      <4>. QED BY <3>1, <4>1, <4>2 DEF Enqueue
    <3>2. CASE QCompactIdle
      <4>1. PICK in \in NextInput(TRUE) : BeginCompaction(in)
            BY <3>2 DEF QCompactIdle, CompactIdle
      <4>2. pc = "idle"
            BY <3>2 DEF QCompactIdle, CompactIdle, MayStart
      <4>3. in \in ManifestRange
            BY <4>1, <4>2, MountedRanges, NextInputRange DEF QueueInv, Mounted
      <4>. QED BY <4>1, <4>3, BeginHasPlan
    <3>3. CASE MakeRoom
      <4>1. PICK in \in NextInput(FALSE) : BeginCompaction(in)
            BY <3>3 DEF MakeRoom, CompactForAdmission
      <4>2. pc = "admit"
            BY <3>3 DEF MakeRoom, CompactForAdmission
      <4>3. in \in ManifestRange
            BY <4>1, <4>2, MountedRanges, NextInputRange DEF QueueInv, Mounted
      <4>. QED BY <4>1, <4>3, BeginHasPlan
    <3>4. CASE RewriteFront \/ Pop \/ Refuse \/ EvictFront \/ RetryEnqueue \/ EvictionFailed \/ ResolveAfterRotation
          BY <3>4 DEF RewriteFront, RewriteRecord, Pop, CommitPop, Refuse, QueueFull, EvictFront, NoRoom,
                      RetryEnqueue, EvictionFailed, ResolveAfterRotation, Resolve, vars
    <3>. QED BY <1>2, <3>1, <3>2, <3>3, <3>4
  <2>. QED BY <2>1, <2>2, ControlSteps DEF Budget, Control
<1>3. QuietSteps => \/ Admitted \/ (PlaceEvent /\ UNCHANGED bytes)
                    \/ Enqueue \/ RewriteFront \/ Pop \/ QCompactIdle \/ MakeRoom \/ Refuse
                    \/ EvictFront \/ RetryEnqueue \/ EvictionFailed \/ ResolveAfterRotation
      BY DEF QuietSteps, Admission
<1>. QED BY <1>1, <1>2, <1>3

-----------------------------------------------------------------------------
(* mount().                                                                 *)

LEMMA MountBeginFacts ==
    ASSUME QueueInv, FileFacts, MountBegin, ForgetSlots
    PROVE  FileFacts'
<1>1. UNCHANGED <<segs, manifest, plan>> /\ pc \in {"down", "failed"}
      /\ pc' \in {"replay", "sweep", "failed"}
      BY DEF MountBegin, disk
<1>2. TypeOK /\ CompactInv /\ ~Mounted'
      BY <1>1, FilesKnown DEF QueueInv, Mounted
<1>3. SealedExact' /\ TailHolds'
      BY <1>1 DEF FileFacts, SealedExact, TailHolds, HasManifest
<1>4. OutputExact' /\ SealedFacts' /\ CleanupFiles' /\ Counted'
      BY <1>1, <1>2 DEF OutputExact, SealedFacts, CleanupFiles, Counted
<1>5. CASE HasManifest
  <2>1. /\ manifest \in Manifest /\ ranges' = manifest.ranges /\ pc' = "replay"
        /\ nextGen' = AdvancePast(manifest.next) /\ scan' = StartScan(manifest)
        /\ tailBytes' = HeaderBytes
        BY <1>2, <1>5 DEF MountBegin, TypeOK, HasManifest
  <2>2. NewFiles'
    <3>1. manifest.next \in Gen
          BY <2>1 DEF Manifest
    <3>2. \A g \in DOMAIN segs : g < nextGen'
          BY <2>1, <3>1, FilesKnown, AdvancePastIsFresh DEF SegmentFiles
    <3>. QED BY <1>1, <2>1, <3>2 DEF NewFiles, NextFile
  <2>3. TornFacts' /\ TailExact'
        BY <1>1, <1>2, <1>5, <2>1 DEF TornFacts, TailExact, HasManifest, Scanned
  <2>4. ScanFacts'
    <3>. DEFINE g == scan'.gen
    <3>1. scan'.r = 1 /\ scan'.ev = 1
          BY <2>1 DEF StartScan
    <3>2. g \in LiveGens(manifest) /\ (1 <= Len(manifest.ranges) => g \in SpanOf(manifest.ranges[1]))
      <4>1. CASE manifest.ranges = <<>>
            BY <2>1, <4>1 DEF StartScan, LiveGens
      <4>2. CASE manifest.ranges # <<>>
        <5>1. manifest.ranges \in Seq(ManifestRange) /\ Proper(manifest.ranges)
              BY <1>2, <1>5, <2>1 DEF CompactInv, ManifestFacts, Manifest
        <5>2. 1 \in DOMAIN manifest.ranges /\ manifest.ranges[1] \in ManifestRange
              BY <4>2, <5>1
        <5>3. g = manifest.ranges[1].lo
              BY <2>1, <4>2 DEF StartScan
        <5>4. g \in SpanOf(manifest.ranges[1])
              BY <5>1, <5>2, <5>3 DEF SpanOf, Proper, ManifestRange, Gen
        <5>5. g \in GensOf(manifest.ranges)
              BY <5>2, <5>4, GensOfIn
        <5>. QED BY <5>4, <5>5 DEF LiveGens
      <4>. QED BY <4>1, <4>2
    <3>3. /\ segs[g].events \in Seq(Event) /\ Len(segs[g].events) \in Nat
          /\ EventBytes(segs[g].events, 0) = 0
      <4>1. segs[g].events \in Seq(Event)
            BY <1>5, <3>2, FilesKnown
      <4>. HIDE DEF g
      <4>2. 0 \in 0 .. Len(segs[g].events) /\ Len(segs[g].events) \in Nat
            BY <4>1
      <4>. QED BY <4>1, <4>2, EventBytesGrow
    <3>4. scan'.ev - 1 = 0 /\ scan'.ev <= Len(segs[g].events) + 1
          /\ tailBytes' = HeaderBytes + EventBytes(segs[g].events, scan'.ev - 1)
          BY <2>1, <3>1, <3>3, StoreConstants
    <3>. QED BY <1>1, <2>1, <3>1, <3>2, <3>4 DEF ScanFacts
  <2>. QED BY <1>3, <1>4, <2>2, <2>3, <2>4 DEF FileFacts
<1>6. CASE ~HasManifest
  <2>1. pc' = IF DOMAIN segs = {} THEN "sweep" ELSE "failed"
        BY <1>6 DEF MountBegin
  <2>. QED BY <1>1, <1>3, <1>4, <1>6, <2>1
           DEF FileFacts, NewFiles, TornFacts, TailExact, ScanFacts, HasManifest
<1>. QED BY <1>5, <1>6

\* A manifest that is there mounts: each file it names is readable, and the sealed ones
\* hold whole events.
LEMMA ReplayNeverFails ==
    ASSUME QueueInv, FileFacts
    PROVE  ~ReplayUnreadable /\ ~ReplayTornSealed
<1>1. SUFFICES ASSUME pc = "replay" PROVE ~ReplayUnreadable /\ ~ReplayTornSealed
      BY DEF ReplayUnreadable, ReplayTornSealed, AtSegmentEnd
<1>2. /\ HasManifest /\ ranges = manifest.ranges /\ scan.gen \in LiveGens(manifest)
      /\ SegmentReadable(scan.gen)
      BY <1>1 DEF QueueInv, CompactInv, SafeInv, TypeInv, ReplayFacts, ManifestBacked, FileFacts, ScanFacts
<1>3. SUFFICES ASSUME AtSegmentEnd, ~OnLastSegment, tailBytes < segs[scan.gen].size PROVE FALSE
      BY <1>2 DEF ReplayUnreadable, ReplayTornSealed
<1>. DEFINE s == segs[scan.gen]
<1>4. s.events \in Seq(Event) /\ s.size \in Nat
      BY <1>2, FilesKnown
<1>5. scan.r \in Nat /\ scan.ev \in Nat /\ scan.r # 0 /\ Len(ranges) \in Nat /\ ranges \in Seq(ManifestRange)
      BY FilesKnown DEF TypeOK
<1>6. scan.gen \in GensOf(manifest.ranges)
  <2>1. scan.r \in DOMAIN ranges /\ scan.gen \in SpanOf(ranges[scan.r])
        BY <1>1, <1>3, <1>5 DEF OnLastSegment, FileFacts, ScanFacts
  <2>. QED BY <1>2, <2>1, GensOfIn
<1>7. s.size = HeaderBytes + EventBytes(s.events, Len(s.events))
      BY <1>2, <1>6 DEF FileFacts, SealedExact, Exact, Filled
<1>8. scan.ev - 1 = Len(s.events)
  <2>1. Len(s.events) \in Nat /\ scan.ev > Len(s.events) /\ scan.ev <= Len(s.events) + 1
        BY <1>1, <1>3, <1>4 DEF AtSegmentEnd, FileFacts, ScanFacts
  <2>. QED BY <1>5, <2>1
<1>9. tailBytes = s.size
      BY <1>1, <1>7, <1>8 DEF FileFacts, ScanFacts
<1>. QED BY <1>3, <1>4, <1>9

\* The steps of the scan leave the files alone.
LEMMA ScanKeepsFiles ==
    ASSUME QueueInv, FileFacts, UNCHANGED <<segs, manifest, nextGen>>, pc = "replay",
           pc' \in {"replay", "truncate", "sweep"}
    PROVE  /\ NewFiles' /\ TornFacts' /\ SealedExact' /\ TailHolds' /\ OutputExact'
           /\ SealedFacts' /\ CleanupFiles' /\ Counted'
BY DEF FileFacts, NewFiles, NextFile, TornFacts, SealedExact, TailHolds, OutputExact, SealedFacts,
       CleanupFiles, Counted, HasManifest, Mounted

LEMMA ReplayEventFacts ==
    ASSUME QueueInv, FileFacts, ReplayEvent
    PROVE  FileFacts'
<1>. DEFINE s == segs[scan.gen]
<1>1. /\ UNCHANGED <<segs, manifest, ranges, tail, nextGen, pc, plan>> /\ pc = "replay"
      /\ SegmentReadable(scan.gen) /\ scan.ev <= Len(s.events)
      /\ scan' = [scan EXCEPT !.ev = @ + 1]
      /\ tailBytes' = tailBytes + BytesOf(s.events[scan.ev])
      BY DEF ReplayEvent, disk
<1>2. scan \in [r : Nat \ {0}, gen : Nat, ev : Nat \ {0}]
      BY FilesKnown DEF TypeOK
<1>3. scan'.r = scan.r /\ scan'.gen = scan.gen /\ scan'.ev = scan.ev + 1 /\ scan.ev \in Nat \ {0}
      BY <1>1, <1>2
<1>4. s.events \in Seq(Event) /\ Len(s.events) \in Nat
      BY <1>1, FilesKnown DEF SegmentReadable
<1>. HIDE DEF s
<1>5. EventBytes(s.events, scan.ev) = EventBytes(s.events, scan.ev - 1) + BytesOf(s.events[scan.ev])
      /\ EventBytes(s.events, scan.ev - 1) \in Nat
  <2>1. scan.ev - 1 \in 0 .. Len(s.events) /\ scan.ev - 1 < Len(s.events) /\ (scan.ev - 1) + 1 = scan.ev
        BY <1>1, <1>3, <1>4
  <2>. QED BY <1>4, <2>1, EventBytesGrow
<1>6. tailBytes = HeaderBytes + EventBytes(s.events, scan.ev - 1)
      BY <1>1 DEF FileFacts, ScanFacts, s
<1>7. tailBytes' = HeaderBytes + EventBytes(s.events, scan'.ev - 1)
  <2>1. scan'.ev - 1 = scan.ev
        BY <1>3
  <2>. QED BY <1>1, <1>5, <1>6, <2>1, EventTakesBytes, StoreConstants
<1>8. ScanFacts'
  <2>1. scan'.ev <= Len(s.events) + 1
        BY <1>1, <1>3, <1>4
  <2>. QED BY <1>1, <1>3, <1>7, <2>1 DEF FileFacts, ScanFacts, s
<1>9. TailExact'
      BY <1>1 DEF TailExact, Scanned, Mounted
<1>. QED BY <1>1, <1>8, <1>9, ScanKeepsFiles DEF FileFacts

LEMMA ReplayNextFacts ==
    ASSUME QueueInv, FileFacts, ReplayNextSegment
    PROVE  FileFacts'
<1>1. /\ UNCHANGED <<segs, manifest, ranges, nextGen, pc, plan>> /\ pc = "replay"
      /\ tailBytes' = HeaderBytes /\ ~(scan.r > Len(ranges))
      /\ scan' = IF scan.gen < ranges[scan.r].hi
                 THEN [r |-> scan.r, ev |-> 1, gen |-> scan.gen + 1]
                 ELSE [r |-> scan.r + 1, ev |-> 1,
                       gen |-> IF scan.r < Len(ranges) THEN ranges[scan.r + 1].lo ELSE manifest.tail]
      BY DEF ReplayNextSegment, AtSegmentEnd, OnLastSegment, disk
<1>2. /\ HasManifest /\ ranges = manifest.ranges /\ ranges \in Seq(ManifestRange)
      /\ Proper(ranges) /\ manifest \in Manifest
      BY <1>1, FilesKnown
      DEF QueueInv, CompactInv, SafeInv, TypeInv, ReplayFacts, ManifestFacts, TypeOK, HasManifest
<1>3. /\ scan.r \in DOMAIN ranges /\ scan.r \in Nat /\ Len(ranges) \in Nat
      /\ DOMAIN ranges = 1 .. Len(ranges)
      BY <1>1, FilesKnown DEF TypeOK
<1>4. \A i \in DOMAIN ranges : /\ ranges[i].lo \in Nat /\ ranges[i].hi \in Nat
                               /\ ranges[i].lo <= ranges[i].hi
  <2>1. \A i \in DOMAIN ranges : ranges[i] \in ManifestRange
        BY <1>2
  <2>. QED BY <1>2, <2>1 DEF Proper, ManifestRange, Gen
<1>5. scan.gen \in SpanOf(ranges[scan.r])
      BY <1>1, <1>3 DEF FileFacts, ScanFacts
<1>. DEFINE g == scan'.gen
<1>6. /\ scan'.ev = 1 /\ g \in LiveGens(manifest)
      /\ scan'.r <= Len(ranges) => g \in SpanOf(ranges[scan'.r])
  <2>1. CASE scan.gen < ranges[scan.r].hi
    <3>1. scan'.r = scan.r /\ scan'.ev = 1 /\ g = scan.gen + 1
          BY <1>1, <2>1
    <3>2. g \in SpanOf(ranges[scan.r])
          BY <1>3, <1>4, <1>5, <2>1, <3>1 DEF SpanOf
    <3>. QED BY <1>2, <1>3, <3>1, <3>2, GensOfIn DEF LiveGens
  <2>2. CASE ~(scan.gen < ranges[scan.r].hi) /\ scan.r < Len(ranges)
    <3>1. scan'.r = scan.r + 1 /\ scan'.ev = 1 /\ g = ranges[scan.r + 1].lo
          BY <1>1, <2>2
    <3>2. scan.r + 1 \in DOMAIN ranges
          BY <1>3, <2>2
    <3>3. g \in SpanOf(ranges[scan.r + 1])
          BY <1>4, <3>1, <3>2 DEF SpanOf
    <3>. QED BY <1>2, <3>1, <3>2, <3>3, GensOfIn DEF LiveGens
  <2>3. CASE ~(scan.gen < ranges[scan.r].hi) /\ ~(scan.r < Len(ranges))
    <3>1. scan'.r = scan.r + 1 /\ scan'.ev = 1 /\ g = manifest.tail
          BY <1>1, <2>3
    <3>. QED BY <1>3, <2>3, <3>1 DEF LiveGens
  <2>. QED BY <2>1, <2>2, <2>3
<1>7. segs[g].events \in Seq(Event)
      BY <1>2, <1>6, FilesKnown
<1>. HIDE DEF g
<1>8. Len(segs[g].events) \in Nat /\ EventBytes(segs[g].events, 0) = 0
  <2>1. 0 \in 0 .. Len(segs[g].events) /\ Len(segs[g].events) \in Nat
        BY <1>7
  <2>. QED BY <1>7, <2>1, EventBytesGrow
<1>9. ScanFacts'
  <2>1. scan'.ev - 1 = 0 /\ scan'.ev <= Len(segs[g].events) + 1
        /\ tailBytes' = HeaderBytes + EventBytes(segs[g].events, scan'.ev - 1)
        BY <1>1, <1>6, <1>8, StoreConstants
  <2>. QED BY <1>1, <1>6, <2>1 DEF ScanFacts, g
<1>10. TailExact'
       BY <1>1 DEF TailExact, Scanned, Mounted
<1>. QED BY <1>1, <1>9, <1>10, ScanKeepsFiles DEF FileFacts

\* At the end of the scan the tail's last good byte is known.
LEMMA ReplayDoneFacts ==
    ASSUME QueueInv, FileFacts, ReplayDone
    PROVE  FileFacts'
<1>. DEFINE s == segs[scan.gen]
<1>1. /\ UNCHANGED <<segs, manifest, ranges, nextGen, tailBytes, plan, scan>> /\ pc = "replay"
      /\ tail' = scan.gen /\ scan.ev > Len(s.events) /\ scan.r > Len(ranges)
      /\ pc' = IF tailBytes < s.size THEN "truncate" ELSE "sweep"
      BY DEF ReplayDone, AtSegmentEnd, OnLastSegment, disk
<1>2. HasManifest /\ scan.gen = manifest.tail
      BY <1>1 DEF QueueInv, CompactInv, SafeInv, TypeInv, ReplayFacts
<1>3. /\ s.events \in Seq(Event) /\ s.size \in Nat /\ Len(s.events) \in Nat
  <2>1. scan.gen \in LiveGens(manifest)
        BY <1>2 DEF LiveGens
  <2>2. s.events \in Seq(Event) /\ s.size \in Nat
        BY <1>2, <2>1, FilesKnown
  <2>. QED BY <2>2
<1>4. tailBytes = Filled(s) /\ tailBytes \in Nat
  <2>1. scan.ev \in Nat /\ scan.ev <= Len(s.events) + 1
        BY <1>1, FilesKnown DEF TypeOK, FileFacts, ScanFacts
  <2>2. scan.ev - 1 = Len(s.events)
        BY <1>1, <1>3, <2>1
  <2>. QED BY <1>1, <2>2, FilesKnown DEF FileFacts, ScanFacts, Filled, TypeOK
<1>5. s.size >= tailBytes
      BY <1>2, <1>4 DEF FileFacts, TailHolds
<1>6. TailExact'
      BY <1>1, <1>2, <1>3, <1>4, <1>5 DEF TailExact
<1>7. ScanFacts'
      BY <1>1 DEF ScanFacts
<1>. QED BY <1>1, <1>6, <1>7, ScanKeepsFiles DEF FileFacts

\* The torn bytes of the tail are cut off.
LEMMA TruncateFacts ==
    ASSUME QueueInv, FileFacts, TruncateTail, ShrinkKeepsPrefix, "truncate" \notin Faults
    PROVE  FileFacts'
<1>1. /\ UNCHANGED <<manifest, ranges, nextGen, tail, tailBytes, plan>> /\ pc = "truncate"
      /\ pc' = "sweep" /\ segs' = WithSegment(segs, tail, Shrunk(segs[tail], tailBytes))
      BY DEF TruncateTail, ram
<1>2. HasManifest /\ Scanned /\ tail = manifest.tail /\ tail \in DOMAIN segs
      BY <1>1, FilesKnown DEF QueueInv, CompactInv, SafeInv, TypeInv, TailFacts, Scanned
<1>3. segs[tail] \in Segment
      BY <1>2, FilesKnown
<1>4. /\ DOMAIN segs' = DOMAIN segs /\ \A g \in DOMAIN segs : g # tail => segs'[g] = segs[g]
      /\ segs'[tail].size = tailBytes /\ segs'[tail].events = segs[tail].events
      BY <1>1, <1>2, <1>3 DEF WithSegment, Shrunk, Segment
<1>5. tailBytes = Filled(segs[tail])
      BY <1>2 DEF FileFacts, TailExact
<1>6. Filled(segs'[tail]) = Filled(segs[tail])
      BY <1>4 DEF Filled
<1>7. tailBytes \in Nat
      BY FilesKnown DEF TypeOK
<1>8. SealedExact'
  <2>1. \A g \in GensOf(manifest.ranges) : g \in DOMAIN segs /\ g # tail
        BY <1>2, FilesKnown
  <2>. QED BY <1>1, <1>2, <1>4, <2>1 DEF FileFacts, SealedExact, HasManifest
<1>9. TailHolds' /\ TailExact'
      BY <1>1, <1>2, <1>4, <1>5, <1>6, <1>7 DEF TailHolds, TailExact, HasManifest
<1>10. NewFiles' /\ TornFacts' /\ OutputExact' /\ ScanFacts' /\ SealedFacts' /\ CleanupFiles' /\ Counted'
       BY <1>1, <1>4 DEF FileFacts, NewFiles, NextFile, TornFacts, OutputExact, ScanFacts, SealedFacts,
                         CleanupFiles, Counted, Mounted
<1>. QED BY <1>8, <1>9, <1>10 DEF FileFacts

\* mount() counts every file, and has no more to do.
LEMMA MountDoneFacts ==
    ASSUME QueueInv, FileFacts, MountDone, CountFiles
    PROVE  FileFacts'
<1>1. /\ UNCHANGED <<manifest, ranges, nextGen, tail, tailBytes, plan>> /\ pc = "sweep" /\ pc' = "idle"
      /\ sealed' = [g \in DOMAIN segs' |-> segs[g].size]
      BY DEF MountDone
<1>2. /\ DOMAIN segs' \subseteq DOMAIN segs /\ \A g \in DOMAIN segs' : segs'[g] = segs[g]
      /\ HasManifest => \A g \in LiveGens(manifest) : g \in DOMAIN segs'
  <2>1. CASE UNCHANGED segs
        BY <2>1, FilesKnown
  <2>2. CASE \E g \in Dangling : segs' = Without(segs, g)
    <3>1. PICK g \in Dangling : segs' = Without(segs, g)
          BY <2>2
    <3>2. DOMAIN segs' = DOMAIN segs \ {g} /\ \A h \in DOMAIN segs' : segs'[h] = segs[h]
          BY <3>1 DEF Without
    <3>3. HasManifest => g \notin LiveGens(manifest)
          BY <3>1 DEF Dangling
    <3>. QED BY <3>2, <3>3, FilesKnown
  <2>. QED BY <2>1, <2>2 DEF MountDone
<1>3. NewFiles' /\ TornFacts'
      BY <1>1, <1>2 DEF FileFacts, NewFiles, NextFile, TornFacts
<1>4. HasManifest => /\ \A g \in GensOf(manifest.ranges) : g \in DOMAIN segs'
                     /\ manifest.tail \in DOMAIN segs' /\ tail = manifest.tail
      BY <1>1, <1>2, FilesKnown DEF LiveGens, Scanned
<1>5. SealedExact' /\ TailHolds'
      BY <1>1, <1>2, <1>4 DEF FileFacts, SealedExact, TailHolds, HasManifest
<1>6. TailExact'
      BY <1>1, <1>2, <1>4 DEF FileFacts, TailExact, HasManifest, Scanned
<1>7. OutputExact' /\ ScanFacts' /\ CleanupFiles'
      BY <1>1 DEF OutputExact, ScanFacts, CleanupFiles
<1>8. SealedFacts'
      BY <1>1, <1>2 DEF SealedFacts
<1>9. Counted'
      BY DEF CountFiles, Counted, DiskBytes
<1>. QED BY <1>3, <1>5, <1>6, <1>7, <1>8, <1>9 DEF FileFacts

-----------------------------------------------------------------------------
(* The steps that write a file.                                             *)

\* A new complete file is counted, and no other changes.
LEMMA NewFileFacts ==
    ASSUME QueueInv, FileFacts, pc \in {"create", "write"}, Mounted',
           NEW g \in Gen, \A h \in DOMAIN segs : h < g, g >= nextGen,
           NEW s \in Segment, Exact(s), segs' = WithSegment(segs, g, s),
           sealed' = [h \in DOMAIN sealed \cup {g} |-> IF h = g THEN s.size ELSE sealed[h]],
           CountNewFile(s.size), UNCHANGED <<manifest, ranges, tail, tailBytes>>,
           pc = "write" => pc' \in {"write", "publish"}
    PROVE  /\ DOMAIN segs' = DOMAIN segs \cup {g} /\ segs'[g] = s /\ g \notin DOMAIN segs
           /\ \A h \in DOMAIN segs : segs'[h] = segs[h]
           /\ TornFacts' /\ SealedExact' /\ TailHolds' /\ TailExact' /\ Counted'
           /\ SealedFacts'
<1>1. g \in Nat /\ g \notin DOMAIN segs
      BY FilesKnown DEF Gen
<1>2. /\ DOMAIN segs' = DOMAIN segs \cup {g} /\ segs'[g] = s
      /\ \A h \in DOMAIN segs : segs'[h] = segs[h]
      BY <1>1 DEF WithSegment
<1>3. HasManifest => /\ \A h \in GensOf(manifest.ranges) : h \in DOMAIN segs
                     /\ manifest.tail \in DOMAIN segs
      BY FilesKnown
<1>4. Mounted /\ Scanned /\ Scanned'
      BY DEF Mounted, Scanned
<1>5. TornFacts' /\ SealedExact' /\ TailHolds'
      BY <1>2, <1>3, <1>4 DEF FileFacts, TornFacts, SealedExact, TailHolds, HasManifest, Mounted
<1>6. TailExact'
  <2>1. HasManifest => tail \in DOMAIN segs
        BY <1>4, FilesKnown
  <2>. QED BY <1>2, <1>4, <2>1 DEF FileFacts, TailExact, HasManifest
<1>7. Counted'
  <2>1. SegmentBytes(segs') = SegmentBytes(segs) + s.size
    <3>1. SegmentBytes(segs') = SegmentBytes(segs) + s.size - (IF g \in DOMAIN segs THEN segs[g].size ELSE 0)
          BY FilesKnown, FileWritten
    <3>2. s.size \in Nat /\ SegmentBytes(segs) \in Nat
          BY FilesKnown, SegmentBytesType DEF Segment
    <3>. QED BY <1>1, <3>1, <3>2
  <2>2. s.size \in Nat /\ SegmentBytes(segs) \in Nat /\ slots[1] \in Nat /\ slots[2] \in Nat
        BY FilesKnown, SegmentBytesType, SlotChosen DEF Segment, QueueInv
  <2>3. total = SegmentBytes(segs) + slots[1] + slots[2] /\ slotBytes = slots
        BY <1>4 DEF FileFacts, Counted, DiskBytes
  <2>4. total' = total + s.size /\ slots' = slots /\ slotBytes' = slotBytes
        BY DEF CountNewFile
  <2>5. total' = SegmentBytes(segs') + slots[1] + slots[2]
        BY <2>1, <2>2, <2>3, <2>4
  <2>. QED BY <2>3, <2>4, <2>5 DEF Counted, DiskBytes
<1>8. SealedFacts'
      BY <1>1, <1>2, <1>4 DEF FileFacts, SealedFacts
<1>. QED BY <1>1, <1>2, <1>5, <1>6, <1>7, <1>8

LEMMA CreateFacts ==
    ASSUME QueueInv, FileFacts, CreateTail, CountNewFile(HeaderBytes)
    PROVE  FileFacts'
<1>1. /\ pc = "create" /\ pc' = "publishTail" /\ segs' = WithSegment(segs, nextGen, EmptySegment)
      /\ sealed' = [h \in DOMAIN sealed \cup {nextGen} |->
                       IF h = nextGen THEN EmptySegment.size ELSE sealed[h]]
      /\ UNCHANGED <<manifest, ranges, tail, tailBytes, nextGen>>
      BY DEF CreateTail, EmptySegment
<1>2. nextGen \in Gen /\ nextGen \in Nat /\ \A h \in DOMAIN segs : h < nextGen
      BY <1>1, FilesKnown DEF FileFacts, NewFiles, NextFile
<1>3. EmptySegment \in Segment /\ Exact(EmptySegment) /\ EmptySegment.size = HeaderBytes
  <2>1. EmptySegment.events = <<>> /\ <<>> \in Seq(Event) /\ Len(<<>>) = 0
        /\ EmptySegment.size = HeaderBytes
        BY DEF EmptySegment
  <2>2. EventBytes(<<>>, 0) = 0
    <3>1. 0 \in 0 .. Len(<<>>)
          BY <2>1
    <3>. QED BY <2>1, <3>1, EventBytesGrow
  <2>3. Filled(EmptySegment) = HeaderBytes
        BY <2>1, <2>2, StoreConstants DEF Filled
  <2>. QED BY <2>1, <2>3, StoreConstants DEF EmptySegment, Segment, Exact
<1>4. nextGen >= nextGen /\ Mounted'
      BY <1>1, <1>2 DEF Mounted
<1>5. /\ DOMAIN segs' = DOMAIN segs \cup {nextGen} /\ segs'[nextGen] = EmptySegment
      /\ TornFacts' /\ SealedExact' /\ TailHolds' /\ TailExact' /\ Counted' /\ SealedFacts'
      BY <1>1, <1>2, <1>3, <1>4, NewFileFacts
<1>6. NewFiles'
      BY <1>1, <1>2, <1>5, FilesKnown DEF NewFiles, NextFile
<1>7. OutputExact' /\ ScanFacts' /\ CleanupFiles'
      BY <1>1, <1>5 DEF OutputExact, ScanFacts, CleanupFiles
<1>. QED BY <1>5, <1>6, <1>7 DEF FileFacts

LEMMA WriteOutputFacts ==
    ASSUME QueueInv, FileFacts, WriteOutput, CountNewFile(OutputSegment(plan.done).size)
    PROVE  FileFacts'
<1>. DEFINE g == plan.first + plan.done
            s == OutputSegment(plan.done)
<1>1. /\ pc = "write" /\ pc' \in {"write", "publish"} /\ segs' = WithSegment(segs, g, s)
      /\ sealed' = [h \in DOMAIN sealed \cup {g} |-> IF h = g THEN s.size ELSE sealed[h]]
      /\ plan' = [plan EXCEPT !.done = @ + 1]
      /\ UNCHANGED <<manifest, ranges, tail, tailBytes, nextGen>>
      BY DEF WriteOutput, RamButSealed
<1>2. TypeOK /\ nextGen \in Gen /\ nextGen \in Nat
      BY FilesKnown
<1>3. /\ plan.first = nextGen /\ plan.done \in Nat /\ plan.done < plan.outs
      /\ plan.outs = OutputSegs(Cardinality(RecordsIn(plan.lo, plan.hi)))
      /\ plan'.done = plan.done + 1
      BY <1>1, <1>2 DEF QueueInv, CompactInv, WritingFacts, TypeOK
<1>4. s \in Segment /\ Exact(s)
  <2>1. /\ s \in Segment /\ s.size = HeaderBytes + Len(s.events) * EnqueueBytes
        /\ \A j \in DOMAIN s.events : s.events[j].type = "enq"
        BY <1>2, <1>3, OutputIsSegment
  <2>. HIDE DEF s
  <2>2. s.events \in Seq(Event)
        BY <2>1 DEF Segment
  <2>3. EventBytes(s.events, Len(s.events)) = Len(s.events) * EnqueueBytes
        BY <2>1, <2>2, EnqueuesTakeBytes
  <2>. QED BY <2>1, <2>3 DEF Exact, Filled
<1>5. g = nextGen + plan.done /\ g \in Gen /\ g \in Nat /\ g >= nextGen
      BY <1>2, <1>3 DEF Gen
<1>6. \A h \in DOMAIN segs : h < g
      BY <1>1, <1>5 DEF FileFacts, NewFiles, NextFile
<1>7. CountNewFile(s.size) /\ Mounted'
      BY <1>1 DEF Mounted
<1>. HIDE DEF g, s
<1>8. /\ DOMAIN segs' = DOMAIN segs \cup {g} /\ segs'[g] = s /\ g \notin DOMAIN segs
      /\ \A h \in DOMAIN segs : segs'[h] = segs[h]
      /\ TornFacts' /\ SealedExact' /\ TailHolds' /\ TailExact' /\ Counted' /\ SealedFacts'
  <2>1. pc # "create" /\ pc \in {"create", "write"}
        BY <1>1
  <2>. QED BY <1>1, <1>4, <1>5, <1>6, <1>7, <2>1, NewFileFacts
<1>9. NewFiles'
  <2>1. \A h \in DOMAIN segs' : h \in Nat /\ h < nextGen + (plan.done + 1)
        BY <1>2, <1>3, <1>5, <1>6, <1>8, FilesKnown
  <2>. QED BY <1>1, <1>3, <2>1 DEF NewFiles, NextFile
<1>10. OutputExact'
  <2>1. \A h \in nextGen .. nextGen + (plan.done + 1) - 1 : h = g \/ h \in nextGen .. nextGen + plan.done - 1
        BY <1>2, <1>3, <1>5
  <2>2. \A h \in nextGen .. nextGen + plan.done - 1 : Exact(segs[h]) /\ h \in DOMAIN segs
        BY <1>1, <1>3 DEF FileFacts, OutputExact, QueueInv, CompactInv, WritingFacts, SegmentReadable
  <2>3. \A h \in nextGen .. nextGen + (plan.done + 1) - 1 : Exact(segs'[h])
        BY <1>4, <1>8, <2>1, <2>2
  <2>. QED BY <1>1, <1>3, <2>3 DEF OutputExact
<1>11. ScanFacts' /\ CleanupFiles'
       BY <1>1 DEF ScanFacts, CleanupFiles
<1>. QED BY <1>8, <1>9, <1>10, <1>11 DEF FileFacts

\* Writing a slot counts the difference to what it held.
LEMMA ManifestCounted ==
    ASSUME QueueInv, FileFacts, Mounted, CountManifest, UNCHANGED segs, manifest' \in Manifest
    PROVE  /\ Counted' /\ total' = total + SlotSize(manifest'.ranges) - slots[Inactive]
           /\ KnownInactiveBytes <= slots[Inactive]
<1>. DEFINE size == SlotSize(manifest'.ranges)
            k == Inactive
<1>1. /\ slots' = [slots EXCEPT ![k] = size]
      /\ total' = total + size - slots[k]
      /\ slotBytes' = [slotBytes EXCEPT ![k] = size]
      BY DEF CountManifest
<1>2. size \in Nat
      BY SlotSizeType DEF Manifest
<1>3. /\ total = SegmentBytes(segs) + slots[1] + slots[2] /\ slotBytes = slots
      /\ slots \in SizePair /\ slots[1] \in Nat /\ slots[2] \in Nat
      /\ k \in {1, 2} /\ SegmentBytes(segs) \in Nat
      BY FilesKnown, SegmentBytesType, SlotChosen DEF QueueInv, LoopFacts, FileFacts, Counted, DiskBytes
<1>4. KnownInactiveBytes <= slots[k]
  <2>1. written \in 0 .. 2 /\ force \in 0 .. 2
        BY DEF QueueInv, LoopFacts
  <2>2. CASE written # 0
    <3>1. KnownInactiveBytes = slots[3 - written] /\ k = 3 - written
          BY <1>3, <2>2 DEF KnownInactiveBytes, Inactive
    <3>. QED BY <1>3, <3>1
  <2>3. CASE written = 0
        BY <1>3, <2>3 DEF KnownInactiveBytes
  <2>. QED BY <2>2, <2>3
<1>. HIDE DEF size, k
<1>5. slots'[1] + slots'[2] = slots[1] + slots[2] + size - slots[k]
      BY <1>1, <1>2, <1>3, SlotWritten
<1>6. slots'[1] \in Nat /\ slots'[2] \in Nat /\ slots[k] \in Nat
      BY <1>1, <1>2, <1>3 DEF SizePair
<1>7. total' = SegmentBytes(segs) + slots'[1] + slots'[2]
      BY <1>1, <1>2, <1>3, <1>5, <1>6
<1>8. Counted'
      BY <1>1, <1>3, <1>7 DEF Counted, DiskBytes
<1>. QED BY <1>1, <1>4, <1>8 DEF size, k

LEMMA PublishTailFacts ==
    ASSUME QueueInv, CompactInv', FileFacts, PublishTail, CountManifest
    PROVE  FileFacts'
<1>1. /\ pc = "publishTail" /\ pc' \in {"append", "resolve"} /\ UNCHANGED <<segs, sealed, plan>>
      /\ manifest' = [ranges |-> SealedRanges, tail |-> nextGen, next |-> nextGen + 1]
      /\ nextGen' = nextGen + 1 /\ tail' = nextGen /\ tailBytes' = HeaderBytes
      BY DEF PublishTail, Publish
<1>2. TypeOK /\ TypeOK' /\ nextGen \in Gen /\ nextGen \in Nat /\ Mounted /\ Mounted' /\ Scanned
      BY <1>1, FilesKnown DEF CompactInv, SafeInv, TypeInv, Mounted, Scanned
<1>3. manifest' \in Manifest /\ HasManifest'
  <2>1. manifest' \in Manifest
        BY <1>1, <1>2, SealedRangesType DEF Manifest, Gen
  <2>. QED BY <2>1, ManifestIsOne DEF HasManifest
<1>4. segs[nextGen] = EmptySegment /\ EmptySegment.size = HeaderBytes /\ Filled(EmptySegment) = HeaderBytes
  <2>1. segs[nextGen] = EmptySegment
        BY <1>1 DEF FileFacts, OutputExact
  <2>2. <<>> \in Seq(Event) /\ 0 \in 0 .. Len(<<>>) /\ Len(<<>>) = 0
        OBVIOUS
  <2>3. EventBytes(<<>>, 0) = 0
        BY <2>2, EventBytesGrow
  <2>. QED BY <2>1, <2>2, <2>3, StoreConstants DEF EmptySegment, Filled
<1>5. SealedExact'
  <2>. SUFFICES ASSUME NEW g \in GensOf(SealedRanges) PROVE Exact(segs[g])
       BY <1>1 DEF SealedExact
  <2>1. CASE g \in GensOf(ranges)
    <3>1. HasManifest /\ ranges = manifest.ranges
      <4>1. ranges # <<>>
            BY <2>1 DEF GensOf
      <4>. QED BY <1>2, <4>1, Known DEF QueueInv
    <3>. QED BY <2>1, <3>1 DEF FileFacts, SealedExact
  <2>2. CASE tail # 0 /\ g = tail
    <3>1. HasManifest
          BY <1>2, <2>2, FilesKnown
    <3>. QED BY <1>1, <1>2, <2>2, <3>1 DEF FileFacts, TailExact, Exact
  <2>. QED BY <1>2, <2>1, <2>2, SealedGens
<1>6. TailHolds' /\ TailExact'
      BY <1>1, <1>4, StoreConstants DEF TailHolds, TailExact
<1>7. NewFiles' /\ TornFacts'
      BY <1>1, <1>2, <1>3 DEF FileFacts, NewFiles, NextFile, TornFacts, HasManifest
<1>8. OutputExact' /\ ScanFacts' /\ CleanupFiles'
      BY <1>1 DEF OutputExact, ScanFacts, CleanupFiles
<1>9. SealedFacts'
      BY <1>1, <1>2 DEF FileFacts, SealedFacts
<1>10. Counted'
       BY <1>1, <1>2, <1>3, ManifestCounted
<1>. QED BY <1>5, <1>6, <1>7, <1>8, <1>9, <1>10 DEF FileFacts

LEMMA PublishCompactionFacts ==
    ASSUME QueueInv, CompactInv', FileFacts, PublishCompaction, CountManifest
    PROVE  FileFacts'
<1>. USE PublishedRanges DEF QueueInv
<1>1. /\ pc = "publish" /\ pc' = "cleanup" /\ UNCHANGED <<segs, sealed, tail, tailBytes>>
      /\ manifest' = [ranges |-> Spliced, tail |-> tail, next |-> nextGen + plan.outs]
      /\ nextGen' = nextGen + plan.outs /\ HasManifest /\ tail = manifest.tail
      /\ plan.done = plan.outs /\ plan' = [plan EXCEPT !.done = 0]
      OBVIOUS
<1>2. TypeOK /\ nextGen \in Gen /\ nextGen \in Nat /\ Mounted /\ Mounted' /\ Scanned
      BY <1>1, FilesKnown DEF Mounted, Scanned
<1>3. manifest' \in Manifest /\ HasManifest'
  <2>1. TypeOK'
        BY DEF CompactInv, SafeInv, TypeInv
  <2>2. manifest'.tail = tail /\ tail # 0
        BY <1>1 DEF Gen
  <2>3. manifest' # NoManifest /\ manifest' # TornManifest
    <3>1. Ranges(Spliced) /\ tail \in Gen /\ nextGen + plan.outs \in Gen
          BY <1>2 DEF Gen
    <3>2. manifest' \in Manifest
          BY <1>1, <3>1 DEF Manifest, Ranges
    <3>. QED BY <3>2, ManifestIsOne
  <2>. QED BY <2>1, <2>3 DEF TypeOK, HasManifest
<1>4. SealedExact'
  <2>. SUFFICES ASSUME NEW g \in GensOf(Spliced) PROVE Exact(segs[g])
       BY <1>1 DEF SealedExact
  <2>1. g \in GensOf(ranges) \/ g \in nextGen .. nextGen + plan.outs - 1
        OBVIOUS
  <2>2. CASE g \in GensOf(ranges)
    <3>1. ranges = manifest.ranges
          BY <1>1, <1>2, FilesKnown
    <3>. QED BY <1>1, <2>2, <3>1 DEF FileFacts, SealedExact
  <2>3. CASE g \in nextGen .. nextGen + plan.outs - 1
        BY <1>1, <2>3 DEF FileFacts, OutputExact
  <2>. QED BY <2>1, <2>2, <2>3
<1>5. TailHolds' /\ TailExact'
      BY <1>1, <1>2 DEF FileFacts, TailHolds, TailExact
<1>6. NewFiles' /\ TornFacts'
      BY <1>1, <1>3 DEF FileFacts, NewFiles, NextFile, HasManifest, TornFacts
<1>7. OutputExact' /\ ScanFacts'
      BY <1>1 DEF OutputExact, ScanFacts
<1>8. CleanupFiles'
  <2>1. plan \in [lo : Nat, hi : Nat, first : Nat, outs : Nat, done : Nat]
        BY <1>2 DEF TypeOK
  <2>2. plan'.lo = plan.lo /\ plan'.hi = plan.hi /\ plan'.done = 0 /\ plan.lo \in Nat
        BY <1>1, <2>1
  <2>3. \A g \in plan.lo .. plan.hi : g \in LiveGens(manifest)
        OBVIOUS
  <2>4. \A g \in plan.lo .. plan.hi : g \in DOMAIN segs
        BY <1>1, <2>3, FilesKnown
  <2>. QED BY <1>1, <2>2, <2>4 DEF CleanupFiles
<1>9. SealedFacts'
      BY <1>1, <1>2 DEF FileFacts, SealedFacts
<1>10. Counted'
       BY <1>1, <1>2, <1>3, ManifestCounted
<1>. QED BY <1>4, <1>5, <1>6, <1>7, <1>8, <1>9, <1>10 DEF FileFacts

\* The event goes to the end of the tail, which ends where the counter says.
LEMMA AppendFacts ==
    ASSUME QueueInv, FileFacts, AppendEvent, CountEvent
    PROVE  FileFacts'
<1>. DEFINE e == CallEvent
            s == segs[tail]
            t == Appended(s, e)
<1>1. /\ pc = "append" /\ pc' = "idle" /\ segs' = [segs EXCEPT ![tail] = t]
      /\ tailBytes' = tailBytes + BytesOf(e) /\ call.op \in {"enqueue", "pop", "rewrite"}
      /\ UNCHANGED <<manifest, ranges, tail, nextGen, sealed, plan>>
      BY DEF AppendEvent
<1>2. TypeOK /\ Mounted /\ Mounted' /\ Scanned /\ Scanned'
      BY <1>1, FilesKnown DEF Mounted, Scanned
<1>3. HasManifest /\ tail = manifest.tail /\ tail \in DOMAIN segs /\ s \in Segment
      /\ s.events \in Seq(Event) /\ s.size \in Nat
      BY <1>1, <1>2, FilesKnown DEF QueueInv, CompactInv, SafeInv, TypeInv, TailFacts
<1>4. e \in Event /\ BytesOf(e) \in Nat
  <2>1. call \in [op : {"none", "enqueue", "pop", "rewrite"}, seq : Nat, val : 0 .. MaxValues]
        BY <1>2 DEF TypeOK
  <2>2. call.op # "pop" => call.val \in Val
        BY <1>1, <2>1, StoreConstants DEF QueueInv, CompactInv, SafeInv, TypeInv, CallFacts, Val
  <2>. QED BY <1>1, <2>1, <2>2, EventTakesBytes DEF CallEvent, Event
<1>. HIDE DEF e
<1>5. tailBytes = Filled(s) /\ s.size = tailBytes /\ tailBytes \in Nat
      BY <1>1, <1>2, <1>3 DEF FileFacts, TailExact
<1>6. t.events = Append(s.events, e) /\ t.size = s.size + BytesOf(e) /\ t \in Segment /\ t.size \in Nat
  <2>1. SetMax(s.size, tailBytes + BytesOf(e)) = s.size + BytesOf(e)
        BY <1>3, <1>4, <1>5 DEF SetMax
  <2>2. t.events = Append(s.events, e) /\ t.size = s.size + BytesOf(e)
        BY <1>3, <2>1 DEF Appended, Segment
  <2>3. Append(s.events, e) \in Seq(Event) /\ s.size + BytesOf(e) \in Nat
        BY <1>3, <1>4
  <2>. QED BY <1>3, <2>1, <2>2, <2>3 DEF Appended, Segment
<1>7. Filled(t) = Filled(s) + BytesOf(e)
  <2>1. Len(Append(s.events, e)) = Len(s.events) + 1 /\ Len(s.events) \in 0 .. Len(s.events)
        BY <1>3
  <2>2. EventBytes(Append(s.events, e), Len(s.events) + 1) = EventBytes(s.events, Len(s.events)) + BytesOf(e)
        BY <1>3, <1>4, AppendedBytes
  <2>3. EventBytes(s.events, Len(s.events)) \in Nat
        BY <1>3, <2>1, EventBytesGrow
  <2>. QED BY <1>4, <1>6, <2>1, <2>2, <2>3, StoreConstants DEF Filled
<1>8. /\ DOMAIN segs' = DOMAIN segs /\ segs'[tail] = t
      /\ \A g \in DOMAIN segs : g # tail => segs'[g] = segs[g]
      BY <1>1, <1>3
<1>. HIDE DEF s, t
<1>9. SealedExact'
  <2>1. \A g \in GensOf(manifest.ranges) : g \in DOMAIN segs /\ g # tail
        BY <1>3, FilesKnown
  <2>. QED BY <1>1, <1>3, <1>8, <2>1 DEF FileFacts, SealedExact
<1>10. TailHolds' /\ TailExact'
       BY <1>1, <1>3, <1>4, <1>5, <1>6, <1>7, <1>8 DEF TailHolds, TailExact, HasManifest
<1>11. NewFiles' /\ TornFacts' /\ OutputExact' /\ ScanFacts' /\ CleanupFiles'
       BY <1>1, <1>2, <1>8
       DEF FileFacts, NewFiles, NextFile, TornFacts, Mounted, OutputExact, ScanFacts, CleanupFiles
<1>12. SealedFacts'
       BY <1>1, <1>2, <1>8 DEF FileFacts, SealedFacts
<1>13. Counted'
  <2>1. segs' = WithSegment(segs, tail, t)
    <3>1. DOMAIN segs \cup {tail} = DOMAIN segs
          BY <1>3
    <3>. QED BY <1>1, <3>1, Zenon DEF WithSegment
  <2>2. SegmentBytes(segs') = SegmentBytes(segs) + t.size - s.size
    <3>1. tail \in Gen /\ SegmentFiles(segs)
          BY <1>3, FilesKnown DEF SegmentFiles
    <3>. QED BY <1>3, <1>6, <2>1, <3>1, FileWritten DEF s
  <2>3. SegmentBytes(segs) \in Nat /\ slots[1] \in Nat /\ slots[2] \in Nat
        BY FilesKnown, SegmentBytesType, SlotChosen DEF QueueInv
  <2>4. total = SegmentBytes(segs) + slots[1] + slots[2] /\ slotBytes = slots
        BY <1>2 DEF FileFacts, Counted, DiskBytes
  <2>5. total' = total + BytesOf(e) /\ slots' = slots /\ slotBytes' = slotBytes
        BY DEF CountEvent, e
  <2>6. s.size \in Nat
        BY <1>3
  <2>7. total' = SegmentBytes(segs') + slots[1] + slots[2]
    <3>1. SegmentBytes(segs') = SegmentBytes(segs) + BytesOf(e)
          BY <1>4, <1>6, <2>2, <2>3, <2>6
    <3>. QED BY <1>4, <2>3, <2>4, <2>5, <3>1
  <2>. QED BY <2>4, <2>5, <2>7 DEF Counted, DiskBytes
<1>. QED BY <1>9, <1>10, <1>11, <1>12, <1>13 DEF FileFacts

\* An input file is gone and no longer counted, or it is still there and still counted.
LEMMA RemoveFacts ==
    ASSUME QueueInv, FileFacts, CleanupInput, CountRemoved
    PROVE  FileFacts'
<1>. DEFINE g == plan.lo + plan.done
<1>1. /\ pc = "cleanup" /\ pc' \in {"cleanup", "idle", "admit"}
      /\ UNCHANGED <<manifest, ranges, tail, tailBytes, nextGen>>
      BY DEF CleanupInput
<1>2. /\ plan \in [lo : Nat, hi : Nat, first : Nat, outs : Nat, done : Nat]
      /\ Mounted /\ Mounted' /\ Scanned /\ Scanned'
      BY <1>1, FilesKnown DEF TypeOK, Mounted, Scanned
<1>3. HasManifest /\ g <= plan.hi /\ (plan.lo .. plan.hi) \cap LiveGens(manifest) = {}
      BY <1>1 DEF QueueInv, CompactInv, CleanupFacts
<1>4. g \in Nat /\ g \in plan.lo .. plan.hi /\ g \in g .. plan.hi
      BY <1>2, <1>3
<1>5. g \in DOMAIN segs /\ g # tail /\ g \notin LiveGens(manifest) /\ tail = manifest.tail
      BY <1>1, <1>2, <1>3, <1>4, FilesKnown DEF FileFacts, CleanupFiles
<1>6. g \in DOMAIN sealed /\ sealed[g] = segs[g].size /\ segs[g].size \in Nat
      BY <1>2, <1>5, FilesKnown DEF FileFacts, SealedFacts
<1>. HIDE DEF g
<1>7. \/ /\ segs' = Without(segs, g) /\ sealed' = [h \in DOMAIN sealed \ {g} |-> sealed[h]]
         /\ total' = total - segs[g].size
      \/ UNCHANGED <<segs, sealed, total>>
  <2>1. \/ segs' = Without(segs, g) /\ sealed' = [h \in DOMAIN sealed \ {g} |-> sealed[h]]
        \/ UNCHANGED <<segs, sealed>>
        BY DEF CleanupInput, g
  <2>2. total' = IF g \in DOMAIN segs' THEN total ELSE total - sealed[g]
        BY <1>6 DEF CountRemoved, TotalBytes, g
  <2>3. segs' = Without(segs, g) => g \notin DOMAIN segs'
        BY DEF Without
  <2>. QED BY <1>5, <1>6, <2>1, <2>2, <2>3
<1>8. /\ DOMAIN segs' = DOMAIN segs \/ DOMAIN segs' = DOMAIN segs \ {g}
      /\ \A h \in DOMAIN segs' : segs'[h] = segs[h]
      /\ \A h \in DOMAIN segs : h # g => h \in DOMAIN segs'
      BY <1>7 DEF Without
<1>9. NewFiles' /\ TornFacts' /\ OutputExact' /\ ScanFacts'
      BY <1>1, <1>2, <1>8
      DEF FileFacts, NewFiles, NextFile, TornFacts, Mounted, OutputExact, ScanFacts
<1>10. SealedExact' /\ TailHolds' /\ TailExact'
  <2>1. \A h \in LiveGens(manifest) : h \in DOMAIN segs' /\ segs'[h] = segs[h]
        BY <1>3, <1>5, <1>8, FilesKnown
  <2>. QED BY <1>1, <1>2, <1>3, <1>5, <2>1, FilesKnown
           DEF FileFacts, SealedExact, TailHolds, TailExact, HasManifest, LiveGens
<1>11. SealedFacts'
  <2>1. \A h \in DOMAIN segs' : h # tail => h \in DOMAIN sealed /\ sealed[h] = segs'[h].size
        BY <1>1, <1>2, <1>8 DEF FileFacts, SealedFacts
  <2>2. \A h \in DOMAIN segs' : h \in DOMAIN sealed => h \in DOMAIN sealed' /\ sealed'[h] = sealed[h]
        BY <1>7 DEF Without
  <2>. QED BY <1>1, <2>1, <2>2 DEF SealedFacts
<1>12. CleanupFiles'
  <2>1. CASE pc' = "cleanup"
    <3>1. plan' = [plan EXCEPT !.done = @ + 1]
          BY <2>1 DEF CleanupInput, Idle
    <3>2. plan'.lo + plan'.done = g + 1 /\ plan'.hi = plan.hi
          BY <1>2, <3>1 DEF g
    <3>3. \A h \in g + 1 .. plan.hi : h \in DOMAIN segs /\ h # g
          BY <1>1, <1>2, <1>4 DEF FileFacts, CleanupFiles, g
    <3>. QED BY <1>8, <3>2, <3>3 DEF CleanupFiles
  <2>. QED BY <2>1 DEF CleanupFiles
<1>13. Counted'
  <2>1. SegmentBytes(segs) \in Nat /\ slots[1] \in Nat /\ slots[2] \in Nat
        BY FilesKnown, SegmentBytesType, SlotChosen DEF QueueInv
  <2>2. total = SegmentBytes(segs) + slots[1] + slots[2] /\ slotBytes = slots
        BY <1>2 DEF FileFacts, Counted, DiskBytes
  <2>3. slots' = slots /\ slotBytes' = slotBytes
        BY DEF CountRemoved
  <2>4. total' = SegmentBytes(segs') + slots[1] + slots[2]
    <3>1. CASE UNCHANGED <<segs, sealed, total>>
          BY <2>2, <3>1
    <3>2. CASE segs' = Without(segs, g) /\ total' = total - segs[g].size
      <4>1. SegmentBytes(segs') = SegmentBytes(segs) - segs[g].size
            BY <1>5, <3>2, FilesKnown, FileRemoved
      <4>. QED BY <1>6, <2>1, <2>2, <3>2, <4>1
    <3>. QED BY <1>7, <3>1, <3>2
  <2>. QED BY <2>2, <2>3, <2>4 DEF Counted, DiskBytes
<1>. QED BY <1>9, <1>10, <1>11, <1>12, <1>13 DEF FileFacts

\* Power fails: what the manifest names is as it was, but for torn bytes after the
\* tail's last event.
LEMMA PowerLossFacts ==
    ASSUME QueueInv, FileFacts, PowerLoss
    PROVE  FileFacts'
<1>1. pc # "down" /\ pc' = "down" /\ (Unwritten \/ PartialWrite)
      BY DEF PowerLoss
<1>2. ~Mounted' /\ ~Scanned'
      BY <1>1 DEF Mounted, Scanned
<1>3. NewFiles' /\ TailExact' /\ OutputExact' /\ ScanFacts' /\ SealedFacts' /\ CleanupFiles' /\ Counted'
      BY <1>1, <1>2 DEF NewFiles, TailExact, OutputExact, ScanFacts, SealedFacts, CleanupFiles, Counted
<1>4. HasManifest' => HasManifest /\ UNCHANGED manifest
      BY <1>1, PartialWriteIsHarmless DEF QueueInv, CompactInv
<1>5. ASSUME HasManifest', NEW g \in LiveGens(manifest)
      PROVE  /\ segs'[g].events = segs[g].events /\ segs'[g].size >= segs[g].size
             /\ g # manifest.tail => segs'[g] = segs[g]
  <2>1. HasManifest /\ g \in DOMAIN segs /\ segs[g] \in Segment /\ segs[g].size \in Nat /\ segs[g].size >= segs[g].size
        BY <1>4, <1>5, FilesKnown
  <2>2. CASE UNCHANGED segs
        BY <2>1, <2>2
  <2>3. CASE \/ pc = "create" /\ segs' = WithSegment(segs, nextGen, TornSegment)
             \/ pc = "write" /\ segs' = WithSegment(segs, plan.first + plan.done, TornSegment)
    <3>1. g < nextGen /\ g \in Nat /\ nextGen \in Nat
      <4>1. Scanned
            BY <2>3 DEF Scanned, Mounted
      <4>. QED BY <2>1, <4>1, FilesKnown DEF QueueInv, CompactInv, SafeInv, FreshFacts
    <3>2. pc = "write" => plan.first = nextGen /\ plan.done \in Nat
          BY FilesKnown DEF QueueInv, CompactInv, WritingFacts, TypeOK
    <3>3. segs'[g] = segs[g]
          BY <2>1, <2>3, <3>1, <3>2 DEF WithSegment
    <3>. QED BY <2>1, <3>3
  <2>4. CASE pc = "append" /\ \E n \in {1, BytesOf(CallEvent) - 1} :
                                  segs' = [segs EXCEPT ![tail].size = SetMax(@, tailBytes + n)]
    <3>1. PICK n \in {1, BytesOf(CallEvent) - 1} :
              segs' = [segs EXCEPT ![tail] = [segs[tail] EXCEPT !.size = SetMax(segs[tail].size, tailBytes + n)]]
          BY <2>4
    <3>2. tail = manifest.tail /\ tail \in DOMAIN segs /\ tailBytes \in Nat /\ Scanned
          BY <2>1, <2>4, FilesKnown DEF Scanned, Mounted, TypeOK
    <3>3. n \in Nat
          BY EventTakesBytes
    <3>4. CASE g # tail
          BY <2>1, <3>1, <3>4
    <3>5. CASE g = tail
      <4>1. segs'[g] = [segs[g] EXCEPT !.size = SetMax(segs[g].size, tailBytes + n)]
            BY <2>1, <3>1, <3>5
      <4>2. segs'[g].events = segs[g].events /\ segs'[g].size = SetMax(segs[g].size, tailBytes + n)
            BY <2>1, <4>1 DEF Segment
      <4>3. SetMax(segs[g].size, tailBytes + n) >= segs[g].size
            BY <2>1, <3>2, <3>3 DEF SetMax
      <4>. QED BY <3>2, <3>5, <4>2, <4>3
    <3>. QED BY <3>2, <3>4, <3>5
  <2>. QED BY <1>1, <2>2, <2>3, <2>4 DEF Unwritten, PartialWrite, disk
<1>6. SealedExact'
  <2>. SUFFICES ASSUME HasManifest', NEW g \in GensOf(manifest.ranges) PROVE Exact(segs'[g])
       BY <1>4 DEF SealedExact
  <2>1. HasManifest /\ g \in LiveGens(manifest) /\ g # manifest.tail
        BY <1>4, FilesKnown
  <2>. QED BY <1>5, <2>1 DEF FileFacts, SealedExact
<1>7. TailHolds'
  <2>. SUFFICES ASSUME HasManifest' PROVE segs'[manifest.tail].size >= Filled(segs'[manifest.tail])
       BY <1>4 DEF TailHolds
  <2>. DEFINE g == manifest.tail
  <2>1. HasManifest /\ g \in LiveGens(manifest) /\ g \in DOMAIN segs
        BY <1>4, FilesKnown
  <2>2. segs'[g].events = segs[g].events /\ segs'[g].size >= segs[g].size
        BY <1>5, <2>1
  <2>3. segs[g].size >= Filled(segs[g]) /\ Filled(segs'[g]) = Filled(segs[g])
        BY <2>1, <2>2 DEF FileFacts, TailHolds, Filled
  <2>4. segs[g].size \in Nat /\ Filled(segs[g]) \in Nat
    <3>1. segs[g].events \in Seq(Event) /\ segs[g].size \in Nat
          BY <2>1, FilesKnown
    <3>2. Len(segs[g].events) \in 0 .. Len(segs[g].events)
          BY <3>1
    <3>. QED BY <3>1, <3>2, EventBytesGrow, StoreConstants DEF Filled
  <2>5. segs'[g].size \in Nat
    <3>1. SegmentFiles(segs')
          BY <1>1, PartialWriteType DEF QueueInv, CompactInv, SafeInv
    <3>2. g \in DOMAIN segs'
          BY <1>1, <1>4, <2>1, PartialWriteIsHarmless DEF QueueInv, CompactInv, ManifestBacked, SegmentReadable, LiveGens, HasManifest
    <3>. QED BY <3>1, <3>2 DEF SegmentFiles, Segment
  <2>. HIDE DEF g
  <2>6. segs'[g].size >= Filled(segs'[g])
        BY <2>2, <2>3, <2>4, <2>5
  <2>. QED BY <2>6 DEF g
<1>8. TornFacts'
  <2>. SUFFICES ASSUME manifest' = TornManifest PROVE DOMAIN segs' # {}
       BY <1>1 DEF TornFacts
  <2>1. CASE manifest = TornManifest
    <3>1. pc = "failed" /\ DOMAIN segs # {}
          BY <1>1, <2>1 DEF FileFacts, TornFacts
    <3>2. UNCHANGED segs
          BY <1>1, <3>1 DEF Unwritten, PartialWrite, disk
    <3>. QED BY <3>1, <3>2
  <2>2. CASE manifest # TornManifest
    <3>1. pc \in {"publishTail", "publish"} /\ ~HasManifest /\ UNCHANGED segs
          BY <1>1, <2>2 DEF Unwritten, PartialWrite, disk
    <3>2. pc # "publish"
      <4>1. pc = "publish" => InRange(plan, ranges)
            BY DEF QueueInv, CompactInv, PlanFacts, CompactPhases
      <4>2. InRange(plan, ranges) => ranges # <<>>
            BY DEF InRange
      <4>. QED BY <3>1, <4>1, <4>2, Known DEF QueueInv, Mounted
    <3>3. nextGen \in DOMAIN segs
          BY <3>1, <3>2 DEF QueueInv, CompactInv, SafeInv, NewTailReadable, SegmentReadable
    <3>. QED BY <3>1, <3>3
  <2>. QED BY <2>1, <2>2
<1>. QED BY <1>3, <1>6, <1>7, <1>8 DEF FileFacts

-----------------------------------------------------------------------------
(* What was admitted keeps fitting while it is written.                      *)

\* The range list of the next manifest has at most one range more.
LEMMA SealedRangesLength ==
    ASSUME TypeOK
    PROVE  /\ Len(SealedRanges) \in Nat /\ Len(ranges) \in Nat
           /\ Len(SealedRanges) <= Len(ranges) + 1
           /\ tail = 0 => Len(SealedRanges) = Len(ranges)
<1>1. ranges \in Seq(ManifestRange) /\ SealedRanges \in Seq(ManifestRange)
      BY SealedRangesType DEF TypeOK
<1>2. Len(SealedRanges) \in Nat /\ Len(ranges) \in Nat
      BY <1>1
<1>3. Len(SealedRanges) <= Len(ranges) + 1
  <2>1. CASE SealedRanges = ranges
        BY <1>2, <2>1
  <2>2. CASE SealedRanges = [ranges EXCEPT ![Len(ranges)].hi = tail]
        BY <1>1, <1>2, <2>2
  <2>3. CASE SealedRanges = Append(ranges, [lo |-> tail, hi |-> tail])
        BY <1>1, <1>2, <2>3
  <2>. QED BY <2>1, <2>2, <2>3 DEF SealedRanges
<1>. QED BY <1>2, <1>3, SealedRangesType

\* The manifest that the estimate counts is at least the one that is written.
LEMMA SlotGrowthCovers ==
    ASSUME QueueInv, tailBytes = 0 \/ TailIsFull, Mounted,
           KnownInactiveBytes <= slots[Inactive]
    PROVE  SlotSize(SealedRanges) - slots[Inactive] <= SlotGrowth
<1>. DEFINE n == Len(SealedRanges)
            m == Len(ranges) + Count(TailIsFull)
            k == KnownInactiveBytes
            s == slots[Inactive]
<1>1. n \in Nat /\ m \in Nat /\ n <= m
  <2>1. /\ n \in Nat /\ Len(ranges) \in Nat /\ n <= Len(ranges) + 1
        /\ tail = 0 => n = Len(ranges)
        BY FilesKnown, SealedRangesLength
  <2>. HIDE DEF n
  <2>2. CASE TailIsFull
    <3>1. Count(TailIsFull) = 1
          BY <2>2 DEF Count
    <3>. QED BY <2>1, <3>1
  <2>3. CASE ~TailIsFull
    <3>1. Count(TailIsFull) = 0
          BY <2>3 DEF Count
    <3>2. tail = 0
      <4>1. tailBytes = 0 /\ Scanned
            BY <2>3 DEF Scanned
      <4>. QED BY <4>1, FilesKnown, StoreConstants
    <3>. QED BY <2>1, <3>1, <3>2
  <2>. QED BY <2>2, <2>3
<1>2. k \in Nat /\ s \in Nat /\ k <= s
      BY GrowthIs, SlotChosen DEF QueueInv
<1>3. SlotGrowth = SetMax((ManifestFixed + RangeEntry * m) - k, 0)
      BY Zenon DEF SlotGrowth
<1>4. SlotSize(SealedRanges) = ManifestFixed + RangeEntry * n
      BY DEF SlotSize
<1>. HIDE DEF n, m, k, s
<1>5. RangeEntry * n \in Nat /\ RangeEntry * m \in Nat /\ RangeEntry * n <= RangeEntry * m
  <2>. DEFINE d == m - n
  <2>1. d \in Nat /\ m = n + d
        BY <1>1
  <2>. HIDE DEF d
  <2>2. RangeEntry * m = RangeEntry * n + RangeEntry * d
        BY <1>1, <2>1, QueueConstants
  <2>3. RangeEntry * n \in Nat /\ RangeEntry * d \in Nat
        BY <1>1, <2>1, QueueConstants
  <2>. QED BY <2>2, <2>3
<1>6. SetMax((ManifestFixed + RangeEntry * m) - k, 0) >= (ManifestFixed + RangeEntry * n) - s
      BY <1>2, <1>5, QueueConstants DEF SetMax
<1>7. SetMax((ManifestFixed + RangeEntry * m) - k, 0) \in Int
      BY <1>2, <1>5, QueueConstants DEF SetMax
<1>. QED BY <1>2, <1>3, <1>4, <1>5, <1>6, <1>7, QueueConstants DEF s

LEMMA CreateBudget ==
    ASSUME QueueInv, Budget, CreateTail, CountNewFile(HeaderBytes)
    PROVE  Budget'
<1>1. /\ pc = "create" /\ pc' = "publishTail"
      /\ UNCHANGED <<ranges, tail, tailBytes, call, plan, slots, slotBytes, written>>
      /\ total' = total + HeaderBytes
      BY DEF CreateTail, CountNewFile
<1>2. UNCHANGED <<EventGrowth, SlotGrowth>> /\ (TailIsFull' <=> TailIsFull)
      BY <1>1 DEF EventGrowth, SlotGrowth, TailIsFull, CallEvent, KnownInactiveBytes
<1>. QED BY <1>1, <1>2, GrowthIs, StoreConstants DEF Budget

LEMMA PublishBudget ==
    ASSUME QueueInv, CompactInv', FileFacts, Budget, PublishTail, CountManifest
    PROVE  Budget'
<1>1. /\ pc = "publishTail" /\ pc' \in {"append", "resolve"} /\ Mounted
      /\ UNCHANGED <<segs, call, plan>>
      /\ manifest' = [ranges |-> SealedRanges, tail |-> nextGen, next |-> nextGen + 1]
      BY DEF PublishTail, Publish, Mounted
<1>2. manifest' \in Manifest
      BY <1>1, FilesKnown, SealedRangesType DEF Manifest, Gen
<1>3. /\ total' = total + SlotSize(SealedRanges) - slots[Inactive]
      /\ KnownInactiveBytes <= slots[Inactive]
      BY <1>1, <1>2, ManifestCounted
<1>4. EventGrowth' = EventGrowth
      BY <1>1 DEF EventGrowth, CallEvent
<1>. SUFFICES ASSUME call.op \in {"enqueue", "rewrite"}, MaxTotalBytes > 0, plan = NoPlan
              PROVE  total' + EventGrowth <= MaxTotalBytes
     BY <1>1, <1>4 DEF Budget
<1>5. tailBytes = 0 \/ TailIsFull
      BY <1>1 DEF Budget
<1>6. total + EventGrowth + SlotGrowth <= MaxTotalBytes
      BY <1>1 DEF Budget
<1>7. SlotSize(SealedRanges) - slots[Inactive] <= SlotGrowth
      BY <1>1, <1>3, <1>5, SlotGrowthCovers
<1>8. SlotSize(SealedRanges) \in Nat /\ slots[Inactive] \in Nat
  <2>1. SealedRanges \in Seq(ManifestRange)
        BY FilesKnown, SealedRangesType
  <2>. QED BY <2>1, SlotSizeType, SlotChosen DEF QueueInv
<1>9. total' = total + (SlotSize(SealedRanges) - slots[Inactive])
      BY <1>3, <1>8, GrowthIs
<1>. QED BY <1>6, <1>7, <1>8, <1>9, GrowthIs

-----------------------------------------------------------------------------
(* The invariant is kept.                                                   *)

LEMMA MountingStep ==
    ASSUME QueueInv, FileFacts, QMounting, ShrinkKeepsPrefix, "truncate" \notin Faults
    PROVE  FileFacts' /\ Budget'
<1>1. FileFacts'
      BY MountBeginFacts, MountDoneFacts, ReplayNeverFails, ReplayEventFacts, ReplayNextFacts,
         ReplayDoneFacts, TruncateFacts DEF QMounting
<1>2. pc' \notin {"place", "create", "publishTail", "append"}
      BY DEF QMounting, MountBegin, MountDone, ReplayUnreadable, FailMount, ReplayEvent, AtSegmentEnd,
             ReplayTornSealed, ReplayNextSegment, ReplayDone, TruncateTail
<1>. QED BY <1>1, <1>2 DEF Budget

LEMMA WorkingStep ==
    ASSUME QueueInv, CompactInv', FileFacts, Budget, QWorking
    PROVE  FileFacts' /\ Budget'
<1>1. CASE (PlaceEvent \/ ResolveAfterRotation) /\ UNCHANGED bytes
  <2>1. QuietSteps
        BY <1>1 DEF QuietSteps, QWorking
  <2>. QED BY <2>1, ControlSteps, ControlFacts, QuietBudget
<1>2. CASE PublishRefused
      BY <1>2 DEF PublishRefused, FileFacts, TornFacts
<1>3. CASE CreateTail /\ CountNewFile(HeaderBytes)
      BY <1>3, CreateFacts, CreateBudget
<1>4. CASE PublishTail /\ CountManifest
      BY <1>4, PublishTailFacts, PublishBudget
<1>5. CASE WriteOutput /\ CountNewFile(OutputSegment(plan.done).size)
      BY <1>5, WriteOutputFacts DEF WriteOutput, Budget
<1>6. CASE PublishCompaction /\ CountManifest
      BY <1>6, PublishCompactionFacts DEF PublishCompaction, Budget
<1>7. CASE AppendEvent /\ CountEvent
      BY <1>7, AppendFacts DEF AppendEvent, Budget
<1>8. CASE CleanupInput /\ CountRemoved
  <2>1. pc' \in {"cleanup", "idle", "admit"}
        BY <1>8 DEF CleanupInput
  <2>. QED BY <1>8, <2>1, RemoveFacts DEF Budget
<1>. QED BY <1>1, <1>2, <1>3, <1>4, <1>5, <1>6, <1>7, <1>8 DEF QWorking

LEMMA ExactStutter ==
    ASSUME FileFacts, Budget, UNCHANGED qvars
    PROVE  FileFacts' /\ Budget'
<1>1. FileFacts'
      BY DEF FileFacts, qvars, vars, disk, ram, bytes, loop, NewFiles, NextFile, TornFacts, SealedExact,
             TailHolds, TailExact, OutputExact, ScanFacts, SealedFacts, CleanupFiles, Counted, DiskBytes,
             HasManifest, Scanned, Mounted
<1>2. Budget'
      BY DEF qvars, vars, disk, ram, bytes, loop, Budget, Growth, EventGrowth, SlotGrowth, TailIsFull,
             CallEvent, KnownInactiveBytes
<1>. QED BY <1>1, <1>2

LEMMA ExactStep ==
    ASSUME ExactInv, [QNext]_qvars, ShrinkKeepsPrefix, "truncate" \notin Faults
    PROVE  ExactInv'
<1>1. QueueInv' /\ CompactInv' /\ QueueInv
      BY QueueStep DEF ExactInv, QueueInv
<1>2. SUFFICES ASSUME ~erred' PROVE FileFacts' /\ Budget'
      BY <1>1 DEF ExactInv
<1>3. CASE UNCHANGED qvars
      BY <1>2, <1>3, ExactStutter DEF ExactInv, qvars, loop
<1>4. CASE QuietSteps
      BY <1>1, <1>2, <1>4, ControlSteps, ControlFacts, QuietBudget DEF ExactInv, Control
<1>5. CASE QMounting
      BY <1>1, <1>2, <1>5, MountingStep DEF ExactInv, QMounting, loop
<1>6. CASE QWorking
      BY <1>1, <1>2, <1>6, WorkingStep DEF ExactInv, QWorking, loop
<1>7. CASE QFailing
  <2>1. PowerLoss /\ ~erred
        BY <1>2, <1>7 DEF QFailing
  <2>2. Budget'
        BY <2>1 DEF PowerLoss, Budget, Idle
  <2>. QED BY <1>1, <2>1, <2>2, PowerLossFacts DEF ExactInv
<1>. QED BY <1>3, <1>4, <1>5, <1>6, <1>7 DEF QNext, QuietSteps

-----------------------------------------------------------------------------
(* What holds of the queue in every behaviour.                              *)

LEMMA QueueInvHolds ==
    ASSUME ShrinkKeepsPrefix
    PROVE  QSpec => []QueueInv
<1>1. QueueInv /\ [QNext]_qvars => QueueInv'
      BY QueueStep
<1>. QED BY QueueInit, <1>1, PTL DEF QSpec

LEMMA ExactInvHolds ==
    ASSUME ShrinkKeepsPrefix, "truncate" \notin Faults
    PROVE  QSpec => []ExactInv
<1>1. ExactInv /\ [QNext]_qvars => ExactInv'
      BY ExactStep
<1>. QED BY ExactInit, <1>1, PTL DEF QSpec

\* The store's variables keep their types under the queue that evicts in between.
THEOREM QueueTypes ==
    ASSUME ShrinkKeepsPrefix
    PROVE  QSpec => []TypeOK
<1>1. QueueInv => TypeOK
      BY DEF QueueInv, CompactInv, SafeInv, TypeInv
<1>. QED BY QueueInvHolds, <1>1, PTL

\* Whatever is enqueued, rewritten, popped, evicted, compacted, lost in a power
\* failure or cut short by a write error, every file that the manifest in force
\* names exists, and every sealed one can be read.
THEOREM QueueBacksManifest ==
    ASSUME ShrinkKeepsPrefix
    PROVE  QSpec => []ManifestBacked
<1>1. QueueInv => ManifestBacked
      BY DEF QueueInv, CompactInv, SafeInv
<1>. QED BY QueueInvHolds, <1>1, PTL

\* The ranges and the tail that a mounted store keeps in RAM are those of the
\* manifest on disk: the slot that the next rotation or compaction builds on.
THEOREM QueueRamMatches ==
    ASSUME ShrinkKeepsPrefix
    PROVE  QSpec => []RamMatchesManifest
<1>1. QueueInv => RamMatchesManifest
      BY DEF QueueInv, CompactInv, SafeInv, TypeInv, RamFacts, FreshFacts, RamMatchesManifest, Scanned
<1>. QED BY QueueInvHolds, <1>1, PTL

\* No step of the queue takes an event from a file that the manifest names, nor
\* reuses or removes such a file: an eviction pops by appending, like every pop.
THEOREM QueueOnlyAppends ==
    ASSUME ShrinkKeepsPrefix
    PROVE  QSpec => LiveSegmentsOnlyGrow
<1>1. QueueInv /\ [QNext]_qvars => QueueInv'
      BY QueueStep
<1>2. QueueInv /\ [QNext]_qvars =>
          [HasManifest => \A g \in LiveGens(manifest) :
              g \in DOMAIN segs' /\ Extends(segs'[g], segs[g])]_vars
      BY QueueStep DEF LiveGrow
<1>. QED BY QueueInit, <1>1, <1>2, PTL DEF QSpec, LiveSegmentsOnlyGrow

\* totalOnDiskBytes_ is what the files take in every mounted state until a write
\* reports an error. A truncation that fails is left out: the mount ignores the
\* status of resizeFile(), activeSegmentBytes_ is then less than the tail takes, and
\* the rotation seals the tail with that size.
THEOREM CounterIsExact ==
    ASSUME ShrinkKeepsPrefix, "truncate" \notin Faults
    PROVE  QSpec => []TotalIsFootprint
<1>1. ExactInv => TotalIsFootprint
      BY DEF ExactInv, FileFacts, Counted, TotalIsFootprint
<1>. QED BY ExactInvHolds, <1>1, PTL

\* What appendGrowthBytes() adds is never too little: an event that was admitted
\* fits the budget with the reserve when it is written, after the rotation and the
\* manifest that came in between.
THEOREM AdmissionIsSafe ==
    ASSUME ShrinkKeepsPrefix, "truncate" \notin Faults
    PROVE  QSpec => []AdmittedFits
<1>1. ASSUME ExactInv, pc = "append", call.op \in {"enqueue", "rewrite"}, MaxTotalBytes > 0, ~erred
      PROVE  DiskBytes + BytesOf(CallEvent) + DrainReserve <= MaxTotalBytes
  <2>1. plan = NoPlan
        BY <1>1 DEF ExactInv, QueueInv, CompactInv, PlanFacts, CompactPhases
  <2>2. total + EventGrowth <= MaxTotalBytes
        BY <1>1, <2>1 DEF ExactInv, Budget
  <2>3. total = DiskBytes /\ total \in Int
        BY <1>1 DEF ExactInv, QueueInv, LoopFacts, FileFacts, Counted, Mounted
  <2>. QED BY <2>2, <2>3, EventTakesBytes, QueueConstants DEF EventGrowth
<1>2. ExactInv => AdmittedFits
      BY <1>1 DEF AdmittedFits
<1>. QED BY ExactInvHolds, <1>2, PTL

\* Power losses, removals that fail and compactions leave a store that mounts: a
\* mount fails after a reported write error only, or before the first manifest.
THEOREM MountsAgain ==
    ASSUME ShrinkKeepsPrefix, "truncate" \notin Faults
    PROVE  QSpec => []MountFailsOnlyAfterError
<1>1. ExactInv => MountFailsOnlyAfterError
      BY DEF ExactInv, FileFacts, ScanFacts, MountFailsOnlyAfterError
<1>. QED BY ExactInvHolds, <1>1, PTL

-----------------------------------------------------------------------------
(* Every record is in a file: RAM and the files agree through a compaction.  *)

\* File r.gen has an event of record r, and the manifest names that file.
Holds(ss, r) == r.gen \in DOMAIN ss /\ \E k \in DOMAIN ss[r.gen].events :
    LET e == ss[r.gen].events[k] IN e.type # "pop" /\ e.seq = r.seq /\ e.val = r.val
KeptIn(ss, m, r) == m \notin {NoManifest, TornManifest} /\ r.gen \in LiveGens(m) /\ Holds(ss, r)

\* A record is in a file the manifest names, or its input file is being removed.
RecordsHeld ==
    pc = "replay" \/ Scanned => \A i \in DOMAIN records :
        \/ KeptIn(segs, manifest, records[i])
        \/ pc = "cleanup" /\ records[i].gen \in plan.lo .. plan.hi

\* What LiveRecords and OutputSegment make of the records rs.
LiveOf(rs, lo, hi) ==
    LET S            == {i \in DOMAIN rs : rs[i].gen \in lo .. hi}
        Before(j, i) == \/ rs[j].seq < rs[i].seq
                        \/ rs[j].seq = rs[i].seq /\ j < i
    IN  [k \in 1 .. Cardinality(S) |->
            rs[CHOOSE i \in S : Cardinality({j \in S : Before(j, i)}) = k - 1]]
OutputEvents(rs, lo, hi, outs, k) ==
    LET live  == LiveOf(rs, lo, hi)
        chunk == SubSeq(live, k * PerSegment + 1,
                        IF k = outs - 1 THEN Len(live) ELSE (k + 1) * PerSegment)
    IN  [j \in DOMAIN chunk |-> AsEvent(chunk[j])]

\* Output k is on disk as it was laid out.
OutputWritten(k) ==
    /\ plan.first + k \in DOMAIN segs
    /\ segs[plan.first + k].events = OutputEvents(records, plan.lo, plan.hi, plan.outs, k)

\* The copies stay what they are until the records point at them.
OutputsKept ==
    /\ pc \in {"write", "publish"} => \A k \in 0 .. plan.done - 1 : OutputWritten(k)
    /\ pc = "cleanup" =>
          /\ plan.outs = OutputSegs(Cardinality(RecordsIn(plan.lo, plan.hi)))
          /\ \A k \in 0 .. plan.outs - 1 :
                plan.first + k \in LiveGens(manifest) /\ OutputWritten(k)

\* The scan reads the files of the manifest.
CursorLive ==
    pc = "replay" /\ scan.r <= Len(ranges) => scan.gen \in SpanOf(ranges[scan.r])

HeldInv == RecordsHeld /\ OutputsKept /\ CursorLive

LEMMA LiveRecordsOf ==
    ASSUME NEW lo, NEW hi
    PROVE  LiveRecords(lo, hi) = LiveOf(records, lo, hi)
BY DEF LiveRecords, LiveOf, InOrder, BySequence, RecordsIn

LEMMA OutputEventsOf ==
    ASSUME NEW k
    PROVE  OutputSegment(k).events = OutputEvents(records, plan.lo, plan.hi, plan.outs, k)
BY LiveRecordsOf DEF OutputSegment, OutputEvents

\* A file that only grows goes on holding its records.
LEMMA StillKept ==
    ASSUME NEW ss, NEW tt, NEW m, NEW n, NEW r, KeptIn(ss, m, r), n \notin {NoManifest, TornManifest},
           LiveGens(m) \subseteq LiveGens(n),
           \A g \in LiveGens(m) : g \in DOMAIN tt /\ Extends(tt[g], ss[g])
    PROVE  KeptIn(tt, n, r)
<1>1. r.gen \in LiveGens(m) /\ r.gen \in DOMAIN ss /\ r.gen \in LiveGens(n)
      BY DEF KeptIn, Holds
<1>2. PICK k \in DOMAIN ss[r.gen].events : LET e == ss[r.gen].events[k] IN
          e.type # "pop" /\ e.seq = r.seq /\ e.val = r.val
      BY DEF KeptIn, Holds
<1>3. /\ r.gen \in DOMAIN tt /\ k \in DOMAIN tt[r.gen].events
      /\ tt[r.gen].events[k] = ss[r.gen].events[k]
      BY <1>1, <1>2 DEF Extends
<1>. QED BY <1>1, <1>2, <1>3 DEF KeptIn, Holds

\* A step that adds no record but those it writes, and drops no file, keeps them held.
LEMMA RecordsStayHeld ==
    ASSUME RecordsHeld, LiveGrow, pc = "replay" \/ Scanned, pc # "cleanup",
           HasManifest => HasManifest' /\ LiveGens(manifest) \subseteq LiveGens(manifest'),
           \A i \in DOMAIN records' : \/ \E j \in DOMAIN records : records'[i] = records[j]
                                      \/ KeptIn(segs', manifest', records'[i])
    PROVE  RecordsHeld'
<1>. SUFFICES ASSUME NEW i \in DOMAIN records', NEW j \in DOMAIN records, records'[i] = records[j]
              PROVE  KeptIn(segs', manifest', records'[i])
     BY DEF RecordsHeld
<1>1. KeptIn(segs, manifest, records[j])
      BY DEF RecordsHeld
<1>2. HasManifest /\ HasManifest' /\ LiveGens(manifest) \subseteq LiveGens(manifest')
      BY <1>1 DEF KeptIn, HasManifest
<1>3. \A g \in LiveGens(manifest) : g \in DOMAIN segs' /\ Extends(segs'[g], segs[g])
      BY <1>2 DEF LiveGrow
<1>4. KeptIn(segs', manifest', records[j])
      BY <1>1, <1>2, <1>3, StillKept DEF HasManifest
<1>. QED BY <1>4

\* The outputs are unchanged while the records, the layout and the files are.
LEMMA OutputsStay ==
    ASSUME NEW k, OutputWritten(k), UNCHANGED records, plan.first + k \in DOMAIN segs',
           segs'[plan.first + k] = segs[plan.first + k],
           plan'.first = plan.first, plan'.lo = plan.lo, plan'.hi = plan.hi, plan'.outs = plan.outs
    PROVE  OutputWritten(k)'
BY DEF OutputWritten

\* The steps that leave the records and the range of a compaction alone.
LEMMA HeldQuiet ==
    ASSUME HeldInv, LiveGrow, pc = "replay" \/ Scanned, pc # "cleanup", UNCHANGED records,
           HasManifest => HasManifest' /\ LiveGens(manifest) \subseteq LiveGens(manifest'),
           pc' \notin {"replay", "cleanup"},
           pc' \in {"write", "publish"} => plan'.done = 0
    PROVE  HeldInv'
<1>1. RecordsHeld'
      BY RecordsStayHeld DEF HeldInv
<1>2. OutputsKept' /\ CursorLive'
      BY DEF OutputsKept, CursorLive
<1>. QED BY <1>1, <1>2 DEF HeldInv

\* A mount that begins has no records, and one that fails claims none.
LEMMA HeldDown ==
    ASSUME pc' \in {"down", "failed"}
    PROVE  HeldInv'
BY DEF HeldInv, RecordsHeld, OutputsKept, CursorLive, Scanned, Mounted

LEMMA HeldMountBegin ==
    ASSUME CompactInv, MountBegin
    PROVE  HeldInv'
<1>1. /\ pc' \in {"replay", "sweep", "failed"} /\ records' = <<>>
      /\ pc' = "replay" => HasManifest /\ ranges' = manifest.ranges /\ scan' = StartScan(manifest)
      BY DEF MountBegin
<1>2. RecordsHeld' /\ OutputsKept'
      BY <1>1 DEF RecordsHeld, OutputsKept
<1>3. CursorLive'
  <2>. SUFFICES ASSUME pc' = "replay", scan'.r <= Len(ranges')
                PROVE  scan'.gen \in SpanOf(ranges'[scan'.r])
       BY DEF CursorLive
  <2>1. HasManifest /\ manifest \in Manifest /\ Proper(manifest.ranges)
        BY <1>1, Known DEF CompactInv, ManifestFacts, HasManifest, TypeOK
  <2>2. manifest.ranges \in Seq(ManifestRange) /\ scan'.r = 1 /\ 1 <= Len(manifest.ranges)
        BY <1>1, <2>1 DEF StartScan, Manifest
  <2>3. 1 \in DOMAIN manifest.ranges /\ manifest.ranges # <<>> /\ manifest.ranges[1] \in ManifestRange
        BY <2>2
  <2>4. scan'.gen = manifest.ranges[1].lo /\ manifest.ranges[1].lo <= manifest.ranges[1].hi
        BY <1>1, <2>1, <2>3 DEF StartScan, Proper
  <2>5. manifest.ranges[1].lo \in Nat /\ manifest.ranges[1].hi \in Nat
        BY <2>3 DEF ManifestRange, Gen
  <2>. QED BY <1>1, <2>2, <2>4, <2>5 DEF SpanOf
<1>. QED BY <1>2, <1>3 DEF HeldInv

\* What the scan reads is a file of the manifest.
LEMMA CursorIsLive ==
    ASSUME CompactInv, CursorLive, pc = "replay"
    PROVE  /\ HasManifest /\ scan.gen \in LiveGens(manifest) /\ ranges = manifest.ranges
           /\ ranges \in Seq(ManifestRange) /\ Proper(ranges)
           /\ scan.r \in Nat \ {0} /\ Len(ranges) \in Nat
<1>1. /\ HasManifest /\ ranges = manifest.ranges
      /\ scan.r > Len(ranges) => scan.gen = manifest.tail
      BY DEF CompactInv, SafeInv, TypeInv, ReplayFacts
<1>2. ranges \in Seq(ManifestRange) /\ scan.r \in Nat \ {0} /\ Len(ranges) \in Nat
      /\ DOMAIN ranges = 1 .. Len(ranges)
      BY Known DEF TypeOK
<1>3. Proper(ranges)
      BY <1>1 DEF CompactInv, ManifestFacts
<1>4. scan.gen \in LiveGens(manifest)
  <2>1. CASE scan.r <= Len(ranges)
    <3>1. scan.r \in DOMAIN ranges /\ scan.gen \in SpanOf(ranges[scan.r])
          BY <1>2, <2>1 DEF CursorLive
    <3>. QED BY <1>1, <3>1, GensOfIn DEF LiveGens
  <2>2. CASE scan.r > Len(ranges)
        BY <1>1, <2>2 DEF LiveGens
  <2>. QED BY <1>2, <2>1, <2>2
<1>. QED BY <1>1, <1>2, <1>3, <1>4

\* What scanSegments() makes of an event: the records before it, or one it located.
LEMMA InsertedFrom ==
    ASSUME NEW rs \in Seq(Record), NEW r \in Record, NEW i \in DOMAIN Inserted(rs, r)
    PROVE  Inserted(rs, r)[i] = r \/ \E j \in DOMAIN rs : Inserted(rs, r)[i] = rs[j]
<1>. DEFINE n == Below(rs, r.seq)
            front == SubSeq(rs, 1, n)
            back == SubSeq(rs, n + 1, Len(rs))
<1>1. n \in 0 .. Len(rs) /\ Len(rs) \in Nat /\ DOMAIN rs = 1 .. Len(rs)
  <2>1. n \in 0 .. Len(rs)
        BY BelowInBounds DEF Record
  <2>. QED BY <2>1
<1>. HIDE DEF n
<1>2. /\ front \in Seq(Record) /\ Len(front) = n
      /\ \A k \in 1 .. n : front[k] = rs[k]
  <2>1. SubSeq(rs, 1, n) \in Seq(Record)
        BY <1>1, SubSeqProperties
  <2>. QED BY <1>1, <2>1
<1>3. /\ back \in Seq(Record) /\ Len(back) = Len(rs) - n
      /\ \A k \in 1 .. Len(rs) - n : back[k] = rs[n + k]
  <2>1. SubSeq(rs, n + 1, Len(rs)) \in Seq(Record)
        BY <1>1, SubSeqProperties
  <2>. QED BY <1>1, <2>1
<1>4. Inserted(rs, r) = front \o <<r>> \o back
      BY DEF Inserted, n
<1>. HIDE DEF front, back
<1>. DEFINE head == front \o <<r>>
<1>5. /\ head \in Seq(Record) /\ Len(head) = n + 1 /\ head[n + 1] = r
       /\ \A k \in 1 .. n : head[k] = front[k]
  <2>1. <<r>> \in Seq(Record) /\ Len(<<r>>) = 1 /\ <<r>>[1] = r
        OBVIOUS
  <2>. QED BY <1>1, <1>2, <2>1
<1>. HIDE DEF head
<1>6. head \o back = front \o <<r>> \o back
       BY DEF head
<1>7. /\ Len(head \o back) = Len(rs) + 1
      /\ \A k \in 1 .. n + 1 : (head \o back)[k] = head[k]
      /\ \A k \in 1 .. Len(rs) - n : (head \o back)[n + 1 + k] = back[k]
      BY <1>1, <1>3, <1>5
<1>8. i \in 1 .. Len(rs) + 1
  <2>1. head \o back \in Seq(Record)
        BY <1>3, <1>5
  <2>. QED BY <1>4, <1>6, <1>7, <2>1
<1>9. CASE i <= n
  <2>1. Inserted(rs, r)[i] = front[i]
    <3>1. i \in 1 .. n /\ i \in 1 .. n + 1
          BY <1>1, <1>8, <1>9
    <3>2. (head \o back)[i] = head[i] /\ head[i] = front[i]
          BY <1>5, <1>7, <3>1
    <3>. QED BY <1>4, <1>6, <3>2
  <2>2. i \in DOMAIN rs
        BY <1>1, <1>8, <1>9
  <2>. QED BY <1>1, <1>2, <1>8, <1>9, <2>1, <2>2
<1>10. CASE i = n + 1
  <2>1. n + 1 \in 1 .. n + 1
        BY <1>1
  <2>2. (head \o back)[n + 1] = head[n + 1]
        BY <1>7, <2>1
  <2>. QED BY <1>4, <1>5, <1>6, <1>10, <2>2
<1>11. CASE i > n + 1
  <2>1. Inserted(rs, r)[i] = back[i - (n + 1)]
    <3>1. i - (n + 1) \in 1 .. Len(rs) - n /\ n + 1 + (i - (n + 1)) = i
          BY <1>1, <1>8, <1>11
    <3>. QED BY <1>4, <1>6, <1>7, <3>1
  <2>2. i - (n + 1) \in 1 .. Len(rs) - n /\ i - 1 \in DOMAIN rs /\ n + (i - (n + 1)) = i - 1
        BY <1>1, <1>8, <1>11
  <2>. QED BY <1>3, <2>1, <2>2
<1>. QED BY <1>1, <1>8, <1>9, <1>10, <1>11

LEMMA HeldReplayEvent ==
    ASSUME CompactInv, HeldInv, LiveGrow, ReplayEvent
    PROVE  HeldInv'
<1>. DEFINE e == segs[scan.gen].events[scan.ev]
            r == Located(e)
<1>1. /\ pc = "replay" /\ pc' = "replay" /\ UNCHANGED <<segs, manifest, ranges>>
      /\ scan' = [scan EXCEPT !.ev = @ + 1]
      /\ scan.gen \in DOMAIN segs /\ scan.ev <= Len(segs[scan.gen].events)
      BY DEF ReplayEvent, SegmentReadable, disk
<1>2. HasManifest /\ scan.gen \in LiveGens(manifest)
      BY <1>1, CursorIsLive DEF HeldInv
<1>3. /\ TypeOK /\ records \in Seq(Record)
      /\ segs[scan.gen].events \in Seq(Event) /\ scan.ev \in DOMAIN segs[scan.gen].events
      /\ scan.gen \in Gen
  <2>1. TypeOK
        BY Known
  <2>2. scan.gen \in Gen /\ segs[scan.gen] \in Segment /\ scan.ev \in Nat \ {0}
        BY <1>1, <2>1 DEF TypeOK, SegmentFiles
  <2>3. segs[scan.gen].events \in Seq(Event)
        BY <2>2 DEF Segment
  <2>4. scan.ev \in DOMAIN segs[scan.gen].events
        BY <1>1, <2>2, <2>3
  <2>5. records \in Seq(Record)
        BY <2>1 DEF TypeOK
  <2>. QED BY <2>1, <2>2, <2>3, <2>4, <2>5
<1>4. e \in Event
      BY <1>3
<1>5. r.seq = e.seq /\ r.gen = scan.gen /\ r.val = e.val
      BY DEF Located
<1>. HIDE DEF r
<1>6. e.type # "pop" => KeptIn(segs', manifest', r) /\ r \in Record
  <2>1. e.type # "pop" => KeptIn(segs', manifest', r)
        BY <1>1, <1>2, <1>3, <1>5 DEF KeptIn, Holds, HasManifest
  <2>2. e.type # "pop" => r \in Record
        BY <1>3, <1>4 DEF r, Located, Event, Record
  <2>. QED BY <2>1, <2>2
<1>7. \/ e.type = "enq" /\ records' = Append(records, r)
      \/ e.type = "rew" /\ e.seq \in SeqsOf(records)
         /\ records' = [records EXCEPT ![FirstAt(records, e.seq)] = r]
      \/ e.type = "rew" /\ records' = Inserted(records, r)
      \/ records # <<>> /\ records' = Tail(records)
      \/ records' = records
      BY DEF ReplayEvent, IsFront, r
<1>. HIDE DEF e
<1>8. ASSUME NEW i \in DOMAIN records'
      PROVE  \/ \E j \in DOMAIN records : records'[i] = records[j]
             \/ KeptIn(segs', manifest', records'[i])
  <2>1. CASE e.type = "enq" /\ records' = Append(records, r)
    <3>1. records'[i] = r \/ (i \in DOMAIN records /\ records'[i] = records[i])
          BY <1>3, <1>8, <2>1
    <3>. QED BY <1>6, <2>1, <3>1
  <2>2. CASE e.type = "rew" /\ e.seq \in SeqsOf(records)
             /\ records' = [records EXCEPT ![FirstAt(records, e.seq)] = r]
    <3>1. i \in DOMAIN records /\ (records'[i] = r \/ records'[i] = records[i])
          BY <1>8, <2>2
    <3>. QED BY <1>6, <2>2, <3>1
  <2>3. CASE e.type = "rew" /\ records' = Inserted(records, r)
    <3>1. records'[i] = r \/ \E j \in DOMAIN records : records'[i] = records[j]
          BY <1>3, <1>6, <1>8, <2>3, InsertedFrom
    <3>. QED BY <1>6, <2>3, <3>1
  <2>4. CASE records # <<>> /\ records' = Tail(records)
    <3>1. i + 1 \in DOMAIN records /\ records'[i] = records[i + 1]
          BY <1>3, <1>8, <2>4
    <3>. QED BY <3>1
  <2>5. CASE records' = records
        BY <1>8, <2>5
  <2>. QED BY <1>7, <2>1, <2>2, <2>3, <2>4, <2>5
<1>9. RecordsHeld'
  <2>1. HasManifest => HasManifest' /\ LiveGens(manifest) \subseteq LiveGens(manifest')
        BY <1>1 DEF HasManifest
  <2>. QED BY <1>1, <1>8, <2>1, RecordsStayHeld DEF HeldInv
<1>10. OutputsKept'
       BY <1>1 DEF OutputsKept
<1>11. CursorLive'
  <2>1. scan'.r = scan.r /\ scan'.gen = scan.gen
        BY <1>1, <1>3 DEF TypeOK
  <2>. QED BY <1>1, <2>1 DEF HeldInv, CursorLive
<1>. QED BY <1>9, <1>10, <1>11 DEF HeldInv

\* From the end of a file the scan goes on to the next one of the manifest.
LEMMA HeldReplayNextSegment ==
    ASSUME CompactInv, HeldInv, LiveGrow, ReplayNextSegment
    PROVE  HeldInv'
<1>1. /\ pc = "replay" /\ pc' = "replay" /\ UNCHANGED <<segs, manifest, ranges, records>>
      /\ ~(scan.r > Len(ranges))
      /\ scan' = IF scan.gen < ranges[scan.r].hi
                 THEN [r |-> scan.r, ev |-> 1, gen |-> scan.gen + 1]
                 ELSE [r |-> scan.r + 1, ev |-> 1,
                       gen |-> IF scan.r < Len(ranges) THEN ranges[scan.r + 1].lo
                               ELSE manifest.tail]
      BY DEF ReplayNextSegment, AtSegmentEnd, OnLastSegment, disk
<1>2. /\ HasManifest /\ scan.gen \in LiveGens(manifest) /\ ranges = manifest.ranges
      /\ ranges \in Seq(ManifestRange) /\ Proper(ranges)
      /\ scan.r \in Nat \ {0} /\ Len(ranges) \in Nat
      BY <1>1, CursorIsLive DEF HeldInv
<1>3. \A i \in DOMAIN ranges : ranges[i].lo \in Nat /\ ranges[i].hi \in Nat /\ ranges[i].lo <= ranges[i].hi
  <2>1. \A i \in DOMAIN ranges : ranges[i] \in ManifestRange
        BY <1>2
  <2>. QED BY <1>2, <2>1 DEF ManifestRange, Gen, Proper
<1>4. scan.r \in DOMAIN ranges /\ scan.gen \in ranges[scan.r].lo .. ranges[scan.r].hi
      BY <1>1, <1>2 DEF HeldInv, CursorLive, SpanOf
<1>5. CursorLive'
  <2>. SUFFICES ASSUME scan'.r <= Len(ranges)
                PROVE  scan'.gen \in ranges[scan'.r].lo .. ranges[scan'.r].hi
       BY <1>1 DEF CursorLive, SpanOf
  <2>1. CASE scan.gen < ranges[scan.r].hi
        BY <1>1, <1>3, <1>4, <2>1
  <2>2. CASE ~(scan.gen < ranges[scan.r].hi)
    <3>1. scan'.r = scan.r + 1 /\ scan.r + 1 \in DOMAIN ranges /\ scan.r < Len(ranges)
          BY <1>1, <1>2, <2>2
    <3>2. scan'.gen = ranges[scan.r + 1].lo
          BY <1>1, <2>2, <3>1
    <3>. QED BY <1>3, <3>1, <3>2
  <2>. QED BY <2>1, <2>2
<1>6. RecordsHeld'
  <2>1. HasManifest => HasManifest' /\ LiveGens(manifest) \subseteq LiveGens(manifest')
        BY <1>1 DEF HasManifest
  <2>. QED BY <1>1, <2>1, RecordsStayHeld DEF HeldInv
<1>7. OutputsKept'
      BY <1>1 DEF OutputsKept
<1>. QED BY <1>5, <1>6, <1>7 DEF HeldInv

\* Sealing the tail keeps every generation of the manifest in it.
LEMMA SealedKeepsGens ==
    ASSUME TypeOK, Proper(ranges)
    PROVE  /\ GensOf(ranges) \subseteq GensOf(SealedRanges)
           /\ tail # 0 => tail \in GensOf(SealedRanges)
<1>. DEFINE n == Len(ranges)
<1>1. ranges \in Seq(ManifestRange) /\ tail \in Nat /\ n \in Nat /\ DOMAIN ranges = 1 .. n
      BY DEF TypeOK
<1>2. \A i \in DOMAIN ranges : /\ ranges[i].lo \in Nat /\ ranges[i].hi \in Nat
                               /\ ranges[i].lo <= ranges[i].hi /\ ranges[i] \in ManifestRange
  <2>1. \A i \in DOMAIN ranges : ranges[i] \in ManifestRange
        BY <1>1
  <2>. QED BY <2>1 DEF ManifestRange, Gen, Proper
<1>3. CASE tail = 0
      BY <1>3 DEF SealedRanges
<1>4. CASE tail # 0 /\ n > 0 /\ ranges[n].hi + 1 = tail
  <2>1. SealedRanges = [ranges EXCEPT ![n] = [ranges[n] EXCEPT !.hi = tail]]
        BY <1>4 DEF SealedRanges
  <2>2. n \in DOMAIN ranges /\ DOMAIN SealedRanges = DOMAIN ranges
        BY <1>1, <1>4, <2>1
  <2>. HIDE DEF n
  <2>3. /\ \A i \in DOMAIN ranges : i # n => SealedRanges[i] = ranges[i]
        /\ SealedRanges[n].lo = ranges[n].lo /\ SealedRanges[n].hi = tail
        BY <1>2, <2>1, <2>2 DEF ManifestRange
  <2>4. tail \in SpanOf(SealedRanges[n])
        BY <1>1, <1>2, <1>4, <2>2, <2>3 DEF SpanOf
  <2>5. \A i \in DOMAIN ranges : SpanOf(ranges[i]) \subseteq SpanOf(SealedRanges[i])
    <3>. SUFFICES ASSUME NEW i \in DOMAIN ranges PROVE SpanOf(ranges[i]) \subseteq SpanOf(SealedRanges[i])
         OBVIOUS
    <3>1. CASE i = n
          BY <1>1, <1>2, <1>4, <2>2, <2>3, <3>1 DEF SpanOf
    <3>2. CASE i # n
          BY <2>3, <3>2
    <3>. QED BY <3>1, <3>2
  <2>. QED BY <2>2, <2>4, <2>5, GensOfIn
<1>5. CASE tail # 0 /\ ~(n > 0 /\ ranges[n].hi + 1 = tail)
  <2>. DEFINE r == [lo |-> tail, hi |-> tail]
  <2>1. SealedRanges = Append(ranges, r)
        BY <1>5 DEF SealedRanges
  <2>2. tail \in SpanOf(r)
        BY <1>1 DEF SpanOf
  <2>. HIDE DEF r
  <2>3. /\ \A i \in DOMAIN ranges : i \in DOMAIN SealedRanges /\ SealedRanges[i] = ranges[i]
        /\ n + 1 \in DOMAIN SealedRanges /\ SealedRanges[n + 1] = r
        BY <1>1, <2>1
  <2>. QED BY <2>2, <2>3, GensOfIn
<1>. QED BY <1>3, <1>4, <1>5

\* The new tail's manifest names all that the old one did.
LEMMA HeldPublishTail ==
    ASSUME CompactInv, HeldInv, LiveGrow, PublishTail
    PROVE  HeldInv'
<1>1. /\ pc = "publishTail" /\ pc' \in {"append", "resolve"} /\ UNCHANGED records
      /\ manifest' = [ranges |-> SealedRanges, tail |-> nextGen, next |-> nextGen + 1]
      BY DEF PublishTail, Publish
<1>2. Mounted /\ Scanned /\ TypeOK /\ nextGen \in Gen
      BY <1>1, Known DEF Mounted, Scanned
<1>3. HasManifest'
  <2>1. SealedRanges \in Seq(ManifestRange) /\ nextGen + 1 \in Gen
        BY <1>2, SealedRangesType DEF Gen, TypeOK
  <2>2. manifest' \in Manifest
        BY <1>1, <1>2, <2>1 DEF Manifest
  <2>. QED BY <2>2, ManifestIsOne DEF HasManifest
<1>4. HasManifest => LiveGens(manifest) \subseteq LiveGens(manifest')
  <2>. SUFFICES ASSUME HasManifest PROVE LiveGens(manifest) \subseteq LiveGens(manifest')
       OBVIOUS
  <2>1. /\ ranges = manifest.ranges /\ tail = manifest.tail /\ tail # 0 /\ Proper(ranges)
        BY <1>2, Known DEF Ranges, Gen
  <2>. QED BY <1>1, <1>2, <2>1, SealedKeepsGens DEF LiveGens
<1>. QED BY <1>1, <1>2, <1>3, <1>4, HeldQuiet

\* The record of an event that was just written is in the tail.
LEMMA HeldAppendEvent ==
    ASSUME CompactInv, HeldInv, LiveGrow, AppendEvent
    PROVE  HeldInv'
<1>1. /\ pc = "append" /\ pc' = "idle" /\ UNCHANGED manifest
      /\ segs' = [segs EXCEPT ![tail] = Appended(segs[tail], CallEvent)]
      BY DEF AppendEvent
<1>2. HasManifest /\ Mounted /\ Scanned /\ TypeOK /\ tail = manifest.tail /\ tail \in Gen
      BY <1>1, Known DEF Mounted, Scanned, CompactInv, SafeInv, TypeInv, TailFacts
<1>3. tail \in LiveGens(manifest) /\ tail \in DOMAIN segs
      BY <1>2 DEF LiveGens, CompactInv, SafeInv, ManifestBacked, SegmentReadable
<1>4. /\ tail \in DOMAIN segs' /\ segs[tail].events \in Seq(Event)
      /\ segs'[tail].events = Append(segs[tail].events, CallEvent)
  <2>1. segs[tail] \in Segment
        BY <1>2, <1>3 DEF TypeOK, SegmentFiles
  <2>. QED BY <1>1, <1>3, <2>1 DEF Appended, Segment
<1>5. call.op \in {"enqueue", "rewrite"} => KeptIn(segs', manifest', TailRecord)
  <2>. SUFFICES ASSUME call.op \in {"enqueue", "rewrite"} PROVE KeptIn(segs', manifest', TailRecord)
       OBVIOUS
  <2>1. CallEvent.type # "pop" /\ CallEvent.seq = call.seq /\ CallEvent.val = call.val
        BY DEF CallEvent
  <2>2. TailRecord.seq = call.seq /\ TailRecord.gen = tail /\ TailRecord.val = call.val
        BY DEF TailRecord
  <2>3. /\ Len(segs[tail].events) + 1 \in DOMAIN segs'[tail].events
        /\ segs'[tail].events[Len(segs[tail].events) + 1] = CallEvent
    <3>. DEFINE es == segs[tail].events
                c == CallEvent
    <3>1. es \in Seq(Event) /\ segs'[tail].events = Append(es, c)
          BY <1>4
    <3>. HIDE DEF es, c
    <3>2. Len(es) + 1 \in DOMAIN Append(es, c) /\ Append(es, c)[Len(es) + 1] = c
          BY <3>1
    <3>. QED BY <3>1, <3>2 DEF es, c
  <2>. HIDE DEF CallEvent, TailRecord
  <2>. QED BY <1>1, <1>2, <1>3, <1>4, <2>1, <2>2, <2>3 DEF KeptIn, Holds, HasManifest
<1>6. \/ call.op = "enqueue" /\ records' = Append(records, TailRecord)
      \/ call.op = "pop" /\ records' = Tail(records)
      \/ /\ call.op = "rewrite"
         /\ records' = [records EXCEPT ![FirstAt(records, call.seq)] = TailRecord]
      BY DEF AppendEvent
<1>7. records \in Seq(Record) /\ (call.op = "pop" => records # <<>>)
      BY <1>2 DEF TypeOK, CompactInv, SafeInv, TypeInv, CallFacts
<1>8. ASSUME NEW i \in DOMAIN records'
      PROVE  \/ \E j \in DOMAIN records : records'[i] = records[j]
             \/ KeptIn(segs', manifest', records'[i])
  <2>1. CASE call.op = "enqueue" /\ records' = Append(records, TailRecord)
    <3>1. records'[i] = TailRecord \/ (i \in DOMAIN records /\ records'[i] = records[i])
          BY <1>7, <1>8, <2>1
    <3>. QED BY <1>5, <2>1, <3>1
  <2>2. CASE call.op = "pop" /\ records' = Tail(records)
    <3>1. i + 1 \in DOMAIN records /\ records'[i] = records[i + 1]
          BY <1>7, <1>8, <2>2
    <3>. QED BY <3>1
  <2>3. CASE /\ call.op = "rewrite"
             /\ records' = [records EXCEPT ![FirstAt(records, call.seq)] = TailRecord]
    <3>1. i \in DOMAIN records /\ (records'[i] = TailRecord \/ records'[i] = records[i])
          BY <1>8, <2>3
    <3>. QED BY <1>5, <2>3, <3>1
  <2>. QED BY <1>6, <2>1, <2>2, <2>3
<1>9. RecordsHeld'
  <2>1. HasManifest => HasManifest' /\ LiveGens(manifest) \subseteq LiveGens(manifest')
        BY <1>1 DEF HasManifest
  <2>. QED BY <1>1, <1>2, <1>8, <2>1, RecordsStayHeld DEF HeldInv
<1>10. OutputsKept' /\ CursorLive'
       BY <1>1 DEF OutputsKept, CursorLive
<1>. QED BY <1>9, <1>10 DEF HeldInv

\* Power losses and reported errors.
LEMMA HeldFailure ==
    ASSUME CompactInv, HeldInv, LiveGrow, PowerLoss \/ WriteError \/ PublishRefused
    PROVE  HeldInv'
<1>1. CASE PowerLoss
      BY <1>1, HeldDown DEF PowerLoss
<1>2. CASE WriteError \/ PublishRefused
  <2>1. UNCHANGED records /\ pc' = "idle" /\ Mounted /\ pc # "cleanup"
        BY <1>2 DEF WriteError, PublishRefused, ReturnError, ram, WritePoints, Mounted
  <2>2. UNCHANGED manifest \/ ~HasManifest
        BY <1>2 DEF WriteError, PublishRefused, Unwritten, PartialWrite, disk
  <2>3. HasManifest => HasManifest' /\ LiveGens(manifest) \subseteq LiveGens(manifest')
        BY <2>2 DEF HasManifest
  <2>. QED BY <2>1, <2>3, HeldQuiet DEF Scanned
<1>. QED BY <1>1, <1>2

-----------------------------------------------------------------------------
(* The records through a compaction.                                         *)

\* One copy more; those before it stay.
LEMMA HeldWriteOutput ==
    ASSUME CompactInv, HeldInv, LiveGrow, WriteOutput
    PROVE  HeldInv'
<1>. DEFINE g == plan.first + plan.done
<1>1. /\ pc = "write" /\ pc' \in {"write", "publish"}
      /\ segs' = WithSegment(segs, g, OutputSegment(plan.done))
      /\ plan' = [plan EXCEPT !.done = @ + 1]
      /\ UNCHANGED <<manifest, records>>
      BY DEF WriteOutput, RamButSealed
<1>2. plan \in [lo : Nat, hi : Nat, first : Nat, outs : Nat, done : Nat]
      BY Known DEF TypeOK
<1>3. /\ plan'.lo = plan.lo /\ plan'.hi = plan.hi /\ plan'.first = plan.first
      /\ plan'.outs = plan.outs /\ plan'.done = plan.done + 1
      /\ plan.first \in Nat /\ plan.done \in Nat
      BY <1>1, <1>2
<1>4. /\ DOMAIN segs' = DOMAIN segs \cup {g}
      /\ segs'[g] = OutputSegment(plan.done)
      /\ \A h \in DOMAIN segs : h # g => segs'[h] = segs[h]
      BY <1>1 DEF WithSegment
<1>5. \A k \in 0 .. plan.done - 1 : OutputWritten(k)
      BY <1>1 DEF HeldInv, OutputsKept
<1>6. ASSUME NEW k \in 0 .. plan'.done - 1 PROVE OutputWritten(k)'
  <2>1. CASE k = plan.done
    <3>1. segs'[g].events = OutputEvents(records, plan.lo, plan.hi, plan.outs, plan.done)
          BY <1>4, OutputEventsOf
    <3>. QED BY <1>1, <1>3, <1>4, <2>1, <3>1 DEF OutputWritten
  <2>2. CASE k # plan.done
    <3>1. k \in 0 .. plan.done - 1 /\ plan.first + k # g
          BY <1>3, <1>6, <2>2
    <3>2. OutputWritten(k) /\ plan.first + k \in DOMAIN segs
          BY <1>5, <3>1 DEF OutputWritten
    <3>3. plan.first + k \in DOMAIN segs' /\ segs'[plan.first + k] = segs[plan.first + k]
          BY <1>4, <3>1, <3>2
    <3>. HIDE DEF g
    <3>. QED BY <1>1, <1>3, <3>2, <3>3, OutputsStay
  <2>. QED BY <2>1, <2>2
<1>7. OutputsKept'
      BY <1>1, <1>6 DEF OutputsKept
<1>8. RecordsHeld'
  <2>1. HasManifest => HasManifest' /\ LiveGens(manifest) \subseteq LiveGens(manifest')
        BY <1>1 DEF HasManifest
  <2>2. Scanned /\ pc # "cleanup"
        BY <1>1 DEF Scanned, Mounted
  <2>. QED BY <1>1, <2>1, <2>2, RecordsStayHeld DEF HeldInv
<1>9. CursorLive'
      BY <1>1 DEF CursorLive
<1>. QED BY <1>7, <1>8, <1>9 DEF HeldInv

\* The manifest changes from the inputs to the outputs.
LEMMA HeldPublishCompaction ==
    ASSUME CompactInv, HeldInv, LiveGrow, PublishCompaction
    PROVE  HeldInv'
<1>1. plan \in [lo : Nat, hi : Nat, first : Nat, outs : Nat, done : Nat] /\ nextGen \in Nat
      BY Known DEF TypeOK, Gen
<1>2. /\ plan'.lo = plan.lo /\ plan'.hi = plan.hi /\ plan'.first = plan.first
      /\ plan'.outs = plan.outs /\ plan.first = nextGen /\ plan.outs \in Nat
      /\ pc = "publish" /\ pc' = "cleanup" /\ UNCHANGED <<segs, records>>
      BY <1>1, PublishedRanges
<1>3. HasManifest'
  <2>1. nextGen + plan.outs \in Gen
        BY <1>2, Known DEF Gen
  <2>2. manifest' \in Manifest
        BY <2>1, PublishedRanges DEF Manifest, Ranges
  <2>. QED BY <2>2, ManifestIsOne DEF HasManifest
<1>4. LiveGens(manifest') = GensOf(Spliced) \cup {tail}
      BY PublishedRanges DEF LiveGens
<1>5. \A h \in LiveGens(manifest) : h \in LiveGens(manifest') \/ h \in plan.lo .. plan.hi
  <2>1. ranges = manifest.ranges
        BY <1>2, PublishedRanges, Known DEF Mounted
  <2>. QED BY <1>4, <2>1, PublishedRanges DEF LiveGens
<1>6. RecordsHeld'
  <2>. SUFFICES ASSUME NEW i \in DOMAIN records
                PROVE  KeptIn(segs, manifest', records[i]) \/ records[i].gen \in plan.lo .. plan.hi
       BY <1>2 DEF RecordsHeld
  <2>1. KeptIn(segs, manifest, records[i])
        BY <1>2 DEF HeldInv, RecordsHeld, Scanned, Mounted
  <2>. QED BY <1>3, <1>5, <2>1 DEF KeptIn, HasManifest
<1>7. OutputsKept'
  <2>1. plan.done = plan.outs /\ plan.outs = OutputSegs(Cardinality(RecordsIn(plan.lo, plan.hi)))
        BY <1>2 DEF CompactInv, WritingFacts
  <2>2. (OutputSegs(Cardinality(RecordsIn(plan.lo, plan.hi))))' = plan.outs
    <3>1. (RecordsIn(plan.lo, plan.hi))' = RecordsIn(plan.lo, plan.hi)
          BY <1>2 DEF RecordsIn
    <3>. QED BY <2>1, <3>1 DEF OutputSegs
  <2>3. ASSUME NEW k \in 0 .. plan.outs - 1
        PROVE  plan.first + k \in LiveGens(manifest') /\ OutputWritten(k)'
    <3>1. OutputWritten(k)
          BY <1>2, <2>1 DEF HeldInv, OutputsKept
    <3>2. OutputWritten(k)'
          BY <1>2, <3>1, OutputsStay DEF OutputWritten
    <3>3. plan.first + k \in nextGen .. nextGen + plan.outs - 1
          BY <1>1, <1>2
    <3>. QED BY <1>4, <3>2, <3>3, PublishedRanges
  <2>. QED BY <1>2, <2>2, <2>3 DEF OutputsKept
<1>8. CursorLive'
      BY <1>2 DEF CursorLive
<1>. QED BY <1>6, <1>7, <1>8 DEF HeldInv

\* The outputs have room for every record.
LEMMA OutputRoom ==
    ASSUME NEW n \in Nat
    PROVE  PerSegment \in Nat \ {0} /\ OutputSegs(n) \in Nat /\ n <= PerSegment * OutputSegs(n)
<1>. DEFINE P == PerSegment
            m == n + P - 1
            q == OutputSegs(n)
<1>1. P \in Nat \ {0}
      BY OutputCount
<1>2. q = m \div P
      BY DEF OutputSegs
<1>. HIDE DEF P
<1>3. m \in Nat
      BY <1>1
<1>. HIDE DEF m, q
<1>4. q \in Nat /\ m - P * q \in 0 .. P - 1
      BY <1>1, <1>2, <1>3
<1>5. P * q \in Nat
      BY <1>1, <1>4
<1>6. n <= P * q
      BY <1>1, <1>3, <1>4, <1>5 DEF m
<1>. QED BY <1>1, <1>4, <1>6 DEF P, q

\* The copy of record j is in output (j - 1) \div PerSegment, at the place it has there.
LEMMA OutputPlace ==
    ASSUME NEW n \in Nat, NEW j \in 1 .. n, NEW outs, outs = OutputSegs(n)
    PROVE  LET k == (j - 1) \div PerSegment
               last == IF k = outs - 1 THEN n ELSE (k + 1) * PerSegment
           IN  /\ k \in 0 .. outs - 1 /\ k * PerSegment \in Nat
               /\ k * PerSegment + 1 <= j /\ j <= last /\ last \in Nat /\ last <= n
<1>. DEFINE P == PerSegment
            m == j - 1
            k == m \div P
            last == IF k = outs - 1 THEN n ELSE (k + 1) * P
<1>1. P \in Nat \ {0} /\ outs \in Nat /\ n <= P * outs
      BY OutputRoom
<1>. HIDE DEF P
<1>2. m \in Nat /\ m + 1 = j /\ m < n
      OBVIOUS
<1>. HIDE DEF m
<1>3. k \in Nat /\ m - P * k \in 0 .. P - 1
      BY <1>1, <1>2
<1>. HIDE DEF k
<1>4. P * k \in Nat /\ k * P = P * k /\ (k + 1) * P = P * k + P
      BY <1>1, <1>3
<1>5. k < outs
  <2>. SUFFICES ASSUME outs <= k PROVE FALSE
       BY <1>1, <1>3
  <2>1. P * outs <= P * k
    <3>1. \A x, y, z \in Nat : x <= y => z * x <= z * y
          OBVIOUS
    <3>. QED BY ONLY <1>1, <1>3, <3>1, outs <= k
  <2>2. P * outs \in Nat
        BY <1>1
  <2>. QED BY <1>1, <1>2, <1>3, <1>4, <2>1, <2>2
<1>6. last \in Nat /\ j <= last /\ last <= n
  <2>1. CASE k = outs - 1
        BY <1>2, <2>1
  <2>2. CASE k # outs - 1
    <3>1. k + 1 \in Nat /\ k + 1 < outs
          BY <1>1, <1>3, <1>5, <2>2
    <3>2. (k + 1) * P \in Nat /\ (k + 1) * P < n
          BY <3>1, OutputCount DEF P
    <3>. QED BY <1>1, <1>2, <1>3, <1>4, <2>2, <3>2
  <2>. QED BY <2>1, <2>2
<1>7. k \in 0 .. outs - 1 /\ k * P \in Nat /\ k * P + 1 <= j
      BY <1>1, <1>2, <1>3, <1>4, <1>5
<1>. QED BY <1>6, <1>7 DEF k, m, P

\* At the end of a compaction every record points at its copy, or was never moved.
LEMMA RelocatedHeld ==
    ASSUME CompactInv, HeldInv, pc = "cleanup", NEW i \in DOMAIN records
    PROVE  KeptIn(segs, manifest, Relocated[i])
<1>. DEFINE live == LiveRecords(plan.lo, plan.hi)
            n == Len(live)
<1>1. HasManifest /\ TypeOK /\ plan.first \in Gen /\ plan.first \in Nat /\ records \in Seq(Record)
      BY Known DEF CompactInv, CleanupFacts, TypeOK, Gen
<1>2. CASE records[i].gen \notin plan.lo .. plan.hi
  <2>1. Relocated[i] = records[i]
        BY <1>2 DEF Relocated
  <2>2. KeptIn(segs, manifest, records[i])
        BY <1>2 DEF HeldInv, RecordsHeld, Scanned, Mounted
  <2>. QED BY <2>1, <2>2
<1>3. CASE records[i].gen \in plan.lo .. plan.hi
  <2>. DEFINE j == FirstAt(live, records[i].seq)
              k == (j - 1) \div PerSegment
              first == k * PerSegment + 1
              last == IF k = plan.outs - 1 THEN n ELSE (k + 1) * PerSegment
              chunk == SubSeq(live, first, last)
              p == j - k * PerSegment
  <2>1. live \in Seq(Record) /\ n = Cardinality(RecordsIn(plan.lo, plan.hi)) /\ n \in Nat
        BY <1>1, LiveRecordsAreAll
  <2>2. records[i].seq \in SeqsOf(live)
    <3>1. i \in RecordsIn(plan.lo, plan.hi)
          BY <1>3 DEF RecordsIn
    <3>. QED BY <1>1, <3>1, LiveRecordsAreAll DEF SeqsOf
  <2>3. Relocated[i] = [live[j] EXCEPT !.gen = plan.first + k]
        BY <1>3 DEF Relocated
  <2>4. plan.outs = OutputSegs(Cardinality(RecordsIn(plan.lo, plan.hi)))
        BY DEF HeldInv, OutputsKept
  <2>5. live = LiveOf(records, plan.lo, plan.hi)
        BY LiveRecordsOf
  <2>. HIDE DEF live
  <2>6. j \in DOMAIN live /\ live[j].seq = records[i].seq /\ DOMAIN live = 1 .. n
        BY <2>1, <2>2, FirstAtFinds
  <2>. HIDE DEF j
  <2>7. /\ k \in 0 .. plan.outs - 1 /\ k * PerSegment \in Nat
        /\ first <= j /\ j <= last /\ last \in Nat /\ last <= n
    <3>1. j \in 1 .. n /\ plan.outs = OutputSegs(n)
          BY <2>1, <2>4, <2>6
    <3>. HIDE DEF n
    <3>. QED BY <2>1, <3>1, OutputPlace
  <2>. HIDE DEF n
  <2>8. plan.first + k \in LiveGens(manifest) /\ OutputWritten(k)
        BY <2>7 DEF HeldInv, OutputsKept
  <2>9. OutputEvents(records, plan.lo, plan.hi, plan.outs, k) = [x \in DOMAIN chunk |-> AsEvent(chunk[x])]
        BY <2>5 DEF OutputEvents, n
  <2>10. p \in Nat /\ p \in 1 .. last - first + 1 /\ first + p - 1 = j /\ first \in Nat /\ 1 <= first
    <3>. HIDE DEF k, last
    <3>1. j \in Nat
          BY <2>1, <2>6
    <3>. DEFINE b == k * PerSegment
    <3>2. b \in Nat /\ b + 1 <= j /\ j <= last /\ last \in Nat
          BY <2>7
    <3>. HIDE DEF b
    <3>3. /\ j - b \in Nat /\ j - b \in 1 .. last - (b + 1) + 1
          /\ (b + 1) + (j - b) - 1 = j /\ b + 1 \in Nat /\ 1 <= b + 1
          BY <3>1, <3>2
    <3>. QED BY <3>3 DEF b
  <2>. HIDE DEF k, last, first, p
  <2>11. p \in DOMAIN chunk /\ chunk[p] = live[j]
    <3>1. DOMAIN chunk = 1 .. last - first + 1 /\ chunk[p] = live[first + p - 1]
      <4>1. first \in 1 .. n + 1 /\ last \in 0 .. n /\ last - first + 1 \in Nat /\ first \in Int /\ last \in Int
            BY <2>1, <2>7, <2>10
      <4>2. SubSeq(live, first, last) = [x \in 1 .. last - first + 1 |-> live[first + x - 1]]
            BY <2>1, <4>1
      <4>. QED BY <2>10, <4>1, <4>2
    <3>. QED BY <2>10, <3>1
  <2>. HIDE DEF chunk
  <2>12. live[j] \in Record
        BY <2>1, <2>6
  <2>13. /\ Relocated[i].gen = plan.first + k
         /\ Relocated[i].seq = live[j].seq /\ Relocated[i].val = live[j].val
         BY <2>3, <2>12 DEF Record
  <2>14. /\ p \in DOMAIN segs[plan.first + k].events
         /\ segs[plan.first + k].events[p] = AsEvent(live[j])
         BY <2>8, <2>9, <2>11 DEF OutputWritten
  <2>15. plan.first + k \in DOMAIN segs
         BY <2>8 DEF OutputWritten
  <2>16. /\ AsEvent(live[j]).type # "pop" /\ AsEvent(live[j]).seq = live[j].seq
         /\ AsEvent(live[j]).val = live[j].val
         BY DEF AsEvent
  <2>17. Holds(segs, Relocated[i])
         BY <2>13, <2>14, <2>15, <2>16 DEF Holds
  <2>. QED BY <1>1, <2>8, <2>13, <2>17 DEF KeptIn, HasManifest
<1>. QED BY <1>2, <1>3

\* The inputs are removed one by one, and then no record is in them any more.
LEMMA HeldCleanupInput ==
    ASSUME CompactInv, HeldInv, LiveGrow, CleanupInput
    PROVE  HeldInv'
<1>. DEFINE g == plan.lo + plan.done
<1>1. pc = "cleanup" /\ UNCHANGED manifest
      BY DEF CleanupInput
<1>2. /\ HasManifest /\ g <= plan.hi
      /\ (plan.lo .. plan.hi) \cap LiveGens(manifest) = {}
      BY <1>1 DEF CompactInv, CleanupFacts
<1>3. /\ plan \in [lo : Nat, hi : Nat, first : Nat, outs : Nat, done : Nat]
      /\ g \in plan.lo .. plan.hi
  <2>1. plan \in [lo : Nat, hi : Nat, first : Nat, outs : Nat, done : Nat]
        BY Known DEF TypeOK
  <2>. QED BY <1>2, <2>1
<1>4. segs' = Without(segs, g) \/ UNCHANGED segs
      BY DEF CleanupInput
<1>5. \/ plan' = [plan EXCEPT !.done = @ + 1] /\ UNCHANGED <<pc, records>>
      \/ plan' = NoPlan /\ pc' \in {"idle", "admit"} /\ records' = Relocated
      BY DEF CleanupInput
<1>. HIDE DEF g
<1>6. \A h \in LiveGens(manifest) : h \in DOMAIN segs => h \in DOMAIN segs' /\ segs'[h] = segs[h]
      BY <1>2, <1>3, <1>4 DEF Without
<1>7. HasManifest' /\ LiveGens(manifest') = LiveGens(manifest)
      BY <1>1, <1>2 DEF HasManifest
<1>8. ASSUME NEW r, KeptIn(segs, manifest, r) PROVE KeptIn(segs', manifest', r)
      BY <1>1, <1>6, <1>8 DEF KeptIn, Holds
<1>9. CASE plan' = [plan EXCEPT !.done = @ + 1] /\ UNCHANGED <<pc, records>>
  <2>1. /\ plan'.lo = plan.lo /\ plan'.hi = plan.hi /\ plan'.first = plan.first
        /\ plan'.outs = plan.outs
        BY <1>3, <1>9
  <2>2. RecordsHeld'
    <3>. SUFFICES ASSUME NEW i \in DOMAIN records
                  PROVE  KeptIn(segs', manifest', records[i]) \/ records[i].gen \in plan.lo .. plan.hi
         BY <1>1, <1>9, <2>1 DEF RecordsHeld
    <3>1. KeptIn(segs, manifest, records[i]) \/ records[i].gen \in plan.lo .. plan.hi
          BY <1>1 DEF HeldInv, RecordsHeld, Scanned, Mounted
    <3>. QED BY <1>8, <3>1
  <2>3. OutputsKept'
    <3>1. /\ plan.outs = OutputSegs(Cardinality(RecordsIn(plan.lo, plan.hi)))
          /\ \A k \in 0 .. plan.outs - 1 :
                plan.first + k \in LiveGens(manifest) /\ OutputWritten(k)
          BY <1>1 DEF HeldInv, OutputsKept
    <3>2. (OutputSegs(Cardinality(RecordsIn(plan.lo, plan.hi))))' = plan.outs
      <4>1. (RecordsIn(plan.lo, plan.hi))' = RecordsIn(plan.lo, plan.hi)
            BY <1>9, <2>1 DEF RecordsIn
      <4>. QED BY <3>1, <4>1 DEF OutputSegs
    <3>3. ASSUME NEW k \in 0 .. plan.outs - 1
          PROVE  plan.first + k \in LiveGens(manifest') /\ OutputWritten(k)'
      <4>1. plan.first + k \in LiveGens(manifest) /\ OutputWritten(k)
            BY <3>1
      <4>2. plan.first + k \in DOMAIN segs' /\ segs'[plan.first + k] = segs[plan.first + k]
            BY <1>6, <4>1 DEF OutputWritten
      <4>. QED BY <1>7, <1>9, <2>1, <4>1, <4>2, OutputsStay
    <3>. QED BY <1>1, <1>9, <2>1, <3>2, <3>3 DEF OutputsKept
  <2>4. CursorLive'
        BY <1>1, <1>9 DEF CursorLive
  <2>. QED BY <2>2, <2>3, <2>4 DEF HeldInv
<1>10. CASE plan' = NoPlan /\ pc' \in {"idle", "admit"} /\ records' = Relocated
  <2>1. RecordsHeld'
    <3>. SUFFICES ASSUME NEW i \in DOMAIN Relocated PROVE KeptIn(segs', manifest', Relocated[i])
         BY <1>10 DEF RecordsHeld
    <3>1. i \in DOMAIN records
          BY DEF Relocated
    <3>2. KeptIn(segs, manifest, Relocated[i])
          BY <1>1, <3>1, RelocatedHeld
    <3>. QED BY <1>8, <3>2
  <2>2. OutputsKept' /\ CursorLive'
        BY <1>10 DEF OutputsKept, CursorLive
  <2>. QED BY <2>1, <2>2 DEF HeldInv
<1>. QED BY <1>5, <1>9, <1>10

\* The steps that touch neither the records nor the manifest.
LEMMA HeldSameRecords ==
    ASSUME CompactInv, HeldInv, LiveGrow,
           \/ TruncateTail \/ MountDone \/ ReplayDone \/ Calling \/ Admit \/ PlaceEvent \/ CreateTail
           \/ CompactIdle \/ ReclaimDeadFrontSegment \/ CompactForAdmission \/ QueueFull
           \/ ResolveAfterRotation \/ Enqueue \/ EvictFront \/ RetryEnqueue
    PROVE  HeldInv'
<1>1. \A lo, hi : Resolve(lo, hi) => pc' \in {"publish", "write"} /\ plan'.done = 0
      BY DEF Resolve
<1>2. \A in : BeginCompaction(in) => pc' \in {"create", "publish", "write"}
                                     /\ (pc' \in {"publish", "write"} => plan'.done = 0)
      BY <1>1 DEF BeginCompaction
<1>3. /\ UNCHANGED <<manifest, records>> /\ pc # "cleanup" /\ (pc = "replay" \/ Scanned)
      /\ pc' \notin {"replay", "cleanup"}
      /\ pc' \in {"write", "publish"} => plan'.done = 0
  <2>1. CASE TruncateTail \/ MountDone \/ ReplayDone
        BY <2>1 DEF TruncateTail, MountDone, ReplayDone, AtSegmentEnd, disk, ram, Scanned
  <2>2. CASE Calling \/ Admit \/ PlaceEvent \/ CreateTail \/ QueueFull
        BY <2>2 DEF Calling, CommitEnqueue, RewriteRecord, CommitPop, MayStart, Admit, PlaceEvent,
                    CreateTail, QueueFull, disk, ram, Scanned, Mounted
  <2>3. CASE CompactIdle \/ ReclaimDeadFrontSegment \/ CompactForAdmission
        BY <1>2, <2>3 DEF CompactIdle, ReclaimDeadFrontSegment, CompactForAdmission, MayStart, disk,
                    RamButSealed, Scanned, Mounted
  <2>4. CASE ResolveAfterRotation
        BY <1>1, <2>4 DEF ResolveAfterRotation, disk, ram, Scanned, Mounted
  <2>5. CASE Enqueue
        BY <1>2, <2>5 DEF Enqueue, MayStart, disk, RamButSealed, Scanned, Mounted
  <2>6. CASE EvictFront \/ RetryEnqueue
        BY <2>6 DEF EvictFront, RetryEnqueue, NoRoom, disk, ram, Scanned, Mounted
  <2>. QED BY <2>1, <2>2, <2>3, <2>4, <2>5, <2>6
<1>4. HasManifest => HasManifest' /\ LiveGens(manifest) \subseteq LiveGens(manifest')
      BY <1>3 DEF HasManifest
<1>. QED BY <1>3, <1>4, HeldQuiet

LEMMA HeldStep ==
    ASSUME QueueInv, HeldInv, [QNext]_qvars, ShrinkKeepsPrefix
    PROVE  HeldInv'
<1>1. CompactInv /\ LiveGrow
      BY QueueStoreStep DEF QueueInv
<1>2. CASE UNCHANGED vars
  <2>1. \A k : OutputWritten(k) => OutputWritten(k)'
        BY <1>2 DEF OutputWritten, vars, disk, ram
  <2>2. (OutputSegs(Cardinality(RecordsIn(plan.lo, plan.hi))))'
            = OutputSegs(Cardinality(RecordsIn(plan.lo, plan.hi)))
        BY <1>2 DEF OutputSegs, RecordsIn, vars, ram
  <2>3. OutputsKept'
        BY <1>2, <2>1, <2>2 DEF HeldInv, OutputsKept, vars, disk
  <2>4. RecordsHeld' /\ CursorLive'
        BY <1>2 DEF HeldInv, RecordsHeld, CursorLive, Scanned, Mounted, vars, disk, ram
  <2>. QED BY <2>3, <2>4 DEF HeldInv
<1>3. CASE ReplayUnreadable \/ ReplayTornSealed
      BY <1>3, HeldDown DEF ReplayUnreadable, ReplayTornSealed, FailMount
<1>4. CASE MountBegin \/ ReplayEvent \/ ReplayNextSegment
      BY <1>1, <1>4, HeldMountBegin, HeldReplayEvent, HeldReplayNextSegment
<1>5. CASE PublishTail \/ AppendEvent
      BY <1>1, <1>5, HeldPublishTail, HeldAppendEvent
<1>6. CASE PowerLoss \/ WriteError \/ PublishRefused
      BY <1>1, <1>6, HeldFailure
<1>7. CASE WriteOutput \/ PublishCompaction \/ CleanupInput
      BY <1>1, <1>7, HeldWriteOutput, HeldPublishCompaction, HeldCleanupInput
<1>8. CASE \/ TruncateTail \/ MountDone \/ ReplayDone \/ Calling \/ Admit \/ PlaceEvent \/ CreateTail
           \/ CompactIdle \/ ReclaimDeadFrontSegment \/ CompactForAdmission \/ QueueFull
           \/ ResolveAfterRotation \/ Enqueue \/ EvictFront \/ RetryEnqueue
      BY <1>1, <1>8, HeldSameRecords
<1>9. CNext => \/ ReplayUnreadable \/ ReplayTornSealed \/ MountBegin \/ ReplayEvent
               \/ ReplayNextSegment \/ PublishTail \/ AppendEvent \/ PowerLoss \/ WriteError
               \/ PublishRefused \/ WriteOutput \/ PublishCompaction \/ CleanupInput
               \/ TruncateTail \/ MountDone \/ ReplayDone \/ Calling \/ Admit \/ PlaceEvent
               \/ CreateTail \/ CompactIdle \/ ReclaimDeadFrontSegment \/ CompactForAdmission
               \/ QueueFull \/ ResolveAfterRotation
      BY DEF CNext, Next, Mounting, Working, Failing, Compacting
<1>10. CNext \/ Enqueue \/ EvictFront \/ RetryEnqueue \/ UNCHANGED vars
      BY StoreOrQueue DEF qvars
<1>. QED BY <1>2, <1>3, <1>4, <1>5, <1>6, <1>7, <1>8, <1>9, <1>10

\* A record in RAM is where RAM says it is, in every mounted state between two
\* compactions: mount() located it, or commitEnqueue() and rewriteRecord() wrote it,
\* and compactRange() points it at its copy once its old file may be removed.
THEOREM QueueReadsBack ==
    ASSUME ShrinkKeepsPrefix
    PROVE  QSpec => []ReadsBack
<1>1. QInit => QueueInv /\ HeldInv
      BY QueueInit DEF QInit, Init, HeldInv, RecordsHeld, OutputsKept, CursorLive, Scanned, Mounted
<1>2. QueueInv /\ HeldInv /\ [QNext]_qvars => QueueInv' /\ HeldInv'
      BY QueueStep, HeldStep
<1>3. HeldInv => ReadsBack
      BY DEF HeldInv, RecordsHeld, ReadsBack, KeptIn, Holds, Scanned
<1>. QED BY <1>1, <1>2, <1>3, PTL DEF QSpec
=============================================================================
