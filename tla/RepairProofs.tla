---------------------------- MODULE RepairProofs ----------------------------
(***************************************************************************)
(* Proofs about Repair: whoever mounts after a format() that was cut short   *)
(* finds the whole queue or none of it, a format() that returns leaves       *)
(* nothing, and validate() and mount() agree about every store.              *)
(***************************************************************************)
EXTENDS Repair, AppendLogStoreProofs

-----------------------------------------------------------------------------
(* What the mount measures and validate() measures again.                   *)

\* The end of each event in a file, as validate() counts them.
Ends(es) == CHOOSE upTo : upTo = [n \in 0..Len(es) |->
                IF n = 0 THEN HeaderBytes ELSE upTo[n - 1] + BytesOf(es[n])]

LEMMA BytesAreEnds ==
    ASSUME NEW g
    PROVE  EventBytes(g) = Ends(segs[g].events)[Len(segs[g].events)]
BY DEF EventBytes, Ends

LEMMA EndsAreSums ==
    ASSUME NEW es \in Seq(Event)
    PROVE  /\ Ends(es)[0] = HeaderBytes
           /\ \A n \in 1 .. Len(es) : Ends(es)[n] = Ends(es)[n - 1] + BytesOf(es[n])
<1>. DEFINE m == Len(es)
            w == [n \in 1 .. m |-> BytesOf(es[n])]
<1>1. /\ HeaderBytes \in Nat /\ m \in Nat
      /\ \A n \in 1 .. m : BytesOf(es[n]) \in Nat
      BY LenProperties, StoreConstants DEF BytesOf
<1>2. \A n \in 1 .. m : w[n] = BytesOf(es[n]) /\ w[n] \in Nat
      BY <1>1
<1>. HIDE DEF w, m
<1>3. PICK f : f = [n \in 0 .. m |-> IF n = 0 THEN HeaderBytes ELSE f[n - 1] + w[n]]
      BY <1>1, <1>2, RunningTotals
<1>. USE DEF m
<1>4. \A n \in 0 .. Len(es) : n = 0 \/ f[n - 1] + w[n] = f[n - 1] + BytesOf(es[n])
      BY <1>1, <1>2
<1>5. f = [n \in 0 .. Len(es) |-> IF n = 0 THEN HeaderBytes ELSE f[n - 1] + BytesOf(es[n])]
      BY <1>3, <1>4
<1>6. Ends(es) = [n \in 0 .. Len(es) |->
                     IF n = 0 THEN HeaderBytes ELSE Ends(es)[n - 1] + BytesOf(es[n])]
      BY <1>5 DEF Ends
<1>7. \A n \in 0 .. Len(es) :
          Ends(es)[n] = IF n = 0 THEN HeaderBytes ELSE Ends(es)[n - 1] + BytesOf(es[n])
      BY <1>6
<1>. QED BY <1>1, <1>7

-----------------------------------------------------------------------------
(* The inductive invariant.                                                 *)

FormatPhase == pc \in {"formatSegs", "formatA", "formatB"}

\* The two slot files, the cell they make up, and the segment files as a function.
SlotFacts ==
    /\ slots \in [1..2 -> Manifest \cup {NoManifest, TornManifest}]
    /\ newest \in 1..2 /\ manifest = InForce(slots, newest)
    /\ \A k \in 1..2 : Parses(slots[k]) => Ascending(slots[k])
    /\ formatting \in BOOLEAN
    /\ segs = [g \in DOMAIN segs |-> segs[g]]

\* What the files hold, wherever format() stands: the queue, unless one is missing.
DiskIsQueue ==
    HasManifest /\ Intact(segs, manifest) =>
        \E t \in Traces : Remembers(segs, manifest, t, queue)

\* format() at work: the segments first, then one slot after the other.
FormatFacts ==
    /\ formatting /\ call = Idle /\ plan = NoPlan
    /\ SegmentFiles(segs) /\ scan \in [r : Nat \ {0}, gen : Nat, ev : Nat \ {0}]
    /\ queue \in Seq(Val) /\ issued \in 0 .. MaxValues /\ failures \in 0 .. MaxFailures
    /\ DiskIsQueue /\ NoLog /\ Consecutive(records)
    /\ IF pc = "formatSegs" THEN doomed = DOMAIN segs ELSE doomed = {} /\ segs = <<>>
    /\ pc = "formatB" => slots[1] = NoManifest

\* The scan has counted the bytes of the events it read, and found none behind the
\* last event of a sealed file.
ScanFacts ==
    pc = "replay" =>
        /\ SegmentReadable(scan.gen) => tailBytes = Ends(segs[scan.gen].events)[scan.ev - 1]
        /\ \A g \in GensOf(manifest.ranges) : g < scan.gen => ~Leftover(g)

\* Why a mount failed, and what one that got through has seen.
FailFacts ==
    pc = "failed" =>
        IF HasManifest THEN \/ \E g \in LiveGens(manifest) : ~SegmentReadable(g)
                            \/ \E g \in GensOf(manifest.ranges) : Leftover(g)
        ELSE DOMAIN segs # {}
PassFacts ==
    pc \in {"truncate", "sweep"} =>
        IF HasManifest THEN /\ \A g \in LiveGens(manifest) : g # manifest.tail => SegmentReadable(g)
                            /\ \A g \in GensOf(manifest.ranges) : ~Leftover(g)
                            /\ manifest.tail \in DOMAIN segs
                            /\ segs[manifest.tail].size >= HeaderBytes
        ELSE DOMAIN segs = {}

RInv == /\ SlotFacts
        /\ ~FormatPhase => LogInv /\ doomed = {}
        /\ FormatPhase => FormatFacts
        /\ ScanFacts /\ FailFacts /\ PassFacts

LEMMA InForceIsASlot ==
    ASSUME NEW ss \in [1..2 -> Manifest \cup {NoManifest, TornManifest}], NEW n \in 1..2
    PROVE  /\ InForce(ss, n) \in Manifest \cup {NoManifest, TornManifest}
           /\ Parses(InForce(ss, n)) => \E k \in 1..2 : InForce(ss, n) = ss[k]
           /\ Parses(ss[n]) => InForce(ss, n) = ss[n]
<1>1. n \in 1..2 /\ 3 - n \in 1..2
      OBVIOUS
<1>. QED BY <1>1 DEF InForce, Parses

LEMMA ParsesIsHas == Parses(manifest) <=> HasManifest
BY DEF Parses, HasManifest

LEMMA RepairInit == RInit => RInv
<1>. SUFFICES ASSUME RInit PROVE RInv
     OBVIOUS
<1>1. LogInv /\ pc = "down" /\ segs = <<>> /\ manifest = NoManifest
      BY LogInit DEF RInit, Init, Unmounted
<1>2. SlotFacts
  <2>1. slots = <<NoManifest, NoManifest>> /\ newest = 1 /\ formatting = FALSE
        BY DEF RInit
  <2>2. slots \in [1..2 -> Manifest \cup {NoManifest, TornManifest}] /\ slots[1] = NoManifest
        /\ slots[2] = NoManifest
        BY <2>1
  <2>3. <<>> = [g \in DOMAIN <<>> |-> <<>>[g]]
        OBVIOUS
  <2>4. manifest = InForce(slots, newest) /\ \A k \in 1..2 : ~Parses(slots[k])
        BY <1>1, <2>1, <2>2 DEF InForce, Parses
  <2>5. segs = [g \in DOMAIN segs |-> segs[g]]
    <3>1. segs = <<>>
          BY <1>1
    <3>. QED BY <2>3, <3>1, Zenon
  <2>6. newest \in 1..2
        BY <2>1
  <2>7. formatting \in BOOLEAN
        BY <2>1, Zenon
  <2>. QED BY <2>2, <2>4, <2>5, <2>6, <2>7 DEF SlotFacts
<1>. QED BY <1>1, <1>2 DEF RInv, RInit, FormatPhase, ScanFacts, FailFacts, PassFacts

\* Every step of the store leaves the segment files a function of their generations.
LEMMA FilesStay ==
    ASSUME segs = [g \in DOMAIN segs |-> segs[g]], [Next]_vars, plan = NoPlan
    PROVE  segs' = [g \in DOMAIN segs' |-> segs'[g]]
<1>1. \A g, s : WithSegment(segs, g, s) = [h \in DOMAIN WithSegment(segs, g, s) |->
                                              WithSegment(segs, g, s)[h]]
      BY DEF WithSegment
<1>2. \A g : Without(segs, g) = [h \in DOMAIN Without(segs, g) |-> Without(segs, g)[h]]
      BY DEF Without
<1>3. \A g, s : [segs EXCEPT ![g] = s] = [h \in DOMAIN [segs EXCEPT ![g] = s] |->
                                             [segs EXCEPT ![g] = s][h]]
      OBVIOUS
<1>4. \/ UNCHANGED segs
      \/ \E g, s : segs' = WithSegment(segs, g, s)
      \/ \E g : segs' = Without(segs, g)
      \/ \E g, s : segs' = [segs EXCEPT ![g] = s]
  <2>1. CASE Mounting
        BY <2>1 DEF Mounting, MountBegin, ReplayUnreadable, FailMount, ReplayEvent, ReplayTornSealed,
                    ReplayNextSegment, ReplayDone, TruncateTail, MountDone, disk
  <2>2. CASE Calling \/ Working
        BY <2>2 DEF Calling, CommitEnqueue, RewriteRecord, CommitPop, Working, Admit, PlaceEvent,
                    CreateTail, PublishTail, AppendEvent, PublishRefused, disk
  <2>3. CASE Unwritten \/ PartialWrite
        BY <2>3 DEF Unwritten, PartialWrite, disk
  <2>. QED BY <2>1, <2>2, <2>3 DEF Next, Failing, PowerLoss, WriteError, vars, disk
<1>. QED BY <1>1, <1>2, <1>3, <1>4

-----------------------------------------------------------------------------
(* The steps of the mount, and what it has seen of the files.               *)

\* The sealed files are older than the tail.
LEMMA SealedAreOlder ==
    ASSUME NEW m \in Manifest, Ascending(m)
    PROVE  /\ m.tail \in Nat /\ LiveGens(m) = GensOf(m.ranges) \cup {m.tail}
           /\ \A g \in GensOf(m.ranges) : g \in LiveGens(m) /\ g \in Nat /\ g < m.tail
<1>1. m.tail \in Nat /\ \A i \in DOMAIN m.ranges : \A g \in m.ranges[i].lo .. m.ranges[i].hi : g < m.tail
      BY LiveOrder DEF Gen
<1>2. \A g \in GensOf(m.ranges) : g \in LiveGens(m) /\ g \in Nat
      BY LiveOrder DEF LiveGens
<1>3. \A g \in GensOf(m.ranges) : g < m.tail
      BY <1>1 DEF GensOf
<1>. QED BY <1>1, <1>2, <1>3 DEF LiveGens

\* A file keeps its end where its events and its size stay.
LEMMA SameLeftover ==
    ASSUME NEW g, UNCHANGED segs[g]
    PROVE  Leftover(g)' <=> Leftover(g)
<1>1. EventBytes(g) = Ends(segs[g].events)[Len(segs[g].events)]
      BY BytesAreEnds
<1>2. EventBytes(g)' = Ends(segs'[g].events)[Len(segs'[g].events)]
      BY DEF EventBytes, Ends
<1>. QED BY <1>1, <1>2 DEF Leftover

LEMMA SeenMountBegin ==
    ASSUME LogInv, LogInv', MountBegin
    PROVE  ScanFacts' /\ FailFacts' /\ PassFacts'
<1>1. UNCHANGED <<segs, manifest>> /\ pc' \in {"replay", "sweep", "failed"}
      BY DEF MountBegin, disk
<1>2. CASE HasManifest
  <2>1. pc' = "replay" /\ scan' = StartScan(manifest) /\ tailBytes' = HeaderBytes
        BY <1>2 DEF MountBegin
  <2>2. manifest \in Manifest /\ Ascending(manifest)
        BY <1>2 DEF LogInv, TypeInv, TypeOK, HasManifest, OrderFacts
  <2>. DEFINE g == StartScan(manifest).gen
  <2>3. scan'.gen = g /\ scan'.ev = 1 /\ scan'.ev - 1 = 0
        BY <2>1 DEF StartScan
  <2>4. \A h \in GensOf(manifest.ranges) : ~(h < g)
    <3>1. \A h \in LiveGens(manifest) : g <= h
          BY <2>2, ScanStartsLowest
    <3>2. g \in LiveGens(manifest)
          BY <2>2, ScanStartsLowest
    <3>3. g \in Nat /\ \A h \in GensOf(manifest.ranges) : h \in Nat /\ h \in LiveGens(manifest)
          BY <2>2, <3>2, LiveOrder, SealedAreOlder
    <3>. HIDE DEF g
    <3>. QED BY <3>1, <3>3
  <2>5. g \in DOMAIN segs => Ends(segs[g].events)[0] = HeaderBytes
    <3>1. g \in DOMAIN segs => segs[g].events \in Seq(Event)
          BY DEF LogInv, TypeInv, TypeOK, SegmentFiles, Segment
    <3>. QED BY <3>1, EndsAreSums
  <2>6. ScanFacts'
    <3>. HIDE DEF g
    <3>1. SegmentReadable(scan.gen)' => g \in DOMAIN segs
          BY <1>1, <2>3 DEF SegmentReadable
    <3>. QED BY <1>1, <2>1, <2>3, <2>4, <2>5, <3>1 DEF ScanFacts
  <2>. QED BY <2>1, <2>6 DEF FailFacts, PassFacts
<1>3. CASE ~HasManifest
  <2>1. ~HasManifest' /\ pc' = IF DOMAIN segs = {} THEN "sweep" ELSE "failed"
        BY <1>1, <1>3 DEF MountBegin, HasManifest
  <2>. QED BY <1>1, <2>1 DEF ScanFacts, FailFacts, PassFacts
<1>. QED BY <1>2, <1>3

LEMMA SeenReplayEvent ==
    ASSUME LogInv, ScanFacts, ReplayEvent
    PROVE  ScanFacts'
<1>1. /\ UNCHANGED <<segs, manifest>> /\ pc = "replay" /\ SegmentReadable(scan.gen)
      /\ scan.ev <= Len(segs[scan.gen].events) /\ scan' = [scan EXCEPT !.ev = @ + 1]
      /\ tailBytes' = tailBytes + BytesOf(segs[scan.gen].events[scan.ev])
      BY DEF ReplayEvent, disk
<1>2. /\ scan \in [r : Nat \ {0}, gen : Nat, ev : Nat \ {0}]
      /\ segs[scan.gen].events \in Seq(Event)
      BY <1>1 DEF LogInv, TypeInv, TypeOK, SegmentFiles, Segment, SegmentReadable
<1>. DEFINE es == segs[scan.gen].events
<1>3. scan'.gen = scan.gen /\ scan'.ev - 1 = scan.ev /\ scan.ev \in 1 .. Len(es)
      BY <1>1, <1>2
<1>4. Ends(es)[scan.ev] = Ends(es)[scan.ev - 1] + BytesOf(es[scan.ev])
      BY <1>2, <1>3, EndsAreSums
<1>5. tailBytes = Ends(es)[scan.ev - 1]
      BY <1>1 DEF ScanFacts
<1>6. tailBytes' = Ends(es)[scan'.ev - 1]
      BY <1>1, <1>3, <1>4, <1>5
<1>7. \A g \in GensOf(manifest.ranges) : g < scan.gen => ~Leftover(g) /\ ~Leftover(g)'
      BY <1>1, SameLeftover DEF ScanFacts
<1>. QED BY <1>1, <1>3, <1>6, <1>7 DEF ScanFacts

\* At the end of a file the bytes counted are those of all of its events.
LEMMA CountedAll ==
    ASSUME LogInv, ScanFacts, AtSegmentEnd
    PROVE  /\ tailBytes = EventBytes(scan.gen) /\ tailBytes \in Nat
           /\ segs[scan.gen].size \in Nat
           /\ Leftover(scan.gen) <=> tailBytes < segs[scan.gen].size
<1>1. /\ pc = "replay" /\ SegmentReadable(scan.gen) /\ scan.ev - 1 = Len(segs[scan.gen].events)
      BY EndOfFile
<1>2. tailBytes = EventBytes(scan.gen)
      BY <1>1, BytesAreEnds DEF ScanFacts
<1>3. tailBytes \in Nat /\ segs[scan.gen].size \in Nat
      BY <1>1 DEF LogInv, TypeInv, TypeOK, SegmentFiles, Segment, SegmentReadable
<1>. QED BY <1>2, <1>3 DEF Leftover

LEMMA SeenNextSegment ==
    ASSUME LogInv, ScanFacts, ReplayNextSegment
    PROVE  ScanFacts'
<1>. DEFINE g == scan.gen
            h == NextGenOf(manifest, scan.r, g)
<1>1. /\ UNCHANGED <<segs, manifest>> /\ AtSegmentEnd /\ ~(scan.r > Len(ranges))
      /\ pc = "replay" /\ pc' = "replay" /\ tailBytes >= segs[scan.gen].size
      /\ tailBytes' = HeaderBytes
      /\ scan' = IF scan.gen < ranges[scan.r].hi
                 THEN [r |-> scan.r, ev |-> 1, gen |-> scan.gen + 1]
                 ELSE [r |-> scan.r + 1, ev |-> 1,
                       gen |-> IF scan.r < Len(ranges) THEN ranges[scan.r + 1].lo
                               ELSE manifest.tail]
      BY DEF ReplayNextSegment, OnLastSegment, AtSegmentEnd, disk
<1>2. /\ manifest \in Manifest /\ Ascending(manifest) /\ ranges = manifest.ranges
      /\ scan.r \in 1 .. Len(manifest.ranges) /\ scan.gen \in Nat
      BY <1>1, ScanIsLive
<1>3. g \in manifest.ranges[scan.r].lo .. manifest.ranges[scan.r].hi
      BY <1>1, <1>2 DEF LogInv, CursorFacts
<1>4. h \in LiveGens(manifest) /\ g < h /\ \A x \in LiveGens(manifest) : x <= g \/ h <= x
      BY <1>2, <1>3, ScanSkipsNone
<1>5. scan'.gen = h /\ scan'.ev - 1 = 0
      BY <1>1, <1>2 DEF NextGenOf
<1>6. ~Leftover(g)
      BY <1>1, CountedAll
<1>7. \A x \in GensOf(manifest.ranges) : x < h => ~Leftover(x)'
  <2>. SUFFICES ASSUME NEW x \in GensOf(manifest.ranges), x < h PROVE ~Leftover(x)'
       OBVIOUS
  <2>1. x \in LiveGens(manifest) /\ x \in Nat /\ h \in Nat
        BY <1>2, <1>4, SealedAreOlder, LiveOrder
  <2>2. x < g \/ x = g
    <3>. HIDE DEF h
    <3>. QED BY <1>2, <1>4, <2>1
  <2>3. ~Leftover(x)
        BY <1>1, <1>6, <2>2 DEF ScanFacts
  <2>. QED BY <1>1, <2>3, SameLeftover
<1>8. h \in DOMAIN segs => Ends(segs[h].events)[0] = HeaderBytes
  <2>1. h \in DOMAIN segs => segs[h].events \in Seq(Event)
        BY DEF LogInv, TypeInv, TypeOK, SegmentFiles, Segment
  <2>. QED BY <2>1, EndsAreSums
<1>. HIDE DEF h
<1>9. segs' = segs /\ manifest' = manifest /\ tailBytes' = HeaderBytes
      BY <1>1
<1>10. SegmentReadable(scan.gen)' => tailBytes' = Ends(segs'[scan'.gen].events)[scan'.ev - 1]
       BY <1>5, <1>8, <1>9 DEF SegmentReadable
<1>11. \A x \in GensOf(manifest'.ranges) : x < scan'.gen => ~Leftover(x)'
       BY <1>5, <1>7, <1>9
<1>. QED BY <1>10, <1>11 DEF ScanFacts

LEMMA SeenReplayDone ==
    ASSUME LogInv, ScanFacts, ReplayDone
    PROVE  PassFacts'
<1>1. /\ UNCHANGED <<segs, manifest>> /\ AtSegmentEnd /\ pc = "replay" /\ scan.r > Len(ranges)
      BY DEF ReplayDone, AtSegmentEnd, OnLastSegment, disk
<1>2. /\ HasManifest /\ manifest \in Manifest /\ Ascending(manifest)
      /\ scan.gen = manifest.tail /\ SegmentReadable(scan.gen)
      BY <1>1, ScanIsLive, EndOfFile DEF LogInv, TypeInv, ReplayFacts
<1>3. \A g \in GensOf(manifest.ranges) : g < manifest.tail /\ SegmentReadable(g) /\ ~Leftover(g)
  <2>1. \A g \in GensOf(manifest.ranges) : g \in LiveGens(manifest) /\ g < manifest.tail
        BY <1>2, SealedAreOlder
  <2>. QED BY <1>1, <1>2, <2>1 DEF LogInv, CursorFacts, ScanFacts
<1>4. \A g \in GensOf(manifest.ranges) : ~Leftover(g)'
      BY <1>1, <1>3, SameLeftover
<1>5. \A g \in LiveGens(manifest) : g # manifest.tail => g \in GensOf(manifest.ranges)
      BY <1>2, SealedAreOlder
<1>6. \A g \in LiveGens(manifest) : g # manifest.tail => SegmentReadable(g)'
      BY <1>1, <1>3, <1>5 DEF SegmentReadable
<1>7. HasManifest' /\ manifest' = manifest /\ segs' = segs
      BY <1>1, <1>2 DEF HasManifest
<1>8. manifest.tail \in DOMAIN segs /\ segs[manifest.tail].size >= HeaderBytes
      BY <1>2 DEF SegmentReadable
<1>. QED BY <1>4, <1>6, <1>7, <1>8 DEF PassFacts

LEMMA SeenMountFails ==
    ASSUME LogInv, ScanFacts, ReplayUnreadable \/ ReplayTornSealed
    PROVE  FailFacts'
<1>1. UNCHANGED <<segs, manifest>> /\ pc = "replay"
      BY DEF ReplayUnreadable, ReplayTornSealed, AtSegmentEnd, FailMount, disk
<1>2. /\ HasManifest /\ manifest \in Manifest /\ Ascending(manifest) /\ ranges = manifest.ranges
      /\ scan.gen \in LiveGens(manifest) /\ scan.r \in Nat \ {0} /\ Len(ranges) \in Nat
      BY <1>1, ScanIsLive
<1>3. HasManifest' /\ manifest' = manifest /\ segs' = segs
      BY <1>1, <1>2 DEF HasManifest
<1>4. CASE ReplayUnreadable
  <2>1. ~SegmentReadable(scan.gen)
        BY <1>4 DEF ReplayUnreadable
  <2>2. \E g \in LiveGens(manifest) : ~SegmentReadable(g)
        BY <1>2, <2>1
  <2>3. \E g \in LiveGens(manifest') : ~SegmentReadable(g)'
        BY <1>3, <2>2 DEF SegmentReadable
  <2>. QED BY <1>3, <2>3 DEF FailFacts
<1>5. CASE ReplayTornSealed
  <2>1. AtSegmentEnd /\ tailBytes < segs[scan.gen].size /\ ~(scan.r > Len(ranges))
        BY <1>5 DEF ReplayTornSealed, OnLastSegment
  <2>2. scan.gen \in GensOf(manifest.ranges)
    <3>1. scan.r \in 1 .. Len(manifest.ranges)
          BY <1>2, <2>1
    <3>2. scan.gen \in manifest.ranges[scan.r].lo .. manifest.ranges[scan.r].hi
          BY <1>1, <1>2, <3>1 DEF LogInv, CursorFacts
    <3>3. scan.r \in DOMAIN manifest.ranges
          BY <1>2, <3>1, LiveOrder
    <3>. QED BY <3>2, <3>3 DEF GensOf
  <2>3. Leftover(scan.gen)
        BY <2>1, CountedAll
  <2>4. \E g \in GensOf(manifest.ranges) : Leftover(g)'
        BY <1>1, <2>2, <2>3, SameLeftover
  <2>. QED BY <1>3, <2>4 DEF FailFacts
<1>. QED BY <1>4, <1>5

LEMMA SeenTruncate ==
    ASSUME LogInv, PassFacts, TruncateTail
    PROVE  PassFacts'
<1>1. /\ UNCHANGED manifest /\ pc = "truncate" /\ HasManifest /\ tail = manifest.tail
      /\ tail \in DOMAIN segs /\ tailBytes >= HeaderBytes
      /\ manifest \in Manifest /\ Ascending(manifest) /\ segs[tail] \in Segment
      BY DEF TruncateTail, LogInv, TypeInv, TypeOK, SegmentFiles, TailFacts, RamFacts, OrderFacts,
             HasManifest, Scanned
<1>2. /\ DOMAIN segs' = DOMAIN segs
      /\ \A g \in DOMAIN segs : g # tail => segs'[g] = segs[g]
      /\ segs'[tail].size >= HeaderBytes
  <2>1. CASE UNCHANGED segs
        BY <1>1, <2>1 DEF PassFacts
  <2>2. CASE segs' = WithSegment(segs, tail, Shrunk(segs[tail], tailBytes))
    <3>1. Shrunk(segs[tail], tailBytes).size = tailBytes
          BY <1>1 DEF Shrunk, Segment
    <3>. QED BY <1>1, <2>2, <3>1 DEF WithSegment
  <2>. QED BY <2>1, <2>2 DEF TruncateTail
<1>3. \A g \in GensOf(manifest.ranges) : g \in LiveGens(manifest) /\ g # manifest.tail
      BY <1>1, SealedAreOlder
<1>4. \A g \in LiveGens(manifest) : g # manifest.tail => g \in DOMAIN segs /\ segs'[g] = segs[g]
      BY <1>1, <1>2 DEF PassFacts, SegmentReadable
<1>5. \A g \in GensOf(manifest.ranges) : ~Leftover(g)'
      BY <1>1, <1>3, <1>4, SameLeftover DEF PassFacts
<1>6. \A g \in LiveGens(manifest) : g # manifest.tail => SegmentReadable(g)'
      BY <1>1, <1>2, <1>4 DEF PassFacts, SegmentReadable
<1>7. HasManifest' /\ manifest' = manifest
      BY <1>1 DEF HasManifest
<1>. QED BY <1>1, <1>2, <1>5, <1>6, <1>7 DEF PassFacts

LEMMA SeenStep ==
    ASSUME LogInv, LogInv', ScanFacts, FailFacts, PassFacts, [Next]_vars
    PROVE  ScanFacts' /\ FailFacts' /\ PassFacts'
<1>1. CASE MountBegin
      BY <1>1, SeenMountBegin
<1>2. CASE ReplayEvent \/ ReplayNextSegment
  <2>1. pc' = "replay"
        BY <1>2 DEF ReplayEvent, ReplayNextSegment, AtSegmentEnd
  <2>. QED BY <1>2, <2>1, SeenReplayEvent, SeenNextSegment DEF FailFacts, PassFacts
<1>3. CASE ReplayDone
  <2>1. pc' \in {"truncate", "sweep"}
        BY <1>3 DEF ReplayDone
  <2>. QED BY <1>3, <2>1, SeenReplayDone DEF ScanFacts, FailFacts
<1>4. CASE ReplayUnreadable \/ ReplayTornSealed
  <2>1. pc' = "failed"
        BY <1>4 DEF ReplayUnreadable, ReplayTornSealed, FailMount
  <2>. QED BY <1>4, <2>1, SeenMountFails DEF ScanFacts, PassFacts
<1>5. CASE TruncateTail
  <2>1. pc' = "sweep"
        BY <1>5 DEF TruncateTail
  <2>. QED BY <1>5, <2>1, SeenTruncate DEF ScanFacts, FailFacts
<1>6. CASE MountDone \/ Calling \/ Working \/ Failing
  <2>1. pc' \notin {"replay", "failed", "truncate", "sweep"}
        BY <1>6 DEF MountDone, Calling, CommitEnqueue, RewriteRecord, CommitPop, Working, Admit,
                    PlaceEvent, CreateTail, PublishTail, AppendEvent, PublishRefused, ReturnError,
                    Failing, PowerLoss, WriteError
  <2>. QED BY <2>1 DEF ScanFacts, FailFacts, PassFacts
<1>7. CASE UNCHANGED vars
  <2>1. UNCHANGED <<segs, manifest, pc, scan, tailBytes>>
        BY <1>7 DEF vars, disk, ram
  <2>2. \A g : Leftover(g)' <=> Leftover(g)
        BY <2>1, SameLeftover
  <2>. QED BY <2>1, <2>2 DEF ScanFacts, FailFacts, PassFacts, HasManifest, SegmentReadable
<1>. QED BY <1>1, <1>2, <1>3, <1>4, <1>5, <1>6, <1>7 DEF Next, Mounting

-----------------------------------------------------------------------------
(* The steps of the store, with its slots.                                  *)

LEMMA StoreIsNotFormatting == ASSUME LogInv' PROVE ~FormatPhase'
BY DEF LogInv, TypeInv, TypeOK, Phases, FormatPhase

\* A step of the store that writes no slot.
LEMMA SlotsUntouched ==
    ASSUME RInv, ~FormatPhase, [Next]_vars, UNCHANGED <<manifest, slots, newest>>,
           formatting' \in BOOLEAN, doomed' = {}
    PROVE  RInv'
<1>0. LogInv /\ LogInv'
      BY LogStep DEF RInv
<1>1. LogInv /\ LogInv' /\ ~FormatPhase' /\ plan = NoPlan
      BY <1>0, StoreIsNotFormatting DEF LogInv, Plain
<1>2. segs' = [g \in DOMAIN segs' |-> segs'[g]]
      BY <1>1, FilesStay DEF RInv, SlotFacts
<1>3. SlotFacts'
      BY <1>2 DEF RInv, SlotFacts
<1>4. ScanFacts' /\ FailFacts' /\ PassFacts'
      BY <1>1, SeenStep DEF RInv
<1>. QED BY <1>1, <1>3, <1>4 DEF RInv

LEMMA RepairQuietStore ==
    ASSUME RInv, \/ RMounting \/ RCalling \/ AskFormat
                 \/ (Admit \/ PlaceEvent \/ CreateTail \/ AppendEvent \/ PublishRefused) /\ UNCHANGED repair
    PROVE  RInv'
<1>1. /\ UNCHANGED <<manifest, slots, newest, doomed>> /\ formatting' \in {formatting, TRUE}
      /\ ~FormatPhase /\ Next
      BY DEF RMounting, Mounting, MountBegin, ReplayUnreadable, ReplayEvent, ReplayTornSealed,
             ReplayNextSegment, ReplayDone, FailMount, AtSegmentEnd, TruncateTail, MountDone,
             RCalling, Calling, CommitEnqueue, RewriteRecord, CommitPop, MayStart, AskFormat,
             Admit, PlaceEvent, CreateTail, AppendEvent, PublishRefused, Next, Working,
             repair, disk, FormatPhase
<1>2. doomed = {} /\ formatting \in BOOLEAN
      BY <1>1 DEF RInv, SlotFacts
<1>. QED BY <1>1, <1>2, SlotsUntouched

LEMMA TargetIsASlot == newest \in 1..2 => Target \in 1..2
BY DEF Target

LEMMA RepairPublish == RInv /\ RPublishTail => RInv'
<1>. SUFFICES ASSUME RInv, RPublishTail PROVE RInv'
     OBVIOUS
<1>1. /\ PublishTail /\ Next /\ slots' = [slots EXCEPT ![Target] = manifest'] /\ newest' = Target
      /\ UNCHANGED <<formatting, doomed>> /\ ~FormatPhase
      BY DEF RPublishTail, PublishTail, Next, Working, FormatPhase
<1>0. LogInv /\ LogInv' /\ doomed = {} /\ SlotFacts
      BY <1>1, LogStep DEF RInv
<1>2. LogInv /\ LogInv' /\ ~FormatPhase' /\ plan = NoPlan /\ doomed = {} /\ SlotFacts
      BY <1>0, StoreIsNotFormatting DEF LogInv, Plain
<1>3. manifest' \in Manifest /\ HasManifest' /\ Ascending(manifest')
  <2>1. manifest' = [ranges |-> SealedRanges, tail |-> nextGen, next |-> nextGen + 1]
        BY <1>1 DEF PublishTail, Publish
  <2>2. HasManifest'
        BY <2>1 DEF HasManifest, NoManifest, TornManifest
  <2>. QED BY <1>2, <2>2 DEF LogInv, TypeInv, TypeOK, HasManifest, OrderFacts
<1>4. Target \in 1..2 /\ slots \in [1..2 -> Manifest \cup {NoManifest, TornManifest}]
      BY <1>2, TargetIsASlot DEF SlotFacts
<1>5. /\ slots' \in [1..2 -> Manifest \cup {NoManifest, TornManifest}]
      /\ slots'[Target] = manifest' /\ \A k \in 1..2 : k # Target => slots'[k] = slots[k]
      BY <1>1, <1>3, <1>4
<1>6. Parses(manifest')
      BY <1>3, ManifestIsOne DEF Parses
<1>7. manifest' = InForce(slots', newest')
      BY <1>1, <1>4, <1>5, <1>6, InForceIsASlot
<1>8. \A k \in 1..2 : Parses(slots'[k]) => Ascending(slots'[k])
  <2>1. \A k \in 1..2 : Parses(slots[k]) => Ascending(slots[k])
        BY <1>2 DEF SlotFacts
  <2>. QED BY <1>3, <1>5, <2>1
<1>9. segs' = [g \in DOMAIN segs' |-> segs'[g]]
      BY <1>1, <1>2, FilesStay DEF SlotFacts
<1>10. SlotFacts'
  <2>1. newest' \in 1..2
        BY <1>1, <1>4
  <2>2. formatting' = formatting /\ formatting \in BOOLEAN
        BY <1>1, <1>2 DEF SlotFacts
  <2>. QED BY <1>5, <1>7, <1>8, <1>9, <2>1, <2>2 DEF SlotFacts
<1>11. ScanFacts' /\ FailFacts' /\ PassFacts'
       BY <1>1, <1>2, SeenStep DEF RInv
<1>. QED BY <1>1, <1>2, <1>10, <1>11 DEF RInv

\* A slot write cut short spoils no slot but the one it was for.
LEMMA CutSlots ==
    ASSUME SlotFacts, SlotCutShort
    PROVE  /\ slots' \in [1..2 -> Manifest \cup {NoManifest, TornManifest}]
           /\ newest' \in 1..2 /\ manifest' = InForce(slots', newest')
           /\ \A k \in 1..2 : Parses(slots'[k]) => Ascending(slots'[k])
<1>1. Target \in 1..2 /\ slots \in [1..2 -> Manifest \cup {NoManifest, TornManifest}]
      /\ UNCHANGED newest /\ newest \in 1..2 /\ manifest' = InForce(slots', newest)
      BY TargetIsASlot DEF SlotFacts, SlotCutShort
<1>2. \A k \in 1..2 : Parses(slots[k]) => Ascending(slots[k])
      BY DEF SlotFacts
<1>3. CASE UNCHANGED slots
      BY <1>1, <1>2, <1>3
<1>4. CASE slots' = [slots EXCEPT ![Target] = TornManifest]
  <2>1. ~Parses(TornManifest)
        BY DEF Parses
  <2>2. /\ slots' \in [1..2 -> Manifest \cup {NoManifest, TornManifest}]
        /\ slots'[Target] = TornManifest /\ \A k \in 1..2 : k # Target => slots'[k] = slots[k]
        BY <1>1, <1>4
  <2>. QED BY <1>1, <1>2, <2>1, <2>2
<1>. QED BY <1>3, <1>4 DEF SlotCutShort

LEMMA RepairFailsOutside == RInv /\ RFailing /\ ~FormatPhase => RInv'
<1>. SUFFICES ASSUME RInv, RFailing, ~FormatPhase PROVE RInv'
     OBVIOUS
<1>1. LogInv /\ doomed = {} /\ SlotFacts /\ Next /\ SlotCutShort
      BY DEF RInv, RFailing, Next, Failing
<1>0. LogInv'
      BY <1>1, LogStep
<1>2. LogInv' /\ ~FormatPhase' /\ plan = NoPlan
      BY <1>0, <1>1, StoreIsNotFormatting DEF LogInv, Plain
<1>3. segs' = [g \in DOMAIN segs' |-> segs'[g]]
      BY <1>1, <1>2, FilesStay DEF SlotFacts
<1>4. doomed' = {} /\ formatting' \in BOOLEAN
      BY <1>1, Zenon DEF RFailing, SlotFacts
<1>5. SlotFacts'
      BY <1>1, <1>3, <1>4, CutSlots DEF SlotFacts
<1>6. ScanFacts' /\ FailFacts' /\ PassFacts'
      BY <1>1, <1>2, SeenStep DEF RInv
<1>. QED BY <1>2, <1>4, <1>5, <1>6 DEF RInv

-----------------------------------------------------------------------------
(* format(): the segments, then the slots, as long as removals succeed.     *)

\* While format() is at work nothing is being mounted.
LEMMA NothingSeen ==
    ASSUME pc' \in {"formatSegs", "formatA", "formatB", "idle", "down"}
    PROVE  ScanFacts' /\ FailFacts' /\ PassFacts'
BY DEF ScanFacts, FailFacts, PassFacts

LEMMA RepairBeginFormat == RInv /\ BeginFormat => RInv'
<1>. SUFFICES ASSUME RInv, BeginFormat PROVE RInv'
     OBVIOUS
<1>1. /\ pc = "idle" /\ pc' = "formatSegs" /\ formatting' /\ doomed' = DOMAIN segs
      /\ UNCHANGED <<segs, manifest, records, call, scan, plan, queue, issued, failures, slots, newest>>
      BY DEF BeginFormat, FormatSteps, disk, ram
<1>2. LogInv /\ SlotFacts
      BY <1>1 DEF RInv, FormatPhase
<1>3. formatting' \in BOOLEAN
  <2>1. formatting' = TRUE
        BY DEF BeginFormat
  <2>. QED BY <2>1
<1>4. SlotFacts'
  <2>1. segs' = [g \in DOMAIN segs' |-> segs'[g]]
        BY <1>1, <1>2 DEF SlotFacts
  <2>. QED BY <1>1, <1>2, <1>3, <2>1 DEF SlotFacts
<1>5. DiskIsQueue
      BY <1>2 DEF DiskIsQueue, LogInv, LogFacts
<1>6. DiskIsQueue'
      BY <1>1, <1>5 DEF DiskIsQueue, HasManifest
<1>7. Consecutive(records) /\ NoLog /\ call = Idle /\ plan = NoPlan
      BY <1>1, <1>2 DEF LogInv, RamLog, Scanned, Mounted, TypeInv, CallFacts, Plain
<1>8. /\ SegmentFiles(segs) /\ scan \in [r : Nat \ {0}, gen : Nat, ev : Nat \ {0}]
      /\ queue \in Seq(Val) /\ issued \in 0 .. MaxValues /\ failures \in 0 .. MaxFailures
      BY <1>2 DEF LogInv, TypeInv, TypeOK
<1>9. FormatFacts'
      BY <1>1, <1>6, <1>7, <1>8 DEF FormatFacts, NoLog, HasManifest
<1>. QED BY <1>1, <1>4, <1>9, NothingSeen DEF RInv, FormatPhase

LEMMA RepairRemoveSegment == FormatFaults = {} /\ RInv /\ RemoveSegment => RInv'
<1>. SUFFICES ASSUME FormatFaults = {}, RInv, RemoveSegment PROVE RInv'
     OBVIOUS
<1>1. PICK g \in doomed : doomed' = doomed \ {g} /\ segs' = Without(segs, g)
      BY DEF RemoveSegment
<1>2. /\ pc = "formatSegs" /\ pc' = "formatSegs"
      /\ UNCHANGED <<manifest, records, call, scan, plan, queue, issued, failures, slots, newest, formatting>>
      BY DEF RemoveSegment, ram
<1>3. FormatFacts /\ SlotFacts
      BY <1>2 DEF RInv, FormatPhase
<1>4. DOMAIN segs' = DOMAIN segs \ {g} /\ \A h \in DOMAIN segs' : segs'[h] = segs[h]
      BY <1>1 DEF Without
<1>5. doomed' = DOMAIN segs'
      BY <1>1, <1>2, <1>3, <1>4 DEF FormatFacts
<1>6. SegmentFiles(segs')
  <2>1. IsFiniteSet(DOMAIN segs')
        BY <1>3, <1>4, FS_Subset DEF FormatFacts, SegmentFiles
  <2>. QED BY <1>3, <1>4, <2>1 DEF FormatFacts, SegmentFiles
<1>7. DiskIsQueue'
  <2>. SUFFICES ASSUME HasManifest, Intact(segs', manifest)
                PROVE  \E t \in Traces : Remembers(segs', manifest, t, queue)
       BY <1>2 DEF DiskIsQueue, HasManifest
  <2>1. \A h \in LiveGens(manifest) : h \in DOMAIN segs /\ segs'[h] = segs[h]
        BY <1>4 DEF Intact
  <2>2. Intact(segs, manifest)
        BY <2>1 DEF Intact
  <2>3. PICK t \in Traces : Remembers(segs, manifest, t, queue)
        BY <1>3, <2>2 DEF FormatFacts, DiskIsQueue
  <2>4. /\ IsTrace(segs, manifest, t) => IsTrace(segs', manifest, t)
        /\ EndState(segs', manifest, t) = EndState(segs, manifest, t)
        BY <2>1, TraceCarries
  <2>. QED BY <2>3, <2>4 DEF Remembers
<1>8. SlotFacts'
  <2>1. segs' = [h \in DOMAIN segs' |-> segs'[h]]
        BY <1>1, <1>4 DEF Without
  <2>2. formatting' \in BOOLEAN
        BY <1>2, <1>3, Zenon DEF SlotFacts
  <2>. QED BY <1>2, <1>3, <2>1, <2>2 DEF SlotFacts
<1>9. formatting' = formatting
      BY <1>2
<1>10. FormatFacts'
  <2>1. formatting'
        BY <1>3, <1>9 DEF FormatFacts
  <2>. QED BY <1>2, <1>3, <1>5, <1>6, <1>7, <2>1 DEF FormatFacts, NoLog, HasManifest
<1>. QED BY <1>2, <1>8, <1>10, NothingSeen DEF RInv, FormatPhase

LEMMA RepairSegmentsRemoved == RInv /\ SegmentsRemoved => RInv'
<1>. SUFFICES ASSUME RInv, SegmentsRemoved PROVE RInv'
     OBVIOUS
<1>1. /\ pc = "formatSegs" /\ pc' = "formatA" /\ doomed = {}
      /\ UNCHANGED <<segs, manifest, records, call, scan, plan, issued, failures, slots, newest, doomed,
                     formatting>>
      /\ queue' = IF segs' = <<>> /\ ~Parses(manifest') THEN <<>> ELSE queue
      BY DEF SegmentsRemoved, EndStep, FormatSteps, disk, ram
<1>2. FormatFacts /\ SlotFacts
      BY <1>1 DEF RInv, FormatPhase
<1>3. DOMAIN segs = {}
      BY <1>1, <1>2 DEF FormatFacts
<1>4. segs = <<>> /\ segs' = <<>>
  <2>1. segs = [g \in DOMAIN segs |-> segs[g]]
        BY <1>2 DEF SlotFacts
  <2>2. segs = [g \in {} |-> segs[g]]
        BY <1>3, <2>1, Zenon
  <2>3. [g \in {} |-> segs[g]] = <<>>
        OBVIOUS
  <2>. QED BY <1>1, <2>2, <2>3
<1>5. queue' \in Seq(Val) /\ NoLog'
  <2>1. <<>> \in Seq(Val) /\ queue \in Seq(Val)
        BY <1>2 DEF FormatFacts
  <2>2. HasManifest' <=> Parses(manifest')
        BY DEF HasManifest, Parses
  <2>. QED BY <1>1, <1>4, <2>1, <2>2 DEF NoLog
<1>6. DiskIsQueue'
  <2>1. manifest.tail \in LiveGens(manifest)
        BY DEF LiveGens
  <2>2. ~Intact(segs', manifest')
        BY <1>1, <1>3, <2>1 DEF Intact
  <2>. QED BY <2>2 DEF DiskIsQueue
<1>7. formatting' = formatting
      BY <1>1
<1>8. formatting' /\ formatting' \in BOOLEAN
  <2>1. formatting /\ formatting \in BOOLEAN
        BY <1>2 DEF FormatFacts, SlotFacts
  <2>. QED BY <1>7, <2>1, Zenon
<1>9. SlotFacts'
  <2>1. segs' = [g \in DOMAIN segs' |-> segs'[g]]
        BY <1>1, <1>2 DEF SlotFacts
  <2>. QED BY <1>1, <1>2, <1>8, <2>1 DEF SlotFacts
<1>10. FormatFacts'
      BY <1>1, <1>2, <1>4, <1>5, <1>6, <1>8 DEF FormatFacts
<1>. QED BY <1>1, <1>9, <1>10, NothingSeen DEF RInv, FormatPhase

\* The next slot file is gone, and the cell is what the other one holds.
LEMMA SlotRemoved ==
    ASSUME FormatFaults = {}, SlotFacts, NEW k \in 1..2, RemoveSlot(k)
    PROVE  /\ slots' \in [1..2 -> Manifest \cup {NoManifest, TornManifest}]
           /\ slots'[k] = NoManifest /\ \A h \in 1..2 : h # k => slots'[h] = slots[h]
           /\ newest' \in 1..2 /\ manifest' = InForce(slots', newest')
           /\ manifest' \in Manifest \cup {NoManifest, TornManifest}
           /\ \A h \in 1..2 : Parses(slots'[h]) => Ascending(slots'[h])
<1>1. /\ slots' = [slots EXCEPT ![k] = NoManifest] /\ manifest' = InForce(slots', newest)
      /\ UNCHANGED newest /\ newest \in 1..2
      /\ slots \in [1..2 -> Manifest \cup {NoManifest, TornManifest}]
      BY DEF RemoveSlot, SlotFacts
<1>2. /\ slots' \in [1..2 -> Manifest \cup {NoManifest, TornManifest}]
      /\ slots'[k] = NoManifest /\ \A h \in 1..2 : h # k => slots'[h] = slots[h]
      BY <1>1
<1>3. \A h \in 1..2 : Parses(slots'[h]) => Ascending(slots'[h])
      BY <1>2 DEF SlotFacts, Parses
<1>. QED BY <1>1, <1>2, <1>3, InForceIsASlot

\* No slot, no manifest.
LEMMA NoneInForce ==
    ASSUME NEW n \in 1..2
    PROVE  InForce(<<NoManifest, NoManifest>>, n) = NoManifest
<1>. DEFINE ss == <<NoManifest, NoManifest>>
<1>1. n \in 1..2 /\ 3 - n \in 1..2 /\ \A k \in 1..2 : ss[k] = NoManifest
      OBVIOUS
<1>2. ~Parses(ss[n]) /\ ~Parses(ss[3 - n])
      BY <1>1 DEF Parses
<1>. QED BY <1>2 DEF InForce

LEMMA RepairRemoveA == FormatFaults = {} /\ RInv /\ pc = "formatA" /\ RemoveSlot(1) => RInv'
<1>. SUFFICES ASSUME FormatFaults = {}, RInv, pc = "formatA", RemoveSlot(1) PROVE RInv'
     OBVIOUS
<1>1. /\ pc' = "formatB"
      /\ UNCHANGED <<segs, records, call, scan, plan, issued, failures, doomed, formatting>>
      /\ queue' = IF segs' = <<>> /\ ~Parses(manifest') THEN <<>> ELSE queue
      BY DEF RemoveSlot, EndStep, FormatSteps, disk, ram
<1>2. FormatFacts /\ SlotFacts
      BY DEF RInv, FormatPhase
<1>3. segs = <<>> /\ segs' = <<>> /\ doomed = {}
      BY <1>1, <1>2 DEF FormatFacts
<1>4. /\ slots' \in [1..2 -> Manifest \cup {NoManifest, TornManifest}]
      /\ slots'[1] = NoManifest
      /\ newest' \in 1..2 /\ manifest' = InForce(slots', newest')
      /\ \A h \in 1..2 : Parses(slots'[h]) => Ascending(slots'[h])
      BY <1>2, SlotRemoved
<1>5. queue' \in Seq(Val) /\ NoLog'
  <2>1. <<>> \in Seq(Val) /\ queue \in Seq(Val)
        BY <1>2 DEF FormatFacts
  <2>2. HasManifest' <=> Parses(manifest')
        BY DEF HasManifest, Parses
  <2>. QED BY <1>1, <1>3, <2>1, <2>2 DEF NoLog
<1>6. DiskIsQueue'
  <2>1. manifest'.tail \in LiveGens(manifest') /\ DOMAIN <<>> = {}
        BY DEF LiveGens
  <2>2. ~Intact(segs', manifest')
        BY <1>3, <2>1 DEF Intact
  <2>. QED BY <2>2 DEF DiskIsQueue
<1>7. formatting' = formatting
      BY <1>1
<1>8. formatting' /\ formatting' \in BOOLEAN
  <2>1. formatting /\ formatting \in BOOLEAN
        BY <1>2 DEF FormatFacts, SlotFacts
  <2>. QED BY <1>7, <2>1, Zenon
<1>9. SlotFacts'
  <2>1. segs' = [g \in DOMAIN segs' |-> segs'[g]]
        BY <1>1, <1>2 DEF SlotFacts
  <2>. QED BY <1>4, <1>8, <2>1 DEF SlotFacts
<1>10. FormatFacts'
      BY <1>1, <1>2, <1>3, <1>4, <1>5, <1>6, <1>8 DEF FormatFacts
<1>. QED BY <1>1, <1>9, <1>10, NothingSeen DEF RInv, FormatPhase

\* format() returns to a store as it was before its first use.
LEMMA RepairRemoveB ==
    ASSUME FormatFaults = {}, RInv, pc = "formatB", RemoveSlot(2)
    PROVE  RInv' /\ segs' = <<>> /\ slots' = <<NoManifest, NoManifest>>
<1>1. /\ pc' = "idle" /\ queue' = <<>> /\ Forget
      /\ UNCHANGED <<segs, call, scan, plan, issued, failures, doomed>>
      BY DEF RemoveSlot, EndStep, FormatSteps
<1>2. FormatFacts /\ SlotFacts
      BY DEF RInv, FormatPhase
<1>3. segs = <<>> /\ segs' = <<>> /\ doomed' = {} /\ call' = Idle /\ plan' = NoPlan
      BY <1>1, <1>2 DEF FormatFacts
<1>4. /\ slots' \in [1..2 -> Manifest \cup {NoManifest, TornManifest}]
      /\ slots'[2] = NoManifest /\ slots'[1] = slots[1]
      /\ newest' \in 1..2 /\ manifest' = InForce(slots', newest')
      /\ \A h \in 1..2 : Parses(slots'[h]) => Ascending(slots'[h])
      BY <1>2, SlotRemoved
<1>5. slots' = <<NoManifest, NoManifest>>
  <2>1. slots'[1] = NoManifest
        BY <1>2, <1>4 DEF FormatFacts
  <2>. QED BY <1>4, <2>1
<1>6. manifest' = NoManifest /\ ~HasManifest'
  <2>4. manifest' = NoManifest
        BY <1>4, <1>5, NoneInForce
  <2>. QED BY <2>4 DEF HasManifest
<1>7. formatting' = FALSE
      BY DEF RemoveSlot, EndStep, FormatSteps
<1>8. SlotFacts'
  <2>1. segs' = [g \in DOMAIN segs' |-> segs'[g]]
        BY <1>1, <1>2 DEF SlotFacts
  <2>. QED BY <1>4, <1>7, <2>1 DEF SlotFacts
<1>9. TypeOK'
  <2>1. SegmentFiles(segs')
        BY <1>1, <1>2 DEF FormatFacts
  <2>2. <<>> \in Seq(Record) /\ <<>> \in Seq(ManifestRange) /\ <<>> \in Seq(Val)
        /\ DOMAIN <<>> \subseteq Nat
        OBVIOUS
  <2>3. /\ records' \in Seq(Record) /\ ranges' \in Seq(ManifestRange) /\ queue' \in Seq(Val)
        /\ DOMAIN sealed' \subseteq Nat /\ \A g \in DOMAIN sealed' : sealed'[g] \in Nat
        BY <1>1, <2>2 DEF Forget
  <2>4. tail' \in Nat /\ tailBytes' \in Nat /\ nextGen' \in Gen /\ nextSeq' \in Nat
        /\ deps' \subseteq Gen /\ pc' \in Phases
        BY <1>1 DEF Forget, Gen, Phases
  <2>5. /\ call' \in [op : {"none", "enqueue", "pop", "rewrite"}, seq : Nat, val : 0 .. MaxValues]
        /\ plan' \in [lo : Nat, hi : Nat, first : Nat, outs : Nat, done : Nat]
        BY <1>3, StoreConstants DEF Idle, NoPlan
  <2>6. /\ scan' \in [r : Nat \ {0}, gen : Nat, ev : Nat \ {0}]
        /\ issued' \in 0 .. MaxValues /\ failures' \in 0 .. MaxFailures
        BY <1>1, <1>2 DEF FormatFacts
  <2>. QED BY <1>6, <2>1, <2>3, <2>4, <2>5, <2>6 DEF TypeOK
<1>10. TypeInv'
       BY <1>1, <1>3, <1>6, <1>9 DEF TypeInv, OutputFacts, CallFacts, ReplayFacts, RamFacts, TailFacts,
                                    Forget, Idle, Scanned, Mounted
<1>11. RamLog'
  <2>1. Vals(<<>>) = <<>> /\ Consecutive(<<>>)
        BY DEF Vals, Consecutive
  <2>. QED BY <1>1, <2>1 DEF RamLog, Forget
<1>12. LogInv'
       BY <1>1, <1>3, <1>6, <1>10, <1>11
          DEF LogInv, Plain, OrderFacts, NewTailFacts, CursorFacts, LogFacts, NoLog, CallFits, Idle
<1>. QED BY <1>1, <1>3, <1>5, <1>8, <1>12, NothingSeen DEF RInv, FormatPhase

\* Power lost while format() is at work.
LEMMA RepairFailsInside == RInv /\ RFailing /\ FormatPhase => RInv'
<1>. SUFFICES ASSUME RInv, RFailing, FormatPhase PROVE RInv'
     OBVIOUS
<1>1. FormatFacts /\ SlotFacts
      BY DEF RInv
<1>2. PowerLoss /\ SlotCutShort /\ formatting' = FALSE /\ doomed' = {}
      BY DEF RFailing, WriteError, WritePoints, FormatPhase
<1>3. /\ UNCHANGED segs /\ UNCHANGED queue /\ UNCHANGED issued
      /\ records' = <<>> /\ ranges' = <<>> /\ tail' = 0 /\ tailBytes' = 0
      /\ nextGen' = 1 /\ nextSeq' = 0 /\ sealed' = <<>> /\ deps' = {}
      /\ call' = Idle /\ scan' = [r |-> 1, gen |-> 0, ev |-> 1] /\ plan' = NoPlan
      /\ pc' = "down" /\ failures' = failures + 1 /\ failures < MaxFailures
      BY <1>2 DEF PowerLoss, Unwritten, PartialWrite, FormatPhase, disk
<1>4. /\ slots' \in [1..2 -> Manifest \cup {NoManifest, TornManifest}]
      /\ newest' \in 1..2 /\ manifest' = InForce(slots', newest')
      /\ \A k \in 1..2 : Parses(slots'[k]) => Ascending(slots'[k])
      BY <1>1, <1>2, CutSlots
<1>5. manifest' = manifest
      BY <1>1, <1>2 DEF SlotCutShort, SlotFacts, FormatPhase
<1>6. SlotFacts'
  <2>1. segs' = [g \in DOMAIN segs' |-> segs'[g]]
        BY <1>1, <1>3 DEF SlotFacts
  <2>. QED BY <1>2, <1>4, <2>1 DEF SlotFacts
<1>7. manifest' \in Manifest \cup {NoManifest, TornManifest} /\ (HasManifest' => Ascending(manifest'))
  <2>1. /\ manifest' \in Manifest \cup {NoManifest, TornManifest}
        /\ Parses(manifest') => \E k \in 1..2 : manifest' = slots'[k]
        BY <1>4, InForceIsASlot
  <2>2. HasManifest' <=> Parses(manifest')
        BY DEF HasManifest, Parses
  <2>. QED BY <1>4, <2>1, <2>2
<1>8. TypeOK'
  <2>1. SegmentFiles(segs') /\ queue' \in Seq(Val) /\ issued' \in 0 .. MaxValues
        /\ failures' \in 0 .. MaxFailures
        BY <1>1, <1>3, StoreConstants DEF FormatFacts
  <2>2. <<>> \in Seq(Record) /\ <<>> \in Seq(ManifestRange) /\ DOMAIN <<>> = {}
        OBVIOUS
  <2>3. /\ records' \in Seq(Record) /\ ranges' \in Seq(ManifestRange)
        /\ DOMAIN sealed' \subseteq Nat /\ \A g \in DOMAIN sealed' : sealed'[g] \in Nat
        BY <1>3, <2>2
  <2>4. tail' \in Nat /\ tailBytes' \in Nat /\ nextGen' \in Gen /\ nextSeq' \in Nat
        /\ deps' \subseteq Gen /\ pc' \in Phases
        BY <1>3 DEF Gen, Phases
  <2>5. /\ call' \in [op : {"none", "enqueue", "pop", "rewrite"}, seq : Nat, val : 0 .. MaxValues]
        /\ plan' \in [lo : Nat, hi : Nat, first : Nat, outs : Nat, done : Nat]
        /\ scan' \in [r : Nat \ {0}, gen : Nat, ev : Nat \ {0}]
        BY <1>3, StoreConstants DEF Idle, NoPlan
  <2>. QED BY <1>7, <2>1, <2>3, <2>4, <2>5 DEF TypeOK
<1>9. TypeInv'
      BY <1>3, <1>8 DEF TypeInv, OutputFacts, CallFacts, ReplayFacts, RamFacts, TailFacts, Idle,
                        Scanned, Mounted
<1>10. LogFacts'
  <2>1. HasManifest' /\ Intact(segs', manifest') => HasManifest /\ Intact(segs, manifest)
        BY <1>3, <1>5 DEF HasManifest
  <2>2. \A t \in Traces : Remembers(segs, manifest, t, queue) => Remembers(segs', manifest', t, queue')
        BY <1>3, <1>5
  <2>3. pc' # "replay" /\ ~Scanned'
        BY <1>3 DEF Scanned, Mounted
  <2>. QED BY <1>1, <2>1, <2>2, <2>3 DEF LogFacts, FormatFacts, DiskIsQueue
<1>11. NoLog'
       BY <1>1, <1>3, <1>5 DEF FormatFacts, NoLog, HasManifest
<1>12. LogInv'
       BY <1>3, <1>7, <1>9, <1>10, <1>11
          DEF LogInv, Plain, OrderFacts, NewTailFacts, CursorFacts, RamLog, CallFits, Scanned, Mounted, Idle
<1>. QED BY <1>2, <1>3, <1>6, <1>12, NothingSeen DEF RInv, FormatPhase

\* format() refuses a store that does not mount.
LEMMA RepairFormatRefused == RInv /\ FormatRefused => RInv'
<1>. SUFFICES ASSUME RInv, FormatRefused PROVE RInv'
     OBVIOUS
<1>1. [Next]_vars /\ UNCHANGED <<manifest, slots, newest, doomed>> /\ pc = "failed"
      BY DEF FormatRefused, vars, disk
<1>2. formatting' = FALSE
      BY DEF FormatRefused
<1>3. ~FormatPhase /\ doomed' = {} /\ formatting' \in BOOLEAN
      BY <1>1, <1>2 DEF RInv, FormatPhase
<1>. QED BY <1>1, <1>3, SlotsUntouched

LEMMA RepairStutter == RInv /\ UNCHANGED rvars => RInv'
<1>. SUFFICES ASSUME RInv, UNCHANGED rvars PROVE RInv'
     OBVIOUS
<1>1. UNCHANGED vars /\ UNCHANGED <<slots, newest, doomed>> /\ UNCHANGED formatting
      BY DEF rvars, repair
<1>2. UNCHANGED <<segs, manifest>> /\ UNCHANGED <<records, pc, call, scan, plan, queue, issued, failures>>
      BY <1>1 DEF vars, disk, ram
<1>3. CASE ~FormatPhase
  <2>1. [Next]_vars /\ doomed = {} /\ SlotFacts
        BY <1>1, <1>3 DEF RInv
  <2>2. formatting' \in BOOLEAN
        BY <1>1, <2>1, Zenon DEF SlotFacts
  <2>. QED BY <1>1, <1>2, <1>3, <2>1, <2>2, SlotsUntouched
<1>4. CASE FormatPhase
  <2>1. SlotFacts /\ FormatFacts
        BY <1>4 DEF RInv
  <2>2. formatting' \in BOOLEAN /\ formatting'
        BY <1>1, <2>1, Zenon DEF SlotFacts, FormatFacts
  <2>3. SlotFacts'
    <3>1. segs' = [g \in DOMAIN segs' |-> segs'[g]]
          BY <1>2, <2>1 DEF SlotFacts
    <3>. QED BY <1>1, <1>2, <2>1, <2>2, <3>1 DEF SlotFacts
  <2>4. DiskIsQueue'
        BY <1>2, <2>1 DEF FormatFacts, DiskIsQueue, HasManifest
  <2>5. FormatFacts'
        BY <1>1, <1>2, <2>1, <2>2, <2>4 DEF FormatFacts, NoLog, HasManifest
  <2>6. FormatPhase' /\ pc' \in {"formatSegs", "formatA", "formatB"}
        BY <1>2, <1>4 DEF FormatPhase
  <2>. QED BY <2>3, <2>5, <2>6, NothingSeen DEF RInv
<1>. QED BY <1>3, <1>4

LEMMA RepairStep == FormatFaults = {} /\ RInv /\ [RNext]_rvars => RInv'
<1>. SUFFICES ASSUME FormatFaults = {}, RInv, [RNext]_rvars PROVE RInv'
     OBVIOUS
<1>1. CASE RMounting \/ RCalling \/ RWorking \/ AskFormat
      BY <1>1, RepairQuietStore, RepairPublish DEF RWorking
<1>2. CASE RFailing
      BY <1>2, RepairFailsInside, RepairFailsOutside
<1>3. CASE BeginFormat
      BY <1>3, RepairBeginFormat
<1>4. CASE Formatting
      BY <1>4, RepairFormatRefused, RepairBeginFormat, RepairRemoveSegment, RepairSegmentsRemoved,
         RepairRemoveA, RepairRemoveB DEF Formatting
<1>5. CASE UNCHANGED rvars
      BY <1>5, RepairStutter
<1>. QED BY <1>1, <1>2, <1>3, <1>4, <1>5 DEF RNext

LEMMA RepairAlways == ASSUME FormatFaults = {} PROVE RSpec => []RInv
<1>1. RInv /\ [RNext]_rvars => RInv'
      BY RepairStep
<1>. QED BY <1>1, RepairInit, PTL DEF RSpec

-----------------------------------------------------------------------------
(* What format() and validate() promise, where removals succeed.            *)

\* The manifest cell is at all times what the two slot files yield, and format() only
\* ever has files to remove that exist.
THEOREM RepairTypes == ASSUME FormatFaults = {} PROVE RSpec => []RTypeOK
<1>1. RInv => RTypeOK
  <2>. SUFFICES ASSUME RInv PROVE RTypeOK
       OBVIOUS
  <2>1. SlotFacts
        BY DEF RInv
  <2>2. doomed \subseteq DOMAIN segs
        BY DEF RInv, FormatFacts
  <2>3. pc \in Phases \cup {"formatSegs", "formatA", "formatB"}
        BY DEF RInv, LogInv, TypeInv, TypeOK, FormatPhase
  <2>. QED BY <2>1, <2>2, <2>3 DEF RTypeOK, SlotFacts
<1>. QED BY <1>1, RepairAlways, PTL

\* format() is all or nothing for whoever mounts after it (store.cpp:926-933): power
\* lost between any two removals leaves the whole queue, an empty one or a store that
\* does not mount, for any number of files, failures and formats.
THEOREM AllOrNothing == ASSUME FormatFaults = {} PROVE RSpec => []WholeQueueOrNone
<1>1. RInv => WholeQueueOrNone
  <2>. SUFFICES ASSUME RInv, Mounted, ~formatting PROVE Vals(records) = queue
       BY DEF WholeQueueOrNone
  <2>1. ~FormatPhase
        BY DEF RInv, FormatFacts
  <2>. QED BY <2>1 DEF RInv, LogInv, RamLog, Scanned
<1>. QED BY <1>1, RepairAlways, PTL

\* No gap opens in the sequences of a mounted store, formatted or not.
THEOREM RepairContiguous == ASSUME FormatFaults = {} PROVE RSpec => []Contiguous
<1>1. RInv => Contiguous
      BY DEF RInv, FormatFacts, LogInv, RamLog, Scanned, Consecutive, Contiguous
<1>. QED BY <1>1, RepairAlways, PTL

\* validate() never gives a clean bill to a store that mount() has refused.
THEOREM CleanIsMountable == ASSUME FormatFaults = {} PROVE RSpec => []NoFalseClean
<1>1. RInv => NoFalseClean
  <2>. SUFFICES ASSUME RInv, pc = "failed" PROVE "none" \notin Issues
       BY DEF NoFalseClean
  <2>1. CASE HasManifest
        BY <2>1 DEF RInv, FailFacts, Issues
  <2>2. CASE ~HasManifest
    <3>1. DOMAIN segs # {} /\ DOMAIN <<>> = {}
          BY <2>2 DEF RInv, FailFacts
    <3>2. segs # <<>>
          BY <3>1
    <3>. QED BY <2>2, <3>2 DEF Issues
  <2>. QED BY <2>1, <2>2
<1>. QED BY <1>1, RepairAlways, PTL

\* What mount() goes by is a manifest that validate() finds sound.
LEMMA AscendingIsSound ==
    ASSUME manifest \in Manifest, Ascending(manifest),
           IsFiniteSet(DOMAIN segs), LiveGens(manifest) \subseteq DOMAIN segs
    PROVE  ManifestSound
<1>1. /\ manifest.tail \in Gen /\ manifest.next \in Gen
      /\ \A g \in LiveGens(manifest) : g \in Nat /\ g <= manifest.tail
      /\ \A i \in DOMAIN manifest.ranges : manifest.ranges[i].lo \in Gen /\ manifest.ranges[i].hi \in Gen
      /\ DOMAIN manifest.ranges = 1 .. Len(manifest.ranges)
      BY LiveOrder
<1>2. \A i \in DOMAIN manifest.ranges : manifest.ranges[i].lo <= manifest.ranges[i].hi
      BY DEF Ascending
<1>3. Disjoint(manifest.ranges)
      BY DEF Ascending, Disjoint
<1>4. manifest.tail \notin GensOf(manifest.ranges)
      BY <1>1, SealedAreOlder DEF Gen
<1>5. \A g \in LiveGens(manifest) : g < manifest.next
      BY <1>1 DEF Ascending, Gen
<1>6. Cardinality(LiveGens(manifest)) <= Cardinality(DOMAIN segs)
      BY FS_Subset
<1>. QED BY <1>2, <1>3, <1>4, <1>5, <1>6 DEF ManifestSound

\* validate() never asks for a format of a store that mount() gets through, unless no
\* slot parses or the truncation has wiped the tail.
THEOREM MountableIsClean == ASSUME FormatFaults = {} PROVE RSpec => []NoFalseAlarm
<1>1. RInv => NoFalseAlarm
  <2>. SUFFICES ASSUME RInv, pc = "sweep", manifest # TornManifest,
                       HasManifest => segs[manifest.tail].hdr
                PROVE  "none" \in Issues
       BY DEF NoFalseAlarm
  <2>1. LogInv /\ SlotFacts /\ PassFacts
        BY DEF RInv, FormatPhase
  <2>2. CASE HasManifest
    <3>1. \A g \in LiveGens(manifest) : SegmentReadable(g)
          BY <2>1, <2>2 DEF PassFacts, SegmentReadable
    <3>2. \A g \in GensOf(manifest.ranges) : ~Leftover(g)
          BY <2>1, <2>2 DEF PassFacts
    <3>3. ManifestSound
      <4>1. manifest \in Manifest /\ Ascending(manifest) /\ IsFiniteSet(DOMAIN segs)
            BY <2>1, <2>2 DEF LogInv, TypeInv, TypeOK, SegmentFiles, HasManifest, OrderFacts
      <4>2. LiveGens(manifest) \subseteq DOMAIN segs
            BY <3>1 DEF SegmentReadable
      <4>. QED BY <4>1, <4>2, AscendingIsSound
    <3>4. "none" \in TailIssues
          BY DEF TailIssues
    <3>. QED BY <2>2, <3>1, <3>2, <3>3, <3>4 DEF Issues
  <2>3. CASE ~HasManifest
    <3>1. DOMAIN segs = {} /\ segs = [g \in DOMAIN segs |-> segs[g]]
          BY <2>1, <2>3 DEF PassFacts, SlotFacts
    <3>2. segs = [g \in {} |-> segs[g]]
          BY <3>1, Zenon
    <3>3. [g \in {} |-> segs[g]] = <<>>
          OBVIOUS
    <3>4. segs = <<>> /\ manifest = NoManifest
          BY <2>3, <3>2, <3>3 DEF HasManifest
    <3>. QED BY <2>3, <3>4 DEF Issues
  <2>. QED BY <2>2, <2>3
<1>. QED BY <1>1, RepairAlways, PTL

\* Once format() has returned success no file of the old queue is left.
THEOREM FormatEmpties == ASSUME FormatFaults = {} PROVE RSpec => FormatLeavesNothing
<1>1. RInv /\ [RNext]_rvars =>
          [formatting /\ ~formatting' /\ pc' = "idle" =>
              segs' = <<>> /\ slots' = <<NoManifest, NoManifest>>]_rvars
  <2>. SUFFICES ASSUME RInv, RNext, formatting, ~formatting', pc' = "idle"
                PROVE  segs' = <<>> /\ slots' = <<NoManifest, NoManifest>>
       OBVIOUS
  <2>1. pc = "formatB" /\ RemoveSlot(2)
    <3>1. ~(UNCHANGED formatting) /\ formatting' # TRUE
          OBVIOUS
    <3>2. ~RMounting /\ ~RCalling /\ ~RWorking /\ ~AskFormat /\ ~BeginFormat /\ ~RemoveSegment
          BY <3>1, Zenon DEF RMounting, RCalling, RWorking, RPublishTail, AskFormat, BeginFormat,
                      RemoveSegment, repair
    <3>3. ~RFailing
          BY <3>1 DEF RFailing, PowerLoss
    <3>4. ~FormatRefused
          BY DEF FormatRefused, vars
    <3>5. ~SegmentsRemoved /\ ~(pc = "formatA" /\ RemoveSlot(1))
          BY <3>1 DEF SegmentsRemoved, RemoveSlot, EndStep, FormatSteps
    <3>. QED BY <3>2, <3>3, <3>4, <3>5 DEF RNext, Formatting
  <2>. QED BY <2>1, RepairRemoveB
<1>. QED BY <1>1, RepairAlways, PTL DEF RSpec, FormatLeavesNothing
=============================================================================
