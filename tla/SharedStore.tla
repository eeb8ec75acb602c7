---------------------------- MODULE SharedStore ----------------------------
(***************************************************************************)
(* Several Queue objects over one base path (tests/posix/pqueue.cpp:79-105): *)
(* the lock lets one queue call run at a time, but each AppendLogStore works *)
(* from the RAM of its own mount, made once and before the lock is taken.    *)
(* The disk is an active segment that exists, its events all ENQUEUEs of one *)
(* size; payloads are numbered in the order their enqueue succeeds.          *)
(***************************************************************************)
EXTENDS FileLock, Sequences

CONSTANT MaxEnqueues    \* bound: records enqueued

VARIABLES
    disk,       \* the ENQUEUE events of the active segment
    end,        \* activeSegmentBytes_ of each object in events, -1 before mount()
    acked       \* observer: the records whose enqueue succeeded

sharedVars == <<lockVars, disk, end, acked>>

Init == LockInit /\ disk = <<>> /\ end = [c \in Client |-> -1] /\ acked = <<>>

\* tryAcquireLockFile() mounts first: nothing keeps another call off the disk.
Mount(c) ==
    /\ pc[c] = "idle" /\ end[c] = -1
    /\ end' = [end EXCEPT ![c] = Len(disk)]
    /\ UNCHANGED <<lockVars, disk, acked>>

\* writeAt(activeSegmentBytes_): what lies there is overwritten.
WrittenAt(n, r) == SubSeq(disk, 1, n) \o <<r>> \o SubSeq(disk, n + 2, Len(disk))

Enqueue(c) ==
    /\ Len(acked) < MaxEnqueues
    /\ Leave(c)
    /\ disk' = WrittenAt(end[c], Len(acked) + 1)
    /\ end' = [end EXCEPT ![c] = @ + 1]
    /\ acked' = Append(acked, Len(acked) + 1)

\* A process that dies takes its store's RAM with it.
Restart(c) == Die(c) /\ end' = [end EXCEPT ![c] = -1] /\ UNCHANGED <<disk, acked>>

Lock(c) == (Step(c) \/ (end[c] >= 0 /\ Start(c))) /\ UNCHANGED <<disk, end, acked>>

Next == \E c \in Client : Mount(c) \/ Enqueue(c) \/ Lock(c) \/ Restart(c)
Spec == Init /\ [][Next]_sharedVars

-----------------------------------------------------------------------------
\* A fresh Queue, whose mount reads the disk, sees every record that was
\* enqueued, in FIFO order (tests/posix/pqueue.cpp:86-87).
FreshQueueSeesAll == disk = acked
=============================================================================
