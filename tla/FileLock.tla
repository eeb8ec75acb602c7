------------------------------ MODULE FileLock ------------------------------
(***************************************************************************)
(* The POSIX queue lock: the file .pqueue.lock, created with O_EXCL and      *)
(* holding the pid of its owner (storage_posix.cpp), taken for one queue     *)
(* call at a time by Queue::acquireLock().  A lock whose pid no longer runs  *)
(* is stale and may be removed by anyone.  Each system call is one step.     *)
(* Every client is the one Queue object of its process; a process that dies  *)
(* is started again under a new pid, and no pid is used twice.               *)
(***************************************************************************)
EXTENDS Integers, FiniteSets

CONSTANTS
    Client,         \* the processes that share the base path
    MaxDeaths       \* bound: processes that die

ASSUME LockConstants == IsFiniteSet(Client) /\ MaxDeaths \in Nat

VARIABLES
    lockFile,       \* .pqueue.lock
    pid,            \* the pid of each client's process
    pc,             \* where it is in acquire(), recoverStale() or release()
    saw,            \* the pid removeStalePosixLock() has read, 0 for none
    op,             \* "acquire" or "recover", what the removal is for
    deaths,         \* processes that died so far
    snatched        \* observer: a removal took a lock that was not stale

lockVars == <<lockFile, pid, pc, saw, op, deaths, snatched>>

Pid        == 1..(Cardinality(Client) + MaxDeaths)
NoFile     == [by |-> 0, written |-> FALSE]
OwnedBy(c) == lockFile.by = pid[c]
Alive(n)   == \E c \in Client : pid[c] = n
Goto(c, l) == pc' = [pc EXCEPT ![c] = l]

LockInit ==
    /\ lockFile = NoFile /\ deaths = 0 /\ snatched = FALSE
    /\ pid \in [Client -> 1..Cardinality(Client)]
    /\ \A c, d \in Client : c # d => pid[c] # pid[d]
    /\ pc = [c \in Client |-> "idle"]
    /\ saw = [c \in Client |-> 0] /\ op = [c \in Client |-> "acquire"]

-----------------------------------------------------------------------------
\* A queue call tries to lock, again after LockTimeout; recoverStaleLock() does not.
Start(c) ==
    /\ pc[c] = "idle"
    /\ \/ Goto(c, "open") /\ op' = [op EXCEPT ![c] = "acquire"]
       \/ lockFile # NoFile /\ Goto(c, "read") /\ op' = [op EXCEPT ![c] = "recover"]
    /\ UNCHANGED <<lockFile, pid, saw, deaths, snatched>>

\* open(O_CREAT | O_EXCL): the file is empty until the write that follows.
Create(c) ==
    /\ pc[c] \in {"open", "reopen"} /\ lockFile = NoFile
    /\ lockFile' = [by |-> pid[c], written |-> FALSE] /\ Goto(c, "write")
    /\ UNCHANGED <<pid, saw, op, deaths, snatched>>

\* The file exists: look whether it is stale, once per attempt.
Exists(c) ==
    /\ lockFile # NoFile
    /\ \/ pc[c] = "open" /\ Goto(c, "read")
       \/ pc[c] = "reopen" /\ Goto(c, "idle")
    /\ UNCHANGED <<lockFile, pid, saw, op, deaths, snatched>>

Write(c) ==
    /\ pc[c] = "write" /\ Goto(c, "held")
    /\ lockFile' = IF OwnedBy(c) THEN [lockFile EXCEPT !.written = TRUE] ELSE lockFile
    /\ UNCHANGED <<pid, saw, op, deaths, snatched>>

\* A write that fails: the file of that name is removed.
WriteFails(c) ==
    /\ pc[c] = "write" /\ Goto(c, "idle")
    /\ lockFile' = NoFile /\ snatched' = (snatched \/ ~OwnedBy(c))
    /\ UNCHANGED <<pid, saw, op, deaths>>

\* lockPid(): no pid without contents.
LockPid == IF lockFile.written THEN lockFile.by ELSE 0

Read(c) ==
    /\ pc[c] = "read"
    /\ IF LockPid = 0 THEN Goto(c, "idle") /\ UNCHANGED saw
       ELSE Goto(c, "probe") /\ saw' = [saw EXCEPT ![c] = LockPid]
    /\ UNCHANGED <<lockFile, pid, op, deaths, snatched>>

\* Variant: kill() is not asked.
NeverRuns(n) == FALSE
\* Variant: every error of kill() counts as a process that runs.
AlwaysRuns(n) == TRUE
\* kill(pid, 0) tells whether the pid that was read still runs.
Runs(n) == Alive(n)

Probe(c) ==
    /\ pc[c] = "probe"
    /\ Goto(c, IF Runs(saw[c]) THEN "idle" ELSE "remove")
    /\ UNCHANGED <<lockFile, pid, saw, op, deaths, snatched>>

\* Whatever has the name by now is removed.
Remove(c) ==
    /\ pc[c] = "remove"
    /\ Goto(c, IF op[c] = "acquire" THEN "reopen" ELSE "idle")
    /\ lockFile' = NoFile
    /\ snatched' = (snatched \/ lockFile.by \notin {0, saw[c]})
    /\ saw' = [saw EXCEPT ![c] = 0]
    /\ UNCHANGED <<pid, op, deaths>>

\* The queue call is over.
Leave(c) ==
    /\ pc[c] = "held" /\ Goto(c, "compare")
    /\ UNCHANGED <<lockFile, pid, saw, op, deaths, snatched>>

Mine(c) == lockFile.written /\ OwnedBy(c)

\* release() reads the file, and removes it if the contents are its own.
Compare(c) ==
    /\ pc[c] = "compare" /\ Goto(c, IF Mine(c) THEN "unlink" ELSE "idle")
    /\ UNCHANGED <<lockFile, pid, saw, op, deaths, snatched>>

Unlink(c) ==
    /\ pc[c] = "unlink" /\ Goto(c, "idle")
    /\ lockFile' = NoFile /\ snatched' = (snatched \/ ~OwnedBy(c))
    /\ UNCHANGED <<pid, saw, op, deaths>>

\* The process of c ends, killed or not; its lock file stays.
Die(c) ==
    /\ deaths < MaxDeaths /\ deaths' = deaths + 1
    /\ pid' = [pid EXCEPT ![c] = Cardinality(Client) + deaths + 1]
    /\ Goto(c, "idle") /\ saw' = [saw EXCEPT ![c] = 0]
    /\ UNCHANGED <<lockFile, op, snatched>>

Step(c) == \/ Create(c) \/ Exists(c) \/ Write(c) \/ WriteFails(c)
           \/ Read(c) \/ Probe(c) \/ Remove(c)
           \/ Compare(c) \/ Unlink(c)

LockNext == \E c \in Client : Start(c) \/ Step(c) \/ Leave(c) \/ Die(c)
LockSpec == LockInit /\ [][LockNext]_lockVars

\* Every process runs, and goes on asking for the lock.
FairLock == LockSpec /\ \A c \in Client :
    WF_lockVars(Start(c) /\ op'[c] = "acquire") /\ WF_lockVars(Step(c)) /\ WF_lockVars(Leave(c))

-----------------------------------------------------------------------------
Inside == {c \in Client : pc[c] \in {"held", "compare", "unlink"}}

\* The types of the lock's state.
TypeOK ==
    /\ lockFile \in [by : Pid \cup {0}, written : BOOLEAN]
    /\ pid \in [Client -> Pid] /\ saw \in [Client -> Pid \cup {0}]
    /\ pc \in [Client -> {"idle", "open", "reopen", "write", "held", "read", "probe",
                          "remove", "compare", "unlink"}]
    /\ op \in [Client -> {"acquire", "recover"}] /\ deaths \in 0..MaxDeaths

\* No two queue calls run at once, crashed owners and their recovery included,
\* as long as no removal came too late: removeStalePosixLock() reads a file and
\* removes a name, and by then the name may be another process's lock.
LockExcludes == ~snatched => Cardinality(Inside) <= 1

\* Such a late removal takes a process that died: without one the lock excludes.
SnatchNeedsDeath == deaths = 0 => ~snatched

\* A client that waits gets the lock in the end, or all are kept out by the file
\* of a process that died between open() and write().
Orphaned     == lockFile # NoFile /\ ~lockFile.written /\ ~Alive(lockFile.by)
LockComesFree == []<>(lockFile = NoFile \/ Orphaned)
=============================================================================
