--------------------------- MODULE FileLockProofs ---------------------------
(***************************************************************************)
(* The lock excludes, for any number of processes and deaths, as long as no  *)
(* removal took a lock that was not stale.  The invariant says why: whoever  *)
(* is past Create owns the file, and a pid that was found dead stays dead,   *)
(* so that removing the file it wrote takes nothing from a live owner.       *)
(***************************************************************************)
EXTENDS FileLock, FiniteSetTheorems, TLAPS

N        == Cardinality(Client)
Owning   == {"write", "held", "compare", "unlink"}
Labels   == {"idle", "open", "reopen", "write", "held", "read", "probe", "remove",
             "compare", "unlink"}

LockTypes ==
    /\ deaths \in Nat /\ snatched \in BOOLEAN
    /\ pid \in [Client -> 1..(N + deaths)] /\ saw \in [Client -> 0..(N + deaths)]
    /\ pc \in [Client -> Labels]
    /\ lockFile \in [by : 0..(N + deaths), written : BOOLEAN]

PidsDiffer  == \A c, d \in Client : pid[c] = pid[d] => c = d
FoundDead   == \A c, d \in Client : pc[c] = "remove" => pid[d] # saw[c]
OwnersOwn   == ~snatched => \A c \in Client : pc[c] \in Owning => lockFile.by = pid[c]

LockInv == LockTypes /\ PidsDiffer /\ FoundDead /\ OwnersOwn

LEMMA ClientCount == N \in Nat
  BY LockConstants, FS_CardinalityType DEF N

LEMMA LockStart == LockInit => LockInv
  <1> SUFFICES ASSUME LockInit PROVE LockInv
    OBVIOUS
  <1> USE ClientCount DEF LockInit, NoFile, N
  <1>1. LockTypes
    <2>1. N + deaths = N
      OBVIOUS
    <2>2. pid \in [Client -> 1..N] /\ saw \in [Client -> 0..N]
      OBVIOUS
    <2>3. pc \in [Client -> Labels] /\ lockFile \in [by : 0..N, written : BOOLEAN]
      BY DEF Labels
    <2> HIDE DEF LockInit, N
    <2> QED
      BY <2>1, <2>2, <2>3 DEF LockTypes, LockInit
  <1>2. PidsDiffer /\ FoundDead /\ OwnersOwn
    BY DEF PidsDiffer, FoundDead, OwnersOwn, Owning
  <1> QED
    BY <1>1, <1>2 DEF LockInv

\* A step that leaves the pids and the file alone, and sends nobody to remove.
LEMMA QuietStep ==
  ASSUME LockInv, UNCHANGED <<lockFile, pid, deaths, snatched>>,
         saw' \in [Client -> 0..(N + deaths)],
         NEW c \in Client, NEW l \in Labels, pc' = [pc EXCEPT ![c] = l],
         l \in Owning => pc[c] \in Owning,
         \A d \in Client : d # c => saw'[d] = saw[d],
         l = "remove" => \A d \in Client : pid[d] # saw'[c]
  PROVE  LockInv'
  <1> USE ClientCount DEF LockInv, LockTypes
  <1>1. LockTypes'
    OBVIOUS
  <1>2. PidsDiffer' /\ OwnersOwn'
    BY DEF PidsDiffer, OwnersOwn
  <1>3. FoundDead'
    BY DEF FoundDead
  <1> QED
    BY <1>1, <1>2, <1>3

\* Whoever removes the file, without taking it from another process, leaves no owner.
LEMMA RemovalStep ==
  ASSUME LockInv, UNCHANGED <<pid, deaths>>, lockFile' = NoFile,
         saw' \in [Client -> 0..(N + deaths)],
         NEW c \in Client, NEW l \in Labels \ (Owning \cup {"remove"}),
         pc' = [pc EXCEPT ![c] = l],
         \A d \in Client : d # c => saw'[d] = saw[d],
         snatched' \in BOOLEAN,
         ~snatched' => ~snatched /\ \A d \in Client : d # c => pc[d] \notin Owning
  PROVE  LockInv'
  <1> USE ClientCount DEF LockInv, LockTypes
  <1>1. LockTypes'
    BY DEF NoFile
  <1>2. PidsDiffer' /\ FoundDead'
    BY DEF PidsDiffer, FoundDead
  <1>3. OwnersOwn'
    BY DEF OwnersOwn
  <1> QED
    BY <1>1, <1>2, <1>3

LEMMA LockStep == LockInv /\ [LockNext]_lockVars => LockInv'
  <1> SUFFICES ASSUME LockInv, [LockNext]_lockVars PROVE LockInv'
    OBVIOUS
  <1> USE ClientCount
  <1>0. LockTypes /\ PidsDiffer /\ FoundDead /\ OwnersOwn
    BY DEF LockInv
  <1>1. ASSUME NEW c \in Client, Start(c) PROVE LockInv'
    <2>1. PICK l \in {"open", "read"} : pc' = [pc EXCEPT ![c] = l]
      BY <1>1 DEF Start, Goto
    <2>2. UNCHANGED <<lockFile, pid, deaths, snatched, saw>>
      BY <1>1 DEF Start
    <2> QED
      BY <1>0, <2>1, <2>2, QuietStep DEF LockTypes, Labels, Owning
  <1>2. ASSUME NEW c \in Client, Create(c) PROVE LockInv'
    <2>1. /\ lockFile = NoFile /\ lockFile' = [by |-> pid[c], written |-> FALSE]
          /\ pc' = [pc EXCEPT ![c] = "write"]
          /\ UNCHANGED <<pid, saw, deaths, snatched>>
      BY <1>2 DEF Create, Goto
    <2>2. ~snatched => \A d \in Client : pc[d] \notin Owning
      BY <1>0, <2>1 DEF OwnersOwn, LockTypes, NoFile
    <2>3. LockTypes'
      BY <1>0, <2>1 DEF LockTypes, Labels
    <2>4. PidsDiffer' /\ FoundDead'
      BY <1>0, <2>1 DEF PidsDiffer, FoundDead, LockTypes
    <2>5. OwnersOwn'
      BY <1>0, <2>1, <2>2 DEF OwnersOwn, LockTypes
    <2> QED
      BY <2>3, <2>4, <2>5 DEF LockInv
  <1>3. ASSUME NEW c \in Client, Exists(c) PROVE LockInv'
    <2>1. PICK l \in {"read", "idle"} : pc' = [pc EXCEPT ![c] = l]
      BY <1>3 DEF Exists, Goto
    <2>2. UNCHANGED <<lockFile, pid, deaths, snatched, saw>>
      BY <1>3 DEF Exists
    <2> QED
      BY <1>0, <2>1, <2>2, QuietStep DEF LockTypes, Labels, Owning
  <1>4. ASSUME NEW c \in Client, Write(c) PROVE LockInv'
    <2>1. /\ pc[c] = "write" /\ pc' = [pc EXCEPT ![c] = "held"]
          /\ UNCHANGED <<pid, saw, deaths, snatched>>
          /\ lockFile' = IF OwnedBy(c) THEN [lockFile EXCEPT !.written = TRUE] ELSE lockFile
      BY <1>4 DEF Write, Goto
    <2>2. lockFile'.by = lockFile.by /\ LockTypes'
      BY <1>0, <2>1 DEF LockTypes, Labels
    <2>3. PidsDiffer' /\ FoundDead' /\ OwnersOwn'
      BY <1>0, <2>1, <2>2 DEF PidsDiffer, FoundDead, OwnersOwn, Owning, LockTypes
    <2> QED
      BY <2>2, <2>3 DEF LockInv
  <1>5. ASSUME NEW c \in Client, WriteFails(c) \/ Unlink(c) PROVE LockInv'
    <2>1. /\ pc' = [pc EXCEPT ![c] = "idle"] /\ lockFile' = NoFile
          /\ snatched' = (snatched \/ ~OwnedBy(c))
          /\ UNCHANGED <<pid, saw, deaths>>
      BY <1>5 DEF WriteFails, Unlink, Goto
    <2>2. ~snatched' => ~snatched /\ \A d \in Client : d # c => pc[d] \notin Owning
      BY <1>0, <2>1 DEF OwnersOwn, PidsDiffer, OwnedBy, LockTypes
    <2>3. snatched' \in BOOLEAN
      BY <2>1
    <2> QED
      BY <1>0, <2>1, <2>2, <2>3, RemovalStep DEF LockTypes, Labels, Owning
  <1>6. ASSUME NEW c \in Client, Read(c) PROVE LockInv'
    <2>1. PICK l \in {"idle", "probe"} : pc' = [pc EXCEPT ![c] = l]
      BY <1>6 DEF Read, Goto
    <2>2. /\ UNCHANGED <<lockFile, pid, deaths, snatched>>
          /\ saw' = saw \/ saw' = [saw EXCEPT ![c] = LockPid]
      BY <1>6 DEF Read
    <2>3. LockPid \in 0..(N + deaths)
      BY <1>0 DEF LockPid, LockTypes
    <2>4. /\ saw' \in [Client -> 0..(N + deaths)]
          /\ \A d \in Client : d # c => saw'[d] = saw[d]
      BY <1>0, <2>2, <2>3 DEF LockTypes
    <2> QED
      BY <2>1, <2>2, <2>4, QuietStep DEF Labels, Owning
  <1>7. ASSUME NEW c \in Client, Probe(c) PROVE LockInv'
    <2>1. PICK l \in {"idle", "remove"} : /\ pc' = [pc EXCEPT ![c] = l]
                                          /\ l = "remove" => ~Alive(saw[c])
      BY <1>7 DEF Probe, Goto, Runs
    <2>2. UNCHANGED <<lockFile, pid, deaths, snatched, saw>>
      BY <1>7 DEF Probe
    <2> QED
      BY <1>0, <2>1, <2>2, QuietStep DEF LockTypes, Labels, Owning, Alive
  <1>8. ASSUME NEW c \in Client, Remove(c) PROVE LockInv'
    <2>1. /\ pc[c] = "remove" /\ lockFile' = NoFile
          /\ snatched' = (snatched \/ lockFile.by \notin {0, saw[c]})
          /\ saw' = [saw EXCEPT ![c] = 0] /\ UNCHANGED <<pid, deaths>>
      BY <1>8 DEF Remove
    <2>2. PICK l \in {"reopen", "idle"} : pc' = [pc EXCEPT ![c] = l]
      BY <1>8 DEF Remove, Goto
    <2>3. ASSUME ~snatched' PROVE ~snatched /\ \A d \in Client : d # c => pc[d] \notin Owning
      <3>1. ~snatched /\ (lockFile.by = 0 \/ lockFile.by = saw[c])
        BY <2>1, <2>3
      <3>2. \A d \in Client : pid[d] # 0 /\ pid[d] # saw[c]
        BY <1>0, <2>1 DEF FoundDead, LockTypes
      <3> QED
        BY <1>0, <3>1, <3>2 DEF OwnersOwn
    <2>4. /\ saw' \in [Client -> 0..(N + deaths)] /\ snatched' \in BOOLEAN
          /\ \A d \in Client : d # c => saw'[d] = saw[d]
      BY <1>0, <2>1 DEF LockTypes
    <2> QED
      BY <2>1, <2>2, <2>3, <2>4, RemovalStep DEF Labels, Owning
  <1>9. ASSUME NEW c \in Client, Leave(c) \/ Compare(c) PROVE LockInv'
    <2>1. pc[c] \in Owning
      BY <1>9 DEF Leave, Compare, Owning
    <2>2. PICK l \in {"compare", "unlink", "idle"} : pc' = [pc EXCEPT ![c] = l]
      BY <1>9 DEF Leave, Compare, Goto
    <2>3. UNCHANGED <<lockFile, pid, deaths, snatched, saw>>
      BY <1>9 DEF Leave, Compare
    <2> QED
      BY <1>0, <2>1, <2>2, <2>3, QuietStep DEF LockTypes, Labels
  <1>10. ASSUME NEW c \in Client, Die(c) PROVE LockInv'
    <2>1. /\ deaths' = deaths + 1 /\ pid' = [pid EXCEPT ![c] = N + deaths + 1]
          /\ pc' = [pc EXCEPT ![c] = "idle"] /\ saw' = [saw EXCEPT ![c] = 0]
          /\ UNCHANGED <<lockFile, snatched>>
      BY <1>10 DEF Die, Goto, N
    <2>2. LockTypes'
      BY <1>0, <2>1 DEF LockTypes, Labels
    <2>3. PidsDiffer'
      BY <1>0, <2>1 DEF PidsDiffer, LockTypes
    <2>4. FoundDead'
      BY <1>0, <2>1 DEF FoundDead, LockTypes
    <2>5. OwnersOwn'
      BY <1>0, <2>1 DEF OwnersOwn, Owning, LockTypes
    <2> QED
      BY <2>2, <2>3, <2>4, <2>5 DEF LockInv
  <1>11. CASE UNCHANGED lockVars
    BY <1>0, <1>11 DEF lockVars, LockInv, LockTypes, PidsDiffer, FoundDead, OwnersOwn
  <1> QED
    BY <1>1, <1>2, <1>3, <1>4, <1>5, <1>6, <1>7, <1>8, <1>9, <1>10, <1>11
    DEF LockNext, Step

LEMMA OwnersAreOne == LockInv => LockExcludes
  <1> SUFFICES ASSUME LockInv, ~snatched PROVE Cardinality(Inside) <= 1
    BY DEF LockExcludes
  <1>1. \A c, d \in Inside : c = d
    BY DEF LockInv, OwnersOwn, PidsDiffer, Inside, Owning
  <1>2. CASE Inside = {}
    BY <1>2, FS_EmptySet
  <1>3. CASE Inside # {}
    <2>1. PICK c \in Inside : Inside = {c}
      BY <1>1, <1>3
    <2> QED
      BY <2>1, FS_Singleton
  <1> QED
    BY <1>2, <1>3

\* acquireLock() lets one queue call run at a time, crashed owners and their
\* recovery included, until a removal comes too late and takes a newer lock.
THEOREM LockAlwaysExcludes == LockSpec => []LockExcludes
  <1> QED
    BY LockStart, LockStep, OwnersAreOne, PTL DEF LockSpec
-----------------------------------------------------------------------------
\* While nobody has died, the file and every pid read from it are of a process
\* that runs: no removal is decided, so none can come too late.
NobodyDied ==
    deaths = 0 =>
        /\ ~snatched
        /\ \A c \in Client : pc[c] # "remove"
        /\ lockFile.by # 0 => Alive(lockFile.by)
        /\ \A c \in Client : pc[c] = "probe" => Alive(saw[c])

Bounded == deaths \in 0..MaxDeaths /\ op \in [Client -> {"acquire", "recover"}]

DeathInv == LockInv /\ NobodyDied /\ Bounded

LEMMA DeathStart == LockInit => DeathInv
  <1> SUFFICES ASSUME LockInit PROVE DeathInv
    OBVIOUS
  <1>1. NobodyDied
    BY DEF LockInit, NobodyDied, NoFile
  <1>2. Bounded
    BY LockConstants DEF LockInit, Bounded
  <1> QED
    BY <1>1, <1>2, LockStart DEF DeathInv

LEMMA BoundedStep == Bounded /\ [LockNext]_lockVars => Bounded'
  <1> SUFFICES ASSUME Bounded, [LockNext]_lockVars PROVE Bounded'
    OBVIOUS
  <1>1. ASSUME NEW c \in Client, Start(c) PROVE Bounded'
    BY <1>1 DEF Start, Bounded
  <1>2. ASSUME NEW c \in Client, Step(c) \/ Leave(c) PROVE Bounded'
    BY <1>2 DEF Step, Create, Exists, Write, WriteFails, Read, Probe, Remove, Leave,
                Compare, Unlink, Bounded
  <1>3. ASSUME NEW c \in Client, Die(c) PROVE Bounded'
    BY <1>3, LockConstants DEF Die, Bounded
  <1>4. CASE UNCHANGED lockVars
    BY <1>4 DEF lockVars, Bounded
  <1> QED
    BY <1>1, <1>2, <1>3, <1>4 DEF LockNext

\* A step after which the file, if there is one, is of a process that runs.
LEMMA StepWithoutDeath ==
  ASSUME DeathInv, LockInv', NEW c \in Client, UNCHANGED <<pid, deaths>>,
         deaths = 0 => ~snatched',
         deaths = 0 /\ lockFile'.by # 0 => Alive(lockFile'.by),
         \A d \in Client : d # c => pc'[d] = pc[d] /\ saw'[d] = saw[d],
         deaths = 0 => pc'[c] # "remove",
         deaths = 0 /\ pc'[c] = "probe" => Alive(saw'[c])
  PROVE  NobodyDied'
  BY DEF DeathInv, NobodyDied, Alive

LEMMA DeathStep == DeathInv /\ [LockNext]_lockVars => DeathInv'
  <1> SUFFICES ASSUME DeathInv, [LockNext]_lockVars PROVE DeathInv'
    OBVIOUS
  <1>0. /\ LockTypes /\ OwnersOwn /\ NobodyDied /\ LockInv' /\ Bounded'
        /\ NoFile.by = 0
    BY LockStep, BoundedStep DEF DeathInv, LockInv, NoFile
  <1>1. ASSUME NEW c \in Client,
               Start(c) \/ Exists(c) \/ Leave(c) \/ Compare(c)
        PROVE  NobodyDied'
    <2>1. /\ UNCHANGED <<lockFile, pid, saw, deaths, snatched>>
          /\ \E l \in Labels \ {"remove", "probe"} : pc' = [pc EXCEPT ![c] = l]
      BY <1>1 DEF Start, Exists, Leave, Compare, Goto, Labels
    <2> QED
      BY <1>0, <2>1, StepWithoutDeath DEF NobodyDied, LockTypes
  <1>2. ASSUME NEW c \in Client, Create(c) PROVE NobodyDied'
    <2>1. /\ lockFile'.by = pid[c] /\ pc' = [pc EXCEPT ![c] = "write"]
          /\ UNCHANGED <<pid, saw, deaths, snatched>>
      BY <1>2 DEF Create, Goto
    <2>2. Alive(lockFile'.by)
      BY <2>1 DEF Alive
    <2> QED
      BY <1>0, <2>1, <2>2, StepWithoutDeath DEF NobodyDied, LockTypes
  <1>3. ASSUME NEW c \in Client, Write(c) PROVE NobodyDied'
    <2>1. /\ lockFile'.by = lockFile.by /\ pc' = [pc EXCEPT ![c] = "held"]
          /\ UNCHANGED <<pid, saw, deaths, snatched>>
      BY <1>0, <1>3 DEF Write, Goto, LockTypes
    <2> QED
      BY <1>0, <2>1, StepWithoutDeath DEF NobodyDied, LockTypes
  <1>4. ASSUME NEW c \in Client, WriteFails(c) \/ Unlink(c) PROVE NobodyDied'
    <2>1. /\ pc[c] \in Owning /\ pc' = [pc EXCEPT ![c] = "idle"] /\ lockFile' = NoFile
          /\ snatched' = (snatched \/ ~OwnedBy(c))
          /\ UNCHANGED <<pid, saw, deaths>>
      BY <1>4 DEF WriteFails, Unlink, Goto, Owning
    <2>2. deaths = 0 => ~snatched'
      BY <1>0, <2>1 DEF NobodyDied, OwnersOwn, OwnedBy
    <2> QED
      BY <1>0, <2>1, <2>2, StepWithoutDeath DEF LockTypes
  <1>5. ASSUME NEW c \in Client, Read(c) PROVE NobodyDied'
    <2>1. /\ UNCHANGED <<lockFile, pid, deaths, snatched>>
          /\ \/ pc' = [pc EXCEPT ![c] = "idle"] /\ UNCHANGED saw
             \/ /\ pc' = [pc EXCEPT ![c] = "probe"] /\ saw' = [saw EXCEPT ![c] = LockPid]
                /\ LockPid # 0
      BY <1>5 DEF Read, Goto
    <2>2. deaths = 0 /\ LockPid # 0 => Alive(LockPid)
      BY <1>0 DEF NobodyDied, LockPid
    <2> QED
      BY <1>0, <2>1, <2>2, StepWithoutDeath DEF NobodyDied, LockTypes
  <1>6. ASSUME NEW c \in Client, Probe(c) PROVE NobodyDied'
    <2>1. /\ UNCHANGED <<lockFile, pid, saw, deaths, snatched>> /\ pc[c] = "probe"
          /\ pc' = [pc EXCEPT ![c] = IF Alive(saw[c]) THEN "idle" ELSE "remove"]
      BY <1>6 DEF Probe, Goto, Runs
    <2>2. deaths = 0 => Alive(saw[c])
      BY <1>0, <2>1 DEF NobodyDied
    <2> QED
      BY <1>0, <2>1, <2>2, StepWithoutDeath DEF NobodyDied, LockTypes
  <1>7. ASSUME NEW c \in Client, Remove(c) PROVE NobodyDied'
    <2>1. pc[c] = "remove" /\ deaths' = deaths
      BY <1>7 DEF Remove
    <2> QED
      BY <1>0, <2>1 DEF NobodyDied
  <1>8. ASSUME NEW c \in Client, Die(c) PROVE NobodyDied'
    BY <1>0, <1>8 DEF Die, NobodyDied, LockTypes
  <1>9. ASSUME UNCHANGED lockVars PROVE NobodyDied'
    <2>1. \A n : Alive(n)' <=> Alive(n)
      BY <1>9 DEF lockVars, Alive
    <2> QED
      BY <1>0, <1>9, <2>1 DEF lockVars, NobodyDied
  <1>10. NobodyDied'
    <2>1. ASSUME NEW c \in Client, Start(c) \/ Step(c) \/ Leave(c) \/ Die(c)
          PROVE  NobodyDied'
      BY <2>1, <1>1, <1>2, <1>3, <1>4, <1>5, <1>6, <1>7, <1>8, Zenon DEF Step
    <2> QED
      BY <1>9, <2>1, Zenon DEF LockNext
  <1> QED
    BY <1>0, <1>10 DEF DeathInv

LEMMA TypesAgree == DeathInv => TypeOK
  <1> SUFFICES ASSUME DeathInv PROVE TypeOK
    OBVIOUS
  <1>1. LockTypes /\ Bounded /\ deaths \in 0..MaxDeaths
    BY DEF DeathInv, LockInv, Bounded
  <1>2. Pid = 1..(N + MaxDeaths)
    BY DEF Pid, N
  <1>3. N \in Nat /\ deaths \in Nat /\ MaxDeaths \in Nat /\ deaths <= MaxDeaths
    BY <1>1, ClientCount, LockConstants
  <1> HIDE DEF N
  <1>4. \A n \in 1..(N + deaths) : n \in Pid
    BY <1>2, <1>3
  <1>5. \A n \in 0..(N + deaths) : n \in Pid \cup {0}
    BY <1>2, <1>3
  <1>6. /\ lockFile \in [by : Pid \cup {0}, written : BOOLEAN]
        /\ saw \in [Client -> Pid \cup {0}]
    BY <1>1, <1>5 DEF LockTypes
  <1>7. pid \in [Client -> Pid]
    BY <1>1, <1>4 DEF LockTypes
  <1> QED
    BY <1>1, <1>6, <1>7 DEF LockTypes, Bounded, TypeOK, Labels

\* The lock's state has its types; no pid is ever used that the bound did not foresee.
THEOREM LockTypesHold == LockSpec => []TypeOK
  <1> QED
    BY DeathStart, DeathStep, TypesAgree, PTL DEF LockSpec

\* removeStalePosixLock() takes a lock that was not stale only after a process
\* has died: among processes that live, acquire() and release() remove their own.
THEOREM SnatchAlwaysNeedsDeath == LockSpec => []SnatchNeedsDeath
  <1>1. DeathInv => SnatchNeedsDeath
    BY DEF DeathInv, NobodyDied, SnatchNeedsDeath
  <1> QED
    BY <1>1, DeathStart, DeathStep, PTL DEF LockSpec
=============================================================================
