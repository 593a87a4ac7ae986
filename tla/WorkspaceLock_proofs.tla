------------------------ MODULE WorkspaceLock_proofs ------------------------
(***************************************************************************)
(* WorkspaceLock for every number of processes, every bound on the         *)
(* replacement of files and either platform.                               *)
(***************************************************************************)
EXTENDS WorkspaceLock, TLAPS

LEMMA InitTypeOK == Init => TypeOK
<1> SUFFICES ASSUME Init PROVE TypeOK
  OBVIOUS
<1>1. leftover \in BOOLEAN
  BY DEF Init
<1>2. /\ pc \in [Procs -> Steps]
      /\ mode \in [Procs -> {"task", "recover", "failed"}]
      /\ activity \in [Procs -> Procs \cup {Nobody}]
  BY DEF Init, Steps
<1>3. /\ guardFile \in Nat \ {0} /\ control \in Nat \ {0}
      /\ guardFd \in [Procs -> Nat] /\ lockFd \in [Procs -> Nat]
      /\ seenControl \in [Procs -> Nat]
      /\ socket \in Procs \cup {Nobody} /\ marker \in Procs \cup {Nobody}
  BY DEF Init
<1> QED BY <1>1, <1>2, <1>3 DEF TypeOK

\* The type invariant of the lock protocol.
THEOREM Typing == Spec => []TypeOK
<1>1. Init => TypeOK
  BY InitTypeOK
<1>2. TypeOK /\ [Next]_vars => TypeOK'
  <2> SUFFICES ASSUME TypeOK, [Next]_vars PROVE TypeOK'
    OBVIOUS
  <2> USE DEF TypeOK, Steps, Goto, files, fds
  <2>1. CASE LeftoverExits \/ ReplaceGuard \/ ReplaceControl
    <3>1. CASE LeftoverExits
      BY <3>1 DEF LeftoverExits
    <3>2. CASE ReplaceGuard
      BY <3>2 DEF ReplaceGuard
    <3>3. CASE ReplaceControl
      BY <3>3 DEF ReplaceControl
    <3> QED BY <2>1, <3>1, <3>2, <3>3
  <2>2. ASSUME NEW p \in Procs, Acquire(p) PROVE TypeOK'
    <3>1. CASE BeginTask(p) \/ BeginRecovery(p)
      BY <3>1 DEF BeginTask, BeginRecovery, BindSocket
    <3>2. CASE OpenGuard(p) \/ OpenLock(p)
      BY <3>2 DEF OpenGuard, OpenLock
    <3>3. CASE LockGuard(p)
      BY <3>3 DEF LockGuard, Abandon
    <3>4. CASE FlockLock(p)
      BY <3>4 DEF FlockLock, Abandon
    <3>5. CASE CheckActivity(p)
      BY <3>5 DEF CheckActivity, Abandon
    <3> QED BY <2>2, <3>1, <3>2, <3>3, <3>4, <3>5 DEF Acquire
  <2>3. ASSUME NEW p \in Procs, Mark(p) PROVE TypeOK'
    BY <2>3 DEF Mark, LeaveHeld, CreateMarker, ConfirmMarker
  <2>4. ASSUME NEW p \in Procs, Clear(p) PROVE TypeOK'
    BY <2>4 DEF Clear, EndTask, VerifyMarker, Unlink
  <2>5. ASSUME NEW p \in Procs, Close(p) PROVE TypeOK'
    BY <2>5 DEF Close, CloseLock, CloseGuard, CloseSocket, FreeSocket
  <2>6. ASSUME NEW p \in Procs, Crash(p) PROVE TypeOK'
    BY <2>6 DEF Crash, FreeSocket
  <2>7. CASE UNCHANGED vars
    BY <2>7 DEF vars
  <2> QED BY <2>1, <2>2, <2>3, <2>4, <2>5, <2>6, <2>7 DEF Next
<1> QED BY <1>1, <1>2, PTL DEF Spec
-----------------------------------------------------------------------------
(***************************************************************************)
(* Mutual exclusion.  A lock once granted is not granted again: two        *)
(* holders of the guard (of workspace.lock) opened different identities.   *)
(* So two owners need both files replaced, and then the socket, which      *)
(* belongs to no file, still tells them apart.                             *)
(***************************************************************************)
HoldsGuard(p) == guardFd[p] # 0 /\ pc[p] # "lockGuard"
HoldsLock(p) == lockFd[p] # 0 /\ pc[p] # "flockLock"

\* What a process has open at each step, and what kind of visit it is on.
Progress == \A p \in Procs :
    /\ pc[p] \in {"idle", "openGuard"} => guardFd[p] = 0
    /\ pc[p] \in {"idle", "openGuard", "lockGuard", "openLock"} => lockFd[p] = 0
    /\ pc[p] \in {"lockGuard", "openLock", "flockLock"} \/ Owns(p)
         => guardFd[p] # 0
    /\ pc[p] = "flockLock" \/ Owns(p) => lockFd[p] # 0
    /\ pc[p] \notin {"idle", "release"} => mode[p] # "failed"
    /\ pc[p] \in {"create", "created", "running"} => mode[p] = "task"

SocketInv == HasNamespaceGuard => \A p \in Procs : pc[p] # "idle" => socket = p
GuardInv == \A p, q \in Procs :
    p # q /\ HoldsGuard(p) /\ HoldsGuard(q) => guardFd[p] # guardFd[q]
LockInv == \A p, q \in Procs :
    p # q /\ HoldsLock(p) /\ HoldsLock(q) => lockFd[p] # lockFd[q]

\* A file nobody replaces has one identity.
FilesInv ==
    /\ "guard" \notin Tamperable
         => guardFile = 1 /\ \A p \in Procs : guardFd[p] \in {0, 1}
    /\ "control" \notin Tamperable
         => control = 1 /\ \A p \in Procs : lockFd[p] \in {0, 1}

OwnInv == TypeOK /\ Progress /\ SocketInv /\ GuardInv /\ LockInv /\ FilesInv

LEMMA OwnInvExclusion == OwnInv => MutualExclusion
<1> SUFFICES ASSUME OwnInv, NEW p \in Procs, NEW q \in Procs,
                    Owns(p), Owns(q), p # q
             PROVE  FALSE
  BY DEF MutualExclusion
<1>1. pc[p] # "idle" /\ pc[q] # "idle" /\ HoldsGuard(p) /\ HoldsGuard(q)
      /\ HoldsLock(p) /\ HoldsLock(q)
  BY DEF OwnInv, Progress, Owns, HoldsGuard, HoldsLock
<1>2. CASE HasNamespaceGuard
  BY <1>1, <1>2 DEF OwnInv, SocketInv
<1>3. CASE "guard" \notin Tamperable
  BY <1>1, <1>3 DEF OwnInv, FilesInv, GuardInv, HoldsGuard
<1>4. CASE "control" \notin Tamperable
  BY <1>1, <1>4 DEF OwnInv, FilesInv, LockInv, HoldsLock
<1> QED BY <1>2, <1>3, <1>4, TamperAssumption

LEMMA OwnInvStep == OwnInv /\ TypeOK' /\ [Next]_vars => OwnInv'
<1> SUFFICES ASSUME OwnInv, TypeOK', [Next]_vars PROVE OwnInv'
  OBVIOUS
<1> USE DEF OwnInv
<1>1. CASE LeftoverExits
  BY <1>1 DEF LeftoverExits, Progress, SocketInv, GuardInv, LockInv, FilesInv,
     HoldsGuard, HoldsLock, Owns, files, fds
<1>2. CASE ReplaceGuard
  BY <1>2 DEF ReplaceGuard, Progress, SocketInv, GuardInv, LockInv, FilesInv,
     HoldsGuard, HoldsLock, Owns, files, fds
<1>3. CASE ReplaceControl
  BY <1>3 DEF ReplaceControl, Progress, SocketInv, GuardInv, LockInv, FilesInv,
     HoldsGuard, HoldsLock, Owns, files, fds
<1>4. ASSUME NEW p \in Procs, Acquire(p) PROVE OwnInv'
  <2>1. CASE BeginTask(p) \/ BeginRecovery(p)
    BY <2>1, NobodyAssumption DEF BeginTask, BeginRecovery, BindSocket, Goto,
       TypeOK, Progress, SocketInv, GuardInv, LockInv, FilesInv, HoldsGuard,
       HoldsLock, Owns, files, fds
  <2>2. CASE OpenGuard(p)
    BY <2>2 DEF OpenGuard, Goto, TypeOK, Progress, SocketInv, GuardInv,
       LockInv, FilesInv, HoldsGuard, HoldsLock, Owns, files, fds
  <2>3. CASE OpenLock(p)
    BY <2>3 DEF OpenLock, Goto, TypeOK, Progress, SocketInv, GuardInv,
       LockInv, FilesInv, HoldsGuard, HoldsLock, Owns, files, fds
  <2>4. CASE LockGuard(p)
    <3> USE DEF LockGuard, Abandon, Goto, TypeOK
    <3>1. Progress' /\ SocketInv' /\ FilesInv'
      <4>1. Progress'
        <5>1. CASE GuardFree(p)
          BY <2>4, <5>1 DEF Progress, Owns
        <5>2. CASE ~GuardFree(p)
          BY <2>4, <5>2 DEF Progress, Owns
        <5> QED BY <5>1, <5>2
      <4>2. SocketInv'
        BY <2>4 DEF SocketInv
      <4>3. FilesInv'
        BY <2>4 DEF FilesInv, files
      <4> QED BY <4>1, <4>2, <4>3
    <3>2. LockInv'
      BY <2>4 DEF LockInv, HoldsLock
    <3>3. ASSUME NEW q \in Procs, NEW r \in Procs, q # r,
                 HoldsGuard(q)', HoldsGuard(r)'
          PROVE  guardFd'[q] # guardFd'[r]
      <4>1. CASE q # p /\ r # p
        BY <2>4, <3>3, <4>1 DEF GuardInv, HoldsGuard
      <4>2. CASE GuardFree(p) /\ (q = p \/ r = p)
        BY <2>4, <3>3, <4>2 DEF GuardFree, HoldsGuard
      <4>3. CASE ~GuardFree(p) /\ (q = p \/ r = p)
        BY <2>4, <3>3, <4>3 DEF HoldsGuard
      <4> QED BY <4>1, <4>2, <4>3
    <3>4. GuardInv'
      BY <3>3 DEF GuardInv
    <3> QED BY <3>1, <3>2, <3>4
  <2>5. CASE FlockLock(p)
    <3> USE DEF FlockLock, Abandon, Goto, TypeOK
    <3>1. Progress' /\ SocketInv' /\ FilesInv'
      <4>1. Progress'
        <5>1. CASE LockFree(p)
          BY <2>5, <5>1 DEF Progress, Owns
        <5>2. CASE ~LockFree(p)
          BY <2>5, <5>2 DEF Progress, Owns
        <5> QED BY <5>1, <5>2
      <4>2. SocketInv'
        BY <2>5 DEF SocketInv
      <4>3. FilesInv'
        BY <2>5 DEF FilesInv, files
      <4> QED BY <4>1, <4>2, <4>3
    <3>2. GuardInv'
      BY <2>5 DEF GuardInv, HoldsGuard
    <3>3. ASSUME NEW q \in Procs, NEW r \in Procs, q # r,
                 HoldsLock(q)', HoldsLock(r)'
          PROVE  lockFd'[q] # lockFd'[r]
      <4>1. CASE q # p /\ r # p
        BY <2>5, <3>3, <4>1 DEF LockInv, HoldsLock
      <4>2. CASE LockFree(p) /\ (q = p \/ r = p)
        BY <2>5, <3>3, <4>2 DEF LockFree, HoldsLock
      <4>3. CASE ~LockFree(p) /\ (q = p \/ r = p)
        BY <2>5, <3>3, <4>3 DEF HoldsLock
      <4> QED BY <4>1, <4>2, <4>3
    <3>4. LockInv'
      BY <3>3 DEF LockInv
    <3> QED BY <3>1, <3>2, <3>4
  <2>6. CASE CheckActivity(p)
    BY <2>6 DEF CheckActivity, Abandon, Goto, TypeOK, Progress, SocketInv,
       GuardInv, LockInv, FilesInv, HoldsGuard, HoldsLock, Owns, files, fds
  <2> QED BY <1>4, <2>1, <2>2, <2>3, <2>4, <2>5, <2>6 DEF Acquire
<1>5. ASSUME NEW p \in Procs, Mark(p) PROVE OwnInv'
  <2>1. CASE LeaveHeld(p)
    BY <2>1 DEF LeaveHeld, Goto, TypeOK, Progress, SocketInv, GuardInv,
       LockInv, FilesInv, HoldsGuard, HoldsLock, Owns, files, fds
  <2>2. CASE CreateMarker(p) \/ ConfirmMarker(p)
    BY <2>2 DEF CreateMarker, ConfirmMarker, Goto, TypeOK, Progress,
       SocketInv, GuardInv, LockInv, FilesInv, HoldsGuard, HoldsLock, Owns,
       files, fds
  <2> QED BY <1>5, <2>1, <2>2 DEF Mark
<1>6. ASSUME NEW p \in Procs, Clear(p) PROVE OwnInv'
  BY <1>6 DEF Clear, EndTask, VerifyMarker, Unlink, Goto, TypeOK, Progress,
     SocketInv, GuardInv, LockInv, FilesInv, HoldsGuard, HoldsLock, Owns,
     files, fds
<1>7. ASSUME NEW p \in Procs, Close(p) PROVE OwnInv'
  BY <1>7 DEF Close, CloseLock, CloseGuard, CloseSocket, FreeSocket, Goto,
     TypeOK, Progress, SocketInv, GuardInv, LockInv, FilesInv, HoldsGuard,
     HoldsLock, Owns, files, fds
<1>8. ASSUME NEW p \in Procs, Crash(p) PROVE OwnInv'
  BY <1>8 DEF Crash, FreeSocket, Goto, TypeOK, Progress, SocketInv, GuardInv,
     LockInv, FilesInv, HoldsGuard, HoldsLock, Owns, files, fds
<1>9. CASE UNCHANGED vars
  BY <1>9 DEF vars, Progress, SocketInv, GuardInv, LockInv, FilesInv,
     HoldsGuard, HoldsLock, Owns, files, fds
<1> QED BY <1>1, <1>2, <1>3, <1>4, <1>5, <1>6, <1>7, <1>8, <1>9 DEF Next

LEMMA OwnInvInvariant == Spec => []OwnInv
<1>1. Init => OwnInv
  <2> SUFFICES ASSUME Init PROVE OwnInv
    OBVIOUS
  <2>1. TypeOK
    BY InitTypeOK
  <2>2. Progress /\ SocketInv /\ GuardInv /\ LockInv /\ FilesInv
    BY DEF Init, Progress, SocketInv, GuardInv, LockInv, FilesInv, HoldsGuard,
       HoldsLock, Owns
  <2> QED BY <2>1, <2>2 DEF OwnInv
<1> QED BY <1>1, OwnInvStep, Typing, PTL DEF Spec

\* For any number of processes, and however often the files are replaced, no
\* two processes own the workspace at once.
THEOREM Exclusive == Spec => []MutualExclusion
BY OwnInvInvariant, OwnInvExclusion, PTL
-----------------------------------------------------------------------------
(***************************************************************************)
(* Leftovers.  While the control directory is the first one, the marker of *)
(* a task stays until its own process, or a recovery, unlinks it; so a     *)
(* crash that leaves processes behind leaves the marker too, and the next  *)
(* task goes no further than the check for it.                             *)
(***************************************************************************)
RecoveryInv == \A p \in Procs :
    pc[p] # "idle" /\ mode[p] = "recover"
      => ~leftover /\ \A q \in Procs : pc[q] # "idle" => mode[q] # "task"

Marked(p) ==
    mode[p] = "task" /\ pc[p] \in {"created", "running", "clear", "unlink"}
MarkerInv == control = 1 => \A p \in Procs : Marked(p) => marker = p

LeftoverInv == leftover /\ control = 1 =>
    /\ marker # Nobody
    /\ \A p \in Procs : Owns(p) => pc[p] \in {"check", "held", "create"}

ShutInv == OwnInv /\ RecoveryInv /\ MarkerInv /\ LeftoverInv

LEMMA ShutInvStep == ShutInv /\ OwnInv' /\ [Next]_vars => ShutInv'
<1> SUFFICES ASSUME ShutInv, OwnInv', [Next]_vars PROVE ShutInv'
  OBVIOUS
<1> USE DEF ShutInv, TypeOK, Goto, files, fds
<1>a. TypeOK /\ Progress /\ MutualExclusion
  BY OwnInvExclusion DEF OwnInv
<1>1. CASE LeftoverExits \/ ReplaceGuard \/ ReplaceControl
  BY <1>1, <1>a DEF LeftoverExits, ReplaceGuard, ReplaceControl, RecoveryInv,
     MarkerInv, LeftoverInv, Marked, Owns
<1>2. ASSUME NEW p \in Procs, Acquire(p) PROVE ShutInv'
  <2>1. CASE BeginTask(p) \/ BeginRecovery(p)
    BY <2>1, <1>a DEF BeginTask, BeginRecovery, Confirmed, BindSocket,
       RecoveryInv, MarkerInv, LeftoverInv, Marked, Owns
  <2>2. CASE OpenGuard(p) \/ OpenLock(p)
    BY <2>2, <1>a DEF OpenGuard, OpenLock, RecoveryInv, MarkerInv,
       LeftoverInv, Marked, Owns
  <2>3. CASE LockGuard(p)
    BY <2>3, <1>a DEF LockGuard, Abandon, RecoveryInv, MarkerInv, LeftoverInv,
       Marked, Owns
  <2>4. CASE FlockLock(p)
    BY <2>4, <1>a DEF FlockLock, Abandon, RecoveryInv, MarkerInv, LeftoverInv,
       Marked, Owns
  <2>5. CASE CheckActivity(p)
    BY <2>5, <1>a DEF CheckActivity, Abandon, RecoveryInv, MarkerInv,
       LeftoverInv, Marked, Owns
  <2> QED BY <1>2, <2>1, <2>2, <2>3, <2>4, <2>5 DEF Acquire
<1>3. ASSUME NEW p \in Procs, Mark(p) PROVE ShutInv'
  <2>1. CASE LeaveHeld(p)
    BY <2>1, <1>a DEF LeaveHeld, RecoveryInv, MarkerInv, LeftoverInv, Marked,
       Owns
  <2>2. CASE CreateMarker(p)
    BY <2>2, <1>a, NobodyAssumption DEF CreateMarker, RecoveryInv, MarkerInv,
       LeftoverInv, Marked, Owns, Progress
  <2>3. CASE ConfirmMarker(p)
    BY <2>3, <1>a DEF ConfirmMarker, RecoveryInv, MarkerInv, LeftoverInv,
       Marked, Owns
  <2> QED BY <1>3, <2>1, <2>2, <2>3 DEF Mark
<1>4. ASSUME NEW p \in Procs, Clear(p) PROVE ShutInv'
  <2>1. CASE EndTask(p) \/ VerifyMarker(p)
    BY <2>1, <1>a DEF EndTask, VerifyMarker, RecoveryInv, MarkerInv,
       LeftoverInv, Marked, Owns, Progress
  <2>2. CASE Unlink(p)
    BY <2>2, <1>a DEF Unlink, RecoveryInv, MarkerInv, LeftoverInv, Marked,
       Owns, MutualExclusion
  <2> QED BY <1>4, <2>1, <2>2 DEF Clear
<1>5. ASSUME NEW p \in Procs, Close(p) PROVE ShutInv'
  BY <1>5, <1>a DEF Close, CloseLock, CloseGuard, CloseSocket, RecoveryInv,
     MarkerInv, LeftoverInv, Marked, Owns
<1>6. ASSUME NEW p \in Procs, Crash(p) PROVE ShutInv'
  BY <1>6, <1>a, NobodyAssumption DEF Crash, RecoveryInv, MarkerInv,
     LeftoverInv, Marked, Owns, MutualExclusion, Progress
<1>7. CASE UNCHANGED vars
  BY <1>7 DEF vars, RecoveryInv, MarkerInv, LeftoverInv, Marked,
     Owns
<1> QED BY <1>1, <1>2, <1>3, <1>4, <1>5, <1>6, <1>7 DEF Next

\* For any number of processes: while something a crashed task started is
\* alive, and nobody replaced the control directory, no task runs.
THEOREM Shut == Spec => []NoTaskBesideLeftovers
<1>1. Init /\ OwnInv => ShutInv
  BY DEF Init, ShutInv, RecoveryInv, MarkerInv, LeftoverInv, Marked
<1>2. ShutInv => NoTaskBesideLeftovers
  BY DEF ShutInv, LeftoverInv, NoTaskBesideLeftovers, Owns
<1>3. ShutInv /\ OwnInv' /\ [Next]_vars => ShutInv'
  BY ShutInvStep
<1> QED BY <1>1, <1>2, <1>3, OwnInvInvariant, PTL DEF Spec
-----------------------------------------------------------------------------
(***************************************************************************)
(* The exact marker.  Between the check of clear_active and its unlink the *)
(* process owns the workspace, and only an owner creates a marker: what it *)
(* checked is still there, or the whole directory was replaced.            *)
(***************************************************************************)
UnlinkInv == \A p \in Procs : pc[p] = "unlink" => marker \in {activity[p], Nobody}

LEMMA UnlinkInvStep == OwnInv /\ UnlinkInv /\ [Next]_vars => UnlinkInv'
<1> SUFFICES ASSUME OwnInv, UnlinkInv, [Next]_vars PROVE UnlinkInv'
  OBVIOUS
<1> USE DEF UnlinkInv, Goto, files, fds
<1>a. TypeOK /\ MutualExclusion
  BY OwnInvExclusion DEF OwnInv
<1>1. CASE LeftoverExits \/ ReplaceGuard \/ ReplaceControl
  BY <1>1 DEF LeftoverExits, ReplaceGuard, ReplaceControl
<1>2. ASSUME NEW p \in Procs, Acquire(p) PROVE UnlinkInv'
  <2>1. CASE BeginTask(p) \/ BeginRecovery(p) \/ OpenGuard(p) \/ OpenLock(p)
    BY <2>1, <1>a DEF BeginTask, BeginRecovery, BindSocket, OpenGuard, OpenLock, TypeOK
  <2>2. CASE LockGuard(p) \/ FlockLock(p)
    BY <2>2, <1>a DEF LockGuard, FlockLock, Abandon, TypeOK
  <2>3. CASE CheckActivity(p)
    BY <2>3, <1>a DEF CheckActivity, Abandon, TypeOK
  <2> QED BY <1>2, <2>1, <2>2, <2>3 DEF Acquire
<1>3. ASSUME NEW p \in Procs, Mark(p) PROVE UnlinkInv'
  <2>1. CASE LeaveHeld(p) \/ ConfirmMarker(p)
    BY <2>1, <1>a DEF LeaveHeld, ConfirmMarker, TypeOK
  <2>2. CASE CreateMarker(p)
    <3>1. \A q \in Procs : pc'[q] = "unlink" => pc[q] = "unlink" /\ q # p
      BY <2>2, <1>a DEF CreateMarker, TypeOK
    <3>2. \A q \in Procs : pc[q] = "unlink" => q = p
      BY <2>2, <1>a DEF CreateMarker, MutualExclusion, Owns
    <3> QED BY <3>1, <3>2
  <2> QED BY <1>3, <2>1, <2>2 DEF Mark
<1>4. ASSUME NEW p \in Procs, Clear(p) PROVE UnlinkInv'
  <2>1. CASE EndTask(p) \/ VerifyMarker(p)
    BY <2>1, <1>a DEF EndTask, VerifyMarker, TypeOK
  <2>2. CASE Unlink(p)
    BY <2>2, <1>a DEF Unlink, TypeOK
  <2> QED BY <1>4, <2>1, <2>2 DEF Clear
<1>5. ASSUME NEW p \in Procs, Close(p) PROVE UnlinkInv'
  BY <1>5, <1>a DEF Close, CloseLock, CloseGuard, CloseSocket, TypeOK
<1>6. ASSUME NEW p \in Procs, Crash(p) PROVE UnlinkInv'
  BY <1>6, <1>a DEF Crash, TypeOK
<1>7. CASE UNCHANGED vars
  BY <1>7 DEF vars
<1> QED BY <1>1, <1>2, <1>3, <1>4, <1>5, <1>6, <1>7 DEF Next

\* For any number of processes, crashes and replaced files: a marker that goes
\* away without its directory is unlinked by the lock object that made it or
\* took charge of it (clear_active), never by one that checked another marker.
THEOREM MarkerOfItsOwner == Spec => ExactMarkerCleared
<1> DEFINE Goes == marker # Nobody /\ marker' = Nobody /\ control' = control
           Own == \E p \in Procs : pc[p] = "unlink" /\ activity[p] = marker
<1>1. Init => UnlinkInv
  BY DEF Init, UnlinkInv
<1>2. OwnInv /\ UnlinkInv /\ [Next]_vars => [Goes => Own]_vars
  <2> SUFFICES ASSUME OwnInv, UnlinkInv, Next, Goes PROVE Own
    BY DEF vars
  <2>1. ~ (LeftoverExits \/ ReplaceGuard \/ ReplaceControl)
    BY DEF LeftoverExits, ReplaceGuard, ReplaceControl, files, OwnInv, TypeOK
  <2>2. PICK p \in Procs : Acquire(p) \/ Mark(p) \/ Clear(p) \/ Close(p) \/ Crash(p)
    BY <2>1 DEF Next
  <2>3. ~ (Acquire(p) \/ Close(p) \/ Crash(p))
    BY DEF Acquire, BeginTask, BeginRecovery, OpenGuard, LockGuard, OpenLock, FlockLock,
       CheckActivity, Close, CloseLock, CloseGuard, CloseSocket, Crash
  <2>4. ~ Mark(p)
    BY NobodyAssumption DEF Mark, LeaveHeld, CreateMarker, ConfirmMarker
  <2>5. Unlink(p) /\ pc[p] = "unlink"
    BY <2>2, <2>3, <2>4 DEF Clear, EndTask, VerifyMarker, Unlink
  <2> QED BY <2>5 DEF UnlinkInv
<1>3. OwnInv /\ UnlinkInv /\ [Next]_vars => UnlinkInv'
  BY UnlinkInvStep
<1>4. Spec => [][Goes => Own]_vars
  BY <1>1, <1>2, <1>3, OwnInvInvariant, PTL DEF Spec
<1> QED BY <1>4 DEF ExactMarkerCleared
-----------------------------------------------------------------------------
(***************************************************************************)
(* Refinement.  One process at most is at work, so owner is that process;  *)
(* a step that leaves AtWork and the marker alone maps to a stutter.       *)
(***************************************************************************)
LEMMA OwnerIs ==
  /\ MutualExclusion => \A p \in Procs : AtWork(p) => owner = p
  /\ (\A p \in Procs : ~AtWork(p)) => owner = Nobody
<1>1. ASSUME MutualExclusion, NEW p \in Procs, AtWork(p) PROVE owner = p
  <2>1. \A q \in Procs : AtWork(q) => q = p
    BY <1>1 DEF MutualExclusion, AtWork, Owns
  <2> QED BY <1>1, <2>1 DEF owner
<1>2. ASSUME \A p \in Procs : ~AtWork(p) PROVE owner = Nobody
  BY <1>2 DEF owner
<1> QED BY <1>1, <1>2

LEMMA OwnerIsNext ==
  /\ MutualExclusion' => \A p \in Procs : AtWork(p)' => owner' = p
  /\ (\A p \in Procs : ~AtWork(p)') => owner' = Nobody
<1>1. ASSUME MutualExclusion', NEW p \in Procs, AtWork(p)' PROVE owner' = p
  <2>1. \A q \in Procs : AtWork(q)' => q = p
    BY <1>1 DEF MutualExclusion, AtWork, Owns
  <2> QED BY <1>1, <2>1 DEF owner
<1>2. ASSUME \A p \in Procs : ~AtWork(p)' PROVE owner' = Nobody
  BY <1>2 DEF owner
<1> QED BY <1>1, <1>2

LEMMA SameOwner ==
  ASSUME MutualExclusion, MutualExclusion', UNCHANGED marker,
         \A p \in Procs : AtWork(p)' <=> AtWork(p)
  PROVE  UNCHANGED Exclusion!vars
<1>1. owner' = owner
  <2>1. CASE \E p \in Procs : AtWork(p)
    BY <2>1, OwnerIs, OwnerIsNext
  <2>2. CASE \A p \in Procs : ~AtWork(p)
    BY <2>2, OwnerIs, OwnerIsNext
  <2> QED BY <2>1, <2>2
<1> QED BY <1>1 DEF stale, Exclusion!vars

\* The end of p's work, whatever it does to its marker.
LEMMA OwnerLeaves ==
  ASSUME NEW p \in Procs, MutualExclusion, MutualExclusion', AtWork(p),
         marker' \in {marker, Nobody}, \A q \in Procs : ~AtWork(q)'
  PROVE  Exclusion!Next
<1>1. owner = p /\ owner' = Nobody
  BY OwnerIs, OwnerIsNext
<1>2. p # Nobody
  BY NobodyAssumption
<1>3. stale = FALSE /\ stale' \in BOOLEAN
  BY <1>1, <1>2 DEF stale
<1>4. Exclusion!Finish(p) \/ Exclusion!Vanish(p)
  BY <1>1, <1>3 DEF Exclusion!Finish, Exclusion!Vanish
<1> QED BY <1>4 DEF Exclusion!Next

\* The marker of a workspace without a worker is taken away: a recovery.
LEMMA MarkerTaken ==
  ASSUME MutualExclusion, MutualExclusion', marker' = Nobody,
         \A p \in Procs : AtWork(p)' <=> AtWork(p)
  PROVE  [Exclusion!Next]_(Exclusion!vars)
<1>1. owner' = owner
  <2>1. CASE \E p \in Procs : AtWork(p)
    BY <2>1, OwnerIs, OwnerIsNext
  <2>2. CASE \A p \in Procs : ~AtWork(p)
    BY <2>2, OwnerIs, OwnerIsNext
  <2> QED BY <2>1, <2>2
<1>2. stale' = FALSE /\ (stale => owner = Nobody) /\ stale \in BOOLEAN
  BY DEF stale
<1>3. Exclusion!Recover \/ UNCHANGED Exclusion!vars
  BY <1>1, <1>2 DEF Exclusion!Recover, Exclusion!vars
<1> QED BY <1>3 DEF Exclusion!Next

\* Whatever is replaced, the lock implements the abstract exclusion.
THEOREM Refinement == Spec => Implements
<1>1. Init => Exclusion!Init
  <2> SUFFICES ASSUME Init PROVE Exclusion!Init
    OBVIOUS
  <2>1. \A p \in Procs : ~AtWork(p)
    BY DEF Init, AtWork
  <2>2. owner = Nobody /\ stale = FALSE
    BY <2>1, OwnerIs DEF stale, Init
  <2> QED BY <2>2 DEF Exclusion!Init
<1>2. OwnInv /\ OwnInv' /\ [Next]_vars => [Exclusion!Next]_(Exclusion!vars)
  <2> SUFFICES ASSUME OwnInv, OwnInv', [Next]_vars
               PROVE  [Exclusion!Next]_(Exclusion!vars)
    OBVIOUS
  <2>a. TypeOK /\ Progress /\ MutualExclusion /\ MutualExclusion'
    <3>1. MutualExclusion
      BY OwnInvExclusion
    <3>2. MutualExclusion'
      BY OwnInvExclusion, PTL
    <3> QED BY <3>1, <3>2 DEF OwnInv
  <2> USE DEF TypeOK, Goto
  <2>1. CASE LeftoverExits \/ ReplaceGuard
    BY <2>1, <2>a, SameOwner DEF LeftoverExits, ReplaceGuard, AtWork
  <2>b. CASE ReplaceControl
    BY <2>b, <2>a, MarkerTaken DEF ReplaceControl, AtWork
  <2>2. ASSUME NEW p \in Procs, Acquire(p)
        PROVE  [Exclusion!Next]_(Exclusion!vars)
    <3>1. CASE BeginTask(p) \/ BeginRecovery(p)
      BY <3>1, <2>a, SameOwner DEF BeginTask, BeginRecovery, BindSocket, AtWork
    <3>2. CASE OpenGuard(p) \/ OpenLock(p)
      BY <3>2, <2>a, SameOwner DEF OpenGuard, OpenLock, AtWork
    <3>3. CASE LockGuard(p)
      BY <3>3, <2>a, SameOwner DEF LockGuard, Abandon, AtWork
    <3>4. CASE FlockLock(p)
      BY <3>4, <2>a, SameOwner DEF FlockLock, Abandon, AtWork
    <3>5. CASE CheckActivity(p)
      <4>1. CASE mode[p] = "task" /\ marker = Nobody
        <5>1. \A q \in Procs : ~AtWork(q)
          BY <3>5, <2>a DEF CheckActivity, AtWork, Owns, MutualExclusion
        <5>2. AtWork(p)' /\ marker' = Nobody
          BY <3>5, <4>1, <2>a DEF CheckActivity, AtWork
        <5>a. owner = Nobody /\ owner' = p
          BY <5>1, <5>2, <2>a, OwnerIs, OwnerIsNext
        <5>3. owner = Nobody /\ owner' = p /\ stale = FALSE /\ stale' = FALSE
          BY <4>1, <5>a, <5>2 DEF stale
        <5>4. Exclusion!Begin(p)
          BY <5>3 DEF Exclusion!Begin
        <5> QED BY <5>4 DEF Exclusion!Next
      <4>2. CASE ~(mode[p] = "task" /\ marker = Nobody)
        BY <3>5, <4>2, <2>a, SameOwner DEF CheckActivity, Abandon, AtWork
      <4> QED BY <4>1, <4>2
    <3> QED BY <2>2, <3>1, <3>2, <3>3, <3>4, <3>5 DEF Acquire
  <2>3. ASSUME NEW p \in Procs, Mark(p)
        PROVE  [Exclusion!Next]_(Exclusion!vars)
    <3> DEFINE Leaves == AtWork(p) /\ ~AtWork(p)'
               Writes == AtWork(p) /\ AtWork(p)' /\ marker' # marker
    <3>1. CASE Writes
      <4>1. owner = p /\ owner' = p /\ p # Nobody
        BY <3>1, <2>a, OwnerIs, OwnerIsNext, NobodyAssumption
      <4> QED BY <4>1 DEF stale, Exclusion!vars
    <3>2. CASE Leaves
      <4>1. \A q \in Procs : ~AtWork(q)'
        BY <2>3, <3>2, <2>a DEF Mark, LeaveHeld, CreateMarker, ConfirmMarker,
           AtWork, Owns, MutualExclusion
      <4>2. marker' = marker
        BY <2>3, <3>2, <2>a DEF Mark, LeaveHeld, CreateMarker, ConfirmMarker,
           AtWork
      <4> QED BY <3>2, <4>1, <4>2, <2>a, OwnerLeaves
    <3>3. CASE ~Leaves /\ ~Writes
      <4>1. CASE LeaveHeld(p)
        BY <4>1, <3>3, <2>a, SameOwner DEF LeaveHeld, AtWork
      <4>2. CASE CreateMarker(p)
        <5>1. AtWork(p)
          BY <4>2, <2>a DEF CreateMarker, AtWork, Progress
        <5>2. AtWork(p)' => marker' # marker
          BY <4>2, <2>a, NobodyAssumption DEF CreateMarker, AtWork
        <5> QED BY <3>3, <5>1, <5>2
      <4>3. CASE ConfirmMarker(p)
        <5>1. AtWork(p)
          BY <4>3, <2>a DEF ConfirmMarker, AtWork, Progress
        <5>2. \A q \in Procs : AtWork(q)' <=> AtWork(q)
          BY <4>3, <3>3, <5>1, <2>a DEF ConfirmMarker, AtWork
        <5>3. marker' = marker
          BY <4>3 DEF ConfirmMarker
        <5> QED BY <5>2, <5>3, <2>a, SameOwner
      <4> QED BY <2>3, <4>1, <4>2, <4>3 DEF Mark
    <3> HIDE DEF Leaves, Writes
    <3> QED BY <3>1, <3>2, <3>3
  <2>4. ASSUME NEW p \in Procs, Clear(p)
        PROVE  [Exclusion!Next]_(Exclusion!vars)
    <3>1. CASE EndTask(p) \/ VerifyMarker(p)
      BY <3>1, <2>a, SameOwner DEF EndTask, VerifyMarker, AtWork, Progress
    <3>2. CASE Unlink(p) /\ marker # Nobody /\ AtWork(p)
      <4>1. (\A q \in Procs : ~AtWork(q)') /\ marker' = Nobody
        BY <3>2, <2>a DEF Unlink, AtWork, Owns, MutualExclusion
      <4> QED BY <3>2, <4>1, <2>a, OwnerLeaves
    <3>3. CASE Unlink(p) /\ marker # Nobody /\ ~AtWork(p)
      <4>1. (\A q \in Procs : ~AtWork(q) /\ ~AtWork(q)') /\ marker' = Nobody
        BY <3>3, <2>a DEF Unlink, AtWork, Owns, MutualExclusion
      <4>2. owner = Nobody /\ owner' = Nobody /\ stale = TRUE /\ stale' = FALSE
        BY <3>3, <4>1, OwnerIs, OwnerIsNext DEF stale
      <4>3. Exclusion!Recover
        BY <4>2 DEF Exclusion!Recover
      <4> QED BY <4>3 DEF Exclusion!Next
    <3>4. CASE Unlink(p) /\ marker = Nobody
      <4>1. marker' = marker /\ \A q \in Procs : AtWork(q)' <=> AtWork(q)
        BY <3>4, <2>a DEF Unlink, AtWork
      <4> QED BY <4>1, <2>a, SameOwner
    <3> QED BY <2>4, <3>1, <3>2, <3>3, <3>4 DEF Clear
  <2>5. ASSUME NEW p \in Procs, Close(p)
        PROVE  [Exclusion!Next]_(Exclusion!vars)
    BY <2>5, <2>a, SameOwner DEF Close, CloseLock, CloseGuard, CloseSocket,
       AtWork
  <2>6. ASSUME NEW p \in Procs, Crash(p)
        PROVE  [Exclusion!Next]_(Exclusion!vars)
    <3>1. CASE AtWork(p)
      <4>1. (\A q \in Procs : ~AtWork(q)') /\ marker' = marker
        BY <2>6, <3>1, <2>a DEF Crash, AtWork, Owns, MutualExclusion
      <4> QED BY <3>1, <4>1, <2>a, OwnerLeaves
    <3>2. CASE ~AtWork(p)
      BY <2>6, <3>2, <2>a, SameOwner DEF Crash, AtWork
    <3> QED BY <3>1, <3>2
  <2>7. CASE UNCHANGED vars
    BY <2>7, <2>a, SameOwner DEF vars, AtWork
  <2> QED BY <2>1, <2>b, <2>2, <2>3, <2>4, <2>5, <2>6, <2>7 DEF Next
<1> QED BY <1>1, <1>2, OwnInvInvariant, PTL DEF Spec, Implements, Exclusion!Spec
=============================================================================
