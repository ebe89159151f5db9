------------------------ MODULE SingBoxServiceProofs ------------------------
(* What holds of SingBoxService for every set of requests, every bound and  *)
(* every setting.                                                           *)
EXTENDS SingBoxService, SequenceTheorems, TLAPS

\* What one step may do to the callers: give one a new state, move it on, or
\* end its job.
LEMMA BecomeType ==
    ASSUME TypeOK, NEW c \in Callers, NEW j \in Jobs, Become(c, j)
    PROVE  job' \in [Callers -> Jobs]
BY DEF TypeOK, Become

LEMMA GotoType ==
    ASSUME TypeOK, NEW c \in Callers, NEW s \in Steps, Goto(c, s)
    PROVE  job' \in [Callers -> Jobs]
<1>1. [job[c] EXCEPT !.pc = s] \in Jobs
  BY DEF TypeOK, Jobs
<1>. QED  BY <1>1, BecomeType DEF Goto

LEMMA LeaveType ==
    ASSUME TypeOK, NEW c \in Callers, Leave(c)
    PROVE  job' \in [Callers -> Jobs]
<1>1. IdleJob \in Jobs
  BY DEF IdleJob, Jobs, Steps, Commands, ServiceActions, ButtonActions
<1>. QED  BY <1>1, BecomeType DEF Leave

LEMMA UnlockType ==
    ASSUME TypeOK, NEW c \in Callers, Unlock(c)
    PROVE  /\ job' \in [Callers -> Jobs]
           /\ lock' \in Callers \cup {NoCaller}
BY GotoType, LeaveType DEF Unlock, Steps

LEMMA AfterApplyType ==
    ASSUME TypeOK, NEW c \in Callers, AfterApply(c)
    PROVE  /\ job' \in [Callers -> Jobs]
           /\ lock' \in Callers \cup {NoCaller}
BY GotoType, LeaveType, UnlockType DEF AfterApply, Steps, TypeOK

LEMMA EnterType ==
    ASSUME TypeOK, NEW c \in Callers, NEW k \in Commands \cup ButtonActions,
           Enter(c, k)
    PROVE  job' \in [Callers -> Jobs] /\ alone' \in BOOLEAN
<1>1. Entry(k) \in Steps
  BY DEF Entry, Commands, ServiceActions, ButtonActions, KillCommands, Steps
<1>2. [IdleJob EXCEPT !.cmd = k, !.pc = Entry(k)] \in Jobs
  BY <1>1 DEF IdleJob, Jobs
<1>3. job' \in [Callers -> Jobs]
  BY <1>2, BecomeType DEF Enter
<1>4. alone' \in BOOLEAN
  BY DEF Enter
<1>. QED
  BY <1>3, <1>4

LEMMA InitType == Init => TypeOK
<1>. SUFFICES ASSUME Init PROVE TypeOK
  OBVIOUS
<1>1. BootJobs \in [Callers -> Jobs]
  BY DEF BootJobs, IdleJob, Jobs, Steps, Commands, ServiceActions, ButtonActions
<1>2. <<>> \in Seq(ButtonActions)
  OBVIOUS
<1>. QED
  BY <1>1, <1>2 DEF Init, TypeOK

LEMMA ServiceStepType ==
    ASSUME TypeOK, NEW c \in Callers, ServiceStep(c)
    PROVE  TypeOK'
<1>. USE DEF envVars, uciVars, procdVars, ruleVars
<1>1. CASE Acquire(c)
  <2>1. /\ [job[c] EXCEPT !.sub = "start", !.pc = "gate"] \in Jobs
        /\ [job[c] EXCEPT !.sub = "stop", !.pc = "delRoute"] \in Jobs
        /\ [job[c] EXCEPT !.sub = "stop", !.pc = "check"] \in Jobs
    BY DEF TypeOK, Jobs, Steps
  <2>2. job' \in [Callers -> Jobs]
    BY <1>1, <2>1, BecomeType DEF Acquire
  <2>. QED  BY <1>1, <2>2 DEF Acquire, TypeOK
<1>2. CASE ReloadCheck(c)
  <2>1. job' \in [Callers -> Jobs] /\ lock' \in Callers \cup {NoCaller}
    BY <1>2, GotoType, UnlockType DEF ReloadCheck, Steps, TypeOK
  <2>. QED  BY <1>2, <2>1 DEF ReloadCheck, TypeOK
<1>3. CASE Refuse(c)
  <2>1. job' \in [Callers -> Jobs] /\ lock' \in Callers \cup {NoCaller}
    BY <1>3, UnlockType DEF Refuse
  <2>. QED  BY <1>3, <2>1 DEF Refuse, TypeOK
<1>4. CASE Admit(c)
  <2>1. job' \in [Callers -> Jobs]
    BY <1>4, GotoType DEF Admit, Steps
  <2>. QED  BY <1>4, <2>1 DEF Admit, TypeOK
<1>5. CASE StopNatives(c)
  <2>0. [job[c] EXCEPT !.disabled = native, !.pc = "memo"] \in Jobs
    BY DEF TypeOK, Jobs, Steps
  <2>1. job' \in [Callers -> Jobs]
    BY <1>5, <2>0, BecomeType DEF StopNatives
  <2>. QED  BY <1>5, <2>1 DEF StopNatives, TypeOK
<1>6. CASE WriteMemo(c)
  <2>1. job' \in [Callers -> Jobs]
    BY <1>6, GotoType DEF WriteMemo, Steps
  <2>2. job[c].disabled \subseteq Rules
    BY DEF TypeOK, Jobs
  <2>. QED  BY <1>6, <2>1, <2>2 DEF WriteMemo, TypeOK
<1>7. CASE Launch(c)
  <2>1. job' \in [Callers -> Jobs]
    BY <1>7, GotoType DEF Launch, Steps
  <2>. QED  BY <1>7, <2>1 DEF Launch, TypeOK
<1>8. CASE DelRoute(c)
  <2>1. job' \in [Callers -> Jobs]
    BY <1>8, GotoType DEF DelRoute, Steps
  <2>. QED  BY <1>8, <2>1 DEF DelRoute, TypeOK
<1>9. CASE AddRoute(c)
  <2>1. job' \in [Callers -> Jobs]
    BY <1>9, GotoType DEF AddRoute, Steps
  <2>. QED  BY <1>9, <2>1 DEF AddRoute, TypeOK
<1>10. CASE Kill(c)
  <2>1. job' \in [Callers -> Jobs] /\ lock' \in Callers \cup {NoCaller}
    <3>1. CASE job[c].cmd \in {"reload", "restart"}
      <4>1. [job[c] EXCEPT !.sub = "start", !.pc = "gate"] \in Jobs
        BY DEF TypeOK, Jobs, Steps
      <4>. QED  BY <1>10, <3>1, <4>1, BecomeType DEF Kill, TypeOK
    <3>2. CASE job[c].cmd \notin {"reload", "restart"}
      BY <1>10, <3>2, UnlockType DEF Kill
    <3>. QED  BY <3>1, <3>2
  <2>. QED  BY <1>10, <2>1 DEF Kill, TypeOK
<1>. QED
  BY <1>1, <1>2, <1>3, <1>4, <1>5, <1>6, <1>7, <1>8, <1>9, <1>10 DEF ServiceStep

LEMMA ApplyStepType ==
    ASSUME TypeOK, NEW c \in Callers, ApplyStep(c)
    PROVE  TypeOK'
<1>. USE DEF envVars, uciVars, procdVars, ruleVars
<1>1. CASE ReadKillswitch(c)
  <2>0. [job[c] EXCEPT !.on = killswitch, !.pc = "ksDel"] \in Jobs
    BY DEF TypeOK, Jobs, Steps
  <2>1. job' \in [Callers -> Jobs]
    BY <1>1, <2>0, BecomeType DEF ReadKillswitch
  <2>. QED  BY <1>1, <2>1 DEF ReadKillswitch, TypeOK
<1>2. CASE DelKill(c)
  <2>1. job' \in [Callers -> Jobs] /\ lock' \in Callers \cup {NoCaller}
    BY <1>2, GotoType, AfterApplyType DEF DelKill, Steps, TypeOK
  <2>. QED  BY <1>2, <2>1 DEF DelKill, TypeOK
<1>3. CASE AddKill(c)
  <2>1. job' \in [Callers -> Jobs] /\ lock' \in Callers \cup {NoCaller}
    BY <1>3, AfterApplyType DEF AddKill
  <2>. QED  BY <1>3, <2>1 DEF AddKill, TypeOK
<1>. QED
  BY <1>1, <1>2, <1>3 DEF ApplyStep

LEMMA SwitchStepType ==
    ASSUME TypeOK, NEW c \in Callers, SwitchStep(c)
    PROVE  TypeOK'
<1>. USE DEF envVars, uciVars, procdVars, ruleVars
<1>1. CASE SetKillswitch(c)
  <2>1. job' \in [Callers -> Jobs]
    BY <1>1, GotoType DEF SetKillswitch, Steps
  <2>. QED  BY <1>1, <2>1 DEF SetKillswitch, TypeOK
<1>2. CASE SetBind(c)
  <2>1. job' \in [Callers -> Jobs]
    BY <1>2, GotoType, LeaveType DEF SetBind, Steps
  <2>. QED  BY <1>2, <2>1 DEF SetBind, TypeOK
<1>3. CASE SyncSwitch(c)
  <2>0. \A k \in ButtonActions : [job[c] EXCEPT !.cmd = k, !.pc = "hotplug"] \in Jobs
    BY DEF TypeOK, Jobs, Steps
  <2>1. job' \in [Callers -> Jobs]
    BY <1>3, <2>0, BecomeType DEF SyncSwitch, ButtonActions
  <2>. QED  BY <1>3, <2>1 DEF SyncSwitch, TypeOK
<1>4. CASE HotplugGate(c)
  <2>1. job' \in [Callers -> Jobs]
    BY <1>4, GotoType, LeaveType DEF HotplugGate, Steps
  <2>. QED  BY <1>4, <2>1 DEF HotplugGate, TypeOK
<1>5. CASE DropKill(c)
  <2>1. job' \in [Callers -> Jobs]
    BY <1>5, LeaveType DEF DropKill
  <2>. QED  BY <1>5, <2>1 DEF DropKill, TypeOK
<1>6. CASE Guard(c)
  <2>1. job' \in [Callers -> Jobs]
    BY <1>6, GotoType, LeaveType DEF Guard, Steps
  <2>. QED  BY <1>6, <2>1 DEF Guard, TypeOK
<1>. QED
  BY <1>1, <1>2, <1>3, <1>4, <1>5, <1>6 DEF SwitchStep

LEMMA EnvironmentType ==
    ASSUME TypeOK, Environment
    PROVE  TypeOK'
<1>. USE DEF envVars, uciVars, procdVars, ruleVars, callerVars
<1>1. CASE Flip
  BY <1>1 DEF Flip, TypeOK, ButtonActions
<1>2. CASE Deliver
  <2>1. events # <<>> /\ Head(events) \in ButtonActions /\ Tail(events) \in Seq(ButtonActions)
    BY <1>2 DEF Deliver, TypeOK
  <2>2. job' \in [Callers -> Jobs] /\ alone' \in BOOLEAN
    BY <1>2, <2>1, EnterType DEF Deliver, Callers
  <2>. QED  BY <1>2, <2>1, <2>2 DEF Deliver, TypeOK
<1>3. CASE TunUp
  BY <1>3 DEF TunUp, TypeOK
<1>4. CASE TunDown
  BY <1>4 DEF TunDown, TypeOK
<1>5. CASE UptimePasses
  BY <1>5 DEF UptimePasses, TypeOK
<1>6. CASE PowerCut
  <2>1. BootJobs \in [Callers -> Jobs]
    BY DEF BootJobs, IdleJob, Jobs, Steps, Commands, ServiceActions, ButtonActions
  <2>2. <<>> \in Seq(ButtonActions)
    OBVIOUS
  <2>. QED  BY <1>6, <2>1, <2>2 DEF PowerCut, TypeOK
<1>7. CASE \E r \in Rules : EnableNative(r)
  BY <1>7 DEF EnableNative, TypeOK
<1>8. ASSUME NEW c \in Killable, Abort(c) PROVE TypeOK'
  <2>1. c \in Callers
    BY CallersAssumption DEF Callers
  <2>2. job' \in [Callers -> Jobs]
    BY <1>8, <2>1, LeaveType DEF Abort
  <2>. QED  BY <1>8, <2>2 DEF Abort, TypeOK
<1>. QED
  BY <1>1, <1>2, <1>3, <1>4, <1>5, <1>6, <1>7, <1>8 DEF Environment

LEMMA NextType == TypeOK /\ [Next]_vars => TypeOK'
<1>. SUFFICES ASSUME TypeOK, [Next]_vars PROVE TypeOK'
  OBVIOUS
<1>1. ASSUME NEW c \in Callers, Step(c) PROVE TypeOK'
  BY <1>1, ServiceStepType, ApplyStepType, SwitchStepType DEF Step
<1>2. ASSUME NEW c \in Requests, NEW k \in Commands, Call(c, k) PROVE TypeOK'
  <2>1. job' \in [Callers -> Jobs] /\ alone' \in BOOLEAN
    BY <1>2, EnterType DEF Call, Callers
  <2>. QED
    BY <1>2, <2>1 DEF Call, TypeOK, envVars, uciVars, procdVars, ruleVars
<1>3. CASE Environment
  BY <1>3, EnvironmentType
<1>4. CASE UNCHANGED vars
  BY <1>4 DEF vars, envVars, uciVars, procdVars, ruleVars, callerVars, TypeOK
<1>. QED
  BY <1>1, <1>2, <1>3, <1>4 DEF Next

\* The variables keep their types.
THEOREM TypeCorrect == Spec => []TypeOK
BY InitType, NextType, PTL DEF Spec

-----------------------------------------------------------------------------
(* The tunnel is routed.  TunnelRouted speaks of the lock being free; what   *)
(* every step preserves is that the lock is held by the caller inside a      *)
(* locked command, and that an instance without its rule is the unfinished   *)
(* work of such a caller: a start that has not added the rule yet, or a      *)
(* stop that has not killed the instance yet.                                *)

LockedSteps == {"check", "gate", "natives", "memo", "launch", "delRoute", "addRoute", "kill"}
ApplySteps  == {"ksRead", "ksDel", "ksAdd"}

Locked(c) == \/ job[c].pc \in LockedSteps
             \/ job[c].pc \in ApplySteps /\ job[c].cmd \notin KillCommands

Unrouted(c) ==
    \/ job[c].sub = "start" /\ job[c].pc \in {"delRoute", "addRoute"}
    \/ /\ job[c].sub # "start"
       /\ job[c].cmd \notin KillCommands
       /\ job[c].pc \in ApplySteps \cup {"kill"}

LockInv == \A c \in Callers : Locked(c) => lock = c
JobInv == \A c \in Callers :
    /\ job[c].pc \in LockedSteps \cup {"guard", "lock", "hotplug"} => job[c].cmd \notin KillCommands
    /\ job[c].pc = "setKill" => job[c].cmd \in KillCommands
    /\ job[c].pc \in {"gate", "natives", "memo", "launch"} => job[c].sub = "start"
RouteInv == instance /\ ~vpnRule => \E c \in Callers : Unrouted(c)

HoldInv == TypeOK /\ LockInv /\ JobInv
IInv == HoldInv /\ RouteInv

LEMMA IInvHolds == IInv => TunnelRouted
BY CallersAssumption
   DEF IInv, HoldInv, LockInv, RouteInv, TunnelRouted, Unrouted, Locked, LockedSteps, ApplySteps

LEMMA InitIInv == Init => IInv
BY InitType
   DEF Init, IInv, HoldInv, LockInv, JobInv, RouteInv, Locked, BootJobs, IdleJob, LockedSteps,
       ApplySteps, KillCommands

\* A caller's new state leaves the others alone.
LEMMA BecomeOthers ==
    ASSUME TypeOK, NEW c \in Callers, NEW j, Become(c, j)
    PROVE  job'[c] = j /\ \A d \in Callers \ {c} : job'[d] = job[d]
BY DEF TypeOK, Become

\* Only the holder of the lock is inside a locked command.
LEMMA HolderAlone ==
    ASSUME LockInv, NEW c \in Callers, Locked(c)
    PROVE  lock = c /\ \A d \in Callers \ {c} : ~Locked(d) /\ ~Unrouted(d)
BY DEF LockInv, Locked, Unrouted, LockedSteps, ApplySteps

LEMMA FreeLock ==
    ASSUME LockInv, lock = NoCaller
    PROVE  \A d \in Callers : ~Locked(d) /\ ~Unrouted(d)
BY CallersAssumption DEF LockInv, Locked, Unrouted, LockedSteps, ApplySteps

\* The shape of every step that changes one caller: the lock and job parts of
\* the invariant carry over if the caller's new state respects them.
LEMMA OneCaller ==
    ASSUME HoldInv, NEW c \in Callers, NEW j, Become(c, j),
           \/ lock' = lock
           \/ Locked(c) \/ lock = NoCaller,
           (j.pc \in LockedSteps \/ (j.pc \in ApplySteps /\ j.cmd \notin KillCommands))
               => lock' = c,
           j.pc \in LockedSteps \cup {"guard", "lock", "hotplug"} => j.cmd \notin KillCommands,
           j.pc = "setKill" => j.cmd \in KillCommands,
           j.pc \in {"gate", "natives", "memo", "launch"} => j.sub = "start"
    PROVE  LockInv' /\ JobInv'
<1>1. job'[c] = j /\ \A d \in Callers \ {c} : job'[d] = job[d]
  BY BecomeOthers DEF HoldInv
<1>2. \A d \in Callers \ {c} : Locked(d)' = Locked(d)
  BY <1>1 DEF Locked
<1>3. ASSUME NEW d \in Callers \ {c}, Locked(d) PROVE lock' = d
  BY <1>3, HolderAlone, FreeLock DEF HoldInv, LockInv
<1>4. LockInv'
  BY <1>1, <1>2, <1>3 DEF LockInv, Locked
<1>5. JobInv'
  BY <1>1 DEF JobInv, HoldInv
<1>. QED  BY <1>4, <1>5

\* A step that leaves the instance and the rule alone and does not abandon
\* unfinished work keeps the routing part.
LEMMA RouteKept ==
    ASSUME HoldInv, NEW c \in Callers, NEW j, Become(c, j),
           instance' = instance, vpnRule' = vpnRule,
           Unrouted(c) => Unrouted(c)'
    PROVE  (RouteInv => RouteInv')
<1>1. \A d \in Callers \ {c} : Unrouted(d)' = Unrouted(d)
  BY BecomeOthers DEF HoldInv, Unrouted
<1>. QED  BY <1>1 DEF RouteInv, HoldInv

\* The ways a caller leaves the locked part or a command.
LEMMA LeaveInv ==
    ASSUME HoldInv, NEW c \in Callers, Leave(c),
           \/ lock' = lock /\ ~Locked(c)
           \/ lock' = NoCaller /\ Locked(c)
    PROVE  LockInv' /\ JobInv'
<1>1. Become(c, IdleJob)
  BY DEF Leave
<1>2. IdleJob.pc = "idle"
  BY DEF IdleJob
<1>. QED
  BY <1>1, <1>2, OneCaller DEF LockedSteps, ApplySteps

LEMMA UnlockInv ==
    ASSUME HoldInv, NEW c \in Callers, Locked(c), Unlock(c)
    PROVE  LockInv' /\ JobInv'
<1>1. CASE job[c].cmd = "released"
  <2>1. Become(c, [job[c] EXCEPT !.pc = "drop"]) /\ lock' = NoCaller
    BY <1>1 DEF Unlock, Goto
  <2>2. [job[c] EXCEPT !.pc = "drop"].pc = "drop"
    BY DEF HoldInv, TypeOK, Jobs
  <2>. QED
    BY <2>1, <2>2, OneCaller DEF LockedSteps, ApplySteps
<1>2. CASE job[c].cmd # "released"
  BY <1>2, LeaveInv DEF Unlock
<1>. QED  BY <1>1, <1>2

\* Moving one caller from one step to another.
LEMMA GotoFields ==
    ASSUME TypeOK, NEW c \in Callers, NEW s, Goto(c, s)
    PROVE  /\ job'[c].pc = s
           /\ job'[c].cmd = job[c].cmd
           /\ job'[c].sub = job[c].sub
           /\ \A d \in Callers \ {c} : job'[d] = job[d]
BY DEF TypeOK, Jobs, Goto, Become

LEMMA GotoInv ==
    ASSUME HoldInv, NEW c \in Callers, NEW s, Goto(c, s), lock' = lock,
           (s \in LockedSteps \/ (s \in ApplySteps /\ job[c].cmd \notin KillCommands))
               => lock = c,
           s \in LockedSteps \cup {"guard", "lock", "hotplug"} => job[c].cmd \notin KillCommands,
           s = "setKill" => job[c].cmd \in KillCommands,
           s \in {"gate", "natives", "memo", "launch"} => job[c].sub = "start"
    PROVE  LockInv' /\ JobInv'
<1>1. Become(c, [job[c] EXCEPT !.pc = s])
  BY DEF Goto
<1>2. /\ [job[c] EXCEPT !.pc = s].pc = s
      /\ [job[c] EXCEPT !.pc = s].cmd = job[c].cmd
      /\ [job[c] EXCEPT !.pc = s].sub = job[c].sub
  BY DEF HoldInv, TypeOK, Jobs
<1>. QED  BY <1>1, <1>2, OneCaller

LEMMA AfterApplyInv ==
    ASSUME HoldInv, NEW c \in Callers, job[c].pc \in ApplySteps, AfterApply(c)
    PROVE  LockInv' /\ JobInv'
<1>1. CASE job[c].cmd \in KillCommands
  <2>1. ~Locked(c)
    BY <1>1 DEF Locked, LockedSteps, ApplySteps
  <2>. QED  BY <1>1, <2>1, LeaveInv DEF AfterApply
<1>2. CASE job[c].cmd \notin KillCommands /\ job[c].sub = "stop"
  <2>1. Locked(c) /\ lock = c
    BY <1>2, HolderAlone DEF Locked, HoldInv
  <2>. QED
    BY <1>2, <2>1, GotoInv DEF AfterApply, LockedSteps, ApplySteps
<1>3. CASE job[c].cmd \notin KillCommands /\ job[c].sub # "stop"
  <2>1. Locked(c)
    BY <1>3 DEF Locked
  <2>. QED  BY <1>3, <2>1, UnlockInv DEF AfterApply
<1>. QED  BY <1>1, <1>2, <1>3

\* The commands of start_service, stop_service and reload_service.
LEMMA ServiceStepInv ==
    ASSUME HoldInv, NEW c \in Callers, ServiceStep(c)
    PROVE  LockInv' /\ JobInv' /\ (RouteInv => RouteInv')
<1>. USE DEF procdVars, ruleVars, At
<1>0. job[c].pc \in LockedSteps => Locked(c) /\ lock = c /\ job[c].cmd \notin KillCommands
  BY DEF HoldInv, LockInv, JobInv, Locked
<1>1. CASE Acquire(c)
  <2>1. ~Unrouted(c) /\ ~Locked(c) /\ lock = NoCaller /\ lock' = c
    BY <1>1, FreeLock DEF Acquire, HoldInv
  <2>2. job[c].cmd \notin KillCommands
    BY <1>1 DEF Acquire, HoldInv, JobInv
  <2>3. PICK j : /\ Become(c, j)
                 /\ j.cmd \notin KillCommands
                 /\ j.pc \in {"gate", "delRoute", "check"}
                 /\ j.pc = "gate" => j.sub = "start"
    <3>1. /\ [job[c] EXCEPT !.sub = "start", !.pc = "gate"].pc = "gate"
          /\ [job[c] EXCEPT !.sub = "start", !.pc = "gate"].sub = "start"
          /\ [job[c] EXCEPT !.sub = "start", !.pc = "gate"].cmd = job[c].cmd
      BY DEF HoldInv, TypeOK, Jobs
    <3>2. /\ [job[c] EXCEPT !.sub = "stop", !.pc = "delRoute"].pc = "delRoute"
          /\ [job[c] EXCEPT !.sub = "stop", !.pc = "delRoute"].cmd = job[c].cmd
      BY DEF HoldInv, TypeOK, Jobs
    <3>3. /\ [job[c] EXCEPT !.sub = "stop", !.pc = "check"].pc = "check"
          /\ [job[c] EXCEPT !.sub = "stop", !.pc = "check"].cmd = job[c].cmd
      BY DEF HoldInv, TypeOK, Jobs
    <3>. QED  BY <1>1, <2>2, <3>1, <3>2, <3>3 DEF Acquire
  <2>4. LockInv' /\ JobInv'
    BY <2>1, <2>3, OneCaller
  <2>5. (RouteInv => RouteInv')
    BY <1>1, <2>1, <2>3, RouteKept DEF Acquire
  <2>. QED  BY <2>4, <2>5
<1>2. CASE ReloadCheck(c)
  <2>1. Locked(c) /\ lock = c /\ job[c].cmd \notin KillCommands /\ ~Unrouted(c)
    BY <1>0, <1>2 DEF ReloadCheck, LockedSteps, Unrouted, ApplySteps
  <2>2. LockInv' /\ JobInv'
    BY <1>2, <2>1, UnlockInv, GotoInv DEF ReloadCheck, ApplySteps
  <2>3. \E j : Become(c, j)
    BY <1>2 DEF ReloadCheck, Unlock, Goto, Leave
  <2>. QED  BY <1>2, <2>1, <2>2, <2>3, RouteKept DEF ReloadCheck
<1>3. CASE Refuse(c)
  <2>1. Locked(c) /\ ~Unrouted(c)
    BY <1>0, <1>3 DEF Refuse, LockedSteps, Unrouted, ApplySteps
  <2>2. LockInv' /\ JobInv'
    BY <1>3, <2>1, UnlockInv DEF Refuse
  <2>3. (RouteInv => RouteInv')
    <3>1. CASE instance' = FALSE
      BY <3>1 DEF RouteInv
    <3>2. CASE UNCHANGED procdVars
      <4>1. \E j : Become(c, j)
        BY <1>3 DEF Refuse, Unlock, Goto, Leave
      <4>. QED  BY <1>3, <2>1, <3>2, <4>1, RouteKept DEF Refuse
    <3>. QED  BY <1>3, <3>1, <3>2 DEF Refuse
  <2>. QED  BY <2>2, <2>3
<1>4. CASE Admit(c)
  <2>1. Locked(c) /\ lock = c /\ ~Unrouted(c) /\ job[c].cmd \notin KillCommands
        /\ job[c].sub = "start"
    BY <1>0, <1>4 DEF Admit, LockedSteps, Unrouted, ApplySteps, HoldInv, JobInv
  <2>2. LockInv' /\ JobInv'
    BY <1>4, <2>1, GotoInv DEF Admit, ApplySteps
  <2>3. (RouteInv => RouteInv')
    BY <1>4, <2>1, RouteKept DEF Admit, Goto
  <2>. QED  BY <2>2, <2>3
<1>5. CASE StopNatives(c)
  <2>1. Locked(c) /\ lock = c /\ ~Unrouted(c) /\ job[c].cmd \notin KillCommands
        /\ job[c].sub = "start"
    BY <1>0, <1>5 DEF StopNatives, LockedSteps, Unrouted, ApplySteps, HoldInv, JobInv
  <2>2. Become(c, [job[c] EXCEPT !.disabled = native, !.pc = "memo"]) /\ lock' = lock
    BY <1>5 DEF StopNatives
  <2>3. /\ [job[c] EXCEPT !.disabled = native, !.pc = "memo"].pc = "memo"
        /\ [job[c] EXCEPT !.disabled = native, !.pc = "memo"].cmd = job[c].cmd
        /\ [job[c] EXCEPT !.disabled = native, !.pc = "memo"].sub = job[c].sub
    BY DEF HoldInv, TypeOK, Jobs
  <2>4. LockInv' /\ JobInv'
    BY <2>1, <2>2, <2>3, OneCaller DEF ApplySteps
  <2>5. (RouteInv => RouteInv')
    BY <1>5, <2>1, <2>2, RouteKept DEF StopNatives
  <2>. QED  BY <2>4, <2>5
<1>6. CASE WriteMemo(c)
  <2>1. Locked(c) /\ lock = c /\ ~Unrouted(c) /\ job[c].cmd \notin KillCommands
        /\ job[c].sub = "start"
    BY <1>0, <1>6 DEF WriteMemo, LockedSteps, Unrouted, ApplySteps, HoldInv, JobInv
  <2>2. LockInv' /\ JobInv'
    BY <1>6, <2>1, GotoInv DEF WriteMemo, ApplySteps
  <2>3. (RouteInv => RouteInv')
    BY <1>6, <2>1, RouteKept DEF WriteMemo, Goto
  <2>. QED  BY <2>2, <2>3
<1>7. CASE Launch(c)
  <2>1. Locked(c) /\ lock = c /\ job[c].cmd \notin KillCommands /\ job[c].sub = "start"
    BY <1>0, <1>7 DEF Launch, LockedSteps, HoldInv, JobInv
  <2>2. LockInv' /\ JobInv'
    BY <1>7, <2>1, GotoInv DEF Launch, ApplySteps
  <2>3. Unrouted(c)'
    BY <1>7, <2>1, GotoFields DEF Launch, Unrouted, HoldInv
  <2>4. (RouteInv => RouteInv')
    BY <2>3 DEF RouteInv
  <2>. QED  BY <2>2, <2>4
<1>8. CASE DelRoute(c)
  <2>1. Locked(c) /\ lock = c /\ job[c].cmd \notin KillCommands
    BY <1>0, <1>8 DEF DelRoute, LockedSteps
  <2>2. LockInv' /\ JobInv'
    BY <1>8, <2>1, GotoInv DEF DelRoute, ApplySteps
  <2>3. Unrouted(c)'
    BY <1>8, <2>1, GotoFields DEF DelRoute, Unrouted, HoldInv, ApplySteps
  <2>4. (RouteInv => RouteInv')
    BY <2>3 DEF RouteInv
  <2>. QED  BY <2>2, <2>4
<1>9. CASE AddRoute(c)
  <2>1. Locked(c) /\ lock = c /\ job[c].cmd \notin KillCommands
    BY <1>0, <1>9 DEF AddRoute, LockedSteps
  <2>2. LockInv' /\ JobInv'
    BY <1>9, <2>1, GotoInv DEF AddRoute, LockedSteps
  <2>3. (RouteInv => RouteInv')
    BY <1>9 DEF AddRoute, RouteInv
  <2>. QED  BY <2>2, <2>3
<1>10. CASE Kill(c)
  <2>1. Locked(c) /\ lock = c /\ job[c].cmd \notin KillCommands
    BY <1>0, <1>10 DEF Kill, LockedSteps
  <2>2. LockInv' /\ JobInv'
    <3>1. CASE job[c].cmd \in {"reload", "restart"}
      <4>1. /\ Become(c, [job[c] EXCEPT !.sub = "start", !.pc = "gate"])
            /\ lock' = lock
        BY <1>10, <3>1 DEF Kill
      <4>2. /\ [job[c] EXCEPT !.sub = "start", !.pc = "gate"].pc = "gate"
            /\ [job[c] EXCEPT !.sub = "start", !.pc = "gate"].sub = "start"
            /\ [job[c] EXCEPT !.sub = "start", !.pc = "gate"].cmd = job[c].cmd
        BY DEF HoldInv, TypeOK, Jobs
      <4>. QED  BY <2>1, <4>1, <4>2, OneCaller DEF ApplySteps
    <3>2. CASE job[c].cmd \notin {"reload", "restart"}
      BY <1>10, <2>1, <3>2, UnlockInv DEF Kill
    <3>. QED  BY <3>1, <3>2
  <2>3. (RouteInv => RouteInv')
    BY <1>10 DEF Kill, RouteInv
  <2>. QED  BY <2>2, <2>3
<1>. QED
  BY <1>1, <1>2, <1>3, <1>4, <1>5, <1>6, <1>7, <1>8, <1>9, <1>10 DEF ServiceStep

\* apply_killswitch_state, which the killswitch commands run outside the lock.
LEMMA ApplyStepInv ==
    ASSUME HoldInv, NEW c \in Callers, ApplyStep(c)
    PROVE  LockInv' /\ JobInv' /\ (RouteInv => RouteInv')
<1>. USE DEF procdVars, ruleVars, At
<1>1. CASE ReadKillswitch(c)
  <2>1. Become(c, [job[c] EXCEPT !.on = killswitch, !.pc = "ksDel"]) /\ lock' = lock
    BY <1>1 DEF ReadKillswitch
  <2>2. /\ [job[c] EXCEPT !.on = killswitch, !.pc = "ksDel"].pc = "ksDel"
        /\ [job[c] EXCEPT !.on = killswitch, !.pc = "ksDel"].cmd = job[c].cmd
        /\ [job[c] EXCEPT !.on = killswitch, !.pc = "ksDel"].sub = job[c].sub
    BY DEF HoldInv, TypeOK, Jobs
  <2>3. job[c].cmd \notin KillCommands => lock = c
    BY <1>1 DEF ReadKillswitch, HoldInv, LockInv, Locked, ApplySteps
  <2>4. LockInv' /\ JobInv'
    BY <2>1, <2>2, <2>3, OneCaller DEF LockedSteps, ApplySteps
  <2>5. Unrouted(c) => Unrouted(c)'
    BY <1>1, <2>1, <2>2, BecomeOthers DEF ReadKillswitch, Unrouted, HoldInv, ApplySteps
  <2>6. (RouteInv => RouteInv')
    BY <1>1, <2>1, <2>5, RouteKept DEF ReadKillswitch
  <2>. QED  BY <2>4, <2>6
<1>2. ASSUME job[c].pc \in ApplySteps, AfterApply(c), instance' = instance, vpnRule' = vpnRule
      PROVE  (RouteInv => RouteInv')
  <2>1. Unrouted(c) => Unrouted(c)'
    <3>1. SUFFICES ASSUME Unrouted(c) PROVE Unrouted(c)'
      OBVIOUS
    <3>2. job[c].sub = "stop" /\ job[c].cmd \notin KillCommands
      BY <1>2, <3>1 DEF Unrouted, ApplySteps, HoldInv, TypeOK, Jobs
    <3>3. Goto(c, "kill")
      BY <1>2, <3>2 DEF AfterApply
    <3>. QED  BY <3>2, <3>3, GotoFields DEF Unrouted, HoldInv
  <2>2. \E j : Become(c, j)
    BY <1>2 DEF AfterApply, Unlock, Goto, Leave
  <2>. QED  BY <1>2, <2>1, <2>2, RouteKept
<1>3. CASE DelKill(c)
  <2>1. CASE job[c].on
    <3>1. Goto(c, "ksAdd") /\ lock' = lock
      BY <1>3, <2>1 DEF DelKill
    <3>2. job[c].cmd \notin KillCommands => lock = c
      BY <1>3 DEF DelKill, HoldInv, LockInv, Locked, ApplySteps
    <3>3. LockInv' /\ JobInv'
      BY <3>1, <3>2, GotoInv DEF LockedSteps, ApplySteps
    <3>4. Unrouted(c) => Unrouted(c)'
      BY <1>3, <3>1, GotoFields DEF DelKill, Unrouted, HoldInv, ApplySteps
    <3>5. (RouteInv => RouteInv')
      BY <1>3, <3>1, <3>4, RouteKept DEF DelKill, Goto
    <3>. QED  BY <3>3, <3>5
  <2>2. CASE ~job[c].on
    BY <1>2, <1>3, <2>2, AfterApplyInv DEF DelKill, ApplySteps
  <2>. QED  BY <2>1, <2>2
<1>4. CASE AddKill(c)
  BY <1>2, <1>4, AfterApplyInv DEF AddKill, ApplySteps
<1>. QED
  BY <1>1, <1>3, <1>4 DEF ApplyStep

\* The extra commands and the hotplug script, outside the lock.
LEMMA SwitchStepInv ==
    ASSUME HoldInv, NEW c \in Callers, SwitchStep(c)
    PROVE  LockInv' /\ JobInv' /\ (RouteInv => RouteInv')
<1>. USE DEF procdVars, ruleVars, At
<1>1. job[c].pc \in {"guard", "setKill", "setBind", "sync", "hotplug", "drop"}
  BY DEF SwitchStep, Guard, SetKillswitch, SetBind, SyncSwitch, HotplugGate, DropKill
<1>2. ~Locked(c) /\ ~Unrouted(c)
  BY <1>1 DEF Locked, Unrouted, LockedSteps, ApplySteps
<1>3. lock' = lock /\ instance' = instance /\ vpnRule' = vpnRule /\ \E j : Become(c, j)
  BY DEF SwitchStep, Guard, SetKillswitch, SetBind, SyncSwitch, HotplugGate, DropKill, Goto, Leave
<1>4. (RouteInv => RouteInv')
  BY <1>2, <1>3, RouteKept
<1>5. LockInv' /\ JobInv'
  <2>1. CASE SetKillswitch(c)
    <3>1. job[c].cmd \in KillCommands
      BY <2>1 DEF SetKillswitch, HoldInv, JobInv
    <3>. QED  BY <1>3, <2>1, <3>1, GotoInv DEF SetKillswitch, LockedSteps, ApplySteps
  <2>2. CASE SetBind(c)
    BY <1>2, <1>3, <2>2, GotoInv, LeaveInv DEF SetBind, LockedSteps, ApplySteps
  <2>3. CASE SyncSwitch(c)
    <3>1. PICK k \in ButtonActions : Become(c, [job[c] EXCEPT !.cmd = k, !.pc = "hotplug"])
      BY <2>3 DEF SyncSwitch, ButtonActions
    <3>2. /\ [job[c] EXCEPT !.cmd = k, !.pc = "hotplug"].pc = "hotplug"
          /\ [job[c] EXCEPT !.cmd = k, !.pc = "hotplug"].cmd = k
      BY DEF HoldInv, TypeOK, Jobs
    <3>3. k \notin KillCommands
      BY DEF ButtonActions, KillCommands
    <3>. QED  BY <1>3, <3>1, <3>2, <3>3, OneCaller DEF LockedSteps, ApplySteps
  <2>4. CASE HotplugGate(c)
    <3>1. job[c].cmd \notin KillCommands
      BY <2>4 DEF HotplugGate, HoldInv, JobInv
    <3>. QED  BY <1>2, <1>3, <2>4, <3>1, GotoInv, LeaveInv DEF HotplugGate, LockedSteps, ApplySteps
  <2>5. CASE DropKill(c)
    BY <1>2, <1>3, <2>5, LeaveInv DEF DropKill
  <2>6. CASE Guard(c)
    <3>1. job[c].cmd \notin KillCommands
      BY <2>6 DEF Guard, HoldInv, JobInv
    <3>. QED  BY <1>2, <1>3, <2>6, <3>1, GotoInv, LeaveInv DEF Guard, LockedSteps, ApplySteps
  <2>. QED  BY <2>1, <2>2, <2>3, <2>4, <2>5, <2>6 DEF SwitchStep
<1>. QED  BY <1>4, <1>5

\* A caller that takes a command is outside the lock, before and after.
LEMMA EnterInv ==
    ASSUME HoldInv, NEW c \in Callers, NEW k \in Commands \cup ButtonActions, Enter(c, k),
           lock' = lock, instance' = instance, vpnRule' = vpnRule
    PROVE  LockInv' /\ JobInv' /\ (RouteInv => RouteInv')
<1>1. /\ [IdleJob EXCEPT !.cmd = k, !.pc = Entry(k)].cmd = k
      /\ [IdleJob EXCEPT !.cmd = k, !.pc = Entry(k)].pc = Entry(k)
  BY DEF IdleJob
<1>2. /\ Entry(k) \in {"guard", "setKill", "setBind", "hotplug"}
      /\ Entry(k) = "setKill" <=> k \in KillCommands
  BY DEF Entry, Commands, ServiceActions, ButtonActions, KillCommands
<1>3. Become(c, [IdleJob EXCEPT !.cmd = k, !.pc = Entry(k)])
  BY DEF Enter
<1>4. LockInv' /\ JobInv'
  BY <1>1, <1>2, <1>3, OneCaller DEF LockedSteps, ApplySteps
<1>5. ~Unrouted(c)
  BY DEF Enter, At, Unrouted, ApplySteps
<1>6. (RouteInv => RouteInv')
  BY <1>3, <1>5, RouteKept
<1>. QED  BY <1>4, <1>6

\* A script that is killed gives the lock back with its process.
LEMMA AbortInv ==
    ASSUME HoldInv, NEW c \in Callers, Abort(c)
    PROVE  LockInv' /\ JobInv'
<1>1. job'[c] = IdleJob /\ \A d \in Callers \ {c} : job'[d] = job[d]
  BY BecomeOthers DEF HoldInv, Abort, Leave
<1>2. \A d \in Callers \ {c} : Locked(d) => lock = d /\ lock' = d
  BY DEF HoldInv, LockInv, Abort
<1>3. IdleJob.pc = "idle"
  BY DEF IdleJob
<1>4. LockInv'
  BY <1>1, <1>2, <1>3 DEF LockInv, Locked, LockedSteps, ApplySteps
<1>5. JobInv'
  BY <1>1, <1>3 DEF HoldInv, JobInv, LockedSteps
<1>. QED  BY <1>4, <1>5

LEMMA EnvironmentInv ==
    ASSUME HoldInv, Environment
    PROVE  LockInv' /\ JobInv' /\ (Killable = {} /\ RouteInv => RouteInv')
<1>. USE DEF callerVars, procdVars, ruleVars
<1>1. CASE Deliver
  <2>1. Head(events) \in ButtonActions /\ Hotplug \in Callers
    BY <1>1 DEF Deliver, HoldInv, TypeOK, Callers
  <2>. QED  BY <1>1, <2>1, EnterInv DEF Deliver
<1>2. CASE PowerCut
  <2>1. JobInv' /\ LockInv'
    BY <1>2 DEF PowerCut, JobInv, LockInv, Locked, BootJobs, IdleJob, LockedSteps,
                ApplySteps, KillCommands
  <2>2. (RouteInv => RouteInv')
    BY <1>2 DEF PowerCut, RouteInv
  <2>. QED  BY <2>1, <2>2
<1>3. ASSUME UNCHANGED <<instance, vpnRule, lock, job>>
      PROVE  LockInv' /\ JobInv' /\ (RouteInv => RouteInv')
  BY <1>3 DEF HoldInv, LockInv, JobInv, RouteInv, Locked, Unrouted
<1>4. CASE Flip \/ TunUp \/ TunDown \/ UptimePasses \/ \E r \in Rules : EnableNative(r)
  BY <1>3, <1>4 DEF Flip, TunUp, TunDown, UptimePasses, EnableNative
<1>5. ASSUME NEW c \in Killable, Abort(c) PROVE LockInv' /\ JobInv' /\ Killable # {}
  BY <1>5, AbortInv, CallersAssumption DEF Callers
<1>. QED  BY <1>1, <1>2, <1>4, <1>5 DEF Environment

LEMMA NextHoldInv ==
    ASSUME HoldInv, [Next]_vars
    PROVE  HoldInv' /\ (Killable = {} /\ RouteInv => RouteInv')
<1>1. TypeOK'
  BY NextType DEF HoldInv
<1>2. ASSUME NEW c \in Callers, Step(c) PROVE LockInv' /\ JobInv' /\ (RouteInv => RouteInv')
  BY <1>2, ServiceStepInv, ApplyStepInv, SwitchStepInv DEF Step
<1>3. ASSUME NEW c \in Requests, NEW k \in Commands, Call(c, k)
      PROVE  LockInv' /\ JobInv' /\ (RouteInv => RouteInv')
  BY <1>3, EnterInv DEF Call, Callers, procdVars, ruleVars
<1>4. ASSUME UNCHANGED vars PROVE LockInv' /\ JobInv' /\ (RouteInv => RouteInv')
  BY <1>4 DEF vars, procdVars, ruleVars, callerVars, HoldInv, LockInv, JobInv, RouteInv,
              Locked, Unrouted
<1>. QED
  BY <1>1, <1>2, <1>3, <1>4, EnvironmentInv DEF Next, HoldInv

\* Whenever no start, stop or reload is in progress, an instance procd runs
\* has its LAN rule, for any number of concurrent callers and any
\* interleaving of their commands, as long as no script is killed half-way.
THEOREM TunnelAlwaysRouted ==
    ASSUME Killable = {}
    PROVE  Spec => []TunnelRouted
<1>1. IInv /\ [Next]_vars => IInv'
  BY NextHoldInv DEF IInv
<1>. QED
  BY InitIInv, <1>1, IInvHolds, PTL DEF Spec

-----------------------------------------------------------------------------
(* One command at a time: the killswitch.  The flag and rule 5500 agree      *)
(* while no command is between the read of the flag and the rule, whatever   *)
(* command it is and whatever the switch, the process and the power did.     *)

\* killswitch = 0: no blackhole.  killswitch = 1 and an instance: the rule is
\* there, so the LAN is safe whether the process lives or not.
Calm  == ~killswitch => ~killRule
Armed == killswitch /\ instance => killRule

OneActive == \A c, d \in Callers : job[c].pc # "idle" /\ job[d].pc # "idle" => c = d

\* The steps before the rules are touched, or after.
Outside == {"guard", "lock", "check", "gate", "natives", "memo", "launch", "kill",
            "setKill", "setBind", "sync", "hotplug"}

Stage(c) ==
    /\ job[c].pc \in Outside => Calm /\ Armed
    /\ job[c].pc \in {"ksDel", "ksAdd"} => job[c].on = killswitch
    /\ job[c].pc = "ksAdd" => killswitch
    /\ job[c].pc = "drop" => Calm /\ ~instance

\* The hotplug script's OFF runs stop_service only.
Stopping(c) == job[c].cmd = "released" =>
    /\ job[c].pc \notin {"check", "gate", "natives", "memo", "launch", "addRoute"}
    /\ job[c].pc \in {"delRoute", "kill"} \cup ApplySteps => job[c].sub = "stop"

StopInv == \A c \in Callers : Stopping(c)

AloneInv == alone =>
    /\ OneActive
    /\ Active = {} => Calm /\ Armed
    /\ \A c \in Callers : Stage(c)

FlagInv == HoldInv /\ StopInv /\ AloneInv

LEMMA LeaveFields ==
    ASSUME TypeOK, NEW c \in Callers, Leave(c)
    PROVE  /\ job'[c].pc = "idle" /\ job'[c].cmd = "start"
           /\ \A d \in Callers \ {c} : job'[d] = job[d]
BY BecomeOthers DEF Leave, IdleJob

LEMMA UnlockFields ==
    ASSUME TypeOK, NEW c \in Callers, Unlock(c)
    PROVE  /\ job'[c].pc \in {"idle", "drop"}
           /\ job'[c].pc = "drop" => job[c].cmd = "released"
           /\ \A d \in Callers \ {c} : job'[d] = job[d]
BY GotoFields, LeaveFields DEF Unlock

LEMMA AfterApplyFields ==
    ASSUME TypeOK, NEW c \in Callers, AfterApply(c)
    PROVE  /\ \/ job'[c].pc = "idle"
              \/ job'[c].pc = "drop" /\ job[c].cmd = "released" /\ job[c].sub # "stop"
              \/ job'[c].pc = "kill" /\ job'[c].cmd = job[c].cmd /\ job'[c].sub = job[c].sub
                                     /\ job[c].sub = "stop"
           /\ \A d \in Callers \ {c} : job'[d] = job[d]
<1>1. CASE job[c].cmd \in KillCommands
  BY <1>1, LeaveFields DEF AfterApply
<1>2. CASE job[c].cmd \notin KillCommands /\ job[c].sub = "stop"
  BY <1>2, GotoFields DEF AfterApply
<1>3. CASE job[c].cmd \notin KillCommands /\ job[c].sub # "stop"
  BY <1>3, UnlockFields DEF AfterApply
<1>. QED  BY <1>1, <1>2, <1>3

\* The steps in which a caller gets a new record.
LEMMA AcquireFields ==
    ASSUME TypeOK, NEW c \in Callers, Acquire(c)
    PROVE  /\ job'[c].cmd = job[c].cmd
           /\ job'[c].pc \in {"gate", "delRoute", "check"}
           /\ job[c].cmd = "released" => job'[c].pc = "delRoute" /\ job'[c].sub = "stop"
           /\ \A d \in Callers \ {c} : job'[d] = job[d]
<1>1. /\ [job[c] EXCEPT !.sub = "start", !.pc = "gate"].pc = "gate"
      /\ [job[c] EXCEPT !.sub = "start", !.pc = "gate"].cmd = job[c].cmd
      /\ [job[c] EXCEPT !.sub = "stop", !.pc = "delRoute"].pc = "delRoute"
      /\ [job[c] EXCEPT !.sub = "stop", !.pc = "delRoute"].cmd = job[c].cmd
      /\ [job[c] EXCEPT !.sub = "stop", !.pc = "delRoute"].sub = "stop"
      /\ [job[c] EXCEPT !.sub = "stop", !.pc = "check"].pc = "check"
      /\ [job[c] EXCEPT !.sub = "stop", !.pc = "check"].cmd = job[c].cmd
  BY DEF TypeOK, Jobs
<1>. QED  BY <1>1, BecomeOthers DEF Acquire

\* What a step makes of its caller, and that it leaves the others alone.
LEMMA StepStop ==
    ASSUME HoldInv, NEW c \in Callers, Stopping(c), Step(c)
    PROVE  Stopping(c)' /\ \A d \in Callers \ {c} : job'[d] = job[d]
<1>. USE DEF At
<1>0. TypeOK
  BY DEF HoldInv
<1>1. ASSUME Unlock(c) \/ Leave(c)
      PROVE  Stopping(c)' /\ \A d \in Callers \ {c} : job'[d] = job[d]
  BY <1>1, <1>0, UnlockFields, LeaveFields DEF Stopping, ApplySteps
<1>2. ASSUME NEW s, Goto(c, s),
             job[c].cmd = "released" =>
                /\ s \notin {"check", "gate", "natives", "memo", "launch", "addRoute"}
                /\ s \in {"delRoute", "kill"} \cup ApplySteps => job[c].sub = "stop"
      PROVE  Stopping(c)' /\ \A d \in Callers \ {c} : job'[d] = job[d]
  BY <1>2, <1>0, GotoFields DEF Stopping
<1>3. CASE Acquire(c)
  BY <1>3, <1>0, AcquireFields DEF Stopping, ApplySteps
<1>4. CASE ReloadCheck(c) \/ Refuse(c) \/ Admit(c) \/ WriteMemo(c) \/ Launch(c) \/ DelRoute(c)
             \/ AddRoute(c)
  BY <1>1, <1>2, <1>4
     DEF ReloadCheck, Refuse, Admit, WriteMemo, Launch, DelRoute, AddRoute, Stopping, ApplySteps
<1>5. CASE StopNatives(c)
  <2>1. /\ [job[c] EXCEPT !.disabled = native, !.pc = "memo"].pc = "memo"
        /\ [job[c] EXCEPT !.disabled = native, !.pc = "memo"].cmd = job[c].cmd
    BY <1>0 DEF TypeOK, Jobs
  <2>2. job[c].cmd # "released"
    BY <1>5 DEF StopNatives, Stopping
  <2>. QED  BY <1>5, <2>1, <2>2, <1>0, BecomeOthers DEF StopNatives, Stopping
<1>6. CASE ReadKillswitch(c)
  <2>1. /\ [job[c] EXCEPT !.on = killswitch, !.pc = "ksDel"].pc = "ksDel"
        /\ [job[c] EXCEPT !.on = killswitch, !.pc = "ksDel"].cmd = job[c].cmd
        /\ [job[c] EXCEPT !.on = killswitch, !.pc = "ksDel"].sub = job[c].sub
    BY <1>0 DEF TypeOK, Jobs
  <2>. QED  BY <1>6, <2>1, <1>0, BecomeOthers DEF ReadKillswitch, Stopping, ApplySteps
<1>7. ASSUME AfterApply(c) PROVE Stopping(c)' /\ \A d \in Callers \ {c} : job'[d] = job[d]
  BY <1>7, <1>0, AfterApplyFields DEF Stopping, ApplySteps
<1>8. CASE DelKill(c) \/ AddKill(c)
  BY <1>2, <1>7, <1>8 DEF DelKill, AddKill, Stopping, ApplySteps
<1>9. CASE Kill(c)
  <2>1. CASE job[c].cmd \in {"reload", "restart"}
    <3>1. [job[c] EXCEPT !.sub = "start", !.pc = "gate"].cmd = job[c].cmd
      BY <1>0 DEF TypeOK, Jobs
    <3>. QED  BY <1>9, <2>1, <3>1, <1>0, BecomeOthers DEF Kill, Stopping
  <2>2. CASE job[c].cmd \notin {"reload", "restart"}
    BY <1>1, <1>9, <2>2 DEF Kill
  <2>. QED  BY <2>1, <2>2
<1>10. CASE SyncSwitch(c)
  <2>1. PICK k \in ButtonActions : Become(c, [job[c] EXCEPT !.cmd = k, !.pc = "hotplug"])
    BY <1>10 DEF SyncSwitch, ButtonActions
  <2>2. [job[c] EXCEPT !.cmd = k, !.pc = "hotplug"].pc = "hotplug"
    BY <1>0 DEF TypeOK, Jobs
  <2>. QED  BY <2>1, <2>2, <1>0, BecomeOthers DEF Stopping, ApplySteps
<1>11. CASE SetKillswitch(c)
  <2>1. job[c].cmd # "released"
    BY <1>11 DEF SetKillswitch, HoldInv, JobInv, KillCommands
  <2>. QED  BY <1>2, <1>11, <2>1 DEF SetKillswitch, Stopping, ApplySteps
<1>12. CASE Guard(c) \/ SetBind(c) \/ HotplugGate(c) \/ DropKill(c)
  BY <1>1, <1>2, <1>12 DEF Guard, SetBind, HotplugGate, DropKill, Stopping, ApplySteps
<1>. QED
  BY <1>3, <1>4, <1>5, <1>6, <1>8, <1>9, <1>10, <1>11, <1>12
     DEF Step, ServiceStep, ApplyStep, SwitchStep

\* The same for the flag and the rule.
LEMMA StepStage ==
    ASSUME HoldInv, NEW c \in Callers, Stopping(c), Stage(c), Step(c)
    PROVE  Stage(c)' /\ (job'[c].pc = "idle" => Calm' /\ Armed')
<1>. USE DEF At, uciVars, procdVars, ruleVars
<1>0. TypeOK
  BY DEF HoldInv
<1>1. ASSUME Unlock(c), Calm', Armed', job[c].cmd = "released" => ~instance'
      PROVE  Stage(c)' /\ (job'[c].pc = "idle" => Calm' /\ Armed')
  BY <1>0, <1>1, UnlockFields DEF Stage, Outside
<1>2. ASSUME Leave(c), Calm', Armed'
      PROVE  Stage(c)' /\ (job'[c].pc = "idle" => Calm' /\ Armed')
  BY <1>0, <1>2, LeaveFields DEF Stage, Outside
<1>3. ASSUME NEW s, Goto(c, s), s \notin {"ksDel", "ksAdd", "drop", "idle"},
             s \in Outside => Calm' /\ Armed'
      PROVE  Stage(c)' /\ (job'[c].pc = "idle" => Calm' /\ Armed')
  BY <1>0, <1>3, GotoFields DEF Stage
<1>4. CASE Acquire(c)
  <2>1. Calm' /\ Armed'
    BY <1>4 DEF Acquire, Stage, Outside, Calm, Armed
  <2>. QED  BY <1>0, <1>4, <2>1, AcquireFields DEF Stage
<1>5. CASE ReloadCheck(c)
  <2>1. Calm' /\ Armed' /\ job[c].cmd # "released"
    BY <1>5 DEF ReloadCheck, Stage, Outside, Calm, Armed, Stopping
  <2>. QED  BY <1>1, <1>3, <1>5, <2>1 DEF ReloadCheck
<1>6. CASE Refuse(c)
  <2>1. Calm' /\ Armed' /\ job[c].cmd # "released"
    BY <1>6 DEF Refuse, Stage, Outside, Calm, Armed, Stopping
  <2>. QED  BY <1>1, <1>6, <2>1 DEF Refuse
<1>7. CASE Admit(c) \/ WriteMemo(c)
  <2>1. UNCHANGED <<killswitch, killRule, instance>> /\ job[c].pc \in Outside
    BY <1>7 DEF Admit, WriteMemo, Outside
  <2>2. Calm' /\ Armed'
    BY <2>1 DEF Stage, Calm, Armed
  <2>. QED  BY <1>3, <1>7, <2>2 DEF Admit, WriteMemo
<1>8. CASE StopNatives(c)
  <2>1. Calm' /\ Armed'
    BY <1>8 DEF StopNatives, Stage, Outside, Calm, Armed
  <2>2. [job[c] EXCEPT !.disabled = native, !.pc = "memo"].pc = "memo"
    BY <1>0 DEF TypeOK, Jobs
  <2>. QED  BY <1>0, <1>8, <2>1, <2>2, BecomeOthers DEF StopNatives, Stage
<1>9. CASE Launch(c) \/ DelRoute(c) \/ AddRoute(c)
  BY <1>3, <1>9 DEF Launch, DelRoute, AddRoute, Outside
<1>10. CASE Kill(c)
  <2>1. Calm' /\ Armed' /\ ~instance'
    BY <1>10 DEF Kill, Stage, Outside, Calm, Armed
  <2>2. CASE job[c].cmd \in {"reload", "restart"}
    <3>1. [job[c] EXCEPT !.sub = "start", !.pc = "gate"].pc = "gate"
      BY <1>0 DEF TypeOK, Jobs
    <3>. QED  BY <1>0, <1>10, <2>1, <2>2, <3>1, BecomeOthers DEF Kill, Stage
  <2>3. CASE job[c].cmd \notin {"reload", "restart"}
    BY <1>1, <1>10, <2>1, <2>3 DEF Kill
  <2>. QED  BY <2>2, <2>3
<1>11. CASE ReadKillswitch(c)
  <2>1. /\ [job[c] EXCEPT !.on = killswitch, !.pc = "ksDel"].pc = "ksDel"
        /\ [job[c] EXCEPT !.on = killswitch, !.pc = "ksDel"].on = killswitch
    BY <1>0 DEF TypeOK, Jobs
  <2>. QED  BY <1>0, <1>11, <2>1, BecomeOthers DEF ReadKillswitch, Stage, Outside
<1>12. ASSUME AfterApply(c), Calm', Armed', job[c].pc \in ApplySteps
       PROVE  Stage(c)' /\ (job'[c].pc = "idle" => Calm' /\ Armed')
  BY <1>0, <1>12, AfterApplyFields DEF Stage, Stopping
<1>13. CASE DelKill(c)
  <2>1. job[c].on = killswitch /\ killswitch' = killswitch /\ job[c].pc \in ApplySteps
    BY <1>13 DEF DelKill, Stage, ApplySteps
  <2>2. CASE job[c].on
    <3>1. Goto(c, "ksAdd") /\ job'[c].on = job[c].on
      BY <1>0, <1>13, <2>2 DEF DelKill, Goto, Become, TypeOK, Jobs
    <3>. QED  BY <1>0, <2>1, <2>2, <3>1, GotoFields DEF Stage, Outside
  <2>3. CASE ~job[c].on
    <3>1. AfterApply(c) /\ Calm' /\ Armed'
      BY <1>13, <2>1, <2>3 DEF DelKill, Calm, Armed
    <3>. QED  BY <1>12, <2>1, <3>1
  <2>. QED  BY <2>2, <2>3
<1>14. CASE AddKill(c)
  <2>1. AfterApply(c) /\ Calm' /\ Armed' /\ job[c].pc \in ApplySteps
    BY <1>14 DEF AddKill, Stage, Calm, Armed, ApplySteps
  <2>. QED  BY <1>12, <2>1
<1>15. CASE SetKillswitch(c)
  BY <1>3, <1>15 DEF SetKillswitch, Outside
<1>16. CASE SetBind(c) \/ HotplugGate(c) \/ Guard(c)
  <2>1. Calm' /\ Armed'
    BY <1>16 DEF SetBind, HotplugGate, Guard, Stage, Outside, Calm, Armed
  <2>. QED  BY <1>2, <1>3, <1>16, <2>1 DEF SetBind, HotplugGate, Guard
<1>17. CASE SyncSwitch(c)
  <2>1. PICK k \in ButtonActions : Become(c, [job[c] EXCEPT !.cmd = k, !.pc = "hotplug"])
    BY <1>17 DEF SyncSwitch, ButtonActions
  <2>2. [job[c] EXCEPT !.cmd = k, !.pc = "hotplug"].pc = "hotplug"
    BY <1>0 DEF TypeOK, Jobs
  <2>3. Calm' /\ Armed'
    BY <1>17 DEF SyncSwitch, Stage, Outside, Calm, Armed
  <2>. QED  BY <1>0, <2>1, <2>2, <2>3, BecomeOthers DEF Stage
<1>18. CASE DropKill(c)
  <2>1. Calm' /\ Armed'
    BY <1>18 DEF DropKill, Stage, Calm, Armed
  <2>. QED  BY <1>2, <1>18, <2>1 DEF DropKill
<1>. QED
  BY <1>4, <1>5, <1>6, <1>7, <1>8, <1>9, <1>10, <1>11, <1>13, <1>14, <1>15, <1>16, <1>17, <1>18
     DEF Step, ServiceStep, ApplyStep, SwitchStep

\* A caller takes a command.
LEMMA EnterFlag ==
    ASSUME FlagInv, NEW c \in Callers, NEW k \in Commands \cup ButtonActions, Enter(c, k),
           UNCHANGED <<uciVars, procdVars, ruleVars>>
    PROVE  StopInv' /\ AloneInv'
<1>1. /\ [IdleJob EXCEPT !.cmd = k, !.pc = Entry(k)].cmd = k
      /\ [IdleJob EXCEPT !.cmd = k, !.pc = Entry(k)].pc = Entry(k)
  BY DEF IdleJob
<1>2. Entry(k) \in {"guard", "setKill", "setBind", "hotplug"}
  BY DEF Entry, Commands, ServiceActions, ButtonActions, KillCommands
<1>3. job'[c].pc = Entry(k) /\ \A d \in Callers \ {c} : job'[d] = job[d]
  BY <1>1, BecomeOthers DEF Enter, FlagInv, HoldInv
<1>4. StopInv'
  BY <1>2, <1>3 DEF FlagInv, StopInv, Stopping, ApplySteps
<1>5. ASSUME alone' PROVE OneActive' /\ Active' # {} /\ \A d \in Callers : Stage(d)'
  <2>1. alone /\ \A d \in Callers : job[d].pc = "idle"
    BY <1>5 DEF Enter, Active
  <2>2. Calm' /\ Armed'
    BY <2>1 DEF FlagInv, AloneInv, Active, Calm, Armed, uciVars, procdVars, ruleVars
  <2>. QED  BY <1>2, <1>3, <2>1, <2>2 DEF OneActive, Active, Stage, Outside
<1>. QED  BY <1>4, <1>5 DEF AloneInv

LEMMA NextFlagInv ==
    ASSUME Killable = {}
    PROVE  FlagInv /\ [Next]_vars => FlagInv'
<1>. SUFFICES ASSUME FlagInv, [Next]_vars PROVE FlagInv'
  OBVIOUS
<1>1. HoldInv'
  BY NextHoldInv DEF FlagInv
<1>. SUFFICES StopInv' /\ AloneInv'
  BY <1>1 DEF FlagInv
<1>2. ASSUME NEW c \in Callers, Step(c) PROVE StopInv' /\ AloneInv'
  <2>1. Stopping(c)' /\ \A d \in Callers \ {c} : job'[d] = job[d]
    BY <1>2, StepStop DEF FlagInv, StopInv
  <2>2. StopInv'
    BY <2>1 DEF FlagInv, StopInv, Stopping
  <2>3. job[c].pc # "idle"
    BY <1>2 DEF Step, ServiceStep, ApplyStep, SwitchStep, At, Acquire, ReloadCheck, Refuse, Admit,
                StopNatives, WriteMemo, Launch, DelRoute, AddRoute, Kill, ReadKillswitch, DelKill,
                AddKill, Guard, SetKillswitch, SetBind, SyncSwitch, HotplugGate, DropKill
  <2>4. alone' = alone
    BY <1>2 DEF Step, ServiceStep, ApplyStep, SwitchStep, Acquire, ReloadCheck, Refuse, Admit,
                StopNatives, WriteMemo, Launch, DelRoute, AddRoute, Kill, ReadKillswitch, DelKill,
                AddKill, Guard, SetKillswitch, SetBind, SyncSwitch, HotplugGate, DropKill, envVars
  <2>5. ASSUME alone' PROVE OneActive' /\ (Active = {} => Calm /\ Armed)'
                            /\ \A d \in Callers : Stage(d)'
    <3>1. OneActive /\ Stage(c)
      BY <2>4, <2>5 DEF FlagInv, AloneInv
    <3>2. \A d \in Callers \ {c} : job'[d].pc = "idle"
      BY <2>1, <2>3, <3>1 DEF OneActive
    <3>3. Stage(c)' /\ (job'[c].pc = "idle" => Calm' /\ Armed')
      BY <1>2, <3>1, StepStage DEF FlagInv, StopInv
    <3>. QED  BY <3>2, <3>3 DEF OneActive, Active, Stage, Outside
  <2>. QED  BY <2>2, <2>5 DEF AloneInv
<1>3. ASSUME NEW c \in Requests, NEW k \in Commands, Call(c, k) PROVE StopInv' /\ AloneInv'
  BY <1>3, EnterFlag DEF Call, Callers
<1>4. CASE Deliver
  <2>1. Head(events) \in ButtonActions /\ Hotplug \in Callers
    BY <1>4 DEF Deliver, FlagInv, HoldInv, TypeOK, Callers
  <2>. QED  BY <1>4, <2>1, EnterFlag DEF Deliver
<1>5. CASE PowerCut
  <2>1. \A d \in Callers : /\ job'[d].pc = IF d = Boot THEN "lock" ELSE "idle"
                           /\ job'[d].cmd = "start"
    BY <1>5 DEF PowerCut, BootJobs, IdleJob
  <2>2. Calm' /\ Armed'
    BY <1>5 DEF PowerCut, Calm, Armed
  <2>3. StopInv'
    BY <2>1 DEF StopInv, Stopping
  <2>4. OneActive' /\ \A d \in Callers : Stage(d)'
    BY <2>1, <2>2 DEF OneActive, Stage
  <2>. QED  BY <2>2, <2>3, <2>4 DEF AloneInv
<1>6. ASSUME UNCHANGED <<killswitch, killRule, instance, job, alone>> PROVE StopInv' /\ AloneInv'
  <2>1. Active' = Active /\ OneActive' = OneActive /\ Calm' = Calm /\ Armed' = Armed
    BY <1>6 DEF Active, OneActive, Calm, Armed
  <2>2. \A d \in Callers : Stage(d)' = Stage(d) /\ Stopping(d)' = Stopping(d)
    BY <1>6, <2>1 DEF Stage, Stopping
  <2>. QED  BY <1>6, <2>1, <2>2 DEF FlagInv, StopInv, AloneInv
<1>7. CASE Flip \/ TunUp \/ TunDown \/ UptimePasses \/ (\E r \in Rules : EnableNative(r))
             \/ UNCHANGED vars
  BY <1>6, <1>7 DEF Flip, TunUp, TunDown, UptimePasses, EnableNative, vars, envVars, uciVars,
                    procdVars, ruleVars, callerVars
<1>. QED  BY <1>2, <1>3, <1>4, <1>5, <1>7 DEF Next, Environment

LEMMA InitFlagInv == Init => FlagInv
<1>. SUFFICES ASSUME Init PROVE FlagInv
  OBVIOUS
<1>1. \A d \in Callers : /\ job[d].pc = IF d = Boot THEN "lock" ELSE "idle"
                         /\ job[d].cmd = "start"
  BY DEF Init, BootJobs, IdleJob
<1>2. Calm /\ Armed
  BY DEF Init, Calm, Armed
<1>3. StopInv
  BY <1>1 DEF StopInv, Stopping
<1>4. OneActive /\ \A d \in Callers : Stage(d)
  BY <1>1, <1>2 DEF OneActive, Stage
<1>. QED  BY <1>2, <1>3, <1>4, InitIInv DEF FlagInv, AloneInv, IInv

\* As long as commands do not overlap and no script is killed half-way:
\* killswitch = 0 never leaves the LAN blackholed.
THEOREM NoBlackholeLeft ==
    ASSUME Killable = {}
    PROVE  Spec => []NoStaleBlackhole
<1>1. FlagInv => NoStaleBlackhole
  BY DEF FlagInv, AloneInv, NoStaleBlackhole, Quiet, Calm
<1>. QED  BY <1>1, InitFlagInv, NextFlagInv, PTL DEF Spec

\* Under the same conditions: killswitch = 1 and the service started means
\* that LAN traffic is in the tunnel or dropped, whatever the process does.
THEOREM TunnelIsGuarded ==
    ASSUME Killable = {}
    PROVE  Spec => []GuardedTunnel
<1>1. FlagInv => GuardedTunnel
  BY DEF FlagInv, AloneInv, GuardedTunnel, Quiet, Armed, LanPath
<1>. QED  BY <1>1, InitFlagInv, NextFlagInv, PTL DEF Spec

-----------------------------------------------------------------------------
(* Physical OFF.  Commands overlap, scripts are killed and power is cut.  A  *)
(* start may pass the gate just before the switch is turned off; what every  *)
(* step preserves is that then work is pending that will stop it: a button   *)
(* event, or a script that cannot be killed and has the OFF before it.       *)

LastEvent == events # <<>> =>
    events[Len(events)] = IF phys = "on" THEN "pressed" ELSE "released"

OffSteps     == {"hotplug", "lock", "delRoute", "kill"} \cup ApplySteps
Releasing(c) == \/ job[c].pc = "sync"
                \/ job[c].cmd = "released" /\ job[c].pc \in OffSteps
Starting(c)  == job[c].pc \in {"natives", "memo", "launch"}

Threat  == instance \/ \E c \in Callers : Starting(c)
OffWork == events # <<>> \/ \E c \in Callers \ Killable : Releasing(c)

OffInv == HoldInv /\ StopInv /\ LastEvent /\ (Owned /\ phys = "off" /\ Threat => OffWork)

LEMMA NextStopInv ==
    ASSUME HoldInv, StopInv, [Next]_vars
    PROVE  StopInv'
<1>. USE DEF Stopping, StopInv
<1>0. TypeOK
  BY DEF HoldInv
<1>1. ASSUME NEW c \in Callers, Step(c) PROVE StopInv'
  BY <1>1, StepStop
<1>2. ASSUME NEW c \in Callers, NEW k \in Commands \cup ButtonActions, Enter(c, k) PROVE StopInv'
  <2>1. [IdleJob EXCEPT !.cmd = k, !.pc = Entry(k)].pc = Entry(k)
    BY DEF IdleJob
  <2>2. Entry(k) \in {"guard", "setKill", "setBind", "hotplug"}
    BY DEF Entry, Commands, ServiceActions, ButtonActions, KillCommands
  <2>3. job'[c].pc = Entry(k) /\ \A d \in Callers \ {c} : job'[d] = job[d]
    BY <1>0, <1>2, <2>1, BecomeOthers DEF Enter
  <2>. QED  BY <2>2, <2>3 DEF ApplySteps
<1>3. CASE Deliver
  <2>1. Head(events) \in ButtonActions /\ Hotplug \in Callers /\ Enter(Hotplug, Head(events))
    BY <1>0, <1>3 DEF Deliver, TypeOK, Callers
  <2>. QED  BY <1>2, <2>1
<1>4. CASE PowerCut
  BY <1>4 DEF PowerCut, BootJobs, IdleJob
<1>5. ASSUME NEW c \in Killable, Abort(c) PROVE StopInv'
  <2>1. c \in Callers
    BY CallersAssumption DEF Callers
  <2>. QED  BY <1>0, <1>5, <2>1, LeaveFields DEF Abort
<1>6. ASSUME NEW c \in Requests, NEW k \in Commands, Call(c, k) PROVE StopInv'
  BY <1>2, <1>6 DEF Call, Callers
<1>7. CASE Flip \/ TunUp \/ TunDown \/ UptimePasses \/ (\E r \in Rules : EnableNative(r))
             \/ UNCHANGED vars
  BY <1>7 DEF Flip, TunUp, TunDown, UptimePasses, EnableNative, vars, callerVars
<1>. QED
  BY <1>1, <1>3, <1>4, <1>5, <1>6, <1>7 DEF Next, Environment

\* No start passes the gate of an OFF switch that is ours.
LEMMA NoNewThreat ==
    ASSUME HoldInv, NEW c \in Callers, Step(c), Owned, phys = "off", Threat'
    PROVE  Threat
<1>. USE DEF At, procdVars
<1>0. TypeOK /\ Bound
  BY DEF HoldInv, Owned, Bound
<1>1. \A d \in Callers \ {c} : job'[d] = job[d]
  BY <1>0, BecomeOthers, UnlockFields, LeaveFields, GotoFields, AfterApplyFields
     DEF Step, ServiceStep, ApplyStep, SwitchStep, Acquire, ReloadCheck, Refuse, Admit,
         StopNatives, WriteMemo, Launch, DelRoute, AddRoute, Kill, ReadKillswitch, DelKill,
         AddKill, Guard, SetKillswitch, SetBind, SyncSwitch, HotplugGate, DropKill
<1>2. ~Admit(c)
  BY <1>0 DEF Admit, Refused
<1>3. CASE StopNatives(c) \/ WriteMemo(c) \/ Launch(c)
  BY <1>3 DEF StopNatives, WriteMemo, Launch, Threat, Starting
<1>4. CASE ~(StopNatives(c) \/ WriteMemo(c) \/ Launch(c))
  <2>1. instance' => instance
    BY <1>2, <1>4
       DEF Step, ServiceStep, ApplyStep, SwitchStep, Acquire, ReloadCheck, Refuse,
           DelRoute, AddRoute, Kill, ReadKillswitch, DelKill,
           AddKill, Guard, SetKillswitch, SetBind, SyncSwitch, HotplugGate, DropKill
  <2>2. ~Starting(c)'
    <3>1. CASE Unlock(c) \/ Leave(c) \/ AfterApply(c)
      BY <1>0, <3>1, UnlockFields, LeaveFields, AfterApplyFields DEF Starting
    <3>2. CASE \E s \in Steps \ {"natives", "memo", "launch"} : Goto(c, s)
      BY <1>0, <3>2, GotoFields DEF Starting
    <3>3. CASE Acquire(c)
      BY <1>0, <3>3, AcquireFields DEF Starting
    <3>4. CASE ReadKillswitch(c)
      <4>1. [job[c] EXCEPT !.on = killswitch, !.pc = "ksDel"].pc = "ksDel"
        BY <1>0 DEF TypeOK, Jobs
      <4>. QED  BY <1>0, <3>4, <4>1, BecomeOthers DEF ReadKillswitch, Starting
    <3>5. CASE Kill(c) /\ job[c].cmd \in {"reload", "restart"}
      <4>1. [job[c] EXCEPT !.sub = "start", !.pc = "gate"].pc = "gate"
        BY <1>0 DEF TypeOK, Jobs
      <4>. QED  BY <1>0, <3>5, <4>1, BecomeOthers DEF Kill, Starting
    <3>6. CASE SyncSwitch(c)
      <4>1. PICK k \in ButtonActions : Become(c, [job[c] EXCEPT !.cmd = k, !.pc = "hotplug"])
        BY <3>6 DEF SyncSwitch, ButtonActions
      <4>2. [job[c] EXCEPT !.cmd = k, !.pc = "hotplug"].pc = "hotplug"
        BY <1>0 DEF TypeOK, Jobs
      <4>. QED  BY <1>0, <4>1, <4>2, BecomeOthers DEF Starting
    <3>. QED
      BY <1>2, <1>4, <3>1, <3>2, <3>3, <3>4, <3>5, <3>6
         DEF Step, ServiceStep, ApplyStep, SwitchStep, ReloadCheck, Refuse, DelRoute, AddRoute,
             Kill, DelKill, AddKill, Guard, SetKillswitch, SetBind, HotplugGate, DropKill, Steps
  <2>. QED  BY <1>1, <2>1, <2>2 DEF Threat, Starting
<1>. QED  BY <1>3, <1>4

\* A script with the OFF before it goes on to the kill, and nothing else is
\* in progress when it gets there.
LEMMA ReleaseGoesOn ==
    ASSUME HoldInv, StopInv, NEW c \in Callers, Step(c), Releasing(c), Owned, phys = "off"
    PROVE  Releasing(c)' \/ ~Threat'
<1>. USE DEF At, OffSteps, ApplySteps
<1>0. TypeOK /\ Stopping(c)
  BY DEF HoldInv, StopInv
<1>1. CASE SyncSwitch(c)
  <2>1. /\ [job[c] EXCEPT !.cmd = "released", !.pc = "hotplug"].pc = "hotplug"
        /\ [job[c] EXCEPT !.cmd = "released", !.pc = "hotplug"].cmd = "released"
    BY <1>0 DEF TypeOK, Jobs
  <2>. QED  BY <1>0, <1>1, <2>1, BecomeOthers DEF SyncSwitch, Releasing
<1>2. CASE HotplugGate(c)
  BY <1>0, <1>2, GotoFields DEF HotplugGate, Releasing
<1>3. CASE Acquire(c)
  BY <1>0, <1>3, AcquireFields DEF Acquire, Releasing
<1>4. CASE DelRoute(c)
  BY <1>0, <1>4, GotoFields DEF DelRoute, Releasing, Stopping
<1>5. CASE ReadKillswitch(c)
  <2>1. /\ [job[c] EXCEPT !.on = killswitch, !.pc = "ksDel"].pc = "ksDel"
        /\ [job[c] EXCEPT !.on = killswitch, !.pc = "ksDel"].cmd = job[c].cmd
    BY <1>0 DEF TypeOK, Jobs
  <2>. QED  BY <1>0, <1>5, <2>1, BecomeOthers DEF ReadKillswitch, Releasing
<1>6. ASSUME AfterApply(c), job[c].pc \in ApplySteps PROVE Releasing(c)'
  <2>1. job[c].cmd = "released" /\ job[c].sub = "stop"
    BY <1>0, <1>6 DEF Releasing, Stopping
  <2>2. Goto(c, "kill")
    BY <1>6, <2>1 DEF AfterApply, KillCommands
  <2>. QED  BY <1>0, <2>1, <2>2, GotoFields DEF Releasing
<1>7. CASE DelKill(c) \/ AddKill(c)
  BY <1>0, <1>6, <1>7, GotoFields DEF DelKill, AddKill, Releasing
<1>8. CASE Kill(c)
  <2>1. Locked(c) /\ job[c].cmd = "released"
    BY <1>8 DEF Kill, Releasing, Locked, LockedSteps
  <2>2. \A d \in Callers \ {c} : ~Starting(d)
    BY <2>1, HolderAlone DEF HoldInv, Starting, Locked, LockedSteps
  <2>3. Unlock(c) /\ ~instance'
    BY <1>8, <2>1 DEF Kill
  <2>. QED  BY <1>0, <2>2, <2>3, UnlockFields DEF Threat, Starting
<1>. QED
  <2>1. job[c].pc \in {"sync", "hotplug", "lock", "delRoute", "kill", "ksRead", "ksDel", "ksAdd"}
    BY DEF Releasing
  <2>. QED
    BY <2>1, <1>1, <1>2, <1>3, <1>4, <1>5, <1>7, <1>8
       DEF Step, ServiceStep, ApplyStep, SwitchStep, ReloadCheck, Refuse, Admit, StopNatives,
           WriteMemo, Launch, AddRoute, Guard, SetKillswitch, SetBind, DropKill

\* The switch becomes ours by bind_switch_on, which goes on to its sync.
LEMMA OwnedStep ==
    ASSUME HoldInv, NEW c \in Callers, Step(c), Owned', ~Owned
    PROVE  SwitchFunc = "none" /\ Releasing(c)'
<1>1. SetBind(c)
  <2>1. bind' # bind
    BY DEF Owned
  <2>2. ~ServiceStep(c)
    BY <2>1 DEF ServiceStep, Acquire, ReloadCheck, Refuse, Admit, StopNatives, WriteMemo, Launch,
                DelRoute, AddRoute, Kill, uciVars
  <2>3. ~ApplyStep(c)
    BY <2>1 DEF ApplyStep, ReadKillswitch, DelKill, AddKill, uciVars
  <2>. QED
    BY <2>1, <2>2, <2>3
       DEF Step, SwitchStep, Guard, SetKillswitch, SyncSwitch, HotplugGate, DropKill, uciVars
<1>2. SwitchFunc = "none" /\ bind'
  BY DEF Owned
<1>3. Goto(c, "sync")
  BY <1>1, <1>2 DEF SetBind
<1>. QED  BY <1>2, <1>3, GotoFields DEF Releasing, HoldInv

LEMMA StepOff ==
    ASSUME OffInv, SwitchFunc # "none" \/ Killable = {}, NEW c \in Callers, Step(c)
    PROVE  LastEvent' /\ (Owned /\ phys = "off" /\ Threat => OffWork)'
<1>1. phys' = phys /\ events' = events
  BY DEF Step, ServiceStep, ApplyStep, SwitchStep, Acquire, ReloadCheck, Refuse, Admit,
         StopNatives, WriteMemo, Launch, DelRoute, AddRoute, Kill, ReadKillswitch, DelKill,
         AddKill, Guard, SetKillswitch, SetBind, SyncSwitch, HotplugGate, DropKill, envVars
<1>2. LastEvent'
  BY <1>1 DEF OffInv, LastEvent
<1>3. ASSUME Owned', phys' = "off", Threat' PROVE OffWork'
  <2>1. CASE ~Owned
    BY <1>3, <2>1, OwnedStep DEF OffInv, OffWork
  <2>2. CASE Owned
    <3>1. OffWork
      BY <1>1, <1>3, <2>2, NoNewThreat DEF OffInv
    <3>2. CASE events # <<>>
      BY <1>1, <3>2 DEF OffWork
    <3>3. CASE events = <<>>
      <4>1. PICK d \in Callers \ Killable : Releasing(d)
        BY <3>1, <3>3 DEF OffWork
      <4>2. CASE d = c
        BY <1>1, <1>3, <2>2, <4>1, <4>2, ReleaseGoesOn DEF OffInv, OffWork
      <4>3. CASE d # c
        <5>1. job'[d] = job[d]
          BY <4>3, StepStop DEF OffInv, StopInv
        <5>. QED  BY <4>1, <5>1 DEF OffWork, Releasing
      <4>. QED  BY <4>2, <4>3
    <3>. QED  BY <3>2, <3>3
  <2>. QED  BY <2>1, <2>2
<1>. QED  BY <1>2, <1>3

\* A caller that takes a command has had none before it.
LEMMA EnterOff ==
    ASSUME HoldInv, NEW c \in Callers, NEW k \in Commands \cup ButtonActions, Enter(c, k),
           UNCHANGED <<uciVars, procdVars>>
    PROVE  /\ Owned' = Owned /\ (Threat' => Threat)
           /\ \A d \in Callers : Releasing(d) => Releasing(d)'
           /\ job'[c].cmd = k /\ job'[c].pc = Entry(k)
<1>1. /\ [IdleJob EXCEPT !.cmd = k, !.pc = Entry(k)].cmd = k
      /\ [IdleJob EXCEPT !.cmd = k, !.pc = Entry(k)].pc = Entry(k)
  BY DEF IdleJob
<1>2. Entry(k) \in {"guard", "setKill", "setBind", "hotplug"}
  BY DEF Entry, Commands, ServiceActions, ButtonActions, KillCommands
<1>3. /\ job'[c].cmd = k /\ job'[c].pc = Entry(k)
      /\ \A d \in Callers \ {c} : job'[d] = job[d]
  BY <1>1, BecomeOthers DEF Enter, HoldInv
<1>4. ~Releasing(c)
  BY DEF Enter, At, Releasing, OffSteps, ApplySteps
<1>. QED
  BY <1>2, <1>3, <1>4 DEF Owned, Threat, Starting, Releasing, uciVars, procdVars

LEMMA NextOffInv ==
    ASSUME SwitchFunc # "none" \/ Killable = {}
    PROVE  OffInv /\ [Next]_vars => OffInv'
<1>. SUFFICES ASSUME OffInv, [Next]_vars PROVE OffInv'
  OBVIOUS
<1>1. HoldInv' /\ StopInv'
  BY NextHoldInv, NextStopInv DEF OffInv
<1>. SUFFICES LastEvent' /\ (Owned /\ phys = "off" /\ Threat => OffWork)'
  BY <1>1 DEF OffInv
<1>2. ASSUME NEW c \in Callers, Step(c)
      PROVE  LastEvent' /\ (Owned /\ phys = "off" /\ Threat => OffWork)'
  BY <1>2, StepOff
<1>3. ASSUME NEW c \in Requests, NEW k \in Commands, Call(c, k)
      PROVE  LastEvent' /\ (Owned /\ phys = "off" /\ Threat => OffWork)'
  <2>1. /\ Owned' = Owned /\ (Threat' => Threat)
        /\ \A d \in Callers : Releasing(d) => Releasing(d)'
    BY <1>3, EnterOff DEF Call, Callers, OffInv
  <2>2. phys' = phys /\ events' = events
    BY <1>3 DEF Call
  <2>. QED  BY <2>1, <2>2 DEF OffInv, LastEvent, OffWork
<1>4. CASE Flip
  <2>1. /\ events \in Seq(ButtonActions) /\ phys \in {"on", "off"}
        /\ "pressed" \in ButtonActions /\ "released" \in ButtonActions
    BY DEF OffInv, HoldInv, TypeOK, ButtonActions
  <2>2. PICK e : e = IF phys = "on" THEN "released" ELSE "pressed"
    OBVIOUS
  <2>3. /\ events' = Append(events, e) /\ e \in ButtonActions
        /\ e = IF phys' = "on" THEN "pressed" ELSE "released"
    BY <1>4, <2>1, <2>2 DEF Flip
  <2>4. events' # <<>> /\ events'[Len(events')] = e
    BY <2>1, <2>3
  <2>. QED  BY <2>3, <2>4 DEF LastEvent, OffWork
<1>5. CASE Deliver
  <2>1. /\ events \in Seq(ButtonActions) /\ events # <<>> /\ Head(events) \in ButtonActions
        /\ Hotplug \in Callers \ Killable /\ Enter(Hotplug, Head(events))
        /\ events' = Tail(events) /\ phys' = phys
    BY <1>5, CallersAssumption DEF Deliver, OffInv, HoldInv, TypeOK, Callers
  <2>2. /\ Owned' = Owned
        /\ job'[Hotplug].cmd = Head(events) /\ job'[Hotplug].pc = Entry(Head(events))
    BY <1>5, <2>1, EnterOff DEF Deliver, OffInv
  <2>3. CASE Len(events) = 1
    <3>1. events' = <<>> /\ Head(events) = events[Len(events)]
      BY <2>1, <2>3
    <3>2. LastEvent'
      BY <3>1 DEF LastEvent
    <3>3. ASSUME phys = "off" PROVE Releasing(Hotplug)'
      <4>1. job'[Hotplug].cmd = "released"
        BY <2>1, <2>2, <3>1, <3>3 DEF OffInv, LastEvent
      <4>2. job'[Hotplug].pc = "hotplug"
        BY <2>1, <2>2, <3>1, <3>3 DEF OffInv, LastEvent, Entry, ServiceActions, KillCommands,
                                      ButtonActions
      <4>. QED  BY <4>1, <4>2 DEF Releasing, OffSteps
    <3>. QED  BY <2>1, <3>2, <3>3 DEF OffWork
  <2>4. CASE Len(events) # 1
    <3>1. Len(events) \in Nat \ {0} /\ Len(events) > 1
      <4>1. Len(events) \in Nat \ {0}
        BY <2>1, EmptySeq, Zenon
      <4>2. \A n \in Nat \ {0} : n # 1 => n > 1
        OBVIOUS
      <4>. QED  BY <2>4, <4>1, <4>2, Zenon
    <3>2. /\ events' \in Seq(ButtonActions) /\ Len(events') = Len(events) - 1
          /\ \A i \in 1..Len(events') : events'[i] = events[i + 1]
      BY <2>1, HeadTailProperties
    <3>3. events'[Len(events')] = events[Len(events)]
      BY <3>1, <3>2
    <3>4. events' # <<>>
      BY <3>1, <3>2, EmptySeq
    <3>. QED  BY <2>1, <3>3, <3>4 DEF OffInv, LastEvent, OffWork
  <2>. QED  BY <2>3, <2>4
<1>6. CASE PowerCut
  <2>1. ~Threat'
    BY <1>6 DEF PowerCut, BootJobs, IdleJob, Threat, Starting
  <2>. QED  BY <1>6, <2>1 DEF PowerCut, LastEvent
<1>7. ASSUME NEW c \in Killable, Abort(c)
      PROVE  LastEvent' /\ (Owned /\ phys = "off" /\ Threat => OffWork)'
  <2>1. c \in Callers
    BY CallersAssumption DEF Callers
  <2>2. job'[c].pc = "idle" /\ \A d \in Callers \ {c} : job'[d] = job[d]
    BY <1>7, <2>1, LeaveFields DEF Abort, OffInv, HoldInv
  <2>3. phys' = phys /\ events' = events /\ Owned' = Owned /\ instance' = instance
    BY <1>7 DEF Abort, envVars, uciVars, procdVars, Owned
  <2>4. Threat' => Threat
    BY <2>2, <2>3 DEF Threat, Starting
  <2>5. OffWork => OffWork'
    BY <1>7, <2>2, <2>3 DEF OffWork, Releasing
  <2>. QED  BY <2>3, <2>4, <2>5 DEF OffInv, LastEvent
<1>8. CASE TunUp \/ TunDown \/ UptimePasses \/ (\E r \in Rules : EnableNative(r))
             \/ UNCHANGED vars
  <2>1. UNCHANGED <<phys, events, bind, instance, job>>
    BY <1>8 DEF TunUp, TunDown, UptimePasses, EnableNative, vars, envVars, uciVars, procdVars,
                callerVars
  <2>. QED  BY <2>1 DEF OffInv, LastEvent, Owned, Threat, Starting, OffWork, Releasing
<1>. QED
  BY <1>2, <1>3, <1>4, <1>5, <1>6, <1>7, <1>8 DEF Next, Environment

\* A switch that is ours and OFF, with every script done and no event pending,
\* means a stopped service: for any overlap of commands and flips, and after
\* any power cut.  With func = xray the panel's scripts may even be killed
\* half-way; with func unset they must not be, because a bind_switch_on that
\* dies between its flag and its sync leaves the service as it was.
THEOREM SwitchOffAlwaysStops ==
    ASSUME SwitchFunc # "none" \/ Killable = {}
    PROVE  Spec => []SwitchOffStops
<1>1. Init => OffInv
  <2>. SUFFICES ASSUME Init PROVE OffInv
    OBVIOUS
  <2>1. HoldInv /\ StopInv
    BY InitIInv, InitFlagInv DEF IInv, FlagInv
  <2>2. LastEvent /\ ~Threat
    BY DEF Init, BootJobs, IdleJob, LastEvent, Threat, Starting
  <2>. QED  BY <2>1, <2>2 DEF OffInv
<1>2. OffInv => SwitchOffStops
  BY DEF OffInv, SwitchOffStops, Quiet, Active, Threat, OffWork, Releasing, OffSteps, ApplySteps
<1>. QED  BY <1>1, <1>2, NextOffInv, PTL DEF Spec
=============================================================================
