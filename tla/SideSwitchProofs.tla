-------------------------- MODULE SideSwitchProofs --------------------------
(* What holds of SideSwitch for every number of handlers and rules.        *)
EXTENDS SideSwitch, FiniteSetTheorems, TLAPS

-----------------------------------------------------------------------------
(* `uci set` and `uci commit`.                                             *)

OptionNames == {"func", "prev", "bind", "memo", "rules"}

\* What each option may hold.
Values == [o \in OptionNames |->
              CASE o = "func"  -> {"xray", HomeFunc}
                [] o = "prev"  -> {"", "xray", HomeFunc}
                [] o = "bind"  -> BOOLEAN
                [] o = "memo"  -> SUBSET Rules
                [] o = "rules" -> SUBSET Rules]

\* A record of options, seen as a function from option names.
LEMMA OptionsAsFunctions ==
    ASSUME NEW u
    PROVE  u \in Options <=> /\ u = [o \in OptionNames |-> u[o]]
                             /\ \A o \in OptionNames : u[o] \in Values[o]
  BY DEF Options, OptionNames, Values

\* Two records of options that agree on every option are equal.
LEMMA OptionsEqual ==
    ASSUME NEW u \in Options, NEW d \in Options, \A o \in OptionNames : d[o] = u[o]
    PROVE  d = u
  BY OptionsAsFunctions

LEMMA CommitKeeps ==
    ASSUME NEW u \in Options, NEW d \in Options, NEW package
    PROVE  LET e == [o \in DOMAIN d |-> IF o \in package THEN u[o] ELSE d[o]]
           IN  /\ e \in Options
               /\ \A o \in OptionNames : e[o] = IF o \in package THEN u[o] ELSE d[o]
<1>1. DOMAIN d = OptionNames
  BY OptionsAsFunctions
<1>. QED  BY <1>1, OptionsAsFunctions

-----------------------------------------------------------------------------
(* The invariants.                                                         *)

\* An option is staged only between the `uci set` of a caller and its commit.
Between(o) ==
    CASE o = "func"  -> {"onBind", "onCommitSwitch", "offPrev", "offBind", "offCommitSwitch"}
      [] o = "prev"  -> {"onFunc", "onBind", "onCommitSwitch", "onCommitSingBox",
                         "offBind", "offCommitSwitch", "offCommitSingBox"}
      [] o = "bind"  -> {"onCommitSwitch", "onCommitSingBox", "offCommitSwitch", "offCommitSingBox"}
      [] o = "memo"  -> {}
      [] o = "rules" -> {"disableCommit"}

StagedAt(o) == disk[o] = uci[o] \/ \E c \in Callers : job[c].pc \in Between(o)
StagedInv   == "write" \notin failed => \A o \in OptionNames : StagedAt(o)

\* While OFF is not offered, prev is the user's function or unset, and every
\* ON that is about to claim the switch has seen to it that it is set.
OffSteps == {"memoRead", "offFunc", "offPrev", "offBind", "offCommitSwitch", "offCommitSingBox"}

ClaimFits(c) ==
    /\ job[c].op # "side_off" /\ job[c].pc \notin OffSteps
    /\ At(c, "onPrev") /\ "read" \notin failed => job[c].cur = HomeFunc
    /\ At(c, "onFunc") /\ "read" \notin failed => uci.prev = HomeFunc

ClaimInv ==
    /\ ClaimRemembered
    /\ "read" \notin failed => uci.prev \in {"", HomeFunc}
    /\ \A c \in Callers : ClaimFits(c)

\* The callers run one after another.
OneAtATime == \A c, d \in Callers : ~At(c, "idle") /\ ~At(d, "idle") => c = d

\* No native client is enabled, and none is up for longer than the restart
\* that is due.
Clear == uci.rules = {} /\ (restart \/ up = {})

\* The interfaces follow the rules, except between a change and its restart.
Synced(j) ==
    j.pc \notin {"disableCommit", "remember", "stopRestart", "forget", "restoreRestart"} =>
        restart \/ up = uci.rules

\* What the one caller whose job is j relies on: unless the user asked for
\* both, sing-box runs, or is about to, only with the rules out of the way.
Guarded(j) ==
    /\ running => shared \/ Clear
    /\ j.pc = "startMemo" => Clear
    /\ j.pc = "launch" => shared \/ Clear
    /\ j.pc = "start" => j.op \in {"boot", "start", "restart"} \/ Bound \/ Clear
    /\ j.pc = "enable" => ~running \/ j.op = "native_restore"

\* stopNativeVPN and stop_native_vpns take all the rules there are.
Moved(j) ==
    /\ j.pc = "disable" => j.rules = uci.rules
    /\ j.pc \in {"disableCommit", "remember", "stopRestart", "startMemo"} => uci.rules = {}

\* Where the native clients of the user are: in the rules, in the memo, or
\* in the hands of the caller that takes them from one to the other.
Held(j) ==
    /\ j.pc \in {"disableCommit", "remember", "startMemo"} => wanted \subseteq j.rules
    /\ j.pc \in {"disable", "disableCommit", "remember", "startMemo"} => uci.memo = {}
    /\ j.pc \notin {"disableCommit", "remember", "startMemo"} => wanted \subseteq uci.rules \cup uci.memo
    /\ j.pc = "forget" => wanted \subseteq uci.rules
    /\ j.pc # "forget" => uci.memo = {} \/ uci.rules = {}

\* What each of the two is worth once a failure has been ignored.
Kept(j)  == Moved(j) /\ (~cut => Held(j))
Apart(j) == Synced(j) /\ Guarded(j)
Fits(j)  == ("write" \notin failed => Kept(j)) /\ (failed = {} => Apart(j))

SeqInv ==
    /\ OneAtATime
    /\ Quiet => Fits(IdleJob)
    /\ \A c \in Callers : ~At(c, "idle") => Fits(job[c])

\* The function and its snapshot: the switch is claimed, released, or on its
\* way in the hands of the one caller whose job is j.  The binding is anyone's
\* to change.
Claimed  == uci.func = "xray" /\ uci.prev = HomeFunc
Released == uci.func = HomeFunc /\ uci.prev = ""

ReleasedSteps == {"offBind", "offCommitSwitch", "offCommitSingBox"}

Button(j) ==
    CASE j.pc = "onPrev"        -> Released /\ j.cur = HomeFunc
      [] j.pc = "onFunc"        -> uci.prev = HomeFunc
      [] j.pc = "offPrev"       -> uci.func = HomeFunc
      [] j.pc \in ReleasedSteps -> Released
      [] j.pc = "bindOff" /\ j.op = "side_off" -> Released
      [] OTHER                  -> Claimed \/ Released

Telling == ~cut /\ "read" \notin failed

ButtonInv ==
    /\ OneAtATime
    /\ Telling => /\ Quiet => Button(IdleJob)
                  /\ \A c \in Callers : ~At(c, "idle") => Button(job[c])

-----------------------------------------------------------------------------
(* What the commands of a step do.                                         *)

Others(c) == \A d \in Callers \ {c} : job'[d] = job[d]

LEMMA BecomeDoes ==
    ASSUME TypeOK, NEW c \in Callers, NEW j \in Jobs, Become(c, j)
    PROVE  job' \in [Callers -> Jobs] /\ job'[c] = j /\ Others(c)
  BY DEF TypeOK, Become, Others

LEMMA GotoDoes ==
    ASSUME TypeOK, NEW c \in Callers, NEW s \in Steps, Goto(c, s)
    PROVE  /\ job' \in [Callers -> Jobs] /\ Others(c)
           /\ job'[c].pc = s /\ job'[c].op = job[c].op
           /\ job'[c].cur = job[c].cur /\ job'[c].rules = job[c].rules
<1>. PICK j : j = [job[c] EXCEPT !.pc = s]
  OBVIOUS
<1>1. j \in Jobs /\ j.pc = s /\ j.op = job[c].op /\ j.cur = job[c].cur /\ j.rules = job[c].rules
  BY DEF TypeOK, Jobs
<1>2. Become(c, j)
  BY DEF Goto
<1>. QED  BY <1>1, <1>2, BecomeDoes

LEMMA IdleIsJob == IdleJob \in Jobs /\ IdleJob.pc = "idle"
  BY DEF IdleJob, Jobs, Steps

LEMMA LeaveDoes ==
    ASSUME TypeOK, NEW c \in Callers, Leave(c)
    PROVE  job' \in [Callers -> Jobs] /\ Others(c) /\ job'[c] = IdleJob
  BY IdleIsJob, BecomeDoes DEF Leave

LEMMA GoOnDoes ==
    ASSUME TypeOK, NEW c \in Callers, NEW s \in Steps, GoOn(c, s)
    PROVE  /\ job' \in [Callers -> Jobs] /\ Others(c) /\ job'[c].pc = s
           /\ job'[c].op = IF s = "idle" THEN "boot" ELSE job[c].op
<1>1. CASE s = "idle"
  BY <1>1, LeaveDoes, IdleIsJob DEF GoOn, IdleJob
<1>2. CASE s # "idle"
  BY <1>2, GotoDoes DEF GoOn
<1>. QED  BY <1>1, <1>2

LEMMA ListRulesDoes ==
    ASSUME TypeOK, NEW c \in Callers, ListRules(c)
    PROVE  /\ job' \in [Callers -> Jobs] /\ Others(c)
           /\ job'[c].op \in {job[c].op, "boot"}
           /\ uci.rules = {} => job'[c].pc = AfterStop(c)
           /\ job'[c].pc # "idle" => job'[c].op = job[c].op
           /\ uci.rules # {} => job'[c].pc = "disable" /\ job'[c].rules = uci.rules
<1>0. AfterStop(c) \in Steps
  BY DEF AfterStop, Steps
<1>1. CASE uci.rules = {}
  <2>1. GoOn(c, AfterStop(c))
    BY <1>1 DEF ListRules
  <2>. QED  BY <1>0, <1>1, <2>1, GoOnDoes
<1>2. CASE uci.rules # {}
  <2>. PICK j : j = [job[c] EXCEPT !.rules = uci.rules, !.pc = "disable"]
    OBVIOUS
  <2>1. job[c] \in Jobs /\ uci.rules \subseteq Rules
    BY DEF TypeOK, Options
  <2>2. j \in Jobs /\ j.op = job[c].op /\ j.pc = "disable" /\ j.rules = uci.rules
    BY <2>1 DEF Jobs, Steps
  <2>3. Become(c, j)
    BY <1>2 DEF ListRules
  <2>. QED  BY <1>2, <2>2, <2>3, BecomeDoes
<1>. QED  BY <1>1, <1>2

FirstSteps == {"onRead", "memoRead", "list", "stop", "enable", "bindOn", "bindOff", "start"}

LEMMA CallDoes ==
    ASSUME TypeOK, NEW c \in Callers, NEW o \in Ops, Call(c, o)
    PROVE  /\ job' \in [Callers -> Jobs] /\ Others(c)
           /\ job'[c].op = o /\ job'[c].pc = FirstStep(o) /\ FirstStep(o) \in FirstSteps
           /\ At(c, "idle") /\ UNCHANGED <<uci, disk, phys, running, up, restart, lock, historyVars>>
<1>1. o \in AllOps
  BY SwapAssumption
<1>2. FirstStep(o) \in FirstSteps
  BY <1>1 DEF FirstStep, FirstSteps, AllOps
<1>. PICK j : j = [IdleJob EXCEPT !.op = o, !.pc = FirstStep(o)]
  OBVIOUS
<1>3. j \in Jobs /\ j.op = o /\ j.pc = FirstStep(o)
  BY <1>1, <1>2 DEF IdleJob, Jobs, Steps, FirstSteps
<1>4. Become(c, j)
  BY DEF Call
<1>. QED  BY <1>2, <1>3, <1>4, BecomeDoes DEF Call

LEMMA UciSet ==
    ASSUME TypeOK, NEW o \in OptionNames, NEW v \in Values[o], uci' = [uci EXCEPT ![o] = v]
    PROVE  uci' \in Options /\ uci'[o] = v /\ \A p \in OptionNames \ {o} : uci'[p] = uci[p]
<1>1. uci = [p \in OptionNames |-> uci[p]] /\ \A p \in OptionNames : uci[p] \in Values[p]
  BY OptionsAsFunctions DEF TypeOK
<1>2. uci' = [p \in OptionNames |-> uci'[p]]
  BY <1>1
<1>3. uci'[o] = v /\ \A p \in OptionNames \ {o} : uci'[p] = uci[p]
  BY <1>1
<1>4. \A p \in OptionNames : uci'[p] \in Values[p]
  BY <1>1, <1>3
<1>5. uci' \in Options
  BY <1>2, <1>4, OptionsAsFunctions
<1>. QED  BY <1>3, <1>5

LEMMA SetDoes ==
    ASSUME TypeOK, NEW o \in OptionNames, NEW v \in Values[o], Set(o, v)
    PROVE  /\ uci' \in Options /\ disk' = disk
           /\ uci'[o] = v /\ \A p \in OptionNames \ {o} : uci'[p] = uci[p]
<1>1. uci' = [uci EXCEPT ![o] = v] /\ disk' = disk
  BY DEF Set
<1>. QED  BY <1>1, UciSet

LEMMA CommitDoes ==
    ASSUME TypeOK, NEW package, Commit(package)
    PROVE  /\ disk' \in Options
           /\ \A o \in OptionNames : disk'[o] = IF o \in package THEN uci[o] ELSE disk[o]
  BY CommitKeeps DEF TypeOK, Commit

LEMMA SetCommitDoes ==
    ASSUME TypeOK, NEW o \in OptionNames, NEW v \in Values[o], NEW package,
           SetCommit(o, v, package)
    PROVE  /\ uci' \in Options /\ disk' \in Options
           /\ uci'[o] = v /\ \A p \in OptionNames \ {o} : uci'[p] = uci[p]
           /\ \A p \in OptionNames : disk'[p] = IF p \in package THEN uci'[p] ELSE disk[p]
<1>1. uci' = [uci EXCEPT ![o] = v]
  BY DEF SetCommit
<1>2. uci' \in Options /\ uci'[o] = v /\ \A p \in OptionNames \ {o} : uci'[p] = uci[p]
  BY <1>1, UciSet
<1>3. disk \in Options /\ disk' = [p \in DOMAIN disk |-> IF p \in package THEN uci'[p] ELSE disk[p]]
  BY DEF SetCommit, TypeOK
<1>4. disk' \in Options /\ \A p \in OptionNames : disk'[p] = IF p \in package THEN uci'[p] ELSE disk[p]
  BY <1>2, <1>3, CommitKeeps
<1>. QED  BY <1>2, <1>4

\* Every value a step puts into an option is one the option may hold.
LEMMA OptionValues ==
    ASSUME TypeOK, NEW c \in Callers
    PROVE  /\ uci.func \in Values["func"] /\ uci.prev \in Values["prev"]
           /\ job[c].cur \in Values["prev"] /\ "xray" \in Values["func"] /\ "" \in Values["prev"]
           /\ uci.prev # "" => uci.prev \in Values["func"]
           /\ TRUE \in Values["bind"] /\ FALSE \in Values["bind"]
           /\ job[c].rules \in Values["memo"] /\ {} \in Values["memo"]
           /\ uci.rules \ job[c].rules \in Values["rules"] /\ {} \in Values["rules"]
           /\ uci.rules \cup uci.memo \in Values["rules"]
           /\ \A r \in Rules : uci.rules \cup {r} \in Values["rules"]
<1>1. uci \in Options /\ job[c] \in Jobs
  BY DEF TypeOK
<1>. QED  BY <1>1 DEF Options, Jobs, Values, OptionNames

-----------------------------------------------------------------------------
(* What a failure does.                                                    *)

LEMMA ReadFailsDoes ==
    ASSUME TypeOK, NEW c \in Callers, ReadFails(c)
    PROVE  /\ job' \in [Callers -> Jobs] /\ Others(c) /\ UNCHANGED <<uci, disk, up>>
           /\ job[c].pc \in {"onRead", "onProbe", "list", "memoRead", "enable", "offFunc"}
           /\ job'[c].pc \in {"onPrev", "onFunc", "bindOn", "start", "idle", "offFunc", "offPrev"}
           /\ job'[c].pc \in {"offFunc", "offPrev"} =>
                  job[c].op = "side_off" \/ job[c].pc \in {"memoRead", "offFunc"}
           /\ job'[c].op \in {job[c].op, "boot"}
<1>1. UNCHANGED <<uci, disk, up>>
  BY DEF ReadFails
<1>2. CASE At(c, "onRead")
  <2>1. PICK cur \in {uci.func, ""}, s \in {"onPrev", "onFunc"} :
            Become(c, [job[c] EXCEPT !.cur = cur, !.pc = s])
    BY <1>2 DEF ReadFails, AfterRead, At
  <2>. PICK j : j = [job[c] EXCEPT !.cur = cur, !.pc = s]
    OBVIOUS
  <2>2. job[c] \in Jobs /\ uci.func \in {"xray", HomeFunc}
    BY DEF TypeOK, Options
  <2>3. j \in Jobs /\ j.op = job[c].op /\ j.pc = s
    BY <2>1, <2>2 DEF Jobs, Steps
  <2>. QED  BY <1>1, <1>2, <2>1, <2>3, BecomeDoes DEF At
<1>3. CASE At(c, "onProbe")
  BY <1>1, <1>3, GotoDoes DEF ReadFails, At, Steps
<1>4. CASE At(c, "list")
  <2>1. GoOn(c, AfterStop(c)) /\ AfterStop(c) \in {"bindOn", "start", "idle"}
    BY <1>4 DEF ReadFails, At, AfterStop
  <2>. QED  BY <1>1, <1>4, <2>1, GoOnDoes DEF At, Steps
<1>5. CASE At(c, "memoRead")
  BY <1>1, <1>5, GotoDoes DEF ReadFails, At, Steps
<1>6. CASE At(c, "enable")
  <2>1. GoOn(c, AfterRestore(c)) /\ AfterRestore(c) = IF job[c].op = "side_off" THEN "offFunc" ELSE "idle"
    BY <1>6 DEF ReadFails, At, AfterRestore
  <2>. QED  BY <1>1, <1>6, <2>1, GoOnDoes DEF At, Steps
<1>7. CASE At(c, "offFunc")
  BY <1>1, <1>7, GotoDoes DEF ReadFails, At, Steps
<1>. QED  BY <1>2, <1>3, <1>4, <1>5, <1>6, <1>7 DEF ReadFails

LEMMA StopWriteFailsDoes ==
    ASSUME TypeOK, NEW c \in Callers, StopWriteFails(c)
    PROVE  /\ job' \in [Callers -> Jobs] /\ Others(c) /\ uci' \in Options /\ disk' = disk
           /\ uci'.func = uci.func /\ uci'.prev = uci.prev /\ uci'.bind = uci.bind
           /\ job[c].pc \in {"disable", "disableCommit", "remember"}
           /\ job'[c].pc \in {"disableCommit", "stopRestart", "bindOn", "start", "idle"}
           /\ job'[c].op \in {job[c].op, "boot"}
<1>1. CASE At(c, "disable")
  <2>1. PICK done \in SUBSET job[c].rules :
            /\ Set("rules", uci.rules \ done)
            /\ Become(c, [job[c] EXCEPT !.rules = done, !.pc = "disableCommit"])
    BY <1>1 DEF StopWriteFails, At
  <2>. PICK j : j = [job[c] EXCEPT !.rules = done, !.pc = "disableCommit"]
    OBVIOUS
  <2>2. job[c] \in Jobs /\ uci.rules \subseteq Rules
    BY DEF TypeOK, Options
  <2>3. j \in Jobs /\ j.op = job[c].op /\ j.pc = "disableCommit"
    BY <2>2 DEF Jobs, Steps
  <2>4. job' \in [Callers -> Jobs] /\ Others(c) /\ job'[c] = j
    BY <2>1, <2>3, BecomeDoes
  <2>5. "rules" \in OptionNames /\ uci.rules \ done \in Values["rules"]
    BY <2>2 DEF OptionNames, Values
  <2>6. /\ uci' \in Options /\ disk' = disk
        /\ uci'.func = uci.func /\ uci'.prev = uci.prev /\ uci'.bind = uci.bind
    BY <2>1, <2>5, SetDoes DEF OptionNames
  <2>. QED  BY <1>1, <2>3, <2>4, <2>6 DEF At
<1>2. CASE At(c, "disableCommit")
  <2>1. GoOn(c, AfterStop(c)) /\ AfterStop(c) \in {"bindOn", "start", "idle"} /\ UNCHANGED <<uci, disk>>
    BY <1>2 DEF StopWriteFails, At, AfterStop
  <2>. QED  BY <1>2, <2>1, GoOnDoes DEF At, Steps, TypeOK
<1>3. CASE At(c, "remember")
  <2>1. PICK memo \in {uci.memo, job[c].rules} : Set("memo", memo)
    BY <1>3 DEF StopWriteFails, At
  <2>2. "memo" \in OptionNames /\ memo \in Values["memo"]
    BY <2>1 DEF OptionNames, Values, TypeOK, Jobs, Options
  <2>3. /\ uci' \in Options /\ disk' = disk
        /\ uci'.func = uci.func /\ uci'.prev = uci.prev /\ uci'.bind = uci.bind
    BY <2>1, <2>2, SetDoes DEF OptionNames
  <2>4. Goto(c, "stopRestart")
    BY <1>3 DEF StopWriteFails, At
  <2>. QED  BY <1>3, <2>3, <2>4, GotoDoes DEF At, Steps
<1>. QED  BY <1>1, <1>2, <1>3 DEF StopWriteFails

LEMMA RestoreWriteFailsDoes ==
    ASSUME TypeOK, NEW c \in Callers, RestoreWriteFails(c)
    PROVE  /\ job' \in [Callers -> Jobs] /\ Others(c) /\ uci' \in Options /\ disk' \in Options
           /\ uci'.func = uci.func /\ uci'.prev = uci.prev /\ uci'.bind = uci.bind
           /\ job[c].pc \in {"enable", "forget"}
           /\ job'[c].pc \in {"forget", "restoreRestart", "offFunc", "idle"}
           /\ job'[c].pc = "offFunc" => job[c].op = "side_off"
           /\ job'[c].op \in {job[c].op, "boot"}
<1>1. CASE At(c, "enable")
  <2>1. PICK done \in SUBSET uci.memo :
            \/ SetCommit("rules", uci.rules \cup done, RoutePolicy) /\ Goto(c, "forget")
            \/ Set("rules", uci.rules \cup done) /\ GoOn(c, AfterRestore(c))
    BY <1>1 DEF RestoreWriteFails, At
  <2>2. "rules" \in OptionNames /\ uci.rules \cup done \in Values["rules"]
    BY DEF OptionNames, Values, TypeOK, Options
  <2>3. disk \in Options
    BY DEF TypeOK
  <2>4. /\ uci' \in Options /\ disk' \in Options
        /\ uci'.func = uci.func /\ uci'.prev = uci.prev /\ uci'.bind = uci.bind
    BY <2>1, <2>2, <2>3, SetDoes, SetCommitDoes DEF OptionNames
  <2>5. AfterRestore(c) = IF job[c].op = "side_off" THEN "offFunc" ELSE "idle"
    BY DEF AfterRestore
  <2>6. /\ job' \in [Callers -> Jobs] /\ Others(c)
        /\ job'[c].pc \in {"forget", AfterRestore(c)} /\ job'[c].op \in {job[c].op, "boot"}
    BY <2>1, <2>5, GotoDoes, GoOnDoes DEF Steps
  <2>. QED  BY <1>1, <2>4, <2>5, <2>6 DEF At
<1>2. CASE At(c, "forget")
  <2>1. PICK memo \in {uci.memo, {}} : Set("memo", memo)
    BY <1>2 DEF RestoreWriteFails, At
  <2>2. "memo" \in OptionNames /\ memo \in Values["memo"]
    BY <2>1 DEF OptionNames, Values, TypeOK, Options
  <2>3. /\ uci' \in Options /\ disk' \in Options
        /\ uci'.func = uci.func /\ uci'.prev = uci.prev /\ uci'.bind = uci.bind
    BY <2>1, <2>2, SetDoes DEF OptionNames, TypeOK
  <2>4. Goto(c, "restoreRestart")
    BY <1>2 DEF RestoreWriteFails, At
  <2>. QED  BY <1>2, <2>3, <2>4, GotoDoes DEF At, Steps
<1>. QED  BY <1>1, <1>2 DEF RestoreWriteFails

LEMMA RestartFailsDoes ==
    ASSUME TypeOK, NEW c \in Callers, RestartFails(c)
    PROVE  /\ job' \in [Callers -> Jobs] /\ Others(c) /\ UNCHANGED <<uci, disk>> /\ up' \subseteq Rules
           /\ job[c].pc \in {"stopRestart", "restoreRestart"}
           /\ job'[c].pc \in {"bindOn", "start", "idle", "offFunc"}
           /\ job'[c].pc = "offFunc" => job[c].op = "side_off"
           /\ job'[c].op \in {job[c].op, "boot"}
<1>1. up \subseteq Rules /\ uci.rules \subseteq Rules
  BY DEF TypeOK, Options
<1>2. up' \subseteq Rules /\ UNCHANGED <<uci, disk>>
  BY <1>1 DEF RestartFails
<1>3. CASE At(c, "stopRestart")
  <2>1. GoOn(c, AfterStop(c)) /\ AfterStop(c) \in {"bindOn", "start", "idle"}
    BY <1>3 DEF RestartFails, At, AfterStop
  <2>. QED  BY <1>2, <1>3, <2>1, GoOnDoes DEF At, Steps
<1>4. CASE At(c, "restoreRestart")
  <2>1. GoOn(c, AfterRestore(c)) /\ AfterRestore(c) = IF job[c].op = "side_off" THEN "offFunc" ELSE "idle"
    BY <1>4 DEF RestartFails, At, AfterRestore
  <2>. QED  BY <1>2, <1>4, <2>1, GoOnDoes DEF At, Steps
<1>. QED  BY <1>3, <1>4 DEF RestartFails

\* What every failure has in common.
LEMMA FailureDoes ==
    ASSUME TypeOK, NEW c \in Callers, Failure(c)
    PROVE  /\ job' \in [Callers -> Jobs] /\ Others(c) /\ uci' \in Options /\ disk' \in Options
           /\ up' \subseteq Rules /\ failed' \subseteq Faults /\ failed \subseteq failed' /\ failed' # {}
           /\ uci'.func = uci.func /\ uci'.prev = uci.prev /\ uci'.bind = uci.bind
           /\ ~At(c, "idle") /\ job'[c].op \in {job[c].op, "boot"}
           /\ "write" \notin failed' => UNCHANGED <<uci, disk>>
           /\ UNCHANGED <<phys, running, restart, lock, wanted, cut, shared>>
<1>1. PICK kind \in Faults :
          /\ CASE kind = "read"    -> ReadFails(c)
               [] kind = "write"   -> WriteFails(c)
               [] kind = "restart" -> RestartFails(c)
          /\ failed' = failed \cup {kind}
  BY DEF Failure
<1>2. kind \in {"read", "write", "restart"}
  BY SwapAssumption
<1>3. uci \in Options /\ disk \in Options /\ up \subseteq Rules /\ failed \subseteq Faults
  BY DEF TypeOK
<1>4. /\ job' \in [Callers -> Jobs] /\ Others(c) /\ uci' \in Options /\ disk' \in Options
      /\ up' \subseteq Rules /\ ~At(c, "idle") /\ job'[c].op \in {job[c].op, "boot"}
      /\ uci'.func = uci.func /\ uci'.prev = uci.prev /\ uci'.bind = uci.bind
      /\ kind # "write" => UNCHANGED <<uci, disk>>
  <2>1. CASE kind = "read"
    BY <1>1, <1>3, <2>1, ReadFailsDoes DEF At
  <2>2. CASE kind = "write"
    BY <1>1, <1>3, <2>2, StopWriteFailsDoes, RestoreWriteFailsDoes DEF WriteFails, At
  <2>3. CASE kind = "restart"
    BY <1>1, <1>3, <2>3, RestartFailsDoes DEF At
  <2>. QED  BY <1>2, <2>1, <2>2, <2>3
<1>5. UNCHANGED <<phys, running, restart, lock, wanted, cut, shared>>
  BY DEF Failure
<1>. QED  BY <1>1, <1>3, <1>4, <1>5

-----------------------------------------------------------------------------
(* Types.                                                                  *)

LEMMA InitType == Init => TypeOK
<1>. SUFFICES ASSUME Init PROVE TypeOK
  OBVIOUS
<1>1. uci \in Options
  <2>1. PICK R \in SUBSET Rules :
              uci = [func |-> HomeFunc, prev |-> "", bind |-> FALSE, memo |-> {}, rules |-> R]
    BY DEF Init
  <2>. QED  BY <2>1 DEF Options
<1>2. job \in [Callers -> Jobs]
  BY IdleIsJob DEF Init
<1>. QED  BY <1>1, <1>2 DEF Init, TypeOK

\* What is left to show when a step does not change the switch's position.
LEMMA TypeOfAny ==
    ASSUME TypeOK, uci' \in Options, disk' \in Options, job' \in [Callers -> Jobs],
           running' \in BOOLEAN, restart' \in BOOLEAN, up' \subseteq Rules,
           lock' \in Callers \cup {Nobody}, failed' \subseteq Faults, shared' \in BOOLEAN,
           UNCHANGED <<phys, wanted, cut>>
    PROVE  TypeOK'
  BY DEF TypeOK

LEMMA TypeOfStep ==
    ASSUME TypeOK, uci' \in Options, disk' \in Options, job' \in [Callers -> Jobs],
           running' \in BOOLEAN, restart' \in BOOLEAN, up' \subseteq Rules,
           lock' \in Callers \cup {Nobody}, UNCHANGED <<phys, historyVars>>
    PROVE  TypeOK'
  BY DEF TypeOK, historyVars

LEMMA OnStepType == ASSUME TypeOK, NEW c \in Callers, OnStep(c) PROVE TypeOK'
<1>0. job[c] \in Jobs /\ job[c].cur \in {"", "xray", HomeFunc} /\ uci.func \in {"xray", HomeFunc}
  BY DEF TypeOK, Jobs, Options
<1>1. CASE OnRead(c)
  <2>1. PICK s \in {"onPrev", "onFunc"} : Become(c, [job[c] EXCEPT !.cur = uci.func, !.pc = s])
    BY <1>1 DEF OnRead, AfterRead
  <2>2. [job[c] EXCEPT !.cur = uci.func, !.pc = s] \in Jobs
    BY <1>0, <2>1 DEF Jobs, Steps
  <2>3. job' \in [Callers -> Jobs]
    BY <2>1, <2>2, BecomeDoes
  <2>. QED  BY <1>1, <2>3, TypeOfStep DEF OnRead, TypeOK, historyVars
<1>2. CASE OnPrev(c)
  <2>1. uci' \in Options /\ disk' = disk
    BY <1>0, <1>2, SetDoes DEF OnPrev, OptionNames, Values
  <2>. QED  BY <1>2, <2>1, GotoDoes, TypeOfStep DEF OnPrev, TypeOK, Steps
<1>3. CASE OnFunc(c)
  <2>1. uci' \in Options /\ disk' = disk
    BY <1>3, SetDoes DEF OnFunc, OptionNames, Values
  <2>. QED  BY <1>3, <2>1, GotoDoes, TypeOfStep DEF OnFunc, TypeOK, Steps
<1>4. CASE OnBind(c)
  <2>1. uci' \in Options /\ disk' = disk
    BY <1>4, SetDoes DEF OnBind, OptionNames, Values
  <2>. QED  BY <1>4, <2>1, GotoDoes, TypeOfStep DEF OnBind, TypeOK, Steps
<1>5. CASE OnCommitSwitch(c)
  BY <1>5, CommitDoes, GotoDoes, TypeOfStep DEF OnCommitSwitch, TypeOK, Steps
<1>6. CASE OnCommitSingBox(c)
  BY <1>6, CommitDoes, GotoDoes, TypeOfStep DEF OnCommitSingBox, TypeOK, Steps
<1>7. CASE OnProbe(c)
  BY <1>7, GotoDoes, TypeOfStep DEF OnProbe, TypeOK, Steps
<1>. QED  BY <1>1, <1>2, <1>3, <1>4, <1>5, <1>6, <1>7 DEF OnStep

LEMMA StopNativeStepType == ASSUME TypeOK, NEW c \in Callers, StopNativeStep(c) PROVE TypeOK'
<1>0. job[c] \in Jobs /\ job[c].rules \subseteq Rules /\ uci.rules \subseteq Rules
  BY DEF TypeOK, Jobs, Options
<1>00. AfterStop(c) \in Steps
  BY DEF AfterStop, Steps
<1>1. CASE ListRules(c)
  BY <1>1, ListRulesDoes, TypeOfStep DEF ListRules, TypeOK
<1>2. CASE Disable(c)
  <2>1. uci' \in Options /\ disk' = disk
    BY <1>0, <1>2, SetDoes DEF Disable, OptionNames, Values
  <2>. QED  BY <1>2, <2>1, GotoDoes, TypeOfStep DEF Disable, TypeOK, Steps
<1>3. CASE DisableCommit(c)
  <2>1. PICK s \in {"stopRestart", "remember"} : Goto(c, s)
    BY <1>3 DEF DisableCommit
  <2>. QED  BY <1>3, <2>1, CommitDoes, GotoDoes, TypeOfStep DEF DisableCommit, TypeOK, Steps
<1>4. CASE Remember(c)
  <2>1. uci' \in Options /\ disk' \in Options
    BY <1>0, <1>4, SetCommitDoes DEF Remember, OptionNames, Values, SingBox
  <2>. QED  BY <1>4, <2>1, GotoDoes, TypeOfStep DEF Remember, TypeOK, Steps
<1>5. CASE StopRestart(c)
  BY <1>0, <1>00, <1>5, GoOnDoes, TypeOfAny DEF StopRestart, TypeOK
<1>. QED  BY <1>1, <1>2, <1>3, <1>4, <1>5 DEF StopNativeStep

LEMMA InitScriptStepType == ASSUME TypeOK, NEW c \in Callers, InitScriptStep(c) PROVE TypeOK'
<1>0. job[c] \in Jobs /\ job[c].rules \subseteq Rules /\ uci.rules \subseteq Rules
  BY DEF TypeOK, Jobs, Options
<1>1. CASE BindOn(c)
  <2>1. uci' \in Options /\ disk' \in Options
    <3>1. SetCommit("bind", TRUE, SingBox)
      BY <1>1 DEF BindOn
    <3>2. "bind" \in OptionNames /\ TRUE \in Values["bind"] /\ "bind" \in SingBox
      BY DEF OptionNames, Values, SingBox
    <3>. QED  BY <3>1, <3>2, SetCommitDoes
  <2>2. job' \in [Callers -> Jobs]
    BY <1>1, GotoDoes, LeaveDoes DEF BindOn, Steps
  <2>. QED  BY <1>1, <2>1, <2>2, TypeOfStep DEF BindOn, TypeOK
<1>2. CASE StartRefused(c)
  BY <1>2, LeaveDoes, TypeOfStep DEF StartRefused, TypeOK
<1>3. CASE StartAdmitted(c)
  <2>0. shared' \in BOOLEAN /\ UNCHANGED <<failed, wanted, cut>>
    BY <1>3 DEF StartAdmitted
  <2>1. CASE Bound /\ uci.rules # {}
    <3>1. uci' \in Options /\ disk' \in Options
      BY <1>3, <2>1, SetCommitDoes DEF StartAdmitted, OptionNames, Values, RoutePolicy
    <3>2. [job[c] EXCEPT !.rules = uci.rules, !.pc = "startMemo"] \in Jobs
      BY <1>0 DEF Jobs, Steps
    <3>3. job' \in [Callers -> Jobs]
      BY <1>3, <2>1, <3>2, BecomeDoes DEF StartAdmitted
    <3>. QED  BY <1>3, <2>0, <2>1, <3>1, <3>3, TypeOfAny DEF StartAdmitted, TypeOK
  <2>2. CASE ~(Bound /\ uci.rules # {})
    <3>1. Goto(c, "launch") /\ UNCHANGED <<uci, disk, restart>>
      BY <1>3, <2>2 DEF StartAdmitted
    <3>. QED  BY <1>3, <2>0, <3>1, GotoDoes, TypeOfAny DEF StartAdmitted, TypeOK, Steps
  <2>. QED  BY <2>1, <2>2
<1>4. CASE StartMemo(c)
  <2>1. uci' \in Options /\ disk' \in Options
    BY <1>0, <1>4, SetCommitDoes DEF StartMemo, OptionNames, Values, SingBox
  <2>. QED  BY <1>4, <2>1, GotoDoes, TypeOfStep DEF StartMemo, TypeOK, Steps
<1>5. CASE Launch(c)
  BY <1>5, LeaveDoes, TypeOfStep DEF Launch, TypeOK
<1>6. CASE Stop(c)
  <2>1. PICK s \in {"enable", "start", "idle"} : GoOn(c, s)
    BY <1>6 DEF Stop
  <2>. QED  BY <1>6, <2>1, GoOnDoes, TypeOfAny DEF Stop, TypeOK, Steps
<1>. QED  BY <1>1, <1>2, <1>3, <1>4, <1>5, <1>6 DEF InitScriptStep

LEMMA RestoreStepType == ASSUME TypeOK, NEW c \in Callers, RestoreStep(c) PROVE TypeOK'
<1>0. uci.memo \subseteq Rules /\ uci.rules \subseteq Rules
  BY DEF TypeOK, Options
<1>00. AfterRestore(c) \in Steps
  BY DEF AfterRestore, Steps
<1>1. CASE MemoRead(c)
  BY <1>1, GotoDoes, TypeOfStep DEF MemoRead, TypeOK, Steps
<1>2. CASE Enable(c)
  <2>1. CASE uci.memo = {}
    BY <1>00, <1>2, <2>1, GoOnDoes, TypeOfAny DEF Enable, TypeOK
  <2>2. CASE uci.memo # {}
    <3>1. uci' \in Options /\ disk' \in Options
      BY <1>0, <1>2, <2>2, SetCommitDoes DEF Enable, OptionNames, Values, RoutePolicy
    <3>2. shared' \in BOOLEAN
      BY <1>2, <2>2 DEF Enable, TypeOK
    <3>. QED  BY <1>2, <2>2, <3>1, <3>2, GotoDoes, TypeOfAny DEF Enable, TypeOK, Steps
  <2>. QED  BY <2>1, <2>2
<1>3. CASE Forget(c)
  <2>1. uci' \in Options /\ disk' \in Options
    BY <1>3, SetCommitDoes DEF Forget, OptionNames, Values, SingBox
  <2>. QED  BY <1>3, <2>1, GotoDoes, TypeOfStep DEF Forget, TypeOK, Steps
<1>4. CASE RestoreRestart(c)
  BY <1>0, <1>00, <1>4, GoOnDoes, TypeOfStep DEF RestoreRestart, TypeOK
<1>. QED  BY <1>1, <1>2, <1>3, <1>4 DEF RestoreStep

LEMMA OffStepType == ASSUME TypeOK, NEW c \in Callers, OffStep(c) PROVE TypeOK'
<1>0. uci.prev \in {"", "xray", HomeFunc}
  BY DEF TypeOK, Options
<1>1. CASE OffFunc(c)
  <2>1. uci' \in Options /\ disk' = disk
    BY <1>0, <1>1, SetDoes DEF OffFunc, OptionNames, Values, TypeOK
  <2>. QED  BY <1>1, <2>1, GotoDoes, TypeOfStep DEF OffFunc, TypeOK, Steps
<1>2. CASE OffPrev(c)
  <2>1. uci' \in Options /\ disk' = disk
    BY <1>2, SetDoes DEF OffPrev, OptionNames, Values
  <2>. QED  BY <1>2, <2>1, GotoDoes, TypeOfStep DEF OffPrev, TypeOK, Steps
<1>3. CASE OffBind(c)
  <2>1. uci' \in Options /\ disk' = disk
    BY <1>3, SetDoes DEF OffBind, OptionNames, Values
  <2>. QED  BY <1>3, <2>1, GotoDoes, TypeOfStep DEF OffBind, TypeOK, Steps
<1>4. CASE OffCommitSwitch(c)
  BY <1>4, CommitDoes, GotoDoes, TypeOfStep DEF OffCommitSwitch, TypeOK, Steps
<1>5. CASE OffCommitSingBox(c)
  BY <1>5, CommitDoes, GotoDoes, TypeOfStep DEF OffCommitSingBox, TypeOK, Steps
<1>6. CASE BindOff(c)
  <2>1. uci' \in Options /\ disk' \in Options
    <3>1. SetCommit("bind", FALSE, SingBox)
      BY <1>6 DEF BindOff
    <3>2. "bind" \in OptionNames /\ FALSE \in Values["bind"] /\ "bind" \in SingBox
      BY DEF OptionNames, Values, SingBox
    <3>. QED  BY <3>1, <3>2, SetCommitDoes
  <2>. QED  BY <1>6, <2>1, LeaveDoes, TypeOfStep DEF BindOff, TypeOK
<1>. QED  BY <1>1, <1>2, <1>3, <1>4, <1>5, <1>6 DEF OffStep

LEMMA CallType == ASSUME TypeOK, NEW c \in Callers, NEW o \in Ops, Call(c, o) PROVE TypeOK'
  BY CallDoes, TypeOfStep DEF TypeOK

LEMMA FailureType == ASSUME TypeOK, NEW c \in Callers, Failure(c) PROVE TypeOK'
  BY FailureDoes, TypeOfAny DEF TypeOK

LEMMA FlipType == ASSUME TypeOK, Flip PROVE TypeOK'
<1>1. System \in Callers
  BY DEF Callers
<1>2. job' \in [Callers -> Jobs]
  <2>1. CASE Owned
    <3>1. PICK o \in {"pressed", "released"}, s \in {"stop", "start"} :
              Become(System, [IdleJob EXCEPT !.op = o, !.pc = s])
      BY <2>1 DEF Flip
    <3>2. [IdleJob EXCEPT !.op = o, !.pc = s] \in Jobs
      BY DEF IdleJob, Jobs, Steps
    <3>. QED  BY <1>1, <3>1, <3>2, BecomeDoes
  <2>2. CASE ~Owned
    BY <2>2 DEF Flip, TypeOK
  <2>. QED  BY <2>1, <2>2
<1>. QED  BY <1>2 DEF Flip, TypeOK, historyVars

LEMMA EnableNativeType == ASSUME TypeOK, NEW r \in Rules, EnableNative(r) PROVE TypeOK'
<1>1. uci.rules \cup {r} \in Values["rules"] /\ "rules" \in OptionNames
  BY DEF TypeOK, Options, Values, OptionNames
<1>2. uci' \in Options /\ disk' \in Options
  BY <1>1, SetCommitDoes DEF EnableNative
<1>. QED  BY <1>2 DEF EnableNative, TypeOK

LEMMA EnvironmentType ==
    ASSUME TypeOK, VpnClientRestart \/ VpnClientRestartFails \/ PowerCut PROVE TypeOK'
<1>1. CASE VpnClientRestart
  <2>1. uci.rules \subseteq Rules
    BY DEF TypeOK, Options
  <2>. QED  BY <1>1, <2>1, TypeOfStep DEF VpnClientRestart, TypeOK, historyVars
<1>2. CASE PowerCut
  <2>1. [IdleJob EXCEPT !.pc = "start"] \in Jobs
    BY DEF IdleJob, Jobs, Steps
  <2>2. job' \in [Callers -> Jobs]
    BY <1>2, <2>1, IdleIsJob DEF PowerCut
  <2>3. disk.rules \subseteq Rules
    BY DEF TypeOK, Options
  <2>. QED  BY <1>2, <2>2, <2>3 DEF PowerCut, TypeOK
<1>3. CASE VpnClientRestartFails
  <2>1. up \subseteq Rules /\ uci.rules \subseteq Rules /\ failed \subseteq Faults
    BY DEF TypeOK, Options
  <2>2. up' \subseteq Rules /\ failed' \subseteq Faults
    BY <1>3, <2>1 DEF VpnClientRestartFails
  <2>. QED  BY <1>3, <2>2, TypeOfAny DEF VpnClientRestartFails, TypeOK
<1>. QED  BY <1>1, <1>2, <1>3

LEMMA AbortType == ASSUME TypeOK, NEW c \in Callers, Abort(c) PROVE TypeOK'
<1>1. job' \in [Callers -> Jobs]
  BY LeaveDoes DEF Abort
<1>. QED  BY <1>1, TypeOfStep DEF Abort, TypeOK

LEMMA NextType == TypeOK /\ [Next]_vars => TypeOK'
<1>. SUFFICES ASSUME TypeOK, [Next]_vars PROVE TypeOK'
  OBVIOUS
<1>1. ASSUME NEW c \in Callers, Step(c) PROVE TypeOK'
  BY <1>1, OnStepType, StopNativeStepType, InitScriptStepType, RestoreStepType, OffStepType DEF Step
<1>2. ASSUME NEW c \in Handlers, NEW o \in Ops, Call(c, o) PROVE TypeOK'
  BY <1>2, CallType DEF Callers
<1>3. ASSUME NEW c \in Handlers, Abort(c) PROVE TypeOK'
  BY <1>3, AbortType DEF Callers
<1>4. CASE UNCHANGED vars
  BY <1>4 DEF TypeOK, vars, historyVars
<1>5. ASSUME NEW c \in Handlers, Failure(c) PROVE TypeOK'
  BY <1>5, FailureType DEF Callers
<1>. QED  BY <1>1, <1>2, <1>3, <1>4, <1>5, EnableNativeType, FlipType, EnvironmentType DEF Next

\* The configuration, the switch, sing-box, the interfaces and every caller's
\* job stay within their types, whatever runs at the same time, dies half-way
\* or loses its power.
THEOREM TypeCorrect == Spec => []TypeOK
<1>1. Init => TypeOK
  BY InitType
<1>2. TypeOK /\ [Next]_vars => TypeOK'
  BY NextType
<1>. QED  BY <1>1, <1>2, PTL DEF Spec

-----------------------------------------------------------------------------
(* The snapshot that OFF needs, where only ON touches the button's options. *)

\* A step of c that leaves func and prev alone and is not about to write them.
LEMMA ClaimFrame ==
    ASSUME ClaimInv, NEW c \in Callers, Others(c), uci'.func = uci.func, uci'.prev = uci.prev,
           failed \subseteq failed',
           job'[c].op # "side_off", job'[c].pc \notin OffSteps,
           job'[c].pc \in {"onPrev", "onFunc"} => "read" \in failed'
    PROVE  ClaimInv'
<1>1. ASSUME NEW d \in Callers PROVE ClaimFits(d)'
  <2>1. CASE d = c
    BY <2>1 DEF ClaimFits, At
  <2>2. CASE d # c
    BY <2>2 DEF ClaimInv, ClaimFits, At, Others
  <2>. QED  BY <2>1, <2>2
<1>2. "read" \notin failed' => "read" \notin failed
  OBVIOUS
<1>. QED  BY <1>1, <1>2 DEF ClaimInv, ClaimRemembered

\* A step of c that may write them.
LEMMA ClaimStep ==
    ASSUME ClaimInv, NEW c \in Callers, Others(c), ClaimRemembered', failed' = failed,
           "read" \notin failed => uci'.prev \in {uci.prev, HomeFunc},
           job'[c].op # "side_off", job'[c].pc \notin OffSteps,
           job'[c].pc = "onPrev" /\ "read" \notin failed => job'[c].cur = HomeFunc,
           job'[c].pc = "onFunc" /\ "read" \notin failed => uci'.prev = HomeFunc
    PROVE  ClaimInv'
<1>1. ASSUME NEW d \in Callers PROVE ClaimFits(d)'
  <2>1. CASE d = c
    BY <2>1 DEF ClaimFits, At
  <2>2. CASE d # c
    BY <2>2 DEF ClaimInv, ClaimFits, At, Others
  <2>. QED  BY <2>1, <2>2
<1>. QED  BY <1>1 DEF ClaimInv

\* What a set of another option leaves alone.
LEMMA SetsAnother ==
    ASSUME TypeOK, NEW o \in {"bind", "memo", "rules"}, NEW v \in Values[o],
           Set(o, v) \/ \E package : SetCommit(o, v, package)
    PROVE  uci'.func = uci.func /\ uci'.prev = uci.prev
  BY SetDoes, SetCommitDoes DEF OptionNames

LEMMA OnStepClaim == ASSUME TypeOK, ClaimInv, NEW c \in Callers, OnStep(c) PROVE ClaimInv'
<1>0. job[c].op # "side_off" /\ failed' = failed
  BY DEF ClaimInv, ClaimFits, OnStep, OnRead, OnPrev, OnFunc, OnBind, OnCommitSwitch,
         OnCommitSingBox, OnProbe, historyVars
<1>1. CASE OnRead(c)
  <2>1. PICK s \in {"onPrev", "onFunc"} :
          /\ Become(c, [job[c] EXCEPT !.cur = uci.func, !.pc = s])
          /\ s = IF uci.prev = "" /\ uci.func # "xray" THEN "onPrev" ELSE "onFunc"
    BY <1>1 DEF OnRead, AfterRead
  <2>. PICK j : j = [job[c] EXCEPT !.cur = uci.func, !.pc = s]
    OBVIOUS
  <2>2. job[c] \in Jobs /\ uci.func \in {"xray", HomeFunc}
    BY DEF TypeOK, Options
  <2>3. j \in Jobs /\ j.op = job[c].op /\ j.pc = s /\ j.cur = uci.func
    BY <2>1, <2>2 DEF Jobs, Steps
  <2>4. job'[c] = j /\ Others(c)
    BY <2>1, <2>3, BecomeDoes
  <2>5. uci' = uci
    BY <1>1 DEF OnRead
  <2>6. s = "onPrev" => j.cur = HomeFunc
    BY <2>1, <2>2, <2>3
  <2>7. s = "onFunc" /\ "read" \notin failed => uci.prev = HomeFunc
    BY <2>1 DEF ClaimInv, ClaimRemembered
  <2>8. ClaimRemembered'
    BY <1>0, <2>5 DEF ClaimInv, ClaimRemembered
  <2>9. job'[c].op # "side_off" /\ job'[c].pc \notin OffSteps
    BY <1>0, <2>3, <2>4 DEF OffSteps
  <2>. QED  BY <1>0, <2>3, <2>4, <2>5, <2>6, <2>7, <2>8, <2>9, ClaimStep
<1>2. CASE OnPrev(c)
  <2>1. ("read" \notin failed => uci'.prev = HomeFunc) /\ uci'.func = uci.func
    <3>1. "read" \notin failed => job[c].cur = HomeFunc
      BY <1>2 DEF OnPrev, ClaimInv, ClaimFits
    <3>2. Set("prev", job[c].cur) /\ "prev" \in OptionNames /\ job[c].cur \in Values["prev"]
      BY <1>2, OptionValues DEF OnPrev, OptionNames
    <3>. QED  BY <3>1, <3>2, SetDoes DEF OptionNames
  <2>2. Others(c) /\ job'[c].pc = "onFunc" /\ job'[c].op = job[c].op
    BY <1>2, GotoDoes DEF OnPrev, Steps
  <2>3. ClaimRemembered'
    BY <1>0, <2>1 DEF ClaimInv, ClaimRemembered
  <2>. QED  BY <1>0, <2>1, <2>2, <2>3, ClaimStep DEF OffSteps
<1>3. CASE OnFunc(c)
  <2>1. uci'.prev = uci.prev /\ ("read" \notin failed => uci.prev = HomeFunc)
    <3>1. Set("func", "xray") /\ "func" \in OptionNames /\ "xray" \in Values["func"]
      BY <1>3, OptionValues DEF OnFunc, OptionNames
    <3>. QED  BY <1>3, <3>1, SetDoes DEF OptionNames, OnFunc, ClaimInv, ClaimFits
  <2>2. Others(c) /\ job'[c].pc = "onBind" /\ job'[c].op = job[c].op
    BY <1>3, GotoDoes DEF OnFunc, Steps
  <2>3. ClaimRemembered'
    BY <1>0, <2>1 DEF ClaimRemembered
  <2>. QED  BY <1>0, <2>1, <2>2, <2>3, ClaimStep DEF OffSteps
<1>4. CASE OnBind(c)
  <2>1. uci'.func = uci.func /\ uci'.prev = uci.prev
    BY <1>4, SetsAnother, OptionValues DEF OnBind
  <2>2. Others(c) /\ job'[c].pc = "onCommitSwitch" /\ job'[c].op = job[c].op
    BY <1>4, GotoDoes DEF OnBind, Steps
  <2>. QED  BY <1>0, <2>1, <2>2, ClaimFrame DEF OffSteps
<1>5. CASE OnCommitSwitch(c) \/ OnCommitSingBox(c) \/ OnProbe(c)
  <2>1. PICK s \in {"onCommitSingBox", "onProbe", "list", "bindOn"} : Goto(c, s)
    BY <1>5 DEF OnCommitSwitch, OnCommitSingBox, OnProbe
  <2>2. uci' = uci
    BY <1>5 DEF OnCommitSwitch, OnCommitSingBox, OnProbe
  <2>3. Others(c) /\ job'[c].pc = s /\ job'[c].op = job[c].op
    BY <2>1, GotoDoes DEF Steps
  <2>. QED  BY <1>0, <2>2, <2>3, ClaimFrame DEF OffSteps
<1>. QED  BY <1>1, <1>2, <1>3, <1>4, <1>5 DEF OnStep

LEMMA StopNativeStepClaim ==
    ASSUME TypeOK, ClaimInv, NEW c \in Callers, StopNativeStep(c) PROVE ClaimInv'
<1>0. job[c].op # "side_off" /\ failed' = failed
  BY DEF ClaimInv, ClaimFits, StopNativeStep, ListRules, Disable, DisableCommit, Remember,
         StopRestart, historyVars
<1>1. CASE ListRules(c)
  <2>1. /\ Others(c) /\ job'[c].op # "side_off"
        /\ job'[c].pc \in {"disable", "bindOn", "start", "idle"}
    BY <1>0, <1>1, ListRulesDoes DEF AfterStop
  <2>2. uci' = uci
    BY <1>1 DEF ListRules
  <2>. QED  BY <1>0, <2>1, <2>2, ClaimFrame DEF OffSteps
<1>2. CASE Disable(c) \/ DisableCommit(c) \/ Remember(c) \/ StopRestart(c)
  <2>1. PICK s \in {"disableCommit", "remember", "stopRestart", "bindOn", "start", "idle"} :
              Goto(c, s) \/ GoOn(c, s)
    BY <1>2 DEF Disable, DisableCommit, Remember, StopRestart, AfterStop
  <2>2. uci'.func = uci.func /\ uci'.prev = uci.prev
    BY <1>2, SetsAnother, OptionValues DEF Disable, DisableCommit, Remember, StopRestart
  <2>3. Others(c) /\ job'[c].pc = s /\ job'[c].op \in {job[c].op, "boot"}
    BY <2>1, GotoDoes, GoOnDoes DEF Steps
  <2>. QED  BY <1>0, <2>2, <2>3, ClaimFrame DEF OffSteps
<1>. QED  BY <1>1, <1>2 DEF StopNativeStep

LEMMA InitScriptStepClaim ==
    ASSUME TypeOK, ClaimInv, NEW c \in Callers, InitScriptStep(c) PROVE ClaimInv'
<1>0. job[c].op # "side_off" /\ failed' = failed
  BY DEF ClaimInv, ClaimFits, InitScriptStep, BindOn, StartRefused, StartAdmitted, StartMemo,
         Launch, Stop, historyVars
<1>1. uci'.func = uci.func /\ uci'.prev = uci.prev
  <2>1. CASE BindOn(c)
    BY <2>1, SetsAnother, OptionValues DEF BindOn
  <2>2. CASE StartAdmitted(c)
    BY <2>2, SetsAnother, OptionValues DEF StartAdmitted
  <2>3. CASE StartMemo(c)
    BY <2>3, SetsAnother, OptionValues DEF StartMemo
  <2>4. CASE StartRefused(c) \/ Launch(c) \/ Stop(c)
    BY <2>4 DEF StartRefused, Launch, Stop
  <2>. QED  BY <2>1, <2>2, <2>3, <2>4 DEF InitScriptStep
<1>2. CASE Leave(c)
  BY <1>0, <1>1, <1>2, LeaveDoes, ClaimFrame DEF IdleJob, OffSteps
<1>3. ASSUME NEW s \in {"start", "stop", "launch", "enable", "idle"}, Goto(c, s) \/ GoOn(c, s)
      PROVE  ClaimInv'
  <2>1. Others(c) /\ job'[c].pc = s /\ job'[c].op \in {job[c].op, "boot"}
    BY <1>3, GotoDoes, GoOnDoes DEF Steps
  <2>. QED  BY <1>0, <1>1, <2>1, ClaimFrame DEF OffSteps
<1>4. ASSUME Become(c, [job[c] EXCEPT !.rules = uci.rules, !.pc = "startMemo"]) PROVE ClaimInv'
  <2>. PICK j : j = [job[c] EXCEPT !.rules = uci.rules, !.pc = "startMemo"]
    OBVIOUS
  <2>1. job[c] \in Jobs /\ uci.rules \subseteq Rules
    BY DEF TypeOK, Options
  <2>2. j \in Jobs /\ j.op = job[c].op /\ j.pc = "startMemo"
    BY <2>1 DEF Jobs, Steps
  <2>3. job'[c] = j /\ Others(c)
    BY <1>4, <2>2, BecomeDoes
  <2>. QED  BY <1>0, <1>1, <2>2, <2>3, ClaimFrame DEF OffSteps
<1>5. \/ Leave(c)
      \/ \E s \in {"start", "stop", "launch", "enable", "idle"} : Goto(c, s) \/ GoOn(c, s)
      \/ Become(c, [job[c] EXCEPT !.rules = uci.rules, !.pc = "startMemo"])
  <2>1. CASE BindOn(c)
    BY <2>1 DEF BindOn
  <2>2. CASE StartAdmitted(c)
    BY <2>2 DEF StartAdmitted
  <2>3. CASE StartMemo(c)
    BY <2>3 DEF StartMemo
  <2>4. CASE StartRefused(c) \/ Launch(c) \/ Stop(c)
    BY <2>4 DEF StartRefused, Launch, Stop
  <2>. QED  BY <2>1, <2>2, <2>3, <2>4 DEF InitScriptStep
<1>. QED  BY <1>2, <1>3, <1>4, <1>5

\* Where OFF is not offered, the toggle's OFF and a bare restore remain.
LEMMA RestoreStepClaim ==
    ASSUME TypeOK, ClaimInv, NEW c \in Callers, RestoreStep(c) PROVE ClaimInv'
<1>0. job[c].op # "side_off" /\ ~At(c, "memoRead") /\ failed' = failed
  BY DEF ClaimInv, ClaimFits, OffSteps, At, RestoreStep, MemoRead, Enable, Forget, RestoreRestart, historyVars
<1>1. uci'.func = uci.func /\ uci'.prev = uci.prev
  BY <1>0, SetsAnother, OptionValues DEF RestoreStep, MemoRead, Enable, Forget, RestoreRestart
<1>2. PICK s \in {"idle", "forget", "restoreRestart"} : Goto(c, s) \/ GoOn(c, s)
  BY <1>0 DEF RestoreStep, MemoRead, Enable, Forget, RestoreRestart, AfterRestore
<1>3. Others(c) /\ job'[c].pc = s /\ job'[c].op \in {job[c].op, "boot"}
  BY <1>2, GotoDoes, GoOnDoes DEF Steps
<1>. QED  BY <1>0, <1>1, <1>3, ClaimFrame DEF OffSteps

\* Of the steps of OFF only bind_switch_off is left.
LEMMA BindOffClaim ==
    ASSUME TypeOK, ClaimInv, NEW c \in Callers, OffStep(c) PROVE ClaimInv'
<1>1. BindOff(c) /\ failed' = failed
  BY DEF OffStep, OffFunc, OffPrev, OffBind, OffCommitSwitch, OffCommitSingBox, BindOff,
         ClaimInv, ClaimFits, OffSteps, At, historyVars
<1>2. uci'.func = uci.func /\ uci'.prev = uci.prev
  BY <1>1, SetsAnother, OptionValues DEF BindOff
<1>3. Others(c) /\ job'[c] = IdleJob
  BY <1>1, LeaveDoes DEF BindOff
<1>. QED  BY <1>1, <1>2, <1>3, ClaimFrame DEF OffSteps, IdleJob

\* After a failed read nothing is claimed of func and prev any more; the other
\* failures leave them alone.
LEMMA FailureClaim ==
    ASSUME TypeOK, ClaimInv, NEW c \in Callers, Failure(c) PROVE ClaimInv'
<1>0. job[c].op # "side_off" /\ job[c].pc \notin OffSteps
  BY DEF ClaimInv, ClaimFits
<1>1. PICK kind \in Faults :
          /\ CASE kind = "read"    -> ReadFails(c)
               [] kind = "write"   -> WriteFails(c)
               [] kind = "restart" -> RestartFails(c)
          /\ failed' = failed \cup {kind}
  BY DEF Failure
<1>2. kind \in {"read", "write", "restart"}
  BY SwapAssumption
<1>3. Others(c) /\ uci'.func = uci.func /\ uci'.prev = uci.prev /\ job'[c].op # "side_off"
  BY <1>0, FailureDoes
<1>4. job'[c].pc \notin OffSteps /\ (job'[c].pc \in {"onPrev", "onFunc"} => kind = "read")
  <2>1. CASE kind = "read"
    BY <1>0, <1>1, <2>1, ReadFailsDoes DEF OffSteps
  <2>2. CASE kind = "write"
    BY <1>0, <1>1, <2>2, StopWriteFailsDoes, RestoreWriteFailsDoes DEF WriteFails, OffSteps
  <2>3. CASE kind = "restart"
    BY <1>0, <1>1, <2>3, RestartFailsDoes DEF OffSteps
  <2>. QED  BY <1>2, <2>1, <2>2, <2>3
<1>. QED  BY <1>1, <1>3, <1>4, ClaimFrame

LEMMA NextClaim ==
    ASSUME "side_off" \notin Ops, PowerCuts = FALSE, TypeOK, ClaimInv, [Next]_vars
    PROVE  ClaimInv'
<1>1. ASSUME NEW c \in Callers, Step(c) PROVE ClaimInv'
  BY <1>1, OnStepClaim, StopNativeStepClaim, InitScriptStepClaim, RestoreStepClaim, BindOffClaim DEF Step
<1>2. ASSUME NEW c \in Handlers, NEW o \in Ops, Call(c, o) PROVE ClaimInv'
  <2>1. /\ c \in Callers /\ Others(c) /\ UNCHANGED <<uci, failed>>
        /\ job'[c].op = o /\ job'[c].pc = FirstStep(o)
    BY <1>2, CallDoes DEF Callers, historyVars
  <2>2. o # "side_off" /\ o \in AllOps
    BY SwapAssumption
  <2>3. FirstStep(o) \in FirstSteps \ {"memoRead"}
    BY <2>2 DEF FirstStep, FirstSteps, AllOps
  <2>. QED  BY <2>1, <2>2, <2>3, ClaimFrame DEF OffSteps, FirstSteps
<1>3. ASSUME NEW c \in Handlers, Abort(c) PROVE ClaimInv'
  <2>1. c \in Callers /\ job'[c] = IdleJob /\ Others(c) /\ UNCHANGED <<uci, failed>>
    BY <1>3, LeaveDoes DEF Abort, Callers, historyVars
  <2>. QED  BY <2>1, ClaimFrame DEF OffSteps, IdleJob
<1>4. ASSUME NEW r \in Rules, EnableNative(r) PROVE ClaimInv'
  <2>1. System \in Callers
    BY DEF Callers
  <2>2. uci'.func = uci.func /\ uci'.prev = uci.prev
    BY <1>4, <2>1, SetsAnother, OptionValues DEF EnableNative
  <2>3. UNCHANGED <<job, failed>>
    BY <1>4 DEF EnableNative
  <2>. QED  BY <2>2, <2>3 DEF ClaimInv, ClaimFits, ClaimRemembered, At
<1>5. CASE Flip
  <2>1. UNCHANGED <<uci, failed>> /\ System \in Callers
    BY <1>5 DEF Flip, Callers, historyVars
  <2>2. CASE Owned
    <3>1. PICK o \in {"pressed", "released"}, s \in {"stop", "start"} :
              Become(System, [IdleJob EXCEPT !.op = o, !.pc = s])
      BY <1>5, <2>2 DEF Flip
    <3>. PICK j : j = [IdleJob EXCEPT !.op = o, !.pc = s]
      OBVIOUS
    <3>2. j \in Jobs /\ j.op = o /\ j.pc = s
      BY DEF IdleJob, Jobs, Steps
    <3>3. job'[System] = j /\ Others(System)
      BY <2>1, <3>1, <3>2, BecomeDoes
    <3>. QED  BY <2>1, <3>2, <3>3, ClaimFrame DEF OffSteps
  <2>3. CASE ~Owned
    <3>1. job' = job
      BY <1>5, <2>3 DEF Flip
    <3>. QED  BY <2>1, <3>1 DEF ClaimInv, ClaimFits, ClaimRemembered, At
  <2>. QED  BY <2>2, <2>3
<1>6. CASE VpnClientRestart
  BY <1>6 DEF VpnClientRestart, historyVars, ClaimInv, ClaimFits, ClaimRemembered, At
<1>7. CASE UNCHANGED vars
  BY <1>7 DEF vars, historyVars, ClaimInv, ClaimFits, ClaimRemembered, At
<1>8. ~PowerCut
  BY DEF PowerCut
<1>9. ASSUME NEW c \in Handlers, Failure(c) PROVE ClaimInv'
  BY <1>9, FailureClaim DEF Callers
<1>10. CASE VpnClientRestartFails
  <2>1. UNCHANGED <<uci, job>> /\ failed' = failed \cup {"restart"}
    BY <1>10 DEF VpnClientRestartFails
  <2>. QED  BY <2>1 DEF ClaimInv, ClaimFits, ClaimRemembered, At
<1>. QED  BY <1>1, <1>2, <1>3, <1>4, <1>5, <1>6, <1>7, <1>8, <1>9, <1>10 DEF Next

\* Claiming the switch twice, from any number of clients, with requests dying
\* anywhere and whatever runs beside them (bare bind_switch calls, starts, native
\* stops and restores), never loses the function the switch had
\* (handleSideSwitch's "idempotent" snapshot), until a `uci get` fails.
\* Releasing the switch is another operation and does clear the snapshot; a
\* power cut between the two commits leaves the claim without it.
THEOREM ClaimIsRemembered ==
    ASSUME "side_off" \notin Ops, PowerCuts = FALSE
    PROVE  Spec => []ClaimRemembered
<1>1. Init => TypeOK /\ ClaimInv
  <2>. SUFFICES ASSUME Init PROVE ClaimInv
    BY InitType
  <2>1. uci.func = HomeFunc /\ uci.prev = ""
    <3>1. PICK R \in SUBSET Rules :
                uci = [func |-> HomeFunc, prev |-> "", bind |-> FALSE, memo |-> {}, rules |-> R]
      BY DEF Init
    <3>. QED  BY <3>1
  <2>2. \A c \in Callers : job[c].op = "boot" /\ job[c].pc = "idle"
    BY DEF Init, IdleJob
  <2>. QED  BY <2>1, <2>2, SwapAssumption DEF ClaimInv, ClaimFits, ClaimRemembered, At, OffSteps
<1>2. TypeOK /\ ClaimInv /\ [Next]_vars => (TypeOK /\ ClaimInv)'
  BY NextType, NextClaim
<1>3. TypeOK /\ ClaimInv => ClaimRemembered
  BY DEF ClaimInv
<1>. QED  BY <1>1, <1>2, <1>3, PTL DEF Spec

-----------------------------------------------------------------------------
(* Nothing stays staged.                                                   *)

WritingSteps == {"onFunc", "onBind", "onCommitSwitch", "onCommitSingBox", "disableCommit",
                 "offPrev", "offBind", "offCommitSwitch", "offCommitSingBox"}

LEMMA BetweenWrites == \A o \in OptionNames : Between(o) \subseteq WritingSteps
  BY DEF OptionNames, Between, WritingSteps

\* An option is committed, or c is still writing it, or c had nothing to do
\* with it.
LEMMA StagedStep ==
    ASSUME StagedInv, NEW c \in Callers, Others(c), failed' = failed,
           \A o \in OptionNames :
              \/ disk'[o] = uci'[o]
              \/ job'[c].pc \in Between(o)
              \/ disk'[o] = disk[o] /\ uci'[o] = uci[o] /\ job[c].pc \notin Between(o)
    PROVE  StagedInv'
<1>. SUFFICES ASSUME "write" \notin failed, NEW o \in OptionNames, disk'[o] # uci'[o]
              PROVE  \E d \in Callers : job'[d].pc \in Between(o)
  BY DEF StagedInv, StagedAt
<1>1. CASE job'[c].pc \in Between(o)
  BY <1>1
<1>2. CASE job'[c].pc \notin Between(o)
  <2>1. disk[o] # uci[o] /\ job[c].pc \notin Between(o)
    BY <1>2
  <2>2. PICK d \in Callers : job[d].pc \in Between(o)
    BY <2>1 DEF StagedInv, StagedAt
  <2>3. d # c
    BY <2>1, <2>2
  <2>. QED  BY <2>2, <2>3 DEF Others
<1>. QED  BY <1>1, <1>2

\* A step of a caller with nothing staged that stages nothing.
LEMMA StagedFrame ==
    ASSUME TypeOK, StagedInv, NEW c \in Callers, Others(c), failed' = failed,
           job[c].pc \notin WritingSteps,
           \/ UNCHANGED <<uci, disk>>
           \/ \E o \in OptionNames : \E v \in Values[o] : \E package :
                 o \in package /\ SetCommit(o, v, package)
    PROVE  StagedInv'
<1>1. \A p \in OptionNames : \/ disk'[p] = uci'[p]
                             \/ disk'[p] = disk[p] /\ uci'[p] = uci[p]
  <2>1. CASE UNCHANGED <<uci, disk>>
    BY <2>1
  <2>2. ASSUME NEW o \in OptionNames, NEW v \in Values[o], NEW package,
               o \in package, SetCommit(o, v, package)
        PROVE  \A p \in OptionNames : \/ disk'[p] = uci'[p]
                                      \/ disk'[p] = disk[p] /\ uci'[p] = uci[p]
    BY <2>2, SetCommitDoes
  <2>. QED  BY <2>1, <2>2
<1>2. \A p \in OptionNames : job[c].pc \notin Between(p)
  BY BetweenWrites
<1>. QED  BY <1>1, <1>2, StagedStep

LEMMA OnStepStaged == ASSUME TypeOK, StagedInv, NEW c \in Callers, OnStep(c) PROVE StagedInv'
<1>0. failed' = failed
  BY DEF OnStep, OnRead, OnPrev, OnFunc, OnBind, OnCommitSwitch, OnCommitSingBox, OnProbe, historyVars
<1>1. CASE OnRead(c)
  <2>1. PICK s \in {"onPrev", "onFunc"} : Become(c, [job[c] EXCEPT !.cur = uci.func, !.pc = s])
    BY <1>1 DEF OnRead, AfterRead
  <2>2. job[c] \in Jobs /\ uci.func \in {"xray", HomeFunc}
    BY DEF TypeOK, Options
  <2>3. [job[c] EXCEPT !.cur = uci.func, !.pc = s] \in Jobs
    BY <2>1, <2>2 DEF Jobs, Steps
  <2>4. Others(c)
    BY <2>1, <2>3, BecomeDoes
  <2>. QED  BY <1>0, <1>1, <2>4, StagedFrame DEF OnRead, At, WritingSteps
<1>2. CASE OnPrev(c)
  <2>1. Set("prev", job[c].cur) /\ "prev" \in OptionNames /\ job[c].cur \in Values["prev"]
    BY <1>2, OptionValues DEF OnPrev, OptionNames
  <2>2. disk' = disk /\ \A p \in OptionNames \ {"prev"} : uci'[p] = uci[p]
    BY <2>1, SetDoes
  <2>3. Others(c) /\ job'[c].pc = "onFunc"
    BY <1>2, GotoDoes DEF OnPrev, Steps
  <2>4. job'[c].pc \in Between("prev") /\ \A p \in OptionNames : job[c].pc \notin Between(p)
    BY <1>2, <2>3, BetweenWrites DEF OnPrev, At, WritingSteps, Between
  <2>. QED  BY <1>0, <2>2, <2>3, <2>4, StagedStep
<1>3. CASE OnFunc(c)
  <2>1. Set("func", "xray") /\ "func" \in OptionNames /\ "xray" \in Values["func"]
    BY <1>3, OptionValues DEF OnFunc, OptionNames
  <2>2. disk' = disk /\ \A p \in OptionNames \ {"func"} : uci'[p] = uci[p]
    BY <2>1, SetDoes
  <2>3. Others(c) /\ job'[c].pc = "onBind"
    BY <1>3, GotoDoes DEF OnFunc, Steps
  <2>4. \A p \in OptionNames : job'[c].pc \in Between(p) \/ job[c].pc \notin Between(p)
    BY <1>3, <2>3 DEF OnFunc, At, Between, OptionNames
  <2>5. job'[c].pc \in Between("func")
    BY <2>3 DEF Between
  <2>. QED  BY <1>0, <2>2, <2>3, <2>4, <2>5, StagedStep
<1>4. CASE OnBind(c)
  <2>1. Set("bind", TRUE) /\ "bind" \in OptionNames /\ TRUE \in Values["bind"]
    BY <1>4, OptionValues DEF OnBind, OptionNames
  <2>2. disk' = disk /\ \A p \in OptionNames \ {"bind"} : uci'[p] = uci[p]
    BY <2>1, SetDoes
  <2>3. Others(c) /\ job'[c].pc = "onCommitSwitch"
    BY <1>4, GotoDoes DEF OnBind, Steps
  <2>4. \A p \in OptionNames : job'[c].pc \in Between(p) \/ job[c].pc \notin Between(p)
    BY <1>4, <2>3 DEF OnBind, At, Between, OptionNames
  <2>5. job'[c].pc \in Between("bind")
    BY <2>3 DEF Between
  <2>. QED  BY <1>0, <2>2, <2>3, <2>4, <2>5, StagedStep
<1>5. CASE OnCommitSwitch(c)
  <2>1. uci' = uci /\ \A p \in OptionNames : disk'[p] = IF p \in SwitchButton THEN uci[p] ELSE disk[p]
    BY <1>5, CommitDoes DEF OnCommitSwitch
  <2>2. Others(c) /\ job'[c].pc = "onCommitSingBox"
    BY <1>5, GotoDoes DEF OnCommitSwitch, Steps
  <2>3. \A p \in OptionNames \ SwitchButton : job'[c].pc \in Between(p) \/ job[c].pc \notin Between(p)
    BY <1>5, <2>2 DEF OnCommitSwitch, At, Between, OptionNames, SwitchButton
  <2>. QED  BY <1>0, <2>1, <2>2, <2>3, StagedStep
<1>6. CASE OnCommitSingBox(c)
  <2>1. uci' = uci /\ \A p \in OptionNames : disk'[p] = IF p \in SingBox THEN uci[p] ELSE disk[p]
    BY <1>6, CommitDoes DEF OnCommitSingBox
  <2>2. Others(c)
    BY <1>6, GotoDoes DEF OnCommitSingBox, Steps
  <2>3. \A p \in OptionNames \ SingBox : job[c].pc \notin Between(p)
    BY <1>6 DEF OnCommitSingBox, At, Between, OptionNames, SingBox
  <2>. QED  BY <1>0, <2>1, <2>2, <2>3, StagedStep
<1>7. CASE OnProbe(c)
  <2>1. Others(c)
    BY <1>7, GotoDoes DEF OnProbe, Steps
  <2>. QED  BY <1>0, <1>7, <2>1, StagedFrame DEF OnProbe, At, WritingSteps
<1>. QED  BY <1>1, <1>2, <1>3, <1>4, <1>5, <1>6, <1>7 DEF OnStep

LEMMA OffStepStaged == ASSUME TypeOK, StagedInv, NEW c \in Callers, OffStep(c) PROVE StagedInv'
<1>0. failed' = failed
  BY DEF OffStep, OffFunc, OffPrev, OffBind, OffCommitSwitch, OffCommitSingBox, BindOff, historyVars
<1>1. CASE OffFunc(c)
  <2>1. disk' = disk /\ \A p \in OptionNames \ {"func"} : uci'[p] = uci[p]
    <3>1. CASE uci.prev # ""
      <4>1. Set("func", uci.prev) /\ "func" \in OptionNames /\ uci.prev \in Values["func"]
        BY <1>1, <3>1, OptionValues DEF OffFunc, OptionNames
      <4>. QED  BY <4>1, SetDoes
    <3>2. CASE uci.prev = ""
      BY <1>1, <3>2 DEF OffFunc
    <3>. QED  BY <3>1, <3>2
  <2>2. Others(c) /\ job'[c].pc = "offPrev"
    BY <1>1, GotoDoes DEF OffFunc, Steps
  <2>3. job'[c].pc \in Between("func") /\ \A p \in OptionNames : job[c].pc \notin Between(p)
    BY <1>1, <2>2, BetweenWrites DEF OffFunc, At, WritingSteps, Between
  <2>. QED  BY <1>0, <2>1, <2>2, <2>3, StagedStep
<1>2. CASE OffPrev(c)
  <2>1. Set("prev", "") /\ "prev" \in OptionNames /\ "" \in Values["prev"]
    BY <1>2, OptionValues DEF OffPrev, OptionNames
  <2>2. disk' = disk /\ \A p \in OptionNames \ {"prev"} : uci'[p] = uci[p]
    BY <2>1, SetDoes
  <2>3. Others(c) /\ job'[c].pc = "offBind"
    BY <1>2, GotoDoes DEF OffPrev, Steps
  <2>4. \A p \in OptionNames : job'[c].pc \in Between(p) \/ job[c].pc \notin Between(p)
    BY <1>2, <2>3 DEF OffPrev, At, Between, OptionNames
  <2>5. job'[c].pc \in Between("prev")
    BY <2>3 DEF Between
  <2>. QED  BY <1>0, <2>2, <2>3, <2>4, <2>5, StagedStep
<1>3. CASE OffBind(c)
  <2>1. Set("bind", FALSE) /\ "bind" \in OptionNames /\ FALSE \in Values["bind"]
    BY <1>3, OptionValues DEF OffBind, OptionNames
  <2>2. disk' = disk /\ \A p \in OptionNames \ {"bind"} : uci'[p] = uci[p]
    BY <2>1, SetDoes
  <2>3. Others(c) /\ job'[c].pc = "offCommitSwitch"
    BY <1>3, GotoDoes DEF OffBind, Steps
  <2>4. \A p \in OptionNames : job'[c].pc \in Between(p) \/ job[c].pc \notin Between(p)
    BY <1>3, <2>3 DEF OffBind, At, Between, OptionNames
  <2>5. job'[c].pc \in Between("bind")
    BY <2>3 DEF Between
  <2>. QED  BY <1>0, <2>2, <2>3, <2>4, <2>5, StagedStep
<1>4. CASE OffCommitSwitch(c)
  <2>1. uci' = uci /\ \A p \in OptionNames : disk'[p] = IF p \in SwitchButton THEN uci[p] ELSE disk[p]
    BY <1>4, CommitDoes DEF OffCommitSwitch
  <2>2. Others(c) /\ job'[c].pc = "offCommitSingBox"
    BY <1>4, GotoDoes DEF OffCommitSwitch, Steps
  <2>3. \A p \in OptionNames \ SwitchButton : job'[c].pc \in Between(p) \/ job[c].pc \notin Between(p)
    BY <1>4, <2>2 DEF OffCommitSwitch, At, Between, OptionNames, SwitchButton
  <2>. QED  BY <1>0, <2>1, <2>2, <2>3, StagedStep
<1>5. CASE OffCommitSingBox(c)
  <2>1. uci' = uci /\ \A p \in OptionNames : disk'[p] = IF p \in SingBox THEN uci[p] ELSE disk[p]
    BY <1>5, CommitDoes DEF OffCommitSingBox
  <2>2. Others(c)
    BY <1>5, GotoDoes DEF OffCommitSingBox, Steps
  <2>3. \A p \in OptionNames \ SingBox : job[c].pc \notin Between(p)
    BY <1>5 DEF OffCommitSingBox, At, Between, OptionNames, SingBox
  <2>. QED  BY <1>0, <2>1, <2>2, <2>3, StagedStep
<1>6. CASE BindOff(c)
  <2>1. SetCommit("bind", FALSE, SingBox) /\ "bind" \in OptionNames /\ FALSE \in Values["bind"]
    BY <1>6, OptionValues DEF BindOff, OptionNames
  <2>2. Others(c) /\ job[c].pc \notin WritingSteps
    BY <1>6, LeaveDoes DEF BindOff, At, WritingSteps
  <2>3. "bind" \in SingBox
    BY DEF SingBox
  <2>. QED  BY <1>0, <2>1, <2>2, <2>3, StagedFrame
<1>. QED  BY <1>1, <1>2, <1>3, <1>4, <1>5, <1>6 DEF OffStep

LEMMA StopNativeStepStaged ==
    ASSUME TypeOK, StagedInv, NEW c \in Callers, StopNativeStep(c) PROVE StagedInv'
<1>0. failed' = failed
  BY DEF StopNativeStep, ListRules, Disable, DisableCommit, Remember, StopRestart, historyVars
<1>1. CASE ListRules(c)
  <2>1. Others(c)
    BY <1>1, ListRulesDoes
  <2>. QED  BY <1>0, <1>1, <2>1, StagedFrame DEF ListRules, At, WritingSteps
<1>2. CASE Disable(c)
  <2>1. /\ Set("rules", uci.rules \ job[c].rules) /\ "rules" \in OptionNames
        /\ uci.rules \ job[c].rules \in Values["rules"]
    BY <1>2, OptionValues DEF Disable, OptionNames
  <2>2. disk' = disk /\ \A p \in OptionNames \ {"rules"} : uci'[p] = uci[p]
    BY <2>1, SetDoes
  <2>3. Others(c) /\ job'[c].pc = "disableCommit"
    BY <1>2, GotoDoes DEF Disable, Steps
  <2>4. job'[c].pc \in Between("rules") /\ \A p \in OptionNames : job[c].pc \notin Between(p)
    BY <1>2, <2>3, BetweenWrites DEF Disable, At, WritingSteps, Between
  <2>. QED  BY <1>0, <2>2, <2>3, <2>4, StagedStep
<1>3. CASE DisableCommit(c)
  <2>1. uci' = uci /\ \A p \in OptionNames : disk'[p] = IF p \in RoutePolicy THEN uci[p] ELSE disk[p]
    BY <1>3, CommitDoes DEF DisableCommit
  <2>2. Others(c)
    <3>1. PICK t \in {"stopRestart", "remember"} : Goto(c, t)
      BY <1>3 DEF DisableCommit
    <3>. QED  BY <3>1, GotoDoes DEF Steps
  <2>3. \A p \in OptionNames \ RoutePolicy : job[c].pc \notin Between(p)
    BY <1>3 DEF DisableCommit, At, Between, OptionNames, RoutePolicy
  <2>. QED  BY <1>0, <2>1, <2>2, <2>3, StagedStep
<1>4. CASE Remember(c)
  <2>1. SetCommit("memo", job[c].rules, SingBox) /\ "memo" \in OptionNames /\ job[c].rules \in Values["memo"]
    BY <1>4, OptionValues DEF Remember, OptionNames
  <2>2. Others(c) /\ job[c].pc \notin WritingSteps
    BY <1>4, GotoDoes DEF Remember, At, WritingSteps, Steps
  <2>3. "memo" \in SingBox
    BY DEF SingBox
  <2>. QED  BY <1>0, <2>1, <2>2, <2>3, StagedFrame
<1>5. CASE StopRestart(c)
  <2>1. Others(c)
    BY <1>5, GoOnDoes DEF StopRestart, AfterStop, Steps
  <2>. QED  BY <1>0, <1>5, <2>1, StagedFrame DEF StopRestart, At, WritingSteps
<1>. QED  BY <1>1, <1>2, <1>3, <1>4, <1>5 DEF StopNativeStep

LEMMA InitScriptStepStaged ==
    ASSUME TypeOK, StagedInv, NEW c \in Callers, InitScriptStep(c) PROVE StagedInv'
<1>0. failed' = failed
  BY DEF InitScriptStep, BindOn, StartRefused, StartAdmitted, StartMemo, Launch, Stop, historyVars
<1>1. job[c].pc \notin WritingSteps
  BY DEF InitScriptStep, BindOn, StartRefused, StartAdmitted, StartMemo, Launch, Stop, At, WritingSteps
<1>2. \/ UNCHANGED <<uci, disk>>
      \/ \E o \in OptionNames : \E v \in Values[o] : \E package :
            o \in package /\ SetCommit(o, v, package)
  <2>1. CASE BindOn(c)
    <3>1. /\ SetCommit("bind", TRUE, SingBox) /\ "bind" \in OptionNames /\ TRUE \in Values["bind"]
          /\ "bind" \in SingBox
      BY <2>1, OptionValues DEF BindOn, OptionNames, SingBox
    <3>. QED  BY <3>1
  <2>2. CASE StartAdmitted(c) /\ Bound /\ uci.rules # {}
    <3>1. /\ SetCommit("rules", {}, RoutePolicy) /\ "rules" \in OptionNames /\ {} \in Values["rules"]
          /\ "rules" \in RoutePolicy
      BY <2>2, OptionValues DEF StartAdmitted, OptionNames, RoutePolicy
    <3>. QED  BY <3>1
  <2>3. CASE StartAdmitted(c) /\ ~(Bound /\ uci.rules # {})
    BY <2>3 DEF StartAdmitted
  <2>4. CASE StartMemo(c)
    <3>1. /\ SetCommit("memo", job[c].rules, SingBox) /\ "memo" \in OptionNames
          /\ job[c].rules \in Values["memo"] /\ "memo" \in SingBox
      BY <2>4, OptionValues DEF StartMemo, OptionNames, SingBox
    <3>. QED  BY <3>1
  <2>5. CASE StartRefused(c) \/ Launch(c) \/ Stop(c)
    BY <2>5 DEF StartRefused, Launch, Stop
  <2>. QED  BY <2>1, <2>2, <2>3, <2>4, <2>5 DEF InitScriptStep
<1>3. Others(c)
  <2>1. CASE StartAdmitted(c) /\ Bound /\ uci.rules # {}
    <3>1. [job[c] EXCEPT !.rules = uci.rules, !.pc = "startMemo"] \in Jobs
      BY DEF TypeOK, Options, Jobs, Steps
    <3>. QED  BY <2>1, <3>1, BecomeDoes DEF StartAdmitted
  <2>2. CASE StartAdmitted(c) /\ ~(Bound /\ uci.rules # {})
    BY <2>2, GotoDoes DEF StartAdmitted, Steps
  <2>3. CASE BindOn(c) \/ StartRefused(c) \/ StartMemo(c) \/ Launch(c) \/ Stop(c)
    BY <2>3, GotoDoes, LeaveDoes, GoOnDoes DEF BindOn, StartRefused, StartMemo, Launch, Stop, Steps
  <2>. QED  BY <2>1, <2>2, <2>3 DEF InitScriptStep
<1>. QED  BY <1>0, <1>1, <1>2, <1>3, StagedFrame

LEMMA RestoreStepStaged ==
    ASSUME TypeOK, StagedInv, NEW c \in Callers, RestoreStep(c) PROVE StagedInv'
<1>0. failed' = failed
  BY DEF RestoreStep, MemoRead, Enable, Forget, RestoreRestart, historyVars
<1>1. job[c].pc \notin WritingSteps
  BY DEF RestoreStep, MemoRead, Enable, Forget, RestoreRestart, At, WritingSteps
<1>2. \/ UNCHANGED <<uci, disk>>
      \/ \E o \in OptionNames : \E v \in Values[o] : \E package :
            o \in package /\ SetCommit(o, v, package)
  <2>1. CASE Enable(c) /\ uci.memo # {}
    <3>1. /\ SetCommit("rules", uci.rules \cup uci.memo, RoutePolicy) /\ "rules" \in OptionNames
          /\ uci.rules \cup uci.memo \in Values["rules"] /\ "rules" \in RoutePolicy
      BY <2>1, OptionValues DEF Enable, OptionNames, RoutePolicy
    <3>. QED  BY <3>1
  <2>2. CASE Enable(c) /\ uci.memo = {}
    BY <2>2 DEF Enable
  <2>3. CASE Forget(c)
    <3>1. /\ SetCommit("memo", {}, SingBox) /\ "memo" \in OptionNames /\ {} \in Values["memo"]
          /\ "memo" \in SingBox
      BY <2>3, OptionValues DEF Forget, OptionNames, SingBox
    <3>. QED  BY <3>1
  <2>4. CASE MemoRead(c) \/ RestoreRestart(c)
    BY <2>4 DEF MemoRead, RestoreRestart
  <2>. QED  BY <2>1, <2>2, <2>3, <2>4 DEF RestoreStep
<1>3. Others(c)
  BY GotoDoes, GoOnDoes DEF RestoreStep, MemoRead, Enable, Forget, RestoreRestart, AfterRestore, Steps
<1>. QED  BY <1>0, <1>1, <1>2, <1>3, StagedFrame

\* Only a failed write leaves something staged.
LEMMA FailureStaged ==
    ASSUME TypeOK, StagedInv, NEW c \in Callers, Failure(c) PROVE StagedInv'
<1>. SUFFICES ASSUME "write" \notin failed' PROVE \A o \in OptionNames : StagedAt(o)'
  BY DEF StagedInv
<1>1. PICK kind \in Faults :
          /\ CASE kind = "read"    -> ReadFails(c)
               [] kind = "write"   -> WriteFails(c)
               [] kind = "restart" -> RestartFails(c)
          /\ failed' = failed \cup {kind}
  BY DEF Failure
<1>2. kind \in {"read", "restart"} /\ "write" \notin failed
  BY <1>1, SwapAssumption
<1>3. UNCHANGED <<uci, disk>> /\ Others(c)
  BY FailureDoes
<1>4. job[c].pc \notin WritingSteps
  BY <1>1, <1>2, ReadFailsDoes, RestartFailsDoes DEF WritingSteps
<1>5. \A o \in OptionNames : StagedAt(o) /\ job[c].pc \notin Between(o)
  BY <1>2, <1>4, BetweenWrites DEF StagedInv
<1>. QED  BY <1>3, <1>5 DEF StagedAt, Others

LEMMA NextStaged ==
    ASSUME Aborts = FALSE, TypeOK, StagedInv, [Next]_vars PROVE StagedInv'
<1>1. ASSUME NEW c \in Callers, Step(c) PROVE StagedInv'
  BY <1>1, OnStepStaged, StopNativeStepStaged, InitScriptStepStaged, RestoreStepStaged, OffStepStaged
     DEF Step
<1>2. ASSUME NEW c \in Handlers, NEW o \in Ops, Call(c, o) PROVE StagedInv'
  <2>1. c \in Callers /\ Others(c) /\ At(c, "idle") /\ UNCHANGED <<uci, disk, failed>>
    BY <1>2, CallDoes DEF Callers, historyVars
  <2>. QED  BY <2>1, StagedFrame DEF At, WritingSteps
<1>3. ASSUME NEW r \in Rules, EnableNative(r) PROVE StagedInv'
  <2>1. /\ SetCommit("rules", uci.rules \cup {r}, RoutePolicy) /\ "rules" \in OptionNames
        /\ uci.rules \cup {r} \in Values["rules"] /\ "rules" \in RoutePolicy
    BY <1>3, OptionValues DEF EnableNative, OptionNames, RoutePolicy, Callers
  <2>2. \A p \in OptionNames : disk'[p] = uci'[p] \/ (disk'[p] = disk[p] /\ uci'[p] = uci[p])
    BY <2>1, SetCommitDoes
  <2>3. UNCHANGED <<job, failed>>
    BY <1>3 DEF EnableNative
  <2>. QED  BY <2>2, <2>3 DEF StagedInv, StagedAt
<1>4. CASE Flip
  <2>1. UNCHANGED <<uci, disk, failed>> /\ System \in Callers /\ job[System].pc = "idle"
    BY <1>4 DEF Flip, Callers, At, historyVars
  <2>2. CASE Owned
    <3>1. PICK o \in {"pressed", "released"}, s \in {"stop", "start"} :
              Become(System, [IdleJob EXCEPT !.op = o, !.pc = s])
      BY <1>4, <2>2 DEF Flip
    <3>2. [IdleJob EXCEPT !.op = o, !.pc = s] \in Jobs
      BY DEF IdleJob, Jobs, Steps
    <3>3. Others(System)
      BY <2>1, <3>1, <3>2, BecomeDoes
    <3>. QED  BY <2>1, <3>3, StagedFrame DEF WritingSteps
  <2>3. CASE ~Owned
    BY <1>4, <2>1, <2>3 DEF Flip, StagedInv, StagedAt
  <2>. QED  BY <2>2, <2>3
<1>5. CASE PowerCut
  BY <1>5 DEF PowerCut, StagedInv, StagedAt
<1>6. CASE VpnClientRestart \/ VpnClientRestartFails \/ UNCHANGED vars
  <2>1. UNCHANGED <<uci, disk, job>> /\ failed \subseteq failed'
    BY <1>6 DEF VpnClientRestart, VpnClientRestartFails, vars, historyVars
  <2>. QED  BY <2>1 DEF StagedInv, StagedAt
<1>7. ASSUME NEW c \in Handlers, Failure(c) PROVE StagedInv'
  BY <1>7, FailureStaged DEF Callers
<1>8. \A c \in Handlers : ~Abort(c)
  BY DEF Abort
<1>. QED  BY <1>1, <1>2, <1>3, <1>4, <1>5, <1>6, <1>7, <1>8 DEF Next

\* Once nobody is at work flash holds what `uci get` shows, so that a power
\* cut loses no setting, however the panel's requests, the boot start, the
\* switch and the stock dashboard were interleaved: whoever stages an option
\* commits its package before it is done.  A request that dies in between does
\* leave its options staged, and so does a `uci commit` that fails.
THEOREM NothingStaysStaged ==
    ASSUME Aborts = FALSE
    PROVE  Spec => []NothingStaged
<1>1. Init => TypeOK /\ StagedInv
  BY InitType DEF Init, StagedInv, StagedAt
<1>2. TypeOK /\ StagedInv /\ [Next]_vars => (TypeOK /\ StagedInv)'
  BY NextType, NextStaged
<1>3. TypeOK /\ StagedInv => NothingStaged
  <2>. SUFFICES ASSUME TypeOK, StagedInv, Quiet, "write" \notin failed PROVE disk = uci
    BY DEF NothingStaged
  <2>1. \A c \in Callers : job[c].pc = "idle"
    BY DEF Quiet, Active
  <2>2. \A o \in OptionNames : "idle" \notin Between(o)
    BY BetweenWrites DEF WritingSteps
  <2>3. \A o \in OptionNames : disk[o] = uci[o]
    BY <2>1, <2>2 DEF StagedInv, StagedAt
  <2>. QED  BY <2>3, OptionsEqual DEF TypeOK
<1>. QED  BY <1>1, <1>2, <1>3, PTL DEF Spec

-----------------------------------------------------------------------------
(* One caller at a time.                                                   *)

\* A caller is only admitted when nobody is at work.
LEMMA AdmittedAlone ==
    ASSUME IsFiniteSet(Handlers), Concurrency = 1, Cardinality(Active) < Concurrency
    PROVE  Quiet
<1>1. IsFiniteSet(Callers)
  BY FS_AddElement DEF Callers
<1>2. IsFiniteSet(Active)
  BY <1>1, FS_Subset DEF Active
<1>. QED  BY <1>2, FS_CardinalityType, FS_EmptySet DEF Quiet

LEMMA QuietMeans == Quiet <=> \A c \in Callers : At(c, "idle")
  BY DEF Quiet, Active, At

\* After a step of c, who was at work or was admitted, nobody else is.
LEMMA AloneStep ==
    ASSUME OneAtATime, NEW c \in Callers, Others(c), ~At(c, "idle") \/ Quiet
    PROVE  /\ OneAtATime'
           /\ \A d \in Callers : job'[d].pc # "idle" => d = c
           /\ Quiet' => job'[c].pc = "idle"
<1>1. \A d \in Callers \ {c} : job'[d].pc = "idle"
  <2>. TAKE d \in Callers \ {c}
  <2>1. At(d, "idle")
    BY QuietMeans DEF OneAtATime
  <2>. QED  BY <2>1 DEF At, Others
<1>2. OneAtATime'
  BY <1>1 DEF OneAtATime, At
<1>3. Quiet' => job'[c].pc = "idle"
  BY DEF Quiet, Active
<1>. QED  BY <1>1, <1>2, <1>3

-----------------------------------------------------------------------------
(* Sing-box and the native clients exclude each other.                     *)

\* A job that is done is as good as none.
LEMMA FitsIdle == \A c \in Callers : At(c, "idle") => (Fits(job[c]) <=> Fits(IdleJob))
  BY IdleIsJob DEF At, Fits, Kept, Apart, Synced, Guarded, Moved, Held

\* What a step of c has to show.
LEMMA SeqStep ==
    ASSUME TypeOK, SeqInv, NEW c \in Callers, Others(c), ~At(c, "idle") \/ Quiet,
           ("write" \notin failed => Kept(job[c]))', (failed = {} => Apart(job[c]))'
    PROVE  SeqInv'
<1>0. Fits(job[c])'
  BY DEF Fits
<1>1. /\ OneAtATime'
      /\ \A d \in Callers : job'[d].pc # "idle" => d = c
      /\ Quiet' => job'[c].pc = "idle"
  BY AloneStep DEF SeqInv
<1>2. (\A d \in Callers : ~At(d, "idle") => Fits(job[d]))'
  BY <1>0, <1>1 DEF At
<1>3. (Quiet => Fits(IdleJob))'
  <2>1. job'[c].pc = "idle" => Fits(IdleJob)'
    BY <1>0, IdleIsJob DEF Fits, Kept, Apart, Synced, Guarded, Moved, Held
  <2>. QED  BY <1>1, <2>1
<1>. QED  BY <1>1, <1>2, <1>3 DEF SeqInv

LEMMA SeqNow ==
    ASSUME SeqInv, NEW c \in Callers, ~At(c, "idle") \/ Quiet
    PROVE  ("write" \notin failed => Kept(job[c])) /\ (failed = {} => Apart(job[c]))
<1>1. Fits(job[c])
  <2>1. CASE ~At(c, "idle")
    BY <2>1 DEF SeqInv
  <2>2. CASE At(c, "idle") /\ Quiet
    BY <2>2, FitsIdle DEF SeqInv, At
  <2>. QED  BY <2>1, <2>2
<1>. QED  BY <1>1 DEF Fits

\* The steps at which native clients are on their way.
MovingSteps == {"disableCommit", "remember", "stopRestart", "forget", "restoreRestart", "startMemo"}

\* A step that moves no native client and does not touch sing-box.
LEMMA SeqFrame ==
    ASSUME TypeOK, SeqInv, NEW c \in Callers, Others(c), ~At(c, "idle") \/ Quiet,
           uci'.rules = uci.rules, uci'.memo = uci.memo,
           UNCHANGED <<up, restart, running, wanted, cut, failed, shared>>,
           job[c].pc \notin MovingSteps, job'[c].pc \notin MovingSteps \cup {"disable", "launch"},
           job'[c].pc = "start" => job'[c].op \in {"boot", "start", "restart"} \/ Bound',
           job'[c].pc = "enable" => job'[c].op = "native_restore"
    PROVE  SeqInv'
<1>1. ("write" \notin failed => Kept(job[c])) /\ (failed = {} => Apart(job[c]))
  BY SeqNow
<1>2. ("write" \notin failed => Kept(job[c]))'
  BY <1>1 DEF Kept, Moved, Held, MovingSteps
<1>3. (failed = {} => Apart(job[c]))'
  BY <1>1 DEF Apart, Synced, Guarded, Clear, MovingSteps
<1>. QED  BY <1>2, <1>3, SeqStep

\* What a set of one of the button's options leaves alone.
LEMMA SetsButton ==
    ASSUME TypeOK, NEW o \in {"func", "prev", "bind"}, NEW v \in Values[o],
           Set(o, v) \/ \E package : SetCommit(o, v, package)
    PROVE  uci'.rules = uci.rules /\ uci'.memo = uci.memo
  BY SetDoes, SetCommitDoes DEF OptionNames

LEMMA OnStepSeq == ASSUME TypeOK, SeqInv, NEW c \in Callers, OnStep(c) PROVE SeqInv'
<1>0. UNCHANGED <<up, restart, running, wanted, cut, failed, shared>>
  BY DEF OnStep, OnRead, OnPrev, OnFunc, OnBind, OnCommitSwitch, OnCommitSingBox, OnProbe, historyVars
<1>1. ~At(c, "idle") /\ job[c].pc \notin MovingSteps
  BY DEF OnStep, OnRead, OnPrev, OnFunc, OnBind, OnCommitSwitch, OnCommitSingBox, OnProbe, At, MovingSteps
<1>2. uci'.rules = uci.rules /\ uci'.memo = uci.memo
  <2>1. CASE OnPrev(c)
    BY <2>1, SetsButton, OptionValues DEF OnPrev
  <2>2. CASE OnFunc(c)
    BY <2>2, SetsButton, OptionValues DEF OnFunc
  <2>3. CASE OnBind(c)
    BY <2>3, SetsButton, OptionValues DEF OnBind
  <2>4. CASE OnRead(c) \/ OnCommitSwitch(c) \/ OnCommitSingBox(c) \/ OnProbe(c)
    BY <2>4 DEF OnRead, OnCommitSwitch, OnCommitSingBox, OnProbe
  <2>. QED  BY <2>1, <2>2, <2>3, <2>4 DEF OnStep
<1>3. /\ Others(c)
      /\ job'[c].pc \in {"onPrev", "onFunc", "onBind", "onCommitSwitch", "onCommitSingBox", "onProbe",
                         "list", "bindOn"}
  <2>1. CASE OnRead(c)
    <3>1. PICK s \in {"onPrev", "onFunc"} : Become(c, [job[c] EXCEPT !.cur = uci.func, !.pc = s])
      BY <2>1 DEF OnRead, AfterRead
    <3>2. /\ [job[c] EXCEPT !.cur = uci.func, !.pc = s] \in Jobs
          /\ [job[c] EXCEPT !.cur = uci.func, !.pc = s].pc = s
      BY <3>1 DEF TypeOK, Options, Jobs, Steps
    <3>. QED  BY <3>1, <3>2, BecomeDoes
  <2>2. CASE ~OnRead(c)
    <3>1. PICK s \in {"onFunc", "onBind", "onCommitSwitch", "onCommitSingBox", "onProbe", "list", "bindOn"} :
              Goto(c, s)
      BY <2>2 DEF OnStep, OnPrev, OnFunc, OnBind, OnCommitSwitch, OnCommitSingBox, OnProbe
    <3>. QED  BY <3>1, GotoDoes DEF Steps
  <2>. QED  BY <2>1, <2>2
<1>. QED  BY <1>0, <1>1, <1>2, <1>3, SeqFrame DEF MovingSteps

LEMMA OffStepSeq == ASSUME TypeOK, SeqInv, NEW c \in Callers, OffStep(c) \/ MemoRead(c) PROVE SeqInv'
<1>0. UNCHANGED <<up, restart, running, wanted, cut, failed, shared>>
  BY DEF OffStep, OffFunc, OffPrev, OffBind, OffCommitSwitch, OffCommitSingBox, BindOff, MemoRead, historyVars
<1>1. ~At(c, "idle") /\ job[c].pc \notin MovingSteps
  BY DEF OffStep, OffFunc, OffPrev, OffBind, OffCommitSwitch, OffCommitSingBox, BindOff, MemoRead, At,
         MovingSteps
<1>2. uci'.rules = uci.rules /\ uci'.memo = uci.memo
  <2>1. CASE OffFunc(c)
    BY <2>1, SetsButton, OptionValues DEF OffFunc
  <2>2. CASE OffPrev(c)
    BY <2>2, SetsButton, OptionValues DEF OffPrev
  <2>3. CASE OffBind(c)
    BY <2>3, SetsButton, OptionValues DEF OffBind
  <2>4. CASE BindOff(c)
    BY <2>4, SetsButton, OptionValues DEF BindOff
  <2>5. CASE OffCommitSwitch(c) \/ OffCommitSingBox(c) \/ MemoRead(c)
    BY <2>5 DEF OffCommitSwitch, OffCommitSingBox, MemoRead
  <2>. QED  BY <2>1, <2>2, <2>3, <2>4, <2>5 DEF OffStep
<1>3. \/ Leave(c)
      \/ \E s \in {"stop", "offFunc", "offPrev", "offBind", "offCommitSwitch", "offCommitSingBox",
                   "bindOff"} : Goto(c, s)
  BY DEF OffStep, OffFunc, OffPrev, OffBind, OffCommitSwitch, OffCommitSingBox, BindOff, MemoRead
<1>4. Others(c) /\ job'[c].pc \in {"idle", "stop", "offFunc", "offPrev", "offBind", "offCommitSwitch",
                                   "offCommitSingBox", "bindOff"}
  BY <1>3, LeaveDoes, GotoDoes, IdleIsJob DEF Steps
<1>. QED  BY <1>0, <1>1, <1>2, <1>4, SeqFrame DEF MovingSteps

LEMMA StopNativeStepSeq ==
    ASSUME TypeOK, SeqInv, NEW c \in Callers, StopNativeStep(c) PROVE SeqInv'
<1>0. ~At(c, "idle")
  BY DEF StopNativeStep, ListRules, Disable, DisableCommit, Remember, StopRestart, At
<1>00. ("write" \notin failed => Kept(job[c])) /\ (failed = {} => Apart(job[c]))
  BY <1>0, SeqNow
<1>1. UNCHANGED <<restart, running, wanted, cut, failed>>
  BY DEF StopNativeStep, ListRules, Disable, DisableCommit, Remember, StopRestart, historyVars
<1>. SUFFICES /\ Others(c)
              /\ ("write" \notin failed => Kept(job[c]))' /\ (failed = {} => Apart(job[c]))'
  BY <1>0, SeqStep
<1>2. CASE ListRules(c)
  <2>1. /\ Others(c)
        /\ uci.rules = {} => job'[c].pc \in {"bindOn", "start", "idle"}
        /\ uci.rules # {} => job'[c].pc = "disable" /\ job'[c].rules = uci.rules
    BY <1>2, ListRulesDoes DEF AfterStop
  <2>2. job[c].pc = "list" /\ UNCHANGED <<uci, up, shared>>
    BY <1>2 DEF ListRules, At, historyVars
  <2>3. ("write" \notin failed => Kept(job[c]))'
    BY <1>00, <1>1, <2>1, <2>2 DEF Kept, Moved, Held
  <2>4. (failed = {} => Apart(job[c]))'
    BY <1>00, <1>1, <2>1, <2>2 DEF Apart, Synced, Guarded, Clear
  <2>. QED  BY <2>1, <2>3, <2>4
<1>3. CASE Disable(c)
  <2>1. /\ Set("rules", uci.rules \ job[c].rules) /\ "rules" \in OptionNames
        /\ uci.rules \ job[c].rules \in Values["rules"]
    BY <1>3, OptionValues DEF Disable, OptionNames
  <2>2. uci'.rules = uci.rules \ job[c].rules /\ uci'.memo = uci.memo
    BY <2>1, SetDoes DEF OptionNames
  <2>3. Others(c) /\ job'[c].pc = "disableCommit" /\ job'[c].rules = job[c].rules
    BY <1>3, GotoDoes DEF Disable, Steps
  <2>4. job[c].pc = "disable" /\ UNCHANGED <<up, shared>>
    BY <1>3 DEF Disable, At, historyVars
  <2>5. ("write" \notin failed => Kept(job[c]))'
    BY <1>00, <1>1, <2>2, <2>3, <2>4 DEF Kept, Moved, Held
  <2>6. (failed = {} => Apart(job[c]))'
    BY <1>00, <1>1, <2>2, <2>3, <2>4 DEF Apart, Synced, Guarded, Clear
  <2>. QED  BY <2>3, <2>5, <2>6
<1>4. CASE DisableCommit(c)
  <2>1. PICK s \in {"stopRestart", "remember"} :
            Goto(c, s) /\ (s = "stopRestart" => job[c].rules = {})
    BY <1>4 DEF DisableCommit
  <2>2. Others(c) /\ job'[c].pc = s /\ job'[c].rules = job[c].rules
    BY <2>1, GotoDoes DEF Steps
  <2>3. job[c].pc = "disableCommit" /\ UNCHANGED <<uci, up, shared>>
    BY <1>4 DEF DisableCommit, At, historyVars
  <2>4. ("write" \notin failed => Kept(job[c]))'
    BY <1>00, <1>1, <2>1, <2>2, <2>3 DEF Kept, Moved, Held
  <2>5. (failed = {} => Apart(job[c]))'
    BY <1>00, <1>1, <2>1, <2>2, <2>3 DEF Apart, Synced, Guarded, Clear
  <2>. QED  BY <2>2, <2>4, <2>5
<1>5. CASE Remember(c)
  <2>1. SetCommit("memo", job[c].rules, SingBox) /\ "memo" \in OptionNames /\ job[c].rules \in Values["memo"]
    BY <1>5, OptionValues DEF Remember, OptionNames
  <2>2. uci'.memo = job[c].rules /\ uci'.rules = uci.rules
    BY <2>1, SetCommitDoes DEF OptionNames
  <2>3. Others(c) /\ job'[c].pc = "stopRestart" /\ job'[c].rules = job[c].rules
    BY <1>5, GotoDoes DEF Remember, Steps
  <2>4. job[c].pc = "remember" /\ UNCHANGED <<up, shared>>
    BY <1>5 DEF Remember, At, historyVars
  <2>5. ("write" \notin failed => Kept(job[c]))'
    <3>. SUFFICES ASSUME "write" \notin failed PROVE Kept(job[c])'
      BY <1>1
    <3>1. uci.rules = {} /\ (~cut => wanted \subseteq job[c].rules)
      BY <1>00, <2>4 DEF Kept, Moved, Held
    <3>. QED  BY <1>1, <2>2, <2>3, <3>1 DEF Kept, Moved, Held
  <2>6. (failed = {} => Apart(job[c]))'
    BY <1>00, <1>1, <2>2, <2>3, <2>4 DEF Apart, Synced, Guarded, Clear
  <2>. QED  BY <2>3, <2>5, <2>6
<1>6. CASE StopRestart(c)
  <2>1. GoOn(c, AfterStop(c)) /\ AfterStop(c) \in {"bindOn", "start", "idle"}
    BY <1>6 DEF StopRestart, AfterStop
  <2>2. Others(c) /\ job'[c].pc \in {"bindOn", "start", "idle"}
    BY <2>1, GoOnDoes DEF Steps
  <2>3. job[c].pc = "stopRestart" /\ up' = uci.rules /\ uci' = uci
    BY <1>6 DEF StopRestart, At
  <2>4. ("write" \notin failed => Kept(job[c]))'
    BY <1>00, <1>1, <2>2, <2>3 DEF Kept, Moved, Held
  <2>5. (failed = {} => Apart(job[c]))'
    <3>. SUFFICES ASSUME failed = {} PROVE Apart(job[c])'
      BY <1>1
    <3>1. uci.rules = {}
      BY <1>00, <2>3 DEF Kept, Moved
    <3>. QED  BY <2>2, <2>3, <3>1 DEF Apart, Synced, Guarded, Clear
  <2>. QED  BY <2>2, <2>4, <2>5
<1>. QED  BY <1>2, <1>3, <1>4, <1>5, <1>6 DEF StopNativeStep

LEMMA StartAdmittedSeq ==
    ASSUME TypeOK, SeqInv, NEW c \in Callers, StartAdmitted(c) PROVE SeqInv'
<1>0. ~At(c, "idle") /\ job[c].pc = "start"
  BY DEF StartAdmitted, At
<1>00. ("write" \notin failed => Kept(job[c])) /\ (failed = {} => Apart(job[c]))
  BY <1>0, SeqNow
<1>1. UNCHANGED <<running, up, wanted, cut, failed>>
  BY DEF StartAdmitted
<1>. SUFFICES /\ Others(c)
              /\ ("write" \notin failed => Kept(job[c]))' /\ (failed = {} => Apart(job[c]))'
  BY <1>0, SeqStep
<1>2. CASE Bound /\ uci.rules # {}
  <2>1. SetCommit("rules", {}, RoutePolicy) /\ "rules" \in OptionNames /\ {} \in Values["rules"]
    BY <1>2, OptionValues DEF StartAdmitted, OptionNames
  <2>2. uci'.rules = {} /\ uci'.memo = uci.memo
    BY <2>1, SetCommitDoes DEF OptionNames
  <2>. PICK j : j = [job[c] EXCEPT !.rules = uci.rules, !.pc = "startMemo"]
    OBVIOUS
  <2>3. job[c] \in Jobs /\ uci.rules \subseteq Rules
    BY DEF TypeOK, Options
  <2>4. j \in Jobs /\ j.pc = "startMemo" /\ j.rules = uci.rules
    BY <2>3 DEF Jobs, Steps
  <2>5. job'[c] = j /\ Others(c)
    BY <1>2, <2>4, BecomeDoes DEF StartAdmitted
  <2>6. restart' = TRUE
    BY <1>2 DEF StartAdmitted
  <2>7. ("write" \notin failed => Kept(job[c]))'
    BY <1>0, <1>00, <1>1, <1>2, <2>2, <2>4, <2>5 DEF Kept, Moved, Held
  <2>8. (failed = {} => Apart(job[c]))'
    BY <2>2, <2>4, <2>5, <2>6 DEF Apart, Synced, Guarded, Clear
  <2>. QED  BY <2>5, <2>7, <2>8
<1>3. CASE ~(Bound /\ uci.rules # {})
  <2>1. Goto(c, "launch") /\ UNCHANGED <<uci, restart>>
    BY <1>3 DEF StartAdmitted
  <2>2. Others(c) /\ job'[c].pc = "launch"
    BY <2>1, GotoDoes DEF Steps
  <2>3. /\ Bound \/ job[c].op # "boot"
        /\ shared' = (job[c].op \in {"start", "restart"} /\ ~Bound /\ uci.rules # {})
    BY DEF StartAdmitted
  <2>4. ("write" \notin failed => Kept(job[c]))'
    BY <1>0, <1>00, <1>1, <2>1, <2>2 DEF Kept, Moved, Held
  <2>5. (failed = {} => Apart(job[c]))'
    <3>. SUFFICES ASSUME failed = {} PROVE Apart(job[c])'
      BY <1>1
    <3>1. restart \/ up = uci.rules
      BY <1>0, <1>00 DEF Apart, Synced
    <3>2. shared' \/ Clear
      <4>1. CASE uci.rules = {}
        BY <3>1, <4>1 DEF Clear
      <4>2. CASE uci.rules # {}
        <5>1. ~Bound /\ job[c].op # "boot"
          BY <1>3, <2>3, <4>2
        <5>2. job[c].op \in {"boot", "start", "restart"} \/ Bound \/ Clear
          BY <1>0, <1>00 DEF Apart, Guarded
        <5>. QED  BY <2>3, <4>2, <5>1, <5>2
      <4>. QED  BY <4>1, <4>2
    <3>. QED  BY <1>1, <2>1, <2>2, <3>1, <3>2 DEF Apart, Synced, Guarded, Clear
  <2>. QED  BY <2>2, <2>4, <2>5
<1>. QED  BY <1>2, <1>3

LEMMA InitScriptStepSeq ==
    ASSUME TypeOK, SeqInv, NEW c \in Callers, InitScriptStep(c) PROVE SeqInv'
<1>0. ~At(c, "idle")
  BY DEF InitScriptStep, BindOn, StartRefused, StartAdmitted, StartMemo, Launch, Stop, At
<1>00. ("write" \notin failed => Kept(job[c])) /\ (failed = {} => Apart(job[c]))
  BY <1>0, SeqNow
<1>1. UNCHANGED <<up, wanted, cut, failed>>
  BY DEF InitScriptStep, BindOn, StartRefused, StartAdmitted, StartMemo, Launch, Stop, historyVars
<1>2. CASE BindOn(c)
  <2>1. SetCommit("bind", TRUE, SingBox) /\ "bind" \in OptionNames /\ TRUE \in Values["bind"]
    BY <1>2, OptionValues DEF BindOn, OptionNames
  <2>2. uci'.rules = uci.rules /\ uci'.memo = uci.memo
    BY <2>1, SetCommitDoes DEF OptionNames
  <2>3. uci'.bind = TRUE
    BY <2>1, SetCommitDoes
  <2>4. Others(c) /\ job'[c].pc \in {"idle", "start", "stop"}
    BY <1>2, GotoDoes, LeaveDoes, IdleIsJob DEF BindOn, Steps
  <2>5. job[c].pc = "bindOn" /\ UNCHANGED <<restart, running, shared>>
    BY <1>2 DEF BindOn, At, historyVars
  <2>. QED  BY <1>0, <1>1, <2>2, <2>3, <2>4, <2>5, SeqFrame DEF Bound, MovingSteps
<1>3. CASE StartRefused(c)
  <2>1. Others(c) /\ job'[c].pc = "idle"
    BY <1>3, LeaveDoes, IdleIsJob DEF StartRefused
  <2>2. job[c].pc = "start" /\ UNCHANGED <<uci, restart, running, shared>>
    BY <1>3 DEF StartRefused, At, historyVars
  <2>. QED  BY <1>0, <1>1, <2>1, <2>2, SeqFrame DEF MovingSteps
<1>4. CASE StartMemo(c)
  <2>1. SetCommit("memo", job[c].rules, SingBox) /\ "memo" \in OptionNames /\ job[c].rules \in Values["memo"]
    BY <1>4, OptionValues DEF StartMemo, OptionNames
  <2>2. uci'.memo = job[c].rules /\ uci'.rules = uci.rules
    BY <2>1, SetCommitDoes DEF OptionNames
  <2>3. Others(c) /\ job'[c].pc = "launch"
    BY <1>4, GotoDoes DEF StartMemo, Steps
  <2>4. job[c].pc = "startMemo" /\ UNCHANGED <<restart, running, shared>>
    BY <1>4 DEF StartMemo, At, historyVars
  <2>5. ("write" \notin failed => Kept(job[c]))'
    BY <1>00, <1>1, <2>2, <2>3, <2>4 DEF Kept, Moved, Held
  <2>6. (failed = {} => Apart(job[c]))'
    BY <1>00, <1>1, <2>2, <2>3, <2>4 DEF Apart, Synced, Guarded, Clear
  <2>. QED  BY <1>0, <2>3, <2>5, <2>6, SeqStep
<1>5. CASE Launch(c)
  <2>1. Others(c) /\ job'[c].pc = "idle"
    BY <1>5, LeaveDoes, IdleIsJob DEF Launch
  <2>2. job[c].pc = "launch" /\ UNCHANGED <<uci, restart, shared>>
    BY <1>5 DEF Launch, At, historyVars
  <2>3. ("write" \notin failed => Kept(job[c]))'
    BY <1>00, <1>1, <2>1, <2>2 DEF Kept, Moved, Held
  <2>4. (failed = {} => Apart(job[c]))'
    BY <1>00, <1>1, <2>1, <2>2 DEF Apart, Synced, Guarded, Clear
  <2>. QED  BY <1>0, <2>1, <2>3, <2>4, SeqStep
<1>6. CASE Stop(c)
  <2>1. PICK s \in {"enable", "start", "idle"} :
            GoOn(c, s) /\ (s = "start" => job[c].op = "restart")
    BY <1>6 DEF Stop
  <2>2. Others(c) /\ job'[c].pc = s /\ (s = "start" => job'[c].op = "restart")
    BY <2>1, GoOnDoes DEF Steps
  <2>3. job[c].pc = "stop" /\ UNCHANGED <<uci, restart>> /\ running' = FALSE
    BY <1>6 DEF Stop, At
  <2>4. ("write" \notin failed => Kept(job[c]))'
    BY <1>00, <1>1, <2>2, <2>3 DEF Kept, Moved, Held
  <2>5. (failed = {} => Apart(job[c]))'
    BY <1>00, <1>1, <2>2, <2>3 DEF Apart, Synced, Guarded
  <2>. QED  BY <1>0, <2>2, <2>4, <2>5, SeqStep
<1>. QED  BY <1>2, <1>3, <1>4, <1>5, <1>6, StartAdmittedSeq DEF InitScriptStep

LEMMA RestoreStepSeq ==
    ASSUME TypeOK, SeqInv, NEW c \in Callers, RestoreStep(c) PROVE SeqInv'
<1>0. ~At(c, "idle")
  BY DEF RestoreStep, MemoRead, Enable, Forget, RestoreRestart, At
<1>00. ("write" \notin failed => Kept(job[c])) /\ (failed = {} => Apart(job[c]))
  BY <1>0, SeqNow
<1>1. UNCHANGED <<restart, running, wanted, cut, failed>>
  BY DEF RestoreStep, MemoRead, Enable, Forget, RestoreRestart, historyVars
<1>2. CASE MemoRead(c)
  BY <1>2, OffStepSeq
<1>3. CASE Enable(c) /\ uci.memo # {}
  <2>1. /\ SetCommit("rules", uci.rules \cup uci.memo, RoutePolicy) /\ "rules" \in OptionNames
        /\ uci.rules \cup uci.memo \in Values["rules"]
    BY <1>3, OptionValues DEF Enable, OptionNames
  <2>2. uci'.rules = uci.rules \cup uci.memo /\ uci'.memo = uci.memo
    BY <2>1, SetCommitDoes DEF OptionNames
  <2>3. Others(c) /\ job'[c].pc = "forget"
    BY <1>3, GotoDoes DEF Enable, Steps
  <2>4. job[c].pc = "enable" /\ shared' = (shared \/ (running /\ job[c].op = "native_restore"))
    BY <1>3 DEF Enable, At
  <2>5. ("write" \notin failed => Kept(job[c]))'
    BY <1>00, <1>1, <2>2, <2>3, <2>4 DEF Kept, Moved, Held
  <2>6. (failed = {} => Apart(job[c]))'
    <3>. SUFFICES ASSUME failed = {} PROVE Apart(job[c])'
      BY <1>1
    <3>1. ~running \/ job[c].op = "native_restore"
      BY <1>00, <2>4 DEF Apart, Guarded
    <3>2. running' => shared'
      BY <1>1, <2>4, <3>1
    <3>. QED  BY <2>3, <3>2 DEF Apart, Synced, Guarded
  <2>. QED  BY <1>0, <2>3, <2>5, <2>6, SeqStep
<1>4. CASE Enable(c) /\ uci.memo = {}
  <2>1. GoOn(c, AfterRestore(c)) /\ AfterRestore(c) \in {"idle", "offFunc"}
    BY <1>4 DEF Enable, AfterRestore
  <2>2. Others(c) /\ job'[c].pc \in {"idle", "offFunc"}
    BY <2>1, GoOnDoes DEF Steps
  <2>3. job[c].pc = "enable" /\ UNCHANGED <<up, uci, shared>>
    BY <1>4 DEF Enable, At
  <2>. QED  BY <1>0, <1>1, <2>2, <2>3, SeqFrame DEF MovingSteps
<1>5. CASE Forget(c)
  <2>1. SetCommit("memo", {}, SingBox) /\ "memo" \in OptionNames /\ {} \in Values["memo"]
    BY <1>5, OptionValues DEF Forget, OptionNames
  <2>2. uci'.memo = {} /\ uci'.rules = uci.rules
    BY <2>1, SetCommitDoes DEF OptionNames
  <2>3. Others(c) /\ job'[c].pc = "restoreRestart"
    BY <1>5, GotoDoes DEF Forget, Steps
  <2>4. job[c].pc = "forget" /\ UNCHANGED <<up, shared>>
    BY <1>5 DEF Forget, At, historyVars
  <2>5. ("write" \notin failed => Kept(job[c]))'
    BY <1>00, <1>1, <2>2, <2>3, <2>4 DEF Kept, Moved, Held
  <2>6. (failed = {} => Apart(job[c]))'
    BY <1>00, <1>1, <2>2, <2>3, <2>4 DEF Apart, Synced, Guarded, Clear
  <2>. QED  BY <1>0, <2>3, <2>5, <2>6, SeqStep
<1>6. CASE RestoreRestart(c)
  <2>1. GoOn(c, AfterRestore(c)) /\ AfterRestore(c) \in {"idle", "offFunc"}
    BY <1>6 DEF RestoreRestart, AfterRestore
  <2>2. Others(c) /\ job'[c].pc \in {"idle", "offFunc"}
    BY <2>1, GoOnDoes DEF Steps
  <2>3. job[c].pc = "restoreRestart" /\ up' = uci.rules /\ uci' = uci /\ shared' = shared
    BY <1>6 DEF RestoreRestart, At, historyVars
  <2>4. ("write" \notin failed => Kept(job[c]))'
    BY <1>00, <1>1, <2>2, <2>3 DEF Kept, Moved, Held
  <2>5. (failed = {} => Apart(job[c]))'
    BY <1>00, <1>1, <2>2, <2>3 DEF Apart, Synced, Guarded, Clear
  <2>. QED  BY <1>0, <2>2, <2>4, <2>5, SeqStep
<1>. QED  BY <1>2, <1>3, <1>4, <1>5, <1>6 DEF RestoreStep

\* A failed read or restart loses no native client; after any failure nothing
\* is claimed of the tunnels.
LEMMA FailureSeq ==
    ASSUME TypeOK, SeqInv, NEW c \in Callers, Failure(c) PROVE SeqInv'
<1>1. /\ Others(c) /\ ~At(c, "idle") /\ failed' # {} /\ failed \subseteq failed'
      /\ "write" \notin failed' => UNCHANGED <<uci, disk>>
      /\ UNCHANGED <<wanted, cut>>
  BY FailureDoes
<1>2. PICK kind \in Faults :
          /\ CASE kind = "read"    -> ReadFails(c)
               [] kind = "write"   -> WriteFails(c)
               [] kind = "restart" -> RestartFails(c)
          /\ failed' = failed \cup {kind}
  BY DEF Failure
<1>3. ("write" \notin failed => Kept(job[c]))'
  <2>. SUFFICES ASSUME "write" \notin failed' PROVE Kept(job[c])'
    OBVIOUS
  <2>1. kind \in {"read", "restart"} /\ "write" \notin failed /\ uci' = uci
    BY <1>1, <1>2, SwapAssumption
  <2>2. Kept(job[c])
    BY <1>1, <2>1, SeqNow
  <2>3. /\ job[c].pc \in {"onRead", "onProbe", "list", "memoRead", "enable", "offFunc",
                          "stopRestart", "restoreRestart"}
        /\ job'[c].pc \in {"onPrev", "onFunc", "bindOn", "start", "idle", "offFunc", "offPrev"}
    BY <1>2, <2>1, ReadFailsDoes, RestartFailsDoes
  <2>. QED  BY <1>1, <2>1, <2>2, <2>3 DEF Kept, Moved, Held
<1>. QED  BY <1>1, <1>3, SeqStep

LEMMA CallSeq ==
    ASSUME IsFiniteSet(Handlers), Concurrency = 1, TypeOK, SeqInv,
           NEW c \in Handlers, NEW o \in Ops, Call(c, o)
    PROVE  SeqInv'
<1>1. /\ c \in Callers /\ Others(c) /\ job'[c].op = o /\ job'[c].pc = FirstStep(o)
      /\ UNCHANGED <<uci, up, restart, running, wanted, cut, failed, shared>>
  BY CallDoes DEF Callers, historyVars
<1>2. Quiet /\ job[c].pc = "idle"
  BY AdmittedAlone DEF Call, At
<1>3. /\ FirstStep(o) \in FirstSteps
      /\ FirstStep(o) = "start" => o = "start"
      /\ FirstStep(o) = "enable" => o = "native_restore"
  BY SwapAssumption DEF FirstStep, FirstSteps, AllOps
<1>. QED  BY <1>1, <1>2, <1>3, SeqFrame DEF MovingSteps, FirstSteps

LEMMA FlipSeq ==
    ASSUME IsFiniteSet(Handlers), Concurrency = 1, TypeOK, SeqInv, Flip
    PROVE  SeqInv'
<1>1. System \in Callers /\ Quiet /\ UNCHANGED <<uci, up, restart, running, wanted, cut, failed, shared>>
  BY AdmittedAlone DEF Flip, Callers, historyVars
<1>2. CASE Owned
  <2>1. PICK o \in {"pressed", "released"}, s \in {"stop", "start"} :
            Become(System, [IdleJob EXCEPT !.op = o, !.pc = s])
    BY <1>2 DEF Flip
  <2>. PICK j : j = [IdleJob EXCEPT !.op = o, !.pc = s]
    OBVIOUS
  <2>2. j \in Jobs /\ j.pc = s
    BY DEF IdleJob, Jobs, Steps
  <2>3. job'[System] = j /\ Others(System)
    BY <1>1, <2>1, <2>2, BecomeDoes
  <2>4. Bound'
    BY <1>1, <1>2 DEF Owned, Bound
  <2>5. job[System].pc = "idle"
    BY DEF Flip, At
  <2>. QED  BY <1>1, <2>2, <2>3, <2>4, <2>5, SeqFrame DEF MovingSteps
<1>3. CASE ~Owned
  <2>1. job' = job
    BY <1>3 DEF Flip
  <2>2. (\A c, d \in Callers : ~At(c, "idle") /\ ~At(d, "idle") => c = d)'
    BY <2>1 DEF SeqInv, OneAtATime, At
  <2>3. Quiet' /\ Fits(IdleJob)'
    BY <1>1, <2>1 DEF SeqInv, Quiet, Active, Fits, Kept, Apart, Synced, Guarded, Moved, Held, Clear, Bound
  <2>. QED  BY <2>2, <2>3, QuietMeans DEF SeqInv, OneAtATime, Quiet, Active, At
<1>. QED  BY <1>2, <1>3

\* The interfaces follow the rules at any time; when they do nothing is lost.
LEMMA RestartSeq == ASSUME TypeOK, SeqInv, VpnClientRestart \/ VpnClientRestartFails PROVE SeqInv'
<1>1. /\ UNCHANGED <<uci, running, job, wanted, cut, shared>> /\ failed \subseteq failed'
      /\ failed' = {} => failed = {} /\ up' = uci.rules /\ restart' = FALSE
      /\ "write" \notin failed' => "write" \notin failed
  BY DEF VpnClientRestart, VpnClientRestartFails, historyVars
<1>2. ASSUME NEW j, Fits(j) PROVE Fits(j)'
  <2>1. ("write" \notin failed => Kept(j))'
    BY <1>1, <1>2 DEF Fits, Kept, Moved, Held
  <2>2. (failed = {} => Apart(j))'
    <3>. SUFFICES ASSUME failed' = {} PROVE Apart(j)'
      OBVIOUS
    <3>1. Apart(j) /\ up' = uci.rules
      BY <1>1, <1>2 DEF Fits
    <3>2. Clear => Clear'
      BY <1>1, <3>1 DEF Clear
    <3>. QED  BY <1>1, <3>1, <3>2 DEF Apart, Synced, Guarded, Bound
  <2>. QED  BY <2>1, <2>2 DEF Fits
<1>3. OneAtATime'
  BY <1>1 DEF SeqInv, OneAtATime, At
<1>4. (Quiet => Fits(IdleJob))'
  BY <1>1, <1>2 DEF SeqInv, Quiet, Active
<1>5. (\A c \in Callers : ~At(c, "idle") => Fits(job[c]))'
  <2>. SUFFICES ASSUME NEW c \in Callers, ~At(c, "idle")' PROVE Fits(job[c])'
    OBVIOUS
  <2>. PICK j : j = job[c]
    OBVIOUS
  <2>1. Fits(j)
    BY <1>1 DEF SeqInv, At
  <2>2. Fits(j)'
    BY <1>2, <2>1
  <2>. QED  BY <1>1, <2>2 DEF Fits, Kept, Apart, Synced, Guarded, Moved, Held
<1>. QED  BY <1>3, <1>4, <1>5 DEF SeqInv

\* The dashboard turns a client on only while nobody is at work, sing-box is
\* stopped and nothing is waiting in the memo.
LEMMA EnableNativeSeq ==
    ASSUME FreeStock = FALSE, TypeOK, SeqInv, NEW r \in Rules, EnableNative(r)
    PROVE  SeqInv'
<1>1. /\ Quiet /\ ~running /\ uci.memo = {}
      /\ up' = up \cup {r} /\ wanted' = wanted \cup {r}
      /\ UNCHANGED <<running, restart, job, cut, failed>>
  BY DEF EnableNative
<1>2. /\ SetCommit("rules", uci.rules \cup {r}, RoutePolicy) /\ "rules" \in OptionNames
      /\ uci.rules \cup {r} \in Values["rules"]
  BY OptionValues DEF EnableNative, OptionNames, Callers
<1>3. uci'.rules = uci.rules \cup {r} /\ uci'.memo = uci.memo
  BY <1>2, SetCommitDoes DEF OptionNames
<1>4. Fits(IdleJob)
  BY <1>1 DEF SeqInv
<1>5. ("write" \notin failed => Kept(IdleJob))'
  BY <1>1, <1>3, <1>4, IdleIsJob DEF Fits, Kept, Moved, Held
<1>6. (failed = {} => Apart(IdleJob))'
  BY <1>1, <1>3, <1>4, IdleIsJob DEF Fits, Apart, Synced, Guarded
<1>7. Quiet' /\ \A c \in Callers : job'[c].pc = "idle"
  BY <1>1 DEF Quiet, Active
<1>8. Fits(IdleJob)'
  BY <1>5, <1>6 DEF Fits
<1>. QED  BY <1>7, <1>8 DEF SeqInv, OneAtATime, At

\* After a power cut the boot start is alone.
LEMMA PowerCutSeq == ASSUME TypeOK, SeqInv, PowerCut PROVE SeqInv'
<1>. PICK j : j = [IdleJob EXCEPT !.pc = "start"]
  OBVIOUS
<1>1. j.pc = "start" /\ j.op = "boot"
  BY DEF IdleJob
<1>2. /\ job'[System] = j /\ System \in Callers
      /\ \A d \in Callers : d # System => job'[d].pc = "idle"
  BY IdleIsJob DEF PowerCut, Callers
<1>3. uci' = disk /\ up' = disk.rules /\ running' = FALSE /\ cut' = TRUE
  BY DEF PowerCut
<1>4. Fits(job[System])'
  BY <1>1, <1>2, <1>3 DEF Fits, Kept, Apart, Synced, Guarded, Moved
<1>5. ~Quiet'
  BY <1>1, <1>2 DEF Quiet, Active
<1>. QED  BY <1>2, <1>4, <1>5 DEF SeqInv, OneAtATime, At

LEMMA NextSeq ==
    ASSUME IsFiniteSet(Handlers), Concurrency = 1, FreeStock = FALSE, Aborts = FALSE,
           TypeOK, SeqInv, [Next]_vars
    PROVE  SeqInv'
<1>1. ASSUME NEW c \in Callers, Step(c) PROVE SeqInv'
  BY <1>1, OnStepSeq, StopNativeStepSeq, InitScriptStepSeq, RestoreStepSeq, OffStepSeq DEF Step
<1>2. CASE UNCHANGED vars
  <2>1. UNCHANGED <<uci, up, restart, running, job, wanted, cut, failed, shared>>
    BY <1>2 DEF vars, historyVars
  <2>. QED  BY <2>1 DEF SeqInv, OneAtATime, Quiet, Active, At, Fits, Kept, Apart, Synced, Guarded,
                        Moved, Held, Clear, Bound
<1>3. \A c \in Handlers : ~Abort(c)
  BY DEF Abort
<1>4. ASSUME NEW c \in Handlers, Failure(c) PROVE SeqInv'
  BY <1>4, FailureSeq DEF Callers
<1>. QED
  BY <1>1, <1>2, <1>3, <1>4, CallSeq, FlipSeq, RestartSeq, EnableNativeSeq, PowerCutSeq DEF Next

LEMMA InitSeq == Init => SeqInv
<1>. SUFFICES ASSUME Init PROVE SeqInv
  OBVIOUS
<1>1. uci.memo = {} /\ up = uci.rules /\ wanted = uci.rules
  <2>1. PICK R \in SUBSET Rules :
          /\ uci = [func |-> HomeFunc, prev |-> "", bind |-> FALSE, memo |-> {}, rules |-> R]
          /\ up = R /\ wanted = R
    BY DEF Init
  <2>. QED  BY <2>1
<1>2. running = FALSE /\ \A c \in Callers : job[c].pc = "idle"
  BY IdleIsJob DEF Init
<1>3. Fits(IdleJob)
  BY <1>1, <1>2, IdleIsJob DEF Fits, Kept, Apart, Synced, Guarded, Moved, Held
<1>. QED  BY <1>2, <1>3 DEF SeqInv, OneAtATime, At

\* One tunnel at a time: with everything settled, sing-box running means that
\* no native interface is up, unless the user asked for both or a failure was
\* ignored -- for requests, switch flips and boot starts of every kind that do
\* not overlap, are not cut off half-way, and with native clients turned on
\* only while XRAY is off; the power may be lost at any step.
THEOREM OneTunnelAtATime ==
    ASSUME IsFiniteSet(Handlers), Concurrency = 1, FreeStock = FALSE, Aborts = FALSE
    PROVE  Spec => []OneTunnel
<1>1. Init => TypeOK /\ SeqInv
  BY InitType, InitSeq
<1>2. TypeOK /\ SeqInv /\ [Next]_vars => (TypeOK /\ SeqInv)'
  BY NextType, NextSeq
<1>3. TypeOK /\ SeqInv => OneTunnel
  BY DEF SeqInv, Fits, Apart, Guarded, Clear, OneTunnel
<1>. QED  BY <1>1, <1>2, <1>3, PTL DEF Spec

\* No native client the user turned on is forgotten: under the same conditions
\* it is enabled or in the memo OFF restores from, whatever was clicked and
\* whatever could not be read or restarted, until the power is lost between
\* the rules and their memo or one of them cannot be written.
THEOREM NativeIsKept ==
    ASSUME IsFiniteSet(Handlers), Concurrency = 1, FreeStock = FALSE, Aborts = FALSE
    PROVE  Spec => []NativeKept
<1>1. Init => TypeOK /\ SeqInv
  BY InitType, InitSeq
<1>2. TypeOK /\ SeqInv /\ [Next]_vars => (TypeOK /\ SeqInv)'
  BY NextType, NextSeq
<1>3. TypeOK /\ SeqInv => NativeKept
  BY IdleIsJob DEF SeqInv, Fits, Kept, Held, NativeKept
<1>. QED  BY <1>1, <1>2, <1>3, PTL DEF Spec

-----------------------------------------------------------------------------
(* An OFF has the switch's function back.                                  *)

LEMMA ButtonStep ==
    ASSUME ButtonInv, NEW c \in Callers, Others(c), ~At(c, "idle") \/ Quiet,
           (Telling => Button(job[c]))'
    PROVE  ButtonInv'
<1>1. /\ OneAtATime'
      /\ \A d \in Callers : job'[d].pc # "idle" => d = c
      /\ Quiet' => job'[c].pc = "idle"
  BY AloneStep DEF ButtonInv
<1>. SUFFICES ASSUME Telling' PROVE /\ (Quiet => Button(IdleJob))'
                                     /\ \A d \in Callers : ~At(d, "idle")' => Button(job[d])'
  BY <1>1 DEF ButtonInv
<1>2. \A d \in Callers : ~At(d, "idle")' => Button(job[d])'
  BY <1>1 DEF At
<1>3. job'[c].pc = "idle" => (Claimed \/ Released)'
  BY DEF Button, ReleasedSteps
<1>4. (Claimed \/ Released)' => Button(IdleJob)'
  BY IdleIsJob DEF Button, ReleasedSteps
<1>. QED  BY <1>1, <1>2, <1>3, <1>4

LEMMA ButtonNow ==
    ASSUME ButtonInv, Telling, NEW c \in Callers, ~At(c, "idle") \/ Quiet
    PROVE  /\ Button(job[c])
           /\ job[c].pc \notin {"onFunc", "offPrev"} => Claimed \/ Released
<1>1. Button(job[c])
  <2>1. CASE ~At(c, "idle")
    BY <2>1 DEF ButtonInv
  <2>2. CASE At(c, "idle") /\ Quiet
    <3>1. Claimed \/ Released
      BY <2>2, IdleIsJob DEF ButtonInv, Button, ReleasedSteps
    <3>. QED  BY <2>2, <3>1 DEF At, Button, ReleasedSteps
  <2>. QED  BY <2>1, <2>2
<1>. QED  BY <1>1 DEF Button, ReleasedSteps

\* A step that leaves func and prev alone and hands them to nobody.
LEMMA ButtonFrame ==
    ASSUME ButtonInv, NEW c \in Callers, Others(c), ~At(c, "idle") \/ Quiet,
           uci'.func = uci.func, uci'.prev = uci.prev, cut' = cut, failed \subseteq failed',
           job[c].pc \notin {"onFunc", "offPrev"},
           job'[c].pc \notin {"onPrev", "onFunc", "offPrev"} \cup ReleasedSteps,
           job'[c].pc = "bindOff" => job'[c].op # "side_off"
    PROVE  ButtonInv'
<1>1. ASSUME Telling' PROVE Button(job[c])'
  <2>1. Telling
    BY <1>1 DEF Telling
  <2>2. Claimed \/ Released
    BY <2>1, ButtonNow
  <2>3. (Claimed \/ Released)'
    BY <2>2 DEF Claimed, Released
  <2>. QED  BY <2>3 DEF Button, ReleasedSteps
<1>. QED  BY <1>1, ButtonStep

LEMMA OnStepButton == ASSUME TypeOK, ButtonInv, NEW c \in Callers, OnStep(c) PROVE ButtonInv'
<1>0. ~At(c, "idle") /\ cut' = cut /\ failed' = failed
  BY DEF OnStep, OnRead, OnPrev, OnFunc, OnBind, OnCommitSwitch, OnCommitSingBox, OnProbe, At, historyVars
<1>1. CASE OnRead(c)
  <2>1. PICK s \in {"onPrev", "onFunc"} :
          /\ Become(c, [job[c] EXCEPT !.cur = uci.func, !.pc = s])
          /\ s = IF uci.prev = "" /\ uci.func # "xray" THEN "onPrev" ELSE "onFunc"
    BY <1>1 DEF OnRead, AfterRead
  <2>. PICK j : j = [job[c] EXCEPT !.cur = uci.func, !.pc = s]
    OBVIOUS
  <2>2. job[c] \in Jobs /\ uci.func \in {"xray", HomeFunc}
    BY DEF TypeOK, Options
  <2>3. j \in Jobs /\ j.pc = s /\ j.cur = uci.func
    BY <2>1, <2>2 DEF Jobs, Steps
  <2>4. job'[c] = j /\ Others(c)
    BY <2>1, <2>3, BecomeDoes
  <2>5. uci' = uci /\ job[c].pc = "onRead"
    BY <1>1 DEF OnRead, At
  <2>6. (Telling => Button(job[c]))'
    <3>. SUFFICES ASSUME Telling PROVE Button(job[c])'
      BY <1>0 DEF Telling
    <3>1. Claimed \/ Released
      BY <1>0, <2>5, ButtonNow
    <3>2. s = "onPrev" => (Released /\ j.cur = HomeFunc)'
      BY <2>1, <2>3, <2>5, <3>1, SwapAssumption DEF Claimed, Released
    <3>3. s = "onFunc" => uci'.prev = HomeFunc
      BY <2>1, <2>5, <3>1, SwapAssumption DEF Claimed, Released
    <3>. QED  BY <2>1, <2>3, <2>4, <3>2, <3>3 DEF Button, Released, ReleasedSteps
  <2>. QED  BY <1>0, <2>4, <2>6, ButtonStep
<1>2. CASE OnPrev(c)
  <2>1. Set("prev", job[c].cur) /\ "prev" \in OptionNames /\ job[c].cur \in Values["prev"]
    BY <1>2, OptionValues DEF OnPrev, OptionNames
  <2>2. uci'.prev = job[c].cur
    BY <2>1, SetDoes
  <2>3. Others(c) /\ job'[c].pc = "onFunc"
    BY <1>2, GotoDoes DEF OnPrev, Steps
  <2>4. Telling => job[c].cur = HomeFunc
    BY <1>0, <1>2, ButtonNow DEF OnPrev, At, Button, ReleasedSteps
  <2>5. (Telling => Button(job[c]))'
    BY <1>0, <2>2, <2>3, <2>4 DEF Button, Telling, ReleasedSteps
  <2>. QED  BY <1>0, <2>3, <2>5, ButtonStep
<1>3. CASE OnFunc(c)
  <2>1. Set("func", "xray") /\ "func" \in OptionNames /\ "xray" \in Values["func"]
    BY <1>3, OptionValues DEF OnFunc, OptionNames
  <2>2. uci'.func = "xray" /\ uci'.prev = uci.prev
    BY <2>1, SetDoes DEF OptionNames
  <2>3. Others(c) /\ job'[c].pc = "onBind"
    BY <1>3, GotoDoes DEF OnFunc, Steps
  <2>4. Telling => uci.prev = HomeFunc
    BY <1>0, <1>3, ButtonNow DEF OnFunc, At, Button, ReleasedSteps
  <2>5. (Telling => Button(job[c]))'
    BY <1>0, <2>2, <2>3, <2>4 DEF Button, Claimed, Telling, ReleasedSteps
  <2>. QED  BY <1>0, <2>3, <2>5, ButtonStep
<1>4. CASE OnBind(c) \/ OnCommitSwitch(c) \/ OnCommitSingBox(c) \/ OnProbe(c)
  <2>1. PICK s \in {"onCommitSwitch", "onCommitSingBox", "onProbe", "list", "bindOn"} : Goto(c, s)
    BY <1>4 DEF OnBind, OnCommitSwitch, OnCommitSingBox, OnProbe
  <2>2. uci'.func = uci.func /\ uci'.prev = uci.prev
    BY <1>4, SetsAnother, OptionValues DEF OnBind, OnCommitSwitch, OnCommitSingBox, OnProbe
  <2>3. job[c].pc \in {"onBind", "onCommitSwitch", "onCommitSingBox", "onProbe"}
    BY <1>4 DEF OnBind, OnCommitSwitch, OnCommitSingBox, OnProbe, At
  <2>4. Others(c) /\ job'[c].pc = s
    BY <2>1, GotoDoes DEF Steps
  <2>. QED  BY <1>0, <2>2, <2>3, <2>4, ButtonFrame DEF ReleasedSteps
<1>. QED  BY <1>1, <1>2, <1>3, <1>4 DEF OnStep

LEMMA OffStepButton ==
    ASSUME HomeFunc # "", TypeOK, ButtonInv, NEW c \in Callers, OffStep(c) PROVE ButtonInv'
<1>0. ~At(c, "idle") /\ cut' = cut /\ failed' = failed
  BY DEF OffStep, OffFunc, OffPrev, OffBind, OffCommitSwitch, OffCommitSingBox, BindOff, At, historyVars
<1>1. CASE OffFunc(c)
  <2>1. Telling => Claimed \/ Released
    BY <1>0, <1>1, ButtonNow DEF OffFunc, At
  <2>2. Telling => uci'.func = HomeFunc
    <3>1. CASE uci.prev # ""
      <4>1. Set("func", uci.prev) /\ "func" \in OptionNames /\ uci.prev \in Values["func"]
        BY <1>1, <3>1, OptionValues DEF OffFunc, OptionNames
      <4>2. uci'.func = uci.prev
        BY <4>1, SetDoes
      <4>. QED  BY <2>1, <3>1, <4>2 DEF Claimed, Released
    <3>2. CASE uci.prev = ""
      BY <1>1, <2>1, <3>2 DEF OffFunc, Claimed, Released
    <3>. QED  BY <3>1, <3>2
  <2>3. Others(c) /\ job'[c].pc = "offPrev"
    BY <1>1, GotoDoes DEF OffFunc, Steps
  <2>4. (Telling => Button(job[c]))'
    BY <1>0, <2>2, <2>3 DEF Button, Telling, ReleasedSteps
  <2>. QED  BY <1>0, <2>3, <2>4, ButtonStep
<1>2. CASE OffPrev(c)
  <2>1. Set("prev", "") /\ "prev" \in OptionNames /\ "" \in Values["prev"]
    BY <1>2, OptionValues DEF OffPrev, OptionNames
  <2>2. uci'.prev = "" /\ uci'.func = uci.func
    BY <2>1, SetDoes DEF OptionNames
  <2>3. Others(c) /\ job'[c].pc = "offBind"
    BY <1>2, GotoDoes DEF OffPrev, Steps
  <2>4. Telling => uci.func = HomeFunc
    BY <1>0, <1>2, ButtonNow DEF OffPrev, At, Button, ReleasedSteps
  <2>5. (Telling => Button(job[c]))'
    BY <1>0, <2>2, <2>3, <2>4 DEF Button, Released, Telling, ReleasedSteps
  <2>. QED  BY <1>0, <2>3, <2>5, ButtonStep
<1>3. CASE OffBind(c) \/ OffCommitSwitch(c) \/ OffCommitSingBox(c)
  <2>1. PICK s \in {"offCommitSwitch", "offCommitSingBox", "bindOff"} : Goto(c, s)
    BY <1>3 DEF OffBind, OffCommitSwitch, OffCommitSingBox
  <2>2. uci'.func = uci.func /\ uci'.prev = uci.prev
    BY <1>3, SetsAnother, OptionValues DEF OffBind, OffCommitSwitch, OffCommitSingBox
  <2>3. job[c].pc \in ReleasedSteps
    BY <1>3 DEF OffBind, OffCommitSwitch, OffCommitSingBox, At, ReleasedSteps
  <2>4. Others(c) /\ job'[c].pc = s
    BY <2>1, GotoDoes DEF Steps
  <2>5. Telling => Released
    BY <1>0, <2>3, ButtonNow DEF Button, ReleasedSteps
  <2>6. (Telling => Button(job[c]))'
    BY <1>0, <2>2, <2>4, <2>5 DEF Button, Released, Telling, ReleasedSteps
  <2>. QED  BY <1>0, <2>4, <2>6, ButtonStep
<1>4. CASE BindOff(c)
  <2>1. uci'.func = uci.func /\ uci'.prev = uci.prev
    BY <1>4, SetsAnother, OptionValues DEF BindOff
  <2>2. Others(c) /\ job'[c].pc = "idle"
    BY <1>4, LeaveDoes, IdleIsJob DEF BindOff
  <2>3. job[c].pc = "bindOff"
    BY <1>4 DEF BindOff, At
  <2>. QED  BY <1>0, <2>1, <2>2, <2>3, ButtonFrame DEF ReleasedSteps
<1>. QED  BY <1>1, <1>2, <1>3, <1>4 DEF OffStep

\* The steps that move the native clients and sing-box leave the button alone.
LEMMA StopNativeStepButton ==
    ASSUME TypeOK, ButtonInv, NEW c \in Callers, StopNativeStep(c) PROVE ButtonInv'
<1>0. /\ ~At(c, "idle") /\ cut' = cut /\ failed' = failed
      /\ job[c].pc \notin {"onFunc", "offPrev"}
  BY DEF StopNativeStep, ListRules, Disable, DisableCommit, Remember, StopRestart, At, historyVars
<1>1. uci'.func = uci.func /\ uci'.prev = uci.prev
  BY SetsAnother, OptionValues DEF StopNativeStep, ListRules, Disable, DisableCommit, Remember, StopRestart
<1>2. Others(c) /\ job'[c].pc \in {"disable", "disableCommit", "remember", "stopRestart", "bindOn",
                                   "start", "idle"}
  <2>1. CASE ListRules(c)
    BY <2>1, ListRulesDoes DEF AfterStop
  <2>2. CASE Disable(c) \/ DisableCommit(c) \/ Remember(c) \/ StopRestart(c)
    <3>1. PICK s \in {"disableCommit", "remember", "stopRestart", "bindOn", "start", "idle"} :
              Goto(c, s) \/ GoOn(c, s)
      BY <2>2 DEF Disable, DisableCommit, Remember, StopRestart, AfterStop
    <3>. QED  BY <3>1, GotoDoes, GoOnDoes DEF Steps
  <2>. QED  BY <2>1, <2>2 DEF StopNativeStep
<1>. QED  BY <1>0, <1>1, <1>2, ButtonFrame DEF ReleasedSteps

LEMMA InitScriptStepButton ==
    ASSUME TypeOK, ButtonInv, NEW c \in Callers, InitScriptStep(c) PROVE ButtonInv'
<1>0. /\ ~At(c, "idle") /\ cut' = cut /\ failed' = failed
      /\ job[c].pc \notin {"onFunc", "offPrev"}
  BY DEF InitScriptStep, BindOn, StartRefused, StartAdmitted, StartMemo, Launch, Stop, At, historyVars
<1>1. Others(c) /\ job'[c].pc \in {"idle", "start", "stop", "startMemo", "launch", "enable"}
  <2>1. CASE StartAdmitted(c) /\ Bound /\ uci.rules # {}
    <3>1. /\ [job[c] EXCEPT !.rules = uci.rules, !.pc = "startMemo"] \in Jobs
          /\ [job[c] EXCEPT !.rules = uci.rules, !.pc = "startMemo"].pc = "startMemo"
      BY DEF TypeOK, Options, Jobs, Steps
    <3>. QED  BY <2>1, <3>1, BecomeDoes DEF StartAdmitted
  <2>2. CASE StartAdmitted(c) /\ ~(Bound /\ uci.rules # {})
    BY <2>2, GotoDoes DEF StartAdmitted, Steps
  <2>3. CASE BindOn(c) \/ StartRefused(c) \/ StartMemo(c) \/ Launch(c)
    BY <2>3, GotoDoes, LeaveDoes, IdleIsJob DEF BindOn, StartRefused, StartMemo, Launch, Steps
  <2>4. CASE Stop(c)
    <3>1. PICK s \in {"enable", "start", "idle"} : GoOn(c, s)
      BY <2>4 DEF Stop
    <3>. QED  BY <3>1, GoOnDoes DEF Steps
  <2>. QED  BY <2>1, <2>2, <2>3, <2>4 DEF InitScriptStep
<1>2. uci'.func = uci.func /\ uci'.prev = uci.prev
  <2>1. CASE BindOn(c)
    BY <2>1, SetsAnother, OptionValues DEF BindOn
  <2>2. CASE StartAdmitted(c)
    BY <2>2, SetsAnother, OptionValues DEF StartAdmitted
  <2>3. CASE StartMemo(c)
    BY <2>3, SetsAnother, OptionValues DEF StartMemo
  <2>4. CASE StartRefused(c) \/ Launch(c) \/ Stop(c)
    BY <2>4 DEF StartRefused, Launch, Stop
  <2>. QED  BY <2>1, <2>2, <2>3, <2>4 DEF InitScriptStep
<1>. QED  BY <1>0, <1>1, <1>2, ButtonFrame DEF ReleasedSteps

LEMMA RestoreStepButton ==
    ASSUME TypeOK, ButtonInv, NEW c \in Callers, RestoreStep(c) PROVE ButtonInv'
<1>0. /\ ~At(c, "idle") /\ cut' = cut /\ failed' = failed
      /\ job[c].pc \notin {"onFunc", "offPrev"}
  BY DEF RestoreStep, MemoRead, Enable, Forget, RestoreRestart, At, historyVars
<1>1. Others(c) /\ job'[c].pc \in {"stop", "offFunc", "idle", "forget", "restoreRestart"}
  <2>1. PICK s \in {"stop", "offFunc", "idle", "forget", "restoreRestart"} : Goto(c, s) \/ GoOn(c, s)
    BY DEF RestoreStep, MemoRead, Enable, Forget, RestoreRestart, AfterRestore
  <2>. QED  BY <2>1, GotoDoes, GoOnDoes DEF Steps
<1>2. uci'.func = uci.func /\ uci'.prev = uci.prev
  BY SetsAnother, OptionValues DEF RestoreStep, MemoRead, Enable, Forget, RestoreRestart
<1>. QED  BY <1>0, <1>1, <1>2, ButtonFrame DEF ReleasedSteps

\* Only a failed read touches what OFF relies on.
LEMMA FailureButton ==
    ASSUME TypeOK, ButtonInv, NEW c \in Callers, Failure(c) PROVE ButtonInv'
<1>1. PICK kind \in Faults :
          /\ CASE kind = "read"    -> ReadFails(c)
               [] kind = "write"   -> WriteFails(c)
               [] kind = "restart" -> RestartFails(c)
          /\ failed' = failed \cup {kind}
  BY DEF Failure
<1>2. /\ Others(c) /\ ~At(c, "idle") /\ failed \subseteq failed' /\ cut' = cut
      /\ uci'.func = uci.func /\ uci'.prev = uci.prev
  BY FailureDoes
<1>3. CASE kind = "read"
  BY <1>1, <1>2, <1>3, ButtonStep DEF Telling
<1>4. CASE kind # "read"
  <2>1. /\ job[c].pc \notin {"onFunc", "offPrev"}
        /\ job'[c].pc \in {"disableCommit", "stopRestart", "bindOn", "start", "idle", "forget",
                           "restoreRestart", "offFunc"}
    BY <1>1, <1>4, SwapAssumption, StopWriteFailsDoes, RestoreWriteFailsDoes, RestartFailsDoes DEF WriteFails
  <2>. QED  BY <1>2, <2>1, ButtonFrame DEF ReleasedSteps
<1>. QED  BY <1>3, <1>4

LEMMA NextButton ==
    ASSUME IsFiniteSet(Handlers), Concurrency = 1, Aborts = FALSE, HomeFunc # "",
           TypeOK, ButtonInv, [Next]_vars
    PROVE  ButtonInv'
<1>1. ASSUME NEW c \in Callers, Step(c) PROVE ButtonInv'
  BY <1>1, OnStepButton, StopNativeStepButton, InitScriptStepButton, RestoreStepButton, OffStepButton
     DEF Step
<1>2. ASSUME NEW c \in Handlers, NEW o \in Ops, Call(c, o) PROVE ButtonInv'
  <2>1. /\ c \in Callers /\ Others(c) /\ job'[c].op = o /\ job'[c].pc = FirstStep(o)
        /\ UNCHANGED <<uci, cut, failed>>
    BY <1>2, CallDoes DEF Callers, historyVars
  <2>2. Quiet /\ job[c].pc = "idle"
    BY <1>2, AdmittedAlone DEF Call, At
  <2>3. FirstStep(o) \in FirstSteps /\ (FirstStep(o) = "bindOff" => o = "bind_off")
    BY SwapAssumption DEF FirstStep, FirstSteps, AllOps
  <2>. QED  BY <2>1, <2>2, <2>3, ButtonFrame DEF ReleasedSteps, FirstSteps
<1>3. CASE Flip
  <2>1. System \in Callers /\ Quiet /\ job[System].pc = "idle" /\ UNCHANGED <<uci, cut, failed>>
    BY <1>3, AdmittedAlone DEF Flip, Callers, At, historyVars
  <2>2. CASE Owned
    <3>1. PICK o \in {"pressed", "released"}, s \in {"stop", "start"} :
              Become(System, [IdleJob EXCEPT !.op = o, !.pc = s])
      BY <1>3, <2>2 DEF Flip
    <3>. PICK j : j = [IdleJob EXCEPT !.op = o, !.pc = s]
      OBVIOUS
    <3>2. j \in Jobs /\ j.pc = s
      BY DEF IdleJob, Jobs, Steps
    <3>3. job'[System] = j /\ Others(System)
      BY <2>1, <3>1, <3>2, BecomeDoes
    <3>. QED  BY <2>1, <3>2, <3>3, ButtonFrame DEF ReleasedSteps
  <2>3. CASE ~Owned
    <3>1. UNCHANGED <<uci, job, cut, failed>>
      BY <1>3, <2>3 DEF Flip, historyVars
    <3>. QED  BY <3>1 DEF ButtonInv, OneAtATime, Telling, Quiet, Active, At, Button, Claimed, Released
  <2>. QED  BY <2>2, <2>3
<1>4. ASSUME NEW r \in Rules, EnableNative(r) PROVE ButtonInv'
  <2>1. uci'.func = uci.func /\ uci'.prev = uci.prev
    BY <1>4, SetsAnother, OptionValues DEF EnableNative, Callers
  <2>2. UNCHANGED <<job, cut, failed>>
    BY <1>4 DEF EnableNative
  <2>. QED  BY <2>1, <2>2 DEF ButtonInv, OneAtATime, Telling, Quiet, Active, At, Button, Claimed, Released
<1>5. CASE VpnClientRestart \/ VpnClientRestartFails \/ UNCHANGED vars
  <2>1. UNCHANGED <<uci, job, cut>> /\ failed \subseteq failed'
    BY <1>5 DEF VpnClientRestart, VpnClientRestartFails, vars, historyVars
  <2>2. Telling' => Telling
    BY <2>1 DEF Telling
  <2>. QED  BY <2>1, <2>2 DEF ButtonInv, OneAtATime, Quiet, Active, At, Button, Claimed, Released
<1>6. CASE PowerCut
  <2>1. cut' /\ \A d \in Callers : d # System => job'[d].pc = "idle"
    BY <1>6, IdleIsJob DEF PowerCut
  <2>. QED  BY <2>1 DEF ButtonInv, OneAtATime, Telling, At
<1>7. \A c \in Handlers : ~Abort(c)
  BY DEF Abort
<1>8. ASSUME NEW c \in Handlers, Failure(c) PROVE ButtonInv'
  BY <1>8, FailureButton DEF Callers
<1>. QED  BY <1>1, <1>2, <1>3, <1>4, <1>5, <1>6, <1>7, <1>8 DEF Next

\* What the last command of an OFF leaves behind.
LEMMA OffEnds ==
    ASSUME TypeOK, ButtonInv, Telling, NEW c \in Callers, job[c].op = "side_off", BindOff(c)
    PROVE  uci'.func = HomeFunc /\ uci'.prev = "" /\ ~uci'.bind
<1>1. job[c].pc = "bindOff" /\ ~At(c, "idle")
  BY DEF BindOff, At
<1>2. Released
  BY <1>1, ButtonNow DEF Button, ReleasedSteps
<1>3. SetCommit("bind", FALSE, SingBox) /\ "bind" \in OptionNames /\ FALSE \in Values["bind"]
  BY OptionValues DEF BindOff, OptionNames
<1>4. uci'.func = uci.func /\ uci'.prev = uci.prev
  BY <1>3, SetCommitDoes DEF OptionNames
<1>5. uci'.bind = FALSE
  BY <1>3, SetCommitDoes
<1>. QED  BY <1>2, <1>4, <1>5 DEF Released

\* An OFF that comes to its last command has given the switch back, whatever
\* sequence of ON and OFF, toggles, bare bind_switch calls, starts, native stops
\* and restores and flips came before, until the power is lost or a `uci get`
\* fails.  A function that was never set cannot be told from a snapshot that
\* was never taken, a request cut off half-way leaves the switch half claimed,
\* and two requests at once can interleave to an OFF that leaves XRAY's function.
THEOREM FuncIsRestored ==
    ASSUME IsFiniteSet(Handlers), Concurrency = 1, Aborts = FALSE, HomeFunc # ""
    PROVE  Spec => FuncRestored
<1>1. Init => TypeOK /\ ButtonInv
  <2>. SUFFICES ASSUME Init PROVE ButtonInv
    BY InitType
  <2>1. Released
    <3>1. PICK R \in SUBSET Rules :
                uci = [func |-> HomeFunc, prev |-> "", bind |-> FALSE, memo |-> {}, rules |-> R]
      BY DEF Init
    <3>. QED  BY <3>1 DEF Released
  <2>2. \A c \in Callers : job[c].pc = "idle"
    BY IdleIsJob DEF Init
  <2>. QED  BY <2>1, <2>2, IdleIsJob DEF ButtonInv, OneAtATime, At, Button, ReleasedSteps
<1>2. TypeOK /\ ButtonInv /\ [Next]_vars => (TypeOK /\ ButtonInv)'
  BY NextType, NextButton
<1>3. TypeOK /\ ButtonInv =>
          [\A c \in Callers : job[c].op = "side_off" /\ BindOff(c) /\ ~cut /\ "read" \notin failed =>
               uci'.func = HomeFunc /\ uci'.prev = "" /\ ~uci'.bind]_vars
  BY OffEnds DEF Telling
<1>. QED  BY <1>1, <1>2, <1>3, PTL DEF Spec, FuncRestored

=============================================================================
