----------------------------- MODULE SideSwitch -----------------------------
(***************************************************************************)
(* Handing the physical switch and the LAN between XRAY and the native     *)
(* VPN clients: POST /api/side-switch, /api/native-vpn/{stop,restore},     *)
(* /api/bind_switch and /api/service, the launcher's ON/OFF toggle that    *)
(* chains them, and the part of the init script that touches the same UCI  *)
(* options.                                                                *)
(*                                                                         *)
(* UCI has two levels: `uci set` writes to a staging area in RAM that      *)
(* every reader sees, `uci commit <package>` writes all staged options of  *)
(* the package, whoever staged them, to flash.  A handler is a sequence of *)
(* such commands, each of them one action.  A command may fail: where the  *)
(* handler ignores the error or carries on in spite of it the failure is   *)
(* an action of its own (Failure); where it gives up it is an Abort.       *)
(***************************************************************************)
EXTENDS Naturals, FiniteSets

CONSTANTS
    Handlers,    \* panel requests and launcher clicks being served
    System,      \* the caller that runs boot start and button scripts
    Nobody,      \* the init script's lock is free
    Ops,         \* the operations the Handlers run
    Concurrency, \* how many callers may be active at the same time
    Rules,       \* WireGuard / OpenVPN rules of route_policy
    HomeFunc,    \* the button function the user had before XRAY
    FreeStock,   \* native clients are also turned on while XRAY holds the LAN
    Faults,      \* kinds of commands whose failures are ignored
    Aborts,      \* requests may die half-way (client gone, panic, timeout,
                 \* a command that fails and is not ignored)
    PowerCuts    \* the router may lose power

\* "start" and "restart" stand for all who run the init script so: the panel's
\* service buttons, an activation and the end of a paused scan.
AllOps == {"side_on", "side_off", "toggle_on", "toggle_off", "native_stop", "native_restore",
           "bind_on", "bind_off", "start", "stop", "restart"}
Callers == Handlers \cup {System}

ASSUME SwapAssumption ==
    /\ System \notin Handlers
    /\ Nobody \notin Callers
    /\ Ops \subseteq AllOps
    /\ Concurrency \in Nat \ {0}
    /\ HomeFunc # "xray"
    /\ Faults \subseteq {"read", "write", "restart"}
    /\ {FreeStock, Aborts, PowerCuts} \subseteq BOOLEAN

VARIABLES
    uci,      \* the options as `uci get` reads them
    disk,     \* the options as flash has them
    phys,     \* position of the physical switch
    running,  \* sing-box runs
    up,       \* rules whose wgclient / ovpnclient interface exists
    restart,  \* the init script's background `vpn-client restart` is due
    lock,     \* holder of the init script's lock
    job,      \* what each caller is doing
    wanted,   \* history: the native rules the user has turned on
    cut,      \* history: the power has been lost
    failed,   \* history: the kinds of failures that were ignored so far
    shared    \* history: the user has XRAY and native clients on at once

historyVars == <<wanted, cut, failed, shared>>
vars == <<uci, disk, phys, running, up, restart, lock, job, historyVars>>

\* func: switch-button.@main[0].func; prev: sing-box.config.prev_sw_func;
\* memo: native_vpn_disabled; rules: the enabled rules of route_policy.
Options == [func : {"xray", HomeFunc}, prev : {"", "xray", HomeFunc}, bind : BOOLEAN,
            memo : SUBSET Rules, rules : SUBSET Rules]
SwitchButton == {"func"}
SingBox      == {"prev", "bind", "memo"}
RoutePolicy  == {"rules"}

Steps == {"idle", "onRead", "onPrev", "onFunc", "onBind", "onCommitSwitch", "onCommitSingBox",
          "onProbe", "list", "disable", "disableCommit", "remember", "stopRestart",
          "bindOn", "start", "startMemo", "launch", "stop", "memoRead", "enable", "forget",
          "restoreRestart", "offFunc", "offPrev", "offBind", "offCommitSwitch",
          "offCommitSingBox", "bindOff"}

\* One caller's shell or goroutine: its operation, its next command, the value
\* of func it read and the rules it listed.
Jobs == [op : AllOps \cup {"boot", "pressed", "released"}, pc : Steps,
         cur : {"", "xray", HomeFunc}, rules : SUBSET Rules]
IdleJob == [op |-> "boot", pc |-> "idle", cur |-> HomeFunc, rules |-> {}]

Init ==
    /\ \E R \in SUBSET Rules :
          /\ uci = [func |-> HomeFunc, prev |-> "", bind |-> FALSE, memo |-> {}, rules |-> R]
          /\ up = R
          /\ wanted = R
    /\ disk = uci
    /\ phys \in {"on", "off"}
    /\ running = FALSE
    /\ restart = FALSE
    /\ lock = Nobody
    /\ job = [c \in Callers |-> IdleJob]
    /\ cut = FALSE
    /\ failed = {}
    /\ shared = FALSE

-----------------------------------------------------------------------------
At(c, s)     == job[c].pc = s
Become(c, j) == job' = [job EXCEPT ![c] = j]
Goto(c, s)   == Become(c, [job[c] EXCEPT !.pc = s])
Leave(c)     == Become(c, IdleJob)
GoOn(c, s)   == IF s = "idle" THEN Leave(c) ELSE Goto(c, s)
Active       == {c \in Callers : job[c].pc # "idle"}
Quiet        == Active = {}

\* `uci set` and `uci commit`.
Set(option, value) == uci' = [uci EXCEPT ![option] = value] /\ UNCHANGED disk
Commit(package)    == disk' = [o \in DOMAIN disk |-> IF o \in package THEN uci[o] ELSE disk[o]]

\* `uci set` and `uci commit` of one option, with no command in between that
\* could tell a power cut there from one before both.
SetCommit(option, value, package) ==
    /\ uci' = [uci EXCEPT ![option] = value]
    /\ disk' = [o \in DOMAIN disk |-> IF o \in package THEN uci'[o] ELSE disk[o]]

Bound == uci.func = "xray" \/ uci.bind

\* The hotplug script's test, with HomeFunc a native function or unset.
Owned == uci.func = "xray" \/ (uci.func = "" /\ uci.bind)

-----------------------------------------------------------------------------
(* The first command of each operation, and handleSideSwitch, on = true.   *)

FirstStep(o) ==
    CASE o = "side_on"                              -> "onRead"
      [] o = "side_off"                             -> "memoRead"
      [] o \in {"toggle_on", "native_stop"}         -> "list"
      [] o \in {"toggle_off", "stop", "restart"}    -> "stop"
      [] o = "native_restore"                       -> "enable"
      [] o = "bind_on"                              -> "bindOn"
      [] o = "bind_off"                             -> "bindOff"
      [] o = "start"                                -> "start"

Call(c, o) ==
    /\ At(c, "idle")
    /\ Cardinality(Active) < Concurrency
    /\ Become(c, [IdleJob EXCEPT !.op = o, !.pc = FirstStep(o)])
    /\ UNCHANGED <<uci, disk, phys, running, up, restart, lock, historyVars>>

\* Mutant: every ON takes a snapshot.
OnReadAlways(c) ==
    /\ At(c, "onRead")
    /\ Become(c, [job[c] EXCEPT !.cur = uci.func, !.pc = "onPrev"])
    /\ UNCHANGED <<uci, disk, phys, running, up, restart, lock, historyVars>>

\* Idempotent ON: a snapshot is due only when there is none and func is not ours.
AfterRead(cur, saved) == IF saved = "" /\ cur # "xray" THEN "onPrev" ELSE "onFunc"

OnRead(c) ==
    /\ At(c, "onRead")
    /\ Become(c, [job[c] EXCEPT !.cur = uci.func, !.pc = AfterRead(uci.func, uci.prev)])
    /\ UNCHANGED <<uci, disk, phys, running, up, restart, lock, historyVars>>

OnPrev(c) ==
    /\ At(c, "onPrev")
    /\ Set("prev", job[c].cur)
    /\ Goto(c, "onFunc")
    /\ UNCHANGED <<phys, running, up, restart, lock, historyVars>>

OnFunc(c) ==
    /\ At(c, "onFunc")
    /\ Set("func", "xray")
    /\ Goto(c, "onBind")
    /\ UNCHANGED <<phys, running, up, restart, lock, historyVars>>

OnBind(c) ==
    /\ At(c, "onBind")
    /\ Set("bind", TRUE)
    /\ Goto(c, "onCommitSwitch")
    /\ UNCHANGED <<phys, running, up, restart, lock, historyVars>>

OnCommitSwitch(c) ==
    /\ At(c, "onCommitSwitch")
    /\ Commit(SwitchButton)
    /\ Goto(c, "onCommitSingBox")
    /\ UNCHANGED <<uci, phys, running, up, restart, lock, historyVars>>

OnCommitSingBox(c) ==
    /\ At(c, "onCommitSingBox")
    /\ Commit(SingBox)
    /\ Goto(c, "onProbe")
    /\ UNCHANGED <<uci, phys, running, up, restart, lock, historyVars>>

\* NativeVPNActive looks at the interfaces, not at the rules.
OnProbe(c) ==
    /\ At(c, "onProbe")
    /\ Goto(c, IF up # {} THEN "list" ELSE "bindOn")
    /\ UNCHANGED <<uci, disk, phys, running, up, restart, lock, historyVars>>

-----------------------------------------------------------------------------
(* stopNativeVPN: /api/native-vpn/stop, which toggle_on calls before it    *)
(* starts XRAY, whatever came of it, and the middle of side_on.            *)

AfterStop(c) ==
    CASE job[c].op = "side_on"   -> "bindOn"
      [] job[c].op = "toggle_on" -> "start"
      [] OTHER                   -> "idle"

ListRules(c) ==
    /\ At(c, "list")
    /\ IF uci.rules = {}
         THEN GoOn(c, AfterStop(c))
         ELSE Become(c, [job[c] EXCEPT !.rules = uci.rules, !.pc = "disable"])
    /\ UNCHANGED <<uci, disk, phys, running, up, restart, lock, historyVars>>

Disable(c) ==
    /\ At(c, "disable")
    /\ Set("rules", uci.rules \ job[c].rules)
    /\ Goto(c, "disableCommit")
    /\ UNCHANGED <<phys, running, up, restart, lock, historyVars>>

DisableCommit(c) ==
    /\ At(c, "disableCommit")
    /\ Commit(RoutePolicy)
    /\ Goto(c, IF job[c].rules = {} THEN "stopRestart" ELSE "remember")
    /\ UNCHANGED <<uci, phys, running, up, restart, lock, historyVars>>

\* Mutant: the memo is never written.
RememberNothing(c) ==
    /\ At(c, "remember")
    /\ Goto(c, "stopRestart")
    /\ UNCHANGED <<uci, disk, phys, running, up, restart, lock, historyVars>>

\* Mutant: the rules are stored as one unsplit value.
RememberRaw(c) ==
    /\ At(c, "remember")
    /\ SetCommit("memo", {job[c].rules}, SingBox)
    /\ Goto(c, "stopRestart")
    /\ UNCHANGED <<phys, running, up, restart, lock, historyVars>>

\* Mutant: the memo is staged and never committed.
RememberStaged(c) ==
    /\ At(c, "remember")
    /\ Set("memo", job[c].rules)
    /\ Goto(c, "stopRestart")
    /\ UNCHANGED <<phys, running, up, restart, lock, historyVars>>

Remember(c) ==
    /\ At(c, "remember")
    /\ SetCommit("memo", job[c].rules, SingBox)
    /\ Goto(c, "stopRestart")
    /\ UNCHANGED <<phys, running, up, restart, lock, historyVars>>

\* Mutant: the interfaces are left as they are.
StopRestartNone(c) ==
    /\ At(c, "stopRestart")
    /\ shared' = FALSE
    /\ GoOn(c, AfterStop(c))
    /\ UNCHANGED <<uci, disk, phys, running, up, restart, lock, wanted, cut, failed>>

\* `vpn-client restart`: the interfaces follow the rules.
StopRestart(c) ==
    /\ At(c, "stopRestart")
    /\ up' = uci.rules
    /\ shared' = FALSE
    /\ GoOn(c, AfterStop(c))
    /\ UNCHANGED <<uci, disk, phys, running, restart, lock, wanted, cut, failed>>

-----------------------------------------------------------------------------
(* The init script: bind_switch_on, start_service, stop_service.           *)

\* bind_switch_on, and the hotplug script it runs for the current position.
BindOn(c) ==
    /\ At(c, "bindOn")
    /\ SetCommit("bind", TRUE, SingBox)
    /\ IF uci.func = "xray" \/ uci.func = ""
         THEN Goto(c, IF phys = "on" THEN "start" ELSE "stop")
         ELSE Leave(c)
    /\ UNCHANGED <<phys, running, up, restart, lock, historyVars>>

\* start_service refuses (or handleServiceAction did before it).
StartRefused(c) ==
    /\ At(c, "start")
    /\ lock = Nobody
    /\ Leave(c)
    /\ UNCHANGED <<uci, disk, phys, running, up, restart, lock, historyVars>>

\* stop_native_vpns runs only when the switch is bound to XRAY, which also
\* requires it to be ON; at boot an unbound service does not start.  At any
\* other time it starts next to the native clients.
StartAdmitted(c) ==
    /\ At(c, "start")
    /\ lock = Nobody
    /\ IF Bound THEN phys = "on" ELSE job[c].op # "boot"
    /\ lock' = c
    /\ IF Bound /\ uci.rules # {}
         THEN /\ SetCommit("rules", {}, RoutePolicy)
              /\ Become(c, [job[c] EXCEPT !.rules = uci.rules, !.pc = "startMemo"])
              /\ restart' = TRUE
         ELSE Goto(c, "launch") /\ UNCHANGED <<uci, disk, restart>>
    /\ shared' = (job[c].op \in {"start", "restart"} /\ ~Bound /\ uci.rules # {})
    /\ UNCHANGED <<phys, running, up, wanted, cut, failed>>

\* apply_native_disabled_memo.
StartMemo(c) ==
    /\ At(c, "startMemo")
    /\ SetCommit("memo", job[c].rules, SingBox)
    /\ Goto(c, "launch")
    /\ UNCHANGED <<phys, running, up, restart, lock, historyVars>>

Launch(c) ==
    /\ At(c, "launch")
    /\ running' = TRUE
    /\ lock' = Nobody
    /\ Leave(c)
    /\ UNCHANGED <<uci, disk, phys, up, restart, historyVars>>

\* OFF goes on with restoreNativeVPN; a restart is a stop and a start.
Stop(c) ==
    /\ At(c, "stop")
    /\ lock = Nobody
    /\ running' = FALSE
    /\ shared' = FALSE
    /\ GoOn(c, CASE job[c].op \in {"side_off", "toggle_off"} -> "enable"
                 [] job[c].op = "restart"                   -> "start"
                 [] OTHER                                   -> "idle")
    /\ UNCHANGED <<uci, disk, phys, up, restart, lock, wanted, cut, failed>>

-----------------------------------------------------------------------------
(* restoreNativeVPN and handleSideSwitch, on = false.                      *)

AfterRestore(c) == IF job[c].op = "side_off" THEN "offFunc" ELSE "idle"

\* An empty memo leaves sing-box alone.
MemoRead(c) ==
    /\ At(c, "memoRead")
    /\ Goto(c, IF uci.memo # {} THEN "stop" ELSE "offFunc")
    /\ UNCHANGED <<uci, disk, phys, running, up, restart, lock, historyVars>>

\* restoreNativeVPN reads the memo again; on its own it does not ask whether
\* sing-box runs.
Enable(c) ==
    /\ At(c, "enable")
    /\ IF uci.memo = {}
         THEN GoOn(c, AfterRestore(c)) /\ UNCHANGED <<uci, disk, shared>>
         ELSE /\ SetCommit("rules", uci.rules \cup uci.memo, RoutePolicy)
              /\ shared' = (shared \/ (running /\ job[c].op = "native_restore"))
              /\ Goto(c, "forget")
    /\ UNCHANGED <<phys, running, up, restart, lock, wanted, cut, failed>>

Forget(c) ==
    /\ At(c, "forget")
    /\ SetCommit("memo", {}, SingBox)
    /\ Goto(c, "restoreRestart")
    /\ UNCHANGED <<phys, running, up, restart, lock, historyVars>>

RestoreRestart(c) ==
    /\ At(c, "restoreRestart")
    /\ up' = uci.rules
    /\ GoOn(c, AfterRestore(c))
    /\ UNCHANGED <<uci, disk, phys, running, restart, lock, historyVars>>

\* Mutant: the snapshot is only cleared, never put back.
OffFuncSkip(c) ==
    /\ At(c, "offFunc")
    /\ Goto(c, "offPrev")
    /\ UNCHANGED <<uci, disk, phys, running, up, restart, lock, historyVars>>

OffFunc(c) ==
    /\ At(c, "offFunc")
    /\ IF uci.prev # "" THEN Set("func", uci.prev) ELSE UNCHANGED <<uci, disk>>
    /\ Goto(c, "offPrev")
    /\ UNCHANGED <<phys, running, up, restart, lock, historyVars>>

OffPrev(c) ==
    /\ At(c, "offPrev")
    /\ Set("prev", "")
    /\ Goto(c, "offBind")
    /\ UNCHANGED <<phys, running, up, restart, lock, historyVars>>

OffBind(c) ==
    /\ At(c, "offBind")
    /\ Set("bind", FALSE)
    /\ Goto(c, "offCommitSwitch")
    /\ UNCHANGED <<phys, running, up, restart, lock, historyVars>>

OffCommitSwitch(c) ==
    /\ At(c, "offCommitSwitch")
    /\ Commit(SwitchButton)
    /\ Goto(c, "offCommitSingBox")
    /\ UNCHANGED <<uci, phys, running, up, restart, lock, historyVars>>

OffCommitSingBox(c) ==
    /\ At(c, "offCommitSingBox")
    /\ Commit(SingBox)
    /\ Goto(c, "bindOff")
    /\ UNCHANGED <<uci, phys, running, up, restart, lock, historyVars>>

\* bind_switch_off.
BindOff(c) ==
    /\ At(c, "bindOff")
    /\ SetCommit("bind", FALSE, SingBox)
    /\ Leave(c)
    /\ UNCHANGED <<phys, running, up, restart, lock, historyVars>>

-----------------------------------------------------------------------------
(* The switch, the stock dashboard, failures.                              *)

\* The button script of a flip runs before the next flip.
Flip ==
    /\ At(System, "idle")
    /\ Cardinality(Active) < Concurrency
    /\ phys' = IF phys = "on" THEN "off" ELSE "on"
    /\ IF Owned
         THEN Become(System, [IdleJob EXCEPT !.op = IF phys = "on" THEN "released" ELSE "pressed",
                                             !.pc = IF phys = "on" THEN "stop" ELSE "start"])
         ELSE UNCHANGED job
    /\ UNCHANGED <<uci, disk, running, up, restart, lock, historyVars>>

\* The init script's background restart.
VpnClientRestart ==
    /\ restart
    /\ up' = uci.rules
    /\ restart' = FALSE
    /\ UNCHANGED <<uci, disk, phys, running, lock, job, historyVars>>

\* The user turns a native client on; unless FreeStock only while XRAY is off
\* and has no rules to give back.
EnableNative(r) ==
    /\ r \notin uci.rules
    /\ FreeStock \/ (~running /\ uci.memo = {} /\ Quiet)
    /\ SetCommit("rules", uci.rules \cup {r}, RoutePolicy)
    /\ up' = up \cup {r}
    /\ wanted' = wanted \cup {r}
    /\ UNCHANGED <<phys, running, restart, lock, job, cut, failed, shared>>

\* The remaining commands of a request whose context is gone do not run.
Abort(c) ==
    /\ Aborts
    /\ ~At(c, "idle")
    /\ Leave(c)
    /\ lock' = IF lock = c THEN Nobody ELSE lock
    /\ UNCHANGED <<uci, disk, phys, running, up, restart, historyVars>>

\* Staged options are gone; the boot sequence brings the native clients up and
\* then starts the service.
PowerCut ==
    /\ PowerCuts
    /\ uci' = disk
    /\ up' = disk.rules
    /\ running' = FALSE /\ restart' = FALSE /\ lock' = Nobody
    /\ job' = [c \in Callers |-> IF c = System THEN [IdleJob EXCEPT !.pc = "start"] ELSE IdleJob]
    /\ cut' = TRUE /\ shared' = FALSE
    /\ UNCHANGED <<disk, phys, wanted, failed>>

-----------------------------------------------------------------------------
(* Failures that are ignored.  The init script's own uci commands do not   *)
(* fail in the model.                                                      *)

\* `uci get` or the probe fails: the value passes for empty.
ReadFails(c) ==
    /\ \/ /\ At(c, "onRead")
          /\ \E cur \in {uci.func, ""}, saved \in {uci.prev, ""} :
                /\ <<cur, saved>> # <<uci.func, uci.prev>>
                /\ Become(c, [job[c] EXCEPT !.cur = cur, !.pc = AfterRead(cur, saved)])
       \/ At(c, "onProbe") /\ Goto(c, "bindOn")
       \/ At(c, "list") /\ GoOn(c, AfterStop(c))
       \/ At(c, "memoRead") /\ Goto(c, "offFunc")
       \/ At(c, "enable") /\ GoOn(c, AfterRestore(c))
       \/ At(c, "offFunc") /\ Goto(c, "offPrev")
    /\ UNCHANGED <<uci, disk, up>>

\* stopNativeVPN: some rules stay enabled and are left out of the memo, or the
\* commit of the rules fails, or the memo is not set or not committed.
StopWriteFails(c) ==
    \/ /\ At(c, "disable")
       /\ \E done \in SUBSET job[c].rules \ {job[c].rules} :
             /\ Set("rules", uci.rules \ done)
             /\ Become(c, [job[c] EXCEPT !.rules = done, !.pc = "disableCommit"])
    \/ At(c, "disableCommit") /\ GoOn(c, AfterStop(c)) /\ UNCHANGED <<uci, disk>>
    \/ /\ At(c, "remember")
       /\ \E memo \in {uci.memo, job[c].rules} : Set("memo", memo)
       /\ Goto(c, "stopRestart")

\* restoreNativeVPN: a rule that cannot be enabled is skipped and the memo that
\* names it cleared all the same; the memo is kept when the rules' commit fails.
RestoreWriteFails(c) ==
    \/ /\ At(c, "enable")
       /\ \E done \in SUBSET uci.memo :
             \/ /\ done # uci.memo
                /\ SetCommit("rules", uci.rules \cup done, RoutePolicy)
                /\ Goto(c, "forget")
             \/ /\ uci.memo # {}
                /\ Set("rules", uci.rules \cup done)
                /\ GoOn(c, AfterRestore(c))
    \/ /\ At(c, "forget")
       /\ \E memo \in {uci.memo, {}} : Set("memo", memo)
       /\ Goto(c, "restoreRestart")

WriteFails(c) == (StopWriteFails(c) \/ RestoreWriteFails(c)) /\ UNCHANGED up

\* `vpn-client restart` fails: any interface may be left up, or down.
RestartFails(c) ==
    /\ \/ At(c, "stopRestart") /\ GoOn(c, AfterStop(c))
       \/ At(c, "restoreRestart") /\ GoOn(c, AfterRestore(c))
    /\ \E left \in SUBSET (up \cup uci.rules) : up' = left
    /\ UNCHANGED <<uci, disk>>

Failure(c) ==
    /\ \E kind \in Faults :
          /\ CASE kind = "read"    -> ReadFails(c)
               [] kind = "write"   -> WriteFails(c)
               [] kind = "restart" -> RestartFails(c)
          /\ failed' = failed \cup {kind}
    /\ UNCHANGED <<phys, running, restart, lock, wanted, cut, shared>>

\* The init script's background restart fails.
VpnClientRestartFails ==
    /\ restart /\ "restart" \in Faults
    /\ \E left \in SUBSET (up \cup uci.rules) : up' = left
    /\ restart' = FALSE
    /\ failed' = failed \cup {"restart"}
    /\ UNCHANGED <<uci, disk, phys, running, lock, job, wanted, cut, shared>>

-----------------------------------------------------------------------------
OnStep(c) == \/ OnRead(c) \/ OnPrev(c) \/ OnFunc(c) \/ OnBind(c)
             \/ OnCommitSwitch(c) \/ OnCommitSingBox(c) \/ OnProbe(c)
StopNativeStep(c) == ListRules(c) \/ Disable(c) \/ DisableCommit(c) \/ Remember(c) \/ StopRestart(c)
InitScriptStep(c) == \/ BindOn(c) \/ StartRefused(c) \/ StartAdmitted(c)
                     \/ StartMemo(c) \/ Launch(c) \/ Stop(c)
RestoreStep(c) == MemoRead(c) \/ Enable(c) \/ Forget(c) \/ RestoreRestart(c)
OffStep(c) == \/ OffFunc(c) \/ OffPrev(c) \/ OffBind(c)
              \/ OffCommitSwitch(c) \/ OffCommitSingBox(c) \/ BindOff(c)

Step(c) == OnStep(c) \/ StopNativeStep(c) \/ InitScriptStep(c) \/ RestoreStep(c) \/ OffStep(c)

Next ==
    \/ \E c \in Callers : Step(c)
    \/ \E c \in Handlers, o \in Ops : Call(c, o)
    \/ \E c \in Handlers : Abort(c) \/ Failure(c)
    \/ \E r \in Rules : EnableNative(r)
    \/ Flip \/ VpnClientRestart \/ VpnClientRestartFails \/ PowerCut

Spec == Init /\ [][Next]_vars

-----------------------------------------------------------------------------
TypeOK ==
    /\ uci \in Options /\ disk \in Options
    /\ phys \in {"on", "off"}
    /\ running \in BOOLEAN /\ restart \in BOOLEAN
    /\ up \subseteq Rules /\ wanted \subseteq Rules /\ cut \in BOOLEAN
    /\ failed \subseteq Faults /\ shared \in BOOLEAN
    /\ lock \in Callers \cup {Nobody}
    /\ job \in [Callers -> Jobs]

\* No native client the user turned on is ever forgotten: once the callers are
\* done each is enabled or in the memo that OFF restores from (stopNativeVPN,
\* stop_native_vpns and restoreNativeVPN over any sequence of operations).
\* Power lost between the rules and their memo does lose the list, and so does
\* a `uci set` of a rule that fails.
NativeKept == ~cut /\ "write" \notin failed /\ Quiet => wanted \subseteq uci.rules \cup uci.memo

\* An OFF that comes to its last command has given the switch back ("give the
\* switch back to native"): func is the user's, the snapshot is used up and the
\* binding is gone -- whatever was clicked before, a bare bind_switch included,
\* as long as no `uci get` failed.
FuncRestored ==
    [][\A c \in Callers : job[c].op = "side_off" /\ BindOff(c) /\ ~cut /\ "read" \notin failed =>
           uci'.func = HomeFunc /\ uci'.prev = "" /\ ~uci'.bind]_vars

\* While the switch is claimed the snapshot that OFF needs is there: no second
\* ON, however interleaved, replaces it ("a double-click doesn't overwrite the
\* original with xray").  An ON that could not read it does.
ClaimRemembered == "read" \notin failed /\ uci.func = "xray" => uci.prev = HomeFunc

\* One tunnel at a time: with everything settled, sing-box running means that
\* no native interface is up -- unless the user asked for both (a plain start
\* beside enabled native clients, a bare native-vpn/restore beside XRAY) and
\* has stopped neither since, or a failure was ignored on the way.
OneTunnel == failed = {} /\ Quiet /\ ~restart /\ running /\ ~shared => up = {}

\* No operation leaves an option staged, so a power cut after it loses nothing
\* (unless a `uci commit` failed and was ignored).
NothingStaged == Quiet /\ "write" \notin failed => disk = uci

-----------------------------------------------------------------------------
(* What the documentation says and the code does not keep: each of these   *)
(* has a configuration in which TLC shows a counterexample.                *)

\* side_switch.go: the two packages are committed at the end so that a panic
\* mid-flight cannot leave half-applied state on disk.
NoHalfApplied == Quiet => (disk.func = "xray" <=> disk.bind)

\* launcher: "one tunnel at a time".
OnlyOneTunnel == Quiet /\ ~restart /\ running => up = {}

\* side_switch.go and native_vpn.go: OFF puts back what ON took.
AllPutBack == ~cut /\ Quiet /\ uci.prev = "" /\ uci.memo = {} =>
                  uci.func = HomeFunc /\ wanted \subseteq uci.rules
=============================================================================
