--------------------------- MODULE SingBoxService ---------------------------
(***************************************************************************)
(* The sing-box service of the router: the procd init script, the hotplug  *)
(* script of the physical mode switch, the policy-routing rules both of    *)
(* them edit, and the two UCI flags that gate them (killswitch,            *)
(* bind_switch).                                                           *)
(*                                                                         *)
(* The scripts are shell processes: several run at once and every `ip` or  *)
(* `uci` command of one may fall between two commands of another.  An      *)
(* action is therefore one command with an effect another process can see; *)
(* the reads a script makes in a row to decide one branch are one action.  *)
(* `uci set` followed by `uci commit` of the same package is one action:   *)
(* nothing here distinguishes a power cut between them from one before.    *)
(***************************************************************************)
EXTENDS Naturals, Sequences, FiniteSets

CONSTANTS
    Requests,     \* panel requests, each running one init-script command
    Killable,     \* the Requests whose client may go away, which kills the script
    Hotplug,      \* the caller that runs the button hotplug scripts, in order
    Boot,         \* the caller that runs the boot sequence (START=99)
    NoCaller,     \* nobody holds the service lock
    Concurrency,  \* how many callers may be active at the same time
    MaxEvents,    \* bound: button events waiting for the hotplug caller
    Enabled,      \* UCI sing-box.config.enabled
    SwitchFunc,   \* UCI switch-button.@main[0].func
    CheckResults, \* outcomes `sing-box check` may have on the config on disk
    Rules,        \* WireGuard / OpenVPN rules of route_policy
    PowerCuts     \* whether the router may lose power

Callers == Requests \cup {Hotplug, Boot}

ASSUME CallersAssumption ==
    /\ Hotplug \notin Requests
    /\ Boot \notin Requests \cup {Hotplug}
    /\ NoCaller \notin Callers
    /\ Killable \subseteq Requests

ASSUME SettingsAssumption ==
    /\ Concurrency \in Nat \ {0}
    /\ MaxEvents \in Nat
    /\ Enabled \in BOOLEAN
    /\ SwitchFunc \in {"xray", "native", "none"}
    /\ CheckResults \subseteq BOOLEAN
    /\ PowerCuts \in BOOLEAN

VARIABLES
    phys,        \* position of the physical switch
    early,       \* uptime is below the 120 s of the boot gate
    events,      \* button events the kernel has raised, oldest first
    killswitch,  \* UCI sing-box.config.killswitch
    bind,        \* UCI sing-box.config.bind_switch
    native,      \* the Rules that are enabled in route_policy
    memo,        \* UCI sing-box.config.native_vpn_disabled
    instance,    \* procd has the sing-box instance
    tun,         \* the process is up and sing-tun exists
    vpnRule,     \* ip rule 5000: LAN looks up table 2022 (and FORWARD accepts it)
    killRule,    \* ip rule 5500: LAN is blackholed
    lock,        \* the holder of procd's per-service lock, or NoCaller
    job,         \* what each caller is doing, see Jobs
    alone        \* history: no two commands have overlapped since the last boot

envVars    == <<phys, early, events, alone>>
uciVars    == <<killswitch, bind, native, memo>>
procdVars  == <<instance, tun>>
ruleVars   == <<vpnRule, killRule>>
callerVars == <<lock, job>>
vars == <<envVars, uciVars, procdVars, ruleVars, callerVars>>

ServiceActions == {"start", "stop", "restart", "reload"}
Commands == ServiceActions \cup {"killswitch_on", "killswitch_off",
                                 "bind_switch_on", "bind_switch_off"}
ButtonActions == {"pressed", "released"}
KillCommands == {"killswitch_on", "killswitch_off"}

Steps == {"idle", "guard", "lock", "check", "gate", "natives", "memo", "launch",
          "delRoute", "addRoute", "ksRead", "ksDel", "ksAdd", "kill",
          "setKill", "setBind", "sync", "hotplug", "drop"}

\* The state of one caller's shell: the command it runs, its next step, which
\* of start_service and stop_service it is in, apply_killswitch_state's local
\* `on` and NATIVE_DISABLED.
Jobs == [cmd : Commands \cup ButtonActions, pc : Steps, sub : {"start", "stop"},
         on : BOOLEAN, disabled : SUBSET Rules]

IdleJob == [cmd |-> "start", pc |-> "idle", sub |-> "start",
            on |-> FALSE, disabled |-> {}]

-----------------------------------------------------------------------------
(* What the scripts read.                                                  *)

\* start_service's `bound`: either signal is enough.
Bound == SwitchFunc = "xray" \/ bind

\* The hotplug script yields to a native function even when bind_switch = 1.
Owned == SwitchFunc = "xray" \/ (SwitchFunc = "none" /\ bind)

\* Mutants: start_service does not look at the switch; the boot gate does not
\* ask whether the switch is bound.
RefusedBlind == ~Enabled \/ (~Bound /\ early)
RefusedEarly == ~Enabled \/ early \/ (Bound /\ phys = "off")

\* The three UCI and switch gates of start_service, in its order.
Refused == \/ ~Enabled
           \/ ~Bound /\ early
           \/ Bound /\ phys = "off"

\* Where the kernel sends a packet from the LAN: rule 5000 finds a route only
\* while sing-tun exists, then comes the blackhole, then the rest of the rules.
LanPath == IF vpnRule /\ tun THEN "tunnel"
           ELSE IF killRule THEN "blackhole"
           ELSE "wan"

Active == {c \in Callers : job[c].pc # "idle"}
Quiet  == Active = {} /\ events = <<>>

-----------------------------------------------------------------------------
(* Just booted: UCI may hold any saved flags, the kernel holds no rule and  *)
(* the boot sequence is about to start the service.                         *)

BootJobs == [c \in Callers |-> IF c = Boot THEN [IdleJob EXCEPT !.pc = "lock"] ELSE IdleJob]

Init ==
    /\ phys \in {"on", "off"}
    /\ early = TRUE
    /\ events = <<>>
    /\ killswitch \in BOOLEAN
    /\ bind \in BOOLEAN
    /\ native \in SUBSET Rules
    /\ memo = {}
    /\ instance = FALSE /\ tun = FALSE
    /\ vpnRule = FALSE /\ killRule = FALSE
    /\ lock = NoCaller /\ job = BootJobs
    /\ alone = TRUE

-----------------------------------------------------------------------------
(* Moving a caller along.                                                  *)

At(c, s)     == job[c].pc = s
Become(c, j) == job' = [job EXCEPT ![c] = j]
Goto(c, s)   == Become(c, [job[c] EXCEPT !.pc = s])
Leave(c)     == Become(c, IdleJob)

\* The locked part of a command is over.  Only the hotplug script goes on.
Unlock(c) ==
    /\ lock' = NoCaller
    /\ IF job[c].cmd = "released" THEN Goto(c, "drop") ELSE Leave(c)

\* A caller takes a command: handleServiceAction has a guard of its own before
\* it runs the script, the extra commands start right away.
Entry(k) == CASE k \in ServiceActions -> "guard"
              [] k \in KillCommands -> "setKill"
              [] k \in {"bind_switch_on", "bind_switch_off"} -> "setBind"
              [] k \in ButtonActions -> "hotplug"

Enter(c, k) ==
    /\ At(c, "idle")
    /\ Cardinality(Active) < Concurrency
    /\ Become(c, [IdleJob EXCEPT !.cmd = k, !.pc = Entry(k)])
    /\ alone' = (alone /\ Active = {})

Call(c, k) ==
    /\ Enter(c, k)
    /\ UNCHANGED <<phys, early, events, uciVars, procdVars, ruleVars, lock>>

\* handleServiceAction answers 409 when bind_switch = 1 and the switch is OFF; when it
\* cannot find that out it goes on.
Guard(c) ==
    /\ At(c, "guard")
    /\ \/ job[c].cmd # "stop" /\ bind /\ phys = "off" /\ Leave(c)
       \/ Goto(c, "lock")
    /\ UNCHANGED <<envVars, uciVars, procdVars, ruleVars, lock>>

\* rc.common: procd_lock, then start_service, stop_service or reload_service; its
\* restart is stop and start without letting the lock go.
Acquire(c) ==
    /\ At(c, "lock")
    /\ lock = NoCaller
    /\ lock' = c
    /\ \/ /\ job[c].cmd \in {"start", "pressed"}
          /\ Become(c, [job[c] EXCEPT !.sub = "start", !.pc = "gate"])
       \/ /\ job[c].cmd \in {"stop", "released", "restart"}
          /\ Become(c, [job[c] EXCEPT !.sub = "stop", !.pc = "delRoute"])
       \/ /\ job[c].cmd = "reload"
          /\ Become(c, [job[c] EXCEPT !.sub = "stop", !.pc = "check"])
    /\ UNCHANGED <<envVars, uciVars, procdVars, ruleVars>>

-----------------------------------------------------------------------------
(* start_service, stop_service, reload_service.                            *)

\* reload_service: a config that fails the check stops nothing.
ReloadCheck(c) ==
    /\ At(c, "check")
    /\ \/ TRUE \in CheckResults /\ Goto(c, "delRoute") /\ UNCHANGED lock
       \/ FALSE \in CheckResults /\ Unlock(c)
    /\ UNCHANGED <<envVars, uciVars, procdVars, ruleVars>>

\* start_service returns 1.  procd is then told of a service without an
\* instance: a running one is either dropped or left alone.
Refuse(c) ==
    /\ At(c, "gate")
    /\ Refused \/ FALSE \in CheckResults
    /\ \/ UNCHANGED procdVars
       \/ instance' = FALSE /\ tun' = FALSE
    /\ Unlock(c)
    /\ UNCHANGED <<envVars, uciVars, ruleVars>>

Admit(c) ==
    /\ At(c, "gate")
    /\ ~Refused
    /\ TRUE \in CheckResults
    /\ Goto(c, IF Bound THEN "natives" ELSE "launch")
    /\ UNCHANGED <<envVars, uciVars, procdVars, ruleVars, lock>>

\* stop_native_vpns: every enabled rule is disabled and route_policy committed.
StopNatives(c) ==
    /\ At(c, "natives")
    /\ native' = {}
    /\ Become(c, [job[c] EXCEPT !.disabled = native, !.pc = "memo"])
    /\ UNCHANGED <<envVars, killswitch, bind, memo, procdVars, ruleVars, lock>>

\* Mutant: the list of rules is stored as one unsplit value.
WriteMemoRaw(c) ==
    /\ At(c, "memo")
    /\ memo' = {job[c].disabled}
    /\ Goto(c, "launch")
    /\ UNCHANGED <<envVars, killswitch, bind, native, procdVars, ruleVars, lock>>

\* apply_native_disabled_memo: nothing is written when nothing was disabled.
WriteMemo(c) ==
    /\ At(c, "memo")
    /\ memo' = IF job[c].disabled = {} THEN memo ELSE job[c].disabled
    /\ Goto(c, "launch")
    /\ UNCHANGED <<envVars, killswitch, bind, native, procdVars, ruleVars, lock>>

\* Mutant: start_service registers the instance and forgets apply_lan_routing.
LaunchUnrouted(c) ==
    /\ At(c, "launch")
    /\ instance' = TRUE
    /\ Goto(c, "ksRead")
    /\ UNCHANGED <<envVars, uciVars, tun, ruleVars, lock>>

\* The procd instance.  The wait for sing-tun that follows ends after 15 s
\* whether or not the device appears, so it is only a delay before DelRoute.
Launch(c) ==
    /\ At(c, "launch")
    /\ instance' = TRUE
    /\ Goto(c, "delRoute")
    /\ UNCHANGED <<envVars, uciVars, tun, ruleVars, lock>>

\* `ip rule del priority 5000`, the first command of apply_lan_routing and of
\* remove_lan_routing.
DelRoute(c) ==
    /\ At(c, "delRoute")
    /\ vpnRule' = FALSE
    /\ Goto(c, IF job[c].sub = "start" THEN "addRoute" ELSE "ksRead")
    /\ UNCHANGED <<envVars, uciVars, procdVars, killRule, lock>>

\* Mutant: start_service returns before apply_killswitch_state.
AddRouteOnly(c) ==
    /\ At(c, "addRoute")
    /\ vpnRule' = TRUE
    /\ Unlock(c)
    /\ UNCHANGED <<envVars, uciVars, procdVars, killRule>>

AddRoute(c) ==
    /\ At(c, "addRoute")
    /\ vpnRule' = TRUE
    /\ Goto(c, "ksRead")
    /\ UNCHANGED <<envVars, uciVars, procdVars, killRule, lock>>

\* After apply_killswitch_state: killswitch_on/off return, stop_service hands
\* over to procd, start_service is done.
AfterApply(c) ==
    IF job[c].cmd \in KillCommands THEN Leave(c) /\ UNCHANGED lock
    ELSE IF job[c].sub = "stop" THEN Goto(c, "kill") /\ UNCHANGED lock
    ELSE Unlock(c)

ReadKillswitch(c) ==
    /\ At(c, "ksRead")
    /\ Become(c, [job[c] EXCEPT !.on = killswitch, !.pc = "ksDel"])
    /\ UNCHANGED <<envVars, uciVars, procdVars, ruleVars, lock>>

\* Mutant: apply_killswitch_state only ever adds the rule.
DelKillKeeps(c) ==
    /\ At(c, "ksDel")
    /\ IF job[c].on THEN Goto(c, "ksAdd") /\ UNCHANGED lock ELSE AfterApply(c)
    /\ UNCHANGED <<envVars, uciVars, procdVars, ruleVars>>

DelKill(c) ==
    /\ At(c, "ksDel")
    /\ killRule' = FALSE
    /\ IF job[c].on THEN Goto(c, "ksAdd") /\ UNCHANGED lock ELSE AfterApply(c)
    /\ UNCHANGED <<envVars, uciVars, procdVars, vpnRule>>

AddKill(c) ==
    /\ At(c, "ksAdd")
    /\ killRule' = TRUE
    /\ AfterApply(c)
    /\ UNCHANGED <<envVars, uciVars, procdVars, vpnRule>>

\* procd kills the instance; reload_service (after a sleep) and restart go on
\* with start_service.
Kill(c) ==
    /\ At(c, "kill")
    /\ instance' = FALSE
    /\ tun' = FALSE
    /\ IF job[c].cmd \in {"reload", "restart"}
         THEN Become(c, [job[c] EXCEPT !.sub = "start", !.pc = "gate"]) /\ UNCHANGED lock
         ELSE Unlock(c)
    /\ UNCHANGED <<envVars, uciVars, ruleVars>>

-----------------------------------------------------------------------------
(* The extra commands and the hotplug script.                              *)

SetKillswitch(c) ==
    /\ At(c, "setKill")
    /\ killswitch' = (job[c].cmd = "killswitch_on")
    /\ Goto(c, "ksRead")
    /\ UNCHANGED <<envVars, bind, native, memo, procdVars, ruleVars, lock>>

SetBind(c) ==
    /\ At(c, "setBind")
    /\ bind' = (job[c].cmd = "bind_switch_on")
    /\ IF job[c].cmd = "bind_switch_on" THEN Goto(c, "sync") ELSE Leave(c)
    /\ UNCHANGED <<envVars, killswitch, native, memo, procdVars, ruleVars, lock>>

\* bind_switch_on ends as the hotplug script of the current position.
SyncSwitch(c) ==
    /\ At(c, "sync")
    /\ Become(c, [job[c] EXCEPT !.cmd = IF phys = "on" THEN "pressed" ELSE "released",
                                !.pc = "hotplug"])
    /\ UNCHANGED <<envVars, uciVars, procdVars, ruleVars, lock>>

HotplugGate(c) ==
    /\ At(c, "hotplug")
    /\ IF Owned THEN Goto(c, "lock") ELSE Leave(c)
    /\ UNCHANGED <<envVars, uciVars, procdVars, ruleVars, lock>>

\* Mutant: the hotplug script leaves rule 5500 to stop_service.
DropNothing(c) ==
    /\ At(c, "drop")
    /\ Leave(c)
    /\ UNCHANGED <<envVars, uciVars, procdVars, ruleVars, lock>>

\* Physical OFF means normal routing, even if UCI killswitch = 1.
DropKill(c) ==
    /\ At(c, "drop")
    /\ killRule' = FALSE
    /\ Leave(c)
    /\ UNCHANGED <<envVars, uciVars, procdVars, vpnRule, lock>>

-----------------------------------------------------------------------------
(* The user, procd and the power supply.                                   *)

\* The handlers run the script under the request's context: when the client
\* closes the connection the shell is killed between two of its commands.
Abort(c) ==
    /\ ~At(c, "idle")
    /\ lock' = IF lock = c THEN NoCaller ELSE lock
    /\ Leave(c)
    /\ UNCHANGED <<envVars, uciVars, procdVars, ruleVars>>

Flip ==
    /\ Len(events) < MaxEvents
    /\ phys' = IF phys = "on" THEN "off" ELSE "on"
    /\ events' = Append(events, IF phys = "on" THEN "released" ELSE "pressed")
    /\ UNCHANGED <<early, alone, uciVars, procdVars, ruleVars, callerVars>>

Deliver ==
    /\ events # <<>>
    /\ Enter(Hotplug, Head(events))
    /\ events' = Tail(events)
    /\ UNCHANGED <<phys, early, uciVars, procdVars, ruleVars, lock>>

\* The user turns a native client on in the stock dashboard.
EnableNative(r) ==
    /\ native' = native \cup {r}
    /\ UNCHANGED <<envVars, killswitch, bind, memo, procdVars, ruleVars, callerVars>>

\* procd spawns the process (for the first time or again); it may crash.
TunUp ==
    /\ instance /\ ~tun
    /\ tun' = TRUE
    /\ UNCHANGED <<envVars, uciVars, instance, ruleVars, callerVars>>

TunDown ==
    /\ tun
    /\ tun' = FALSE
    /\ UNCHANGED <<envVars, uciVars, instance, ruleVars, callerVars>>

UptimePasses ==
    /\ early
    /\ early' = FALSE
    /\ UNCHANGED <<phys, events, alone, uciVars, procdVars, ruleVars, callerVars>>

\* UCI is on flash; the rules, the processes and the pending events are not.
PowerCut ==
    /\ PowerCuts
    /\ early' = TRUE
    /\ events' = <<>>
    /\ instance' = FALSE /\ tun' = FALSE
    /\ vpnRule' = FALSE /\ killRule' = FALSE
    /\ lock' = NoCaller /\ job' = BootJobs
    /\ alone' = TRUE
    /\ UNCHANGED <<phys, uciVars>>

-----------------------------------------------------------------------------
ServiceStep(c) ==
    \/ Acquire(c) \/ ReloadCheck(c) \/ Refuse(c) \/ Admit(c)
    \/ StopNatives(c) \/ WriteMemo(c) \/ Launch(c) \/ DelRoute(c) \/ AddRoute(c)
    \/ Kill(c)

ApplyStep(c) == ReadKillswitch(c) \/ DelKill(c) \/ AddKill(c)

SwitchStep(c) ==
    Guard(c) \/ SetKillswitch(c) \/ SetBind(c) \/ SyncSwitch(c) \/ HotplugGate(c) \/ DropKill(c)

Step(c) == ServiceStep(c) \/ ApplyStep(c) \/ SwitchStep(c)

Environment ==
    \/ Flip \/ Deliver \/ TunUp \/ TunDown \/ UptimePasses \/ PowerCut
    \/ \E r \in Rules : EnableNative(r)
    \/ \E c \in Killable : Abort(c)

Next ==
    \/ \E c \in Callers : Step(c)
    \/ \E c \in Requests, k \in Commands : Call(c, k)
    \/ Environment

Spec == Init /\ [][Next]_vars

\* Scripts run to their end, the hotplug caller takes the events it has and
\* time passes; nothing obliges the user, the process or the power supply.
Fairness ==
    /\ \A c \in Callers : WF_vars(Step(c))
    /\ WF_vars(Deliver)
    /\ WF_vars(UptimePasses)

FairSpec == Spec /\ Fairness

-----------------------------------------------------------------------------
TypeOK ==
    /\ phys \in {"on", "off"}
    /\ early \in BOOLEAN
    /\ events \in Seq(ButtonActions)
    /\ killswitch \in BOOLEAN /\ bind \in BOOLEAN
    /\ native \subseteq Rules /\ memo \subseteq Rules
    /\ instance \in BOOLEAN /\ tun \in BOOLEAN
    /\ vpnRule \in BOOLEAN /\ killRule \in BOOLEAN
    /\ lock \in Callers \cup {NoCaller}
    /\ job \in [Callers -> Jobs]
    /\ alone \in BOOLEAN

\* Whenever no start, stop or reload is in progress, a service procd runs has
\* its LAN rule: however those commands interleave, the tunnel is never up
\* with the LAN routed around it (apply_lan_routing / remove_lan_routing
\* against procd's instance).  README.md: "sing-box up" is LAN "through
\* sing-tun (prio 5000)"; a script killed half-way breaks it.
TunnelRouted == lock = NoCaller /\ instance => vpnRule

\* Once the scripts are done and no button event is pending, a switch that is
\* ours and OFF means sing-box is stopped, whatever mix of flips, panel starts,
\* reloads and bind_switch commands led there (the switch gate of
\* start_service, the hotplug script and bind_switch_on's sync together).
SwitchOffStops == Quiet /\ Owned /\ phys = "off" => ~instance

\* As long as commands do not overlap: killswitch = 1 and the service started
\* means that LAN traffic is in the tunnel or dropped, also after the process
\* dies (apply_killswitch_state at the end of start_service and stop_service).
GuardedTunnel == alone /\ Quiet /\ killswitch /\ instance => LanPath # "wan"

\* As long as commands do not overlap: killswitch = 0 never leaves the LAN
\* blackholed (killswitch_off against every other writer of rule 5500).
NoStaleBlackhole == alone /\ Quiet /\ ~killswitch => ~killRule

\* A switch left ON ends with the service started, one left OFF with the
\* service stopped and the LAN on normal routing even if killswitch = 1.
SwitchOnStarts == <>[](phys = "on") => <>[]instance
SwitchOffFrees == <>[](phys = "off") => <>[](~instance /\ LanPath = "wan")

-----------------------------------------------------------------------------
(* What the documentation says and the code does not keep: each of these   *)
(* has a configuration in which TLC shows a counterexample.                *)

\* The same in any context, as README.md says of "Killswitch OFF": it does not
\* hold for commands that overlap.
NeverStaleBlackhole == Quiet /\ ~killswitch => ~killRule

\* README.md, boot table: with killswitch = 1 a service that does not start at
\* boot leaves the LAN dropped.
KillswitchAtBoot == Quiet /\ killswitch => LanPath # "wan"

\* README.md, boot table: enabled = 1 and bind_switch = 0 means sing-box has
\* started once the boot sequence is over.
StartsAtBoot == Quiet /\ Enabled /\ ~bind => instance

\* README.md, the rule under the state table: with the killswitch on the LAN
\* is dropped always when the tunnel is not working, a manual stop included,
\* so no command lets packets out of a LAN that has its blackhole.
NoLeakWindow ==
    [][killswitch /\ killswitch' /\ killRule => LanPath' # "wan"]_vars
=============================================================================
