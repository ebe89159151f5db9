# Verification of the Beryl XRAY web console

The repository turns a GL.iNet Beryl router into a switchable VLESS gateway.  Shell
scripts on the router (an init script, a hotplug script for the physical switch)
start and stop sing-box and edit policy-routing rules; a Go panel serves a web UI
that runs those scripts, edits UCI options, keeps the list of VLESS profiles,
renders the sing-box configuration and scans public server lists ("Scout").  A
JavaScript launcher in the stock dashboard calls the panel as well.

Nothing of this is distributed, but almost all of it is concurrent: several
shells, several HTTP handlers, goroutines, procd and the kernel share UCI, a few
files, two `ip rule`s and one process.  The modules here are about those
interleavings, and about requests, power and processes that end half-way.

## The system's parts

| Part | Source | State it keeps | Operations | Talks to |
|---|---|---|---|---|
| Init script | `router/etc/init.d/sing-box` | rules 5000 and 5500, procd instance, the memo `native_vpn_disabled` | start, stop, restart, reload, killswitch_on/off, bind_switch_on/off, boot | UCI, procd, kernel, route_policy, hotplug script |
| Hotplug script | `router/etc/hotplug.d/button/50-sing-box-switch` | none | pressed, released | init script, rule 5500 |
| Service control | `internal/http/service.go`, `internal/service`, `internal/runner` | none | /api/service, killswitch, bind-switch | init script, under the request's context |
| Side switch, native VPN | `internal/http/side_switch.go`, `native_vpn.go`, `internal/ucitool` | UCI func, prev_sw_func, bind_switch, memo, enabled rules | claim and release the switch, stop and restore the native clients | uci, init script, `vpn-client restart` |
| Launcher | `router/www/xray-panel-launcher.js` | last polled state | toggle ON/OFF, side switch | panel |
| Profile store | `internal/store` | `profiles.json`, mutex | List, Get, Add, Update, Delete | file |
| Renderer | `internal/singbox` | `config.json`, `config.json.tmp` | Render, check, write | `sing-box check` |
| Profile handlers | `internal/http/profiles.go`, `cmd/panel-rerender` | UCI active_profile | import, PATCH, delete, activate, re-render | store, renderer, uci, clash API, init script |
| Scan registry | `internal/http/scan.go` | scans in memory, current scan, snapshots on disk | start, status, cancel, results | vetlib, init script |
| Scan pipeline | `internal/vetlib`, and `cmd/vless-vet` beside it | entries, worker pools, progress channel | Parse, Probe, DeepProbe, rank, report | network, a sing-box per deep probe |
| Source list | `internal/http/sources.go`, `openSourceInputs` of `scan.go` | `sources.json` and its temporary file | add, update, delete, refresh, fetch for a scan | file, network |
| State and live caches | `internal/http/state.go`, `live.go` | one cached snapshot, a pending refresh | GET | probes |
| Exit-IP poller | `internal/exitip` | last IP | poll, Invalidate, RefreshNow | HTTP |
| Logs | `internal/logs`, `internal/http/logs.go` | follower, subscribers and their channels | tail, SSE stream | file |
| The rest | config, auth, guards, vless parser, QR, web UI, install and backup scripts | | | |

What makes each modelled part correct:

* **Service.** However commands overlap, a service that procd runs has its LAN rule; a
  switch that belongs to XRAY and is OFF means a stopped service and normal routing; the
  killswitch flag and rule 5500 agree.
* **Side switch.** While requests come one at a time and no command fails behind a handler's
  back: the user's button function and native clients are not lost; sing-box and a native
  client run together only if the user asked for both; nothing stays staged in UCI.  The
  code does not keep this without the restrictions (see the counterexamples below).
* **Profiles.** The list is exact under any interleaving; sing-box never runs a profile
  its check rejects and its selector points to an outbound that exists; one request at a
  time leaves list, file, UCI option and running selector in agreement.
* **Scans.** While start requests come one at a time there is one pipeline, and a running scan
  can be found and cancelled; a paused tunnel comes back; memory stays in its bounds; a result
  that was written stays on disk until newer ones take its place; every scan ends.
* **Cached pages.** One collection at a time however many tabs poll; nobody gets an expired
  page or waits for ever; no byte is counted into two rates; the exit address settles.
* **Vetting.** Nobody is counted twice, nor reported alive without an answer that came through
  its own sing-box or, where two probes were given one port, the other's; deep probes are shared
  fairly among countries; the report holds exactly who passed.
* **Source list.** The file always parses and is what the answered requests add up to.
* **Logs.** A browser sees whole lines in the order they were written; a follower nobody
  listens to ends.

## Modules

| Module | Models | Composed with |
|---|---|---|
| `SingBoxService` | init script, hotplug script, service control, procd and kernel as far as they are seen | - |
| `SingBoxServiceProofs` | proofs about `SingBoxService` | extends it |
| `SideSwitch` | side switch, native VPN, bind-switch and service handlers, launcher toggle, and the init script's part in the same UCI options | the init script's commands are actions of the same module |
| `SideSwitchProofs` | proofs about `SideSwitch` | extends it |
| `Profiles` | store, renderer, profile handlers, re-render tool, and what sing-box loads | - |
| `ProfilesProofs` | proofs about `Profiles` | extends it |
| `ScanRegistry` | scan handlers, `runScan`, `applyProgress`, `vetlib.Run` as stages and messages, pauses, snapshots | the pipeline and the registry are actions of one module |
| `ScanRegistryProofs` | proofs about `ScanRegistry` | extends it |
| `SharedAnswer` | abstract: what the panel promises the readers of a cached page | `CachedPage` implements it |
| `CachedPage` | `handleState`, `handleLive`, their caches, the clash counters, the exit-IP poller | instantiates `SharedAnswer` under a mapping |
| `CachedPageProofs` | proofs about `CachedPage`, the refinement among them | extends it |
| `Vetting` | `vetlib.Run` and `vless-vet`: parsing, worker pools, ranking, report | - |
| `VettingProofs` | proofs about `Vetting` | extends it |
| `SourceList` | the handlers of /api/sources, the fetch of a scan, `sources.json` | - |
| `SourceListProofs` | proofs about `SourceList` | extends it |
| `LogStream` | `Tail`, hub, `Follow`, `fanOut`, SSE streams, the log file | - |
| `LogStreamProofs` | proofs about `LogStream` | extends it |
| `MC*` | symmetry sets and small definitions for TLC | extend the module they are named after |

In each module `job` (or `scan`, `handler`) holds a caller's program counter and the
locals it carries from one step to a later one.  An action is a stretch of code that no
other process can see into: one shell command with an outside effect together with the
reads before it, one critical section, one file operation, one message.  `PROJECT.json`
names, for each definition, the lines it stands for.

### SingBoxService

`Call`, `Guard` and `Enter` are `handleServiceAction` with its 409 guard, which lets a request
pass when its probe of the state fails; `Acquire` is
rc.common's `procd_lock`, which killswitch_on/off do **not** take.  `Refuse`, `Admit`,
`StopNatives`, `WriteMemo`, `Launch`, `AddRoute` are `start_service` in its order,
`DelRoute`, `ReadKillswitch`, `DelKill`, `AddKill`, `Kill` are `stop_service` and
`apply_killswitch_state` (a start runs them as well).  `SyncSwitch`, `HotplugGate`,
`DropKill` are bind_switch_on's sync and the hotplug script.  `Abort` is
`exec.CommandContext` killing the shell when the client goes away.  External, modelled
from how the scripts use them: the procd lock and instance, spawn, crash and respawn
(`TunUp`, `TunDown`), the kernel's rule order (`LanPath`), the stock dashboard
(`EnableNative`).  Whether a start that returns 1 makes procd drop a running instance is
left open: `Refuse` may do either.  `alone` is a history variable: no two commands have
overlapped since the last boot.

### SideSwitch

UCI is two functions, `uci` (what `uci get` returns, staged values included) and `disk`
(what was committed); `uci commit` writes every staged option of its package, whoever
staged it.  `side_on` and `side_off` are one action per uci command; `toggle_on` and
`toggle_off` are the launcher's chains; `native_stop` and `native_restore`, `bind_on` and
`bind_off`, `start`, `stop` and `restart` are the bare requests to /api/native-vpn,
/api/bind_switch and /api/service, the last three also for an activation and the end of a
paused scan.  The init script is reduced to what touches the shared options.  `HomeFunc` is
the function the user's switch had.

A command that fails makes the handler give up (`Abort`, whatever the cause), or the error is
dropped: those are `Failure`.  `ReadFails`: a `uci get` or a probe whose error reads as the
empty string (side_switch.go:75-76, :156).  `WriteFails`: some rules are not set and left out of
the memo, or skipped by a restore that clears the memo all the same (native_vpn.go:163-173), or
a commit fails.  `RestartFails`: `vpn-client restart` leaves any of the interfaces up
(native_vpn.go:62).  `VpnClientRestartFails` is the same of the init script's background
restart.  The constant `Faults` says which kinds there are.  The init script's own uci commands
are assumed to succeed.

`wanted`, `cut`, `failed` and `shared` are history: native rules the user turned on; the power
was lost; the kinds of failures that were dropped so far; the user has asked for both tunnels
(an unbound start beside enabled native clients, which :120 leaves up, or a bare restore beside
XRAY) and has stopped neither since.

### Profiles

Only the five store operations are atomic.  A write of `config.json` is three actions
(`Open` truncates the one temporary file, `Fill` writes it, `Rename` moves it), and a
descriptor follows its file through a rename.  A profile's data is a record of two
abstract fields, enough for edits that conflict and for data the check rejects.
`minted` and `expected` are history.

`panel-rerender` may carry `-active` (cmd/panel-rerender/main.go:31, :48), which overrides the UCI
option: a `rerender` with an id, from `Flags`.  The field `flag` of a file (history) says that
its default was chosen so; `ActiveSelected` names that case, and nothing else is excused by it.
`-no-reload` is `NoReload`.

### ScanRegistry

A scan is a record: its stage as the status shows it, its position in `runScan`, its
context, its progress channel (bounded, lossy when full) and whether its reader lives.
`Busy` is the admission test, `Evict` the registry's eviction, `Rotate` the snapshot
directory: a file has the id it is named after, the scan whose result it holds and its
modification time, so a scan of the same second that overwrites another's file (scan.go:725)
shows.  `SnapshotFails` is a write that fails, which is only logged (:369-376): there is no file,
or one that is cut off, and nothing is rotated.  `owed` and `written` are history: a scan stopped
sing-box and nobody has started it since; when a scan's result was written, and whether that
worked.

### CachedPage and SharedAnswer

`page` says which of three small systems is at work: /api/state, /api/live or the exit-IP
poller.  The first two share their control, so they share their actions: `ServeCached`,
`JoinRefresh` and `BeginRefresh` are the three ways out of the first critical section,
`Probe` (state) or `ReadExitIP` and `ReadTraffic` (live) fill the slot, `Publish` is the
second critical section, `Reply` closes the channel and `Wake` is a waiter.  `Leave` is a
client that goes away, which cancels the context of a collection others wait for.  A
block's value is the moment it was read; the live page also keeps byte counters.  In the
poller `FetchSend` and `FetchStore` / `FetchFail` are the two ends of `fetchOnce`, and
`Nudge` is `Invalidate` plus a goroutine.

`SharedAnswer` knows a clock, who waits since when, whether a collection is under way and
which pages were collected.  The mapping: `asked` is the request's time for a client that is
still there and waits, `begun` the begin of the pending slot, `answers` the pages of the
published slots.  `Promise` is `SA!Spec` under that mapping.

### Vetting

`run.tool` chooses between the panel's pipeline and the command, which share the shape
(feeder, channel, workers, counters) and differ in stages, deduplication, order and
grouping; guards say where.  An entry is fed, taken, dialled (`Dial`), counted and reported
(`Counted`, `Send`); a deep probe goes through `PickPort`, `StartBox`, `Get`, `Kill`, with
`GiveUp` for every error and `Bind` for the sing-box it started.  `pickEphemeralPort` closes its
listener before sing-box binds (deep.go:257-265), so `PickPort` may name a port another probe has;
`clashes` is history of such pairs.  That another program of the host takes the port is not in
the model.  The sorting functions are
one operator, `ByKey`, with the key of each comparison function: a triple of numbers, no two
the same, so that stability needs no notion of its own.  The parser's input is the set of
the lines' places (`Separated`, `Chained`), in the order of the file by `ByKey` again.  `real` is
whether a candidate carries traffic: history that only `Get` of the right sing-box may read.

### SourceList

Each request has a store, hence a mutex, of its own, so the mutex is not in the model.  What
is there are two names, `main` and `tmp`, for files with contents: `Open` cuts the shared
temporary file to nothing, `Write` fills it, `Rename` moves it, each by whichever request is
next; `WriteFails` is an open or write that fails, which ends an edit and is ignored by a fetch.
An add may carry enabled = false, and a PATCH sets the flag to what it may already be.
`truth` (what the answered requests add up to), `seen` (the last two fetches of a source) and
`overlap` are history.

### LogStream

The log is a sequence of numbered half-lines, the even ones with the newline: torn, joined,
repeated and lost lines can all be told from the numbers.  `Seed` is the backfill,
`Subscribe` and `Unsubscribe` the hub's two critical sections; `Seek`, `Stat`, `Read`, `Push`
and `Stop` are `Follow`, between whose stat and open the file may change; `Take`, `FanOut`
and `Quit` are `fanOut`.  A follower that was cancelled runs on until it notices, which is
why there are several.  `lost`, `racing` and `slipped` are history.

## Runs

States are distinct states; times on two cores.

| Run | Question | Bounds | States |
|---|---|---|---|
| `service_concurrent` | TunnelRouted under full concurrency; GuardedTunnel, NoStaleBlackhole until commands overlap | 2 requests + boot + hotplug, 3 active, 1 queued event, no native function, either config check, power cuts | 2.8 M, 1 min |
| `service_switch` | SwitchOnStarts, SwitchOffFrees: does the position of the switch decide in the end? | no requests, 2 queued events, function xray | liveness |
| `service_killed` | SwitchOffStops: is OFF safe from half-run scripts? Types with native rules | 1 killable request, 1 rule, power cuts | 2.6 M, 50 s |
| `swap_sequential` | NativeKept, FuncRestored, NothingStaged, OneTunnel | 1 handler at a time, all 11 operations, 2 rules, dropped failures of all three kinds, power cuts anywhere | 7.1 M, 2.5 min |
| `swap_double_on` | ClaimRemembered: does any overlap of ON requests lose the user's function? | 2 handlers + switch, 6 operations, 1 rule, aborts, free use of the stock dashboard | 2.7 M, 1 min |
| `profiles_sequential` | TunnelCurrent, ActiveSelected, EditsKept: list, file, option and selector agree | 1 handler, 3 profiles, 3 kinds of edit, -active of any profile | 1.0 M, 20 s |
| `profiles_concurrent` | StoreExact, DefaultExists, OnlyChecked | 2 handlers, 2 profiles, all five operations, flaky tools, aborts | 2.7 M, 1 min |
| `scan_ends` | ScansEnd (liveness), OnePipeline, Bounded, ResultKept, PauseEnds, Findable | 2 scans, registry and directory of 1, channel of 1, same-second ids, timeouts, cancels, failed sources, failed snapshot writes | 1.1 M, 4 min |
| `cached_pages` | Promise (refinement), Answered and ExitSettles (liveness), RateTrue | 2 clients, 3 requests, 2 state blocks, TTL and deadline of 1 in a clock up to 2, 1 loop, 1 nudge, 1 failed fetch | 0.7 M, 2.5 min |
| `vetting` | Tally, DeepProves, FairPicks, Reported | 2 inputs of up to 4 links in 3 countries (one unknown), all options of both programs, 2 workers, channel of 1, 2 ports either of which may be named twice, 2 deep slots | 2.8 M, 1 min |
| `log_stream` | InOrder, TailExact, Quiet (liveness) | 2 clients, 2 streams, 2 followers, channels of 1, 2 lines in halves, 1 truncation, replacement or removal, chunks of 1 | 0.3 M, 1.5 min |
| `sources` | StoreKept, UnchangedTrue | 2 requests at a time, 3 in all, 1 preset, 1 user source, 1 change of a body, failed writes, crashes | 2.0 M, 40 s |

Why the bounds are enough.  A race in these programs is between two callers, or between
one caller and an event; two requests beside boot and hotplug give every pair, and three
active callers every triple around the service lock.  One queued event already lets a flip
fall behind a running script; `service_switch` uses two so that a flip and its reversal
are queued together.  Two native rules separate "the memo lost one" from "the memo lost
all".  Two profiles are what delete-against-activate needs, three let the list lose one in
the middle.  The scan bounds are chosen so that the registry and the directory are both
full and one over (two scans against one place), and that a channel of one overflows.
Counters never bounded by the code are `started` (MaxScans), `sent` (Reports) and `events`
(MaxEvents); ids are a finite set.  The constants that say which failures there are (`Faults`,
`WritesFail`, `Flaky`, `Aborts`, `Crashes`, ...) and which flags (`Flags`) bound the environment,
not the code.  `ScanRegistry` is checked without deadlock detection:
once MaxScans scans are over, and also in the real system once a scan is stuck in a stage
the admission test takes for running, no request is admitted.  `cached_pages`,
`log_stream` and `sources` check no deadlock either: they end when their clients have asked
what they may ask.  `vetting` does, which is how it shows that both pools always end.

Two clients make a refresher and a waiter, and the third request comes to a page that is
cached or has expired; a clock of two steps reaches both sides of TTL and of the deadline.
Three links of one country and another, against two slots, make a country wait and a round
stop half-way; a channel of one makes the feeder wait.  Two streams make a follower that is
cancelled while the next one starts; `Combined = FALSE` leaves out, for size, only a turned
file after such an overlap, where InOrder promises nothing anyway.  Two requests on two file
names are what any lost update and any torn file need.

`service_concurrent` uses function `none` (so that bind_switch decides who owns the switch)
and `service_switch`, `service_killed` use `xray`.  With `none`, a bind_switch_on killed
between its flag and its sync would leave an OFF switch beside a running service, which is
why `service_killed` is about `xray`.

Every property has a mutant: one definition is replaced by a plausible bug (a gate that
does not ask for the switch, an ON that always snapshots, a check whose verdict is
ignored, ...) and TLC then finds the property violated.  The mutated forms stand in the
modules, before the definitions they stand in for.

## Fairness

Only steps of running code are fair.  `SingBoxService`: every caller inside a script goes
on (weak fairness on `Step(c)`; shells are scheduled, and each wait in the scripts has a
limit), the hotplug caller takes queued events (procd runs button handlers in order), and
uptime passes.  `ScanRegistry`: handler and pipeline steps and the progress reader
(goroutines; every network wait is under a timeout).  `CachedPage`: the handler of each
client (every probe runs under the collection's deadline) and each fetch of the poller
(its HTTP client has a timeout); not the clock, the clients or the echo service, which may
answer or fail.  `LogStream`: the goroutines of each follower, with strong fairness of
`Stop` and `Quit`, because `select` chooses among ready cases at random: an end that stays
ready cannot lose to the other case each time.  Nothing is assumed of the user, of
timers, of the process that may crash, or of the power.  `SwitchOffFrees` needs no
fairness of the process: a crashed sing-box is the same to it.

## Theorems

Each theorem holds for every value of the constants of its module (any number of clients,
handlers, rules, profiles, sources; any bound), from the module's own named assumption and
the hypotheses in its `ASSUME`.  A hypothesis restricts the environment to what the matching
run checks, and the configurations of the next section show what happens without it.  A
property speaks of the moments at which everybody is done, or of part of the state, so it
is seldom inductive; the proof is in each case an invariant that says what is true in the
middle of every handler, one lemma per action (or group of actions that change the same
things) that it is kept, and PTL.  TLC has checked every one of these invariants on the
instance of the run, or on a smaller one, before it was proved.

### SingBoxServiceProofs

From `CallersAssumption` and `SettingsAssumption`.

| Theorem | Property | Hypotheses |
|---|---|---|
| `TypeCorrect` | TypeOK | none |
| `TunnelAlwaysRouted` | TunnelRouted | `Killable = {}` |
| `NoBlackholeLeft` | NoStaleBlackhole | `Killable = {}` |
| `TunnelIsGuarded` | GuardedTunnel | `Killable = {}` |
| `SwitchOffAlwaysStops` | SwitchOffStops | `SwitchFunc # "none"` or `Killable = {}` |

All of them rest on

    HoldInv == TypeOK /\ LockInv /\ JobInv

* `LockInv`: a caller inside a locked command is the holder of the lock.
  `apply_killswitch_state` counts as locked only when start or stop runs it.
* `JobInv`: which commands and which half (`start` / `stop`) each step belongs to, so that
  killswitch commands are known never to be in a step that needs the lock.

`TunnelAlwaysRouted` adds `RouteInv`: an instance without its rule is unfinished work of some
caller, either a start before `AddRoute` or a stop before `Kill`.  With the lock free
`LockInv` leaves no such caller, hence the rule.  Lemmas `OneCaller` and `RouteKept` carry
the parts over any step that changes one caller; each action then only shows that the
caller's new state respects them.

`NoBlackholeLeft` and `TunnelIsGuarded` add `StopInv` (a release only runs the stop half) and
`AloneInv`: while no two commands have overlapped there is one active caller, flag and rule
5500 agree before it reads the flag and after it has set the rule, and in between its
local copy of the flag is the flag.

`SwitchOffAlwaysStops` adds `LastEvent` (the last queued event is the switch's position) and:
if the switch is ours and OFF while the service runs or a start is past its gate, then an
event is queued or a caller that cannot be killed is at, or before, the step that stops it.

Why the hypotheses: a script killed with its request releases the lock with its work
unfinished (`service_abort.cfg`), and with the function unset a bind_switch_on killed
between its flag and its sync leaves the service as it was.

### SideSwitchProofs

| Theorem | Property | Hypotheses |
|---|---|---|
| `TypeCorrect` | TypeOK | none |
| `ClaimIsRemembered` | ClaimRemembered | no full OFF (`"side_off" \notin Ops`), no power cuts |
| `NothingStaysStaged` | NothingStaged | `Aborts = FALSE` |
| `OneTunnelAtATime` | OneTunnel | finitely many handlers, one at a time, `FreeStock = FALSE`, `Aborts = FALSE` |
| `NativeIsKept` | NativeKept | the same |
| `FuncIsRestored` | FuncRestored | finitely many handlers, one at a time, `Aborts = FALSE`, `HomeFunc # ""` |

* `ClaimInv`: the snapshot is empty or the user's function; who is about to take it has read
  the user's function, and who is about to claim has a snapshot.  It needs no bound on
  concurrency: any number of double ONs, dying anywhere.  Releasing clears the snapshot on
  purpose, and a power cut between the commits loses it.
* `StagedInv`: an option whose committed value differs from what `uci get` shows has a caller
  between the set and the commit that covers it (`Between`).
* `SeqInv`: with one caller at a time, `Fits` says of the caller's job, and of an idle job
  when all is quiet: the interfaces follow the rules except where a restart is still due
  (`Synced`); whoever may launch sing-box has seen the natives off (`Guarded`); and every rule
  the user wanted is enabled, in the memo, or in the job's local list on its way to it
  (`Held`, until the power was cut).
* `ButtonInv`: with one caller at a time, func and snapshot are those of a claimed or of a
  released switch, and in the middle of a change those that the step implies; the binding may
  be either, because of bare bind-switch requests.

The operations are all eleven of `AllOps` (`Ops` is any subset), and `Faults` is any set of
failures.  What a failure that nobody reports breaks is said by the properties themselves, so
that it stands in every theorem: `OneTunnel` holds until one was dropped (`failed = {}`) and
unless the user has asked for both tunnels (`~shared`); `NativeKept` and `NothingStaged` until a
write was dropped; `FuncRestored` and `ClaimRemembered` until a read was.
`NativeKept` and `FuncRestored` also end with a power cut.  `FuncRestored` is an action
property: the last command of an OFF leaves func, snapshot and binding as they were before XRAY.

Why the hypotheses: each has its counterexample (`swap_on_off_race.cfg`, `swap_unset_func.cfg`,
`swap_memo_overwrite.cfg`, `swap_half_applied.cfg`), and so has what the properties except
(`swap_claims.cfg`).  `OneTunnel` and `NativeKept` keep power
cuts in: the theorems hold for a cut at any step, after which NativeKept promises nothing.

### ProfilesProofs

| Theorem | Property | Hypotheses |
|---|---|---|
| `TypeCorrect` | TypeOK | none |
| `StoreIsExact` | StoreExact | none |
| `DefaultAlwaysExists` | DefaultExists | none |
| `OnlyCheckedRuns` | OnlyChecked | none |
| `TunnelIsCurrent` | TunnelCurrent | finitely many handlers, one at a time, `~Flaky`, `~Aborts`, `Bad = {}` |
| `ActiveIsSelected` | ActiveSelected | the same |
| `EditsAreKept` | EditsKept | finitely many handlers, one at a time |

The first four are about any number of requests at once, from

    IInv == TypeOK /\ JobsInv /\ ListInv /\ FileInv

* `ListInv`: ids are distinct and those that were imported and not deleted.
* `FileInv`: `config.json`, the temporary file and what sing-box has loaded are each torn,
  absent, or whole with a default among their outbounds and data the check accepts.
* `JobsInv`: a handler that opens or fills the temporary file has a list that passed the check.

That a rename moves whatever the temporary file holds, of whichever request, is harmless to
`FileInv` because every filler has checked its own list.  The next two (with
`-active` and `-no-reload`) add `StageInv`: for each step of each operation, what the list, the
file, the option and the selector have in common by then.  `EditInv` says that a PATCH about to
be stored has read the current profile. With two requests at once all three fail
(`profiles_two_patches.cfg`, `profiles_delete_race.cfg`), and with a failing command the file
and the option may part.

### ScanRegistryProofs

| Theorem | Property | Hypotheses |
|---|---|---|
| `TypeCorrect` | types of `TypeOK` (`scan_registry.cfg`) | none |
| `AlwaysBounded` | Bounded | none |
| `OnePipelineAtATime` | OnePipeline | one start request at a time |
| `AlwaysFindable` | Findable | one start request at a time |
| `PauseAlwaysEnds` | PauseEnds | none |
| `ResultIsKept` | ResultKept | none |

    IInv == TypeInv /\ DirInv /\ ScanInv /\ RecentInv /\ PendingInv

* `DirInv`: the directory is sorted, newest first, the next file will be newer than all that was
  written, and there are no more than `ScansKeep` unless a write failed.
* `ScanInv`: a scan that has not ended has no terminal stage, neither shown nor queued: only
  the end of the pipeline, after which the reader may overwrite it, brings one.
* `RecentInv`: the registry holds started scans under their ids, no more than its limit, and
  the current one among them, though ids may be shared.  Its bound needs that `Evict` finds
  an oldest entry, a least element of a set of numbers.
* `PendingInv`: every handler between registry and goroutine has a scan of its own.
* `LastOnly` (one start request): only the last scan can be before or in its pipeline.
* `OwedInv`: a tunnel that is owed has a scan that noted the pause and has not restored yet.
* `ResultInv`: `FilesInv` (a file that holds a result is its scan's, of the time it was written),
  `Unwritten` (a scan before its snapshot has written nothing) and `KeptInv`.

`ResultIsKept` is about the result, not about a name: a scan that is over and whose write worked
is in memory, or its own file is on disk, or a later scan of the same second wrote over it, or
the directory has its full number of files, all newer.  An id may therefore show the result of
another scan of the same second, which is what the code does.

Two start requests at once do start two pipelines (`scan_claims.cfg`).

### SourceListProofs

| Theorem | Property | Hypotheses |
|---|---|---|
| `StoreIsKept` | StoreKept | none |
| `UnchangedIsTrue` | UnchangedTrue | none |

`IInv == ~overlap => SeqInv`: as long as no two requests have held copies at once, at most one
holds one (`OneHolds`), the file named `sources.json` is what the answered requests add up to
and is never the temporary one (`FileInv`), each source's recorded hash is that of its last
recorded fetch and its verdict is right about the two last (`MetaInv`), and each request's
copy and result are what its step says (`KnowsInv`).  Requests that wait for the network hold
nothing, so any number of them may be under way.  `SourceAssumption` asks for finitely many
requests, so that a new file can be numbered, and for a mark of a torn file that is no store.

### CachedPageProofs

From `PageAssumption`.

| Theorem | Property | Hypotheses |
|---|---|---|
| `TypeCorrect` | TypeOK | none |
| `PromiseKept` | Promise, the refinement of `SharedAnswer` | none |
| `RatesAreTrue` | RateTrue | none |

A step of the code must be a step or a stutter of `SharedAnswer`, which needs more than
types: that a published page lies inside its collection, and that the page a waiter gets is
not older than its request.  The inductive invariant is

    IInv == TypeOK /\ SlotInv /\ OneCollects /\ \A c \in Clients : ReqInv(c)

* `SlotInv`: the pending slot is not published and its readings lie between its begin and
  now; whatever is cached or closed is published.
* `OneCollects`: at most one client collects (the pending slot is opened only when there is
  none).
* `ReqInv`: who collects fills the pending slot; who waits does so for the pending slot, or
  for one that was published after it had asked.

`InitInv` and `NextInv` show that it is inductive, with a lemma for each group of actions
(`ArriveInv`, `BeginInv`, `ReadInv`, `PublishInv`, `AnswerInv`, `OutsideInv`), and the
`...Implements` lemmas map the same groups: an arrival is `Ask`, `BeginRefresh` is `Begin`,
reads and the poller stutter, `Publish` is `Finish`, the three responses are `Answer`, or a
stutter for a client that has left.

`RatesAreTrue` adds `RateInv`: the pending slot is the last and starts from the last page's
snapshot; the intervals of the slots follow one another without overlap; each rate counts
bytes of its own interval; and of every snapshot that may still be subtracted (`Known`),
sing-box's counter has grown by no more than the traffic since, which restarts only help.

### VettingProofs

From `VetAssumption`: any lists, options, finite set of workers, capacity of the channel, caps.

| Theorem | Property | Hypotheses |
|---|---|---|
| `IInvAlways` | the invariant below, with the types | none |
| `CountersTrue` | Tally | `Workers # {}` |
| `DeepProbesProve` | DeepProves | none |
| `PickIsFair` | FairPicks | none |
| `ReportIsRight` | Reported | none |

    IInv == TypeInv /\ FlowInv /\ CountInv /\ StageInv /\ ProbedInv /\ MarksInv /\ CountersInv

* `FlowInv`: the channel is the stretch of `todo` between what was taken and what was fed, no
  entry stands in `todo` twice, and who is busy holds an entry that was taken.
* `CountInv`: done is what was taken less what is in some worker's hands.  With the channel
  closed and empty and every worker gone, that is all of `todo`.
* `StageInv`: where a worker can be in each stage, and what `todo` is in it.
* `ProbedInv`: in the first stage an entry is probed exactly when it was taken and is in
  nobody's hands, as long as the run is not cut short; after it everybody is.
* `MarksInv`, `CountersInv`: each mark rests on the one before; counters are cardinalities.

`CountersTrue` reads Tally off `IInv`.  Without workers the command's feeder still fills a
channel that is large enough and the stage ends with nobody probed; the panel's options never
ask for that (pipeline.go:30, :39), the command's may (main.go:121).

`DeepProbesProve` adds `BoxInv`: two workers have one port only if that is noted in `clashes`, a
worker's sing-box is on the worker's port, and an answer, in hand or counted, is `Backed`: the
candidate carries traffic, or one it shared the port with does, and was handed to a worker in
this stage (`Handled`), after which nobody's `real` changes.  That answers are always the
candidate's own is what the code cannot ensure (`vet_port_reuse.cfg`).  `VetAssumption` asks that
0, the mark of no port, is not a port.

`PickIsFair` is about `PickDeepCandidates`.  `ByKeyLists` shows that `ByKey` lists a finite set
of keyed things once each in the order of their keys, by way of the least number with a
property (well-founded induction with a set, which the provers can use); `PickedOnce`,
`PlaceRises`, `PlacesBound` and `PicksInOrder` then say that who is left out has a place no
earlier than the last one picked, and that places in a country have no gap.

`ReportIsRight` adds `ListingInv`: `order` lists every entry once, sorted by tier if the run was
not cut short, and the report is made of groups with different keys that hold exactly who is
wanted (`CountryGroups`, `BucketGroups`, `GroupsShow`).  That a tier is a depth (`DepthOfTier`)
needs `MarksInv`.

### LogStreamProofs

From `LogAssumption`: any clients, followers, capacities, chunk and backfill.

| Theorem | Property | Hypotheses |
|---|---|---|
| `IInvAlways` | the invariant below, with the types | none |
| `StreamsInOrder` | InOrder | none |
| `TailIsExact` | TailExact | none |

    IInv == TypeInv /\ FileInv /\ HubInv /\ PosAll /\ SeekInv /\ ChainInv

* `FileInv`: the file holds the last halves written; `Base` is the number before the first.
* `HubInv`: there are subscribers exactly when there is a follower that is not cancelled; it is
  at work, and it is the only one unless followers raced.
* `PosAll`: where a follower is.  `Mark` is the half up to which it has read, `Edge` the one up
  to which it has handed on, and what it carries are the halves between; of the file it knows
  it has not read more than there is, unless it took another file for it.
* `SeekInv`: before the initial seek nothing is on the way to a subscriber.
* `ChainInv`: what a subscriber got, its channel, the line in `fanOut`'s hand and the pipe are
  together one chain of whole lines, each behind the one before and none past `Edge`; and for
  who lost nothing in a file never turned over, none between is missing and the last ends at
  `Edge`.

InOrder speaks only of what has reached the subscriber's channel, so it is not inductive: the
lines still in the pipe and in hand, and the unfinished one the follower carries, decide what
comes next.  `ChainAppend`, `ChainDrop`, `ChainTail` and `ChainWider` say what a push, a full
channel, a new subscriber and a longer file do to a chain; `RunSplits`, that the first line of
a run of halves is a line and the rest runs on after it.

`TailIsExact` needs no invariant beyond the types: `LastLinesExact` is about any file, chunk and
number of lines.  The pieces of an end of a file are the last pieces of the file, except that the
first may be cut (`CutIs`, `CutsMove`, `PiecesMove`, on `PlaceRises`, `PlaceTaken`,
`PlaceShifts`: places in a finite set of numbers); reading stops with more than n newlines, so
with more than n pieces, and the cut one is not among the last n.

### Only model-checked

Every safety property the runs check is a theorem, some under the hypotheses of their tables, and
so is the refinement.  Out of the prover's reach and left to TLC: liveness under fairness
(`SwitchOnStarts`, `SwitchOffFrees`, `ScansEnd`, `Answered`, `ExitSettles`, `Quiet`), `ENABLED`,
and with it that both pools of `Vetting` always end (the deadlock check of `vetting`).

## Where documentation and code disagree

Each statement has a configuration, to be run by hand (`tlc -config X.cfg MC<module>`), in
which TLC prints a counterexample.  Where a file names several properties, the first is
active and the others stand in it as comments.

| Configuration | Property | Statement | What happens |
|---|---|---|---|
| `service_boot` | StartsAtBoot | README.md:383: enabled = 1, bind_switch = 0 starts at boot | the boot gate of `start_service` (:89) refuses exactly that case below 120 s of uptime |
| `service_boot` | KillswitchAtBoot | README.md:386-387: with killswitch = 1 a service that does not start at boot leaves the LAN in the blackhole | `start_service` returns at its gates before `apply_killswitch_state`: the LAN is on the WAN |
| `service_killswitch` | NeverStaleBlackhole | README.md:361: "Killswitch OFF, any context: 5500 is removed" | a start or stop that has read 1 adds the rule after killswitch_off removed it |
| `service_killswitch` | NoLeakWindow | README.md:349: the LAN is dropped whenever the tunnel does not work | `apply_killswitch_state` deletes rule 5500 and adds it in a later command, with rule 5000 gone in a stop |
| `service_abort` | TunnelRouted | README.md:58: sing-box up means LAN through sing-tun | the client goes away and the script is killed between the instance and its rule |
| `swap_half_applied` | NoHalfApplied | side_switch.go:50-51: a panic cannot leave half-applied state on disk | two commits (:91, :95), and a request may end between them |
| `swap_unset_func` | FuncRestored | side_switch.go:45: func is restored from prev_sw_func | an unset func is saved as "", which :157 takes for no snapshot |
| `swap_memo_overwrite` | NativeKept | init script :116-119: native clients come back exactly as they were | both writers replace the memo by the rules of their own run |
| `swap_claims` | OnlyOneTunnel | xray-panel-launcher.js:1846: one tunnel at a time | a start that is not bound leaves the native clients up (init script :120), and so does a failed restart (native_vpn.go:62) |
| `swap_claims` | AllPutBack | side_switch.go:45, init script :116-119: func and native clients are put back | a failed `uci get` of the snapshot (side_switch.go:156) or `uci set` of a rule (native_vpn.go:163-173) is dropped and snapshot or memo cleared all the same |
| `swap_on_off_race` | ClaimRemembered | side_switch.go:13, :129: transactional, symmetric | OFF clears the snapshot between ON's snapshot and claim |
| `profiles_bad_import` | AllRendered | profiles.go:420-422: the configuration includes every saved profile | an import is stored before it is checked and stays when the check fails; every later render fails |
| `profiles_delete_race` | ActiveSaved | profiles.go:372: cannot delete the active profile | Activate comes between the read at :370 and the delete at :375 |
| `profiles_delete_race` | DeletedGone | profiles.go:384: the deleted outbound disappears | no render when no profile remains (:393) |
| `profiles_two_patches` | EditsKept | profiles.go:227: omitted fields stay as they are | the whole profile read at :259 is written at :323 |
| `profiles_two_patches` | ConfigCurrent | profiles.go:328: config reflects the edit | lists are read and written in different orders |
| `profiles_two_patches` | NeverTorn | render.go:187-188: written atomically | one temporary file for all writers |
| `scan_claims` | OnePipeline | scan.go:137: refuse concurrent scans | the registry is unlocked (:155) before the scan is entered (:212) |
| `scan_claims` | BusyMeansRunning | scan.go:149: "another scan is already running" | after `timed_out` (:414), or when a queued report overwrites the terminal stage (:427-430), the test at :143 refuses scans although none runs |
| `scan_claims` | OnlyRestores | scan.go:52-53: pausedActive remembers whether we stopped sing-box | it is set whether sing-box ran or not (:220) |
| `scan_claims` | PausedWhileScanning | README.md:745: skip_active pauses for the time of the scan | the next scan is admitted before the deferred start of the last (:362) |
| `page_claims` | OwnErrors | state.go:85-86: "a context tied to this request" | the shared probes run under the refresher's context, so a client that leaves fails the page of all who wait, and the cached one |
| `page_claims` | NudgeHolds | service.go:16-20: invalidated "so the UI shows —" until the new fetch lands | a fetch sent before `Invalidate` stores the old address after it (poller.go:153-157) |
| `sources_claims` | NoTrampling | sources.go:84-85: a mutex so concurrent requests cannot trample each other | every request makes its own store, and so its own mutex |
| `sources_claims` | AlwaysReadable | sources.go:114-132: written to a temporary file and renamed | all savers share the temporary file, which may be renamed while it is empty or half-written |
| `sources_claims` | NoOrphans | sources.go:73-82: Meta is keyed by source | delete leaves the meta of the source behind |
| `log_claims` | AtMostOne | hub.go:9: at most one Follow goroutine | a cancelled follower has not noticed yet when the next one starts |
| `log_claims` | OneVoice | follows from it | both feed the new subscriber: a line comes twice |
| `log_claims` | Detects | stream.go:13: it detects truncation and rotation | not if the file is as long as before by the next tick (:80) |
| `log_claims` | Gapless, NoRepeat | logs.go:74: "Live stream from now on" | the follower's position is taken after the backfill was read, or long before |
| `vet_claims` | AlwaysSorted | pipeline.go:19-21 on Run's result | a run that is cut short is returned as parsed |
| `vet_claims` | ProgressForward | Done of one stage as a progress bar | the count and the send are two steps; messages of two workers change places |
| `vet_spliced` | NoneLost | pipeline.go:270-272: concatenation is harmless | a list without a final newline is joined with the next one's first line; the command adds a newline (main.go:341-344) |
| `vet_claims` | EveryCountry | pipeline.go:149-151: every represented country gets one shot | not with more countries than MaxDeep |
| `vet_port_reuse` | EachItsOwn | deep.go:6-7: verifies that the candidate's VLESS tunnel carries traffic | a picked port that the kernel hands out again (:257-265): another candidate's sing-box answers |
| `vet_no_workers` | deadlock | `vless-vet -workers 0` is accepted (main.go:121) | the feeder waits for a worker for ever |

Read but not turned into properties: the state table (README.md:346) and the hotplug rule
(:377) give different routes for killswitch = 1, bind_switch = 1, switch OFF; the model
follows the script.  README.md:366 has Activate on a stopped service only write the file,
profiles.go:567-606 also starts it.  A comment at profiles.go:204 speaks of the "first
profile ever", but every import before the first Activate changes the default.

Two configurations to be run by hand pass: `scan_registry.cfg`, a larger instance of
ScanRegistry (three scans, two places in registry and directory, with `TypeOK`), and
`vet_caps.cfg`, FairPicks with a cap per country.

## Not modelled

* Formatting, template text, TLS and transport details, QR codes, masking, the read-only
  endpoints: no state.
* `vless.Parse`, authentication, LAN guard, configuration defaults: sequential, of one
  argument, under unit tests.
* The launcher's polling rules (the automatic stop when a native client comes up, 6 s
  grace) and the age of the state it decides on.
* The legacy `sub_func` restore of side_switch.go:167-171.
* A restart of the panel itself, e.g. during a paused scan (`pausedActive` is in memory).
* A panic in a handler (net/http recovers it; a refresher's slot would stay pending).
* `vless-vet`'s flags, presets, fetching and output layout; its algorithms are in `Vetting`.
* The SSE heartbeat, and the follower per request of a server without a hub.
* Install, backup and upgrade scripts.
* Failing uci commands of the init script, and a snapshot directory that cannot be listed
  (`rotateScanSnapshots` then removes nothing).
* In `Tail`: the file shrinks between its Stat and the reads (tail.go:30-58), whose short counts
  are not looked at, so that NUL bytes may come for text.  `Seed` reads in one step.
* In `Follow`: a Stat error other than "does not exist", which only skips a tick (stream.go:73),
  and file systems without inodes (:80).

## Plan

The order is by what a wrong step costs the user: routing first, then the switch, then the
configuration, then scans, then displays.

1. `SingBoxService`: done; every safety property it checks is a theorem.
2. `SideSwitch`, `Profiles`, `ScanRegistry`: done, likewise.
3. `SharedAnswer` and `CachedPage`, with the refinement: done, likewise.
4. `SourceList`, `Vetting`, `LogStream`: done, likewise.
5. Extensions: a restart of the panel in `ScanRegistry`, the launcher's polling rules in
   `SideSwitch`.
