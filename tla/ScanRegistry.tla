---------------------------- MODULE ScanRegistry ----------------------------
(***************************************************************************)
(* VPN Scout scans: POST /api/scan/start and /api/scan/cancel, the         *)
(* registry of the last scans, the goroutine that runs one (runScan, with  *)
(* vetlib.Run reduced to its stages and the progress it reports), the      *)
(* goroutine that copies that progress into the scan's state, the pause of *)
(* the active tunnel and the snapshots on disk.                            *)
(***************************************************************************)
EXTENDS Naturals, Sequences, FiniteSets

CONSTANTS
    Handlers,         \* start requests that may be served at the same time
    MaxScans,         \* bound: scans ever started
    MaxInMemory,      \* maxInMemoryScans, 4 in the code
    ScansKeep,        \* snapshots kept on disk
    ChanCap,          \* capacity of the progress channel, 32 in the code
    Reports,          \* bound: progress messages of a scan's probing stages
    SameSecond,       \* two scans may start in one second, and so share an id
    Timeouts,         \* the hard timeout may expire
    SourcesFail,      \* no source may be fetched, or none parsed
    ServiceFails,     \* the init script may fail
    WritesFail,       \* a snapshot may not be written
    SkipActive,       \* values of the request's skip_active
    UserSwitches      \* what the user may do to sing-box meanwhile: start it, stop it

ASSUME ScanAssumption ==
    /\ MaxScans \in Nat \ {0} /\ MaxInMemory \in Nat \ {0} /\ ScansKeep \in Nat \ {0}
    /\ ChanCap \in Nat \ {0} /\ Reports \in Nat
    /\ {SameSecond, Timeouts, SourcesFail, ServiceFails, WritesFail} \subseteq BOOLEAN
    /\ SkipActive \subseteq BOOLEAN /\ UserSwitches \subseteq BOOLEAN

VARIABLES
    started,  \* how many scans there have been: 1..started, oldest first
    scan,     \* their states
    recent,   \* registry.recent: the scan found under each id
    current,  \* registry.current, 0 for nil
    handler,  \* what each start request is doing
    snaps,    \* the snapshots on disk, newest first
    written,  \* history: when each scan wrote its snapshot, 0 for never, and if it worked
    tunnel,   \* sing-box runs
    owed      \* history: a scan stopped it and nobody has started it since

vars == <<started, scan, recent, current, handler, snaps, written, tunnel, owed>>

Scans == 1..MaxScans
None  == 0

\* A file <id>.json with its modification time; scan: whose result it holds, None when
\* the write broke off.
Files == [id : Scans, scan : 0..MaxScans, at : Nat]

Terminal == {"done", "cancelled", "error"}
Stages   == {"starting", "fetch", "parse", "probe", "deep", "timed_out"} \cup Terminal
Running  == {"parse", "probe", "deep"}
Steps    == {"none", "fetch", "settle", "restore", "finish", "snapshot", "over"} \cup Running

\* id: the second of its start; pause: skip_active; ctx: the scan's context (live,
\* canceled or past the hard timeout); outcome: what vetlib.Run returned; queue, open:
\* the progress channel; drain: its reader lives; sent: reports so far from the probing stages.
NewScan(i, p) == [id |-> i, stage |-> "starting", pc |-> "none", paused |-> FALSE,
                  ctx |-> "live", outcome |-> "none", result |-> FALSE, pause |-> p,
                  queue |-> <<>>, open |-> FALSE, drain |-> FALSE, sent |-> 0]
NoScan == [NewScan(None, FALSE) EXCEPT !.pc = "over"]

Idle == [pc |-> "idle", scan |-> None, pause |-> FALSE]

Init ==
    /\ started = 0
    /\ scan = [s \in Scans |-> NoScan]
    /\ recent = [i \in Scans |-> None]
    /\ current = None
    /\ handler = [h \in Handlers |-> Idle]
    /\ snaps = <<>>
    /\ written = [s \in Scans |-> [at |-> 0, ok |-> TRUE]]
    /\ tunnel \in BOOLEAN
    /\ owed = FALSE

-----------------------------------------------------------------------------
At(s, pc)     == s <= started /\ scan[s].pc = pc
Change(s, r)  == scan' = [scan EXCEPT ![s] = r]
Goto(s, pc)   == Change(s, [scan[s] EXCEPT !.pc = pc])

\* `/etc/init.d/sing-box stop` and `start`, on behalf of a scan.
Stops(ok)  == /\ tunnel' = (tunnel /\ ~ok)
              /\ owed' = (owed \/ (tunnel /\ ok))
Starts(ok) == tunnel' = (tunnel \/ ok) /\ owed' = FALSE

-----------------------------------------------------------------------------
(* handleScanStart, handleScanCancel.                                      *)

\* Mutant: a scan that has not reported yet does not count.
BusyReporting(s) == scan[s].stage \in {"fetch", "probe", "deep"}

\* The test of handleScanStart; it does not know the stage "timed_out".
Busy(s) == scan[s].stage \notin Terminal

\* The registry is locked for this test only.  409 when another scan runs.
Check(h) ==
    /\ handler[h].pc = "idle"
    /\ ~(current # None /\ Busy(current))
    /\ \E p \in SkipActive :
          handler' = [handler EXCEPT ![h] = [pc |-> "put", scan |-> None, pause |-> p]]
    /\ UNCHANGED <<started, scan, recent, current, snaps, written, tunnel, owed>>

\* A request that selects no source goes no further.
NoSource(h) ==
    /\ handler[h].pc = "put"
    /\ handler' = [handler EXCEPT ![h] = Idle]
    /\ UNCHANGED <<started, scan, recent, current, snaps, written, tunnel, owed>>

InMemory(r) == {i \in Scans : r[i] # None}

\* Mutant: one entry too many.
EvictLate(r, s) ==
    IF Cardinality(InMemory(r)) <= MaxInMemory + 1 THEN r
    ELSE LET oldest == CHOOSE i \in InMemory(r) : \A j \in InMemory(r) : r[i] <= r[j]
         IN [r EXCEPT ![oldest] = None]

\* Mutant: the newest entry goes.
EvictAny(r, s) ==
    IF Cardinality(InMemory(r)) <= MaxInMemory THEN r
    ELSE LET newest == CHOOSE i \in InMemory(r) : \A j \in InMemory(r) : r[j] <= r[i]
         IN [r EXCEPT ![newest] = None]

\* put drops the oldest entry but the one just entered, running or not.
Evict(r, s) ==
    LET others == {i \in InMemory(r) : r[i] # s} IN
    IF Cardinality(InMemory(r)) <= MaxInMemory \/ others = {} THEN r
    ELSE LET oldest == CHOOSE i \in others : \A j \in others : r[i] <= r[j]
         IN [r EXCEPT ![oldest] = None]

LastId == IF started = 0 THEN None ELSE scan[started].id

Put(h) ==
    /\ handler[h].pc = "put"
    /\ started < MaxScans
    /\ LET s == started + 1 IN
       \E i \in {LastId + 1} \cup (IF SameSecond /\ started > 0 THEN {LastId} ELSE {}) :
         /\ Change(s, NewScan(i, handler[h].pause))
         /\ recent' = Evict([recent EXCEPT ![i] = s], s)
         /\ current' = s
         /\ started' = s
         /\ handler' = [handler EXCEPT ![h].scan = s,
                                       ![h].pc = IF handler[h].pause THEN "pause" ELSE "go"]
    /\ UNCHANGED <<snaps, written, tunnel, owed>>

\* The pause is noted whether the stop worked or not, and whether sing-box ran or not.
\* A scan that is cancelled by now may have cut the stop short.
Pause(h) ==
    /\ handler[h].pc = "pause"
    /\ \E ok \in {TRUE} \cup (IF ServiceFails \/ scan[handler[h].scan].ctx # "live"
                             THEN {FALSE} ELSE {}) : Stops(ok)
    /\ scan' = [scan EXCEPT ![handler[h].scan].paused = TRUE]
    /\ handler' = [handler EXCEPT ![h].pc = "go"]
    /\ UNCHANGED <<started, recent, current, snaps, written>>

Go(h) ==
    /\ handler[h].pc = "go"
    /\ scan' = [scan EXCEPT ![handler[h].scan].pc = "fetch",
                            ![handler[h].scan].stage = "fetch"]
    /\ handler' = [handler EXCEPT ![h] = Idle]
    /\ UNCHANGED <<started, recent, current, snaps, written, tunnel, owed>>

\* Any scan the registry still has, by its id.
Cancel(i) ==
    /\ recent[i] # None
    /\ scan[recent[i]].ctx = "live"
    /\ scan' = [scan EXCEPT ![recent[i]].ctx = "canceled"]
    /\ UNCHANGED <<started, recent, current, handler, snaps, written, tunnel, owed>>

-----------------------------------------------------------------------------
(* runScan.                                                                *)

\* A progress message is dropped when the channel is full.
Sent(r, m) == [r EXCEPT !.queue = IF Len(@) < ChanCap THEN Append(@, m) ELSE @]

Fetch(s) ==
    /\ At(s, "fetch")
    /\ Change(s, [Sent(scan[s], "parse") EXCEPT !.pc = "parse", !.open = TRUE, !.drain = TRUE])
    /\ UNCHANGED <<started, recent, current, handler, snaps, written, tunnel, owed>>

\* A cancelled context fails every download.
FetchFails(s) ==
    /\ At(s, "fetch")
    /\ SourcesFail \/ scan[s].ctx # "live"
    /\ Change(s, [scan[s] EXCEPT !.stage = "error", !.pc = "restore"])
    /\ UNCHANGED <<started, recent, current, handler, snaps, written, tunnel, owed>>

Timeout(s) ==
    /\ Timeouts
    /\ s <= started
    /\ scan[s].pc \in Running /\ scan[s].ctx = "live"
    /\ Change(s, [scan[s] EXCEPT !.ctx = "expired"])
    /\ UNCHANGED <<started, recent, current, handler, snaps, written, tunnel, owed>>

\* Mutant: only a run that returns a result closes the progress channel.
ParseFailsOpen(s) ==
    /\ At(s, "parse")
    /\ SourcesFail
    /\ Change(s, [scan[s] EXCEPT !.stage = "error", !.pc = "restore"])
    /\ UNCHANGED <<started, recent, current, handler, snaps, written, tunnel, owed>>

\* vetlib.Run returns an error; it closes the channel on every return.
ParseFails(s) ==
    /\ At(s, "parse")
    /\ SourcesFail
    /\ Change(s, [scan[s] EXCEPT !.stage = "error", !.open = FALSE, !.pc = "restore"])
    /\ UNCHANGED <<started, recent, current, handler, snaps, written, tunnel, owed>>

Outcome(ctx) == CASE ctx = "canceled" -> "cancelled"
                  [] ctx = "expired"  -> "timed_out"
                  [] ctx = "live"     -> "done"

Returns(r) == [r EXCEPT !.pc = "settle", !.open = FALSE, !.outcome = Outcome(r.ctx)]

\* Stages end early on a context that is over, between stages and inside one.
Parse(s) ==
    /\ At(s, "parse")
    /\ LET parsed == Sent(scan[s], "parse") IN
       Change(s, IF scan[s].ctx = "live" THEN [parsed EXCEPT !.pc = "probe"] ELSE Returns(parsed))
    /\ UNCHANGED <<started, recent, current, handler, snaps, written, tunnel, owed>>

Report(s) ==
    /\ \E stage \in {"probe", "deep"} :
         /\ At(s, stage)
         /\ scan[s].sent < Reports
         /\ Change(s, [Sent(scan[s], stage) EXCEPT !.sent = @ + 1])
    /\ UNCHANGED <<started, recent, current, handler, snaps, written, tunnel, owed>>

Probed(s) ==
    /\ At(s, "probe")
    /\ Change(s, IF scan[s].ctx = "live" THEN [scan[s] EXCEPT !.pc = "deep"]
                 ELSE Returns(scan[s]))
    /\ UNCHANGED <<started, recent, current, handler, snaps, written, tunnel, owed>>

\* With deep or without, the last stage ends in a "done" report and the close.
Deepened(s) ==
    /\ At(s, "deep")
    /\ Change(s, Returns(Sent(scan[s], "done")))
    /\ UNCHANGED <<started, recent, current, handler, snaps, written, tunnel, owed>>

\* Mutant: the tunnel is only brought back after a scan that was not cancelled.
SettleForgets(s) ==
    /\ At(s, "settle")
    /\ Change(s, [scan[s] EXCEPT !.stage = scan[s].outcome, !.result = TRUE,
                    !.pc = IF scan[s].outcome = "cancelled" THEN "finish" ELSE "restore"])
    /\ UNCHANGED <<started, recent, current, handler, snaps, written, tunnel, owed>>

Settle(s) ==
    /\ At(s, "settle")
    /\ Change(s, [scan[s] EXCEPT !.stage = scan[s].outcome, !.result = TRUE, !.pc = "restore"])
    /\ UNCHANGED <<started, recent, current, handler, snaps, written, tunnel, owed>>

\* The deferred function, on every path: the tunnel first ...
Restore(s) ==
    /\ At(s, "restore")
    /\ IF scan[s].paused
         THEN \E ok \in {TRUE} \cup (IF ServiceFails THEN {FALSE} ELSE {}) : Starts(ok)
         ELSE UNCHANGED <<tunnel, owed>>
    /\ Goto(s, "finish")
    /\ UNCHANGED <<started, recent, current, handler, snaps, written>>

\* ... then the context ...
Finish(s) ==
    /\ At(s, "finish")
    /\ Change(s, [scan[s] EXCEPT !.ctx = IF @ = "live" THEN "canceled" ELSE @,
                                 !.pc = IF scan[s].result THEN "snapshot" ELSE "over"])
    /\ UNCHANGED <<started, recent, current, handler, snaps, written, tunnel, owed>>

\* Mutant: room is made for one file more.
RotateShort(files) == IF Len(files) < ScansKeep THEN files ELSE SubSeq(files, 1, ScansKeep - 1)

\* ... and the snapshot.  Only the newest files stay.
Rotate(files) == IF Len(files) <= ScansKeep THEN files ELSE SubSeq(files, 1, ScansKeep)

\* The directory with a file new or overwritten: its id's file is now the newest.
Without(files, i) ==
    IF \A n \in DOMAIN files : files[n].id # i THEN files
    ELSE LET n == CHOOSE n \in DOMAIN files : files[n].id = i
         IN SubSeq(files, 1, n - 1) \o SubSeq(files, n + 1, Len(files))
Filed(files, f) == <<f>> \o Without(files, f.id)

Now == IF snaps = <<>> THEN 1 ELSE snaps[1].at + 1
Wrote(s, time, worked) == written' = [written EXCEPT ![s] = [at |-> time, ok |-> worked]]

Snapshot(s) ==
    /\ At(s, "snapshot")
    /\ snaps' = Rotate(Filed(snaps, [id |-> scan[s].id, scan |-> s, at |-> Now]))
    /\ Wrote(s, Now, TRUE)
    /\ Goto(s, "over")
    /\ UNCHANGED <<started, recent, current, handler, tunnel, owed>>

\* A failed write is only noted in the scan.  It leaves no file or one that is cut
\* off, and in both cases rotates nothing.
SnapshotFails(s) ==
    /\ WritesFail
    /\ At(s, "snapshot")
    /\ \/ snaps' = snaps /\ Wrote(s, 0, FALSE)
       \/ /\ snaps' = Filed(snaps, [id |-> scan[s].id, scan |-> None, at |-> Now])
          /\ Wrote(s, Now, FALSE)
    /\ Goto(s, "over")
    /\ UNCHANGED <<started, recent, current, handler, tunnel, owed>>

-----------------------------------------------------------------------------
(* The goroutine that applies progress, until the channel is closed and     *)
(* empty.                                                                  *)

Apply(s) ==
    /\ scan[s].drain /\ scan[s].queue # <<>>
    /\ Change(s, [scan[s] EXCEPT !.stage = Head(scan[s].queue), !.queue = Tail(@)])
    /\ UNCHANGED <<started, recent, current, handler, snaps, written, tunnel, owed>>

DrainEnds(s) ==
    /\ scan[s].drain /\ scan[s].queue = <<>> /\ ~scan[s].open
    /\ Change(s, [scan[s] EXCEPT !.drain = FALSE])
    /\ UNCHANGED <<started, recent, current, handler, snaps, written, tunnel, owed>>

UserSwitch ==
    /\ \E on \in UserSwitches : tunnel # on /\ tunnel' = on
    /\ owed' = FALSE
    /\ UNCHANGED <<started, scan, recent, current, handler, snaps, written>>

-----------------------------------------------------------------------------
StartStep(h) == Put(h) \/ Pause(h) \/ Go(h)
RunStep(s) == \/ Fetch(s) \/ FetchFails(s) \/ ParseFails(s) \/ Parse(s) \/ Report(s)
              \/ Probed(s) \/ Deepened(s) \/ Settle(s) \/ Restore(s) \/ Finish(s)
              \/ Snapshot(s) \/ SnapshotFails(s)
DrainStep(s) == Apply(s) \/ DrainEnds(s)

Next ==
    \/ \E h \in Handlers : Check(h) \/ NoSource(h) \/ StartStep(h)
    \/ \E i \in Scans : Cancel(i)
    \/ \E s \in Scans : RunStep(s) \/ Timeout(s) \/ DrainStep(s)
    \/ UserSwitch

Spec == Init /\ [][Next]_vars

\* Goroutines run; nothing obliges the user to start or cancel, or a timer to expire.
Fairness ==
    /\ \A h \in Handlers : WF_vars(StartStep(h))
    /\ \A s \in Scans : WF_vars(RunStep(s)) /\ WF_vars(DrainStep(s))

FairSpec == Spec /\ Fairness

-----------------------------------------------------------------------------
TypeOK ==
    /\ started \in 0..MaxScans /\ current \in 0..started
    /\ recent \in [Scans -> 0..MaxScans]
    /\ \A s \in Scans :
         /\ scan[s].id \in 0..MaxScans /\ scan[s].stage \in Stages
         /\ scan[s].pc \in Steps /\ scan[s].ctx \in {"live", "canceled", "expired"}
         /\ Len(scan[s].queue) <= ChanCap /\ scan[s].sent \in 0..Reports
    /\ handler \in [Handlers -> [pc : {"idle", "put", "pause", "go"},
                                 scan : 0..MaxScans, pause : BOOLEAN]]
    /\ \A n \in DOMAIN snaps : snaps[n] \in Files
    /\ written \in [Scans -> [at : Nat, ok : BOOLEAN]]
    /\ Len(snaps) <= ScansKeep \/ \E s \in Scans : ~written[s].ok
    /\ tunnel \in BOOLEAN /\ owed \in BOOLEAN

Pipelines == {s \in Scans : scan[s].pc \in {"fetch"} \cup Running}

\* "Refuse concurrent scans": with start requests one at a time at most one scan
\* fetches and probes, whatever stage the progress reader has last written and
\* whatever was cancelled.
OnePipeline == Cardinality(Pipelines) <= 1

\* A scan that probes can be found, so polled and cancelled, by its id: eviction
\* from the registry never takes it.
Findable == \A s \in Pipelines : recent[scan[s].id] = s

\* The registry's memory and every progress channel are bounded, and the registry has
\* the scan /api/scan/status shows.
Bounded == /\ Cardinality(InMemory(recent)) <= MaxInMemory
           /\ \A s \in Scans : Len(scan[s].queue) <= ChanCap
           /\ current # None => recent[scan[current].id] = current

\* A sing-box that a scan stopped runs again when every scan is over, however the
\* scan ended (unless the user or a failing init script says otherwise).
PauseEnds ==
    (\A s \in Scans : scan[s].pc = "over") /\ (\A h \in Handlers : handler[h].pc = "idle")
        => ~owed

OnDisk(s)   == \E n \in DOMAIN snaps : snaps[n].scan = s
Replaced(s) == \E t \in Scans \ {s} :
                  scan[t].id = scan[s].id /\ written[t].at > written[s].at
Rotated(s)  == /\ Len(snaps) >= ScansKeep
               /\ \A n \in DOMAIN snaps : snaps[n].at > written[s].at

\* A result survives its eviction from memory: its own file stays on disk, unless its
\* write failed, a scan of the same second wrote over it, or the directory has its
\* full number of files and every one of them is newer.
ResultKept == \A s \in 1..started :
    scan[s].pc = "over" /\ scan[s].result /\ written[s].ok =>
        recent[scan[s].id] = s \/ OnDisk(s) \/ Replaced(s) \/ Rotated(s)

\* Every scan that is admitted comes to its end, cancelled or not, and the
\* goroutine that reads its progress ends too.
ScansEnd == \A s \in Scans : [](started >= s => <>(scan[s].pc = "over" /\ ~scan[s].drain))

-----------------------------------------------------------------------------
(* What the documentation says and the code does not keep: each of these   *)
(* has a configuration in which TLC shows a counterexample.                *)

\* handleScanStart answers "another scan is already running" only while one is.
BusyMeansRunning == current # None /\ Busy(current) => scan[current].pc # "over" \/ scan[current].drain

\* scanState.pausedActive: the tunnel comes back if the scan stopped it; a scan does
\* not start a sing-box it found stopped.
OnlyRestores == [][tunnel' /\ ~tunnel => owed]_vars

\* README: skip_active pauses the active sing-box for the time of the scan.
PausedWhileScanning == \A s \in Pipelines : scan[s].paused => ~tunnel
=============================================================================
