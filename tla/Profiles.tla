------------------------------ MODULE Profiles ------------------------------
(***************************************************************************)
(* VLESS profiles: the list in profiles.json, the sing-box configuration   *)
(* rendered from it, the UCI option naming the active profile, and the     *)
(* sing-box that runs.  The panel serves the requests of several browsers  *)
(* at once; only the list is behind a mutex, so a handler is a sequence of *)
(* steps and other handlers run between them.                              *)
(***************************************************************************)
EXTENDS Naturals, Sequences, FiniteSets

CONSTANTS
    Handlers,    \* requests being served, and the panel-rerender tool
    Ids,         \* profile ids (uuid.New never returns one twice)
    NoId,        \* the option active_profile is unset
    Fields,      \* the fields of a profile the model tells apart
    Empty,       \* a field left empty
    Links,       \* what a vless:// link may carry: a value for each field
    Edits,       \* PATCH bodies: values for some of the fields
    Bad,         \* data that `sing-box check` rejects
    Ops,         \* operations the Handlers run
    Concurrency, \* how many of them at the same time
    Flags,       \* the profiles panel-rerender -active may name
    Flaky,       \* uci, pgrep and the clash API may fail
    Aborts,      \* the request's context may end (client gone, 30 s)
    Blocked      \* whether bind_switch = 1 and the switch is OFF: the possible answers

AllOps == {"import", "patch", "delete", "activate", "rerender"}
Values == UNION {{x[f] : f \in DOMAIN x} : x \in Links \cup Edits}
Data   == [Fields -> Values]
Whole(data) == \A f \in Fields : data[f] # Empty

ASSUME ProfilesAssumption ==
    /\ NoId \notin Ids
    /\ \A l \in Links : l \in Data /\ Whole(l)
    /\ \A b \in Edits : DOMAIN b \subseteq Fields
    /\ Ops \subseteq AllOps /\ Flags \subseteq Ids
    /\ Concurrency \in Nat \ {0}
    /\ Flaky \in BOOLEAN /\ Aborts \in BOOLEAN /\ Blocked \subseteq BOOLEAN

VARIABLES
    saved,    \* profiles.json: the profiles in insertion order
    active,   \* UCI sing-box.config.active_profile
    config,   \* config.json
    tmp,      \* config.json.tmp
    loaded,   \* the configuration the running sing-box read, NoFile if stopped
    selected, \* its selector's current outbound
    job,      \* what each handler is doing
    minted,   \* history: the ids given out
    expected  \* history: for each profile added and not deleted, its data

diskVars    == <<saved, active, config, tmp>>
singboxVars == <<loaded, selected>>
historyVars == <<minted, expected>>
vars == <<diskVars, singboxVars, job, historyVars>>

Profile == [id : Ids, data : Data]
\* The field flag is history: panel-rerender's -active chose the default.
NoFile  == [kind |-> "none", outbounds |-> <<>>, default |-> NoId, flag |-> FALSE]
Torn    == [kind |-> "torn", outbounds |-> <<>>, default |-> NoId, flag |-> FALSE]
Files   == {NoFile, Torn} \cup
           [kind : {"whole"}, outbounds : Seq(Profile), default : Ids, flag : BOOLEAN]

Steps == {"idle", "add", "get", "readActive", "update", "delete", "list", "check", "open",
          "fill", "rename", "setActive", "probe", "select", "reload", "start"}

\* A handler's locals: the profile in the path, the PATCH body or link, `existing`,
\* `all`, activeID, and the file its descriptor of the temporary file points to.
\* A local the rest of the handler does not use is set back.
NoJob == [op |-> "idle", pc |-> "idle", id |-> NoId, body |-> <<>>, existing |-> <<>>,
          all |-> <<>>, act |-> NoId, fd |-> "none"]

Init ==
    /\ saved = <<>> /\ active = NoId
    /\ config = NoFile /\ tmp = NoFile
    /\ loaded = NoFile /\ selected = NoId
    /\ job = [h \in Handlers |-> NoJob]
    /\ minted = {} /\ expected = <<>>

-----------------------------------------------------------------------------
At(h, s)     == job[h].pc = s
Become(h, j) == job' = [job EXCEPT ![h] = j]
Goto(h, s)   == Become(h, [job[h] EXCEPT !.pc = s])
Leave(h)     == Become(h, NoJob)
Active       == {h \in Handlers : job[h].pc # "idle"}
Quiet        == Active = {}

IdsOf(seq) == {seq[i].id : i \in DOMAIN seq}
IndexOf(i) == CHOOSE n \in DOMAIN saved : saved[n].id = i
Running    == loaded.kind = "whole"

\* panel-rerender -active: the flag overrides the option.
Flagged(j) == j.op = "rerender" /\ j.id # NoId

-----------------------------------------------------------------------------
(* internal/singbox: Render, WriteAndCheck.                                *)

\* Mutant: the default is the wanted profile whether it is in the list or not.
RenderBlind(all, act, flag) ==
    [kind |-> "whole", outbounds |-> all, default |-> act, flag |-> flag]

\* Every profile is an outbound; a default that is not among them is replaced
\* by the first.
Render(all, act, flag) ==
    [kind |-> "whole", outbounds |-> all, flag |-> flag,
     default |-> IF act \in IdsOf(all) THEN act ELSE all[1].id]

\* Mutant: the check's verdict is ignored.
PassesAlways(all) == TRUE

\* `sing-box check` on the candidate.
Passes(all) == \A n \in DOMAIN all : all[n].data \notin Bad

\* Render fails on an empty list, the check on bad data: nothing is written.
Check(h) ==
    /\ At(h, "check")
    /\ IF job[h].all # <<>> /\ Passes(job[h].all) THEN Goto(h, "open") ELSE Leave(h)
    /\ UNCHANGED <<diskVars, singboxVars, historyVars>>

\* os.WriteFile(config.json.tmp) creates or truncates the one temporary file ...
Open(h) ==
    /\ At(h, "open")
    /\ tmp' = Torn
    /\ Become(h, [job[h] EXCEPT !.pc = "fill", !.fd = "tmp"])
    /\ UNCHANGED <<saved, active, config, singboxVars, historyVars>>

\* ... and writes it, over what another handler may have written meanwhile.
Outcomes(h, file) == {Render(job[h].all, job[h].act, Flagged(job[h]))} \cup
                     (IF file.kind = "whole" THEN {Torn} ELSE {})

Fill(h) ==
    /\ At(h, "fill")
    /\ tmp' \in IF job[h].fd = "tmp" THEN Outcomes(h, tmp) ELSE {tmp}
    /\ config' \in IF job[h].fd = "config" THEN Outcomes(h, config) ELSE {config}
    /\ Goto(h, "rename")
    /\ UNCHANGED <<saved, active, singboxVars, historyVars>>

\* The name config.json moves to the temporary file; open descriptors follow
\* their file.  Without a temporary file the request fails.
AfterRename(op) == CASE op = "activate" -> "setActive"
                     [] op = "rerender" -> "reload"
                     [] OTHER           -> "probe"
Moved(fd) == CASE fd = "tmp" -> "config" [] fd = "config" -> "none" [] OTHER -> fd

Rename(h) ==
    /\ At(h, "rename")
    /\ IF tmp.kind = "none"
         THEN Leave(h) /\ UNCHANGED <<config, tmp>>
         ELSE /\ config' = tmp
              /\ tmp' = NoFile
              /\ job' = [g \in Handlers |->
                           IF g = h THEN [NoJob EXCEPT !.op = job[h].op, !.pc = AfterRename(job[h].op),
                                            !.id = IF job[h].op = "activate" THEN job[h].id ELSE NoId]
                           ELSE [job[g] EXCEPT !.fd = Moved(job[g].fd)]]
    /\ UNCHANGED <<saved, active, singboxVars, historyVars>>

-----------------------------------------------------------------------------
(* internal/store: every operation loads and saves under the mutex.        *)

\* uuid.New and Add.
Add(h) ==
    /\ At(h, "add")
    /\ \E i \in Ids \ minted :
         /\ saved' = Append(saved, [id |-> i, data |-> job[h].body])
         /\ Become(h, [job[h] EXCEPT !.id = i, !.body = <<>>, !.pc = "list"])
         /\ minted' = minted \cup {i}
         /\ expected' = [x \in DOMAIN expected \cup {i} |->
                           IF x = i THEN job[h].body ELSE expected[x]]
    /\ UNCHANGED <<active, config, tmp, singboxVars>>

\* The fields a PATCH body sets, over the profile as it is.
Patched(data, body) == [f \in Fields |-> IF f \in DOMAIN body THEN body[f] ELSE data[f]]

\* Mutant: a field of the body does not replace a value the profile already has.
GetKeepsOld(h) ==
    /\ At(h, "get")
    /\ IF job[h].id \notin IdsOf(saved) THEN Leave(h)
       ELSE LET p == saved[IndexOf(job[h].id)]
                q == [p EXCEPT !.data = Patched(Patched(p.data, job[h].body),
                                                [f \in {g \in Fields : p.data[g] # Empty} |-> p.data[f]])]
            IN CASE job[h].op = "activate" -> Goto(h, "list")
                 [] job[h].op = "patch" /\ ~Whole(q.data) -> Leave(h)
                 [] OTHER -> Become(h, [job[h] EXCEPT !.existing = q, !.pc = "update"])
    /\ UNCHANGED <<diskVars, singboxVars, historyVars>>

\* Get: PATCH applies its body to the copy and refuses a profile left without
\* a required field; Activate only wants to know that the profile exists.
Get(h) ==
    /\ At(h, "get")
    /\ IF job[h].id \notin IdsOf(saved) THEN Leave(h)
       ELSE LET p == saved[IndexOf(job[h].id)]
                q == [p EXCEPT !.data = Patched(p.data, job[h].body)]
            IN CASE job[h].op = "activate" -> Goto(h, "list")
                 [] job[h].op = "patch" /\ ~Whole(q.data) -> Leave(h)
                 [] OTHER -> Become(h, [job[h] EXCEPT !.existing = q, !.pc = "update"])
    /\ UNCHANGED <<diskVars, singboxVars, historyVars>>

\* Mutant: a profile that is no longer there is put back.
UpdateOrAdd(h) ==
    /\ At(h, "update")
    /\ saved' = IF job[h].id \in IdsOf(saved)
                  THEN [saved EXCEPT ![IndexOf(job[h].id)] = job[h].existing]
                  ELSE Append(saved, job[h].existing)
    /\ Goto(h, "list")
    /\ UNCHANGED <<active, config, tmp, singboxVars, historyVars>>

\* Update: the whole profile is replaced, unless it is gone.
Update(h) ==
    /\ At(h, "update")
    /\ LET i == job[h].id IN
       IF i \notin IdsOf(saved)
         THEN Leave(h) /\ UNCHANGED <<saved, expected>>
         ELSE /\ saved' = [saved EXCEPT ![IndexOf(i)] = job[h].existing]
              /\ expected' = [expected EXCEPT ![i] = Patched(@, job[h].body)]
              /\ Become(h, [job[h] EXCEPT !.body = <<>>, !.existing = <<>>, !.pc = "list"])
    /\ UNCHANGED <<active, config, tmp, singboxVars, minted>>

Delete(h) ==
    /\ At(h, "delete")
    /\ IF job[h].id \notin IdsOf(saved)
         THEN Leave(h) /\ UNCHANGED <<saved, expected>>
         ELSE /\ LET n == IndexOf(job[h].id)
                 IN saved' = SubSeq(saved, 1, n - 1) \o SubSeq(saved, n + 1, Len(saved))
              /\ expected' = [i \in DOMAIN expected \ {job[h].id} |-> expected[i]]
              /\ Goto(h, "list")
    /\ UNCHANGED <<active, config, tmp, singboxVars, minted>>

\* List.  Delete has read the active profile before; it falls back to the first
\* remaining one, and leaves sing-box alone when none remains.  Activate renders
\* with the profile it was asked for, panel-rerender with the flag if it has one.
List(h) ==
    /\ At(h, "list")
    /\ CASE job[h].op = "activate" \/ Flagged(job[h]) ->
              Become(h, [job[h] EXCEPT !.all = saved, !.act = job[h].id, !.pc = "check"])
         [] job[h].op = "delete" /\ saved = <<>> -> Leave(h)
         [] job[h].op = "delete" /\ saved # <<>> ->
              Become(h, [job[h] EXCEPT !.all = saved, !.pc = "check",
                           !.act = IF @ = NoId THEN saved[1].id ELSE @])
         [] OTHER -> Become(h, [job[h] EXCEPT !.all = saved, !.pc = "readActive"])
    /\ UNCHANGED <<diskVars, singboxVars, historyVars>>

-----------------------------------------------------------------------------
(* The handlers' other steps.                                              *)

Entry(op) == CASE op = "import"   -> "add"
               [] op = "delete"   -> "readActive"
               [] op = "rerender" -> "list"
               [] OTHER           -> "get"

\* The bodies and the profile a request or the flag may name: any that was ever
\* listed.
Bodies(op) == CASE op = "import" -> Links [] op = "patch" -> Edits [] OTHER -> {<<>>}
Targets(op) == CASE op = "import"   -> {NoId}
                 [] op = "rerender" -> {NoId} \cup (Flags \cap minted)
                 [] OTHER           -> minted

Call(h, op) ==
    /\ At(h, "idle")
    /\ Cardinality(Active) < Concurrency
    /\ op = "import" => minted # Ids
    /\ \E b \in Bodies(op), i \in Targets(op) :
          Become(h, [NoJob EXCEPT !.op = op, !.pc = Entry(op), !.id = i, !.body = b])
    /\ UNCHANGED <<diskVars, singboxVars, historyVars>>

\* What the handler does with the id it read; errors of `uci get` are dropped.
WithActive(h, a) ==
    CASE job[h].op = "delete" /\ a = job[h].id -> NoJob
      [] job[h].op = "delete" /\ a # job[h].id -> [job[h] EXCEPT !.act = a, !.pc = "delete"]
      [] job[h].op = "import" ->
           [job[h] EXCEPT !.act = IF a = NoId THEN job[h].id ELSE a, !.pc = "check"]
      [] job[h].op = "patch" /\ job[h].all = <<>> -> [job[h] EXCEPT !.pc = "probe"]
      [] OTHER -> [job[h] EXCEPT !.act = a, !.pc = "check"]

\* A request that is over before its first `uci get` fails the same way.
MayFail(h) == Flaky \/ (Aborts /\ job[h].op = "delete")

ReadActive(h) ==
    /\ At(h, "readActive")
    /\ \E a \in {active} \cup (IF MayFail(h) THEN {NoId} ELSE {}) : Become(h, WithActive(h, a))
    /\ UNCHANGED <<diskVars, singboxVars, historyVars>>

\* `uci set` and `uci commit`.
SetActive(h) ==
    /\ At(h, "setActive")
    /\ active' = job[h].id
    /\ Goto(h, "probe")
    /\ UNCHANGED <<saved, config, tmp, singboxVars, historyVars>>

\* SingBoxRunning; an error of pgrep reads as "not running".
Probe(h) ==
    /\ At(h, "probe")
    /\ \E running \in {Running} \cup (IF Flaky THEN {FALSE} ELSE {}) :
         CASE job[h].op = "activate" -> Goto(h, IF running THEN "select" ELSE "start")
           [] job[h].op # "activate" /\ running -> Goto(h, "reload")
           [] OTHER -> Leave(h)
    /\ UNCHANGED <<diskVars, singboxVars, historyVars>>

\* Mutant: the running selector is left to the default just written.
SelectSkips(h) ==
    /\ At(h, "select")
    /\ Leave(h)
    /\ UNCHANGED <<diskVars, singboxVars, historyVars>>

\* clash-API: the selector takes an outbound the running configuration has.
Select(h) ==
    /\ At(h, "select")
    /\ Running /\ job[h].id \in IdsOf(loaded.outbounds)
    /\ selected' = job[h].id
    /\ Leave(h)
    /\ UNCHANGED <<diskVars, loaded, historyVars>>

SelectFails(h) ==
    /\ At(h, "select")
    /\ Flaky \/ ~Running \/ job[h].id \notin IdsOf(loaded.outbounds)
    /\ Goto(h, "reload")
    /\ UNCHANGED <<diskVars, singboxVars, historyVars>>

\* sing-box reads config.json and selects its default.
LoadConfig == loaded' = config /\ selected' = config.default

\* Mutant: the service is told to start, which changes nothing while it runs.
ReloadStarts(h) ==
    /\ At(h, "reload")
    /\ IF config.kind = "whole" /\ ~Running THEN LoadConfig ELSE UNCHANGED singboxVars
    /\ Leave(h)
    /\ UNCHANGED <<diskVars, historyVars>>

\* reload_service checks the file before it stops anything.
Reload(h) ==
    /\ At(h, "reload")
    /\ IF config.kind = "whole" THEN LoadConfig ELSE UNCHANGED singboxVars
    /\ Leave(h)
    /\ UNCHANGED <<diskVars, historyVars>>

\* panel-rerender -no-reload: the file is rendered and that is all.
NoReload(h) ==
    /\ At(h, "reload") /\ job[h].op = "rerender"
    /\ Leave(h)
    /\ UNCHANGED <<diskVars, singboxVars, historyVars>>

\* Activate starts a stopped sing-box unless the switch forbids it.
Start(h) ==
    /\ At(h, "start")
    /\ \E b \in Blocked :
         IF ~b /\ config.kind = "whole" /\ ~Running THEN LoadConfig ELSE UNCHANGED singboxVars
    /\ Leave(h)
    /\ UNCHANGED <<diskVars, historyVars>>

-----------------------------------------------------------------------------
(* The service's own life and failures.                                    *)

\* The switch or the Start button; procd's respawn of a dead process.
ServiceLoads ==
    /\ config.kind = "whole"
    /\ LoadConfig
    /\ UNCHANGED <<diskVars, job, historyVars>>

ServiceStops ==
    /\ loaded' = NoFile /\ selected' = NoId
    /\ UNCHANGED <<diskVars, job, historyVars>>

\* No command of a request whose context is over runs any more; what does not
\* take the context (the store, the file) is not interrupted.
Abort(h) ==
    /\ Aborts
    /\ job[h].pc \in {"readActive", "check", "setActive", "probe", "select", "reload", "start"}
    /\ job[h].op = "delete" => ~At(h, "readActive")
    /\ job[h].op # "rerender"
    /\ Leave(h)
    /\ UNCHANGED <<diskVars, singboxVars, historyVars>>

-----------------------------------------------------------------------------
Step(h) ==
    \/ Add(h) \/ Get(h) \/ Update(h) \/ Delete(h) \/ List(h)
    \/ Check(h) \/ Open(h) \/ Fill(h) \/ Rename(h)
    \/ ReadActive(h) \/ SetActive(h) \/ Probe(h)
    \/ Select(h) \/ SelectFails(h) \/ Reload(h) \/ NoReload(h) \/ Start(h)

Next ==
    \/ \E h \in Handlers : Step(h) \/ Abort(h)
    \/ \E h \in Handlers, op \in Ops : Call(h, op)
    \/ ServiceLoads \/ ServiceStops

Spec == Init /\ [][Next]_vars

-----------------------------------------------------------------------------
Jobs == [op : AllOps \cup {"idle"}, pc : Steps, id : Ids \cup {NoId},
         body : Links \cup Edits \cup {<<>>}, existing : Profile \cup {<<>>},
         all : Seq(Profile), act : Ids \cup {NoId}, fd : {"none", "tmp", "config"}]

TypeOK ==
    /\ saved \in Seq(Profile)
    /\ active \in Ids \cup {NoId} /\ selected \in Ids \cup {NoId}
    /\ config \in Files /\ tmp \in Files /\ loaded \in Files
    /\ job \in [Handlers -> Jobs]
    /\ minted \subseteq Ids
    /\ DOMAIN expected \subseteq minted /\ \A i \in DOMAIN expected : expected[i] \in Data

\* However requests interleave, the list holds exactly the profiles imported
\* and not deleted, each once: no import is lost to another write of the file
\* and a late PATCH does not bring a deleted profile back (internal/store).
StoreExact ==
    /\ IdsOf(saved) = DOMAIN expected
    /\ Cardinality(IdsOf(saved)) = Len(saved)

\* Whatever profiles come and go between a handler's reads, a config.json that
\* is complete selects one of its own outbounds (Render's fallback), so
\* sing-box never starts with a selector that points nowhere.
DefaultExists == \A f \in {config, loaded} :
    f.kind = "whole" => f.outbounds # <<>> /\ f.default \in IdsOf(f.outbounds)

\* sing-box never runs data its own check rejects, in whatever order the
\* candidates of concurrent requests reach the file (WriteAndCheck).
OnlyChecked == \A n \in DOMAIN loaded.outbounds : loaded.outbounds[n].data \notin Bad

\* With one request at a time and no failure: while a profile is left, the
\* running sing-box has exactly the saved profiles with their current data.
TunnelCurrent == Quiet /\ Running /\ saved # <<>> => loaded.outbounds = saved

\* The profile the panel calls active is saved ("cannot delete the active
\* profile").
ActiveSaved == active # NoId => active \in IdsOf(saved)

\* It is saved at every moment, and between requests it is the default of
\* config.json and carries the traffic.  Only panel-rerender -active overrides
\* it: the default of the file that run wrote, until a handler writes the next
\* one, and the traffic of a sing-box that read that file, until an activation.
ActiveSelected ==
    /\ ActiveSaved
    /\ Quiet /\ active # NoId =>
         /\ config.default = active \/ config.flag
         /\ Running => selected = active \/ (loaded.flag /\ selected = loaded.default)

\* profilePatchReq: omitted fields stay as they are, set ones replace.
EditsKept == \A n \in DOMAIN saved : saved[n].data = expected[saved[n].id]

-----------------------------------------------------------------------------
(* What the documentation says and the code does not keep: each of these   *)
(* has a configuration in which TLC shows a counterexample.                *)

\* handleProfileDelete: the deleted outbound disappears from the running
\* sing-box.
DeletedGone == Quiet /\ Running => IdsOf(loaded.outbounds) \subseteq IdsOf(saved)

\* handleProfilePatch: the configuration on disk reflects the edited profile.
ConfigCurrent == Quiet /\ saved # <<>> => config.outbounds = saved

\* Renderer.WriteAndCheck writes config.json atomically.
NeverTorn == config.kind # "torn"

\* handleProfileDelay: the configuration always includes every saved profile
\* once there has been an activation.
AllRendered == Quiet /\ active # NoId => IdsOf(saved) \subseteq IdsOf(config.outbounds)
=============================================================================
