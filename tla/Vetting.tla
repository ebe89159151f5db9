------------------------------- MODULE Vetting -------------------------------
(***************************************************************************)
(* Vetting a list of vless:// links: parse, TCP and TLS probes, deep       *)
(* probes, report.  The code is there twice: vetlib.Run for the panel's    *)
(* Scout, which a context may end early, and the command vless-vet with    *)
(* stages of its own.  run.tool says which of the two is at work; where    *)
(* they differ the guards say so.                                          *)
(*                                                                         *)
(* A deep probe starts a sing-box of its own on a port that was free a     *)
(* moment ago and sends one request through whatever listens there.        *)
(***************************************************************************)
EXTENDS Integers, FiniteSets, SequencesExt

CONSTANTS
    Inputs,         \* what may be vetted: sequences of lists, [lines, nl: a newline ends it]
    Runs,           \* the options: [tool, skipTLS, deep, only: patterns of -only, {} if none]
    Workers,        \* the workers of a stage
    Ports,          \* ephemeral ports of the loopback interface
    Cap,            \* capacity of the workers' channel, 256 and 64 in the code
    MaxDeep,        \* Options.MaxDeep, 0 for no cap
    MaxPerCountry,  \* Options.MaxPerCountry, 0 for no cap
    MaxMs           \* bound on a latency; 0 is a success within the first millisecond

\* PreferredOrder holds every combination the parser accepts.
PreferredOrder == << <<"tcp", "reality">>, <<"tcp", "tls">>, <<"ws", "tls">>, <<"ws", "reality">> >>

\* A line, which the parser accepts (ok) or not.  Countries are numbers in their alphabetical
\* order; 0 is "", a name without a flag.
Lines == {l \in [ok : BOOLEAN, addr : Nat, country : Nat,
                 bucket : {"tcp", "ws", "grpc"} \X {"tls", "reality"}] :
             l.ok => l.bucket \in ToSet(PreferredOrder)}

ASSUME VetAssumption ==
    /\ Cap \in Nat \ {0} /\ MaxDeep \in Nat /\ MaxPerCountry \in Nat /\ MaxMs \in Nat
    /\ IsFiniteSet(Workers) /\ 0 \notin Ports
    /\ \A r \in Runs : r.tool \in {"panel", "cli"} /\ r.skipTLS \in BOOLEAN /\ r.deep \in BOOLEAN
    /\ \A ls \in Inputs : ls \in Seq([lines : Seq(Lines), nl : BOOLEAN])

VARIABLES
    run,      \* the options
    lists,    \* the lists to vet
    ctx,      \* "live" or "over": cancelled, or past HardTimeout
    stage,    \* "parse", "probe", "deep", "sort", "report", "done"
    entries,  \* what was parsed, with the results so far
    todo,     \* the entries of the stage under way, by their place in entries
    fed,      \* how many of them the feeder has sent
    queue,    \* the channel
    closed,   \* the channel is closed
    clashes,  \* history: pairs of entries that had one port at the same time
    worker,   \* worker[w]: [pc, e: entry, port, box: its sing-box, ok, ms: the verdict, d]
    stats,    \* the counters: [done, tcp, tls, vless], done being the stage's
    shown,    \* Done of the stage's last progress message
    order,    \* the entries as Run returns them
    report    \* the groups handed to the user: [key, es]

feedVars == <<todo, fed, queue, closed>>
vars == <<run, lists, clashes, ctx, stage, entries, feedVars, worker, stats, shown, order, report>>

Panel   == run.tool = "panel"
Over    == Panel /\ ctx = "over"
All     == DOMAIN entries
At(w, pc) == worker[w].pc = pc
Resting == [pc |-> "loop", e |-> 0, port |-> 0, box |-> "none", ok |-> FALSE, ms |-> 0, d |-> 0]
-----------------------------------------------------------------------------
(* Ordering: keys are triples of numbers, of which no two are the same. *)

Before(a, b) == \/ a[1] < b[1]
                \/ a[1] = b[1] /\ a[2] < b[2]
                \/ a[1] = b[1] /\ a[2] = b[2] /\ a[3] < b[3]

Rank(key, x) == Cardinality({y \in DOMAIN key : Before(key[y], key[x])})

\* What has a key, the least key first.
ByKey(key) == [k \in 1 .. Cardinality(DOMAIN key) |-> CHOOSE x \in DOMAIN key : Rank(key, x) = k - 1]

Ascending(S) == ByKey([n \in S |-> <<n, 0, 0>>])
-----------------------------------------------------------------------------
(* Parsing.  A line is named by its list and its place there. *)

Line(p) == lists[p[1]].lines[p[2]]

\* openSources of the command ends every list with a newline.
Separated == UNION {{<<i, j>> : j \in DOMAIN lists[i].lines} : i \in DOMAIN lists}

\* chainReaders puts nothing between two lists: without a newline the last line of one and
\* the first of the next are one line, which parses as a link to the former's address.
Continues(i) == \E k \in 1 .. i - 1 : /\ lists[k].lines # <<>> /\ ~lists[k].nl
                                    /\ \A m \in k + 1 .. i - 1 : lists[m].lines = <<>> /\ ~lists[m].nl
Chained == {p \in Separated : p[2] = 1 => ~Continues(p[1])}

\* ReadAndParse and its copy in the command: lines the parser rejects are only counted.
Accepted(lines) == {p \in lines : Line(p).ok}

\* DedupByAddr keeps the first entry of an address; the command keeps them all.
DedupByAddr(lines) ==
    {p \in lines : \A q \in lines : Line(q).addr = Line(p).addr =>
                      p[1] < q[1] \/ (p[1] = q[1] /\ p[2] <= q[2])}

Entry(l) == [line |-> l, tcpOK |-> FALSE, tlsOK |-> FALSE, deepOK |-> FALSE,
             tcpMs |-> 0, tlsMs |-> 0, deepMs |-> 0, real |-> FALSE, probes |-> 0]

Parsed == LET kept == IF Panel THEN DedupByAddr(Accepted(Chained)) ELSE Accepted(Separated)
              file == ByKey([p \in kept |-> <<p[1], p[2], 0>>])
          IN  [n \in DOMAIN file |-> Entry(Line(file[n]))]
-----------------------------------------------------------------------------
(* Ranking *)

\* The panel sorts a latency of 0 last: 0 is also "not measured".
Unmeasured == MaxMs + 1
Measured(ms) == IF ms = 0 THEN Unmeasured ELSE ms

Countries == {entries[i].line.country : i \in All}
CountryRank(c) == Cardinality({d \in Countries \ {0} : c = 0 \/ d < c})

\* The place of a TLS-passer among those of its country, fastest first.
Passers(c)   == {i \in All : entries[i].tlsOK /\ entries[i].line.country = c}
Faster(j, i) == \/ Measured(entries[j].tlsMs) < Measured(entries[i].tlsMs)
                \/ Measured(entries[j].tlsMs) = Measured(entries[i].tlsMs) /\ j < i
Place(i)     == 1 + Cardinality({j \in Passers(entries[i].line.country) : Faster(j, i)})

Capped(s) == IF MaxDeep = 0 \/ Len(s) <= MaxDeep THEN s ELSE SubSeq(s, 1, MaxDeep)
Eligible  == {i \in All : entries[i].tlsOK /\ (MaxPerCountry = 0 \/ Place(i) <= MaxPerCountry)}

\* Mutant: the countries are drained one after the other.
PickByCountry == Capped(ByKey([i \in Eligible |-> <<CountryRank(entries[i].line.country), Place(i), i>>]))

\* Round-robin over the countries: every country's first, then every country's second, ...
PickDeepCandidates == Capped(ByKey([i \in Eligible |-> <<Place(i), CountryRank(entries[i].line.country), i>>]))

TierRank(e) == IF run.deep /\ e.deepOK THEN 0
               ELSE IF e.tlsOK /\ ~run.skipTLS THEN 1
               ELSE IF e.tcpOK THEN 2 ELSE 3
TierLatency(e) == <<e.deepMs, e.tlsMs, e.tcpMs, 0>>[TierRank(e) + 1]

\* Mutant: deep results do not rank.
SortByTLS == ByKey([i \in All |-> <<IF entries[i].tlsOK THEN 1 ELSE 2, Measured(entries[i].tlsMs), i>>])

SortByBestLatency == ByKey([i \in All |-> <<TierRank(entries[i]), Measured(TierLatency(entries[i])), i>>])
-----------------------------------------------------------------------------
(* Reporting *)

\* The strictest stage that was asked for decides.
Alive(e) == IF run.deep THEN e.deepOK ELSE IF run.skipTLS THEN e.tcpOK ELSE e.tlsOK
Living   == {i \in All : Alive(entries[i])}

\* makeResultPayload: by country, bigger groups first, the unknown country last.
OfCountry(c) == LET at == Ascending({k \in DOMAIN order : order[k] \in Living /\ entries[order[k]].line.country = c})
                IN  [n \in DOMAIN at |-> order[at[n]]]

GroupsByCountry ==
    LET keys == ByKey([c \in {entries[i].line.country : i \in Living} |->
                         <<IF c = 0 THEN 1 ELSE 0, -Len(OfCountry(c)), c>>])
    IN  [n \in DOMAIN keys |-> [key |-> keys[n], es |-> OfCountry(keys[n])]]

LatencyForSort(e) == IF run.deep THEN e.deepMs ELSE IF run.skipTLS THEN e.tcpMs ELSE e.tlsMs

Matches(bucket) == run.only = {} \/ \E p \in run.only : \A x \in 1 .. 2 : p[x] \in {"*", bucket[x]}

\* groupByBucket, and writeOutput with its filter.
OfBucket(b) == ByKey([i \in {j \in Living : entries[j].line.bucket = b} |-> <<LatencyForSort(entries[i]), i, 0>>])

GroupsByBucket ==
    LET keys == Ascending({k \in DOMAIN PreferredOrder :
                             OfBucket(PreferredOrder[k]) # <<>> /\ Matches(PreferredOrder[k])})
    IN  [n \in DOMAIN keys |-> [key |-> PreferredOrder[keys[n]], es |-> OfBucket(PreferredOrder[keys[n]])]]
-----------------------------------------------------------------------------
(* The stages *)

Init == /\ run \in Runs /\ lists \in Inputs
        /\ ctx = "live"
        /\ stage = "parse"
        /\ entries = <<>>
        /\ todo = <<>> /\ fed = 0 /\ queue = <<>> /\ closed = FALSE
        /\ worker = [w \in Workers |-> Resting] /\ clashes = {}
        /\ stats = [done |-> 0, tcp |-> 0, tls |-> 0, vless |-> 0]
        /\ shown = 0
        /\ order = <<>> /\ report = <<>>

\* The user cancels, or the hard timeout expires.
Cancel == /\ Panel /\ ctx = "live" /\ stage # "done"
          /\ ctx' = "over"
          /\ UNCHANGED <<run, lists, clashes, stage, entries, feedVars, worker, stats, shown, order, report>>

\* A stage begins: a fresh channel, fresh workers, counters at 0.
Begin(s, es) == /\ stage' = s
                /\ todo' = es /\ fed' = 0 /\ queue' = <<>> /\ closed' = FALSE
                /\ worker' = [w \in Workers |-> Resting]
                /\ stats' = [stats EXCEPT !.done = 0]
                /\ shown' = 0

Skip(s) == /\ stage' = s
           /\ UNCHANGED <<feedVars, worker, stats, shown>>

\* The entries in the order they were parsed: Run's early returns, and the command.
Unsorted(es) == [i \in DOMAIN es |-> i]

Parse == /\ stage = "parse"
         /\ entries' = Parsed
         /\ order' = Unsorted(Parsed)
         /\ IF Over THEN Skip("report") ELSE Begin("probe", Unsorted(Parsed))
         /\ UNCHANGED <<run, lists, clashes, ctx, report>>

Exited == closed /\ \A w \in Workers : At(w, "exited")

ProbeEnds ==
    /\ stage = "probe" /\ Exited
    /\ IF Over THEN Skip("report")
       ELSE IF run.deep
            THEN Begin("deep", IF Panel THEN PickDeepCandidates
                               ELSE Ascending({i \in All : entries[i].tlsOK}))
            ELSE Skip(IF Panel THEN "sort" ELSE "report")
    /\ UNCHANGED <<run, lists, clashes, ctx, entries, order, report>>

DeepEnds == /\ stage = "deep" /\ Exited
            /\ Skip(IF Panel THEN "sort" ELSE "report")
            /\ UNCHANGED <<run, lists, clashes, ctx, entries, order, report>>

Sort == /\ stage = "sort"
        /\ order' = SortByBestLatency
        /\ Skip("report")
        /\ UNCHANGED <<run, lists, clashes, ctx, entries, report>>

Report == /\ stage = "report"
          /\ report' = IF Panel THEN GroupsByCountry ELSE GroupsByBucket
          /\ Skip("done")
          /\ UNCHANGED <<run, lists, clashes, ctx, entries, order>>

Finished == stage = "done" /\ UNCHANGED vars
-----------------------------------------------------------------------------
(* The feeder: a goroutine of the panel's stages, the main goroutine of the command *)

Probing == stage \in {"probe", "deep"}

\* Mutant: a full channel is not waited for.
FeedOrDrop == /\ Probing /\ ~closed /\ fed < Len(todo)
              /\ queue' = IF Len(queue) < Cap THEN Append(queue, todo[fed + 1]) ELSE queue
              /\ fed' = fed + 1
              /\ UNCHANGED <<run, lists, clashes, ctx, stage, entries, todo, closed, worker, stats, shown, order, report>>

Feed == /\ Probing /\ ~closed /\ fed < Len(todo) /\ Len(queue) < Cap
        /\ queue' = Append(queue, todo[fed + 1])
        /\ fed' = fed + 1
        /\ UNCHANGED <<run, lists, clashes, ctx, stage, entries, todo, closed, worker, stats, shown, order, report>>

\* All are sent, or the context is over.
FeedEnds == /\ Probing /\ ~closed /\ (fed = Len(todo) \/ Over)
            /\ closed' = TRUE
            /\ UNCHANGED <<run, lists, clashes, ctx, stage, entries, todo, fed, queue, worker, stats, shown, order, report>>
-----------------------------------------------------------------------------
(* The workers *)

Becomes(w, r) == worker' = [worker EXCEPT ![w] = r]
Goto(w, pc)   == Becomes(w, [worker[w] EXCEPT !.pc = pc])

\* Once the context is over an entry is only counted.
Drain(w) == /\ Probing /\ At(w, "loop") /\ queue # <<>> /\ Over
            /\ queue' = Tail(queue)
            /\ stats' = [stats EXCEPT !.done = @ + 1]
            /\ UNCHANGED <<run, lists, clashes, ctx, stage, entries, todo, fed, closed, worker, shown, order, report>>

\* Whether the candidate carries traffic (real) is up to the candidate.
Take(w) == /\ Probing /\ At(w, "loop") /\ queue # <<>> /\ ~Over
           /\ queue' = Tail(queue)
           /\ Becomes(w, [Resting EXCEPT !.pc = IF stage = "probe" THEN "tcp" ELSE "pick", !.e = Head(queue)])
           /\ IF stage = "probe" THEN UNCHANGED entries
              ELSE \E b \in BOOLEAN : entries' = [entries EXCEPT ![Head(queue)].real = b]
           /\ UNCHANGED <<run, lists, clashes, ctx, stage, todo, fed, closed, stats, shown, order, report>>

Exit(w) == /\ Probing /\ At(w, "loop") /\ queue = <<>> /\ closed
           /\ Goto(w, "exited")
           /\ UNCHANGED <<run, lists, clashes, ctx, stage, entries, feedVars, stats, shown, order, report>>

\* An entry is finished; the panel's worker has a progress message to send.
Counted(w, s) == /\ stats' = [s EXCEPT !.done = @ + 1]
                 /\ Becomes(w, [Resting EXCEPT !.pc = IF Panel THEN "send" ELSE "loop",
                                               !.d = stats.done + 1])

\* probeOne: the TCP dial, and the TLS handshake unless it is skipped.  Who passes TLS is never
\* ranked by its TCP time again, so that is left 0.
Dialed(e, tcp, tls, ms) == [e EXCEPT !.probes = @ + 1, !.tcpOK = tcp, !.tlsOK = tls,
                                     !.tcpMs = IF tls THEN 0 ELSE ms, !.tlsMs = IF tls THEN ms ELSE 0]
One(b) == IF b THEN 1 ELSE 0

Dial(w) == /\ At(w, "tcp")
           /\ \E tcp, tls \in BOOLEAN, ms \in 0 .. MaxMs :
                 /\ tls => tcp /\ ~run.skipTLS
                 /\ ~tcp => ms = 0
                 /\ entries' = [entries EXCEPT ![worker[w].e] = Dialed(@, tcp, tls, ms)]
                 /\ Counted(w, [stats EXCEPT !.tcp = @ + One(tcp), !.tls = @ + One(tls)])
           /\ UNCHANGED <<run, lists, clashes, ctx, stage, feedVars, shown, order, report>>

\* The non-blocking send, after the count: two workers' messages may change places, and a
\* full channel loses them.
Send(w) == /\ At(w, "send")
           /\ shown' \in {shown, worker[w].d}
           /\ Becomes(w, Resting)
           /\ UNCHANGED <<run, lists, clashes, ctx, stage, entries, feedVars, stats, order, report>>

Up(p) == {w \in Workers : worker[w].box = "up" /\ worker[w].port = p}

\* Mutant: the port is a fixed one.
PickFixedPort(w) == /\ At(w, "pick")
                    /\ Becomes(w, [worker[w] EXCEPT !.pc = "start", !.port = CHOOSE p \in Ports : TRUE])
                    /\ UNCHANGED <<run, lists, clashes, ctx, stage, entries, feedVars, stats, shown, order, report>>

\* pickEphemeralPort: the kernel names a port nobody listens on, and it is closed again.  The
\* kernel does not know that others have been named it and do not listen yet.
Holders(p) == {v \in Workers : worker[v].port = p}

PickPort(w) == /\ At(w, "pick")
               /\ \E p \in Ports :
                     /\ Up(p) = {}
                     /\ Becomes(w, [worker[w] EXCEPT !.pc = "start", !.port = p])
                     /\ clashes' = clashes \cup {{worker[w].e, worker[v].e} : v \in Holders(p)}
               /\ UNCHANGED <<run, lists, ctx, stage, entries, feedVars, stats, shown, order, report>>

\* renderDeepConfig, the temporary file, and the start of the process.
StartBox(w) == /\ At(w, "start")
               /\ Becomes(w, [worker[w] EXCEPT !.pc = "get", !.box = "starting"])
               /\ UNCHANGED <<run, lists, clashes, ctx, stage, entries, feedVars, stats, shown, order, report>>

\* The sing-box listens, or dies because another one does.
Bind(w) == /\ worker[w].box = "starting"
           /\ Becomes(w, [worker[w] EXCEPT !.box = IF Up(worker[w].port) = {} THEN "up" ELSE "dead"])
           /\ UNCHANGED <<run, lists, clashes, ctx, stage, entries, feedVars, stats, shown, order, report>>

\* waitForPort and socks5HTTPGet: whoever listens on the port carries the request, if it can.
Get(w) == /\ At(w, "get")
          /\ \E v \in Up(worker[w].port), ms \in 0 .. MaxMs :
                /\ entries[worker[v].e].real
                /\ Becomes(w, [worker[w] EXCEPT !.pc = "kill", !.ok = TRUE, !.ms = ms])
          /\ UNCHANGED <<run, lists, clashes, ctx, stage, entries, feedVars, stats, shown, order, report>>

\* Any step may fail: no port, no file, no process, not listening in time, no answer, timeout.
GiveUp(w) == /\ worker[w].pc \in {"pick", "start", "get"}
             /\ Goto(w, "kill")
             /\ UNCHANGED <<run, lists, clashes, ctx, stage, entries, feedVars, stats, shown, order, report>>

\* The deferred kill and removal of the file, then the verdict.
Proved(e, ok, ms) == [e EXCEPT !.deepOK = ok, !.deepMs = ms]

Kill(w) == /\ At(w, "kill")
           /\ entries' = [entries EXCEPT ![worker[w].e] = Proved(@, worker[w].ok, worker[w].ms)]
           /\ Counted(w, [stats EXCEPT !.vless = @ + One(worker[w].ok)])
           /\ UNCHANGED <<run, lists, clashes, ctx, stage, feedVars, shown, order, report>>

Work(w) == \/ Drain(w) \/ Take(w) \/ Exit(w) \/ Dial(w) \/ Send(w)
           \/ PickPort(w) \/ StartBox(w) \/ Bind(w) \/ Get(w) \/ GiveUp(w) \/ Kill(w)

Next == \/ Cancel \/ Parse \/ ProbeEnds \/ DeepEnds \/ Sort \/ Report \/ Finished
        \/ Feed \/ FeedEnds
        \/ \E w \in Workers : Work(w)

Spec == Init /\ [][Next]_vars
-----------------------------------------------------------------------------
(* Properties *)

\* The counters are those of the entries' marks, a stricter check is only passed by who
\* passed the laxer, nobody is probed twice, and a run nobody cuts short probes everybody,
\* however the feeder and the workers interleave at a full channel.
Tally == /\ stats.tcp   = Cardinality({i \in All : entries[i].tcpOK})
         /\ stats.tls   = Cardinality({i \in All : entries[i].tlsOK})
         /\ stats.vless = Cardinality({i \in All : entries[i].deepOK})
         /\ \A i \in All : /\ entries[i].deepOK => entries[i].tlsOK
                           /\ entries[i].tlsOK => entries[i].tcpOK
                           /\ entries[i].probes \in 0 .. 1
         /\ ctx = "live" /\ stage \in {"sort", "report", "done"} =>
              /\ \A i \in All : entries[i].probes = 1
              /\ stats.done = Len(todo)

\* A candidate is reported as carrying traffic only if it does, although the probes of several
\* candidates share one range of ports; or, where the kernel named the port of a probe under way
\* to the probe of another candidate as well, if that one does.
SharedPort(i) == {j \in All : {i, j} \in clashes}
DeepProves == \A i \in All : entries[i].deepOK =>
                  \E j \in {i} \cup SharedPort(i) : entries[j].real

\* Deep candidates are picked fairly: while a country has a passer left out (not for its own
\* cap), no country has two more candidates than it, and the left-out one is not faster.
Picked(c) == {i \in ToSet(todo) : entries[i].line.country = c}
FairPicks == Panel /\ stage = "deep" =>
    \A i \in All \ ToSet(todo) :
        LET c == entries[i].line.country IN
        entries[i].tlsOK =>
            /\ \A j \in Picked(c) : Measured(entries[j].tlsMs) <= Measured(entries[i].tlsMs)
            /\ \/ MaxPerCountry # 0 /\ Cardinality(Picked(c)) = MaxPerCountry
               \/ /\ Len(todo) = MaxDeep
                  /\ \A d \in Countries : Cardinality(Picked(d)) <= Cardinality(Picked(c)) + 1

\* How many of the asked checks an entry passed.
Depth(e) == Cardinality({x \in {"tcp", "tls", "deep"} :
                \/ x = "tcp" /\ e.tcpOK
                \/ x = "tls" /\ e.tlsOK
                \/ x = "deep" /\ e.deepOK})

Shown  == {x \in (DOMAIN report) \X All : x[2] \in DOMAIN report[x[1]].es}
Key(i) == IF Panel THEN entries[i].line.country ELSE entries[i].line.bucket

\* The report holds each candidate that passed the strictest check asked for, once, under its
\* own group, and no other (vless-vet's: of the buckets -only names); and unless the run was cut
\* short the panel lists who passed more before who passed less, at equals the faster first.
Reported == stage = "done" =>
    /\ \A i \in All : Cardinality({x \in Shown : report[x[1]].es[x[2]] = i}) =
                      IF Alive(entries[i]) /\ (~Panel => Matches(entries[i].line.bucket)) THEN 1 ELSE 0
    /\ \A x \in Shown : Key(report[x[1]].es[x[2]]) = report[x[1]].key
    /\ ToSet(order) = All /\ Len(order) = Len(entries)
    /\ Panel /\ ctx = "live" => \A a, b \in All : a < b =>
          LET e == entries[order[a]]  f == entries[order[b]] IN
          \/ Depth(e) > Depth(f)
          \/ Depth(e) = Depth(f) /\ Measured(TierLatency(e)) <= Measured(TierLatency(f))

\* Not kept by the code: a deep probe goes through its own candidate (deep.go: the check that a
\* tunnel "actually carries traffic").
EachItsOwn == \A i \in All : entries[i].deepOK => entries[i].real

\* Not kept by the code: Run's result is sorted, whichever way it returns.
AlwaysSorted == Panel /\ stage = "done" => order = SortByBestLatency

\* Not kept by the code: no acceptable link of a list is lost between two lists.
NoneLost == stage # "parse" =>
    \A i \in DOMAIN lists : \A l \in ToSet(lists[i].lines) :
        l.ok => \E e \in ToSet(entries) : e.line.addr = l.addr

\* Not kept by the code: every represented country gets at least one shot (pickDeepCandidates).
EveryCountry == Panel /\ stage = "deep" => \A c \in Countries : Passers(c) # {} => Picked(c) # {}

\* Not kept by the code: the progress of a stage never goes back.
ProgressForward == [][stage' = stage => shown' >= shown]_vars
=============================================================================
