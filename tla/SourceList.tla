----------------------------- MODULE SourceList -----------------------------
(***************************************************************************)
(* The Scout's source list: the handlers of /api/sources and the fetch     *)
(* that begins a scan, over sources.json.  Every request makes a           *)
(* sourceStore, and so a mutex, of its own: nothing keeps two requests     *)
(* apart but the file system, which is modelled down to the file that      *)
(* sources.json and sources.json.tmp name, because all savers share the    *)
(* name of the temporary file.                                             *)
(*                                                                         *)
(* A body and its hash are a version number; names, sizes and times are    *)
(* left out.                                                               *)
(***************************************************************************)
EXTENDS Naturals, Sequences, FiniteSets, Functions

CONSTANTS
    Requests,      \* requests, a scan's fetch among them, that may run at the same time
    Presets,       \* presetSources
    Ids,           \* the ids newRandHex may give to user sources
    Versions,      \* bodies a source may have
    Ops,           \* what is asked for: a subset of AllOps
    MaxRequests,   \* bound: requests ever made
    MaxChanges,    \* bound: how often the bodies change
    Crashes,       \* the panel may die and be started again
    Torn,          \* a file that does not parse
    None           \* no hash

AllOps == {"add", "add_off", "enable", "disable", "delete", "refresh", "refresh_one", "scan"}

Sources == Presets \cup Ids

\* SourceMeta, and sourcesFile: the user sources and the overridden presets with their
\* enabled flag, and Meta.
Metas  == [status : {"none", "ok", "error", "unchanged"}, hash : Versions \cup {None}]
Stores == [enabled : UNION {[d -> BOOLEAN] : d \in SUBSET Sources},
           meta    : UNION {[d -> Metas] : d \in SUBSET Sources}]

ASSUME SourceAssumption ==
    /\ IsFiniteSet(Requests) /\ Torn \notin Stores
    /\ Ops \subseteq AllOps /\ MaxRequests \in Nat /\ MaxChanges \in Nat
    /\ Presets \cap Ids = {} /\ Crashes \in BOOLEAN /\ None \notin Versions

VARIABLES
    request,  \* request[r]: [pc, op, id, file: its copy, fd, left: to fetch, res: meta to save]
    disk,     \* the content of each file
    main,     \* the file named sources.json, 0 for none
    tmp,      \* the file named sources.json.tmp, 0 for none
    body,     \* what each source would answer now
    made,     \* requests so far
    changes,  \* changes of the bodies so far
    used,     \* ids given out
    truth,    \* history: the store the answered requests add up to
    seen,     \* history: the last two fetches recorded of each source, None for a failure
    overlap   \* history: two requests have held copies of the file at the same time

vars == <<request, disk, main, tmp, body, made, changes, used, truth, seen, overlap>>

Files   == 1 .. Cardinality(Requests) + 2
NoMeta  == [status |-> "none", hash |-> None]

Fresh == [enabled |-> <<>>, meta |-> <<>>]
Resting == [pc |-> "idle", op |-> "none", id |-> None, file |-> Fresh, fd |-> 0,
            left |-> {}, res |-> NoMeta]

Init == /\ request = [r \in Requests |-> Resting]
        /\ disk = [f \in Files |-> Torn]
        /\ main = 0 /\ tmp = 0
        /\ body \in [Sources -> Versions]
        /\ made = 0 /\ changes = 0 /\ used = {}
        /\ truth = Fresh
        /\ seen = [s \in Sources |-> <<None, None>>]
        /\ overlap = FALSE

Put(f, x, v) == [y \in DOMAIN f \cup {x} |-> IF y = x THEN v ELSE f[y]]

\* load: a missing file is an empty store.
Read     == IF main = 0 THEN Fresh ELSE disk[main]
Readable == Read # Torn

At(r, pc)  == request[r].pc = pc
Does(r, x) == request' = [request EXCEPT ![r] = x]
Ends(r)    == Does(r, Resting)
-----------------------------------------------------------------------------
(* What the requests do to a store *)

MetaOf(file, s) == IF s \in DOMAIN file.meta THEN file.meta[s] ELSE NoMeta

\* Without an override a preset has the flag of presetSources; every preset is enabled here.
IsEnabled(file, s) == IF s \in DOMAIN file.enabled THEN file.enabled[s] ELSE TRUE

AllSources(file) == Presets \cup (DOMAIN file.enabled)

\* handleSourcesRefresh without ids takes the disabled sources too, a scan does not.
Picked(op, id, file) == CASE op = "refresh"     -> AllSources(file)
                          [] op = "refresh_one" -> AllSources(file) \cap {id}
                          [] op = "scan"        -> {s \in AllSources(file) : IsEnabled(file, s)}

\* Update and delete refuse what is not there, delete refuses presets.
Allowed(op, id, file) == CASE op \in {"add", "add_off"}    -> TRUE
                           [] op \in {"enable", "disable"} -> id \in AllSources(file)
                           [] op = "delete"                -> id \in DOMAIN file.enabled \ Presets

\* Add and update set the flag; a name alone is an update to the flag that is there.
\* Delete leaves the source's meta behind.
Edit(op, id, file) ==
    CASE op \in {"add", "enable"}      -> [file EXCEPT !.enabled = Put(@, id, TRUE)]
      [] op \in {"add_off", "disable"} -> [file EXCEPT !.enabled = Put(@, id, FALSE)]
      [] op = "delete"                 -> [file EXCEPT !.enabled = Restrict(@, DOMAIN @ \ {id})]

Record(id, meta, file) == [file EXCEPT !.meta = Put(@, id, meta)]
-----------------------------------------------------------------------------
(* The handlers *)

Adds  == {"add", "add_off"}
Edits == Adds \cup {"enable", "disable", "delete"}

\* A request arrives; an add brings an id nobody has had.
Arrive(r) == /\ At(r, "idle") /\ made < MaxRequests
             /\ made' = made + 1
             /\ \E op \in Ops :
                   \E id \in CASE op \in Adds -> Ids \ used
                               [] op \in {"enable", "disable", "refresh_one"} -> Presets \cup used
                               [] op = "delete" -> used
                               [] OTHER -> {None} :
                      /\ used' = IF op \in Adds THEN used \cup {id} ELSE used
                      /\ Does(r, [Resting EXCEPT !.pc = "load", !.op = op, !.id = id])
             /\ UNCHANGED <<disk, main, tmp, body, changes, truth, seen, overlap>>

Holding(r) == request[r].pc \in {"reload", "open", "write", "rename"}
Overlaps(r) == overlap' = (overlap \/ \E q \in Requests \ {r} : Holding(q))

\* load, the checks, and the edit of the copy.
LoadEdit(r) == LET op == request[r].op  id == request[r].id IN
    /\ At(r, "load") /\ op \in Edits
    /\ IF Readable /\ Allowed(op, id, Read)
       THEN /\ Does(r, [request[r] EXCEPT !.pc = "open", !.file = Edit(op, id, Read)])
            /\ Overlaps(r)
       ELSE Ends(r) /\ UNCHANGED overlap
    /\ UNCHANGED <<disk, main, tmp, body, made, changes, used, truth, seen>>

\* allSources, and what is picked of it.
LoadList(r) == LET op == request[r].op  id == request[r].id IN
    /\ At(r, "load") /\ op \notin Edits
    /\ IF Readable /\ Picked(op, id, Read) # {}
       THEN Does(r, [request[r] EXCEPT !.pc = "fetch", !.left = Picked(op, id, Read)])
       ELSE Ends(r)
    /\ UNCHANGED <<disk, main, tmp, body, made, changes, used, truth, seen, overlap>>

\* fetchSource and fillContentMeta: the body's hash, or an error without one.
Fetch(r) == /\ At(r, "fetch")
            /\ \E s \in request[r].left : \E m \in {[status |-> "ok", hash |-> body[s]],
                                                   [status |-> "error", hash |-> None]} :
                  Does(r, [request[r] EXCEPT !.pc = "prev", !.id = s, !.left = @ \ {s}, !.res = m])
            /\ UNCHANGED <<disk, main, tmp, body, made, changes, used, truth, seen, overlap>>

\* Mutant: two failures in a row are "unchanged" too.
ComparedHashes(prev, m) == IF prev.hash = m.hash THEN [m EXCEPT !.status = "unchanged"] ELSE m

Compared(prev, m) == IF prev.hash # None /\ m.status = "ok" /\ prev.hash = m.hash
                     THEN [m EXCEPT !.status = "unchanged"] ELSE m

\* previousMeta: an unreadable file is no previous meta.
Compare(r) == LET q == request[r] IN
    /\ At(r, "prev")
    /\ Does(r, [q EXCEPT !.pc = "reload",
                         !.res = Compared(IF Readable THEN MetaOf(Read, q.id) ELSE NoMeta, q.res)])
    /\ Overlaps(r)
    /\ UNCHANGED <<disk, main, tmp, body, made, changes, used, truth, seen>>

NextFetch(r) == IF request[r].left = {} THEN Ends(r)
                ELSE Does(r, [request[r] EXCEPT !.pc = "fetch", !.file = Fresh, !.fd = 0])

\* updateMeta: load, and the meta put into the copy.  Its errors are ignored.
Reload(r) == /\ At(r, "reload")
             /\ IF Readable
                THEN /\ Does(r, [request[r] EXCEPT !.pc = "open", !.file = Record(request[r].id, request[r].res, Read)])
                     /\ Overlaps(r)
                ELSE NextFetch(r) /\ UNCHANGED overlap
             /\ UNCHANGED <<disk, main, tmp, body, made, changes, used, truth, seen>>
-----------------------------------------------------------------------------
(* save *)

InUse == {main, tmp} \cup {request[r].fd : r \in Requests}

\* Mutant: sources.json itself is written.
OpenInPlace(r) == /\ At(r, "open")
                  /\ LET f == IF main # 0 THEN main ELSE CHOOSE x \in Files \ InUse : TRUE
                     IN  /\ tmp' = f
                         /\ disk' = [disk EXCEPT ![f] = Torn]
                         /\ Does(r, [request[r] EXCEPT !.pc = "write", !.fd = f])
                  /\ UNCHANGED <<main, body, made, changes, used, truth, seen, overlap>>

\* os.WriteFile opens the temporary file, an existing one is cut to nothing...
Open(r) == /\ At(r, "open")
           /\ LET f == IF tmp # 0 THEN tmp ELSE CHOOSE x \in Files \ InUse : TRUE
              IN  /\ tmp' = f
                  /\ disk' = [disk EXCEPT ![f] = Torn]
                  /\ Does(r, [request[r] EXCEPT !.pc = "write", !.fd = f])
           /\ UNCHANGED <<main, body, made, changes, used, truth, seen, overlap>>

\* ... and writes: over another's longer content only the beginning is replaced.
Write(r) == LET q == request[r] IN
    /\ At(r, "write")
    /\ \E c \in {q.file} \cup (IF disk[q.fd] = Torn THEN {} ELSE {Torn}) :
          disk' = [disk EXCEPT ![q.fd] = c]
    /\ Does(r, [q EXCEPT !.pc = "rename"])
    /\ UNCHANGED <<main, tmp, body, made, changes, used, truth, seen, overlap>>

\* os.WriteFile fails: nothing is opened, or the file keeps a part or another's content.
\* An edit answers 500, updateMeta's error is ignored.
WriteFails(r) == LET q == request[r] IN
    /\ \/ At(r, "open") /\ UNCHANGED disk
       \/ /\ At(r, "write")
          /\ \E c \in {disk[q.fd], Torn} : disk' = [disk EXCEPT ![q.fd] = c]
    /\ IF q.op \in Edits THEN Ends(r) ELSE NextFetch(r)
    /\ UNCHANGED <<main, tmp, body, made, changes, used, truth, seen, overlap>>

\* The rename fails when another saver has renamed the file already.
RenameFails(r) == /\ At(r, "rename") /\ tmp = 0
                  /\ IF request[r].op \in Edits THEN Ends(r) ELSE NextFetch(r)
                  /\ UNCHANGED <<disk, main, tmp, body, made, changes, used, truth, seen, overlap>>

Rename(r) == LET q == request[r] IN
    /\ At(r, "rename") /\ tmp # 0
    /\ main' = tmp /\ tmp' = 0
    /\ IF q.op \in Edits
       THEN /\ truth' = Edit(q.op, q.id, truth)
            /\ UNCHANGED seen
            /\ Ends(r)
       ELSE /\ truth' = Record(q.id, q.res, truth)
            /\ seen' = [seen EXCEPT ![q.id] = <<@[2], q.res.hash>>]
            /\ NextFetch(r)
    /\ UNCHANGED <<disk, body, made, changes, used, overlap>>
-----------------------------------------------------------------------------
(* The surroundings *)

Change == /\ changes < MaxChanges
          /\ changes' = changes + 1
          /\ \E s \in Sources, v \in Versions : body[s] # v /\ body' = [body EXCEPT ![s] = v]
          /\ UNCHANGED <<request, disk, main, tmp, made, used, truth, seen, overlap>>

\* The panel dies and is started again: requests are gone, files stay as they are.
Crash == /\ Crashes /\ \E r \in Requests : ~At(r, "idle")
         /\ request' = [r \in Requests |-> Resting]
         /\ UNCHANGED <<disk, main, tmp, body, made, changes, used, truth, seen, overlap>>

Serve(r) == \/ LoadEdit(r) \/ LoadList(r) \/ Fetch(r) \/ Compare(r) \/ Reload(r)
            \/ Open(r) \/ Write(r) \/ WriteFails(r) \/ Rename(r) \/ RenameFails(r)

Next == \/ \E r \in Requests : Arrive(r) \/ Serve(r)
        \/ Change \/ Crash

Spec == Init /\ [][Next]_vars
-----------------------------------------------------------------------------
(* Properties *)

\* As long as no two requests hold copies at once, sources.json always parses and is exactly
\* what the answered requests add up to, through crashes at any point of a save, and though
\* fetches of other requests take their time in between.
StoreKept == ~overlap => Readable /\ Read = truth

\* Likewise, a source is recorded as unchanged exactly when its last two recorded fetches
\* succeeded and brought the same body.
UnchangedTrue == ~overlap => \A s \in Sources :
    MetaOf(Read, s).status = "unchanged" <=> seen[s][1] # None /\ seen[s][1] = seen[s][2]

\* Not kept by the code: concurrent requests do not trample each other (sourceStore).
NoTrampling == Readable => Read.enabled = truth.enabled

\* Not kept by the code: sources.json parses while requests run.
AlwaysReadable == Readable

\* Not kept by the code: a deleted source leaves nothing in sources.json.
NoOrphans == Readable => DOMAIN Read.meta \subseteq AllSources(Read)
=============================================================================
