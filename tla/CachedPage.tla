----------------------------- MODULE CachedPage -----------------------------
(***************************************************************************)
(* The two cached pages of the panel, /api/state and /api/live, and the    *)
(* exit-IP poller the live page shows.  handleState and handleLive share   *)
(* their control: a fresh page is returned at once; a request that finds a *)
(* collection under way waits for its slot; any other request opens a slot *)
(* and collects under its own request's context.  They differ in what is   *)
(* collected: nine probes side by side, or the poller's snapshot and then  *)
(* the clash API's counters.  `page` says which of the three is at work;   *)
(* the live page takes the poller's snapshot as given, good or not.        *)
(*                                                                         *)
(* A block's value is the moment it was read, which is all that age, order *)
(* and failure need; byte counters are kept for the rates.                 *)
(***************************************************************************)
EXTENDS Integers, Sequences, FiniteSets

CONSTANTS Clients,      \* browser tabs, the launcher
          StateBlocks,  \* the blocks of /api/state
          TTL,          \* stateCacheTTL, liveCacheTTL
          Deadline,     \* the cap on a collection
          Tickers,      \* the poller's background loops: main starts two
          Nudgers,      \* goroutines of nudgeExitIP, one for each nudge
          MaxNow,       \* bound on the clock
          MaxAsks,      \* bound on requests
          MaxBytes,     \* bound on the traffic of a run
          MaxReroutes,  \* bound on changes of the exit address
          MaxFails,     \* bound on failed fetches
          Never, Failed \* no time, no page; an error block

ASSUME PageAssumption ==
    /\ TTL \in Nat \ {0} /\ Deadline \in Nat
    /\ {MaxNow, MaxAsks, MaxBytes, MaxReroutes, MaxFails} \subseteq Nat
    /\ Never \notin Int /\ Failed \notin Int /\ Never # Failed
    /\ Never \notin [up : Nat, moved : Nat]

VARIABLES page,     \* "state", "live" or "exit_ip"
          now,      \* the clock
          req,      \* req[c]: the handler serving client c
          slots,    \* the refresh slots, in the order they were opened
          entry,    \* the slot whose page is cached, 0 before the first
          pending,  \* the slot being filled, 0 when none is
          got,      \* got[c]: the page client c was given for its last request
          asks,     \* requests so far
          prev,     \* the counters the next rates are computed from
          bytes,    \* [up: sing-box's counter, moved: all bytes ever (history)]
          egress,   \* the exit address now
          poller,   \* [ip: value, old: it was fetched before the last nudge (history), err: lastErr]
          fetch,    \* fetch[f]: what goroutine f has under way (old: sent before the last nudge)
          fails     \* failed fetches so far

cacheVars == <<req, slots, entry, pending, got, asks, prev>>
pollVars  == <<egress, poller, fetch, fails>>
vars == <<page, now, bytes, cacheVars, pollVars>>

Blocks   == IF page = "state" THEN StateBlocks ELSE {"exit_ip", "traffic"}
Fetchers == Tickers \cup Nudgers
Idle     == [pc |-> "idle", asked |-> Never, gone |-> FALSE, slot |-> 0]
Counted  == [up |-> 0, moved |-> 0]
NoFetch  == [at |-> "idle", ip |-> 0, old |-> FALSE]

Init == /\ page \in {"state", "live", "exit_ip"}
        /\ now = 0
        /\ req = [c \in Clients |-> Idle]
        /\ slots = <<>>
        /\ entry = 0 /\ pending = 0
        /\ got = [c \in Clients |-> Never]
        /\ asks = 0
        /\ prev = Never
        /\ bytes = Counted
        /\ egress = 0
        /\ poller = [ip |-> Never, old |-> FALSE, err |-> FALSE]
        /\ fetch = [f \in Fetchers |-> NoFetch]
        /\ fails = 0
-----------------------------------------------------------------------------
(* The handlers *)

Ask(c) == /\ page # "exit_ip" /\ req[c].pc = "idle" /\ asks < MaxAsks
          /\ asks' = asks + 1
          /\ req' = [req EXCEPT ![c] = [Idle EXCEPT !.pc = "arrived", !.asked = now]]
          /\ got' = [got EXCEPT ![c] = Never]
          /\ UNCHANGED <<page, now, bytes, slots, entry, pending, prev, pollVars>>

\* The client goes away: r.Context() is cancelled, the handler goes on.
Leave(c) == /\ req[c].pc # "idle" /\ ~req[c].gone
            /\ req' = [req EXCEPT ![c].gone = TRUE]
            /\ UNCHANGED <<page, now, bytes, slots, entry, pending, got, asks, prev, pollVars>>

Fresh == entry # 0 /\ now - slots[entry].page.ended < TTL

\* The response is written; a client that has left does not see it.
Write(c, p) == /\ got' = IF req[c].gone THEN got ELSE [got EXCEPT ![c] = p]
               /\ req' = [req EXCEPT ![c] = Idle]

\* The first critical section.
ServeCached(c) == /\ req[c].pc = "arrived" /\ Fresh
                  /\ Write(c, slots[entry].page)
                  /\ UNCHANGED <<page, now, bytes, slots, entry, pending, asks, prev, pollVars>>

JoinRefresh(c) == /\ req[c].pc = "arrived" /\ ~Fresh /\ pending # 0
                  /\ req' = [req EXCEPT ![c].pc = "wait", ![c].slot = pending]
                  /\ UNCHANGED <<page, now, bytes, slots, entry, pending, got, asks, prev, pollVars>>

\* A new slot: the page is empty, and from is the snapshot the rates will refer to.
OpenSlot == [began |-> now, closed |-> FALSE, from |-> prev, fresh |-> prev,
             page |-> [ended |-> Never, blocks |-> <<>>, rate |-> 0]]

\* Mutant: c.pending is not looked at.
BeginRefreshAlways(c) ==
    /\ req[c].pc = "arrived" /\ ~Fresh
    /\ slots' = Append(slots, OpenSlot)
    /\ pending' = Len(slots) + 1
    /\ req' = [req EXCEPT ![c].pc = "collect", ![c].slot = Len(slots) + 1]
    /\ UNCHANGED <<page, now, bytes, entry, got, asks, prev, pollVars>>

BeginRefresh(c) == /\ req[c].pc = "arrived" /\ ~Fresh /\ pending = 0
                   /\ slots' = Append(slots, OpenSlot)
                   /\ pending' = Len(slots) + 1
                   /\ req' = [req EXCEPT ![c].pc = "collect", ![c].slot = Len(slots) + 1]
                   /\ UNCHANGED <<page, now, bytes, entry, got, asks, prev, pollVars>>

\* A command or an upstream request under the collection's context: it may fail, and it
\* fails once the client has left or the deadline has passed.
Outcomes(c) == IF req[c].gone \/ now >= slots[req[c].slot].began + Deadline
               THEN {Failed} ELSE {now, Failed}

With(blocks, b, v) == [x \in DOMAIN blocks \cup {b} |-> IF x = b THEN v ELSE blocks[x]]

\* One of the nine goroutines of collectState.
Probe(c, b) == LET s == req[c].slot IN
    /\ page = "state" /\ req[c].pc = "collect"
    /\ b \in Blocks \ DOMAIN slots[s].page.blocks
    /\ \E v \in Outcomes(c) : slots' = [slots EXCEPT ![s].page.blocks = With(@, b, v)]
    /\ UNCHANGED <<page, now, bytes, req, entry, pending, got, asks, prev, pollVars>>

\* collectLive, first block: Snapshot never blocks and asks nobody; lastErr may be set.
ReadExitIP(c) == LET s == req[c].slot IN
    /\ page = "live" /\ req[c].pc = "collect"
    /\ "exit_ip" \notin DOMAIN slots[s].page.blocks
    /\ \E v \in {now, Failed} : slots' = [slots EXCEPT ![s].page.blocks = With(@, "exit_ip", v)]
    /\ UNCHANGED <<page, now, bytes, req, entry, pending, got, asks, prev, pollVars>>

\* Mutant: counters that went back are not looked for.
DeltaSigned(from) == IF from = Never THEN 0 ELSE bytes.up - from.up

\* The bytes of the interval as the code computes them: counters that went back (sing-box
\* restarted) and a first snapshot give 0.
Delta(from) == IF from = Never \/ bytes.up < from.up THEN 0 ELSE bytes.up - from.up

\* Mutant: a failed read hands an empty snapshot to the next collection.
ReadTrafficForgets(c) == LET s == req[c].slot IN
    /\ page = "live" /\ req[c].pc = "collect"
    /\ "exit_ip" \in DOMAIN slots[s].page.blocks
    /\ "traffic" \notin DOMAIN slots[s].page.blocks
    /\ \E v \in Outcomes(c) :
          slots' = [slots EXCEPT
              ![s].page.blocks = With(@, "traffic", v),
              ![s].page.rate   = IF v = Failed THEN 0 ELSE Delta(slots[s].from),
              ![s].fresh       = IF v = Failed THEN Counted ELSE bytes]
    /\ UNCHANGED <<page, now, bytes, req, entry, pending, got, asks, prev, pollVars>>

\* collectLive, the rest: traffic and top_flows come from one GET /connections.
ReadTraffic(c) == LET s == req[c].slot IN
    /\ page = "live" /\ req[c].pc = "collect"
    /\ "exit_ip" \in DOMAIN slots[s].page.blocks
    /\ "traffic" \notin DOMAIN slots[s].page.blocks
    /\ \E v \in Outcomes(c) :
          slots' = [slots EXCEPT
              ![s].page.blocks = With(@, "traffic", v),
              ![s].page.rate   = IF v = Failed THEN 0 ELSE Delta(slots[s].from),
              ![s].fresh       = IF v = Failed THEN slots[s].from ELSE bytes]
    /\ UNCHANGED <<page, now, bytes, req, entry, pending, got, asks, prev, pollVars>>

\* The second critical section: the page is cached and the slot given up.
Publish(c) == LET s == req[c].slot IN
    /\ req[c].pc = "collect" /\ DOMAIN slots[s].page.blocks = Blocks
    /\ slots' = [slots EXCEPT ![s].page.ended = now]
    /\ entry' = s
    /\ pending' = 0
    /\ prev' = slots[s].fresh
    /\ req' = [req EXCEPT ![c].pc = "publish"]
    /\ UNCHANGED <<page, now, bytes, got, asks, pollVars>>

\* Mutant: the channel is not closed.
ReplyOnly(c) == /\ req[c].pc = "publish"
                /\ Write(c, slots[req[c].slot].page)
                /\ UNCHANGED <<page, now, bytes, slots, entry, pending, asks, prev, pollVars>>

\* close(slot.done), and the refresher's own response.
Reply(c) == /\ req[c].pc = "publish"
            /\ slots' = [slots EXCEPT ![req[c].slot].closed = TRUE]
            /\ Write(c, slots[req[c].slot].page)
            /\ UNCHANGED <<page, now, bytes, entry, pending, asks, prev, pollVars>>

Wake(c) == /\ req[c].pc = "wait" /\ slots[req[c].slot].closed
           /\ Write(c, slots[req[c].slot].page)
           /\ UNCHANGED <<page, now, bytes, slots, entry, pending, asks, prev, pollVars>>
-----------------------------------------------------------------------------
(* The poller *)

Flying(f) == fetch[f].at = "sent"

\* Invalidate, and a goroutine for RefreshNow.
Nudge == /\ page = "exit_ip"
         /\ \E n \in Nudgers :
               /\ fetch[n].at = "idle"
               /\ fetch' = [f \in Fetchers |->
                              IF f = n THEN [NoFetch EXCEPT !.at = "due"]
                              ELSE [fetch[f] EXCEPT !.old = Flying(f)]]
         /\ poller' = [ip |-> Never, old |-> FALSE, err |-> FALSE]
         /\ UNCHANGED <<page, now, bytes, cacheVars, egress, fails>>

\* fetchOnce: the echo service answers with the address the request leaves from.
FetchSend(f) == /\ page = "exit_ip"
                /\ fetch[f].at = IF f \in Tickers THEN "idle" ELSE "due"
                /\ fetch' = [fetch EXCEPT ![f] = [at |-> "sent", ip |-> egress, old |-> FALSE]]
                /\ UNCHANGED <<page, now, bytes, cacheVars, egress, poller, fails>>

Landed(f) == fetch' = [fetch EXCEPT ![f] = [NoFetch EXCEPT !.at = IF f \in Tickers THEN "idle" ELSE "over"]]

\* Mutant: a good answer does not clear lastErr.
FetchStoreErr(f) == /\ Flying(f)
                    /\ poller' = [poller EXCEPT !.ip = fetch[f].ip, !.old = fetch[f].old]
                    /\ Landed(f)
                    /\ UNCHANGED <<page, now, bytes, cacheVars, egress, fails>>

FetchStore(f) == /\ Flying(f)
                 /\ poller' = [ip |-> fetch[f].ip, old |-> fetch[f].old, err |-> FALSE]
                 /\ Landed(f)
                 /\ UNCHANGED <<page, now, bytes, cacheVars, egress, fails>>

\* recordErr keeps the address it has.
FetchFail(f) == /\ Flying(f) /\ fails < MaxFails
                /\ fails' = fails + 1
                /\ poller' = [poller EXCEPT !.err = TRUE]
                /\ Landed(f)
                /\ UNCHANGED <<page, now, bytes, cacheVars, egress>>

Reroute == /\ page = "exit_ip" /\ egress < MaxReroutes
           /\ egress' = egress + 1
           /\ UNCHANGED <<page, now, bytes, cacheVars, poller, fetch, fails>>
-----------------------------------------------------------------------------
(* The surroundings *)

Transfer == /\ page = "live" /\ bytes.moved < MaxBytes
            /\ bytes' = [up |-> bytes.up + 1, moved |-> bytes.moved + 1]
            /\ UNCHANGED <<page, now, cacheVars, pollVars>>

\* sing-box restarts: its counters begin at 0.
ResetCounters == /\ page = "live" /\ bytes.up > 0
                 /\ bytes' = [bytes EXCEPT !.up = 0]
                 /\ UNCHANGED <<page, now, cacheVars, pollVars>>

\* A collection ends by its deadline: its context stops every read.
Tick == /\ now < MaxNow
        /\ pending # 0 => now < slots[pending].began + Deadline
        /\ now' = now + 1
        /\ UNCHANGED <<page, bytes, cacheVars, pollVars>>

Serve(c) == \/ ServeCached(c) \/ JoinRefresh(c) \/ BeginRefresh(c)
            \/ \E b \in Blocks : Probe(c, b)
            \/ ReadExitIP(c) \/ ReadTraffic(c) \/ Publish(c) \/ Reply(c) \/ Wake(c)

Poll(f) == FetchSend(f) \/ FetchStore(f) \/ FetchFail(f)

Next == \/ \E c \in Clients : Ask(c) \/ Leave(c) \/ Serve(c)
        \/ \E f \in Fetchers : Poll(f)
        \/ Nudge \/ Reroute \/ Transfer \/ ResetCounters \/ Tick

\* Goroutines run, every read ends (its context has a deadline), and every fetch ends (its
\* client has a timeout).  Clients, traffic and the clock owe nothing.
Fairness == /\ \A c \in Clients : WF_vars(Serve(c))
            /\ \A f \in Fetchers : WF_vars(Poll(f))

Spec == Init /\ [][Next]_vars /\ Fairness
-----------------------------------------------------------------------------
(* Properties *)

Times    == 0 .. MaxNow
Counters == [up : 0 .. MaxBytes, moved : 0 .. MaxBytes]

Read     == UNION {[D -> Times \cup {Failed}] : D \in SUBSET Blocks}
Pages    == [ended : Times \cup {Never}, blocks : Read, rate : 0 .. MaxBytes]
Slots    == [began : Times, closed : BOOLEAN, page : Pages,
             from : Counters \cup {Never}, fresh : Counters \cup {Never}]

Reqs(n)  == [pc : {"idle", "arrived", "wait", "collect", "publish"},
             asked : Times \cup {Never}, gone : BOOLEAN, slot : 0 .. n]

CacheOK == /\ page \in {"state", "live", "exit_ip"} /\ now \in Times
           /\ bytes \in Counters /\ bytes.up <= bytes.moved
           /\ req \in [Clients -> Reqs(Len(slots))] /\ slots \in Seq(Slots)
           /\ entry \in 0 .. Len(slots) /\ pending \in 0 .. Len(slots)
           /\ got \in [Clients -> Pages \cup {Never}] /\ asks \in 0 .. MaxAsks
           /\ prev \in Counters \cup {Never}

PollOK == /\ egress \in 0 .. MaxReroutes /\ fails \in 0 .. MaxFails
          /\ poller \in [ip : 0 .. MaxReroutes \cup {Never}, old : BOOLEAN, err : BOOLEAN]
          /\ fetch \in [Fetchers -> [at : {"idle", "due", "sent", "over"}, ip : 0 .. MaxReroutes,
                                     old : BOOLEAN]]

\* The type invariant of handleState, handleLive and the poller: counters, times, block
\* sets and rates (never negative) stay in range, and every slot named exists.
TypeOK == CacheOK /\ PollOK

Published == {s \in DOMAIN slots : slots[s].page.ended # Never}
Waiting(c) == req[c].pc # "idle" /\ ~req[c].gone

\* The mapping: an open slot is the collection under way, a published slot is an answer,
\* and a client that has left waits for nothing.
Asked   == [c \in Clients |-> IF Waiting(c) THEN req[c].asked ELSE Never]
Begun   == IF pending = 0 THEN Never ELSE slots[pending].began
Answers == {slots[s].page : s \in Published}

SA == INSTANCE SharedAnswer WITH asked <- Asked, begun <- Begun, answers <- Answers

\* The handlers keep the panel's promise: one collection at a time however many tabs poll,
\* no page finished TTL or longer before the request, no block from outside its collection.
Promise == SA!Spec

\* No bytes are counted into two rates: what a page's rate counts passed after the counters
\* of every earlier page were read, whatever failed, restarted or was skipped in between.
MovedAt(s) == IF slots[s].fresh = Never THEN 0 ELSE slots[s].fresh.moved
RateTrue == \A i, j \in Published :
               i < j => slots[j].page.rate \in 0 .. (MovedAt(j) - MovedAt(i))

\* Every request is answered: whoever opens a slot gives it up, though its own client has
\* left and though every probe failed, so nobody waits on it for ever.
Answered == \A c \in Clients : req[c].pc = "arrived" ~> req[c].pc = "idle"

\* Once the exit address stops changing and the echo service answers, the poller comes to
\* show that address and no error, whichever fetches raced and whatever was invalidated.
ExitSettles == <>[](page = "exit_ip" => poller.ip = egress /\ ~poller.err)

\* Not kept by the code: after a nudge no page shows an address fetched before it.
NudgeHolds == ~poller.old

\* Not kept by the code: a client that stays gets no error that only a client that left
\* has caused (r.Context() of the refresher is the context of the shared probes).
OwnErrors == \A c \in Clients :
    Waiting(c) /\ req[c].pc = "wait" =>
        \A d \in Clients \ {c} : ~(req[d].pc = "collect" /\ req[d].gone /\ req[d].slot = req[c].slot)
=============================================================================
