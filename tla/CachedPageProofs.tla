------------------------- MODULE CachedPageProofs -------------------------
(***************************************************************************)
(* Proofs about CachedPage, for every set of clients, blocks, fetchers and *)
(* every bound: its types, and that the handlers implement SharedAnswer.   *)
(***************************************************************************)
EXTENDS CachedPage, TLAPS

(* Types *)

\* The set of blocks is fixed, so the sets the types are made of are.
LEMMA SameTypes ==
    ASSUME page' = page
    PROVE  Blocks' = Blocks /\ Read' = Read /\ Pages' = Pages /\ Slots' = Slots
<1>1. Blocks' = Blocks
  BY DEF Blocks
<1>2. Read' = Read
  BY <1>1 DEF Read, Times
<1>3. Pages' = Pages
  BY <1>2 DEF Pages, Times
<1>4. Slots' = Slots
  BY <1>3 DEF Slots, Times, Counters
<1> QED
  BY <1>1, <1>2, <1>3, <1>4

\* With adds one reading to the blocks of a page.
LEMMA WithRead ==
    ASSUME NEW blocks \in Read, NEW b \in Blocks, NEW v \in Times \cup {Failed}
    PROVE  With(blocks, b, v) \in Read
<1>1. PICK D \in SUBSET Blocks : blocks \in [D -> Times \cup {Failed}]
  BY DEF Read
<1>2. With(blocks, b, v) \in [D \cup {b} -> Times \cup {Failed}]
  BY <1>1 DEF With
<1>3. D \cup {b} \in SUBSET Blocks
  BY <1>1
<1> QED
  BY <1>2, <1>3 DEF Read

\* An empty page has blocks of the right type.
LEMMA EmptyRead == <<>> \in Read
<1>1. <<>> \in [{} -> Times \cup {Failed}]
  OBVIOUS
<1> QED
  BY <1>1 DEF Read

\* Readings are of now, or failures.
LEMMA OutcomeTyped ==
    ASSUME CacheOK, NEW c \in Clients, NEW v \in Outcomes(c)
    PROVE  v = now \/ v = Failed
BY DEF Outcomes

\* Write answers a client or, when it has left, nobody.
LEMMA WriteTyped ==
    ASSUME CacheOK, NEW c \in Clients, NEW p \in Pages, Write(c, p), page' = page,
           UNCHANGED now, Len(slots') = Len(slots)
    PROVE  /\ got' \in [Clients -> Pages' \cup {Never}]
           /\ req' \in [Clients -> Reqs(Len(slots'))]
<1>1. Pages' = Pages /\ Times' = Times
  BY SameTypes DEF Times
<1>2. Idle \in Reqs(Len(slots))
  BY DEF Idle, CacheOK, Reqs
<1>3. got \in [Clients -> Pages \cup {Never}]
  BY DEF CacheOK
<1>4. req \in [Clients -> Reqs(Len(slots))]
  BY DEF CacheOK
<1>5. got' = got \/ got' = [got EXCEPT ![c] = p]
  BY DEF Write
<1>6. req' = [req EXCEPT ![c] = Idle]
  BY DEF Write
<1>7. got' \in [Clients -> Pages \cup {Never}]
  BY <1>3, <1>5
<1>8. req' \in [Clients -> Reqs(Len(slots))]
  BY <1>2, <1>4, <1>6
<1> QED
  BY <1>1, <1>7, <1>8

\* The page of a slot is a page.
LEMMA SlotTyped ==
    ASSUME CacheOK, NEW s \in DOMAIN slots
    PROVE  slots[s] \in Slots /\ slots[s].page \in Pages
<1>1. slots[s] \in Slots
  BY DEF CacheOK
<1> QED
  BY <1>1 DEF Slots

\* The initial values have their types.
LEMMA InitTyped == Init => TypeOK
<1> SUFFICES ASSUME Init PROVE TypeOK
  OBVIOUS
<1>1. 0 \in 0 .. MaxNow /\ 0 \in 0 .. MaxAsks /\ 0 \in 0 .. MaxBytes /\ 0 \in 0 .. MaxReroutes
      /\ 0 \in 0 .. MaxFails
  BY PageAssumption
<1>2. slots \in Seq(Slots) /\ Len(slots) = 0
  BY DEF Init
<1>3. req \in [Clients -> Reqs(Len(slots))]
  BY <1>2 DEF Init, Idle, Reqs
<1> QED
  BY <1>1, <1>2, <1>3 DEF Init, TypeOK, CacheOK, PollOK, Times, Counters, Counted, NoFetch

\* A request keeps its type when the number of slots grows.
LEMMA MoreSlots ==
    ASSUME CacheOK, NEW n \in Nat, n >= Len(slots)
    PROVE  req \in [Clients -> Reqs(n)]
<1>1. Len(slots) \in Nat
  BY DEF CacheOK
<1>2. \A r \in Reqs(Len(slots)) : r \in Reqs(n)
  BY <1>1 DEF Reqs
<1> QED
  BY <1>2 DEF CacheOK

\* A request, its client's leaving and the three ways the first critical section may end.
LEMMA ArriveTyped ==
    ASSUME CacheOK, NEW c \in Clients, Ask(c) \/ Leave(c) \/ ServeCached(c) \/ JoinRefresh(c)
                                        \/ BeginRefresh(c)
    PROVE  CacheOK'
<1>0. page' = page
  BY DEF Ask, Leave, ServeCached, JoinRefresh, BeginRefresh
<1>1. Slots' = Slots /\ Pages' = Pages
  BY <1>0, SameTypes
<1>a. Len(slots) \in Nat /\ req \in [Clients -> Reqs(Len(slots))]
  BY DEF CacheOK
<1>2. CASE Ask(c)
  <2>a. Idle \in Reqs(Len(slots)) /\ now \in Times
    BY <1>a DEF Idle, Reqs, CacheOK
  <2>0. [Idle EXCEPT !.pc = "arrived", !.asked = now] \in Reqs(Len(slots))
    BY <2>a DEF Reqs
  <2>1. req' \in [Clients -> Reqs(Len(slots))]
    BY <1>2, <1>a, <2>0 DEF Ask
  <2>2. asks' \in 0 .. MaxAsks
    BY <1>2, PageAssumption DEF Ask, CacheOK
  <2> QED
    BY <1>1, <1>2, <2>1, <2>2 DEF Ask, CacheOK
<1>3. CASE Leave(c)
  <2>1. req' \in [Clients -> Reqs(Len(slots))]
    BY <1>3, <1>a DEF Leave, Reqs
  <2> QED
    BY <1>1, <1>3, <2>1 DEF Leave, CacheOK
<1>4. CASE ServeCached(c)
  <2>1. slots[entry].page \in Pages
    BY <1>4, SlotTyped DEF ServeCached, Fresh, CacheOK
  <2>2. UNCHANGED <<page, now, bytes, slots, entry, pending, asks, prev>>
    BY <1>4 DEF ServeCached
  <2>3. Write(c, slots[entry].page)
    BY <1>4 DEF ServeCached
  <2> QED
    BY <1>1, <2>1, <2>2, <2>3, WriteTyped DEF CacheOK
<1>5. CASE JoinRefresh(c)
  <2>1. req' \in [Clients -> Reqs(Len(slots))]
    BY <1>5, <1>a DEF JoinRefresh, Reqs, CacheOK
  <2> QED
    BY <1>1, <1>5, <2>1 DEF JoinRefresh, CacheOK
<1>6. CASE BeginRefresh(c)
  <2>1. OpenSlot \in Slots
    BY EmptyRead, PageAssumption DEF OpenSlot, Slots, Pages, CacheOK
  <2>2. slots' \in Seq(Slots) /\ Len(slots') = Len(slots) + 1
    BY <1>6, <2>1 DEF BeginRefresh, CacheOK
  <2>3. req' \in [Clients -> Reqs(Len(slots) + 1)]
    BY <1>6, <1>a, MoreSlots DEF BeginRefresh, Reqs
  <2> QED
    BY <1>1, <1>6, <1>a, <2>2, <2>3 DEF BeginRefresh, CacheOK
<1> QED
  BY <1>2, <1>3, <1>4, <1>5, <1>6

\* One block of a collection is read.
LEMMA ReadTyped ==
    ASSUME CacheOK, NEW c \in Clients, (\E b \in Blocks : Probe(c, b)) \/ ReadExitIP(c)
                                        \/ ReadTraffic(c), req[c].slot # 0
    PROVE  CacheOK'
<1> DEFINE s == req[c].slot
<1>0. page' = page
  BY DEF Probe, ReadExitIP, ReadTraffic
<1>1. Slots' = Slots /\ Pages' = Pages
  BY <1>0, SameTypes
<1>2. s \in DOMAIN slots /\ slots[s] \in Slots /\ slots[s].page \in Pages
  <2>1. s \in 0 .. Len(slots) /\ DOMAIN slots = 1 .. Len(slots) /\ Len(slots) \in Nat
    BY DEF CacheOK, Reqs
  <2> QED
    BY <2>1, SlotTyped
<1>3. SUFFICES slots' \in Seq(Slots) /\ Len(slots') = Len(slots)
  BY <1>1 DEF CacheOK, Probe, ReadExitIP, ReadTraffic
<1>4. ASSUME NEW b \in Blocks, NEW v \in Times \cup {Failed},
             slots' = [slots EXCEPT ![s].page.blocks = With(@, b, v)]
      PROVE  slots' \in Seq(Slots) /\ Len(slots') = Len(slots)
  <2>1. With(slots[s].page.blocks, b, v) \in Read
    BY <1>2, WithRead DEF Pages
  <2>2. [slots[s].page EXCEPT !.blocks = With(@, b, v)] \in Pages
    BY <1>2, <2>1 DEF Pages
  <2>3. [slots[s] EXCEPT !.page.blocks = With(@, b, v)] \in Slots
    BY <1>2, <2>2 DEF Slots
  <2> QED
    BY <1>2, <1>4, <2>3 DEF CacheOK
<1>5. CASE \E b \in Blocks : Probe(c, b)
  <2>1. PICK b \in Blocks, v \in Outcomes(c) : slots' = [slots EXCEPT ![s].page.blocks = With(@, b, v)]
    BY <1>5 DEF Probe
  <2>2. v \in Times \cup {Failed}
    BY OutcomeTyped DEF CacheOK
  <2> QED
    BY <2>1, <2>2, <1>4
<1>6. CASE ReadExitIP(c)
  <2>1. PICK v \in {now, Failed} : slots' = [slots EXCEPT ![s].page.blocks = With(@, "exit_ip", v)]
    BY <1>6 DEF ReadExitIP
  <2>2. v \in Times \cup {Failed} /\ "exit_ip" \in Blocks
    BY <1>6 DEF CacheOK, ReadExitIP, Blocks
  <2> QED
    BY <2>1, <2>2, <1>4
<1>7. CASE ReadTraffic(c)
  <2>1. PICK v \in Outcomes(c) :
           slots' = [slots EXCEPT
               ![s].page.blocks = With(@, "traffic", v),
               ![s].page.rate   = IF v = Failed THEN 0 ELSE Delta(slots[s].from),
               ![s].fresh       = IF v = Failed THEN slots[s].from ELSE bytes]
    BY <1>7 DEF ReadTraffic
  <2> DEFINE rate  == IF v = Failed THEN 0 ELSE Delta(slots[s].from)
             fresh == IF v = Failed THEN slots[s].from ELSE bytes
  <2>2. v \in Times \cup {Failed} /\ "traffic" \in Blocks
    BY <1>7, OutcomeTyped DEF CacheOK, ReadTraffic, Blocks
  <2>3. slots[s].from \in Counters \cup {Never} /\ bytes \in Counters
    BY <1>2 DEF Slots, CacheOK
  <2>4. rate \in 0 .. MaxBytes
    BY <2>3, PageAssumption DEF Delta, Counters
  <2>5. With(slots[s].page.blocks, "traffic", v) \in Read
    BY <1>2, <2>2, WithRead DEF Pages
  <2>6. [slots[s].page EXCEPT !.blocks = With(@, "traffic", v), !.rate = rate] \in Pages
    BY <1>2, <2>4, <2>5 DEF Pages
  <2>7. fresh \in Counters \cup {Never}
    BY <2>3
  <2> DEFINE t == [[slots[s] EXCEPT !.page = [slots[s].page EXCEPT !.blocks = With(@, "traffic", v),
                                                              !.rate = rate]] EXCEPT !.fresh = fresh]
  <2>8. t \in Slots
    BY <1>2, <2>6, <2>7 DEF Slots
  <2>9. slots' = [slots EXCEPT ![s] = t]
    BY <1>2, <2>1
  <2> QED
    BY <1>2, <2>8, <2>9 DEF CacheOK
<1> QED
  BY <1>5, <1>6, <1>7

\* The end of a collection, the answers to those that waited for it.
LEMMA EndTyped ==
    ASSUME CacheOK, NEW c \in Clients, Publish(c) \/ Reply(c) \/ Wake(c), req[c].slot # 0
    PROVE  CacheOK'
<1> DEFINE s == req[c].slot
<1>0. page' = page
  BY DEF Publish, Reply, Wake
<1>1. Slots' = Slots /\ Pages' = Pages
  BY <1>0, SameTypes
<1>2. s \in DOMAIN slots /\ slots[s] \in Slots /\ slots[s].page \in Pages /\ s \in 0 .. Len(slots)
  <2>1. s \in 0 .. Len(slots) /\ DOMAIN slots = 1 .. Len(slots) /\ Len(slots) \in Nat
    BY DEF CacheOK, Reqs
  <2> QED
    BY <2>1, SlotTyped
<1>3. CASE Publish(c)
  <2>1. [slots[s].page EXCEPT !.ended = now] \in Pages
    BY <1>2 DEF Pages, CacheOK
  <2>2. [slots[s] EXCEPT !.page.ended = now] \in Slots
    BY <1>2, <2>1 DEF Slots
  <2>3. slots' \in Seq(Slots) /\ Len(slots') = Len(slots)
    BY <1>2, <1>3, <2>2 DEF Publish, CacheOK
  <2>4. slots[s].fresh \in Counters \cup {Never}
    BY <1>2 DEF Slots
  <2>5. req' \in [Clients -> Reqs(Len(slots))]
    BY <1>3 DEF Publish, CacheOK, Reqs
  <2> QED
    BY <1>1, <1>2, <1>3, <2>3, <2>4, <2>5 DEF Publish, CacheOK
<1>4. CASE Reply(c)
  <2>1. [slots[s] EXCEPT !.closed = TRUE] \in Slots
    BY <1>2 DEF Slots
  <2>2. slots' \in Seq(Slots) /\ Len(slots') = Len(slots)
    BY <1>2, <1>4, <2>1 DEF Reply, CacheOK
  <2>3. Write(c, slots[s].page)
    BY <1>4 DEF Reply
  <2>4. UNCHANGED <<page, now, bytes, entry, pending, asks, prev>>
    BY <1>4 DEF Reply
  <2> QED
    BY <1>1, <1>2, <2>2, <2>3, <2>4, WriteTyped DEF CacheOK
<1>5. CASE Wake(c)
  <2>1. Write(c, slots[s].page)
    BY <1>5 DEF Wake
  <2>2. UNCHANGED <<page, now, bytes, slots, entry, pending, asks, prev>>
    BY <1>5 DEF Wake
  <2> QED
    BY <1>1, <1>2, <2>1, <2>2, WriteTyped DEF CacheOK
<1> QED
  BY <1>3, <1>4, <1>5

\* The poller's steps touch nothing of the pages ...
LEMMA PollerTyped ==
    ASSUME PollOK, (\E f \in Fetchers : Poll(f)) \/ Nudge \/ Reroute
    PROVE  PollOK' /\ UNCHANGED <<page, now, bytes, cacheVars>>
<1> USE PageAssumption
<1> DEFINE Fetches == [at : {"idle", "due", "sent", "over"}, ip : 0 .. MaxReroutes, old : BOOLEAN]
<1>0. NoFetch \in Fetches
  BY DEF NoFetch
<1>1. ASSUME NEW f \in Fetchers, FetchSend(f) PROVE PollOK'
  BY <1>1 DEF FetchSend, PollOK
<1>2. ASSUME NEW f \in Fetchers, Flying(f), Landed(f), UNCHANGED egress, fails' \in 0 .. MaxFails,
             poller' \in [ip : 0 .. MaxReroutes \cup {Never}, old : BOOLEAN, err : BOOLEAN]
      PROVE  PollOK'
  <2>1. [NoFetch EXCEPT !.at = IF f \in Tickers THEN "idle" ELSE "over"] \in Fetches
    BY <1>0
  <2>2. fetch' \in [Fetchers -> Fetches]
    BY <1>2, <2>1 DEF Landed, PollOK
  <2> QED
    BY <1>2, <2>2 DEF PollOK
<1>3. ASSUME NEW f \in Fetchers, FetchStore(f) PROVE PollOK'
  <2>1. poller' \in [ip : 0 .. MaxReroutes \cup {Never}, old : BOOLEAN, err : BOOLEAN]
    BY <1>3 DEF FetchStore, PollOK
  <2> QED
    BY <1>2, <1>3, <2>1 DEF FetchStore, PollOK
<1>4. ASSUME NEW f \in Fetchers, FetchFail(f) PROVE PollOK'
  <2>1. poller' \in [ip : 0 .. MaxReroutes \cup {Never}, old : BOOLEAN, err : BOOLEAN]
    BY <1>4 DEF FetchFail, PollOK
  <2>2. fails' \in 0 .. MaxFails
    BY <1>4 DEF FetchFail, PollOK
  <2> QED
    BY <1>2, <1>4, <2>1, <2>2 DEF FetchFail, PollOK
<1>5. CASE Nudge
  <2>1. PICK n \in Nudgers : fetch' = [f \in Fetchers |->
                                         IF f = n THEN [NoFetch EXCEPT !.at = "due"]
                                         ELSE [fetch[f] EXCEPT !.old = Flying(f)]]
    BY <1>5 DEF Nudge
  <2>2. \A f \in Fetchers : Flying(f) \in BOOLEAN
    BY DEF Flying
  <2>3. [NoFetch EXCEPT !.at = "due"] \in Fetches
    BY <1>0
  <2>4. \A f \in Fetchers : [fetch[f] EXCEPT !.old = Flying(f)] \in Fetches
    BY <2>2 DEF PollOK
  <2>5. fetch' \in [Fetchers -> Fetches]
    BY <2>1, <2>3, <2>4
  <2>6. poller' \in [ip : 0 .. MaxReroutes \cup {Never}, old : BOOLEAN, err : BOOLEAN]
    BY <1>5 DEF Nudge
  <2> QED
    BY <1>5, <2>5, <2>6 DEF Nudge, PollOK
<1>6. CASE Reroute
  BY <1>6 DEF Reroute, PollOK
<1>7. UNCHANGED <<page, now, bytes, cacheVars>>
  BY DEF Poll, FetchSend, FetchStore, FetchFail, Nudge, Reroute
<1> QED
  BY <1>1, <1>3, <1>4, <1>5, <1>6, <1>7 DEF Poll

\* ... and the traffic and the clock nothing but their own counters.
LEMMA SurroundingsTyped ==
    ASSUME CacheOK, Transfer \/ ResetCounters \/ Tick
    PROVE  CacheOK' /\ UNCHANGED <<page, cacheVars, pollVars>>
<1>1. UNCHANGED <<page, cacheVars, pollVars>>
  BY DEF Transfer, ResetCounters, Tick
<1>2. Slots' = Slots /\ Pages' = Pages
  BY <1>1, SameTypes
<1>3. bytes' \in Counters /\ bytes'.up <= bytes'.moved /\ now' \in Times
  <2>1. bytes \in Counters /\ bytes.up <= bytes.moved /\ now \in Times
    BY DEF CacheOK
  <2>2. CASE Transfer
    <3>1. bytes.up + 1 \in 0 .. MaxBytes
      BY <2>1, <2>2, PageAssumption DEF Transfer, Counters
    <3>2. bytes.moved + 1 \in 0 .. MaxBytes
      BY <2>1, <2>2, PageAssumption DEF Transfer, Counters
    <3> QED
      BY <2>1, <2>2, <3>1, <3>2 DEF Transfer, Counters
  <2>3. CASE ResetCounters
    BY <2>1, <2>3, PageAssumption DEF ResetCounters, Counters, Times
  <2>4. CASE Tick
    BY <2>1, <2>4, PageAssumption DEF Tick, Counters, Times
  <2> QED
    BY <2>2, <2>3, <2>4
<1> QED
  BY <1>1, <1>2, <1>3 DEF CacheOK, cacheVars
-----------------------------------------------------------------------------
(* The inductive invariant *)

\* The slot under way is not published and its readings are its own; what is cached, and
\* what is closed, is published.
SlotInv ==
    /\ pending # 0 => /\ slots[pending].page.ended = Never
                      /\ slots[pending].began <= now
                      /\ \A b \in DOMAIN slots[pending].page.blocks :
                            slots[pending].page.blocks[b] \in (slots[pending].began .. now) \cup {Failed}
    /\ entry # 0 => slots[entry].page.ended # Never
    /\ \A s \in DOMAIN slots : slots[s].closed => slots[s].page.ended # Never

\* The page of the slot c looks at was finished after c had asked.
Late(c) == /\ slots[req[c].slot].page.ended # Never
           /\ req[c].asked <= slots[req[c].slot].page.ended

\* Who collects fills the pending slot; who waits does so for that slot, or its page is late.
ReqInv(c) ==
    /\ req[c].pc # "idle" => req[c].asked \in Times /\ req[c].asked <= now
    /\ req[c].pc = "collect" => req[c].slot = pending /\ pending # 0
    /\ req[c].pc = "wait" => req[c].slot # 0 /\ (req[c].slot = pending \/ Late(c))
    /\ req[c].pc = "publish" => req[c].slot # 0 /\ Late(c)

\* One collection at a time.
OneCollects == \A c, d \in Clients : req[c].pc = "collect" /\ req[d].pc = "collect" => c = d

IInv == TypeOK /\ SlotInv /\ OneCollects /\ \A c \in Clients : ReqInv(c)

LEMMA InitInv == Init => IInv
BY InitTyped DEF Init, Idle, IInv, SlotInv, ReqInv, OneCollects

\* What the slots are, said of each: for the provers.
LEMMA SlotFields ==
    ASSUME CacheOK, NEW s \in DOMAIN slots
    PROVE  /\ DOMAIN slots[s] = {"began", "closed", "from", "fresh", "page"}
           /\ DOMAIN slots[s].page = {"ended", "blocks", "rate"}
           /\ slots[s].began \in Times
           /\ slots[s].page.ended \in Times \cup {Never}
<1>1. slots[s] \in Slots /\ slots[s].page \in Pages
  BY SlotTyped
<1> QED
  BY <1>1 DEF Slots, Pages

LEMMA SlotNumbers ==
    ASSUME CacheOK
    PROVE  /\ DOMAIN slots = 1 .. Len(slots) /\ Len(slots) \in Nat
           /\ pending # 0 => pending \in DOMAIN slots
           /\ entry # 0 => entry \in DOMAIN slots
           /\ \A c \in Clients : req[c].slot # 0 => req[c].slot \in DOMAIN slots
<1>1. DOMAIN slots = 1 .. Len(slots) /\ Len(slots) \in Nat
  BY DEF CacheOK
<1>2. \A c \in Clients : req[c].slot \in 0 .. Len(slots)
  BY DEF CacheOK, Reqs
<1> QED
  BY <1>1, <1>2 DEF CacheOK

ReadStep(c) == (\E b \in Blocks : Probe(c, b)) \/ ReadExitIP(c) \/ ReadTraffic(c)

\* A reading adds to the pending page and to nothing else.
LEMMA ReadEffect ==
    ASSUME IInv, NEW c \in Clients, ReadStep(c)
    PROVE  /\ req[c].slot = pending /\ pending # 0 /\ pending \in DOMAIN slots
           /\ UNCHANGED <<page, now, bytes, req, entry, pending, got, asks, prev, pollVars>>
           /\ DOMAIN slots' = DOMAIN slots
           /\ \A s \in DOMAIN slots : /\ s # pending => slots'[s] = slots[s]
                                      /\ slots'[s].began = slots[s].began
                                      /\ slots'[s].closed = slots[s].closed
                                      /\ slots'[s].page.ended = slots[s].page.ended
           /\ \A b \in DOMAIN slots'[pending].page.blocks :
                 \/ slots'[pending].page.blocks[b] \in {now, Failed}
                 \/ /\ b \in DOMAIN slots[pending].page.blocks
                    /\ slots'[pending].page.blocks[b] = slots[pending].page.blocks[b]
<1>1. req[c].slot = pending /\ pending # 0 /\ pending \in DOMAIN slots
  BY SlotNumbers DEF IInv, ReqInv, TypeOK, ReadStep, Probe, ReadExitIP, ReadTraffic
<1>2. UNCHANGED <<page, now, bytes, req, entry, pending, got, asks, prev, pollVars>>
  BY DEF ReadStep, Probe, ReadExitIP, ReadTraffic
<1> DEFINE Kept == /\ DOMAIN slots' = DOMAIN slots
                   /\ \A s \in DOMAIN slots : /\ s # pending => slots'[s] = slots[s]
                                              /\ slots'[s].began = slots[s].began
                                              /\ slots'[s].closed = slots[s].closed
                                              /\ slots'[s].page.ended = slots[s].page.ended
           Added == \A y \in DOMAIN slots'[pending].page.blocks :
                       \/ slots'[pending].page.blocks[y] \in {now, Failed}
                       \/ /\ y \in DOMAIN slots[pending].page.blocks
                          /\ slots'[pending].page.blocks[y] = slots[pending].page.blocks[y]
<1>2a. /\ DOMAIN slots[pending] = {"began", "closed", "from", "fresh", "page"}
       /\ DOMAIN slots[pending].page = {"ended", "blocks", "rate"}
  BY <1>1, SlotFields DEF IInv, TypeOK
<1>3. ASSUME NEW b, NEW v \in {now, Failed},
             slots'[pending].page.blocks = With(slots[pending].page.blocks, b, v)
      PROVE  Added
  <2>1. SUFFICES ASSUME NEW y \in DOMAIN slots'[pending].page.blocks
                 PROVE  \/ slots'[pending].page.blocks[y] \in {now, Failed}
                        \/ /\ y \in DOMAIN slots[pending].page.blocks
                           /\ slots'[pending].page.blocks[y] = slots[pending].page.blocks[y]
    OBVIOUS
  <2>2. /\ y \in DOMAIN slots[pending].page.blocks \cup {b}
        /\ slots'[pending].page.blocks[y] = IF y = b THEN v ELSE slots[pending].page.blocks[y]
    BY <1>3, <2>1 DEF With
  <2> QED
    BY <2>2
<1>4. ASSUME NEW b, NEW v \in {now, Failed},
             slots' = [slots EXCEPT ![pending].page.blocks = With(@, b, v)]
      PROVE  Kept /\ Added
  <2>1. Kept /\ slots'[pending].page.blocks = With(slots[pending].page.blocks, b, v)
    BY <1>1, <1>2a, <1>4
  <2>2. Added
    BY <2>1, <1>3
  <2> QED
    BY <2>1, <2>2
<1>5. ASSUME NEW b, NEW v \in {now, Failed}, NEW r, NEW x,
             slots' = [slots EXCEPT ![pending].page.blocks = With(@, b, v),
                                    ![pending].page.rate = r, ![pending].fresh = x]
      PROVE  Kept /\ Added
  <2>1. Kept /\ slots'[pending].page.blocks = With(slots[pending].page.blocks, b, v)
    BY <1>1, <1>2a, <1>5
  <2>2. Added
    BY <2>1, <1>3
  <2> QED
    BY <2>1, <2>2
<1>6. \A v \in Outcomes(c) : v \in {now, Failed}
  BY DEF Outcomes
<1>7. CASE \E b \in Blocks : Probe(c, b)
  <2>1. PICK b \in Blocks, v \in Outcomes(c) :
           slots' = [slots EXCEPT ![pending].page.blocks = With(@, b, v)]
    BY <1>1, <1>7 DEF Probe
  <2> QED
    BY <1>1, <1>2, <1>4, <1>6, <2>1
<1>8. CASE ReadExitIP(c)
  <2>1. PICK v \in {now, Failed} :
           slots' = [slots EXCEPT ![pending].page.blocks = With(@, "exit_ip", v)]
    BY <1>1, <1>8 DEF ReadExitIP
  <2> QED
    BY <1>1, <1>2, <1>4, <2>1
<1>9. CASE ReadTraffic(c)
  <2>1. PICK v \in Outcomes(c) :
           slots' = [slots EXCEPT
               ![req[c].slot].page.blocks = With(@, "traffic", v),
               ![req[c].slot].page.rate   = IF v = Failed THEN 0 ELSE Delta(slots[req[c].slot].from),
               ![req[c].slot].fresh       = IF v = Failed THEN slots[req[c].slot].from ELSE bytes]
    BY <1>9 DEF ReadTraffic
  <2> DEFINE r == IF v = Failed THEN 0 ELSE Delta(slots[pending].from)
             x == IF v = Failed THEN slots[pending].from ELSE bytes
  <2>2. slots' = [slots EXCEPT ![pending].page.blocks = With(@, "traffic", v),
                               ![pending].page.rate = r, ![pending].fresh = x]
    BY <1>1, <2>1
  <2> HIDE DEF r, x
  <2>3. Kept /\ Added
    BY <1>5, <1>6, <2>2
  <2> QED
    BY <1>1, <1>2, <2>3
<1> QED
  BY <1>7, <1>8, <1>9 DEF ReadStep

\* The clock may go on: what was now or before still is.
LEMMA ReqLater ==
    ASSUME TypeOK, NEW c \in Clients, ReqInv(c), now' \in Times, now <= now',
           UNCHANGED <<req, slots, pending>>
    PROVE  ReqInv(c)'
<1>1. now \in Int /\ now' \in Int /\ \A t \in Times : t \in Int
  BY PageAssumption DEF TypeOK, CacheOK, Times
<1>2. Late(c)' <=> Late(c)
  BY DEF Late
<1>3. req[c].pc # "idle" => req[c].asked \in Times /\ req[c].asked <= now'
  <2>1. SUFFICES ASSUME req[c].pc # "idle" PROVE req[c].asked \in Times /\ req[c].asked <= now'
    OBVIOUS
  <2>2. req[c].asked \in Times /\ req[c].asked <= now
    BY <2>1 DEF ReqInv
  <2>3. req[c].asked \in Int
    BY <1>1, <2>2
  <2> QED
    BY <1>1, <2>2, <2>3
<1> QED
  BY <1>2, <1>3 DEF ReqInv

\* A step of one client changes neither the request of another ...
LEMMA OneReq ==
    ASSUME TypeOK, NEW c \in Clients, NEW r, req' = [req EXCEPT ![c] = r]
    PROVE  /\ req'[c] = r
           /\ \A d \in Clients \ {c} : req'[d] = req[d]
<1>1. DOMAIN req = Clients
  BY DEF TypeOK, CacheOK
<1> QED
  BY <1>1

\* ... nor, if it leaves the slots alone, what is true of that one.
LEMMA OtherReq ==
    ASSUME NEW d \in Clients, ReqInv(d), req'[d] = req[d], UNCHANGED <<slots, pending, now>>
    PROVE  ReqInv(d)'
BY DEF ReqInv, Late

\* Requests, departures, answers from the cache, joins.
LEMMA ArriveInv ==
    ASSUME IInv, NEW c \in Clients, Ask(c) \/ Leave(c) \/ ServeCached(c) \/ JoinRefresh(c)
    PROVE  SlotInv' /\ OneCollects' /\ \A d \in Clients : ReqInv(d)'
<1>1. UNCHANGED <<slots, pending, entry, now>>
  BY DEF Ask, Leave, ServeCached, JoinRefresh
<1>2. SlotInv'
  BY <1>1 DEF IInv, SlotInv
<1>3. \A d \in Clients \ {c} : req'[d] = req[d]
  BY OneReq DEF Ask, Leave, ServeCached, JoinRefresh, Write, IInv, TypeOK, CacheOK
<1>4. \A d \in Clients \ {c} : ReqInv(d)'
  BY <1>1, <1>3, OtherReq DEF IInv
<1>5. ReqInv(c) /\ c \in DOMAIN req /\ DOMAIN req[c] = {"pc", "asked", "gone", "slot"}
  BY DEF IInv, TypeOK, CacheOK, Reqs
<1>6. CASE Ask(c)
  <2>1. req'[c].pc = "arrived" /\ req'[c].asked = now
    BY <1>5, <1>6 DEF Ask, Idle
  <2>2. now \in Times /\ now <= now
    BY PageAssumption DEF IInv, TypeOK, CacheOK, Times
  <2> QED
    BY <1>1, <1>2, <1>3, <1>4, <2>1, <2>2 DEF ReqInv, OneCollects, IInv
<1>7. CASE Leave(c)
  <2>1. req'[c].pc = req[c].pc /\ req'[c].asked = req[c].asked /\ req'[c].slot = req[c].slot
    BY <1>5, <1>7 DEF Leave
  <2> QED
    BY <1>1, <1>2, <1>3, <1>4, <1>5, <2>1 DEF ReqInv, Late, OneCollects, IInv
<1>8. CASE ServeCached(c)
  <2>1. req'[c].pc = "idle"
    BY <1>5, <1>8 DEF ServeCached, Write, Idle
  <2> QED
    BY <1>1, <1>2, <1>3, <1>4, <2>1 DEF ReqInv, OneCollects, IInv
<1>9. CASE JoinRefresh(c)
  <2>1. req'[c].pc = "wait" /\ req'[c].asked = req[c].asked /\ req'[c].slot = pending /\ pending # 0
    BY <1>5, <1>9 DEF JoinRefresh
  <2>2. req[c].pc # "idle"
    BY <1>9 DEF JoinRefresh
  <2> QED
    BY <1>1, <1>2, <1>3, <1>4, <1>5, <2>1, <2>2 DEF ReqInv, OneCollects, IInv
<1> QED
  BY <1>6, <1>7, <1>8, <1>9

LEMMA BeginInv ==
    ASSUME IInv, NEW c \in Clients, BeginRefresh(c)
    PROVE  /\ SlotInv' /\ OneCollects' /\ \A d \in Clients : ReqInv(d)'
           /\ pending = 0 /\ pending' = Len(slots) + 1 /\ DOMAIN slots' = 1 .. Len(slots) + 1
           /\ slots'[pending'] = OpenSlot /\ \A s \in DOMAIN slots : slots'[s] = slots[s]
<1>1. /\ slots \in Seq(Slots) /\ slots' = Append(slots, OpenSlot) /\ pending' = Len(slots) + 1
      /\ pending = 0 /\ req[c].pc = "arrived"
      /\ UNCHANGED <<now, entry>>
  BY DEF BeginRefresh, IInv, TypeOK, CacheOK
<1>2. Len(slots) \in Nat /\ DOMAIN slots = 1 .. Len(slots)
  BY <1>1
<1>3. DOMAIN slots' = 1 .. Len(slots) + 1
  BY <1>1, <1>2
<1>4. \A s \in DOMAIN slots : slots'[s] = slots[s]
  BY <1>1, <1>2
<1>5. slots'[Len(slots) + 1] = OpenSlot
  BY <1>1, <1>2
<1>6. /\ OpenSlot.page.ended = Never /\ OpenSlot.began = now /\ OpenSlot.closed = FALSE
      /\ OpenSlot.page.blocks = <<>>
  BY DEF OpenSlot
<1>7. SlotInv'
  <2>1. now <= now
    BY PageAssumption DEF IInv, TypeOK, CacheOK, Times
  <2>2. DOMAIN OpenSlot.page.blocks = {}
    BY <1>6
  <2>3. entry # 0 => entry \in DOMAIN slots
    BY SlotNumbers DEF IInv, TypeOK
  <2>4. \A s \in DOMAIN slots' : s \in DOMAIN slots \/ s = Len(slots) + 1
    BY <1>2, <1>3
  <2> QED
    BY <1>1, <1>4, <1>5, <1>6, <2>1, <2>2, <2>3, <2>4 DEF SlotInv, IInv
<1>8. c \in DOMAIN req /\ DOMAIN req[c] = {"pc", "asked", "gone", "slot"}
  BY DEF IInv, TypeOK, CacheOK, Reqs
<1>9. /\ req'[c].pc = "collect" /\ req'[c].slot = pending' /\ req'[c].asked = req[c].asked
      /\ \A d \in Clients \ {c} : req'[d] = req[d]
  BY <1>8 DEF BeginRefresh, IInv, TypeOK, CacheOK
<1>10. \A d \in Clients : ReqInv(d)'
  <2>1. ASSUME NEW d \in Clients \ {c} PROVE ReqInv(d)'
    <3>1. ReqInv(d) /\ req'[d] = req[d] /\ now' = now /\ pending = 0
      BY <1>1, <1>9 DEF IInv
    <3>2. req[d].slot # 0 => req[d].slot \in DOMAIN slots
      BY SlotNumbers DEF IInv, TypeOK
    <3>3. req[d].slot # 0 => slots'[req[d].slot] = slots[req[d].slot]
      BY <1>4, <3>2
    <3> QED
      BY <3>1, <3>3 DEF ReqInv, Late
  <2>2. ReqInv(c)'
    <3>1. ReqInv(c) /\ req[c].pc # "idle" /\ pending' # 0
      BY <1>1, <1>2 DEF IInv
    <3> QED
      BY <1>1, <1>9, <3>1 DEF ReqInv
  <2> QED
    BY <2>1, <2>2
<1>11. OneCollects'
  <2>1. \A d \in Clients : req[d].pc # "collect"
    BY <1>1 DEF IInv, ReqInv
  <2> QED
    BY <1>9, <2>1 DEF OneCollects
<1> QED
  BY <1>1, <1>3, <1>4, <1>5, <1>7, <1>10, <1>11

LEMMA ReadInv ==
    ASSUME IInv, NEW c \in Clients, ReadStep(c)
    PROVE  SlotInv' /\ OneCollects' /\ \A d \in Clients : ReqInv(d)'
<1>1. /\ pending # 0 /\ pending \in DOMAIN slots
      /\ UNCHANGED <<now, req, entry, pending>>
      /\ DOMAIN slots' = DOMAIN slots
      /\ \A s \in DOMAIN slots : /\ slots'[s].began = slots[s].began
                                 /\ slots'[s].closed = slots[s].closed
                                 /\ slots'[s].page.ended = slots[s].page.ended
  BY ReadEffect
<1>2. \A b \in DOMAIN slots'[pending].page.blocks :
         \/ slots'[pending].page.blocks[b] \in {now, Failed}
         \/ /\ b \in DOMAIN slots[pending].page.blocks
            /\ slots'[pending].page.blocks[b] = slots[pending].page.blocks[b]
  BY ReadEffect
<1>3. now \in slots[pending].began .. now
  <2>1. slots[pending].began \in Int /\ now \in Int
    BY <1>1, SlotFields, PageAssumption DEF IInv, TypeOK, CacheOK, Times
  <2> QED
    BY <1>1, <2>1 DEF IInv, SlotInv
<1>4. SlotInv'
  <2>1. entry # 0 => entry \in DOMAIN slots
    BY SlotNumbers DEF IInv, TypeOK
  <2>2. \A b \in DOMAIN slots'[pending].page.blocks :
           slots'[pending].page.blocks[b] \in (slots[pending].began .. now) \cup {Failed}
    BY <1>1, <1>2, <1>3 DEF IInv, SlotInv
  <2> QED
    BY <1>1, <2>1, <2>2 DEF IInv, SlotInv
<1>5. ASSUME NEW d \in Clients PROVE ReqInv(d)'
  <2>1. req[d].slot # 0 => req[d].slot \in DOMAIN slots
    BY SlotNumbers DEF IInv, TypeOK
  <2>2. req[d].slot # 0 => (Late(d)' <=> Late(d))
    BY <1>1, <2>1 DEF Late
  <2> QED
    BY <1>1, <2>2 DEF ReqInv, IInv
<1> QED
  BY <1>1, <1>4, <1>5 DEF OneCollects, IInv

\* The page is published: the waiters' slot is no longer pending, and it is late for them.
LEMMA PublishInv ==
    ASSUME IInv, NEW c \in Clients, Publish(c)
    PROVE  /\ SlotInv' /\ OneCollects' /\ \A d \in Clients : ReqInv(d)'
           /\ pending # 0 /\ pending \in DOMAIN slots /\ DOMAIN slots' = DOMAIN slots
           /\ pending' = 0 /\ \A s \in DOMAIN slots \ {pending} : slots'[s] = slots[s]
           /\ slots'[pending].page.ended = now
           /\ slots'[pending].page.blocks = slots[pending].page.blocks
<1>1. req[c].slot = pending /\ pending # 0 /\ pending \in DOMAIN slots
  BY SlotNumbers DEF IInv, ReqInv, TypeOK, Publish
<1>2. /\ slots' = [slots EXCEPT ![pending].page.ended = now] /\ entry' = pending /\ pending' = 0
      /\ now' = now /\ req' = [req EXCEPT ![c].pc = "publish"]
  BY <1>1 DEF Publish
<1>3. /\ DOMAIN slots[pending] = {"began", "closed", "from", "fresh", "page"}
      /\ DOMAIN slots[pending].page = {"ended", "blocks", "rate"}
  BY <1>1, SlotFields DEF IInv, TypeOK
<1>4. /\ DOMAIN slots' = DOMAIN slots
      /\ \A s \in DOMAIN slots \ {pending} : slots'[s] = slots[s]
      /\ slots'[pending].page.ended = now
      /\ slots'[pending].closed = slots[pending].closed
      /\ slots'[pending].page.blocks = slots[pending].page.blocks
  BY <1>1, <1>2, <1>3
<1>5. now # Never
  BY PageAssumption DEF IInv, TypeOK, CacheOK, Times
<1>6. SlotInv'
  BY <1>1, <1>2, <1>4, <1>5 DEF SlotInv, IInv
<1>7. c \in DOMAIN req /\ DOMAIN req[c] = {"pc", "asked", "gone", "slot"}
  BY DEF IInv, TypeOK, CacheOK, Reqs
<1>8. /\ req'[c].pc = "publish" /\ req'[c].slot = req[c].slot /\ req'[c].asked = req[c].asked
      /\ \A d \in Clients \ {c} : req'[d] = req[d]
  BY <1>2, <1>7 DEF IInv, TypeOK, CacheOK
<1>9. ASSUME NEW d \in Clients PROVE ReqInv(d)'
  <2>1. req'[d].slot = req[d].slot /\ req'[d].asked = req[d].asked
    BY <1>8
  <2>2. req[d].slot = pending /\ req[d].asked <= now => Late(d)'
    BY <1>4, <1>5, <2>1 DEF Late
  <2>3. req[d].slot # 0 => req[d].slot \in DOMAIN slots
    BY SlotNumbers DEF IInv, TypeOK
  <2>4. req[d].slot # 0 /\ Late(d) /\ req[d].slot # pending => Late(d)'
    BY <1>4, <2>1, <2>3 DEF Late
  <2>5. req[d].pc = "collect" => d = c
    BY DEF IInv, OneCollects, Publish
  <2>6. ReqInv(d) /\ req[c].pc = "collect"
    BY DEF IInv, Publish
  <2>7. CASE d = c
    BY <1>1, <1>2, <1>8, <2>1, <2>2, <2>6, <2>7 DEF ReqInv
  <2>8. CASE d # c
    BY <1>2, <1>8, <2>1, <2>2, <2>4, <2>5, <2>6, <2>8 DEF ReqInv
  <2> QED
    BY <2>7, <2>8
<1>10. OneCollects'
  BY <1>8 DEF IInv, OneCollects
<1> QED
  BY <1>1, <1>2, <1>4, <1>6, <1>9, <1>10

\* The two kinds of answer at the end of a collection.
LEMMA AnswerInv ==
    ASSUME IInv, NEW c \in Clients, Reply(c) \/ Wake(c)
    PROVE  /\ SlotInv' /\ OneCollects' /\ \A d \in Clients : ReqInv(d)'
           /\ req[c].slot \in DOMAIN slots /\ Late(c) /\ Write(c, slots[req[c].slot].page)
           /\ DOMAIN slots' = DOMAIN slots
           /\ \A s \in DOMAIN slots : slots'[s].page = slots[s].page /\ slots'[s].began = slots[s].began
           /\ UNCHANGED <<page, now, bytes, entry, pending, asks, prev, pollVars>>
<1>1. /\ UNCHANGED <<page, now, bytes, entry, pending, asks, prev, pollVars>>
      /\ Write(c, slots[req[c].slot].page)
  BY DEF Reply, Wake
<1>2. req[c].slot # 0 /\ req[c].slot \in DOMAIN slots
  BY SlotNumbers DEF Reply, Wake, IInv, ReqInv, TypeOK
<1>3. Late(c)
  <2>1. CASE Reply(c)
    BY <2>1 DEF Reply, IInv, ReqInv
  <2>2. CASE Wake(c)
    <3>1. slots[req[c].slot].page.ended # Never
      BY <1>2, <2>2 DEF Wake, IInv, SlotInv
    <3>2. req[c].slot = pending => pending # 0 /\ slots[pending].page.ended = Never
      BY <1>2 DEF IInv, SlotInv
    <3> QED
      BY <2>2, <3>1, <3>2 DEF Wake, IInv, ReqInv
  <2> QED
    BY <2>1, <2>2
<1>4. /\ DOMAIN slots' = DOMAIN slots
      /\ \A s \in DOMAIN slots : /\ slots'[s].page = slots[s].page
                                 /\ slots'[s].began = slots[s].began
                                 /\ s # req[c].slot => slots'[s].closed = slots[s].closed
  <2>1. CASE Reply(c)
    <3>1. slots' = [slots EXCEPT ![req[c].slot].closed = TRUE]
      BY <2>1 DEF Reply
    <3>2. \A s \in DOMAIN slots : DOMAIN slots[s] = {"began", "closed", "from", "fresh", "page"}
      BY SlotFields DEF IInv, TypeOK
    <3> QED
      BY <1>2, <3>1, <3>2
  <2>2. CASE Wake(c)
    BY <2>2 DEF Wake
  <2> QED
    BY <2>1, <2>2
<1>5. SlotInv'
  <2>1. /\ pending # 0 => pending \in DOMAIN slots
        /\ entry # 0 => entry \in DOMAIN slots
    BY SlotNumbers DEF IInv, TypeOK
  <2>2. ASSUME NEW s \in DOMAIN slots', slots'[s].closed PROVE slots'[s].page.ended # Never
    <3>1. s \in DOMAIN slots /\ slots'[s].page = slots[s].page
      BY <1>4
    <3>2. CASE s = req[c].slot
      BY <1>3, <3>1, <3>2 DEF Late
    <3>3. CASE s # req[c].slot
      BY <1>4, <2>2, <3>1, <3>3 DEF IInv, SlotInv
    <3> QED
      BY <3>2, <3>3
  <2> QED
    BY <1>1, <1>4, <2>1, <2>2 DEF IInv, SlotInv
<1>6. /\ req'[c].pc = "idle"
      /\ \A d \in Clients \ {c} : req'[d] = req[d]
  BY <1>1 DEF Write, Idle, IInv, TypeOK, CacheOK
<1>7. ASSUME NEW d \in Clients PROVE ReqInv(d)'
  <2>1. CASE d = c
    BY <1>6, <2>1 DEF ReqInv
  <2>2. CASE d # c
    <3>1. ReqInv(d) /\ req'[d] = req[d]
      BY <1>6, <2>2 DEF IInv
    <3>2. req[d].slot # 0 => req[d].slot \in DOMAIN slots
      BY SlotNumbers DEF IInv, TypeOK
    <3>3. ASSUME req[d].slot # 0 PROVE Late(d)' <=> Late(d)
      <4>1. slots'[req[d].slot].page = slots[req[d].slot].page
        BY <1>4, <3>2, <3>3
      <4> QED
        BY <3>1, <4>1 DEF Late
    <3> QED
      BY <1>1, <3>1, <3>3 DEF ReqInv
  <2> QED
    BY <2>1, <2>2
<1>8. OneCollects'
  BY <1>6 DEF IInv, OneCollects
<1> QED
  BY <1>1, <1>2, <1>3, <1>4, <1>5, <1>7, <1>8

\* The poller and the surroundings, the clock among them.
LEMMA OutsideInv ==
    ASSUME IInv, (\E f \in Fetchers : Poll(f)) \/ Nudge \/ Reroute \/ Transfer \/ ResetCounters
                 \/ Tick \/ UNCHANGED vars
    PROVE  IInv' /\ UNCHANGED <<page, cacheVars>>
<1>1. TypeOK' /\ UNCHANGED <<page, cacheVars>>
  <2>1. CASE (\E f \in Fetchers : Poll(f)) \/ Nudge \/ Reroute
    <3>1. PollOK' /\ UNCHANGED <<page, now, bytes, cacheVars>>
      BY <2>1, PollerTyped DEF IInv, TypeOK
    <3>2. Slots' = Slots /\ Pages' = Pages
      BY <3>1, SameTypes
    <3> QED
      BY <3>1, <3>2 DEF IInv, TypeOK, CacheOK, cacheVars
  <2>2. CASE Transfer \/ ResetCounters \/ Tick
    BY <2>2, SurroundingsTyped DEF IInv, TypeOK, PollOK, pollVars
  <2>3. CASE UNCHANGED vars
    <3>1. Slots' = Slots /\ Pages' = Pages
      BY <2>3, SameTypes DEF vars
    <3> QED
      BY <2>3, <3>1 DEF IInv, TypeOK, CacheOK, PollOK, vars, cacheVars, pollVars
  <2> QED
    BY <2>1, <2>2, <2>3
<1>2. now \in Int /\ now' \in Int /\ now' \in Times /\ now <= now'
  <2>1. now \in Times /\ now' \in Times /\ \A t \in Times : t \in Int
    BY <1>1, PageAssumption DEF IInv, TypeOK, CacheOK, Times
  <2>2. now' = now \/ now' = now + 1
    BY DEF Poll, FetchSend, FetchStore, FetchFail, Nudge, Reroute, Transfer, ResetCounters, Tick, vars
  <2> QED
    BY <2>1, <2>2
<1>3. \A c \in Clients : ReqInv(c)'
  BY <1>1, <1>2, ReqLater DEF IInv, cacheVars
<1>4. SlotInv'
  <2>1. ASSUME pending # 0
        PROVE  /\ slots[pending].began <= now'
               /\ \A b \in DOMAIN slots[pending].page.blocks :
                     slots[pending].page.blocks[b] \in (slots[pending].began .. now') \cup {Failed}
    <3>1. slots[pending].began \in Times /\ \A t \in Times : t \in Int
      BY <2>1, SlotNumbers, SlotFields, PageAssumption DEF IInv, TypeOK, Times
    <3>2. slots[pending].began <= now
      BY <2>1 DEF IInv, SlotInv
    <3>3. \A v \in slots[pending].began .. now : v \in slots[pending].began .. now'
      BY <1>2, <3>1
    <3>4. slots[pending].began <= now'
      <4>1. slots[pending].began \in Int
        BY <3>1
      <4> QED
        BY <1>2, <3>2, <4>1
    <3>5. \A b \in DOMAIN slots[pending].page.blocks :
             slots[pending].page.blocks[b] \in (slots[pending].began .. now) \cup {Failed}
      BY <2>1 DEF IInv, SlotInv
    <3> QED
      BY <3>3, <3>4, <3>5
  <2> QED
    BY <1>1, <2>1 DEF IInv, SlotInv, cacheVars
<1>5. OneCollects'
  BY <1>1 DEF IInv, OneCollects, cacheVars
<1> QED
  BY <1>1, <1>3, <1>4, <1>5 DEF IInv

\* Every step keeps the invariant.
LEMMA NextInv == IInv /\ [Next]_vars => IInv'
<1> SUFFICES ASSUME IInv, [Next]_vars PROVE IInv'
  OBVIOUS
<1>1. ASSUME NEW c \in Clients, Ask(c) \/ Leave(c) \/ Serve(c) PROVE IInv'
  <2>1. UNCHANGED pollVars
    BY <1>1 DEF Serve, Ask, Leave, ServeCached, JoinRefresh, BeginRefresh, Probe, ReadExitIP,
                ReadTraffic, Publish, Reply, Wake
  <2>2. PollOK'
    BY <2>1 DEF IInv, TypeOK, PollOK, pollVars
  <2>3. CASE Ask(c) \/ Leave(c) \/ ServeCached(c) \/ JoinRefresh(c)
    BY <2>2, <2>3, ArriveInv, ArriveTyped DEF IInv, TypeOK
  <2>4. CASE BeginRefresh(c)
    BY <2>2, <2>4, BeginInv, ArriveTyped DEF IInv, TypeOK
  <2>5. CASE ReadStep(c)
    <3>1. req[c].slot # 0
      BY <2>5, ReadEffect
    <3> QED
      BY <2>2, <2>5, <3>1, ReadInv, ReadTyped DEF IInv, TypeOK, ReadStep
  <2>6. CASE Publish(c)
    <3>1. req[c].slot # 0
      BY <2>6 DEF IInv, ReqInv, Publish
    <3> QED
      BY <2>2, <2>6, <3>1, PublishInv, EndTyped DEF IInv, TypeOK
  <2>7. CASE Reply(c) \/ Wake(c)
    <3>1. req[c].slot # 0
      BY <2>7 DEF IInv, ReqInv, Reply, Wake
    <3> QED
      BY <2>2, <2>7, <3>1, AnswerInv, EndTyped DEF IInv, TypeOK
  <2> QED
    BY <1>1, <2>3, <2>4, <2>5, <2>6, <2>7 DEF Serve, ReadStep
<1>2. CASE (\E f \in Fetchers : Poll(f)) \/ Nudge \/ Reroute \/ Transfer \/ ResetCounters
            \/ Tick \/ UNCHANGED vars
  BY <1>2, OutsideInv
<1> QED
  BY <1>1, <1>2 DEF Next

\* Types of the handlers and the poller, for every instance (http/state.go, http/live.go,
\* exitip/poller.go): no rate is negative and every slot a handler looks at exists.
THEOREM TypeCorrect == Spec => []TypeOK
<1>1. IInv => TypeOK
  BY DEF IInv
<1> QED
  BY <1>1, InitInv, NextInv, PTL DEF Spec
-----------------------------------------------------------------------------
(* The handlers implement SharedAnswer *)

LEMMA InitImplements == Init => SA!Init
<1> SUFFICES ASSUME Init PROVE SA!Init
  OBVIOUS
<1>1. Asked = [c \in Clients |-> Never]
  BY DEF Init, Idle, Asked, Waiting
<1>2. Answers = {}
  BY DEF Init, Answers, Published
<1> QED
  BY <1>1, <1>2 DEF Init, SA!Init, Begun

\* Who waits, and since when, follows from the requests.
LEMMA AskedKept ==
    ASSUME TypeOK, NEW c \in Clients,
           \A d \in Clients \ {c} : req'[d] = req[d]
    PROVE  /\ DOMAIN Asked = Clients
           /\ Asked' = [Asked EXCEPT ![c] = IF Waiting(c)' THEN req'[c].asked ELSE Never]
<1>1. \A d \in Clients \ {c} : Asked'[d] = Asked[d]
  BY DEF Asked, Waiting
<1>2. Asked'[c] = IF Waiting(c)' THEN req'[c].asked ELSE Never
  BY DEF Asked
<1> QED
  BY <1>1, <1>2 DEF Asked

LEMMA CollectionsKept ==
    ASSUME UNCHANGED <<slots, pending>>
    PROVE  UNCHANGED <<Begun, Answers>>
BY DEF Begun, Answers, Published

\* A late page is an answer, and fresh enough for who waits on it.
LEMMA LateAnswers ==
    ASSUME IInv, NEW c \in Clients, req[c].pc # "idle", req[c].slot \in DOMAIN slots, Late(c)
    PROVE  /\ slots[req[c].slot].page \in Answers
           /\ slots[req[c].slot].page.ended > req[c].asked - TTL
<1>1. slots[req[c].slot].page \in Answers
  BY DEF Late, Answers, Published
<1>2. req[c].asked \in Times /\ slots[req[c].slot].page.ended \in Times \cup {Never}
  BY SlotFields DEF IInv, TypeOK, ReqInv
<1>3. req[c].asked \in Int /\ slots[req[c].slot].page.ended \in Int /\ TTL \in Int /\ TTL > 0
  BY <1>2, PageAssumption DEF Times, Late
<1> QED
  BY <1>1, <1>3 DEF Late

\* Write is the answer, or nobody sees it.
LEMMA WriteImplements ==
    ASSUME IInv, NEW c \in Clients, NEW p, Write(c, p), req[c].pc # "idle", p \in Answers,
           p.ended > req[c].asked - TTL, UNCHANGED <<now, Begun, Answers>>
    PROVE  SA!Next \/ UNCHANGED SA!vars
<1>1. /\ c \in DOMAIN req /\ req'[c] = Idle
      /\ \A d \in Clients \ {c} : req'[d] = req[d]
  BY DEF Write, IInv, TypeOK, CacheOK
<1>2. DOMAIN Asked = Clients /\ Asked' = [Asked EXCEPT ![c] = Never]
  <2>1. ~Waiting(c)'
    BY <1>1 DEF Waiting, Idle
  <2> QED
    BY <1>1, <2>1, AskedKept DEF IInv
<1>3. CASE req[c].gone
  <2>1. Asked[c] = Never
    BY <1>3 DEF Asked, Waiting
  <2>2. Asked' = Asked
    BY <1>2, <2>1 DEF Asked
  <2> QED
    BY <1>3, <2>2 DEF Write, SA!vars
<1>4. CASE ~req[c].gone
  <2>1. Asked[c] = req[c].asked
    BY <1>4 DEF Asked, Waiting
  <2>2. Asked[c] # Never
    BY <2>1, PageAssumption DEF IInv, ReqInv, Times
  <2>3. got' = [got EXCEPT ![c] = p]
    BY <1>4 DEF Write
  <2>4. SA!Answer(c)
    BY <1>2, <2>1, <2>2, <2>3 DEF SA!Answer
  <2> QED
    BY <2>4 DEF SA!Next
<1> QED
  BY <1>3, <1>4

LEMMA ArriveImplements ==
    ASSUME IInv, NEW c \in Clients, Ask(c) \/ Leave(c) \/ ServeCached(c) \/ JoinRefresh(c)
    PROVE  SA!Next \/ UNCHANGED SA!vars
<1>1. UNCHANGED <<slots, pending, now>>
  BY DEF Ask, Leave, ServeCached, JoinRefresh
<1>2. UNCHANGED <<Begun, Answers>>
  BY <1>1, CollectionsKept
<1>3. \A d \in Clients \ {c} : req'[d] = req[d]
  BY OneReq DEF Ask, Leave, ServeCached, JoinRefresh, Write, IInv, TypeOK, CacheOK
<1>4. /\ DOMAIN Asked = Clients
      /\ Asked' = [Asked EXCEPT ![c] = IF Waiting(c)' THEN req'[c].asked ELSE Never]
  BY <1>3, AskedKept DEF IInv
<1>5. ReqInv(c) /\ c \in DOMAIN req /\ DOMAIN req[c] = {"pc", "asked", "gone", "slot"}
  BY DEF IInv, TypeOK, CacheOK, Reqs
<1>6. CASE Ask(c)
  <2>1. Asked[c] = Never
    BY <1>6 DEF Ask, Asked, Waiting
  <2>2. req'[c].asked = now /\ req'[c].pc = "arrived" /\ ~req'[c].gone
    BY <1>5, <1>6 DEF Ask, Idle
  <2>3. Asked' = [Asked EXCEPT ![c] = now]
    BY <1>4, <2>2 DEF Waiting
  <2>4. SA!Ask(c)
    BY <1>1, <1>2, <1>6, <2>1, <2>3 DEF Ask, SA!Ask
  <2> QED
    BY <2>4 DEF SA!Next
<1>7. CASE Leave(c)
  <2>1. Asked[c] = req[c].asked /\ Asked[c] # Never
    BY <1>5, <1>7, PageAssumption DEF Leave, Asked, Waiting, ReqInv, Times
  <2>2. req'[c].gone
    BY <1>5, <1>7 DEF Leave
  <2>3. Asked' = [Asked EXCEPT ![c] = Never]
    BY <1>4, <2>2 DEF Waiting
  <2>4. SA!Leave(c)
    BY <1>1, <1>2, <1>7, <2>1, <2>3 DEF Leave, SA!Leave
  <2> QED
    BY <2>4 DEF SA!Next
<1>8. CASE ServeCached(c)
  <2>1. /\ Write(c, slots[entry].page) /\ req[c].pc # "idle"
        /\ entry # 0 /\ now - slots[entry].page.ended < TTL
    BY <1>8 DEF ServeCached, Fresh
  <2>2. entry \in DOMAIN slots /\ slots[entry].page.ended # Never
    BY <2>1, SlotNumbers DEF IInv, TypeOK, SlotInv
  <2>3. slots[entry].page \in Answers
    BY <2>2 DEF Answers, Published
  <2>4. slots[entry].page.ended \in Int /\ now \in Int /\ req[c].asked \in Int /\ TTL \in Int
    BY <1>5, <2>1, <2>2, SlotFields, PageAssumption DEF IInv, TypeOK, CacheOK, Times, ReqInv
  <2>5. slots[entry].page.ended > req[c].asked - TTL
    BY <1>5, <2>1, <2>4 DEF ReqInv
  <2> QED
    BY <1>1, <1>2, <2>1, <2>3, <2>5, WriteImplements
<1>9. CASE JoinRefresh(c)
  <2>1. /\ req'[c].asked = req[c].asked /\ req'[c].gone = req[c].gone
        /\ req'[c].pc # "idle" /\ req[c].pc # "idle" /\ got' = got
    BY <1>5, <1>9 DEF JoinRefresh
  <2>2. Asked' = Asked
    BY <1>4, <2>1 DEF Asked, Waiting
  <2> QED
    BY <1>1, <1>2, <2>1, <2>2 DEF SA!vars
<1> QED
  BY <1>6, <1>7, <1>8, <1>9

LEMMA BeginImplements ==
    ASSUME IInv, NEW c \in Clients, BeginRefresh(c)
    PROVE  SA!Begin
<1>1. /\ pending = 0 /\ pending' = Len(slots) + 1 /\ DOMAIN slots' = 1 .. Len(slots) + 1
      /\ slots'[pending'] = OpenSlot
      /\ \A s \in DOMAIN slots : slots'[s] = slots[s]
  BY BeginInv
<1>2. DOMAIN slots = 1 .. Len(slots) /\ Len(slots) \in Nat
  BY SlotNumbers DEF IInv, TypeOK
<1>3. Begun = Never /\ Begun' = now
  <2>1. OpenSlot.began = now
    BY DEF OpenSlot
  <2> QED
    BY <1>1, <1>2, <2>1 DEF Begun
<1>4. Published' = Published
  <2>1. OpenSlot.page.ended = Never
    BY DEF OpenSlot
  <2>2. \A s \in DOMAIN slots' : s \in DOMAIN slots \/ s = pending'
    BY <1>1, <1>2
  <2>3. DOMAIN slots \subseteq DOMAIN slots'
    BY <1>1, <1>2
  <2> QED
    BY <1>1, <2>1, <2>2, <2>3 DEF Published
<1>5. Answers' = Answers
  BY <1>1, <1>4 DEF Answers, Published
<1>6. /\ c \in DOMAIN req /\ DOMAIN req[c] = {"pc", "asked", "gone", "slot"}
      /\ req[c].pc = "arrived" /\ UNCHANGED <<now, got>>
      /\ req' = [req EXCEPT ![c].pc = "collect", ![c].slot = Len(slots) + 1]
  BY DEF BeginRefresh, IInv, TypeOK, CacheOK, Reqs
<1>7. /\ DOMAIN req' = DOMAIN req
      /\ req'[c] = [req[c] EXCEPT !.pc = "collect", !.slot = Len(slots) + 1]
      /\ \A d \in Clients \ {c} : req'[d] = req[d]
  <2>1. DOMAIN req = Clients
    BY DEF IInv, TypeOK, CacheOK
  <2> QED
    BY <1>6, <2>1
<1>8. /\ req'[c].asked = req[c].asked /\ req'[c].gone = req[c].gone /\ req'[c].pc = "collect"
  BY <1>6, <1>7
<1>9. Asked' = Asked
  <2>1. ASSUME NEW d \in Clients PROVE Asked'[d] = Asked[d]
    <3>1. CASE d = c
      BY <1>6, <1>8, <3>1 DEF Asked, Waiting
    <3>2. CASE d # c
      BY <1>7, <3>2 DEF Asked, Waiting
    <3> QED
      BY <3>1, <3>2
  <2> QED
    BY <2>1 DEF Asked
<1> QED
  BY <1>3, <1>5, <1>6, <1>9 DEF SA!Begin

LEMMA ReadImplements ==
    ASSUME IInv, NEW c \in Clients, ReadStep(c)
    PROVE  UNCHANGED SA!vars
<1>1. /\ pending # 0 /\ pending \in DOMAIN slots
      /\ UNCHANGED <<now, req, got, pending>>
      /\ DOMAIN slots' = DOMAIN slots
      /\ \A s \in DOMAIN slots : /\ s # pending => slots'[s] = slots[s]
                                /\ slots'[s].began = slots[s].began
                                /\ slots'[s].page.ended = slots[s].page.ended
  BY ReadEffect
<1>2. Begun' = Begun
  BY <1>1 DEF Begun
<1>3. Published' = Published
  BY <1>1 DEF Published
<1>4. pending \notin Published
  BY <1>1 DEF IInv, SlotInv, Published
<1>5. Answers' = Answers
  <2>1. \A s \in Published : slots'[s] = slots[s]
    BY <1>1, <1>4 DEF Published
  <2> QED
    BY <1>3, <2>1 DEF Answers
<1>6. Asked' = Asked
  BY <1>1 DEF Asked, Waiting
<1> QED
  BY <1>1, <1>2, <1>5, <1>6 DEF SA!vars

\* The page joins the answers, and each of its blocks was read since its slot was opened.
LEMMA PublishImplements ==
    ASSUME IInv, NEW c \in Clients, Publish(c)
    PROVE  SA!Finish
<1>1. /\ pending # 0 /\ pending \in DOMAIN slots /\ DOMAIN slots' = DOMAIN slots
      /\ pending' = 0
      /\ \A s \in DOMAIN slots \ {pending} : slots'[s] = slots[s]
      /\ slots'[pending].page.ended = now
      /\ slots'[pending].page.blocks = slots[pending].page.blocks
  BY PublishInv
<1> DEFINE p == slots'[pending].page
<1>2. Begun = slots[pending].began /\ Begun # Never /\ Begun' = Never
  BY <1>1, SlotFields, PageAssumption DEF Begun, IInv, TypeOK, Times
<1>3. SA!Within(p, Begun, now)
  BY <1>1, <1>2 DEF SA!Within, IInv, SlotInv
<1>4. now # Never
  BY PageAssumption DEF IInv, TypeOK, CacheOK, Times
<1>5. pending \notin Published
  BY <1>1 DEF IInv, SlotInv, Published
<1>6. Published' = Published \cup {pending}
  BY <1>1, <1>4 DEF Published
<1>7. Answers' = Answers \cup {p}
  <2>1. \A s \in Published : s \in DOMAIN slots \ {pending}
    BY <1>5 DEF Published
  <2>2. \A s \in Published : slots'[s].page = slots[s].page
    BY <1>1, <2>1
  <2> QED
    BY <1>6, <2>2 DEF Answers
<1>8. Asked' = Asked /\ UNCHANGED <<now, got>>
  <2>1. /\ c \in DOMAIN req /\ DOMAIN req[c] = {"pc", "asked", "gone", "slot"}
        /\ req[c].pc = "collect" /\ UNCHANGED <<now, got>>
        /\ req' = [req EXCEPT ![c].pc = "publish"]
    BY DEF Publish, IInv, TypeOK, CacheOK, Reqs
  <2>2. /\ req'[c].asked = req[c].asked /\ req'[c].gone = req[c].gone /\ req'[c].pc = "publish"
        /\ \A d \in Clients \ {c} : req'[d] = req[d]
    BY <2>1
  <2>3. \A d \in Clients : Asked'[d] = Asked[d]
    BY <2>1, <2>2 DEF Asked, Waiting
  <2> QED
    BY <2>1, <2>3 DEF Asked
<1>9. p \in Answers'
  BY <1>7
<1> QED
  BY <1>2, <1>3, <1>7, <1>8, <1>9 DEF SA!Finish

LEMMA AnswerImplements ==
    ASSUME IInv, NEW c \in Clients, Reply(c) \/ Wake(c)
    PROVE  SA!Next \/ UNCHANGED SA!vars
<1>1. /\ req[c].slot \in DOMAIN slots /\ Late(c) /\ Write(c, slots[req[c].slot].page)
      /\ DOMAIN slots' = DOMAIN slots
      /\ \A s \in DOMAIN slots : /\ slots'[s].page = slots[s].page
                                /\ slots'[s].began = slots[s].began
      /\ UNCHANGED <<now, pending>>
  BY AnswerInv
<1>2. req[c].pc # "idle"
  BY DEF Reply, Wake
<1>3. Begun' = Begun
  <2>1. pending # 0 => pending \in DOMAIN slots
    BY SlotNumbers DEF IInv, TypeOK
  <2> QED
    BY <1>1, <2>1 DEF Begun
<1>4. Published' = Published
  BY <1>1 DEF Published
<1>5. Answers' = Answers
  BY <1>1, <1>4 DEF Answers, Published
<1> QED
  BY <1>1, <1>2, <1>3, <1>5, LateAnswers, WriteImplements

LEMMA OutsideImplements ==
    ASSUME IInv, (\E f \in Fetchers : Poll(f)) \/ Nudge \/ Reroute \/ Transfer \/ ResetCounters
                 \/ Tick \/ UNCHANGED vars
    PROVE  SA!Next \/ UNCHANGED SA!vars
<1>1. UNCHANGED <<req, slots, pending, got>>
  BY OutsideInv DEF cacheVars
<1>2. UNCHANGED <<Asked, Begun, Answers, got>>
  BY <1>1, CollectionsKept DEF Asked, Waiting
<1>3. CASE Tick
  <2>1. Begun # Never => now < Begun + Deadline
    BY <1>3 DEF Tick, Begun
  <2> QED
    BY <1>2, <1>3, <2>1 DEF Tick, SA!Tick, SA!Next
<1>4. CASE ~Tick
  <2>1. now' = now
    BY <1>4 DEF Poll, FetchSend, FetchStore, FetchFail, Nudge, Reroute, Transfer, ResetCounters, vars
  <2> QED
    BY <1>2, <2>1 DEF SA!vars
<1> QED
  BY <1>3, <1>4

LEMMA NextImplements == IInv /\ [Next]_vars => [SA!Next]_(SA!vars)
<1> SUFFICES ASSUME IInv, [Next]_vars PROVE SA!Next \/ UNCHANGED SA!vars
  OBVIOUS
<1>1. ASSUME NEW c \in Clients, Ask(c) \/ Leave(c) \/ Serve(c)
      PROVE  SA!Next \/ UNCHANGED SA!vars
  <2>1. CASE Ask(c) \/ Leave(c) \/ ServeCached(c) \/ JoinRefresh(c)
    BY <2>1, ArriveImplements
  <2>2. CASE BeginRefresh(c)
    BY <2>2, BeginImplements DEF SA!Next
  <2>3. CASE ReadStep(c)
    BY <2>3, ReadImplements
  <2>4. CASE Publish(c)
    BY <2>4, PublishImplements DEF SA!Next
  <2>5. CASE Reply(c) \/ Wake(c)
    BY <2>5, AnswerImplements
  <2> QED
    BY <1>1, <2>1, <2>2, <2>3, <2>4, <2>5 DEF Serve, ReadStep
<1>2. CASE (\E f \in Fetchers : Poll(f)) \/ Nudge \/ Reroute \/ Transfer \/ ResetCounters
            \/ Tick \/ UNCHANGED vars
  BY <1>2, OutsideImplements
<1> QED
  BY <1>1, <1>2 DEF Next

\* However many clients ask, leave and wait, and whatever fails: pages are collected one at a
\* time, and every page handed out was finished less than TTL before its request and read
\* within one collection (http/state.go, http/live.go).
THEOREM PromiseKept == Spec => Promise
BY InitInv, NextInv, InitImplements, NextImplements, PTL DEF Spec, Promise, SA!Spec
-----------------------------------------------------------------------------
(* No bytes are counted into two rates *)

\* All bytes moved when a snapshot of the counters was taken.
Moved(x) == IF x = Never THEN 0 ELSE x.moved

\* Since a snapshot the counter shown has grown by no more than the traffic: a restart of
\* sing-box only makes it show less.
Known(x, b) == x # Never => x.moved <= b.moved /\ b.up - x.up <= b.moved - x.moved

\* A rate counts bytes between the slot's two snapshots, and no slot's interval begins before
\* the interval of an earlier one has ended.
RateInv ==
    /\ pending # 0 => /\ pending = Len(slots)
                      /\ slots[pending].from = prev
                      /\ Known(slots[pending].fresh, bytes)
    /\ Known(prev, bytes)
    /\ \A s \in DOMAIN slots :
          /\ slots[s].page.rate \in 0 .. (Moved(slots[s].fresh) - Moved(slots[s].from))
          /\ s # pending => Moved(slots[s].fresh) <= Moved(prev)
    /\ \A i, j \in DOMAIN slots : i < j => Moved(slots[i].fresh) <= Moved(slots[j].from)

LEMMA MovedTyped ==
    ASSUME NEW x \in Counters \cup {Never}
    PROVE  Moved(x) \in Nat /\ (x # Never => x.up \in Int /\ x.moved \in Int)
BY PageAssumption DEF Moved, Counters

LEMMA SlotCounts ==
    ASSUME CacheOK, NEW s \in DOMAIN slots
    PROVE  /\ slots[s].from \in Counters \cup {Never} /\ slots[s].fresh \in Counters \cup {Never}
           /\ slots[s].page.rate \in Int
           /\ Moved(slots[s].from) \in Nat /\ Moved(slots[s].fresh) \in Nat
<1>1. slots[s] \in Slots /\ slots[s].page \in Pages
  BY SlotTyped
<1>2. slots[s].from \in Counters \cup {Never} /\ slots[s].fresh \in Counters \cup {Never}
  BY <1>1 DEF Slots
<1>3. slots[s].page.rate \in Int
  BY <1>1, PageAssumption DEF Pages
<1> QED
  BY <1>2, <1>3, MovedTyped

LEMMA InitRate == Init => RateInv
BY DEF Init, RateInv, Known

\* What is known of a snapshot stays known: traffic adds to both counters, a restart of
\* sing-box takes from one.
LEMMA KnownStays ==
    ASSUME IInv, [Next]_vars, NEW x \in Counters \cup {Never}, Known(x, bytes)
    PROVE  Known(x, bytes')
<1>1. CASE x = Never
  BY <1>1 DEF Known
<1>2. CASE x # Never
  <2>1. /\ x.up \in Int /\ x.moved \in Int /\ bytes.up \in Int /\ bytes.moved \in Int
        /\ DOMAIN bytes = {"up", "moved"}
    BY <1>2, MovedTyped, PageAssumption DEF IInv, TypeOK, CacheOK, Counters
  <2>2. \/ bytes' = bytes
        \/ bytes'.up = bytes.up + 1 /\ bytes'.moved = bytes.moved + 1
        \/ bytes.up > 0 /\ bytes'.up = 0 /\ bytes'.moved = bytes.moved
    <3>1. CASE Transfer
      BY <3>1 DEF Transfer
    <3>2. CASE ResetCounters
      BY <2>1, <3>2 DEF ResetCounters
    <3>3. CASE ~Transfer /\ ~ResetCounters
      BY <3>3 DEF Next, Serve, Ask, Leave, ServeCached, JoinRefresh, BeginRefresh, Probe, ReadExitIP,
                  ReadTraffic, Publish, Reply, Wake, Poll, FetchSend, FetchStore, FetchFail, Nudge,
                  Reroute, Tick, vars
    <3> QED
      BY <3>1, <3>2, <3>3
  <2>3. x.moved <= bytes.moved /\ bytes.up - x.up <= bytes.moved - x.moved
    BY <1>2 DEF Known
  <2>4. x.moved <= bytes'.moved /\ bytes'.up - x.up <= bytes'.moved - x.moved
    BY <2>1, <2>2, <2>3
  <2> QED
    BY <2>4 DEF Known
<1> QED
  BY <1>1, <1>2

\* A step that takes no snapshot and computes no rate keeps the invariant.
LEMMA NoReading ==
    ASSUME IInv, RateInv, [Next]_vars, UNCHANGED <<pending, prev>>,
           Len(slots') = Len(slots), DOMAIN slots' = DOMAIN slots,
           \A s \in DOMAIN slots : /\ slots'[s].from = slots[s].from
                                   /\ slots'[s].fresh = slots[s].fresh
                                   /\ slots'[s].page.rate = slots[s].page.rate
    PROVE  RateInv'
<1>1. pending # 0 => pending \in DOMAIN slots
  BY SlotNumbers DEF IInv, TypeOK
<1>2. Known(prev', bytes')
  BY KnownStays DEF RateInv, IInv, TypeOK, CacheOK, Known
<1>3. pending # 0 => Known(slots'[pending'].fresh, bytes')
  <2>1. SUFFICES ASSUME pending # 0 PROVE Known(slots'[pending'].fresh, bytes')
    OBVIOUS
  <2>2. slots[pending].fresh \in Counters \cup {Never} /\ Known(slots[pending].fresh, bytes)
    BY <1>1, <2>1, SlotCounts DEF IInv, TypeOK, RateInv
  <2>3. Known(slots[pending].fresh, bytes')
    BY <2>2, KnownStays
  <2> QED
    BY <1>1, <2>1, <2>3
<1> QED
  BY <1>1, <1>2, <1>3 DEF RateInv

\* The new slot starts from the last page's snapshot.
LEMMA BeginRate ==
    ASSUME IInv, RateInv, NEW c \in Clients, BeginRefresh(c)
    PROVE  RateInv'
<1>1. /\ pending = 0 /\ pending' = Len(slots) + 1 /\ DOMAIN slots' = 1 .. Len(slots) + 1
      /\ slots'[pending'] = OpenSlot /\ \A s \in DOMAIN slots : slots'[s] = slots[s]
  BY BeginInv
<1>2. /\ DOMAIN slots = 1 .. Len(slots) /\ Len(slots) \in Nat /\ Len(slots') = Len(slots) + 1
      /\ UNCHANGED <<prev, bytes>>
  BY SlotNumbers DEF BeginRefresh, IInv, TypeOK, CacheOK
<1>3. OpenSlot.from = prev /\ OpenSlot.fresh = prev /\ OpenSlot.page.rate = 0
  BY DEF OpenSlot
<1>4. Moved(prev) \in Nat
  BY MovedTyped DEF IInv, TypeOK, CacheOK
<1>5. Known(prev, bytes)
  BY DEF RateInv
<1>6. \A s \in DOMAIN slots' : s \in DOMAIN slots \/ s = pending'
  BY <1>1, <1>2
<1>7. ASSUME NEW s \in DOMAIN slots'
      PROVE  /\ slots'[s].page.rate \in 0 .. (Moved(slots'[s].fresh) - Moved(slots'[s].from))
             /\ s # pending' => Moved(slots'[s].fresh) <= Moved(prev')
  <2>1. CASE s = pending'
    BY <1>1, <1>3, <1>4, <2>1
  <2>2. CASE s # pending'
    <3>1. s \in DOMAIN slots /\ s # pending /\ slots'[s] = slots[s]
      BY <1>1, <1>2, <1>6, <2>2
    <3> QED
      BY <1>2, <3>1 DEF RateInv
  <2> QED
    BY <2>1, <2>2
<1>8. ASSUME NEW i \in DOMAIN slots', NEW j \in DOMAIN slots', i < j
      PROVE  Moved(slots'[i].fresh) <= Moved(slots'[j].from)
  <2>1. i \in DOMAIN slots /\ i # pending /\ slots'[i] = slots[i]
    BY <1>1, <1>2, <1>8
  <2>2. CASE j = pending'
    BY <1>1, <1>3, <2>1, <2>2 DEF RateInv
  <2>3. CASE j # pending'
    <3>1. j \in DOMAIN slots /\ slots'[j] = slots[j]
      BY <1>1, <1>6, <2>3
    <3> QED
      BY <1>8, <2>1, <3>1 DEF RateInv
  <2> QED
    BY <2>2, <2>3
<1> QED
  BY <1>1, <1>2, <1>3, <1>5, <1>7, <1>8 DEF RateInv

\* Delta counts no byte that passed before the snapshot it is given.
LEMMA DeltaWithin ==
    ASSUME CacheOK, NEW x \in Counters \cup {Never}, Known(x, bytes)
    PROVE  Delta(x) \in 0 .. (Moved(bytes) - Moved(x))
<1>1. /\ bytes.up \in Nat /\ bytes.moved \in Nat /\ bytes.up <= bytes.moved /\ bytes # Never
      /\ x # Never => x.up \in Nat /\ x.moved \in Nat
  BY PageAssumption DEF CacheOK, Counters
<1> QED
  BY <1>1 DEF Delta, Moved, Known

\* The traffic block: the rate is of the interval since the slot's own snapshot, which ends now;
\* a failed read leaves the interval empty, for the next slot to begin where this one did.
LEMMA TrafficRate ==
    ASSUME IInv, RateInv, NEW c \in Clients, ReadTraffic(c)
    PROVE  RateInv'
<1>1. /\ req[c].slot = pending /\ pending # 0 /\ pending \in DOMAIN slots
      /\ UNCHANGED <<bytes, pending, prev>> /\ DOMAIN slots' = DOMAIN slots
      /\ \A s \in DOMAIN slots : s # pending => slots'[s] = slots[s]
  BY ReadEffect DEF ReadStep
<1> DEFINE from == slots[pending].from
<1>2. /\ from = prev /\ pending = Len(slots) /\ Known(from, bytes)
      /\ from \in Counters \cup {Never} /\ bytes \in Counters
      /\ Moved(from) \in Nat /\ Moved(bytes) \in Nat
  BY <1>1, SlotCounts, MovedTyped DEF RateInv, IInv, TypeOK, CacheOK
<1>3. /\ DOMAIN slots[pending] = {"began", "closed", "from", "fresh", "page"}
      /\ DOMAIN slots[pending].page = {"ended", "blocks", "rate"}
  BY <1>1, SlotFields DEF IInv, TypeOK
<1>4. PICK v \in Outcomes(c) :
         slots' = [slots EXCEPT
             ![req[c].slot].page.blocks = With(@, "traffic", v),
             ![req[c].slot].page.rate   = IF v = Failed THEN 0 ELSE Delta(slots[req[c].slot].from),
             ![req[c].slot].fresh       = IF v = Failed THEN slots[req[c].slot].from ELSE bytes]
  BY DEF ReadTraffic
<1> DEFINE r == IF v = Failed THEN 0 ELSE Delta(slots[pending].from)
           x == IF v = Failed THEN slots[pending].from ELSE bytes
<1>5. r \in 0 .. (Moved(x) - Moved(from)) /\ x \in Counters \cup {Never}
  BY <1>2, DeltaWithin DEF IInv, TypeOK
<1>6. Known(x, bytes)
  <2>1. Known(bytes, bytes)
    BY <1>2, MovedTyped DEF Known
  <2> QED
    BY <1>2, <2>1
<1>7. /\ slots'[pending].page.rate = r /\ slots'[pending].fresh = x
      /\ slots'[pending].from = from /\ Len(slots') = Len(slots)
  <2> HIDE DEF r, x
  <2>1. slots' = [slots EXCEPT ![pending].page.blocks = With(@, "traffic", v),
                               ![pending].page.rate = r, ![pending].fresh = x]
    BY <1>1, <1>4 DEF r, x
  <2>2. slots'[pending].page.rate = r /\ slots'[pending].fresh = x /\ slots'[pending].from = from
    BY <1>1, <1>3, <2>1
  <2>3. Len(slots') = Len(slots)
    BY <1>1, <2>1 DEF IInv, TypeOK, CacheOK
  <2> QED
    BY <2>2, <2>3
<1> HIDE DEF r, x
<1>8. ASSUME NEW s \in DOMAIN slots
      PROVE  /\ slots'[s].page.rate \in 0 .. (Moved(slots'[s].fresh) - Moved(slots'[s].from))
             /\ s # pending => Moved(slots'[s].fresh) <= Moved(prev)
             /\ slots'[s].from = slots[s].from
  BY <1>1, <1>5, <1>7 DEF RateInv
<1>9. ASSUME NEW i \in DOMAIN slots, NEW j \in DOMAIN slots, i < j
      PROVE  Moved(slots'[i].fresh) <= Moved(slots'[j].from)
  <2>1. i # pending
    BY <1>2, <1>9, SlotNumbers DEF IInv, TypeOK
  <2>2. slots'[i] = slots[i] /\ slots'[j].from = slots[j].from
    BY <1>1, <1>8, <2>1
  <2> QED
    BY <1>9, <2>2 DEF RateInv
<1>10. Known(prev, bytes)
  BY DEF RateInv
<1> QED
  BY <1>1, <1>2, <1>6, <1>7, <1>8, <1>9, <1>10 DEF RateInv

\* The page's snapshot becomes the one the next slot starts from.
LEMMA PublishRate ==
    ASSUME IInv, RateInv, NEW c \in Clients, Publish(c)
    PROVE  RateInv'
<1>1. /\ pending # 0 /\ pending \in DOMAIN slots /\ DOMAIN slots' = DOMAIN slots /\ pending' = 0
  BY PublishInv
<1>2. req[c].slot = pending
  BY DEF IInv, ReqInv, Publish
<1>3. /\ slots' = [slots EXCEPT ![pending].page.ended = now]
      /\ prev' = slots[pending].fresh /\ bytes' = bytes
  BY <1>2 DEF Publish
<1>4. \A s \in DOMAIN slots : /\ slots'[s].from = slots[s].from
                              /\ slots'[s].fresh = slots[s].fresh
                              /\ slots'[s].page.rate = slots[s].page.rate
  <2>1. \A s \in DOMAIN slots : /\ DOMAIN slots[s] = {"began", "closed", "from", "fresh", "page"}
                                /\ DOMAIN slots[s].page = {"ended", "blocks", "rate"}
    BY SlotFields DEF IInv, TypeOK
  <2> QED
    BY <1>1, <1>3, <2>1
<1>5. Moved(prev) <= Moved(prev') /\ Moved(prev) \in Nat /\ Moved(prev') \in Nat
  <2>1. slots[pending].from = prev
    BY <1>1 DEF RateInv
  <2>2. /\ Moved(slots[pending].from) \in Nat /\ Moved(slots[pending].fresh) \in Nat
    BY <1>1, SlotCounts DEF IInv, TypeOK
  <2>3. slots[pending].page.rate \in 0 .. (Moved(slots[pending].fresh) - Moved(slots[pending].from))
    BY <1>1 DEF RateInv
  <2>4. Moved(slots[pending].from) <= Moved(slots[pending].fresh)
    BY <2>2, <2>3
  <2> QED
    BY <1>3, <2>1, <2>2, <2>4
<1>6. ASSUME NEW s \in DOMAIN slots PROVE Moved(slots[s].fresh) <= Moved(prev')
  <2>1. Moved(slots[s].fresh) \in Nat
    BY SlotCounts DEF IInv, TypeOK
  <2>2. CASE s = pending
    BY <1>3, <2>1, <2>2
  <2>3. CASE s # pending
    <3>1. Moved(slots[s].fresh) <= Moved(prev)
      BY <2>3 DEF RateInv
    <3> QED
      BY <1>5, <2>1, <3>1
  <2> QED
    BY <2>2, <2>3
<1>7. Known(prev', bytes')
  BY <1>1, <1>3 DEF RateInv
<1> QED
  BY <1>1, <1>4, <1>6, <1>7 DEF RateInv

\* The steps that are neither.
LEMMA QuietRate ==
    ASSUME IInv, RateInv, NEW c \in Clients,
           \/ Ask(c) \/ Leave(c) \/ ServeCached(c) \/ JoinRefresh(c) \/ (\E b \in Blocks : Probe(c, b))
           \/ ReadExitIP(c) \/ Reply(c) \/ Wake(c)
    PROVE  RateInv'
<1>1. [Next]_vars /\ UNCHANGED <<pending, prev>>
  BY DEF Next, Serve, Ask, Leave, ServeCached, JoinRefresh, Probe, ReadExitIP, Reply, Wake
<1>2. \A s \in DOMAIN slots : /\ DOMAIN slots[s] = {"began", "closed", "from", "fresh", "page"}
                              /\ DOMAIN slots[s].page = {"ended", "blocks", "rate"}
  BY SlotFields DEF IInv, TypeOK
<1>3. DOMAIN slots = 1 .. Len(slots) /\ slots \in Seq(Slots)
  BY DEF IInv, TypeOK, CacheOK
<1> DEFINE Same == /\ Len(slots') = Len(slots) /\ DOMAIN slots' = DOMAIN slots
                   /\ \A s \in DOMAIN slots : /\ slots'[s].from = slots[s].from
                                              /\ slots'[s].fresh = slots[s].fresh
                                              /\ slots'[s].page.rate = slots[s].page.rate
<1>4. ASSUME NEW s \in DOMAIN slots, NEW b, NEW v,
             slots' = [slots EXCEPT ![s].page.blocks = With(@, b, v)]
      PROVE  Same
  BY <1>2, <1>3, <1>4
<1>5. CASE ReadStep(c) /\ ~ReadTraffic(c)
  <2>1. pending \in DOMAIN slots /\ req[c].slot = pending
    BY <1>5, ReadEffect
  <2>2. \E b, v : slots' = [slots EXCEPT ![pending].page.blocks = With(@, b, v)]
    BY <1>5, <2>1 DEF ReadStep, Probe, ReadExitIP
  <2> QED
    BY <1>1, <1>4, <2>1, <2>2, NoReading
<1>6. CASE Reply(c)
  <2>1. slots' = [slots EXCEPT ![req[c].slot].closed = TRUE] /\ req[c].slot \in DOMAIN slots
    BY <1>6, AnswerInv DEF Reply
  <2>2. Same
    BY <1>2, <1>3, <2>1
  <2> QED
    BY <1>1, <2>2, NoReading
<1>7. CASE Ask(c) \/ Leave(c) \/ ServeCached(c) \/ JoinRefresh(c) \/ Wake(c)
  <2>1. slots' = slots
    BY <1>7 DEF Ask, Leave, ServeCached, JoinRefresh, Wake
  <2> QED
    BY <1>1, <2>1, NoReading
<1>8. ASSUME (\E b \in Blocks : Probe(c, b)) \/ ReadExitIP(c)
      PROVE  ReadStep(c) /\ ~ReadTraffic(c)
  BY <1>8 DEF ReadStep, Probe, ReadExitIP, ReadTraffic
<1> QED
  BY <1>5, <1>6, <1>7, <1>8

LEMMA NextRate == IInv /\ RateInv /\ [Next]_vars => RateInv'
<1> SUFFICES ASSUME IInv, RateInv, [Next]_vars PROVE RateInv'
  OBVIOUS
<1>1. ASSUME NEW c \in Clients, Ask(c) \/ Leave(c) \/ Serve(c) PROVE RateInv'
  BY <1>1, QuietRate, BeginRate, TrafficRate, PublishRate DEF Serve
<1>2. CASE (\E f \in Fetchers : Poll(f)) \/ Nudge \/ Reroute \/ Transfer \/ ResetCounters
            \/ Tick \/ UNCHANGED vars
  BY <1>2, OutsideInv, NoReading DEF cacheVars
<1> QED
  BY <1>1, <1>2 DEF Next

\* Whatever failed, restarted or was skipped in between, no byte is counted into the rates of
\* two published pages, and no rate is negative (http/live.go, clash/client.go).
THEOREM RatesAreTrue == Spec => []RateTrue
<1>1. IInv /\ RateInv => RateTrue
  <2> SUFFICES ASSUME IInv, RateInv, NEW i \in Published, NEW j \in Published, i < j
               PROVE  slots[j].page.rate \in 0 .. (MovedAt(j) - MovedAt(i))
    BY DEF RateTrue
  <2>1. i \in DOMAIN slots /\ j \in DOMAIN slots
    BY DEF Published
  <2>2. /\ slots[j].page.rate \in 0 .. (Moved(slots[j].fresh) - Moved(slots[j].from))
        /\ Moved(slots[i].fresh) <= Moved(slots[j].from)
    BY <2>1 DEF RateInv
  <2>3. /\ Moved(slots[i].fresh) \in Nat /\ Moved(slots[j].fresh) \in Nat
        /\ Moved(slots[j].from) \in Nat
    BY <2>1, SlotCounts DEF IInv, TypeOK
  <2>4. MovedAt(i) = Moved(slots[i].fresh) /\ MovedAt(j) = Moved(slots[j].fresh)
    BY DEF MovedAt, Moved
  <2>5. slots[j].page.rate \in 0 .. (Moved(slots[j].fresh) - Moved(slots[i].fresh))
    BY <2>2, <2>3
  <2> QED
    BY <2>4, <2>5
<1> QED
  BY <1>1, InitInv, NextInv, InitRate, NextRate, PTL DEF Spec
=============================================================================
