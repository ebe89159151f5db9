------------------------- MODULE ScanRegistryProofs -------------------------
(* What holds of ScanRegistry for every number of requests and scans and    *)
(* every size of the registry, the channels and the directory.              *)
EXTENDS ScanRegistry, FiniteSetTheorems, SequenceTheorems, WellFoundedInduction, TLAPS

-----------------------------------------------------------------------------
(* The inductive invariant.                                                 *)

After  == {"settle", "restore", "finish", "snapshot", "over"}
Ended  == {"finish", "snapshot", "over"}
Piping == {"fetch"} \cup Running

ScanRec == [id : 0..MaxScans, stage : Stages, pc : Steps, paused : BOOLEAN,
            ctx : {"live", "canceled", "expired"},
            outcome : {"none", "done", "cancelled", "timed_out"},
            result : BOOLEAN, pause : BOOLEAN, queue : Seq(Stages), open : BOOLEAN,
            drain : BOOLEAN, sent : 0..Reports]

HandlerRec == [pc : {"idle", "put", "pause", "go"}, scan : 0..MaxScans, pause : BOOLEAN]

NoEnd(q) == \A n \in 1..Len(q) : q[n] \notin Terminal

\* A scan that says it has ended, or whose reader is going to say so, is past its
\* pipeline; and its channel has no more messages than it holds.
Sound(r) == /\ r.pc \in After \/ (r.stage \notin Terminal /\ NoEnd(r.queue))
            /\ Len(r.queue) <= ChanCap
            /\ r.pc = "settle" => r.outcome # "none"

TypeInv ==
    /\ started \in 0..MaxScans
    /\ scan \in [Scans -> ScanRec]
    /\ recent \in [Scans -> 0..MaxScans]
    /\ handler \in [Handlers -> HandlerRec]
    /\ snaps \in Seq(Files) /\ written \in [Scans -> [at : Nat, ok : BOOLEAN]]
    /\ tunnel \in BOOLEAN /\ owed \in BOOLEAN

Sorted(files) == \A m, n \in 1..Len(files) : m < n => files[m].at > files[n].at

\* The directory holds its files newest first, and none too many but for a write
\* that failed; the next file will be newer than all that was written.
DirInv ==
    /\ Sorted(snaps)
    /\ \A s \in Scans : written[s].at < Now
    /\ Len(snaps) <= ScansKeep \/ \E s \in Scans : ~written[s].ok

ScanInv ==
    /\ \A s \in Scans : Sound(scan[s])
    /\ \A s \in 1..started : scan[s].id \in 1..s
    /\ \A s \in Scans : s > started => scan[s] = NoScan

\* The last scan is the current one, and every id leads to a scan that bears it.
RecentInv ==
    /\ current = started
    /\ \A i \in Scans : recent[i] # None =>
          recent[i] \in 1..started /\ scan[recent[i]].id = i
    /\ current # None => recent[scan[current].id] = current
    /\ Cardinality(InMemory(recent)) <= MaxInMemory

Pending(h) == handler[h].pc \in {"pause", "go"}

\* A scan whose request is not answered yet has not begun, and each such request
\* has a scan of its own.
PendingInv ==
    /\ \A h \in Handlers : Pending(h) =>
          handler[h].scan \in 1..started /\ scan[handler[h].scan].pc = "none"
    /\ \A g, h \in Handlers : Pending(g) /\ Pending(h) /\ g # h =>
          handler[g].scan # handler[h].scan

IInv == TypeInv /\ DirInv /\ ScanInv /\ RecentInv /\ PendingInv

-----------------------------------------------------------------------------
(* Helpers.                                                                 *)

\* A set of naturals that is not empty has a least element.
LEMMA Least ==
    ASSUME NEW S \in SUBSET Nat, S # {}
    PROVE  \E m \in S : \A n \in S : m <= n
<1>1. PICK m \in S : \A n \in S : ~(<<n, m>> \in OpToRel(<, Nat))
  BY NatLessThanWellFounded, WFMin
<1>2. \A n \in S : ~(n < m)
  BY <1>1 DEF OpToRel
<1>. QED  BY <1>2

\* Evict keeps the scan just entered and takes one entry when there is one too many.
LEMMA EvictOldest ==
    ASSUME NEW r \in [Scans -> 0..MaxScans], NEW i \in Scans, NEW s \in Scans,
           r[i] = s, \A j \in Scans : r[j] = s => j = i,
           Cardinality(InMemory(r)) <= MaxInMemory + 1
    PROVE  /\ Evict(r, s) \in [Scans -> 0..MaxScans]
           /\ Evict(r, s)[i] = s
           /\ \A j \in Scans : Evict(r, s)[j] \in {r[j], None}
           /\ Cardinality(InMemory(Evict(r, s))) <= MaxInMemory
<1>. DEFINE others == {j \in InMemory(r) : r[j] # s}
<1>0. MaxScans \in Nat \ {0} /\ MaxInMemory \in Nat \ {0}
  BY ScanAssumption
<1>1. IsFiniteSet(InMemory(r)) /\ Cardinality(InMemory(r)) \in Nat
  <2>1. IsFiniteSet(Scans)
    BY <1>0, FS_Interval DEF Scans
  <2>2. InMemory(r) \in SUBSET Scans
    BY DEF InMemory
  <2>. QED  BY <2>1, <2>2, FS_Subset, FS_CardinalityType
<1>2. CASE Cardinality(InMemory(r)) <= MaxInMemory
  BY <1>2 DEF Evict
<1>3. CASE others = {}
  <2>1. InMemory(r) = {i}
    BY <1>3 DEF InMemory, None, Scans
  <2>2. Cardinality(InMemory(r)) = 1
    BY <2>1, FS_Singleton
  <2>. QED  BY <1>0, <1>2, <2>2
<1>4. CASE ~(Cardinality(InMemory(r)) <= MaxInMemory) /\ others # {}
  <2>1. \E o \in others : \A j \in others : r[o] <= r[j]
    <3>. DEFINE S == {r[j] : j \in others}
    <3>1. S \in SUBSET Nat /\ S # {}
      BY <1>0, <1>4 DEF InMemory
    <3>2. PICK m \in S : \A n \in S : m <= n
      <4>. HIDE DEF S
      <4>. QED  BY <3>1, Least
    <3>. QED  BY <3>2
  <2>. DEFINE o == CHOOSE o \in others : \A j \in others : r[o] <= r[j]
  <2>2. o \in others
    BY <2>1
  <2>3. Evict(r, s) = [r EXCEPT ![o] = None]
    BY <1>4 DEF Evict
  <2>4. o \in Scans /\ o \in InMemory(r) /\ o # i
    BY <2>2 DEF InMemory
  <2>. HIDE DEF o, others
  <2>5. /\ Evict(r, s) \in [Scans -> 0..MaxScans]
        /\ Evict(r, s)[i] = s
        /\ \A j \in Scans : Evict(r, s)[j] \in {r[j], None}
    BY <2>3, <2>4, <1>0 DEF None
  <2>6. InMemory(Evict(r, s)) = InMemory(r) \ {o}
    BY <2>3, <2>4 DEF InMemory
  <2>7. Cardinality(InMemory(r) \ {o}) = Cardinality(InMemory(r)) - 1
    BY <1>1, <2>4, FS_RemoveElement
  <2>. QED  BY <2>5, <2>6, <2>7, <1>0, <1>1
<1>. QED  BY <1>2, <1>3, <1>4

-----------------------------------------------------------------------------
(* What the goroutines of a scan do to its record.                          *)

Moves(r, q) ==
    /\ q \in ScanRec /\ Sound(q)
    /\ q.id = r.id /\ q.paused = r.paused /\ q.pause = r.pause
    /\ q.pc = "none" <=> r.pc = "none"
    /\ r.pc = "over" => q.pc = "over"
    /\ r.pc \in After => q.pc \in After
    /\ q.pc \in Piping => r.pc \in Piping
    /\ q.pc \in Ended => r.pc \in Ended \cup {"restore"}
    /\ q.pc = "over" /\ q.result => r.pc \in {"snapshot", "over"} /\ r.result

\* A report changes nothing but the channel, which stays within its capacity.
LEMMA SentKeeps ==
    ASSUME NEW r \in ScanRec, Sound(r), NEW m \in Stages
    PROVE  /\ Sent(r, m).queue \in Seq(Stages)
           /\ Len(Sent(r, m).queue) <= ChanCap
           /\ Sent(r, m) = [r EXCEPT !.queue = Sent(r, m).queue]
           /\ m \notin Terminal /\ NoEnd(r.queue) => NoEnd(Sent(r, m).queue)
<1>0. ChanCap \in Nat /\ r.queue \in Seq(Stages) /\ Len(r.queue) \in Nat /\ Len(r.queue) <= ChanCap
  BY ScanAssumption DEF ScanRec, Sound
<1>. DEFINE q == IF Len(r.queue) < ChanCap THEN Append(r.queue, m) ELSE r.queue
<1>1. Sent(r, m) = [r EXCEPT !.queue = q]
  BY DEF Sent
<1>2. Sent(r, m).queue = q
  BY <1>1 DEF ScanRec
<1>3. q \in Seq(Stages) /\ Len(q) <= ChanCap
  BY <1>0
<1>4. ASSUME m \notin Terminal, NoEnd(r.queue)
      PROVE  NoEnd(q)
  <2>1. \A n \in 1..Len(q) : q[n] = m \/ (n \in 1..Len(r.queue) /\ q[n] = r.queue[n])
    BY <1>0
  <2>. QED  BY <2>1, <1>4 DEF NoEnd
<1>. QED  BY <1>1, <1>2, <1>3, <1>4

\* A record with a new stage, step, channel ... moves as far as those say.
LEMMA OutcomeType ==
    ASSUME NEW r \in ScanRec
    PROVE  Outcome(r.ctx) \in {"done", "cancelled", "timed_out"}
<1>1. r.ctx \in {"live", "canceled", "expired"}
  BY DEF ScanRec
<1>. QED  BY <1>1 DEF Outcome

\* vetlib.Run may return from any of its stages.
LEMMA ReturnsMoves ==
    ASSUME NEW r \in ScanRec, Sound(r), r.pc \in Running
    PROVE  Moves(r, Returns(r))
<1>1. PICK q : q = Returns(r)
  OBVIOUS
<1>2. q \in ScanRec
  BY <1>1, OutcomeType DEF Returns, ScanRec, Steps, Running
<1>3. /\ q.pc = "settle" /\ q.id = r.id /\ q.paused = r.paused /\ q.pause = r.pause
      /\ q.queue = r.queue /\ q.outcome # "none"
  BY <1>1, OutcomeType DEF Returns, ScanRec
<1>. QED  BY <1>1, <1>2, <1>3 DEF Moves, Sound, After, Piping, Running, Ended

\* Nothing but the channel.
LEMMA QueueMoves ==
    ASSUME NEW r \in ScanRec, Sound(r), NEW w \in Seq(Stages), Len(w) <= ChanCap,
           r.pc \in After \/ NoEnd(w), NEW k \in 0..Reports,
           NEW q, q = [r EXCEPT !.queue = w, !.sent = k]
    PROVE  Moves(r, q)
<1>1. q \in ScanRec
  BY DEF ScanRec
<1>2. /\ q.pc = r.pc /\ q.id = r.id /\ q.paused = r.paused /\ q.pause = r.pause
      /\ q.queue = w /\ q.stage = r.stage /\ q.result = r.result /\ q.outcome = r.outcome
  BY DEF ScanRec
<1>. QED  BY <1>1, <1>2 DEF Moves, Sound, After, Ended

LEMMA FetchMoves ==
    ASSUME NEW s \in Scans, TypeInv, ScanInv, Fetch(s)
    PROVE  Moves(scan[s], scan'[s]) /\ scan' = [scan EXCEPT ![s] = scan'[s]]
<1>1. scan[s] \in ScanRec /\ Sound(scan[s]) /\ scan \in [Scans -> ScanRec]
  BY DEF TypeInv, ScanInv
<1>2. PICK r : r = scan[s]
  OBVIOUS
<1>3. PICK q : q = [Sent(r, "parse") EXCEPT !.pc = "parse", !.open = TRUE, !.drain = TRUE]
  OBVIOUS
<1>4. scan' = [scan EXCEPT ![s] = q] /\ r.pc = "fetch"
  BY <1>2, <1>3 DEF Fetch, Change, At
<1>5. PICK w : w = Sent(r, "parse").queue
  OBVIOUS
<1>6. /\ w \in Seq(Stages) /\ Len(w) <= ChanCap /\ NoEnd(w)
      /\ q = [r EXCEPT !.queue = w, !.pc = "parse", !.open = TRUE, !.drain = TRUE]
  <2>1. "parse" \in Stages /\ "parse" \notin Terminal
    BY DEF Stages, Terminal
  <2>2. NoEnd(r.queue)
    BY <1>1, <1>2, <1>4 DEF Sound, After
  <2>. QED  BY <1>1, <1>2, <1>3, <1>5, <2>1, <2>2, SentKeeps DEF ScanRec
<1>7. q \in ScanRec
  BY <1>1, <1>2, <1>6 DEF ScanRec, Steps, Running
<1>8. /\ q.pc = "parse" /\ q.id = r.id /\ q.paused = r.paused /\ q.pause = r.pause
      /\ q.queue = w /\ q.stage = r.stage
  BY <1>1, <1>2, <1>6 DEF ScanRec
<1>9. Moves(r, q)
  BY <1>1, <1>2, <1>4, <1>6, <1>7, <1>8 DEF Moves, Sound, After, Piping, Running, Ended
<1>. QED  BY <1>1, <1>2, <1>4, <1>9

\* The steps that leave the channel alone.
LEMMA PlainMoves ==
    ASSUME NEW s \in Scans, TypeInv, ScanInv,
           FetchFails(s) \/ ParseFails(s) \/ Settle(s) \/ Finish(s) \/ Timeout(s) \/ DrainEnds(s)
    PROVE  Moves(scan[s], scan'[s]) /\ scan' = [scan EXCEPT ![s] = scan'[s]]
<1>1. scan[s] \in ScanRec /\ Sound(scan[s]) /\ scan \in [Scans -> ScanRec]
  BY DEF TypeInv, ScanInv
<1>2. PICK r : r = scan[s]
  OBVIOUS
<1>3. CASE FetchFails(s)
  <2>1. PICK q : q = [r EXCEPT !.stage = "error", !.pc = "restore"]
    OBVIOUS
  <2>2. scan' = [scan EXCEPT ![s] = q] /\ r.pc = "fetch"
    BY <1>2, <1>3, <2>1 DEF FetchFails, Change, At
  <2>3. q \in ScanRec
    BY <1>1, <1>2, <2>1 DEF ScanRec, Steps, Stages, Terminal
  <2>4. /\ q.pc = "restore" /\ q.id = r.id /\ q.paused = r.paused /\ q.pause = r.pause
        /\ q.queue = r.queue
    BY <1>1, <1>2, <2>1 DEF ScanRec
  <2>5. Moves(r, q)
    BY <1>1, <1>2, <2>2, <2>3, <2>4 DEF Moves, Sound, After, Piping, Running, Ended
  <2>. QED  BY <1>1, <1>2, <2>2, <2>5
<1>4. CASE ParseFails(s)
  <2>1. PICK q : q = [r EXCEPT !.stage = "error", !.open = FALSE, !.pc = "restore"]
    OBVIOUS
  <2>2. scan' = [scan EXCEPT ![s] = q] /\ r.pc = "parse"
    BY <1>2, <1>4, <2>1 DEF ParseFails, Change, At
  <2>3. q \in ScanRec
    BY <1>1, <1>2, <2>1 DEF ScanRec, Steps, Stages, Terminal
  <2>4. /\ q.pc = "restore" /\ q.id = r.id /\ q.paused = r.paused /\ q.pause = r.pause
        /\ q.queue = r.queue
    BY <1>1, <1>2, <2>1 DEF ScanRec
  <2>5. Moves(r, q)
    BY <1>1, <1>2, <2>2, <2>3, <2>4 DEF Moves, Sound, After, Piping, Running, Ended
  <2>. QED  BY <1>1, <1>2, <2>2, <2>5
<1>5. CASE Settle(s)
  <2>1. PICK q : q = [r EXCEPT !.stage = r.outcome, !.result = TRUE, !.pc = "restore"]
    OBVIOUS
  <2>2. scan' = [scan EXCEPT ![s] = q] /\ r.pc = "settle"
    BY <1>2, <1>5, <2>1 DEF Settle, Change, At
  <2>3. q \in ScanRec
    <3>1. r.outcome \in Stages
      BY <1>1, <1>2, <2>2 DEF ScanRec, Stages, Terminal, Sound
    <3>. QED  BY <1>1, <1>2, <2>1, <3>1 DEF ScanRec, Steps
  <2>4. /\ q.pc = "restore" /\ q.id = r.id /\ q.paused = r.paused /\ q.pause = r.pause
        /\ q.queue = r.queue
    BY <1>1, <1>2, <2>1 DEF ScanRec
  <2>5. Moves(r, q)
    BY <1>1, <1>2, <2>2, <2>3, <2>4 DEF Moves, Sound, After, Piping, Running, Ended
  <2>. QED  BY <1>1, <1>2, <2>2, <2>5
<1>6. CASE Finish(s)
  <2>1. PICK c : c = IF r.ctx = "live" THEN "canceled" ELSE r.ctx
    OBVIOUS
  <2>2. PICK to : to = IF r.result THEN "snapshot" ELSE "over"
    OBVIOUS
  <2>3. PICK q : q = [r EXCEPT !.ctx = c, !.pc = to]
    OBVIOUS
  <2>4. scan' = [scan EXCEPT ![s] = q] /\ r.pc = "finish"
    BY <1>1, <1>2, <1>6, <2>1, <2>2, <2>3 DEF Finish, Change, At, ScanRec
  <2>5. q \in ScanRec
    <3>1. c \in {"live", "canceled", "expired"} /\ to \in Steps
      BY <1>1, <1>2, <2>1, <2>2 DEF ScanRec, Steps
    <3>. QED  BY <1>1, <1>2, <2>3, <3>1 DEF ScanRec
  <2>6. /\ q.pc = to /\ q.id = r.id /\ q.paused = r.paused /\ q.pause = r.pause
        /\ q.queue = r.queue /\ q.result = r.result
    BY <1>1, <1>2, <2>3 DEF ScanRec
  <2>7. Moves(r, q)
    <3>1. r.result \in BOOLEAN
      BY <1>1, <1>2 DEF ScanRec
    <3>. QED  BY <1>1, <1>2, <2>2, <2>4, <2>5, <2>6, <3>1
                DEF Moves, Sound, After, Piping, Running, Ended
  <2>. QED  BY <1>1, <1>2, <2>4, <2>7
<1>7. CASE Timeout(s)
  <2>1. PICK q : q = [r EXCEPT !.ctx = "expired"]
    OBVIOUS
  <2>2. scan' = [scan EXCEPT ![s] = q]
    BY <1>2, <1>7, <2>1 DEF Timeout, Change
  <2>3. q \in ScanRec
    BY <1>1, <1>2, <2>1 DEF ScanRec
  <2>4. /\ q.pc = r.pc /\ q.id = r.id /\ q.paused = r.paused /\ q.pause = r.pause
        /\ q.queue = r.queue /\ q.stage = r.stage /\ q.result = r.result
        /\ q.outcome = r.outcome
    BY <1>1, <1>2, <2>1 DEF ScanRec
  <2>5. Moves(r, q)
    BY <1>1, <1>2, <2>3, <2>4 DEF Moves, Sound, Ended
  <2>. QED  BY <1>1, <1>2, <2>2, <2>5
<1>8. CASE DrainEnds(s)
  <2>1. PICK q : q = [r EXCEPT !.drain = FALSE]
    OBVIOUS
  <2>2. scan' = [scan EXCEPT ![s] = q]
    BY <1>2, <1>8, <2>1 DEF DrainEnds, Change
  <2>3. q \in ScanRec
    BY <1>1, <1>2, <2>1 DEF ScanRec
  <2>4. /\ q.pc = r.pc /\ q.id = r.id /\ q.paused = r.paused /\ q.pause = r.pause
        /\ q.queue = r.queue /\ q.stage = r.stage /\ q.result = r.result
        /\ q.outcome = r.outcome
    BY <1>1, <1>2, <2>1 DEF ScanRec
  <2>5. Moves(r, q)
    BY <1>1, <1>2, <2>3, <2>4 DEF Moves, Sound, Ended
  <2>. QED  BY <1>1, <1>2, <2>2, <2>5
<1>. QED  BY <1>3, <1>4, <1>5, <1>6, <1>7, <1>8

\* The stages that report.
LEMMA StageMoves ==
    ASSUME NEW s \in Scans, TypeInv, ScanInv,
           Parse(s) \/ Report(s) \/ Probed(s) \/ Deepened(s)
    PROVE  Moves(scan[s], scan'[s]) /\ scan' = [scan EXCEPT ![s] = scan'[s]]
<1>1. scan[s] \in ScanRec /\ Sound(scan[s]) /\ scan \in [Scans -> ScanRec]
  BY DEF TypeInv, ScanInv
<1>2. PICK r : r = scan[s]
  OBVIOUS
<1>3. /\ {"parse", "probe", "deep", "done"} \subseteq Stages
      /\ \A m \in {"parse", "probe", "deep"} : m \notin Terminal
  BY DEF Stages, Terminal
<1>4. ASSUME NEW to \in {"probe", "deep"}, r.pc \in Running,
             NEW p \in ScanRec, Sound(p), p.id = r.id, p.paused = r.paused, p.pause = r.pause,
             p.pc = r.pc,
             scan' = [scan EXCEPT ![s] =
                        IF scan[s].ctx = "live" THEN [p EXCEPT !.pc = to] ELSE Returns(p)]
      PROVE  Moves(scan[s], scan'[s]) /\ scan' = [scan EXCEPT ![s] = scan'[s]]
  <2>1. CASE scan[s].ctx = "live"
    <3>1. PICK q : q = [p EXCEPT !.pc = to]
      OBVIOUS
    <3>2. q \in ScanRec
      BY <1>4, <3>1 DEF ScanRec, Steps, Running
    <3>3. /\ q.pc = to /\ q.id = r.id /\ q.paused = r.paused /\ q.pause = r.pause
          /\ q.queue = p.queue /\ q.stage = p.stage
      BY <1>4, <3>1 DEF ScanRec
    <3>4. Moves(r, q)
      BY <1>4, <3>2, <3>3 DEF Moves, Sound, After, Piping, Running, Ended
    <3>5. scan' = [scan EXCEPT ![s] = q]
      BY <1>4, <2>1, <3>1
    <3>. QED  BY <1>1, <1>2, <3>4, <3>5
  <2>2. CASE scan[s].ctx # "live"
    <3>1. PICK q : q = Returns(p)
      OBVIOUS
    <3>2. scan' = [scan EXCEPT ![s] = q]
      BY <1>4, <2>2, <3>1
    <3>3. Moves(p, q)
      BY <1>4, <3>1, ReturnsMoves
    <3>4. Moves(r, q)
      <4>1. q.pc = "settle"
        BY <1>4, <3>1 DEF Returns, ScanRec
      <4>. QED  BY <1>4, <3>3, <4>1 DEF Moves, After, Piping, Running, Ended
    <3>. QED  BY <1>1, <1>2, <3>2, <3>4
  <2>. QED  BY <2>1, <2>2
\* A report of a stage that does not end anything.
<1>5. ASSUME NEW m \in {"parse", "probe", "deep"}, r.pc \in Running
      PROVE  /\ Sent(r, m) \in ScanRec /\ Sound(Sent(r, m))
             /\ Sent(r, m).id = r.id /\ Sent(r, m).paused = r.paused
             /\ Sent(r, m).pause = r.pause /\ Sent(r, m).pc = r.pc
             /\ Sent(r, m).sent = r.sent /\ NoEnd(Sent(r, m).queue)
  <2>1. NoEnd(r.queue) /\ r.stage \notin Terminal
    BY <1>1, <1>2, <1>5 DEF Sound, After, Running
  <2>2. PICK w : w = Sent(r, m).queue
    OBVIOUS
  <2>3. w \in Seq(Stages) /\ Len(w) <= ChanCap /\ Sent(r, m) = [r EXCEPT !.queue = w] /\ NoEnd(w)
    BY <1>1, <1>2, <1>3, <2>1, <2>2, SentKeeps
  <2>4. PICK q : q = [r EXCEPT !.queue = w]
    OBVIOUS
  <2>5. q \in ScanRec
    BY <1>1, <1>2, <2>3, <2>4 DEF ScanRec
  <2>6. /\ q.pc = r.pc /\ q.id = r.id /\ q.paused = r.paused /\ q.pause = r.pause
        /\ q.queue = w /\ q.stage = r.stage /\ q.sent = r.sent /\ q.outcome = r.outcome
    BY <1>1, <1>2, <2>4 DEF ScanRec
  <2>7. Sound(q)
    BY <1>5, <2>1, <2>3, <2>6 DEF Sound, Running
  <2>. QED  BY <2>3, <2>4, <2>5, <2>6, <2>7
<1>6. CASE Parse(s)
  <2>1. r.pc = "parse" /\ r.pc \in Running
    BY <1>2, <1>6 DEF Parse, At, Running
  <2>2. scan' = [scan EXCEPT ![s] = IF scan[s].ctx = "live"
                   THEN [Sent(r, "parse") EXCEPT !.pc = "probe"] ELSE Returns(Sent(r, "parse"))]
    BY <1>2, <1>6 DEF Parse, Change
  <2>3. PICK p : p = Sent(r, "parse")
    OBVIOUS
  <2>. QED  BY <1>4, <1>5, <2>1, <2>2, <2>3
<1>7. CASE Probed(s)
  <2>1. r.pc = "probe" /\ r.pc \in Running
    BY <1>2, <1>7 DEF Probed, At, Running
  <2>2. scan' = [scan EXCEPT ![s] = IF scan[s].ctx = "live"
                   THEN [r EXCEPT !.pc = "deep"] ELSE Returns(r)]
    BY <1>2, <1>7 DEF Probed, Change
  <2>. QED  BY <1>1, <1>2, <1>4, <2>1, <2>2
<1>8. CASE Report(s)
  <2>1. PICK m \in {"probe", "deep"} : /\ At(s, m) /\ scan[s].sent < Reports
                                       /\ Change(s, [Sent(scan[s], m) EXCEPT !.sent = @ + 1])
    BY <1>8 DEF Report
  <2>2. PICK w : w = Sent(r, m).queue
    OBVIOUS
  <2>3. r.pc \in Running /\ r.pc \notin After
    BY <1>2, <2>1 DEF At, Running, After
  <2>4. w \in Seq(Stages) /\ Len(w) <= ChanCap /\ Sent(r, m) = [r EXCEPT !.queue = w] /\ NoEnd(w)
    BY <1>1, <1>2, <1>3, <2>2, <2>3, SentKeeps DEF Sound
  <2>5. PICK k : k = r.sent + 1
    OBVIOUS
  <2>6. k \in 0..Reports
    BY <1>1, <1>2, <2>1, <2>5, ScanAssumption DEF ScanRec
  <2>7. PICK q : q = [r EXCEPT !.queue = w, !.sent = k]
    OBVIOUS
  <2>8. [Sent(r, m) EXCEPT !.sent = @ + 1] = q
    BY <1>1, <1>2, <2>4, <2>5, <2>7 DEF ScanRec
  <2>9. scan' = [scan EXCEPT ![s] = q]
    BY <1>2, <2>1, <2>8 DEF Change
  <2>10. Moves(r, q)
    BY <1>1, <1>2, <2>4, <2>6, <2>7, QueueMoves
  <2>. QED  BY <1>1, <1>2, <2>9, <2>10
<1>9. CASE Deepened(s)
  <2>1. r.pc = "deep"
    BY <1>2, <1>9 DEF Deepened, At
  <2>2. PICK w : w = Sent(r, "done").queue
    OBVIOUS
  <2>3. w \in Seq(Stages) /\ Len(w) <= ChanCap /\ Sent(r, "done") = [r EXCEPT !.queue = w]
    BY <1>1, <1>2, <1>3, <2>2, SentKeeps
  <2>4. PICK q : q = Returns(Sent(r, "done"))
    OBVIOUS
  <2>5. scan' = [scan EXCEPT ![s] = q]
    BY <1>2, <1>9, <2>4 DEF Deepened, Change
  <2>6. q = [r EXCEPT !.queue = w, !.pc = "settle", !.open = FALSE, !.outcome = Outcome(r.ctx)]
    BY <1>1, <1>2, <2>3, <2>4 DEF Returns, ScanRec
  <2>7. q \in ScanRec
    BY <1>1, <1>2, <2>3, <2>6, OutcomeType DEF ScanRec, Steps
  <2>8. /\ q.pc = "settle" /\ q.id = r.id /\ q.paused = r.paused /\ q.pause = r.pause
        /\ q.queue = w /\ q.outcome # "none"
    BY <1>1, <1>2, <2>6, OutcomeType DEF ScanRec
  <2>9. Moves(r, q)
    BY <1>1, <1>2, <2>1, <2>3, <2>7, <2>8 DEF Moves, Sound, After, Piping, Running, Ended
  <2>. QED  BY <1>1, <1>2, <2>5, <2>9
<1>. QED  BY <1>6, <1>7, <1>8, <1>9

\* The steps that only go on to the next one.
LEMMA GotoMoves ==
    ASSUME NEW s \in Scans, TypeInv, ScanInv, Restore(s) \/ Snapshot(s) \/ SnapshotFails(s)
    PROVE  Moves(scan[s], scan'[s]) /\ scan' = [scan EXCEPT ![s] = scan'[s]]
<1>1. scan[s] \in ScanRec /\ Sound(scan[s]) /\ scan \in [Scans -> ScanRec]
  BY DEF TypeInv, ScanInv
<1>2. PICK r : r = scan[s]
  OBVIOUS
<1>3. PICK to \in {"finish", "over"} :
        /\ scan' = [scan EXCEPT ![s] = [r EXCEPT !.pc = to]]
        /\ \/ to = "finish" /\ r.pc = "restore"
           \/ to = "over" /\ r.pc = "snapshot"
  BY <1>2 DEF Restore, Snapshot, SnapshotFails, Goto, Change, At
<1>4. PICK q : q = [r EXCEPT !.pc = to]
  OBVIOUS
<1>5. q \in ScanRec
  BY <1>1, <1>2, <1>4 DEF ScanRec, Steps
<1>6. /\ q.pc = to /\ q.id = r.id /\ q.paused = r.paused /\ q.pause = r.pause
      /\ q.queue = r.queue /\ q.stage = r.stage /\ q.result = r.result
  BY <1>1, <1>2, <1>4 DEF ScanRec
<1>7. Moves(r, q)
  BY <1>1, <1>2, <1>3, <1>5, <1>6 DEF Moves, Sound, After, Piping, Running, Ended
<1>. QED  BY <1>1, <1>2, <1>3, <1>4, <1>7

\* The reader hands on what the pipeline has reported.
LEMMA ApplyMoves ==
    ASSUME NEW s \in Scans, TypeInv, ScanInv, Apply(s)
    PROVE  Moves(scan[s], scan'[s]) /\ scan' = [scan EXCEPT ![s] = scan'[s]]
<1>1. scan[s] \in ScanRec /\ Sound(scan[s]) /\ scan \in [Scans -> ScanRec]
  BY DEF TypeInv, ScanInv
<1>2. PICK r : r = scan[s]
  OBVIOUS
<1>3. r.queue \in Seq(Stages) /\ r.queue # <<>>
  BY <1>1, <1>2 DEF ScanRec, Apply
<1>4. PICK v, w : v = Head(r.queue) /\ w = Tail(r.queue)
  OBVIOUS
<1>5. /\ v \in Stages /\ w \in Seq(Stages) /\ Len(w) = Len(r.queue) - 1
      /\ \A n \in 1..Len(w) : w[n] = r.queue[n + 1]
  BY <1>3, <1>4, HeadTailProperties
<1>6. Len(r.queue) \in Nat /\ Len(w) \in Nat /\ ChanCap \in Nat
  BY <1>3, <1>5, ScanAssumption, LenProperties
<1>7. ASSUME NoEnd(r.queue)
      PROVE  v \notin Terminal /\ NoEnd(w)
  <2>1. v = r.queue[1] /\ 1 \in 1..Len(r.queue)
    BY <1>3, <1>4, <1>5, <1>6
  <2>2. \A n \in 1..Len(w) : n + 1 \in 1..Len(r.queue)
    BY <1>5, <1>6
  <2>. QED  BY <1>5, <1>7, <2>1, <2>2 DEF NoEnd
<1>8. PICK q : q = [r EXCEPT !.stage = v, !.queue = w]
  OBVIOUS
<1>9. scan' = [scan EXCEPT ![s] = q]
  BY <1>2, <1>4, <1>8 DEF Apply, Change
<1>10. q \in ScanRec
  BY <1>1, <1>2, <1>5, <1>8 DEF ScanRec
<1>11. /\ q.pc = r.pc /\ q.id = r.id /\ q.paused = r.paused /\ q.pause = r.pause
       /\ q.queue = w /\ q.stage = v /\ q.result = r.result /\ q.outcome = r.outcome
  BY <1>1, <1>2, <1>8 DEF ScanRec
<1>12. Len(w) <= ChanCap
  BY <1>1, <1>2, <1>5, <1>6 DEF Sound
<1>13. Moves(r, q)
  BY <1>1, <1>2, <1>7, <1>10, <1>11, <1>12 DEF Moves, Sound, Ended
<1>. QED  BY <1>1, <1>2, <1>9, <1>13

\* All that the goroutines of a scan do.
Goroutine(s) == RunStep(s) \/ Timeout(s) \/ DrainStep(s)

LEMMA GoroutineMoves ==
    ASSUME NEW s \in Scans, TypeInv, ScanInv, Goroutine(s)
    PROVE  /\ Moves(scan[s], scan'[s]) /\ scan' = [scan EXCEPT ![s] = scan'[s]]
           /\ s <= started
           /\ UNCHANGED <<started, recent, current, handler>>
<1>1. Moves(scan[s], scan'[s]) /\ scan' = [scan EXCEPT ![s] = scan'[s]]
  BY FetchMoves, PlainMoves, StageMoves, GotoMoves, ApplyMoves
     DEF Goroutine, RunStep, DrainStep
<1>2. s <= started
  <2>1. s \in Nat /\ started \in Nat
    BY ScanAssumption DEF Scans, TypeInv
  <2>2. CASE DrainStep(s)
    BY <2>1, <2>2 DEF DrainStep, Apply, DrainEnds, ScanInv, NoScan, NewScan
  <2>3. CASE Timeout(s)
    BY <2>3 DEF Timeout
  <2>4. CASE RunStep(s)
    BY <2>4 DEF RunStep, Fetch, FetchFails, ParseFails, Parse, Report, Probed, Deepened,
                Settle, Restore, Finish, Snapshot, SnapshotFails, At
  <2>. QED  BY <2>2, <2>3, <2>4 DEF Goroutine
<1>3. UNCHANGED <<started, recent, current, handler>>
  BY DEF Goroutine, RunStep, Timeout, DrainStep, Fetch, FetchFails, ParseFails, Parse,
         Report, Probed, Deepened, Settle, Restore, Finish, Snapshot, SnapshotFails, Apply, DrainEnds
<1>. QED  BY <1>1, <1>2, <1>3

-----------------------------------------------------------------------------
(* The directory of snapshots.                                              *)

\* Taking a file out leaves the others, in their order.
LEMMA WithoutFile ==
    ASSUME NEW files \in Seq(Files), Sorted(files), NEW i \in Scans
    PROVE  LET rest == Without(files, i)
           IN  /\ rest \in Seq(Files) /\ Len(rest) \in {Len(files), Len(files) - 1}
               /\ Sorted(rest)
               /\ \A n \in 1..Len(rest) : \E m \in 1..Len(files) : rest[n] = files[m]
               /\ \A m \in 1..Len(files) : files[m].id # i =>
                     \E n \in 1..Len(rest) : rest[n] = files[m]
<1>. PICK rest : rest = Without(files, i)
  OBVIOUS
<1>0. Len(files) \in Nat /\ DOMAIN files = 1..Len(files)
  BY LenProperties
<1>1. CASE \A n \in 1..Len(files) : files[n].id # i
  <2>1. Without(files, i) = files
    BY <1>0, <1>1 DEF Without
  <2>. QED  BY <1>0, <2>1
<1>2. CASE \E n \in 1..Len(files) : files[n].id = i
  <2>1. PICK n \in 1..Len(files) :
          files[n].id = i /\ rest = SubSeq(files, 1, n - 1) \o SubSeq(files, n + 1, Len(files))
    <3>. DEFINE k == CHOOSE n \in DOMAIN files : files[n].id = i
    <3>1. k \in 1..Len(files) /\ files[k].id = i
      BY <1>0, <1>2
    <3>2. rest = SubSeq(files, 1, k - 1) \o SubSeq(files, k + 1, Len(files))
      BY <1>0, <1>2 DEF Without
    <3>. HIDE DEF k
    <3>. QED  BY <3>1, <3>2
  <2>2. PICK a, b : a = SubSeq(files, 1, n - 1) /\ b = SubSeq(files, n + 1, Len(files))
    OBVIOUS
  <2>3. PICK len \in Nat : len = Len(files)
    BY <1>0
  <2>4. n \in Nat /\ 1 <= n /\ n <= len
    BY <2>3
  <2>5. \A m \in 1..len : files[m] \in Files
    BY <2>3
  <2>6. /\ a \in Seq(Files) /\ Len(a) = n - 1
        /\ \A m \in 1..n - 1 : a[m] = files[m]
    <3>1. \A m \in 1..n - 1 : files[m] \in Files
      BY <2>4, <2>5
    <3>2. n - 1 \in Int /\ 1 \in Int
      BY <2>4
    <3>3. /\ a \in Seq(Files) /\ Len(a) = (IF 1 <= n - 1 THEN n - 1 - 1 + 1 ELSE 0)
          /\ \A m \in 1..n - 1 - 1 + 1 : a[m] = files[1 + m - 1]
      BY <2>2, <3>1, <3>2, SubSeqProperties
    <3>. QED  BY <2>4, <3>3
  <2>7. /\ b \in Seq(Files) /\ Len(b) = len - n
        /\ \A m \in 1..len - n : b[m] = files[n + m]
    <3>1. \A m \in n + 1..len : files[m] \in Files
      BY <2>4, <2>5
    <3>2. n + 1 \in Int /\ len \in Int
      BY <2>4
    <3>3. /\ b \in Seq(Files) /\ Len(b) = (IF n + 1 <= len THEN len - (n + 1) + 1 ELSE 0)
          /\ \A m \in 1..len - (n + 1) + 1 : b[m] = files[n + 1 + m - 1]
      BY <2>2, <2>3, <3>1, <3>2, SubSeqProperties
    <3>4. /\ len - (n + 1) + 1 = len - n /\ (n + 1 <= len \/ len - n = 0)
          /\ \A m \in 1..len - n : n + 1 + m - 1 = n + m
      BY <2>4
    <3>. QED  BY <3>3, <3>4
  <2>8. /\ rest \in Seq(Files) /\ Len(rest) = len - 1
        /\ \A m \in 1..len - 1 : rest[m] = IF m < n THEN files[m] ELSE files[m + 1]
    <3>1. a \in Seq(Files) /\ b \in Seq(Files) /\ rest = a \o b
      BY <2>1, <2>2, <2>6, <2>7
    <3>2. /\ rest \in Seq(Files) /\ Len(rest) = Len(a) + Len(b)
          /\ \A m \in 1..Len(a) + Len(b) : rest[m] = IF m <= Len(a) THEN a[m] ELSE b[m - Len(a)]
      BY <3>1, ConcatProperties, ZenonT(20)
    <3>3. Len(a) + Len(b) = len - 1
      BY <2>4, <2>6, <2>7
    <3>4. ASSUME NEW m \in 1..len - 1
          PROVE  rest[m] = IF m < n THEN files[m] ELSE files[m + 1]
      <4>1. CASE m < n
        <5>1. m <= Len(a) /\ m \in 1..n - 1 /\ m \in 1..Len(a) + Len(b)
          BY <2>4, <2>6, <3>3, <4>1
        <5>2. rest[m] = a[m]
          BY <3>2, <5>1
        <5>. QED  BY <2>6, <4>1, <5>1, <5>2
      <4>2. CASE ~(m < n)
        <5>1. /\ ~(m <= Len(a)) /\ m \in 1..Len(a) + Len(b) /\ m - Len(a) = m - (n - 1)
              /\ m - (n - 1) \in 1..len - n /\ n + (m - (n - 1)) = m + 1
          BY <2>4, <2>6, <3>3, <4>2
        <5>2. rest[m] = b[m - (n - 1)]
          BY <3>2, <5>1
        <5>. QED  BY <2>7, <4>2, <5>1, <5>2
      <4>. QED  BY <4>1, <4>2
    <3>. QED  BY <3>2, <3>3, <3>4
  <2>9. Sorted(rest)
    <3>. SUFFICES ASSUME NEW p \in 1..len - 1, NEW q \in 1..len - 1, p < q
                  PROVE  rest[p].at > rest[q].at
      BY <2>8 DEF Sorted
    <3>1. PICK x : x = IF p < n THEN p ELSE p + 1
      OBVIOUS
    <3>2. PICK y : y = IF q < n THEN q ELSE q + 1
      OBVIOUS
    <3>3. x \in 1..len /\ y \in 1..len /\ x < y
      BY <2>4, <3>1, <3>2
    <3>4. rest[p] = files[x] /\ rest[q] = files[y]
      BY <2>8, <3>1, <3>2
    <3>. QED  BY <2>3, <3>3, <3>4 DEF Sorted
  <2>10. \A p \in 1..len - 1 : \E m \in 1..len : rest[p] = files[m]
    <3>1. \A p \in 1..len - 1 : (IF p < n THEN p ELSE p + 1) \in 1..len
      BY <2>4
    <3>. QED  BY <2>8, <3>1
  <2>11. ASSUME NEW m \in 1..len, files[m].id # i
         PROVE  \E p \in 1..len - 1 : rest[p] = files[m]
    <3>1. m # n
      BY <2>1, <2>11
    <3>2. CASE m < n
      <4>1. m \in 1..len - 1
        BY <2>4, <3>2
      <4>. QED  BY <2>8, <3>2, <4>1
    <3>3. CASE m > n
      <4>1. m - 1 \in 1..len - 1 /\ ~(m - 1 < n) /\ m - 1 + 1 = m
        BY <2>4, <3>3
      <4>. QED  BY <2>8, <4>1
    <3>. QED  BY <2>4, <3>1, <3>2, <3>3
  <2>. QED  BY <2>3, <2>8, <2>9, <2>10, <2>11
<1>. QED  BY <1>0, <1>1, <1>2

Newest(f, files) == \A n \in 1..Len(files) : f.at > files[n].at

FirstOf(all, f, files) ==
    /\ all \in Seq(Files) /\ Len(all) >= Len(files) /\ Len(all) >= 1
    /\ Sorted(all) /\ all[1] = f
    /\ \A n \in 1..Len(all) :
          all[n] = f \/ \E m \in 1..Len(files) : all[n] = files[m]
    /\ \A m \in 1..Len(files) : files[m].id # f.id =>
          \E n \in 1..Len(all) : all[n] = files[m]

\* A file that is written comes first.
LEMMA FiledFirst ==
    ASSUME NEW files \in Seq(Files), Sorted(files), NEW f \in Files, Newest(f, files)
    PROVE  FirstOf(Filed(files, f), f, files)
<1>. PICK all : all = Filed(files, f)
  OBVIOUS
<1>. PICK rest : rest = Without(files, f.id)
  OBVIOUS
<1>0. f.id \in Scans
  BY DEF Files
<1>1. /\ rest \in Seq(Files) /\ Len(rest) \in {Len(files), Len(files) - 1} /\ Sorted(rest)
      /\ \A n \in 1..Len(rest) : \E m \in 1..Len(files) : rest[n] = files[m]
      /\ \A m \in 1..Len(files) : files[m].id # f.id =>
            \E n \in 1..Len(rest) : rest[n] = files[m]
  BY <1>0, WithoutFile
<1>2. PICK len \in Nat : len = Len(rest)
  BY <1>1, LenProperties
<1>3. /\ all \in Seq(Files) /\ Len(all) = len + 1 /\ all[1] = f
      /\ \A n \in 1..len : all[n + 1] = rest[n]
  <2>1. all = <<f>> \o rest
    BY DEF Filed
  <2>2. <<f>> \in Seq(Files) /\ Len(<<f>>) = 1 /\ <<f>>[1] = f
    OBVIOUS
  <2>3. /\ all \in Seq(Files) /\ Len(all) = 1 + len
        /\ \A n \in 1..1 + len : all[n] = IF n <= 1 THEN <<f>>[n] ELSE rest[n - 1]
    BY <1>1, <1>2, <2>1, <2>2, ConcatProperties
  <2>. QED  BY <2>2, <2>3
<1>4. \A n \in 1..len + 1 : n = 1 \/ (n - 1 \in 1..len /\ all[n] = rest[n - 1])
  <2>1. \A n \in 1..len + 1 : n = 1 \/ (n - 1 \in 1..len /\ n - 1 + 1 = n)
    OBVIOUS
  <2>. QED  BY <1>3, <2>1
<1>5. Sorted(all)
  <2>. SUFFICES ASSUME NEW p \in 1..len + 1, NEW q \in 1..len + 1, p < q
                PROVE  all[p].at > all[q].at
    BY <1>3 DEF Sorted
  <2>1. PICK y \in 1..len : y = q - 1 /\ all[q] = rest[y]
    BY <1>4
  <2>2. CASE p = 1
    <3>1. PICK m \in 1..Len(files) : rest[y] = files[m]
      BY <1>1, <1>2
    <3>. QED  BY <1>3, <2>1, <2>2, <3>1 DEF Newest
  <2>3. CASE p # 1
    <3>1. PICK x \in 1..len : x = p - 1 /\ all[p] = rest[x]
      BY <1>4, <2>3
    <3>2. x < y
      BY <2>1, <3>1
    <3>3. rest[x].at > rest[y].at
      BY <1>1, <1>2, <3>2 DEF Sorted
    <3>. QED  BY <2>1, <3>1, <3>3
  <2>. QED  BY <2>2, <2>3
<1>6. ASSUME NEW n \in 1..len + 1
      PROVE  all[n] = f \/ \E m \in 1..Len(files) : all[n] = files[m]
  <2>1. CASE n = 1
    BY <1>3, <2>1
  <2>2. CASE n # 1
    <3>1. PICK x \in 1..len : all[n] = rest[x]
      BY <1>4, <2>2
    <3>. QED  BY <1>1, <1>2, <3>1
  <2>. QED  BY <2>1, <2>2
<1>7. ASSUME NEW m \in 1..Len(files), files[m].id # f.id
      PROVE  \E n \in 1..len + 1 : all[n] = files[m]
  <2>1. PICK x \in 1..len : rest[x] = files[m]
    BY <1>1, <1>2, <1>7
  <2>2. x + 1 \in 1..len + 1
    OBVIOUS
  <2>. QED  BY <1>3, <2>1, <2>2
<1>8. Len(files) \in Nat /\ len + 1 >= Len(files) /\ len + 1 >= 1
  BY <1>1, <1>2, LenProperties
<1>. QED  BY <1>3, <1>5, <1>6, <1>7, <1>8 DEF FirstOf

\* What the rotation removes is older than all of the full directory it leaves.
LEMMA RotateKeeps ==
    ASSUME NEW files \in Seq(Files), Sorted(files), Len(files) >= 1
    PROVE  LET new == Rotate(files)
           IN  /\ new \in Seq(Files) /\ Len(new) <= ScansKeep /\ Len(new) >= 1
               /\ Sorted(new) /\ new[1] = files[1]
               /\ Len(files) >= ScansKeep => Len(new) >= ScansKeep
               /\ \A n \in 1..Len(new) : n \in 1..Len(files) /\ new[n] = files[n]
               /\ \A m \in 1..Len(files) :
                     \/ \E n \in 1..Len(new) : new[n] = files[m]
                     \/ /\ Len(new) >= ScansKeep
                        /\ \A n \in 1..Len(new) : new[n].at > files[m].at
<1>. PICK new : new = Rotate(files)
  OBVIOUS
<1>0. ScansKeep \in Nat \ {0}
  BY ScanAssumption
<1>1. PICK len \in Nat : len = Len(files)
  BY LenProperties
<1>2. CASE len <= ScansKeep
  <2>1. new = files
    BY <1>1, <1>2 DEF Rotate
  <2>. QED  BY <1>0, <1>1, <1>2, <2>1
<1>3. CASE ~(len <= ScansKeep)
  <2>1. /\ new \in Seq(Files) /\ Len(new) = ScansKeep
        /\ \A n \in 1..ScansKeep : new[n] = files[n]
    <3>1. new = SubSeq(files, 1, ScansKeep)
      BY <1>1, <1>3 DEF Rotate
    <3>2. \A n \in 1..ScansKeep : files[n] \in Files
      BY <1>0, <1>1, <1>3
    <3>3. /\ new \in Seq(Files) /\ Len(new) = (IF 1 <= ScansKeep THEN ScansKeep - 1 + 1 ELSE 0)
          /\ \A n \in 1..ScansKeep - 1 + 1 : new[n] = files[1 + n - 1]
      BY <1>0, <3>1, <3>2, SubSeqProperties
    <3>. QED  BY <1>0, <3>3
  <2>2. \A n \in 1..ScansKeep : n \in 1..len
    BY <1>0, <1>3
  <2>3. Sorted(new)
    BY <1>0, <1>1, <2>1, <2>2 DEF Sorted
  <2>4. ASSUME NEW m \in 1..len
        PROVE  \/ \E n \in 1..ScansKeep : new[n] = files[m]
               \/ \A n \in 1..ScansKeep : new[n].at > files[m].at
    <3>1. CASE m <= ScansKeep
      <4>1. m \in 1..ScansKeep
        BY <1>0, <3>1
      <4>. QED  BY <2>1, <4>1
    <3>2. CASE m > ScansKeep
      <4>1. \A n \in 1..ScansKeep : n < m
        BY <1>0, <3>2
      <4>. QED  BY <1>1, <2>1, <2>2, <4>1 DEF Sorted
    <3>. QED  BY <1>0, <3>1, <3>2
  <2>5. 1 \in 1..ScansKeep
    BY <1>0
  <2>. QED  BY <1>0, <1>1, <2>1, <2>2, <2>3, <2>4, <2>5
<1>. QED  BY <1>2, <1>3

-----------------------------------------------------------------------------
(* IInv is inductive.                                                       *)

LEMMA NewScanType ==
    ASSUME NEW i \in 0..MaxScans, NEW p \in BOOLEAN
    PROVE  /\ NewScan(i, p) \in ScanRec /\ Sound(NewScan(i, p))
           /\ NewScan(i, p).id = i /\ NewScan(i, p).pc = "none"
           /\ NewScan(i, p).result = FALSE
<1>0. ChanCap \in Nat /\ Reports \in Nat
  BY ScanAssumption
<1>1. PICK q : q = <<>>
  OBVIOUS
<1>2. q \in Seq(Stages) /\ Len(q) = 0
  BY <1>1
<1>3. PICK r : r = [id |-> i, stage |-> "starting", pc |-> "none", paused |-> FALSE,
                    ctx |-> "live", outcome |-> "none", result |-> FALSE, pause |-> p,
                    queue |-> q, open |-> FALSE, drain |-> FALSE, sent |-> 0]
  OBVIOUS
<1>4. NewScan(i, p) = r
  BY <1>1, <1>3 DEF NewScan
<1>5. r \in ScanRec
  BY <1>0, <1>2, <1>3 DEF ScanRec, Stages, Steps
<1>6. r.id = i /\ r.pc = "none" /\ r.result = FALSE /\ r.stage = "starting" /\ r.queue = q
  BY <1>3
<1>7. Sound(r)
  BY <1>0, <1>2, <1>6 DEF Sound, NoEnd, Terminal
<1>. QED  BY <1>4, <1>5, <1>6, <1>7

LEMMA InitInv == Init => IInv
<1>. SUFFICES ASSUME Init PROVE IInv
  OBVIOUS
<1>0. /\ MaxScans \in Nat \ {0} /\ MaxInMemory \in Nat \ {0} /\ ScansKeep \in Nat \ {0}
      /\ ChanCap \in Nat \ {0} /\ Reports \in Nat
  BY ScanAssumption
<1>1. NoScan \in ScanRec /\ Sound(NoScan)
  <2>1. PICK r : r = NewScan(None, FALSE)
    OBVIOUS
  <2>2. r \in ScanRec /\ Sound(r)
    <3>1. None \in 0..MaxScans /\ FALSE \in BOOLEAN
      BY <1>0 DEF None
    <3>2. NewScan(None, FALSE) \in ScanRec /\ Sound(NewScan(None, FALSE))
      BY <3>1, NewScanType, Zenon
    <3>. QED  BY <2>1, <3>2
  <2>3. PICK q : q = [r EXCEPT !.pc = "over"]
    OBVIOUS
  <2>4. q \in ScanRec /\ q.pc = "over" /\ q.queue = r.queue
    BY <2>2, <2>3 DEF ScanRec, Steps
  <2>5. Len(r.queue) <= ChanCap
    BY <2>2 DEF Sound
  <2>6. NoScan = q
    BY <2>1, <2>3 DEF NoScan
  <2>. QED  BY <2>4, <2>5, <2>6 DEF Sound, After
<1>2. TypeInv
  <2>1. Idle \in HandlerRec
    BY <1>0 DEF Idle, HandlerRec, None
  <2>2. snaps \in Seq(Files) /\ written \in [Scans -> [at : Nat, ok : BOOLEAN]]
    BY DEF Init
  <2>3. scan \in [Scans -> ScanRec]
    BY <1>1 DEF Init
  <2>4. handler \in [Handlers -> HandlerRec]
    BY <2>1 DEF Init
  <2>5. started \in 0..MaxScans /\ recent \in [Scans -> 0..MaxScans]
    BY <1>0 DEF Init, None
  <2>6. tunnel \in BOOLEAN /\ owed \in BOOLEAN
    BY DEF Init
  <2>. QED  BY <2>2, <2>3, <2>4, <2>5, <2>6 DEF TypeInv
<1>3. ScanInv
  BY <1>1 DEF Init, ScanInv
<1>4. RecentInv
  <2>1. InMemory(recent) = {}
    BY DEF Init, InMemory
  <2>2. Cardinality(InMemory(recent)) = 0
    BY <2>1, FS_EmptySet
  <2>. QED  BY <1>0, <2>2 DEF Init, RecentInv, None
<1>5. PendingInv
  BY DEF Init, PendingInv, Pending, Idle
<1>6. DirInv
  <2>1. Len(snaps) = 0 /\ Now = 1
    BY DEF Init, Now
  <2>2. Sorted(snaps)
    BY <2>1 DEF Sorted
  <2>. QED  BY <1>0, <2>1, <2>2 DEF Init, DirInv
<1>. QED  BY <1>2, <1>3, <1>4, <1>5, <1>6 DEF IInv

\* Only a scan that writes its snapshot touches the directory.
LEMMA DirKept ==
    ASSUME DirInv, UNCHANGED <<snaps, written>>
    PROVE  DirInv'
BY DEF DirInv, Now

\* What writing a snapshot does to the directory, whether it works or not.
LEMMA DirWrite ==
    ASSUME TypeInv, DirInv, ScanInv, NEW s \in Scans, s <= started,
           Snapshot(s) \/ SnapshotFails(s)
    PROVE  /\ snaps' \in Seq(Files) /\ written' \in [Scans -> [at : Nat, ok : BOOLEAN]]
           /\ DirInv'
           /\ \A t \in Scans : t # s => written'[t] = written[t]
           /\ written'[s].ok => \E n \in 1..Len(snaps') : snaps'[n].scan = s
           /\ \A n \in 1..Len(snaps') :
                 \/ \E m \in 1..Len(snaps) : snaps'[n] = snaps[m]
                 \/ /\ snaps'[n].at = Now /\ snaps'[n].id = scan[s].id
                    /\ snaps'[n].scan = None \/ (snaps'[n].scan = s /\ written'[s].at = Now)
           /\ Len(snaps) >= ScansKeep => Len(snaps') >= ScansKeep
           /\ \A m \in 1..Len(snaps) :
                 \/ \E n \in 1..Len(snaps') : snaps'[n] = snaps[m]
                 \/ snaps[m].id = scan[s].id /\ written'[s].at = Now
                 \/ /\ Len(snaps') >= ScansKeep
                    /\ \A n \in 1..Len(snaps') : snaps'[n].at > snaps[m].at
<1>0. /\ s \in 1..started /\ scan[s].id \in Scans /\ ScansKeep \in Nat \ {0} /\ MaxScans \in Nat
      /\ snaps \in Seq(Files) /\ written \in [Scans -> [at : Nat, ok : BOOLEAN]]
      /\ Sorted(snaps) /\ \A t \in Scans : written[t].at < Now
  <2>1. s \in 1..started /\ scan[s].id \in 1..s
    BY ScanAssumption DEF ScanInv, TypeInv, Scans
  <2>. QED  BY <2>1, ScanAssumption DEF TypeInv, DirInv, Scans
<1>1. PICK len \in Nat : len = Len(snaps)
  BY <1>0, LenProperties
<1>2. Now \in Nat \ {0} /\ \A n \in 1..len : Now > snaps[n].at
  <2>1. CASE snaps = <<>>
    <3>1. len = 0
      BY <1>1, <2>1
    <3>. QED  BY <2>1, <3>1 DEF Now
  <2>2. CASE snaps # <<>>
    <3>1. len >= 1 /\ 1 \in 1..len
      BY <1>0, <1>1, <2>2, EmptySeq
    <3>2. ASSUME NEW n \in 1..len
          PROVE  snaps[n].at \in Nat
      <4>1. PICK f : f = snaps[n]
        OBVIOUS
      <4>2. f \in Files
        BY <1>0, <1>1, <4>1
      <4>. QED  BY <4>1, <4>2 DEF Files
    <3>3. \A n \in 1..len : n = 1 \/ snaps[1].at > snaps[n].at
      BY <1>0, <1>1, <3>1 DEF Sorted
    <3>4. Now = snaps[1].at + 1
      BY <2>2 DEF Now
    <3>. QED  BY <3>1, <3>2, <3>3, <3>4
  <2>. QED  BY <2>1, <2>2
<1>3. PICK time \in Nat \ {0} : time = Now
  BY <1>2
<1>4. ASSUME NEW f \in Files, f.id = scan[s].id, f.at = time,
             NEW all, all = Filed(snaps, f)
      PROVE  /\ all \in Seq(Files) /\ Len(all) >= len /\ Len(all) >= 1
             /\ Sorted(all) /\ all[1] = f
             /\ \A n \in 1..Len(all) : all[n] = f \/ \E m \in 1..len : all[n] = snaps[m]
             /\ \A m \in 1..len : snaps[m].id # f.id => \E n \in 1..Len(all) : all[n] = snaps[m]
  <2>1. \A n \in 1..Len(snaps) : f.at > snaps[n].at
    BY <1>1, <1>2, <1>3, <1>4
  <2>2. snaps \in Seq(Files) /\ Sorted(snaps) /\ Newest(f, snaps)
    BY <1>0, <2>1 DEF Newest
  <2>3. FirstOf(Filed(snaps, f), f, snaps)
    BY <2>2, FiledFirst
  <2>. QED  BY <1>1, <1>4, <2>3 DEF FirstOf
<1>5. ASSUME NEW w \in [at : Nat, ok : BOOLEAN], w.at \in {0, time},
             written' = [written EXCEPT ![s] = w]
      PROVE  /\ written' \in [Scans -> [at : Nat, ok : BOOLEAN]]
             /\ \A t \in Scans : t # s => written'[t] = written[t]
             /\ written'[s] = w
             /\ \A t \in Scans : written'[t].at <= time
  BY <1>0, <1>3, <1>5
<1>6. CASE Snapshot(s)
  <2>1. PICK f : f = [id |-> scan[s].id, scan |-> s, at |-> time]
    OBVIOUS
  <2>2. f \in Files /\ f.id = scan[s].id /\ f.scan = s /\ f.at = time
    BY <1>0, <1>3, <2>1 DEF Files, Scans
  <2>3. PICK all : all = Filed(snaps, f)
    OBVIOUS
  <2>4. /\ all \in Seq(Files) /\ Len(all) >= len /\ Len(all) >= 1
        /\ Sorted(all) /\ all[1] = f
        /\ \A n \in 1..Len(all) : all[n] = f \/ \E m \in 1..len : all[n] = snaps[m]
        /\ \A m \in 1..len : snaps[m].id # f.id => \E n \in 1..Len(all) : all[n] = snaps[m]
    BY <1>4, <2>2, <2>3
  <2>5. PICK new : new = snaps'
    OBVIOUS
  <2>6. new = Rotate(all)
    BY <1>3, <1>6, <2>1, <2>3, <2>5 DEF Snapshot
  <2>7. /\ new \in Seq(Files) /\ Len(new) <= ScansKeep /\ Len(new) >= 1
        /\ Sorted(new) /\ new[1] = f
        /\ Len(all) >= ScansKeep => Len(new) >= ScansKeep
        /\ \A n \in 1..Len(new) : n \in 1..Len(all) /\ new[n] = all[n]
        /\ \A m \in 1..Len(all) :
              \/ \E n \in 1..Len(new) : new[n] = all[m]
              \/ /\ Len(new) >= ScansKeep
                 /\ \A n \in 1..Len(new) : new[n].at > all[m].at
    BY <2>4, <2>6, RotateKeeps
  <2>8. PICK k \in Nat : k = Len(new) /\ k >= 1 /\ k <= ScansKeep
    BY <2>7, LenProperties
  <2>9. PICK w : w = [at |-> time, ok |-> TRUE]
    OBVIOUS
  <2>10. w \in [at : Nat, ok : BOOLEAN] /\ w.at = time /\ w.ok
    BY <2>9
  <2>11. written' = [written EXCEPT ![s] = w]
    BY <1>3, <1>6, <2>9 DEF Snapshot, Wrote
  <2>12. /\ written' \in [Scans -> [at : Nat, ok : BOOLEAN]]
         /\ \A t \in Scans : t # s => written'[t] = written[t]
         /\ written'[s] = w
         /\ \A t \in Scans : written'[t].at <= time
    BY <1>5, <2>10, <2>11
  <2>13. Now' = time + 1
    BY <2>2, <2>5, <2>7, <2>8 DEF Now
  <2>14. DirInv'
    <3>1. \A t \in Scans : written'[t].at < time + 1
      BY <2>12
    <3>. QED  BY <2>5, <2>7, <2>13, <3>1 DEF DirInv
  <2>15. \A n \in 1..k : new[n] = f \/ \E m \in 1..len : new[n] = snaps[m]
    BY <2>4, <2>7, <2>8
  <2>16. ASSUME NEW m \in 1..len, snaps[m].id # scan[s].id
         PROVE  \/ \E n \in 1..k : new[n] = snaps[m]
                \/ k >= ScansKeep /\ \A n \in 1..k : new[n].at > snaps[m].at
    <3>1. PICK x \in 1..Len(all) : all[x] = snaps[m]
      BY <2>2, <2>4, <2>16
    <3>. QED  BY <2>7, <2>8, <3>1
  <2>17. len >= ScansKeep => k >= ScansKeep
    <3>1. Len(all) \in Nat
      BY <2>4, LenProperties
    <3>. QED  BY <1>0, <2>4, <2>7, <2>8, <3>1
  <2>18. 1 \in 1..k /\ new[1].scan = s
    BY <2>2, <2>7, <2>8
  <2>. QED  BY <1>1, <1>3, <2>2, <2>5, <2>7, <2>8, <2>10, <2>12, <2>14, <2>15, <2>16, <2>17, <2>18
<1>7. CASE SnapshotFails(s)
  <2>1. CASE snaps' = snaps /\ Wrote(s, 0, FALSE)
    <3>1. PICK w : w = [at |-> 0, ok |-> FALSE]
      OBVIOUS
    <3>2. w \in [at : Nat, ok : BOOLEAN] /\ w.at = 0 /\ ~w.ok
      BY <3>1
    <3>3. written' = [written EXCEPT ![s] = w]
      BY <2>1, <3>1 DEF Wrote
    <3>4. /\ written' \in [Scans -> [at : Nat, ok : BOOLEAN]]
          /\ \A t \in Scans : t # s => written'[t] = written[t]
          /\ written'[s] = w
      BY <1>5, <3>2, <3>3
    <3>5. Now' = time /\ \A t \in Scans : written'[t].at < time
      BY <1>0, <1>3, <2>1, <3>2, <3>4 DEF Now
    <3>6. DirInv'
      BY <1>0, <2>1, <3>2, <3>4, <3>5 DEF DirInv
    <3>. QED  BY <1>0, <2>1, <3>2, <3>4, <3>6
  <2>2. CASE /\ snaps' = Filed(snaps, [id |-> scan[s].id, scan |-> None, at |-> Now])
             /\ Wrote(s, Now, FALSE)
    <3>1. PICK f : f = [id |-> scan[s].id, scan |-> None, at |-> time]
      OBVIOUS
    <3>2. f \in Files /\ f.id = scan[s].id /\ f.scan = None /\ f.at = time
      BY <1>0, <1>3, <3>1 DEF Files, None
    <3>3. PICK new : new = snaps'
      OBVIOUS
    <3>4. new = Filed(snaps, f)
      BY <1>3, <2>2, <3>1, <3>3
    <3>5. /\ new \in Seq(Files) /\ Len(new) >= len /\ Len(new) >= 1
          /\ Sorted(new) /\ new[1] = f
          /\ \A n \in 1..Len(new) : new[n] = f \/ \E m \in 1..len : new[n] = snaps[m]
          /\ \A m \in 1..len : snaps[m].id # f.id => \E n \in 1..Len(new) : new[n] = snaps[m]
      BY <1>4, <3>2, <3>4
    <3>6. PICK w : w = [at |-> time, ok |-> FALSE]
      OBVIOUS
    <3>7. w \in [at : Nat, ok : BOOLEAN] /\ w.at = time /\ ~w.ok
      BY <3>6
    <3>8. written' = [written EXCEPT ![s] = w]
      BY <1>3, <2>2, <3>6 DEF Wrote
    <3>9. /\ written' \in [Scans -> [at : Nat, ok : BOOLEAN]]
          /\ \A t \in Scans : t # s => written'[t] = written[t]
          /\ written'[s] = w
          /\ \A t \in Scans : written'[t].at <= time
      BY <1>5, <3>7, <3>8
    <3>10. PICK k \in Nat : k = Len(new) /\ k >= 1 /\ k >= len
      BY <3>5, LenProperties
    <3>11. Now' = time + 1
      BY <3>2, <3>3, <3>5, <3>10 DEF Now
    <3>12. DirInv'
      <4>1. \A t \in Scans : written'[t].at < time + 1
        BY <3>9
      <4>. QED  BY <3>3, <3>5, <3>7, <3>9, <3>11, <4>1 DEF DirInv
    <3>13. len >= ScansKeep => k >= ScansKeep
      BY <1>0, <3>10
    <3>. QED  BY <1>1, <1>3, <3>2, <3>3, <3>5, <3>7, <3>9, <3>10, <3>12, <3>13
  <2>. QED  BY <1>7, <2>1, <2>2 DEF SnapshotFails
<1>. QED  BY <1>6, <1>7

\* A step of one scan's goroutines leaves the registry and the requests alone.
LEMMA MovedInv ==
    ASSUME IInv, NEW s \in Scans, s <= started,
           Moves(scan[s], scan'[s]), scan' = [scan EXCEPT ![s] = scan'[s]],
           UNCHANGED <<started, recent, current, handler>>,
           snaps' \in Seq(Files), written' \in [Scans -> [at : Nat, ok : BOOLEAN]], DirInv',
           tunnel' \in BOOLEAN, owed' \in BOOLEAN
    PROVE  IInv'
<1>1. \A t \in Scans : t # s => scan'[t] = scan[t]
  BY DEF IInv, TypeInv
<1>2. scan'[s] \in ScanRec /\ Sound(scan'[s]) /\ scan'[s].id = scan[s].id
      /\ (scan[s].pc = "none" => scan'[s].pc = "none")
  BY DEF Moves
<1>3. started \in Nat /\ started <= MaxScans /\ MaxScans \in Nat /\ s \in Nat
  BY ScanAssumption DEF IInv, TypeInv, Scans
<1>4. TypeInv'
  <2>1. scan' \in [Scans -> ScanRec]
    BY <1>2 DEF IInv, TypeInv
  <2>. QED  BY <2>1 DEF IInv, TypeInv
<1>5. ScanInv'
  <2>1. 1..started \subseteq Scans
    BY <1>3 DEF Scans
  <2>2. \A t \in Scans : Sound(scan'[t])
    BY <1>1, <1>2 DEF IInv, ScanInv
  <2>3. \A t \in 1..started : scan'[t].id \in 1..t
    BY <1>1, <1>2, <2>1 DEF IInv, ScanInv
  <2>4. \A t \in Scans : t > started => scan'[t] = NoScan
    BY <1>1, <1>3 DEF IInv, ScanInv, Scans
  <2>. QED  BY <2>2, <2>3, <2>4 DEF ScanInv
<1>6. RecentInv'
  <2>1. \A t \in Scans : scan'[t].id = scan[t].id
    BY <1>1, <1>2
  <2>2. \A i \in Scans : recent[i] # None => recent[i] \in Scans
    BY DEF IInv, TypeInv, None, Scans
  <2>3. current # None => current \in Scans
    BY <1>3 DEF IInv, RecentInv, None, Scans
  <2>. QED  BY <2>1, <2>2, <2>3 DEF IInv, RecentInv, InMemory
<1>7. PendingInv'
  <2>1. \A h \in Handlers : Pending(h) => handler[h].scan \in Scans
    BY <1>3 DEF IInv, PendingInv, Scans
  <2>2. \A t \in Scans : scan[t].pc = "none" => scan'[t].pc = "none"
    BY <1>1, <1>2
  <2>. QED  BY <2>1, <2>2 DEF IInv, PendingInv, Pending
<1>. QED  BY <1>4, <1>5, <1>6, <1>7 DEF IInv

LEMMA GoroutineInv ==
    ASSUME IInv, NEW s \in Scans, Goroutine(s)
    PROVE  IInv'
<1>1. /\ Moves(scan[s], scan'[s]) /\ scan' = [scan EXCEPT ![s] = scan'[s]]
      /\ s <= started
      /\ UNCHANGED <<started, recent, current, handler>>
  BY GoroutineMoves DEF IInv
<1>2. /\ snaps \in Seq(Files) /\ written \in [Scans -> [at : Nat, ok : BOOLEAN]]
      /\ tunnel \in BOOLEAN /\ owed \in BOOLEAN
  BY DEF IInv, TypeInv
<1>3. snaps' \in Seq(Files) /\ written' \in [Scans -> [at : Nat, ok : BOOLEAN]] /\ DirInv'
  <2>1. CASE Snapshot(s) \/ SnapshotFails(s)
    BY <1>1, <2>1, DirWrite DEF IInv
  <2>2. CASE ~(Snapshot(s) \/ SnapshotFails(s))
    <3>1. UNCHANGED <<snaps, written>>
      BY <2>2 DEF Goroutine, RunStep, Timeout, DrainStep, Fetch, FetchFails, ParseFails, Parse,
         Report, Probed, Deepened, Settle, Restore, Finish, Apply, DrainEnds
    <3>. QED  BY <1>2, <3>1, DirKept DEF IInv
  <2>. QED  BY <2>1, <2>2
<1>4. tunnel' \in BOOLEAN /\ owed' \in BOOLEAN
  <2>1. CASE Restore(s)
    BY <1>2, <2>1 DEF Restore, Starts
  <2>2. CASE ~Restore(s)
    <3>1. tunnel' = tunnel /\ owed' = owed
      BY <2>2 DEF Goroutine, RunStep, Timeout, DrainStep, Fetch, FetchFails, ParseFails, Parse,
         Report, Probed, Deepened, Settle, Snapshot, SnapshotFails, Finish, Apply, DrainEnds
    <3>. QED  BY <1>2, <3>1
  <2>. QED  BY <2>1, <2>2
<1>. QED  BY <1>1, <1>3, <1>4, MovedInv

\* The steps of a request, of the user, and a cancellation.
LEMMA CheckInv ==
    ASSUME IInv, NEW h \in Handlers, Check(h) \/ NoSource(h)
    PROVE  IInv'
<1>1. UNCHANGED <<started, scan, recent, current, snaps, written, tunnel, owed>>
  BY DEF Check, NoSource
<1>2. PICK r \in HandlerRec : handler' = [handler EXCEPT ![h] = r] /\ r.pc \in {"idle", "put"}
  <2>1. CASE Check(h)
    <3>1. PICK p \in SkipActive :
            handler' = [handler EXCEPT ![h] = [pc |-> "put", scan |-> None, pause |-> p]]
      BY <2>1 DEF Check
    <3>2. p \in BOOLEAN /\ MaxScans \in Nat
      BY ScanAssumption
    <3>3. PICK r : r = [pc |-> "put", scan |-> None, pause |-> p]
      OBVIOUS
    <3>4. r \in HandlerRec /\ r.pc = "put"
      BY <3>2, <3>3 DEF HandlerRec, None
    <3>. QED  BY <3>1, <3>3, <3>4
  <2>2. CASE NoSource(h)
    <3>1. PICK r : r = Idle
      OBVIOUS
    <3>2. r \in HandlerRec /\ r.pc = "idle"
      BY <3>1, ScanAssumption DEF Idle, HandlerRec, None
    <3>. QED  BY <2>2, <3>1, <3>2 DEF NoSource
  <2>. QED  BY <2>1, <2>2
<1>3. handler' \in [Handlers -> HandlerRec] /\ ~Pending(h)'
      /\ \A g \in Handlers : g # h => handler'[g] = handler[g]
  BY <1>2 DEF IInv, TypeInv, Pending
<1>4. TypeInv'
  BY <1>1, <1>3 DEF IInv, TypeInv
<1>5. ScanInv'
  BY <1>1 DEF IInv, ScanInv
<1>6. RecentInv'
  BY <1>1 DEF IInv, RecentInv, InMemory
<1>7. PendingInv'
  BY <1>1, <1>3 DEF IInv, PendingInv, Pending
<1>8. DirInv'
  BY <1>1, DirKept DEF IInv
<1>. QED  BY <1>4, <1>5, <1>6, <1>7, <1>8 DEF IInv

LEMMA PutInv ==
    ASSUME IInv, NEW h \in Handlers, Put(h)
    PROVE  IInv'
<1>0. /\ MaxScans \in Nat /\ MaxInMemory \in Nat /\ started \in Nat /\ started < MaxScans
      /\ handler[h] \in HandlerRec /\ scan \in [Scans -> ScanRec]
      /\ recent \in [Scans -> 0..MaxScans] /\ handler \in [Handlers -> HandlerRec]
  BY ScanAssumption DEF IInv, TypeInv, Put
<1>1. PICK s : s = started + 1
  OBVIOUS
<1>2. s \in Scans /\ s \in Nat /\ s # started /\ 1..s \subseteq Scans /\ s # None
      /\ \A t \in 1..s : t \in 1..started \/ t = s
  BY <1>0, <1>1 DEF Scans, None
<1>3. PICK i \in {LastId + 1} \cup (IF SameSecond /\ started > 0 THEN {LastId} ELSE {}) :
         /\ scan' = [scan EXCEPT ![s] = NewScan(i, handler[h].pause)]
         /\ recent' = Evict([recent EXCEPT ![i] = s], s)
         /\ current' = s
         /\ started' = s
         /\ handler' = [handler EXCEPT ![h].scan = s,
                                       ![h].pc = IF handler[h].pause THEN "pause" ELSE "go"]
  BY <1>1 DEF Put, Change
<1>4. i \in 1..s
  <2>1. CASE started = 0
    BY <1>0, <1>1, <1>3, <2>1 DEF LastId, None
  <2>2. CASE started # 0
    <3>1. scan[started].id \in 1..started
      BY <1>0, <2>2 DEF IInv, ScanInv
    <3>2. LastId \in 1..started
      BY <2>2, <3>1 DEF LastId
    <3>. QED  BY <1>0, <1>1, <1>3, <3>2
  <2>. QED  BY <2>1, <2>2
<1>5. i \in Scans /\ i \in 0..MaxScans /\ handler[h].pause \in BOOLEAN
  BY <1>0, <1>2, <1>4 DEF HandlerRec, Scans
<1>6. PICK new : new = NewScan(i, handler[h].pause)
  OBVIOUS
<1>7. new \in ScanRec /\ Sound(new) /\ new.id = i /\ new.pc = "none"
  BY <1>5, <1>6, NewScanType
<1>8. scan' \in [Scans -> ScanRec] /\ scan'[s] = new /\ \A t \in Scans : t # s => scan'[t] = scan[t]
  BY <1>0, <1>2, <1>3, <1>6, <1>7
<1>9. PICK r : r = [recent EXCEPT ![i] = s]
  OBVIOUS
<1>10. /\ r \in [Scans -> 0..MaxScans] /\ r[i] = s
       /\ \A j \in Scans : j # i => r[j] = recent[j]
  BY <1>0, <1>2, <1>5, <1>9 DEF Scans
<1>11. \A j \in Scans : r[j] = s => j = i
  <2>1. \A j \in Scans : recent[j] # s
    BY <1>0, <1>1, <1>2 DEF IInv, RecentInv, None
  <2>. QED  BY <1>10, <2>1
<1>12. Cardinality(InMemory(r)) <= MaxInMemory + 1
  <2>1. InMemory(r) = InMemory(recent) \cup {i}
    BY <1>2, <1>5, <1>10 DEF InMemory
  <2>2. IsFiniteSet(InMemory(recent)) /\ Cardinality(InMemory(recent)) \in Nat
    <3>1. IsFiniteSet(Scans)
      BY <1>0, FS_Interval DEF Scans
    <3>2. InMemory(recent) \in SUBSET Scans
      BY DEF InMemory
    <3>. QED  BY <3>1, <3>2, FS_Subset, FS_CardinalityType
  <2>3. Cardinality(InMemory(recent) \cup {i}) \in
          {Cardinality(InMemory(recent)), Cardinality(InMemory(recent)) + 1}
    BY <2>2, FS_AddElement
  <2>. QED  BY <1>0, <2>1, <2>2, <2>3 DEF IInv, RecentInv
<1>13. /\ recent' \in [Scans -> 0..MaxScans]
       /\ recent'[i] = s
       /\ \A j \in Scans : recent'[j] \in {r[j], None}
       /\ Cardinality(InMemory(recent')) <= MaxInMemory
  <2>1. recent' = Evict(r, s)
    BY <1>3, <1>9
  <2>. QED  BY <1>2, <1>5, <1>10, <1>11, <1>12, <2>1, EvictOldest
<1>14. /\ handler' \in [Handlers -> HandlerRec]
       /\ handler'[h].scan = s
       /\ \A g \in Handlers : g # h => handler'[g] = handler[g]
  <2>1. PICK to \in {"pause", "go"} :
          handler' = [handler EXCEPT ![h].scan = s, ![h].pc = to]
    BY <1>3
  <2>2. PICK q : q = [handler[h] EXCEPT !.scan = s, !.pc = to]
    OBVIOUS
  <2>3. q \in HandlerRec /\ q.scan = s
    <3>1. PICK u \in HandlerRec : u = handler[h]
      BY <1>0
    <3>2. s \in 0..MaxScans
      BY <1>0, <1>2 DEF Scans
    <3>. QED  BY <2>2, <3>1, <3>2 DEF HandlerRec
  <2>4. handler' = [handler EXCEPT ![h] = q]
    BY <1>0, <2>1, <2>2
  <2>. QED  BY <1>0, <2>3, <2>4
<1>15. TypeInv'
  <2>1. UNCHANGED <<snaps, written, tunnel, owed>>
    BY DEF Put
  <2>2. started' \in 0..MaxScans
    BY <1>2, <1>3 DEF Scans
  <2>. QED  BY <1>8, <1>13, <1>14, <2>1, <2>2 DEF IInv, TypeInv
<1>16. ScanInv'
  <2>1. \A t \in Scans : Sound(scan'[t])
    BY <1>7, <1>8 DEF IInv, ScanInv
  <2>2. \A t \in 1..s : scan'[t].id \in 1..t
    BY <1>2, <1>4, <1>7, <1>8 DEF IInv, ScanInv
  <2>3. \A t \in Scans : t > s => scan'[t] = NoScan
    BY <1>0, <1>1, <1>2, <1>8 DEF IInv, ScanInv, Scans
  <2>. QED  BY <1>3, <2>1, <2>2, <2>3 DEF ScanInv
<1>17. RecentInv'
  <2>1. current' # None => recent'[scan'[current'].id] = current'
    BY <1>3, <1>7, <1>8, <1>13
  <2>2. ASSUME NEW j \in Scans, recent'[j] # None
        PROVE  recent'[j] \in 1..s /\ scan'[recent'[j]].id = j
    <3>1. CASE j = i
      BY <1>0, <1>1, <1>7, <1>8, <1>13, <3>1
    <3>2. CASE j # i
      <4>1. recent'[j] = recent[j]
        BY <1>10, <1>13, <2>2, <3>2
      <4>2. recent[j] \in 1..started /\ scan[recent[j]].id = j
        BY <2>2, <4>1 DEF IInv, RecentInv
      <4>3. recent[j] \in Scans /\ recent[j] # s /\ recent[j] \in 1..s
        BY <1>0, <1>1, <4>2 DEF Scans
      <4>. QED  BY <1>8, <4>1, <4>2, <4>3
    <3>. QED  BY <3>1, <3>2
  <2>. QED  BY <1>3, <1>13, <2>1, <2>2 DEF RecentInv
<1>18. PendingInv'
  <2>1. scan'[s].pc = "none" /\ s \in 1..s
    BY <1>0, <1>1, <1>7, <1>8
  <2>2. \A g \in Handlers : g # h /\ Pending(g)' =>
          /\ handler'[g].scan = handler[g].scan /\ handler[g].scan \in 1..s
          /\ handler[g].scan # s /\ scan'[handler[g].scan].pc = "none"
    <3>1. ASSUME NEW g \in Handlers, g # h, Pending(g)'
          PROVE  handler[g].scan \in 1..started /\ scan[handler[g].scan].pc = "none"
      BY <1>14, <3>1 DEF IInv, PendingInv, Pending
    <3>2. \A t \in 1..started : t \in Scans /\ t # s /\ t \in 1..s
      BY <1>0, <1>1 DEF Scans
    <3>. QED  BY <1>8, <1>14, <3>1, <3>2
  <2>3. \A g \in Handlers : Pending(g)' =>
          handler'[g].scan \in 1..s /\ scan'[handler'[g].scan].pc = "none"
    BY <1>14, <2>1, <2>2
  <2>4. \A g, k \in Handlers : Pending(g)' /\ Pending(k)' /\ g # k =>
          handler'[g].scan # handler'[k].scan
    <3>1. \A g, k \in Handlers : g # h /\ k # h /\ Pending(g)' /\ Pending(k)' /\ g # k =>
            handler'[g].scan # handler'[k].scan
      BY <1>14 DEF IInv, PendingInv, Pending
    <3>. QED  BY <1>14, <2>2, <3>1
  <2>. QED  BY <1>3, <2>3, <2>4 DEF PendingInv
<1>19. DirInv'
  BY DirKept DEF IInv, Put
<1>. QED  BY <1>15, <1>16, <1>17, <1>18, <1>19 DEF IInv

LEMMA PauseInv ==
    ASSUME IInv, NEW h \in Handlers, Pause(h)
    PROVE  /\ IInv' /\ UNCHANGED started
           /\ handler[h].scan \in 1..started /\ scan'[handler[h].scan].paused
           /\ scan'[handler[h].scan].pc = "none"
           /\ \A s \in Scans : /\ scan'[s].pc = scan[s].pc /\ scan'[s].id = scan[s].id
                               /\ (scan[s].paused => scan'[s].paused)
                               /\ scan'[s].result = scan[s].result
<1>1. PICK s : s = handler[h].scan
  OBVIOUS
<1>2. Pending(h) /\ UNCHANGED <<started, recent, current, snaps, written>>
  BY DEF Pause, Pending
<1>3. s \in 1..started /\ scan[s].pc = "none" /\ s \in Scans /\ s <= started
  <2>1. s \in 1..started /\ scan[s].pc = "none"
    BY <1>1, <1>2 DEF IInv, PendingInv
  <2>. QED  BY <2>1, ScanAssumption DEF IInv, TypeInv, Scans
<1>4. PICK r : r = scan[s]
  OBVIOUS
<1>5. PICK q : q = [r EXCEPT !.paused = TRUE]
  OBVIOUS
<1>6. scan \in [Scans -> ScanRec] /\ r \in ScanRec /\ Sound(r)
  BY <1>3, <1>4 DEF IInv, TypeInv, ScanInv
<1>7. scan' = [scan EXCEPT ![s] = q]
  BY <1>1, <1>3, <1>4, <1>5, <1>6 DEF Pause
<1>8. /\ q \in ScanRec /\ q.paused = TRUE /\ q.pc = r.pc /\ q.id = r.id /\ q.queue = r.queue
      /\ q.stage = r.stage /\ q.result = r.result /\ q.outcome = r.outcome
  BY <1>5, <1>6 DEF ScanRec
<1>9. scan' \in [Scans -> ScanRec] /\ scan'[s] = q /\ \A t \in Scans : t # s => scan'[t] = scan[t]
  BY <1>3, <1>6, <1>7, <1>8
<1>10. /\ handler' \in [Handlers -> HandlerRec]
       /\ \A g \in Handlers : handler'[g].scan = handler[g].scan /\ (Pending(g)' => Pending(g))
  <2>1. PICK u \in HandlerRec : u = handler[h]
    BY DEF IInv, TypeInv
  <2>2. PICK v : v = [u EXCEPT !.pc = "go"]
    OBVIOUS
  <2>3. v \in HandlerRec /\ v.scan = u.scan
    BY <2>2 DEF HandlerRec
  <2>4. handler' = [handler EXCEPT ![h] = v] /\ handler \in [Handlers -> HandlerRec]
    BY <2>1, <2>2 DEF Pause, IInv, TypeInv
  <2>. QED  BY <1>2, <2>1, <2>3, <2>4 DEF Pending
<1>11. TypeInv'
  <2>1. tunnel' \in BOOLEAN /\ owed' \in BOOLEAN
    BY DEF Pause, Stops, IInv, TypeInv
  <2>. QED  BY <1>2, <1>9, <1>10, <2>1 DEF IInv, TypeInv
<1>12. ScanInv'
  <2>1. \A t \in Scans : Sound(scan'[t])
    BY <1>4, <1>6, <1>8, <1>9 DEF IInv, ScanInv, Sound
  <2>2. \A t \in Scans : scan'[t].id = scan[t].id
    BY <1>4, <1>8, <1>9
  <2>3. 1..started \subseteq Scans
    BY ScanAssumption DEF IInv, TypeInv, Scans
  <2>4. \A t \in Scans : t > started => scan'[t] = NoScan
    BY <1>3, <1>9 DEF IInv, ScanInv, TypeInv, Scans
  <2>. QED  BY <1>2, <2>1, <2>2, <2>3, <2>4 DEF IInv, ScanInv
<1>13. RecentInv'
  <2>1. \A t \in Scans : scan'[t].id = scan[t].id
    BY <1>4, <1>8, <1>9
  <2>2. \A i \in Scans : recent[i] # None => recent[i] \in Scans
    BY DEF IInv, TypeInv, None, Scans
  <2>3. current # None => current \in Scans
    BY ScanAssumption DEF IInv, TypeInv, RecentInv, None, Scans
  <2>. QED  BY <1>2, <2>1, <2>2, <2>3 DEF IInv, RecentInv, InMemory
<1>14. PendingInv'
  <2>1. \A g \in Handlers : Pending(g) => handler[g].scan \in Scans
    BY ScanAssumption DEF IInv, PendingInv, Scans, TypeInv
  <2>2. \A t \in Scans : scan[t].pc = "none" => scan'[t].pc = "none"
    BY <1>4, <1>8, <1>9
  <2>. QED  BY <1>2, <1>10, <2>1, <2>2 DEF IInv, PendingInv
<1>15. IInv'
  BY <1>2, <1>11, <1>12, <1>13, <1>14, DirKept DEF IInv
<1>. QED  BY <1>1, <1>2, <1>3, <1>4, <1>8, <1>9, <1>15

LEMMA GoInv ==
    ASSUME IInv, NEW h \in Handlers, Go(h)
    PROVE  /\ IInv'
           /\ UNCHANGED <<started, recent, current, snaps, written, tunnel, owed>>
           /\ handler[h].scan \in 1..started /\ scan'[handler[h].scan].pc = "fetch"
           /\ \A s \in Scans : /\ s # handler[h].scan => scan'[s] = scan[s]
                               /\ scan'[s].paused = scan[s].paused /\ scan'[s].id = scan[s].id
                               /\ scan'[s].result = scan[s].result
<1>1. PICK s : s = handler[h].scan
  OBVIOUS
<1>2. Pending(h) /\ UNCHANGED <<started, recent, current, snaps, written, tunnel, owed>>
  BY DEF Go, Pending
<1>3. s \in 1..started /\ scan[s].pc = "none" /\ s \in Scans /\ s <= started
  <2>1. s \in 1..started /\ scan[s].pc = "none"
    BY <1>1, <1>2 DEF IInv, PendingInv
  <2>. QED  BY <2>1, ScanAssumption DEF IInv, TypeInv, Scans
<1>4. PICK r : r = scan[s]
  OBVIOUS
<1>5. PICK q : q = [r EXCEPT !.pc = "fetch", !.stage = "fetch"]
  OBVIOUS
<1>6. scan \in [Scans -> ScanRec] /\ r \in ScanRec /\ Sound(r)
  BY <1>3, <1>4 DEF IInv, TypeInv, ScanInv
<1>7. scan' = [scan EXCEPT ![s] = q]
  BY <1>1, <1>3, <1>4, <1>5, <1>6 DEF Go
<1>8. /\ q.pc = "fetch" /\ q.paused = r.paused /\ q.id = r.id /\ q.queue = r.queue
      /\ q.stage = "fetch" /\ q.result = r.result /\ q.outcome = r.outcome
  BY <1>5, <1>6 DEF ScanRec
<1>9. q \in ScanRec
  BY <1>5, <1>6 DEF ScanRec, Steps, Stages
<1>10. Sound(q)
  BY <1>3, <1>4, <1>6, <1>8 DEF Sound, After, Terminal
<1>11. scan' \in [Scans -> ScanRec] /\ scan'[s] = q /\ \A t \in Scans : t # s => scan'[t] = scan[t]
  BY <1>3, <1>6, <1>7, <1>9
<1>12. /\ handler' \in [Handlers -> HandlerRec] /\ ~Pending(h)'
       /\ \A g \in Handlers : g # h => handler'[g] = handler[g]
  <2>1. PICK u : u = Idle
    OBVIOUS
  <2>2. u \in HandlerRec /\ u.pc = "idle"
    BY <2>1, ScanAssumption DEF Idle, HandlerRec, None
  <2>3. handler' = [handler EXCEPT ![h] = u] /\ handler \in [Handlers -> HandlerRec]
    BY <2>1 DEF Go, IInv, TypeInv
  <2>. QED  BY <2>2, <2>3 DEF Pending
<1>13. TypeInv'
  BY <1>2, <1>11, <1>12 DEF IInv, TypeInv
<1>14. ScanInv'
  <2>1. \A t \in Scans : Sound(scan'[t])
    BY <1>10, <1>11 DEF IInv, ScanInv
  <2>2. \A t \in Scans : scan'[t].id = scan[t].id
    BY <1>4, <1>8, <1>11
  <2>3. 1..started \subseteq Scans
    BY ScanAssumption DEF IInv, TypeInv, Scans
  <2>4. \A t \in Scans : t > started => scan'[t] = NoScan
    BY <1>3, <1>11 DEF IInv, ScanInv, TypeInv, Scans
  <2>. QED  BY <1>2, <2>1, <2>2, <2>3, <2>4 DEF IInv, ScanInv
<1>15. RecentInv'
  <2>1. \A t \in Scans : scan'[t].id = scan[t].id
    BY <1>4, <1>8, <1>11
  <2>2. \A i \in Scans : recent[i] # None => recent[i] \in Scans
    BY DEF IInv, TypeInv, None, Scans
  <2>3. current # None => current \in Scans
    BY ScanAssumption DEF IInv, TypeInv, RecentInv, None, Scans
  <2>. QED  BY <1>2, <2>1, <2>2, <2>3 DEF IInv, RecentInv, InMemory
<1>16. PendingInv'
  <2>1. \A g \in Handlers : Pending(g)' => /\ Pending(g) /\ g # h /\ handler'[g] = handler[g]
                                           /\ handler[g].scan # s
    BY <1>1, <1>2, <1>12 DEF IInv, PendingInv, Pending
  <2>2. \A g \in Handlers : Pending(g) => handler[g].scan \in Scans
    BY ScanAssumption DEF IInv, PendingInv, Scans, TypeInv
  <2>. QED  BY <1>2, <1>11, <2>1, <2>2 DEF IInv, PendingInv
<1>17. IInv'
  BY <1>2, <1>13, <1>14, <1>15, <1>16, DirKept DEF IInv
<1>. QED  BY <1>1, <1>2, <1>3, <1>4, <1>8, <1>11, <1>17

\* A scan in the registry is cancelled.
LEMMA CancelMoves ==
    ASSUME IInv, NEW i \in Scans, Cancel(i)
    PROVE  /\ recent[i] \in Scans /\ recent[i] <= started
           /\ Moves(scan[recent[i]], scan'[recent[i]])
           /\ scan' = [scan EXCEPT ![recent[i]] = scan'[recent[i]]]
           /\ scan'[recent[i]].pc = scan[recent[i]].pc
           /\ scan'[recent[i]].result = scan[recent[i]].result
           /\ UNCHANGED <<started, recent, current, handler, snaps, written, tunnel, owed>>
<1>1. PICK s : s = recent[i]
  OBVIOUS
<1>2. s \in Scans /\ s <= started
  BY <1>1, ScanAssumption DEF Cancel, IInv, RecentInv, TypeInv, Scans, None
<1>3. PICK r : r = scan[s]
  OBVIOUS
<1>4. PICK q : q = [r EXCEPT !.ctx = "canceled"]
  OBVIOUS
<1>5. scan \in [Scans -> ScanRec] /\ r \in ScanRec /\ Sound(r)
  BY <1>2, <1>3 DEF IInv, TypeInv, ScanInv
<1>6. scan' = [scan EXCEPT ![s] = q]
  BY <1>1, <1>2, <1>3, <1>4, <1>5 DEF Cancel
<1>7. /\ q \in ScanRec /\ q.pc = r.pc /\ q.id = r.id /\ q.paused = r.paused
      /\ q.pause = r.pause /\ q.queue = r.queue /\ q.stage = r.stage /\ q.result = r.result
      /\ q.outcome = r.outcome
  BY <1>4, <1>5 DEF ScanRec
<1>8. Moves(r, q)
  BY <1>5, <1>7 DEF Moves, Sound, Ended
<1>. QED  BY <1>1, <1>2, <1>3, <1>5, <1>6, <1>7, <1>8 DEF Cancel

LEMMA NextInv == IInv /\ [Next]_vars => IInv'
<1>. SUFFICES ASSUME IInv, [Next]_vars PROVE IInv'
  OBVIOUS
<1>1. CASE UNCHANGED vars
  BY <1>1, DirKept DEF IInv, TypeInv, ScanInv, RecentInv, PendingInv, Pending, InMemory, vars
<1>2. ASSUME NEW h \in Handlers, Check(h) \/ NoSource(h) \/ StartStep(h)
      PROVE  IInv'
  BY <1>2, CheckInv, PutInv, PauseInv, GoInv DEF StartStep
<1>3. ASSUME NEW i \in Scans, Cancel(i)
      PROVE  IInv'
  BY <1>3, CancelMoves, MovedInv, DirKept DEF IInv, TypeInv
<1>4. ASSUME NEW s \in Scans, Goroutine(s)
      PROVE  IInv'
  BY <1>4, GoroutineInv
<1>5. CASE UserSwitch
  <2>1. UNCHANGED <<started, scan, recent, current, handler, snaps, written>>
    BY <1>5 DEF UserSwitch
  <2>2. tunnel' \in BOOLEAN /\ owed' \in BOOLEAN
    BY <1>5, ScanAssumption DEF UserSwitch
  <2>. QED  BY <2>1, <2>2, DirKept
            DEF IInv, TypeInv, ScanInv, RecentInv, PendingInv, Pending, InMemory
<1>. QED  BY <1>1, <1>2, <1>3, <1>4, <1>5 DEF Next, Goroutine

\* The invariant holds in every run (http/scan.go), whatever is started, cancelled or evicted.
THEOREM InvAlways == Spec => []IInv
<1>. QED  BY InitInv, NextInv, PTL DEF Spec

-----------------------------------------------------------------------------
\* In every run each variable has its type: no channel, registry or directory
\* holds more than it should, and every request and scan is at a step of the code.
THEOREM TypeCorrect == Spec => []TypeOK
<1>1. IInv => TypeOK
  <2>. SUFFICES ASSUME IInv PROVE TypeOK
    OBVIOUS
  <2>0. started \in Nat /\ scan \in [Scans -> ScanRec]
    BY DEF IInv, TypeInv
  <2>1. \A s \in Scans :
         /\ scan[s].id \in 0..MaxScans /\ scan[s].stage \in Stages
         /\ scan[s].pc \in Steps /\ scan[s].ctx \in {"live", "canceled", "expired"}
         /\ scan[s].sent \in 0..Reports
    BY <2>0 DEF ScanRec
  <2>2. \A s \in Scans : Len(scan[s].queue) <= ChanCap
    BY DEF IInv, ScanInv, Sound
  <2>3. current \in 0..started
    BY <2>0 DEF IInv, RecentInv
  <2>4. \A n \in DOMAIN snaps : snaps[n] \in Files
    BY DEF IInv, TypeInv
  <2>. QED  BY <2>1, <2>2, <2>3, <2>4 DEF IInv, TypeInv, DirInv, TypeOK, HandlerRec
<1>. QED  BY <1>1, InvAlways, PTL

\* However many requests come at a time, the registry never holds more scans than
\* maxInMemoryScans, no progress channel more reports than its capacity, and the
\* scan /api/scan/status shows is always in the registry: put has not evicted it.
THEOREM AlwaysBounded == Spec => []Bounded
<1>1. IInv => Bounded
  BY DEF IInv, RecentInv, ScanInv, Sound, Bounded
<1>. QED  BY <1>1, InvAlways, PTL

-----------------------------------------------------------------------------
(* One start request at a time.                                             *)

\* Only the last scan may still be before or in its pipeline, and a request that
\* is about to enter another one has seen that this one is past it.
LastOnly ==
    /\ \A s \in 1..started : s # current => scan[s].pc \in After
    /\ \A h \in Handlers : handler[h].pc = "put" /\ current # None => scan[current].pc \in After

\* Goroutines never bring a scan back into its pipeline.
LEMMA GoroutineLast ==
    ASSUME IInv, LastOnly, NEW s \in Scans, Moves(scan[s], scan'[s]),
           scan' = [scan EXCEPT ![s] = scan'[s]],
           UNCHANGED <<started, recent, current, handler>>
    PROVE  LastOnly'
<1>1. \A t \in Scans : scan[t].pc \in After => scan'[t].pc \in After
  BY DEF Moves, IInv, TypeInv
<1>2. 1..started \subseteq Scans /\ (current # None => current \in Scans)
  BY ScanAssumption DEF IInv, TypeInv, RecentInv, Scans, None
<1>. QED  BY <1>1, <1>2 DEF LastOnly

LEMMA LastNext ==
    ASSUME \A g, h \in Handlers : g = h, IInv, LastOnly, [Next]_vars
    PROVE  LastOnly'
<1>0. 1..started \subseteq Scans /\ (current # None => current \in Scans)
  BY ScanAssumption DEF IInv, TypeInv, RecentInv, Scans, None
<1>1. CASE UNCHANGED vars
  BY <1>1 DEF LastOnly, vars
<1>2. ASSUME NEW h \in Handlers, Check(h)
      PROVE  LastOnly'
  <2>1. current # None => scan[current].pc \in After
    BY <1>0, <1>2 DEF Check, Busy, IInv, ScanInv, Sound
  <2>2. UNCHANGED <<started, scan, current>>
    BY <1>2 DEF Check
  <2>. QED  BY <2>1, <2>2 DEF LastOnly
<1>3. ASSUME NEW h \in Handlers, NoSource(h)
      PROVE  LastOnly'
  <2>1. UNCHANGED <<started, scan, current>> /\ handler'[h].pc # "put"
    BY <1>3 DEF NoSource, Idle, IInv, TypeInv
  <2>. QED  BY <1>3, <2>1 DEF LastOnly
<1>4. ASSUME NEW h \in Handlers, Put(h)
      PROVE  LastOnly'
  <2>1. current' = started + 1 /\ started' = started + 1 /\ started \in Nat
    BY <1>4 DEF Put, IInv, TypeInv
  <2>2. \A t \in Scans : t # started + 1 => scan'[t] = scan[t]
    BY <1>4 DEF Put, Change, IInv, TypeInv
  <2>3. current = started /\ handler[h].pc = "put"
    BY <1>4 DEF Put, IInv, RecentInv
  <2>4. \A t \in 1..started : scan[t].pc \in After
    BY <2>1, <2>3 DEF LastOnly, None
  <2>5. \A t \in 1..started + 1 : t # started + 1 => t \in 1..started
    BY <2>1
  <2>6. handler'[h].pc # "put"
    <3>1. PICK to \in {"pause", "go"}, s \in Nat :
             handler' = [handler EXCEPT ![h].scan = s, ![h].pc = to]
      <4>1. PICK s \in Nat : s = started + 1
        BY <2>1
      <4>2. PICK to \in {"pause", "go"} : to = IF handler[h].pause THEN "pause" ELSE "go"
        OBVIOUS
      <4>3. handler' = [handler EXCEPT ![h].scan = s, ![h].pc = to]
        BY <1>4, <4>1, <4>2 DEF Put
      <4>. QED  BY <4>3
    <3>2. handler \in [Handlers -> HandlerRec]
      BY DEF IInv, TypeInv
    <3>3. PICK q : q = [handler[h] EXCEPT !.scan = s, !.pc = to]
      OBVIOUS
    <3>4. q.pc = to
      <4>1. PICK u \in HandlerRec : u = handler[h]
        BY <3>2
      <4>. QED  BY <3>3, <4>1 DEF HandlerRec
    <3>. QED  BY <3>1, <3>2, <3>3, <3>4
  <2>7. \A t \in 1..started : scan'[t].pc \in After
    BY <1>0, <2>1, <2>2, <2>4
  <2>. QED  BY <1>4, <2>1, <2>5, <2>6, <2>7 DEF LastOnly
<1>5. ASSUME NEW h \in Handlers, Pause(h)
      PROVE  LastOnly'
  <2>1. UNCHANGED <<started, current>> /\ handler'[h].pc # "put"
    <3>1. PICK u \in HandlerRec : u = handler[h]
      BY DEF IInv, TypeInv
    <3>. QED  BY <1>5, <3>1 DEF Pause, IInv, TypeInv, HandlerRec
  <2>2. \A t \in Scans : scan'[t].pc = scan[t].pc
    BY <1>5, PauseInv
  <2>. QED  BY <1>0, <1>5, <2>1, <2>2 DEF LastOnly
<1>6. ASSUME NEW h \in Handlers, Go(h)
      PROVE  LastOnly'
  <2>1. UNCHANGED <<started, current>> /\ handler'[h].pc # "put"
    BY <1>6 DEF Go, Idle, IInv, TypeInv
  <2>2. handler[h].scan \in 1..started /\ scan[handler[h].scan].pc = "none"
    BY <1>6 DEF Go, IInv, PendingInv, Pending
  <2>3. handler[h].scan = current
    BY <2>2 DEF LastOnly, After
  <2>4. \A t \in Scans : t # current => scan'[t] = scan[t]
    BY <1>6, <2>3, GoInv
  <2>. QED  BY <1>0, <1>6, <2>1, <2>4 DEF LastOnly
<1>7. ASSUME NEW i \in Scans, Cancel(i)
      PROVE  LastOnly'
  BY <1>7, CancelMoves, GoroutineLast
<1>8. ASSUME NEW s \in Scans, Goroutine(s)
      PROVE  LastOnly'
  BY <1>8, GoroutineMoves, GoroutineLast DEF IInv
<1>9. CASE UserSwitch
  BY <1>9 DEF UserSwitch, LastOnly
<1>. QED  BY <1>1, <1>2, <1>3, <1>4, <1>5, <1>6, <1>7, <1>8, <1>9 DEF Next, StartStep, Goroutine

LEMMA LastAlways ==
    ASSUME \A g, h \in Handlers : g = h
    PROVE  Spec => []LastOnly
<1>1. Init => LastOnly
  BY DEF Init, LastOnly, Idle, None
<1>2. IInv /\ LastOnly /\ [Next]_vars => LastOnly'
  BY LastNext
<1>. QED  BY <1>1, <1>2, InvAlways, PTL DEF Spec

\* The scans in their pipelines are none but the current one.
LEMMA PipelineCurrent ==
    ASSUME IInv, LastOnly, NEW s \in Pipelines
    PROVE  s = current /\ s # None
<1>1. s \in Scans /\ scan[s].pc \in Piping
  BY DEF Pipelines, Piping
<1>2. s <= started
  <2>1. NoScan.pc = "over"
    BY DEF NoScan, NewScan
  <2>2. scan[s] # NoScan
    BY <1>1, <2>1 DEF Piping, Running
  <2>3. s \in Nat /\ started \in Nat
    BY <1>1, ScanAssumption DEF IInv, TypeInv, Scans
  <2>. QED  BY <1>1, <2>2, <2>3 DEF IInv, ScanInv
<1>3. s \in 1..started
  BY <1>1, <1>2 DEF Scans, IInv, TypeInv
<1>. QED  BY <1>1, <1>3 DEF LastOnly, After, Piping, Running, None, Scans

\* "Refuse concurrent scans": if start requests come one at a time, never do two
\* scans fetch and probe, however progress reports lag behind the pipelines,
\* whatever is cancelled, times out or fails, and whatever ids they share.
THEOREM OnePipelineAtATime ==
    ASSUME \A g, h \in Handlers : g = h
    PROVE  Spec => []OnePipeline
<1>1. IInv /\ LastOnly => OnePipeline
  <2>. SUFFICES ASSUME IInv, LastOnly PROVE OnePipeline
    OBVIOUS
  <2>1. Pipelines \in SUBSET {current}
    BY PipelineCurrent
  <2>2. IsFiniteSet({current}) /\ Cardinality({current}) = 1
    BY FS_Singleton
  <2>. QED  BY <2>1, <2>2, FS_Subset, FS_CardinalityType DEF OnePipeline
<1>. QED  BY <1>1, InvAlways, LastAlways, PTL

\* And then the scan that probes is always found under its id, so that it can be
\* polled and cancelled: put never evicts it, and no scan takes its id from it.
THEOREM AlwaysFindable ==
    ASSUME \A g, h \in Handlers : g = h
    PROVE  Spec => []Findable
<1>1. IInv /\ LastOnly => Findable
  BY PipelineCurrent DEF Findable, IInv, RecentInv
<1>. QED  BY <1>1, InvAlways, LastAlways, PTL

-----------------------------------------------------------------------------
(* The pause.                                                               *)

\* A tunnel that is owed has a scan that noted the pause and has not restored yet.
OwedInv == owed => \E s \in 1..started : scan[s].paused /\ scan[s].pc \notin Ended

LEMMA OwedNext == IInv /\ OwedInv /\ [Next]_vars => OwedInv'
<1>. SUFFICES ASSUME IInv, OwedInv, [Next]_vars PROVE OwedInv'
  OBVIOUS
<1>0. 1..started \subseteq Scans /\ started \in Nat
  BY ScanAssumption DEF IInv, TypeInv, Scans
<1>1. CASE UNCHANGED vars
  BY <1>1 DEF OwedInv, vars
<1>2. ASSUME NEW h \in Handlers, Check(h) \/ NoSource(h)
      PROVE  OwedInv'
  BY <1>2 DEF Check, NoSource, OwedInv
<1>3. ASSUME NEW h \in Handlers, Put(h)
      PROVE  OwedInv'
  <2>1. started' = started + 1 /\ owed' = owed
    BY <1>3 DEF Put
  <2>2. \A t \in Scans : t # started + 1 => scan'[t] = scan[t]
    BY <1>3 DEF Put, Change, IInv, TypeInv
  <2>3. \A t \in 1..started : t \in 1..started' /\ scan'[t] = scan[t]
    BY <1>0, <2>1, <2>2
  <2>. QED  BY <2>1, <2>3 DEF OwedInv
<1>4. ASSUME NEW h \in Handlers, Pause(h)
      PROVE  OwedInv'
  BY <1>4, PauseInv DEF OwedInv, Ended
<1>5. ASSUME NEW h \in Handlers, Go(h)
      PROVE  OwedInv'
  <2>1. \A s \in Scans : scan'[s].paused = scan[s].paused
                         /\ (scan[s].pc \notin Ended => scan'[s].pc \notin Ended)
    BY <1>5, GoInv DEF Ended
  <2>2. UNCHANGED <<started, owed>>
    BY <1>5, GoInv
  <2>. QED  BY <1>0, <2>1, <2>2 DEF OwedInv
<1>6. ASSUME NEW i \in Scans, Cancel(i)
      PROVE  OwedInv'
  <2>1. \A s \in Scans : scan'[s].paused = scan[s].paused /\ scan'[s].pc = scan[s].pc
    <3>1. PICK t \in Scans : t = recent[i] /\ scan' = [scan EXCEPT ![t] = scan'[t]]
                            /\ Moves(scan[t], scan'[t]) /\ scan'[t].pc = scan[t].pc
      BY <1>6, CancelMoves
    <3>2. scan'[t].paused = scan[t].paused
      BY <3>1 DEF Moves
    <3>3. \A s \in Scans : s # t => scan'[s] = scan[s]
      BY <3>1 DEF IInv, TypeInv
    <3>. QED  BY <3>1, <3>2, <3>3
  <2>2. UNCHANGED <<started, owed>>
    BY <1>6, CancelMoves
  <2>. QED  BY <1>0, <2>1, <2>2 DEF OwedInv
<1>7. ASSUME NEW s \in Scans, Goroutine(s)
      PROVE  OwedInv'
  <2>1. /\ Moves(scan[s], scan'[s]) /\ UNCHANGED started
        /\ \A t \in Scans : t # s => scan'[t] = scan[t]
    BY <1>7, GoroutineMoves DEF IInv, TypeInv
  <2>2. CASE Restore(s)
    <3>1. scan[s].paused => owed' = FALSE
      BY <2>2 DEF Restore, Starts
    <3>2. ~scan[s].paused => owed' = owed
      BY <2>2 DEF Restore
    <3>. QED  BY <1>0, <2>1, <3>1, <3>2 DEF OwedInv
  <2>3. CASE ~Restore(s)
    <3>1. owed' = owed
      BY <1>7, <2>3 DEF Goroutine, RunStep, Timeout, DrainStep, Fetch, FetchFails, ParseFails,
         Parse, Report, Probed, Deepened, Settle, Snapshot, SnapshotFails, Finish, Apply, DrainEnds
    <3>2. scan[s].pc \notin Ended => scan'[s].pc \notin Ended
      <4>1. ASSUME scan[s].pc \notin Ended, scan'[s].pc \in Ended
            PROVE  FALSE
        <5>1. scan[s].pc = "restore"
          BY <2>1, <4>1 DEF Moves
        <5>2. scan'[s].pc = "restore"
          <6>1. CASE RunStep(s)
            BY <2>3, <5>1, <6>1 DEF RunStep, Fetch, FetchFails, ParseFails, Parse, Report,
               Probed, Deepened, Settle, Finish, Snapshot, SnapshotFails, At
          <6>2. CASE Timeout(s)
            BY <5>1, <6>2 DEF Timeout, Running
          <6>3. CASE DrainStep(s)
            <7>1. PICK r \in ScanRec : r = scan[s]
              BY DEF IInv, TypeInv
            <7>2. scan'[s] \in {[r EXCEPT !.stage = Head(r.queue), !.queue = Tail(@)],
                                [r EXCEPT !.drain = FALSE]}
              BY <6>3, <7>1 DEF DrainStep, Apply, DrainEnds, Change, IInv, TypeInv
            <7>. QED  BY <5>1, <7>1, <7>2 DEF ScanRec
          <6>. QED  BY <1>7, <6>1, <6>2, <6>3 DEF Goroutine
        <5>. QED  BY <4>1, <5>2 DEF Ended
      <4>. QED  BY <4>1
    <3>3. scan'[s].paused = scan[s].paused
      BY <2>1 DEF Moves
    <3>. QED  BY <1>0, <2>1, <3>1, <3>2, <3>3 DEF OwedInv
  <2>. QED  BY <2>2, <2>3
<1>8. CASE UserSwitch
  BY <1>8 DEF UserSwitch, OwedInv
<1>. QED  BY <1>1, <1>2, <1>3, <1>4, <1>5, <1>6, <1>7, <1>8 DEF Next, StartStep, Goroutine

\* However many requests come at a time, and however their scans end (in full, by
\* a cancellation, by the hard timeout, for want of a source), when all is over the
\* tunnel that a scan stopped has been started again: the deferred function of the
\* scan that stopped it comes after its stop.
THEOREM PauseAlwaysEnds == Spec => []PauseEnds
<1>1. IInv /\ OwedInv => PauseEnds
  BY ScanAssumption DEF OwedInv, PauseEnds, Ended, IInv, TypeInv, Scans
<1>2. Init => OwedInv
  BY DEF Init, OwedInv
<1>. QED  BY <1>1, <1>2, InvAlways, OwedNext, PTL DEF Spec

-----------------------------------------------------------------------------
(* Results.                                                                 *)

\* A file with a result is the one its scan wrote.
FilesInv == \A n \in 1..Len(snaps) : snaps[n].scan # None =>
    /\ snaps[n].scan \in 1..started /\ scan[snaps[n].scan].pc = "over"
    /\ scan[snaps[n].scan].id = snaps[n].id
    /\ written[snaps[n].scan].at = snaps[n].at

Unwritten == \A s \in Scans : written[s].at = 0 \/ (s <= started /\ scan[s].pc = "over")

KeptInv == \A s \in 1..started :
    scan[s].pc = "over" /\ scan[s].result /\ written[s].ok =>
        OnDisk(s) \/ Replaced(s) \/ Rotated(s)

ResultInv == FilesInv /\ Unwritten /\ KeptInv

\* A step that writes nothing, starts nothing and lets no result come to its end.
LEMMA QuietKeeps ==
    ASSUME IInv, ResultInv, UNCHANGED <<started, snaps, written>>,
           \A s \in Scans : /\ scan'[s].id = scan[s].id
                            /\ scan[s].pc = "over" => scan'[s].pc = "over"
                            /\ scan'[s].pc = "over" /\ scan'[s].result =>
                                  scan[s].pc = "over" /\ scan[s].result
    PROVE  ResultInv'
<1>0. 1..started \subseteq Scans
  BY ScanAssumption DEF IInv, TypeInv, Scans
<1>1. FilesInv'
  BY <1>0 DEF ResultInv, FilesInv
<1>2. Unwritten'
  BY DEF ResultInv, Unwritten
<1>3. KeptInv'
  <2>. SUFFICES ASSUME NEW s \in 1..started,
                       scan'[s].pc = "over", scan'[s].result, written[s].ok
                PROVE  OnDisk(s)' \/ Replaced(s)' \/ Rotated(s)'
    BY DEF KeptInv
  <2>1. OnDisk(s) \/ Replaced(s) \/ Rotated(s)
    BY <1>0 DEF ResultInv, KeptInv
  <2>. QED  BY <1>0, <2>1 DEF OnDisk, Replaced, Rotated
<1>. QED  BY <1>1, <1>2, <1>3 DEF ResultInv

\* A scan is entered.
LEMMA PutKeeps ==
    ASSUME IInv, ResultInv, NEW h \in Handlers, Put(h)
    PROVE  ResultInv'
<1>0. /\ 1..started \subseteq Scans /\ started \in Nat /\ started + 1 \in Scans
      /\ started' = started + 1 /\ UNCHANGED <<snaps, written>>
  BY ScanAssumption DEF IInv, TypeInv, Scans, Put
<1>1. \A t \in Scans : t # started + 1 => scan'[t] = scan[t]
  BY DEF Put, Change, IInv, TypeInv
<1>2. scan'[started + 1].pc # "over"
  <2>1. PICK i : scan' = [scan EXCEPT ![started + 1] = NewScan(i, handler[h].pause)]
    BY DEF Put, Change
  <2>. QED  BY <1>0, <2>1 DEF NewScan, IInv, TypeInv
<1>3. \A t \in 1..started : t # started + 1 /\ t \in 1..started + 1 /\ scan'[t] = scan[t]
  BY <1>0, <1>1
<1>4. \A t \in 1..started + 1 : t = started + 1 \/ t \in 1..started
  BY <1>0
<1>5. \A t \in Scans : written[t].at # 0 => t \in 1..started
  BY <1>0 DEF ResultInv, Unwritten, Scans
<1>6. FilesInv'
  BY <1>0, <1>3 DEF ResultInv, FilesInv
<1>7. Unwritten'
  <2>1. \A t \in 1..started : t <= started + 1
    BY <1>0
  <2>. QED  BY <1>0, <1>3, <1>5, <2>1 DEF ResultInv, Unwritten
<1>8. KeptInv'
  <2>. SUFFICES ASSUME NEW s \in 1..started + 1,
                       scan'[s].pc = "over", scan'[s].result, written[s].ok
                PROVE  OnDisk(s)' \/ Replaced(s)' \/ Rotated(s)'
    BY <1>0 DEF KeptInv
  <2>1. s \in 1..started /\ scan'[s] = scan[s] /\ s \in Scans
    BY <1>0, <1>2, <1>3, <1>4
  <2>2. OnDisk(s) \/ Replaced(s) \/ Rotated(s)
    BY <2>1 DEF ResultInv, KeptInv
  <2>3. CASE Replaced(s)
    <3>1. PICK t \in Scans \ {s} : scan[t].id = scan[s].id /\ written[t].at > written[s].at
      BY <2>3 DEF Replaced
    <3>2. written[t].at # 0
      BY <2>1, <3>1 DEF IInv, TypeInv
    <3>3. scan'[t] = scan[t]
      BY <1>3, <1>5, <3>2
    <3>. QED  BY <1>0, <2>1, <3>1, <3>3 DEF Replaced
  <2>. QED  BY <1>0, <2>2, <2>3 DEF OnDisk, Rotated
<1>. QED  BY <1>6, <1>7, <1>8 DEF ResultInv

\* A scan writes its snapshot, or fails to.
LEMMA WriteKeeps ==
    ASSUME IInv, ResultInv, NEW s \in Scans, Snapshot(s) \/ SnapshotFails(s)
    PROVE  ResultInv'
<1>0. /\ 1..started \subseteq Scans /\ started \in Nat /\ UNCHANGED started
      /\ s \in 1..started /\ s <= started /\ scan[s].pc = "snapshot" /\ scan[s] \in ScanRec
      /\ scan \in [Scans -> ScanRec] /\ scan' = [scan EXCEPT ![s] = [scan[s] EXCEPT !.pc = "over"]]
  <2>1. /\ UNCHANGED started /\ s <= started /\ scan[s].pc = "snapshot"
        /\ scan' = [scan EXCEPT ![s] = [scan[s] EXCEPT !.pc = "over"]]
    BY DEF Snapshot, SnapshotFails, At, Goto, Change
  <2>2. 1..started \subseteq Scans /\ started \in Nat /\ s \in 1..started
    BY <2>1, ScanAssumption DEF IInv, TypeInv, Scans
  <2>3. scan \in [Scans -> ScanRec] /\ scan[s] \in ScanRec
    BY DEF IInv, TypeInv
  <2>. QED  BY <2>1, <2>2, <2>3
<1>1. /\ scan'[s].pc = "over" /\ scan'[s].id = scan[s].id
      /\ \A t \in Scans : t # s => scan'[t] = scan[t]
  <2>1. PICK r \in ScanRec : r = scan[s]
    BY <1>0
  <2>2. PICK q : q = [r EXCEPT !.pc = "over"]
    OBVIOUS
  <2>3. q.pc = "over" /\ q.id = r.id
    BY <2>2 DEF ScanRec
  <2>. QED  BY <1>0, <2>1, <2>2, <2>3
<1>2. PICK time \in Nat : time = Now /\ \A t \in Scans : written[t].at < time
  <2>1. Now \in Nat
    <3>1. CASE snaps = <<>>
      BY <3>1 DEF Now
    <3>2. CASE snaps # <<>>
      <4>1. PICK f : f = snaps[1]
        OBVIOUS
      <4>2. f \in Files
        BY <3>2, <4>1, EmptySeq DEF IInv, TypeInv
      <4>3. f.at \in Nat
        BY <4>2 DEF Files
      <4>. QED  BY <3>2, <4>1, <4>3 DEF Now
    <3>. QED  BY <3>1, <3>2
  <2>. QED  BY <2>1 DEF IInv, DirInv
<1>3. \A t \in Scans : written[t].at \in Nat
  BY DEF IInv, TypeInv
<1>4. written[s].at = 0
  BY <1>0 DEF ResultInv, Unwritten
<1>5. PICK new \in Seq(Files) : new = snaps'
  BY <1>0, DirWrite DEF IInv
<1>6. /\ written' \in [Scans -> [at : Nat, ok : BOOLEAN]]
      /\ \A t \in Scans : t # s => written'[t] = written[t]
      /\ written'[s].ok => \E n \in 1..Len(new) : new[n].scan = s
  BY <1>0, <1>5, DirWrite DEF IInv
<1>7. \A n \in 1..Len(new) :
         \/ \E m \in 1..Len(snaps) : new[n] = snaps[m]
         \/ /\ new[n].at = time /\ new[n].id = scan[s].id
            /\ new[n].scan = None \/ (new[n].scan = s /\ written'[s].at = time)
  BY <1>0, <1>2, <1>5, DirWrite DEF IInv
<1>8. /\ Len(snaps) >= ScansKeep => Len(new) >= ScansKeep
      /\ \A m \in 1..Len(snaps) :
            \/ \E n \in 1..Len(new) : new[n] = snaps[m]
            \/ snaps[m].id = scan[s].id /\ written'[s].at = time
            \/ /\ Len(new) >= ScansKeep
               /\ \A n \in 1..Len(new) : new[n].at > snaps[m].at
  BY <1>0, <1>2, <1>5, DirWrite DEF IInv
<1>9. DOMAIN snaps = 1..Len(snaps) /\ DOMAIN new = 1..Len(new)
  BY DEF IInv, TypeInv
<1>10. FilesInv'
  <2>. SUFFICES ASSUME NEW n \in 1..Len(new), new[n].scan # None
                PROVE  /\ new[n].scan \in 1..started /\ scan'[new[n].scan].pc = "over"
                       /\ scan'[new[n].scan].id = new[n].id
                       /\ written'[new[n].scan].at = new[n].at
    BY <1>0, <1>5 DEF FilesInv
  <2>1. CASE \E m \in 1..Len(snaps) : new[n] = snaps[m]
    <3>1. PICK t : t = new[n].scan
      OBVIOUS
    <3>2. /\ t \in 1..started /\ scan[t].pc = "over" /\ scan[t].id = new[n].id
          /\ written[t].at = new[n].at
      BY <2>1, <3>1 DEF ResultInv, FilesInv
    <3>3. t # s /\ t \in Scans
      BY <1>0, <3>2
    <3>. QED  BY <1>1, <1>6, <3>1, <3>2, <3>3
  <2>2. CASE ~\E m \in 1..Len(snaps) : new[n] = snaps[m]
    BY <1>0, <1>1, <1>7, <2>2
  <2>. QED  BY <2>1, <2>2
<1>11. Unwritten'
  BY <1>0, <1>1, <1>6 DEF ResultInv, Unwritten
<1>12. KeptInv'
  <2>. SUFFICES ASSUME NEW t \in 1..started,
                       scan'[t].pc = "over", scan'[t].result, written'[t].ok
                PROVE  OnDisk(t)' \/ Replaced(t)' \/ Rotated(t)'
    BY <1>0 DEF KeptInv
  <2>1. CASE t = s
    BY <1>5, <1>6, <1>9, <2>1 DEF OnDisk
  <2>2. CASE t # s
    <3>1. /\ t \in Scans /\ scan'[t] = scan[t] /\ written'[t] = written[t]
          /\ written[t].at \in Nat /\ written[t].at < time
      BY <1>0, <1>1, <1>2, <1>3, <1>6, <2>2
    <3>2. OnDisk(t) \/ Replaced(t) \/ Rotated(t)
      BY <3>1 DEF ResultInv, KeptInv
    <3>3. CASE OnDisk(t)
      <4>1. PICK m \in 1..Len(snaps) : snaps[m].scan = t
        BY <1>9, <3>3 DEF OnDisk
      <4>2. scan[t].id = snaps[m].id /\ written[t].at = snaps[m].at
        BY <1>0, <4>1 DEF ResultInv, FilesInv, None
      <4>3. CASE \E n \in 1..Len(new) : new[n] = snaps[m]
        BY <1>5, <1>9, <4>1, <4>3 DEF OnDisk
      <4>4. CASE snaps[m].id = scan[s].id /\ written'[s].at = time
        BY <1>1, <2>2, <3>1, <4>2, <4>4 DEF Replaced
      <4>5. CASE Len(new) >= ScansKeep /\ \A n \in 1..Len(new) : new[n].at > snaps[m].at
        BY <1>5, <1>9, <3>1, <4>2, <4>5 DEF Rotated
      <4>. QED  BY <1>8, <4>3, <4>4, <4>5
    <3>4. CASE Replaced(t)
      <4>1. PICK u \in Scans \ {t} : scan[u].id = scan[t].id /\ written[u].at > written[t].at
        BY <3>4 DEF Replaced
      <4>2. u # s
        BY <1>4, <3>1, <4>1
      <4>. QED  BY <1>1, <1>6, <3>1, <4>1, <4>2 DEF Replaced
    <3>5. CASE Rotated(t)
      <4>1. Len(new) >= ScansKeep
        BY <1>8, <3>5 DEF Rotated
      <4>2. \A m \in 1..Len(snaps) : snaps[m].at > written[t].at
        BY <1>9, <3>5 DEF Rotated
      <4>3. ASSUME NEW n \in 1..Len(new)
            PROVE  new[n].at > written[t].at
        BY <1>7, <3>1, <4>2
      <4>. QED  BY <1>5, <1>9, <3>1, <4>1, <4>3 DEF Rotated
    <3>. QED  BY <3>2, <3>3, <3>4, <3>5
  <2>. QED  BY <2>1, <2>2
<1>. QED  BY <1>10, <1>11, <1>12 DEF ResultInv

LEMMA ResultNext == IInv /\ ResultInv /\ [Next]_vars => ResultInv'
<1>. SUFFICES ASSUME IInv, ResultInv, [Next]_vars PROVE ResultInv'
  OBVIOUS
<1>. DEFINE Same(s) == /\ scan'[s].id = scan[s].id
                       /\ scan[s].pc = "over" => scan'[s].pc = "over"
                       /\ scan'[s].pc = "over" /\ scan'[s].result =>
                            scan[s].pc = "over" /\ scan[s].result
<1>1. ASSUME UNCHANGED <<started, snaps, written>>, \A s \in Scans : Same(s)
      PROVE  ResultInv'
  BY <1>1, QuietKeeps
<1>2. CASE UNCHANGED vars
  BY <1>1, <1>2 DEF vars
<1>3. ASSUME NEW h \in Handlers, Check(h) \/ NoSource(h)
      PROVE  ResultInv'
  BY <1>1, <1>3 DEF Check, NoSource
<1>4. ASSUME NEW h \in Handlers, Put(h)
      PROVE  ResultInv'
  BY <1>4, PutKeeps
<1>5. ASSUME NEW h \in Handlers, Pause(h)
      PROVE  ResultInv'
  <2>1. UNCHANGED <<started, snaps, written>>
    BY <1>5 DEF Pause
  <2>. QED  BY <1>1, <1>5, <2>1, PauseInv
<1>6. ASSUME NEW h \in Handlers, Go(h)
      PROVE  ResultInv'
  <2>1. \A s \in Scans : Same(s)
    <3>1. /\ scan'[handler[h].scan].pc = "fetch" /\ handler[h].scan \in 1..started
          /\ scan[handler[h].scan].pc # "over"
      BY <1>6, GoInv DEF IInv, PendingInv, Pending, Go
    <3>. QED  BY <1>6, <3>1, GoInv
  <2>. QED  BY <1>1, <1>6, <2>1, GoInv
<1>7. ASSUME NEW i \in Scans, Cancel(i)
      PROVE  ResultInv'
  <2>1. \A s \in Scans : Same(s)
    BY <1>7, CancelMoves DEF Moves, IInv, TypeInv
  <2>. QED  BY <1>1, <1>7, <2>1, CancelMoves
<1>8. ASSUME NEW s \in Scans, Goroutine(s)
      PROVE  ResultInv'
  <2>1. /\ Moves(scan[s], scan'[s]) /\ UNCHANGED started
        /\ \A t \in Scans : t # s => scan'[t] = scan[t]
    BY <1>8, GoroutineMoves DEF IInv, TypeInv
  <2>2. CASE Snapshot(s) \/ SnapshotFails(s)
    BY <2>2, WriteKeeps
  <2>3. CASE ~(Snapshot(s) \/ SnapshotFails(s))
    <3>1. UNCHANGED <<snaps, written>>
      BY <1>8, <2>3 DEF Goroutine, RunStep, Timeout, DrainStep, Fetch, FetchFails, ParseFails,
         Parse, Report, Probed, Deepened, Settle, Restore, Finish, Apply, DrainEnds
    <3>2. Same(s)
      <4>1. scan[s] \in ScanRec /\ scan \in [Scans -> ScanRec]
        BY DEF IInv, TypeInv
      <4>2. ASSUME scan[s].pc = "snapshot"
            PROVE  scan'[s].pc # "over"
        <5>1. CASE RunStep(s)
          BY <2>3, <4>2, <5>1 DEF RunStep, Fetch, FetchFails, ParseFails, Parse, Report,
             Probed, Deepened, Settle, Restore, Finish, At
        <5>2. CASE Timeout(s)
          BY <4>2, <5>2 DEF Timeout, Running
        <5>3. CASE DrainStep(s)
          <6>1. PICK r \in ScanRec : r = scan[s]
            BY <4>1
          <6>2. scan'[s] \in {[r EXCEPT !.stage = Head(r.queue), !.queue = Tail(@)],
                              [r EXCEPT !.drain = FALSE]}
            BY <4>1, <5>3, <6>1 DEF DrainStep, Apply, DrainEnds, Change
          <6>. QED  BY <4>2, <6>1, <6>2 DEF ScanRec
        <5>. QED  BY <1>8, <5>1, <5>2, <5>3 DEF Goroutine
      <4>. QED  BY <2>1, <4>2 DEF Moves
    <3>. QED  BY <1>1, <2>1, <3>1, <3>2
  <2>. QED  BY <2>2, <2>3
<1>9. CASE UserSwitch
  BY <1>1, <1>9 DEF UserSwitch
<1>. QED  BY <1>2, <1>3, <1>4, <1>5, <1>6, <1>7, <1>8, <1>9 DEF Next, StartStep, Goroutine

\* A finished scan's own result is kept, in memory or in its own file, unless its
\* snapshot could not be written, a scan with the same id (of the same second) wrote
\* over it later, or the rotation took it and left a full directory of newer files.
THEOREM ResultIsKept == Spec => []ResultKept
<1>1. ResultInv => ResultKept
  BY DEF ResultInv, KeptInv, ResultKept
<1>2. Init => ResultInv
  <2>. SUFFICES ASSUME Init PROVE ResultInv
    OBVIOUS
  <2>1. Len(snaps) = 0 /\ 1..Len(snaps) = {} /\ 1..started = {}
    BY DEF Init
  <2>. QED  BY <2>1 DEF Init, ResultInv, FilesInv, Unwritten, KeptInv
<1>. QED  BY <1>1, <1>2, InvAlways, ResultNext, PTL DEF Spec

=============================================================================
