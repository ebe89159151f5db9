----------------------------- MODULE LogStream -----------------------------
(***************************************************************************)
(* The live log: Tail (here LastLines), which reads the backfill, the hub  *)
(* with its subscribers, the goroutines the hub starts and stops (Follow   *)
(* and fanOut), and the file they read, which sing-box appends to and      *)
(* anything on the router may truncate, replace or remove.                 *)
(*                                                                         *)
(* The file is a sequence of numbered halves of lines: the odd ones begin  *)
(* a line and the even ones end it, so what reaches a browser tells which  *)
(* lines it saw, and whether they were put together right.  Heartbeats,    *)
(* carriage returns and the JSON form of /api/logs are left out.           *)
(***************************************************************************)
EXTENDS Naturals, Sequences, FiniteSets, SequencesExt

CONSTANTS
    Clients,    \* browsers that may open /api/logs/stream
    Followers,  \* bound: numbers of the followers, stopped ones that have not ended among them, at a time
    BufLines,   \* capacity of a subscriber's channel
    InLines,    \* capacity of the channel between Follow and fanOut
    Chunk,      \* what Tail reads at a time
    Backfill,   \* lines of backfill a stream begins with
    MaxHalves,  \* bound: halves ever written
    MaxTurns,   \* bound: how often the file is truncated, replaced or removed
    MaxOpens,   \* bound: streams ever opened
    Combined,   \* bound: FALSE if a file is not turned over where followers have overlapped
    Gone        \* no file

ASSUME LogAssumption ==
    /\ Chunk \in Nat \ {0} /\ BufLines \in Nat \ {0} /\ InLines \in Nat
    /\ {Backfill, MaxHalves, MaxTurns, MaxOpens} \subseteq Nat
    /\ Followers \subseteq Nat \ {0} /\ Combined \in BOOLEAN
    /\ Gone \notin Seq(Nat)

VARIABLES
    log,      \* the halves in the file, or Gone
    inode,    \* of the file
    turns,    \* truncations, replacements and removals so far
    written,  \* halves written so far
    opens,    \* streams opened so far
    client,   \* "away", "seeded": backfilled and not yet subscribed, or "live"
    shown,    \* history: the backfill of each client
    got,      \* the lines streamed to each client since it subscribed
    buf,      \* the channel of each subscriber
    cancel,   \* the follower h.cancel would stop, 0 for nil
    tail,     \* Follow of each follower: [pc, pos, ino, carry, opened, size, turn]
    fan,      \* fanOut of each follower: [pc, line]
    pipe,     \* the channel between them
    lost,     \* history: clients that missed a line because their channel was full
    racing,   \* history: a follower was started before the one before it had ended
    slipped   \* history: a follower took one file for the continuation of another

vars == <<log, inode, turns, written, opens, client, shown, got, buf, cancel, tail, fan, pipe,
          lost, racing, slipped>>

Asleep == [pc |-> "off", pos |-> 0, ino |-> 0, carry |-> <<>>, opened |-> FALSE,
           size |-> 0, turn |-> 0]

Init == /\ log \in {Gone, <<>>}
        /\ inode = 1 /\ turns = 0 /\ written = 0 /\ opens = 0
        /\ client = [c \in Clients |-> "away"]
        /\ shown = [c \in Clients |-> <<>>]
        /\ got = [c \in Clients |-> <<>>]
        /\ buf = [c \in Clients |-> <<>>]
        /\ cancel = 0
        /\ tail = [f \in Followers |-> Asleep]
        /\ fan = [f \in Followers |-> [pc |-> "off", line |-> <<>>]]
        /\ pipe = [f \in Followers |-> <<>>]
        /\ lost = {} /\ racing = FALSE /\ slipped = FALSE

Subs         == {c \in Clients : client[c] = "live"}     \* h.subs
Cancelled(f) == f # cancel                               \* its ctx is done
Over(f)      == tail[f].pc = "off" /\ fan[f].pc = "off"
Exists       == log # Gone
-----------------------------------------------------------------------------
(* Lines *)

Ends(h) == h % 2 = 0        \* the half with the newline

\* bytes.Split without the empty piece behind a final newline: the n-th piece ends at the n-th cut.
Cuts(halves)   == {i \in DOMAIN halves : Ends(halves[i]) \/ i = Len(halves)}
Cut(halves, n) == IF n = 0 THEN 0
                  ELSE CHOOSE i \in Cuts(halves) : Cardinality({j \in Cuts(halves) : j <= i}) = n
Pieces(halves) == [n \in 1 .. Cardinality(Cuts(halves)) |->
                     SubSeq(halves, Cut(halves, n - 1) + 1, Cut(halves, n))]

LastOf(s, n) == IF Len(s) > n THEN SubSeq(s, Len(s) - n + 1, Len(s)) ELSE s

\* Where reading backwards by chunks stops: at the start, or with more than n newlines read.
Newlines(halves) == Cardinality({i \in DOMAIN halves : Ends(halves[i])})

\* Mutant: n newlines are enough.
TailStartAtN(data, n) ==
    LET Enough(p) == Newlines(SubSeq(data, p + 1, Len(data))) >= n
    IN Max({0} \cup {p \in 0 .. Len(data) : (Len(data) - p) % Chunk = 0 /\ Enough(p)})

TailStart(data, n) ==
    LET Enough(p) == Newlines(SubSeq(data, p + 1, Len(data))) > n
    IN Max({0} \cup {p \in 0 .. Len(data) : (Len(data) - p) % Chunk = 0 /\ Enough(p)})

LastLines(data, n) == LastOf(Pieces(SubSeq(data, TailStart(data, n) + 1, Len(data))), n)

\* What Follow has read falls into a first line and the rest, if there is a newline in it.
HasLine(halves)   == \E i \in DOMAIN halves : Ends(halves[i])
LineEnd(halves)   == Min({i \in DOMAIN halves : Ends(halves[i])})
FirstLine(halves) == SubSeq(halves, 1, LineEnd(halves))
Rest(halves)      == SubSeq(halves, LineEnd(halves) + 1, Len(halves))
-----------------------------------------------------------------------------
(* A client of /api/logs/stream *)

\* The backfill; a missing file is an empty one.
Seed(c) ==
    /\ client[c] = "away" /\ opens < MaxOpens
    /\ opens' = opens + 1
    /\ client' = [client EXCEPT ![c] = "seeded"]
    /\ shown' = [shown EXCEPT ![c] = IF Exists /\ Backfill > 0 THEN LastLines(log, Backfill) ELSE <<>>]
    /\ UNCHANGED <<log, inode, turns, written, got, buf, cancel, tail, fan, pipe, lost, racing,
                   slipped>>

\* startLocked; the follower cancelled before may not have noticed yet.
Start(f) ==
    /\ Over(f) /\ \A g \in Followers : Over(g) => f <= g
    /\ Combined \/ turns = 0 \/ \A g \in Followers : Over(g)
    /\ cancel' = f
    /\ tail' = [tail EXCEPT ![f] = [Asleep EXCEPT !.pc = "seek"]]
    /\ fan' = [fan EXCEPT ![f] = [pc |-> "take", line |-> <<>>]]
    /\ pipe' = [pipe EXCEPT ![f] = <<>>]
    /\ racing' = (racing \/ \E g \in Followers : ~Over(g))

Subscribe(c) ==
    /\ client[c] = "seeded"
    /\ client' = [client EXCEPT ![c] = "live"]
    /\ IF Subs = {} THEN \E f \in Followers : Start(f)
                    ELSE UNCHANGED <<cancel, tail, fan, pipe, racing>>
    /\ UNCHANGED <<log, inode, turns, written, opens, shown, got, buf, lost, slipped>>

\* The pump of one stream.
Pump(c) ==
    /\ client[c] = "live" /\ buf[c] # <<>>
    /\ got' = [got EXCEPT ![c] = Append(@, Head(buf[c]))]
    /\ buf' = [buf EXCEPT ![c] = SubSeq(@, 2, Len(@))]
    /\ UNCHANGED <<log, inode, turns, written, opens, client, shown, cancel, tail, fan, pipe, lost,
                   racing, slipped>>

\* The request ends: unsub, which stops the follower when nobody is left.
Unsubscribe(c) ==
    /\ client[c] = "live"
    /\ client' = [client EXCEPT ![c] = "away"]
    /\ cancel' = IF Subs = {c} THEN 0 ELSE cancel
    /\ shown' = [shown EXCEPT ![c] = <<>>]
    /\ got' = [got EXCEPT ![c] = <<>>]
    /\ buf' = [buf EXCEPT ![c] = <<>>]
    /\ lost' = lost \ {c}
    /\ UNCHANGED <<log, inode, turns, written, opens, tail, fan, pipe, racing, slipped>>
-----------------------------------------------------------------------------
(* Follow *)

Tails(f, t) == tail' = [tail EXCEPT ![f] = t]
OnlyTail    == UNCHANGED <<log, inode, turns, written, opens, client, shown, got, buf, cancel,
                           fan, lost, racing>>

\* The initial seek to the end.
Seek(f) ==
    /\ tail[f].pc = "seek"
    /\ Tails(f, IF Exists THEN [Asleep EXCEPT !.pc = "wait", !.pos = Len(log), !.ino = inode,
                                              !.opened = TRUE, !.turn = turns]
                          ELSE [Asleep EXCEPT !.pc = "wait"])
    /\ OnlyTail /\ UNCHANGED <<pipe, slipped>>

Rotated(t) == ~t.opened \/ Len(log) < t.pos \/ t.ino # inode

\* Mutant: what is carried survives a rotation.
StatKeepsCarry(f) ==
    LET t    == tail[f]
        next == IF Rotated(t) THEN [t EXCEPT !.pos = 0, !.opened = TRUE] ELSE t
    IN /\ t.pc = "wait" /\ Exists
       /\ Tails(f, [next EXCEPT !.ino = inode, !.turn = turns,
                                !.size = IF Len(log) > next.pos THEN Len(log) ELSE 0,
                                !.pc = IF Len(log) > next.pos THEN "read" ELSE "wait"])
       /\ slipped' = (slipped \/ (~Rotated(t) /\ t.turn # turns /\ t.pos > 0))
       /\ OnlyTail /\ UNCHANGED pipe

\* A tick.  A file that is neither shorter nor another inode is the one read before.
Stat(f) ==
    LET t    == tail[f]
        next == IF Rotated(t) THEN [t EXCEPT !.pos = 0, !.carry = <<>>, !.opened = TRUE] ELSE t
    IN /\ t.pc = "wait"
       /\ \/ /\ ~Exists
             /\ Tails(f, [t EXCEPT !.pos = 0, !.carry = <<>>, !.opened = FALSE])
             /\ UNCHANGED slipped
          \/ /\ Exists
             /\ Tails(f, [next EXCEPT !.ino = inode, !.turn = turns,
                                      !.size = IF Len(log) > next.pos THEN Len(log) ELSE 0,
                                      !.pc = IF Len(log) > next.pos THEN "read" ELSE "wait"])
             /\ slipped' = (slipped \/ (~Rotated(t) /\ t.turn # turns /\ t.pos > 0))
       /\ OnlyTail /\ UNCHANGED pipe

\* Where Follow goes with what it has read.
Ahead(halves) == IF HasLine(halves) THEN "push" ELSE "wait"

\* Open and ReadAt: by now the path may name another file, or none.
Read(f) ==
    LET t     == tail[f]
        bytes == IF Exists THEN SubSeq(log, t.pos + 1, Min({t.size, Len(log)})) ELSE <<>>
        data  == t.carry \o bytes
    IN /\ t.pc = "read"
       /\ Tails(f, [t EXCEPT !.size = 0, !.pos = @ + Len(bytes), !.carry = data,
                             !.pc = IF Exists THEN Ahead(data) ELSE "wait"])
       /\ slipped' = (slipped \/ (Exists /\ t.turn # turns))
       /\ OnlyTail /\ UNCHANGED pipe

\* One line into the channel to fanOut.
Push(f) ==
    LET t == tail[f] IN
    /\ t.pc = "push" /\ Len(pipe[f]) < InLines
    /\ pipe' = [pipe EXCEPT ![f] = Append(@, FirstLine(t.carry))]
    /\ Tails(f, [t EXCEPT !.carry = Rest(@), !.pc = Ahead(Rest(t.carry))])
    /\ OnlyTail /\ UNCHANGED slipped

\* Mutant: a push into a full channel does not see ctx.Done.
StopAtTick(f) ==
    /\ tail[f].pc = "wait" /\ Cancelled(f)
    /\ Tails(f, Asleep)
    /\ OnlyTail /\ UNCHANGED <<pipe, slipped>>

\* ctx.Done, at the ticker or while the channel is full; close(in).
Stop(f) ==
    /\ tail[f].pc \in {"wait", "push"} /\ Cancelled(f)
    /\ Tails(f, Asleep)
    /\ OnlyTail /\ UNCHANGED <<pipe, slipped>>
-----------------------------------------------------------------------------
(* fanOut *)

OnlyFan == UNCHANGED <<log, inode, turns, written, opens, client, shown, got, cancel, tail,
                       racing, slipped>>

Take(f) ==
    /\ fan[f].pc = "take" /\ pipe[f] # <<>>
    /\ fan' = [fan EXCEPT ![f] = [pc |-> "send", line |-> Head(pipe[f])]]
    /\ pipe' = [pipe EXCEPT ![f] = SubSeq(@, 2, Len(@))]
    /\ OnlyFan /\ UNCHANGED <<buf, lost>>

\* ctx.Done, or the channel is closed and empty.
Quit(f) ==
    /\ fan[f].pc = "take"
    /\ Cancelled(f) \/ (tail[f].pc = "off" /\ pipe[f] = <<>>)
    /\ fan' = [fan EXCEPT ![f].pc = "off"]
    /\ OnlyFan /\ UNCHANGED <<buf, pipe, lost>>

\* Under h.mu: to every subscriber there is now, except those whose channel is full.
FanOut(f) ==
    LET Full(c) == Len(buf[c]) >= BufLines IN
    /\ fan[f].pc = "send"
    /\ fan' = [fan EXCEPT ![f] = [pc |-> "take", line |-> <<>>]]
    /\ buf' = [c \in Clients |-> IF c \in Subs /\ ~Full(c) THEN Append(buf[c], fan[f].line)
                                                           ELSE buf[c]]
    /\ lost' = lost \cup {c \in Subs : Full(c)}
    /\ OnlyFan /\ UNCHANGED pipe
-----------------------------------------------------------------------------
(* The file *)

OnlyFile == UNCHANGED <<opens, client, shown, got, buf, cancel, tail, fan, pipe, lost, racing,
                        slipped>>

Write ==
    /\ written < MaxHalves
    /\ written' = written + 1
    /\ log' = IF Exists THEN Append(log, written + 1) ELSE <<written + 1>>
    /\ OnlyFile /\ UNCHANGED <<inode, turns>>

\* Truncated in place, replaced by a new file, or removed; the next file has an inode of its own.
Turn ==
    /\ Exists /\ turns < MaxTurns
    /\ Combined \/ ~racing
    /\ turns' = turns + 1
    /\ \/ log' = <<>> /\ UNCHANGED inode
       \/ log' = <<>> /\ inode' = inode + 1
       \/ log' = Gone /\ inode' = inode + 1
    /\ OnlyFile /\ UNCHANGED written
-----------------------------------------------------------------------------
Next == \/ \E c \in Clients : Seed(c) \/ Subscribe(c) \/ Pump(c) \/ Unsubscribe(c)
        \/ \E f \in Followers : \/ Seek(f) \/ Stat(f) \/ Read(f) \/ Push(f) \/ Stop(f)
                                \/ Take(f) \/ Quit(f) \/ FanOut(f)
        \/ Write \/ Turn

\* The goroutines are scheduled.  select chooses among its ready cases at random, so an end that
\* stays possible is taken at last, even if the other case of the same select comes up each time.
Fairness ==
    \A f \in Followers :
        /\ WF_vars(Seek(f) \/ Stat(f) \/ Read(f) \/ Push(f))
        /\ WF_vars(Take(f) \/ FanOut(f))
        /\ SF_vars(Stop(f)) /\ SF_vars(Quit(f))

Spec == Init /\ [][Next]_vars /\ Fairness
-----------------------------------------------------------------------------
(* Properties *)

Consecutive(s) == \A i \in 1 .. Len(s) - 1 : s[i + 1] = s[i] + 1
Rising(s)      == \A i \in 1 .. Len(s) - 1 : s[i + 1] > s[i]

\* What was put together right: adjoining halves, and a newline at the end and nowhere else.
IsLine(l) == l # <<>> /\ Consecutive(l) /\ \A i \in 1 .. Len(l) : Ends(l[i]) <=> i = Len(l)

Streamed(c) == got[c] \o buf[c]

\* A subscriber is sent whole lines (of the first, which may have been half-written when it was
\* subscribed, perhaps the end) in the order they were written, and none twice; and unless the
\* client was too slow or the file was turned over, none between the first and the last is
\* missing.
Faithful(c) ==
    LET s == Streamed(c) IN
    /\ \A i \in 1 .. Len(s) : IsLine(s[i])
    /\ \A i \in 1 .. Len(s) - 1 :
          /\ Last(s[i]) < Head(s[i + 1])
          /\ c \notin lost /\ turns = 0 => Last(s[i]) + 1 = Head(s[i + 1])

\* As long as no follower was started over one that had not ended and none took one file for the
\* continuation of another, the streams are faithful (hub.go fanOut, stream.go Follow).
InOrder == ~racing /\ ~slipped => \A c \in Clients : Faithful(c)

\* Reading backwards by chunks finds the last lines the whole file would give (tail.go).
TailExact ==
    \A n \in 1 .. MaxHalves : Exists => LastLines(log, n) = LastOf(Pieces(log), n)

\* Once nobody listens the follower and its fanOut end, full channel or not (hub.go unsub,
\* "stopped when the last leaves"): a goroutine that stayed would read the file for good.
Quiet == Subs = {} ~> (Subs # {} \/ \A f \in Followers : Over(f))
-----------------------------------------------------------------------------
(* Claims the code does not keep *)

\* "It runs at most one Follow() goroutine" (hub.go:9): the one being stopped may still run.
AtMostOne == Cardinality({f \in Followers : tail[f].pc # "off"}) <= 1

\* ... so a line may come to a new subscriber twice.
OneVoice == ~slipped => \A c \in Clients : Rising(FlattenSeq(Streamed(c)))

\* "It detects truncation / rotation" (stream.go:13): not when the new file is as long already.
Detects == ~slipped

\* The backfill and the stream together miss nothing (logs.go "Live stream from now on").
Gapless == (racing \/ slipped \/ turns > 0 \/ lost # {}) \/
    \A c \in Clients : LET all == FlattenSeq(shown[c] \o Streamed(c)) IN
        \A i \in 1 .. Len(all) - 1 : all[i + 1] <= all[i] + 1

\* ... and repeat nothing.
NoRepeat == (racing \/ slipped) \/
    \A c \in Clients : Rising(FlattenSeq(shown[c] \o Streamed(c)))
=============================================================================
