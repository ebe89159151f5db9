-------------------------- MODULE LogStreamProofs --------------------------
(***************************************************************************)
(* Proofs about LogStream: that the streams are faithful, and that Tail    *)
(* reading backwards finds the lines that the whole file would give.       *)
(***************************************************************************)
EXTENDS LogStream, FiniteSetTheorems, SequenceTheorems, WellFoundedInduction, TLAPS

Line == {l \in Seq(Nat) : IsLine(l)}

TailRec  == [pc : {"off", "seek", "wait", "read", "push"}, pos : Nat, ino : Nat, carry : Seq(Nat),
             opened : BOOLEAN, size : Nat, turn : Nat]
TailType == {t \in TailRec : t.pc = "push" => HasLine(t.carry)}
FanType  == [pc : {"off", "take", "send"}, line : Seq(Nat)]

TypeInv ==
    /\ log = Gone \/ log \in Seq(Nat)
    /\ inode \in Nat /\ turns \in Nat /\ written \in Nat
    /\ client \in [Clients -> {"away", "seeded", "live"}]
    /\ got \in [Clients -> Seq(Seq(Nat))]
    /\ buf \in [Clients -> Seq(Seq(Nat))]
    /\ cancel \in Followers \cup {0}
    /\ tail \in [Followers -> TailType]
    /\ fan \in [Followers -> FanType]
    /\ pipe \in [Followers -> Seq(Seq(Nat))]
    /\ lost \subseteq Clients
    /\ racing \in BOOLEAN /\ slipped \in BOOLEAN

\* The file holds the last halves that were written.
Base    == IF Exists THEN written - Len(log) ELSE written
FileInv == Exists => Len(log) <= written /\ \A k \in DOMAIN log : log[k] = Base + k

\* Who listens has a follower at work, and unless followers raced it is the only one.
HubInv ==
    /\ cancel = 0 <=> Subs = {}
    /\ cancel # 0 => tail[cancel].pc # "off" /\ fan[cancel].pc # "off"
    /\ \A c \in Clients : client[c] # "live" => got[c] = <<>> /\ buf[c] = <<>>
    /\ ~racing /\ cancel # 0 => \A g \in Followers : g # cancel => Over(g)

\* The half up to which a follower has read, and the one up to which it has handed on.
Mark(t) == IF t.turn = turns THEN Base + t.pos ELSE Base
Edge(t) == IF t.carry = <<>> THEN Mark(t) ELSE t.carry[1] - 1

\* What a follower that took no file for another knows of the file, and what it carries.
PosInv(t) ==
    /\ t.turn <= turns
    /\ t.turn = turns => t.pos <= IF Exists THEN Len(log) ELSE 0
    /\ t.turn = turns /\ t.opened => t.ino = inode
    /\ ~t.opened => t.pos = 0
    /\ t.pos = 0 => t.carry = <<>>
    /\ t.pc = "read" => t.opened /\ t.size > t.pos /\ (t.turn = turns => Exists /\ t.size <= Len(log))
    /\ t.pc = "push" <=> HasLine(t.carry)
    /\ Edge(t) \in Nat
    /\ \A k \in DOMAIN t.carry : t.carry[k] = Edge(t) + k
    /\ Edge(t) + Len(t.carry) <= Mark(t)
    /\ t.turn = turns => Edge(t) + Len(t.carry) = Mark(t)

\* Lines on the way to the subscribers: whole, in order, none past e; and if tight, none missing.
Chain(s, e, tight) ==
    /\ s \in Seq(Line)
    /\ \A i, j \in DOMAIN s : i < j => Last(s[i]) < Head(s[j])
    /\ \A i \in DOMAIN s : Last(s[i]) <= e
    /\ tight => /\ \A i \in 1 .. Len(s) - 1 : Last(s[i]) + 1 = Head(s[i + 1])
                /\ s # <<>> => Last(Last(s)) = e

InHand(f) == IF fan[f].pc = "send" THEN <<fan[f].line>> ELSE <<>>
Coming(f) == InHand(f) \o pipe[f]

ChainInv ==
    ~racing /\ ~slipped /\ cancel # 0 =>
        /\ Chain(Coming(cancel), Edge(tail[cancel]), turns = 0)
        /\ \A c \in Subs : Chain(Streamed(c) \o Coming(cancel), Edge(tail[cancel]),
                                 c \notin lost /\ turns = 0)

\* Before the initial seek nothing is on the way.
SeekInv ==
    ~racing /\ cancel # 0 /\ tail[cancel].pc = "seek" =>
        Coming(cancel) = <<>> /\ \A c \in Subs : Streamed(c) = <<>>

PosAll == ~slipped => \A f \in Followers : PosInv(tail[f])

IInv == TypeInv /\ FileInv /\ HubInv /\ PosAll /\ SeekInv /\ ChainInv

-----------------------------------------------------------------------------
(* Chains of lines.                                                        *)

LEMMA LineFacts ==
  ASSUME NEW l \in Line
  PROVE  /\ l \in Seq(Nat) /\ Len(l) \in Nat \ {0}
         /\ Head(l) \in Nat /\ Last(l) \in Nat
  BY DEF Line, IsLine, Last

LEMMA LinesOf ==
  ASSUME NEW s \in Seq(Seq(Nat)), \A i \in DOMAIN s : s[i] \in Line
  PROVE  s \in Seq(Line)
<1>1. s \in [1 .. Len(s) -> Line] /\ Len(s) \in Nat
  OBVIOUS
<1>2. s \in UNION {[1 .. n -> Line] : n \in Nat}
  BY <1>1
<1> QED BY <1>2, SeqDef, Zenon

\* A line that continues where the chain has got to.
LEMMA ChainAppend ==
  ASSUME NEW s, NEW e \in Nat, NEW b \in BOOLEAN, Chain(s, e, b),
         NEW l \in Line, Head(l) = e + 1, NEW d \in Nat, Last(l) <= d, e <= d, b => Last(l) = d
  PROVE  Chain(Append(s, l), d, b)
<1> DEFINE r == Append(s, l)
<1>1. /\ s \in Seq(Line) /\ r \in Seq(Line) /\ Len(r) = Len(s) + 1
      /\ \A i \in DOMAIN s : r[i] = s[i] /\ s[i] \in Line
      /\ r[Len(r)] = l
      /\ DOMAIN s = 1 .. Len(s) /\ DOMAIN r = 1 .. Len(r) /\ Len(s) \in Nat
  BY DEF Chain
<1>2. Head(l) \in Nat /\ Last(l) \in Nat /\ \A i \in DOMAIN s : Head(s[i]) \in Nat /\ Last(s[i]) \in Nat
  BY <1>1, LineFacts
<1>3. \A i \in DOMAIN s : Last(s[i]) <= e
  BY DEF Chain
<1> HIDE DEF r
<1>4. \A i, j \in DOMAIN r : i < j => Last(r[i]) < Head(r[j])
  <2> SUFFICES ASSUME NEW i \in DOMAIN r, NEW j \in DOMAIN r, i < j PROVE Last(r[i]) < Head(r[j])
    OBVIOUS
  <2>1. i \in DOMAIN s /\ r[i] = s[i]
    BY <1>1
  <2>2. CASE j \in DOMAIN s
    BY <2>1, <2>2, <1>1 DEF Chain
  <2>3. CASE j = Len(r)
    BY <2>1, <2>3, <1>1, <1>2, <1>3
  <2> QED BY <2>2, <2>3, <1>1
<1>5. \A i \in DOMAIN r : Last(r[i]) <= d
  <2> SUFFICES ASSUME NEW i \in DOMAIN r PROVE Last(r[i]) <= d
    OBVIOUS
  <2>1. CASE i \in DOMAIN s
    BY <2>1, <1>1, <1>2, <1>3
  <2>2. CASE i = Len(r)
    BY <2>2, <1>1
  <2> QED BY <2>1, <2>2, <1>1
<1>6. Len(s) \in Nat
  BY <1>1
<1>7. ASSUME b, NEW i \in 1 .. Len(s) PROVE Last(r[i]) + 1 = Head(r[i + 1])
  <2>1. CASE i < Len(s)
    <3>1. i \in 1 .. Len(s) - 1 /\ r[i] = s[i] /\ r[i + 1] = s[i + 1]
      BY <2>1, <1>1
    <3>2. b => Last(s[i]) + 1 = Head(s[i + 1])
      BY <3>1 DEF Chain
    <3> QED BY <3>1, <3>2, <1>7
  <2>2. CASE i = Len(s)
    <3>1. s # <<>> /\ r[i] = s[Len(s)] /\ r[i + 1] = l
      BY <2>2, <1>1
    <3>2. Last(s[Len(s)]) = e
      BY <3>1, <1>7 DEF Chain, Last
    <3>3. Last(r[i]) = e
      BY <3>1, <3>2, Zenon
    <3>4. Head(r[i + 1]) = e + 1
      BY <3>1, Zenon
    <3> QED BY <3>3, <3>4
  <2>3. i < Len(s) \/ i = Len(s)
    BY <1>6, <1>7
  <2> QED BY <2>1, <2>2, <2>3, Zenon
<1>8. b => (r # <<>> => Last(Last(r)) = d)
  BY <1>1 DEF Last
<1>9. Len(r) - 1 = Len(s)
  BY <1>1
<1>10. Chain(r, d, b)
  BY <1>1, <1>4, <1>5, <1>7, <1>8, <1>9 DEF Chain
<1> QED BY <1>10 DEF r

LEMMA ChainWider ==
  ASSUME NEW s, NEW e \in Nat, NEW b \in BOOLEAN, Chain(s, e, b),
         NEW d \in Nat, e <= d, NEW a \in BOOLEAN, a => b /\ d = e
  PROVE  Chain(s, d, a)
<1>1. \A i \in DOMAIN s : Last(s[i]) \in Nat /\ Last(s[i]) <= e
  BY LineFacts DEF Chain
<1>2. \A i \in DOMAIN s : Last(s[i]) <= d
  BY <1>1
<1> QED BY <1>2 DEF Chain

\* A line less: nothing is promised of what is missing.
LEMMA ChainDrop ==
  ASSUME NEW s \in Seq(Seq(Nat)), NEW p \in Seq(Seq(Nat)), NEW l \in Seq(Nat), NEW e \in Nat, NEW b,
         Chain(s \o (<<l>> \o p), e, b)
  PROVE  Chain(s \o p, e, FALSE)
<1> DEFINE r == s \o (<<l>> \o p)
           q == s \o p
           At(i) == IF i <= Len(s) THEN i ELSE i + 1
<1>1. /\ r \in Seq(Line) /\ Len(r) = Len(s) + 1 + Len(p) /\ DOMAIN r = 1 .. Len(r)
      /\ Len(q) = Len(s) + Len(p) /\ q \in Seq(Seq(Nat)) /\ DOMAIN q = 1 .. Len(q)
      /\ Len(s) \in Nat /\ Len(p) \in Nat
  BY DEF Chain
<1>2. \A i \in DOMAIN q : At(i) \in DOMAIN r /\ q[i] = r[At(i)]
  <2> SUFFICES ASSUME NEW i \in DOMAIN q PROVE At(i) \in DOMAIN r /\ q[i] = r[At(i)]
    OBVIOUS
  <2>1. CASE i <= Len(s)
    <3>1. i \in 1 .. Len(s) /\ q[i] = s[i] /\ r[i] = s[i]
      BY <2>1, <1>1
    <3> QED BY <3>1, <2>1, <1>1
  <2>2. CASE i > Len(s)
    <3>1. i \in Len(s) + 1 .. Len(s) + Len(p)
      BY <2>2, <1>1
    <3>2. q[i] = p[i - Len(s)]
      BY <3>1
    <3>3. r[i + 1] = (<<l>> \o p)[i + 1 - Len(s)] /\ i + 1 - Len(s) \in 2 .. Len(p) + 1
      BY <3>1
    <3>4. (<<l>> \o p)[i + 1 - Len(s)] = p[i - Len(s)]
      BY <3>1
    <3>5. At(i) = i + 1 /\ i + 1 \in DOMAIN r
      BY <3>1, <2>2, <1>1
    <3>6. q[i] = r[i + 1]
      BY <3>2, <3>3, <3>4
    <3> QED BY <3>5, <3>6
  <2> QED BY <2>1, <2>2, <1>1
<1>3. \A i, j \in DOMAIN q : i < j => At(i) < At(j)
  BY <1>1
<1>4. Chain(r, e, b)
  OBVIOUS
<1> HIDE DEF r, q, At
<1>5. /\ \A i, j \in DOMAIN r : i < j => Last(r[i]) < Head(r[j])
      /\ \A i \in DOMAIN r : Last(r[i]) <= e
      /\ \A i \in DOMAIN r : r[i] \in Line
  BY <1>1, <1>4 DEF Chain
<1>6. q \in Seq(Line)
  BY <1>1, <1>2, <1>5, LinesOf
<1>7. Chain(q, e, FALSE)
  BY <1>2, <1>3, <1>5, <1>6 DEF Chain
<1> QED BY <1>7 DEF q

\* The chain without its first line.
LEMMA ChainTail ==
  ASSUME NEW p \in Seq(Seq(Nat)), NEW l \in Seq(Nat), NEW e \in Nat, NEW b \in BOOLEAN,
         Chain(<<l>> \o p, e, b)
  PROVE  Chain(p, e, b)
<1> DEFINE r == <<l>> \o p
<1>1. /\ r \in Seq(Line) /\ Len(r) = 1 + Len(p) /\ DOMAIN r = 1 .. Len(r)
      /\ DOMAIN p = 1 .. Len(p) /\ Len(p) \in Nat
      /\ \A i \in DOMAIN p : i + 1 \in DOMAIN r /\ p[i] = r[i + 1]
  BY DEF Chain
<1>2. Chain(r, e, b)
  OBVIOUS
<1> HIDE DEF r
<1>3. /\ \A i, j \in DOMAIN r : i < j => Last(r[i]) < Head(r[j])
      /\ \A i \in DOMAIN r : Last(r[i]) <= e
      /\ \A i \in DOMAIN r : r[i] \in Line
      /\ b => \A i \in 1 .. Len(r) - 1 : Last(r[i]) + 1 = Head(r[i + 1])
      /\ b => (r # <<>> => Last(Last(r)) = e)
  BY <1>1, <1>2 DEF Chain
<1>4. p \in Seq(Line)
  BY <1>1, <1>3, LinesOf
<1>5. \A i, j \in DOMAIN p : i < j => Last(p[i]) < Head(p[j])
  BY <1>1, <1>3
<1>6. \A i \in DOMAIN p : Last(p[i]) <= e
  BY <1>1, <1>3
<1>7. b => \A i \in 1 .. Len(p) - 1 : Last(p[i]) + 1 = Head(p[i + 1])
  <2> SUFFICES ASSUME b, NEW i \in 1 .. Len(p) - 1 PROVE Last(p[i]) + 1 = Head(p[i + 1])
    OBVIOUS
  <2>1. i \in DOMAIN p /\ i + 1 \in DOMAIN p /\ i + 1 \in 1 .. Len(r) - 1
    BY <1>1
  <2>2. p[i] = r[i + 1] /\ p[i + 1] = r[(i + 1) + 1]
    BY <2>1, <1>1
  <2> QED BY <2>1, <2>2, <1>3
<1>8. b => (p # <<>> => Last(Last(p)) = e)
  <2> SUFFICES ASSUME b, p # <<>> PROVE Last(Last(p)) = e
    OBVIOUS
  <2>1. Len(p) \in DOMAIN p /\ r # <<>> /\ Len(p) + 1 = Len(r)
    BY <1>1
  <2>2. Last(p) = Last(r)
    BY <2>1, <1>1 DEF Last
  <2> QED BY <2>1, <2>2, <1>3
<1> QED BY <1>4, <1>5, <1>6, <1>7, <1>8 DEF Chain

LEMMA ChainEmpty ==
  ASSUME NEW e, NEW b
  PROVE  Chain(<<>>, e, b)
  BY DEF Chain

-----------------------------------------------------------------------------
(* The first line.                                                         *)

LEMMA LeastNumber ==
  ASSUME NEW S \in SUBSET Nat, S # {}
  PROVE  \E m \in S : \A k \in S : m <= k
<1>1. PICK m \in S : \A k \in S : ~(<<k, m>> \in OpToRel(<, Nat))
  BY NatLessThanWellFounded, WFMin, Zenon
<1>2. \A k \in S : ~(k < m)
  BY <1>1 DEF OpToRel
<1> QED BY <1>2

LEMMA LeastOf ==
  ASSUME NEW S \in SUBSET Nat, S # {}
  PROVE  Min(S) \in S /\ \A k \in S : Min(S) <= k
  BY LeastNumber DEF Min

LEMMA LineIsFirst ==
  ASSUME NEW d \in Seq(Nat), HasLine(d)
  PROVE  /\ LineEnd(d) \in DOMAIN d /\ Ends(d[LineEnd(d)])
         /\ \A i \in DOMAIN d : Ends(d[i]) => LineEnd(d) <= i
         /\ FirstLine(d) \in Seq(Nat) /\ Len(FirstLine(d)) = LineEnd(d)
         /\ \A i \in 1 .. LineEnd(d) : FirstLine(d)[i] = d[i]
         /\ Rest(d) \in Seq(Nat) /\ Len(Rest(d)) = Len(d) - LineEnd(d)
         /\ \A i \in 1 .. Len(d) - LineEnd(d) : Rest(d)[i] = d[LineEnd(d) + i]
<1> DEFINE S == {i \in DOMAIN d : Ends(d[i])}
<1>1. DOMAIN d = 1 .. Len(d) /\ Len(d) \in Nat /\ S \in SUBSET Nat /\ S # {}
  BY DEF HasLine
<1>2. LineEnd(d) \in S /\ \A k \in S : LineEnd(d) <= k
  BY <1>1, LeastOf DEF LineEnd
<1>3. LineEnd(d) \in 1 .. Len(d)
  BY <1>1, <1>2
<1>4. /\ FirstLine(d) \in Seq(Nat) /\ Len(FirstLine(d)) = LineEnd(d)
      /\ \A i \in 1 .. LineEnd(d) : FirstLine(d)[i] = d[i]
  BY <1>1, <1>3 DEF FirstLine
<1>5. /\ Rest(d) \in Seq(Nat) /\ Len(Rest(d)) = Len(d) - LineEnd(d)
      /\ \A i \in 1 .. Len(d) - LineEnd(d) : Rest(d)[i] = d[LineEnd(d) + i]
  <2> DEFINE m == LineEnd(d)
  <2>1. m \in 1 .. Len(d) /\ Rest(d) = SubSeq(d, m + 1, Len(d))
    BY <1>3 DEF Rest
  <2> HIDE DEF m
  <2>2. SubSeq(d, m + 1, Len(d)) \in Seq(Nat) /\ Len(SubSeq(d, m + 1, Len(d))) = Len(d) - m
    <3> DEFINE n == Len(d)
    <3>1. m \in Int /\ m + 1 \in Int /\ n \in Int /\ m <= n /\ \A i \in m + 1 .. n : d[i] \in Nat
      BY <1>1, <2>1
    <3> HIDE DEF n
    <3>2. /\ SubSeq(d, m + 1, n) \in Seq(Nat)
          /\ Len(SubSeq(d, m + 1, n)) = IF m + 1 <= n THEN n - (m + 1) + 1 ELSE 0
      BY <3>1, SubSeqProperties
    <3>3. (IF m + 1 <= n THEN n - (m + 1) + 1 ELSE 0) = n - m
      BY <3>1
    <3> QED BY <3>2, <3>3 DEF n
  <2>3. \A i \in 1 .. Len(d) - m : SubSeq(d, m + 1, Len(d))[i] = d[m + i]
    BY <1>1, <2>1
  <2> QED BY <2>1, <2>2, <2>3 DEF m
<1>6. /\ LineEnd(d) \in DOMAIN d /\ Ends(d[LineEnd(d)])
      /\ \A i \in DOMAIN d : Ends(d[i]) => LineEnd(d) <= i
  BY <1>2
<1> QED BY <1>4, <1>5, <1>6

\* What is handed on of a run of halves is a line, and the rest goes on behind it.
LEMMA RunSplits ==
  ASSUME NEW d \in Seq(Nat), HasLine(d), NEW e \in Nat, \A k \in DOMAIN d : d[k] = e + k
  PROVE  /\ FirstLine(d) \in Line
         /\ Head(FirstLine(d)) = e + 1
         /\ Last(FirstLine(d)) = e + LineEnd(d)
         /\ \A k \in DOMAIN Rest(d) : Rest(d)[k] = e + LineEnd(d) + k
<1> DEFINE l == FirstLine(d)
           m == LineEnd(d)
<1>1. /\ m \in 1 .. Len(d) /\ Len(d) \in Nat /\ DOMAIN d = 1 .. Len(d) /\ Ends(d[m])
      /\ \A i \in DOMAIN d : Ends(d[i]) => m <= i
      /\ l \in Seq(Nat) /\ Len(l) = m /\ \A i \in 1 .. m : l[i] = d[i]
      /\ Rest(d) \in Seq(Nat) /\ Len(Rest(d)) = Len(d) - m
      /\ \A i \in 1 .. Len(d) - m : Rest(d)[i] = d[m + i]
  BY LineIsFirst
<1> HIDE DEF l, m
<1>2. \A i \in 1 .. m : l[i] = e + i
  <2> SUFFICES ASSUME NEW i \in 1 .. m PROVE l[i] = e + i
    OBVIOUS
  <2>1. l[i] = d[i] /\ i \in DOMAIN d
    BY <1>1
  <2> QED BY <2>1
<1>3. l # <<>> /\ Consecutive(l)
  BY <1>1, <1>2 DEF Consecutive
<1>4. \A i \in 1 .. Len(l) : Ends(l[i]) <=> i = Len(l)
  <2> SUFFICES ASSUME NEW i \in 1 .. Len(l) PROVE Ends(l[i]) <=> i = Len(l)
    OBVIOUS
  <2>1. l[i] = d[i] /\ i \in DOMAIN d
    BY <1>1
  <2>2. CASE i = m
    BY <2>1, <2>2, <1>1
  <2>3. CASE i < m
    <3>1. ~Ends(d[i])
      BY <2>1, <2>3, <1>1
    <3> QED BY <2>1, <2>3, <3>1, <1>1
  <2> QED BY <2>2, <2>3, <1>1
<1>5. l \in Line
  BY <1>1, <1>3, <1>4 DEF Line, IsLine
<1>6. Head(l) = e + 1 /\ Last(l) = e + m
  BY <1>1, <1>2 DEF Last
<1>7. \A k \in DOMAIN Rest(d) : Rest(d)[k] = e + m + k
  <2> SUFFICES ASSUME NEW k \in DOMAIN Rest(d) PROVE Rest(d)[k] = e + m + k
    OBVIOUS
  <2>1. k \in 1 .. Len(d) - m /\ m + k \in DOMAIN d
    BY <1>1
  <2>2. Rest(d)[k] = d[m + k] /\ d[m + k] = e + (m + k)
    BY <2>1, <1>1
  <2> QED BY <2>1, <2>2, <1>1
<1> QED BY <1>5, <1>6, <1>7 DEF l, m

-----------------------------------------------------------------------------
(* Types.                                                                  *)

LEMMA AsleepType == Asleep \in TailType /\ [Asleep EXCEPT !.pc = "seek"] \in TailType
<1>1. <<>> \in Seq(Nat)
  BY EmptySeq
<1>2. Asleep \in TailRec /\ [Asleep EXCEPT !.pc = "seek"] \in TailRec
  BY <1>1 DEF Asleep, TailRec
<1> QED BY <1>2 DEF Asleep, TailType

LEMMA TypeInit == Init => TypeInv
<1> SUFFICES ASSUME Init PROVE TypeInv
  OBVIOUS
<1>1. (log = Gone \/ log \in Seq(Nat)) /\ <<>> \in Seq(Nat) /\ <<>> \in Seq(Seq(Nat))
  BY EmptySeq DEF Init
<1>2. tail \in [Followers -> TailType] /\ fan \in [Followers -> FanType]
  BY AsleepType, <1>1 DEF Init, FanType
<1> QED BY <1>1, <1>2 DEF Init, TypeInv

LEMMA TailFields ==
  ASSUME TypeInv, NEW f \in Followers
  PROVE  /\ tail[f] \in TailType
         /\ tail[f].pc \in {"off", "seek", "wait", "read", "push"} /\ tail[f].pos \in Nat
         /\ tail[f].ino \in Nat /\ tail[f].carry \in Seq(Nat) /\ tail[f].opened \in BOOLEAN
         /\ tail[f].size \in Nat /\ tail[f].turn \in Nat
         /\ fan[f] \in FanType /\ fan[f].pc \in {"off", "take", "send"} /\ fan[f].line \in Seq(Nat)
         /\ tail[f].pc = "push" => HasLine(tail[f].carry)
         /\ pipe[f] \in Seq(Seq(Nat))
<1>1. tail[f] \in TailType /\ fan[f] \in FanType /\ pipe[f] \in Seq(Seq(Nat))
  BY DEF TypeInv
<1> QED BY <1>1 DEF TailType, TailRec, FanType

LEMMA LogFacts ==
  ASSUME TypeInv
  PROVE  /\ Exists => log \in Seq(Nat) /\ Len(log) \in Nat
         /\ Exists => Append(log, written + 1) \in Seq(Nat)
         /\ <<written + 1>> \in Seq(Nat) /\ <<>> \in Seq(Nat)
         /\ <<written + 1>> # Gone /\ <<>> # Gone /\ (Exists => Append(log, written + 1) # Gone)
<1>1. <<>> \in Seq(Nat) /\ <<written + 1>> \in Seq(Nat)
  BY EmptySeq DEF TypeInv
<1>2. Exists => log \in Seq(Nat) /\ Append(log, written + 1) \in Seq(Nat) /\ Len(log) \in Nat
  BY DEF TypeInv, Exists
<1> QED BY <1>1, <1>2, LogAssumption DEF LogAssumption

LEMMA TypeClient ==
  ASSUME TypeInv, NEW c \in Clients, Seed(c) \/ Subscribe(c) \/ Pump(c) \/ Unsubscribe(c)
  PROVE  TypeInv'
<1>1. CASE Seed(c)
  BY <1>1 DEF Seed, TypeInv
<1>2. CASE Subscribe(c)
  <2>1. CASE Subs = {}
    <3>1. PICK f \in Followers : Start(f)
      BY <1>2, <2>1 DEF Subscribe
    <3>2. tail' \in [Followers -> TailType]
      BY <3>1, AsleepType DEF Start, TypeInv
    <3>3. fan' \in [Followers -> FanType] /\ pipe' \in [Followers -> Seq(Seq(Nat))]
      BY <3>1 DEF Start, TypeInv, FanType
    <3>4. cancel' \in Followers \cup {0} /\ racing' \in BOOLEAN
      BY <3>1 DEF Start, TypeInv
    <3> QED BY <1>2, <3>2, <3>3, <3>4 DEF Subscribe, TypeInv
  <2>2. CASE Subs # {}
    BY <1>2, <2>2 DEF Subscribe, TypeInv
  <2> QED BY <2>1, <2>2
<1>3. CASE Pump(c)
  <2>1. got[c] \in Seq(Seq(Nat)) /\ buf[c] \in Seq(Seq(Nat)) /\ buf[c] # <<>>
    BY <1>3 DEF Pump, TypeInv
  <2>2. Append(got[c], Head(buf[c])) \in Seq(Seq(Nat)) /\ SubSeq(buf[c], 2, Len(buf[c])) \in Seq(Seq(Nat))
    BY <2>1
  <2> QED BY <1>3, <2>2 DEF Pump, TypeInv
<1>4. CASE Unsubscribe(c)
  BY <1>4 DEF Unsubscribe, TypeInv
<1> QED BY <1>1, <1>2, <1>3, <1>4

\* A step of Follow changes its record, the channel and slipped.
LEMMA TypeOfTail ==
  ASSUME TypeInv, NEW f \in Followers, NEW t \in TailType, Tails(f, t), OnlyTail,
         pipe' \in [Followers -> Seq(Seq(Nat))], slipped' \in BOOLEAN
  PROVE  TypeInv'
  BY DEF TypeInv, Tails, OnlyTail

\* A tick: what Follow knows after it.
LEMMA StatTells ==
  ASSUME TypeInv, NEW f \in Followers, Stat(f)
  PROVE  \E r \in TailRec :
            /\ Tails(f, r)
            /\ \/ /\ ~Exists /\ r.pc = "wait" /\ r.pos = 0 /\ r.carry = <<>> /\ ~r.opened
                  /\ r.ino = tail[f].ino /\ r.turn = tail[f].turn
               \/ /\ Exists /\ r.opened /\ r.ino = inode /\ r.turn = turns
                  /\ IF Rotated(tail[f]) THEN r.pos = 0 /\ r.carry = <<>>
                                         ELSE r.pos = tail[f].pos /\ r.carry = tail[f].carry
                  /\ IF Len(log) > r.pos THEN r.pc = "read" /\ r.size = Len(log) ELSE r.pc = "wait"
<1>1. /\ tail[f] \in TailRec /\ tail[f].pc = "wait" /\ turns \in Nat /\ inode \in Nat /\ <<>> \in Seq(Nat)
      /\ (Exists => log \in Seq(Nat) /\ Len(log) \in Nat)
  BY TailFields, LogFacts, EmptySeq DEF TypeInv, TailType, Stat
<1>2. PICK t : t = tail[f]
  OBVIOUS
<1>3. CASE ~Exists
  <2>1. PICK r : r = [t EXCEPT !.pos = 0, !.carry = <<>>, !.opened = FALSE]
    OBVIOUS
  <2>2. Tails(f, r)
    BY <1>2, <1>3, <2>1 DEF Stat
  <2>3. r \in TailRec /\ r.pc = "wait" /\ r.pos = 0 /\ r.carry = <<>> /\ ~r.opened /\ r.ino = t.ino /\ r.turn = t.turn
    BY <1>1, <1>2, <2>1 DEF TailRec
  <2> QED BY <1>2, <1>3, <2>2, <2>3
<1>4. CASE Exists
  <2>1. PICK n : n = IF Rotated(t) THEN [t EXCEPT !.pos = 0, !.carry = <<>>, !.opened = TRUE] ELSE t
    OBVIOUS
  <2>2. PICK r : r = [n EXCEPT !.ino = inode, !.turn = turns,
                               !.size = IF Len(log) > n.pos THEN Len(log) ELSE 0,
                               !.pc = IF Len(log) > n.pos THEN "read" ELSE "wait"]
    OBVIOUS
  <2>3. Tails(f, r)
    BY <1>2, <1>4, <2>1, <2>2 DEF Stat
  <2>4. n \in TailRec /\ n.opened /\ IF Rotated(t) THEN n.pos = 0 /\ n.carry = <<>> ELSE n.pos = t.pos /\ n.carry = t.carry
    BY <1>1, <1>2, <2>1 DEF TailRec, Rotated
  <2>5. /\ r \in TailRec /\ r.opened /\ r.ino = inode /\ r.turn = turns /\ r.pos = n.pos /\ r.carry = n.carry
        /\ IF Len(log) > n.pos THEN r.pc = "read" /\ r.size = Len(log) ELSE r.pc = "wait"
    BY <1>1, <1>4, <2>2, <2>4 DEF TailRec
  <2> QED BY <1>2, <1>4, <2>3, <2>4, <2>5
<1> QED BY <1>3, <1>4

LEMMA TypeTail ==
  ASSUME TypeInv, NEW f \in Followers, Seek(f) \/ Stat(f) \/ Read(f) \/ Push(f) \/ Stop(f)
  PROVE  TypeInv'
<1> DEFINE t == tail[f]
<1>1. /\ t \in TailRec /\ t \in TailType /\ t.pos \in Nat /\ t.size \in Nat /\ t.carry \in Seq(Nat)
      /\ pipe \in [Followers -> Seq(Seq(Nat))] /\ pipe[f] \in Seq(Seq(Nat))
      /\ slipped \in BOOLEAN /\ turns \in Nat /\ inode \in Nat
      /\ Exists => log \in Seq(Nat) /\ Len(log) \in Nat
  BY TailFields, LogFacts DEF TypeInv, TailType
<1>2. Asleep \in TailRec /\ <<>> \in Seq(Nat)
  BY AsleepType, EmptySeq DEF TailType
<1>3. CASE Seek(f)
  <2>1. PICK r : Tails(f, r) /\ r = IF Exists THEN [Asleep EXCEPT !.pc = "wait", !.pos = Len(log), !.ino = inode,
                                                        !.opened = TRUE, !.turn = turns]
                                     ELSE [Asleep EXCEPT !.pc = "wait"]
    BY <1>3 DEF Seek
  <2>2. r \in TailRec /\ r.pc = "wait"
    BY <2>1, <1>1, <1>2 DEF TailRec
  <2>3. r \in TailType
    BY <2>2 DEF TailType
  <2> QED BY <1>1, <1>3, <2>1, <2>3, TypeOfTail DEF Seek
<1>4. CASE Stat(f)
  <2>1. PICK r \in TailRec : Tails(f, r) /\ r.pc \in {"wait", "read"}
    BY <1>4, StatTells
  <2>2. r \in TailType /\ slipped' \in BOOLEAN
    BY <1>1, <1>4, <2>1 DEF TailType, Stat
  <2> QED BY <1>1, <1>4, <2>1, <2>2, TypeOfTail DEF Stat
<1>5. CASE Read(f)
  <2> DEFINE bytes == IF Exists THEN SubSeq(log, t.pos + 1, Min({t.size, Len(log)})) ELSE <<>>
             data  == t.carry \o bytes
  <2>1. bytes \in Seq(Nat)
    <3>1. CASE Exists
      <4>1. Min({t.size, Len(log)}) \in 0 .. Len(log)
        <5>1. {t.size, Len(log)} \in SUBSET Nat /\ {t.size, Len(log)} # {}
          BY <1>1, <3>1
        <5>2. /\ Min({t.size, Len(log)}) \in {t.size, Len(log)}
              /\ \A k \in {t.size, Len(log)} : Min({t.size, Len(log)}) <= k
          BY <5>1, LeastOf
        <5> QED BY <1>1, <3>1, <5>2
      <4>2. \A i \in t.pos + 1 .. Min({t.size, Len(log)}) : log[i] \in Nat
        BY <1>1, <3>1, <4>1
      <4>3. t.pos + 1 \in Int /\ Min({t.size, Len(log)}) \in Int
        BY <1>1, <3>1, <4>1
      <4>4. SubSeq(log, t.pos + 1, Min({t.size, Len(log)})) \in Seq(Nat)
        BY <4>2, <4>3, SubSeqProperties
      <4> QED BY <3>1, <4>4
    <3>2. CASE ~Exists
      BY <3>2, EmptySeq
    <3> QED BY <3>1, <3>2
  <2>2. PICK b, d, n, q : /\ b = bytes /\ d = t.carry \o b /\ n = t.pos + Len(b)
                          /\ q = IF Exists THEN Ahead(d) ELSE "wait"
    OBVIOUS
  <2>3. \E r : Tails(f, r) /\ r = [t EXCEPT !.size = 0, !.pos = n, !.carry = d, !.pc = q]
    BY <1>1, <1>5, <2>2 DEF Read, TailRec
  <2> HIDE DEF bytes, data
  <2>4. b \in Seq(Nat) /\ Len(b) \in Nat /\ n \in Nat /\ d \in Seq(Nat)
    BY <2>1, <2>2, <1>1
  <2>5. PICK r : Tails(f, r) /\ r = [t EXCEPT !.size = 0, !.pos = n, !.carry = d, !.pc = q]
    BY <2>3
  <2>6. q \in {"push", "wait"} /\ (q = "push" => HasLine(d))
    BY <2>2 DEF Ahead
  <2>7. r \in TailRec
    BY <1>1, <2>4, <2>5, <2>6 DEF TailRec
  <2>8. r.carry = d /\ (r.pc = "push" => HasLine(d))
    BY <1>1, <2>5, <2>6 DEF TailRec
  <2>9. r \in TailType
    BY <2>7, <2>8 DEF TailType
  <2> QED BY <1>1, <1>5, <2>5, <2>9, TypeOfTail DEF Read
<1>6. CASE Push(f)
  <2>1. PICK d : d = Rest(t.carry)
    OBVIOUS
  <2>2. HasLine(t.carry)
    BY <1>6, TailFields DEF Push
  <2>3. FirstLine(t.carry) \in Seq(Nat) /\ d \in Seq(Nat)
    BY <1>1, <2>1, <2>2, LineIsFirst
  <2>4. PICK r : Tails(f, r) /\ r = [t EXCEPT !.carry = d, !.pc = Ahead(d)]
    BY <1>6, <1>1, <2>1 DEF Push, TailRec
  <2>5. Ahead(d) \in {"push", "wait"} /\ (Ahead(d) = "push" => HasLine(d))
    BY DEF Ahead
  <2>6. r \in TailRec /\ r.carry = d /\ r.pc = Ahead(d)
    BY <1>1, <2>3, <2>4, <2>5 DEF TailRec
  <2>7. r \in TailType
    BY <2>5, <2>6 DEF TailType
  <2>8. pipe' \in [Followers -> Seq(Seq(Nat))]
    <3>1. Append(pipe[f], FirstLine(t.carry)) \in Seq(Seq(Nat))
      BY <1>1, <2>3
    <3> QED BY <1>6, <1>1, <3>1 DEF Push
  <2> QED BY <1>1, <1>6, <2>4, <2>7, <2>8, TypeOfTail DEF Push
<1>7. CASE Stop(f)
  BY <1>1, <1>7, AsleepType, TypeOfTail DEF Stop
<1> QED BY <1>3, <1>4, <1>5, <1>6, <1>7

LEMMA TypeFan ==
  ASSUME TypeInv, NEW f \in Followers, Take(f) \/ Quit(f) \/ FanOut(f)
  PROVE  TypeInv'
<1>1. /\ pipe[f] \in Seq(Seq(Nat)) /\ fan[f] \in FanType /\ fan[f].line \in Seq(Nat)
      /\ fan \in [Followers -> FanType] /\ pipe \in [Followers -> Seq(Seq(Nat))]
  BY TailFields DEF TypeInv
<1>2. CASE Take(f)
  <2>1. pipe[f] # <<>> /\ Head(pipe[f]) \in Seq(Nat) /\ SubSeq(pipe[f], 2, Len(pipe[f])) \in Seq(Seq(Nat))
    BY <1>1, <1>2 DEF Take
  <2>2. fan' \in [Followers -> FanType] /\ pipe' \in [Followers -> Seq(Seq(Nat))]
    BY <1>1, <1>2, <2>1 DEF Take, FanType
  <2> QED BY <1>2, <2>2 DEF Take, OnlyFan, TypeInv
<1>3. CASE Quit(f)
  <2>1. fan' \in [Followers -> FanType]
    BY <1>1, <1>3 DEF Quit, FanType
  <2> QED BY <1>3, <2>1 DEF Quit, OnlyFan, TypeInv
<1>4. CASE FanOut(f)
  <2>1. fan' \in [Followers -> FanType]
    BY <1>1, <1>4, EmptySeq DEF FanOut, FanType
  <2>2. buf' \in [Clients -> Seq(Seq(Nat))]
    <3>1. \A c \in Clients : buf[c] \in Seq(Seq(Nat)) /\ Append(buf[c], fan[f].line) \in Seq(Seq(Nat))
      BY <1>1 DEF TypeInv
    <3> QED BY <1>4, <3>1 DEF FanOut
  <2>3. lost' \subseteq Clients
    BY <1>4 DEF FanOut, Subs, TypeInv
  <2> QED BY <1>4, <2>1, <2>2, <2>3 DEF FanOut, OnlyFan, TypeInv
<1> QED BY <1>2, <1>3, <1>4

LEMMA TypeFile ==
  ASSUME TypeInv, Write \/ Turn
  PROVE  TypeInv'
<1>1. CASE Write
  BY <1>1, LogFacts DEF Write, OnlyFile, TypeInv
<1>2. CASE Turn
  <2>1. (log' = Gone \/ log' \in Seq(Nat)) /\ inode' \in Nat /\ turns' \in Nat
    <3>1. <<>> \in Seq(Nat)
      BY EmptySeq
    <3>2. inode' \in Nat /\ turns' \in Nat
      BY <1>2 DEF Turn, TypeInv
    <3>3. log' = Gone \/ log' = <<>>
      BY <1>2 DEF Turn
    <3> QED BY <3>1, <3>2, <3>3
  <2> QED BY <1>2, <2>1 DEF Turn, OnlyFile, TypeInv
<1> QED BY <1>1, <1>2

LEMMA TypeStep == TypeInv /\ [Next]_vars => TypeInv'
<1> SUFFICES ASSUME TypeInv, [Next]_vars PROVE TypeInv'
  OBVIOUS
<1>1. CASE UNCHANGED vars
  BY <1>1 DEF vars, TypeInv
<1>2. CASE Next
  BY <1>2, TypeClient, TypeTail, TypeFan, TypeFile DEF Next
<1> QED BY <1>1, <1>2


-----------------------------------------------------------------------------
(* The file.                                                               *)

\* A half more, or nothing in the file: what was read before stays behind what comes.
LEMMA WriteFile ==
  ASSUME TypeInv, FileInv, Write
  PROVE  /\ FileInv' /\ Base' = Base /\ Base \in Nat /\ Exists'
         /\ (Exists => Len(log') = Len(log) + 1) /\ (~Exists => Len(log') = 1)
<1>1. written \in Nat /\ written' = written + 1
  BY DEF Write, TypeInv
<1>2. CASE Exists
  <2>1. log \in Seq(Nat) /\ Len(log) \in Nat /\ log' = Append(log, written + 1) /\ log' # Gone
    BY <1>2, LogFacts DEF Write
  <2>2. Len(log') = Len(log) + 1 /\ DOMAIN log' = 1 .. Len(log) + 1 /\ DOMAIN log = 1 .. Len(log)
    BY <2>1, <1>1
  <2>3. Exists' /\ Base = written - Len(log) /\ Base' = written' - Len(log')
    BY <1>2, <2>1 DEF Exists, Base
  <2>4. Base' = Base /\ Base \in Nat /\ Len(log') <= written'
    BY <1>1, <1>2, <2>1, <2>2, <2>3 DEF FileInv
  <2>5. \A k \in DOMAIN log' : log'[k] = Base' + k
    <3> SUFFICES ASSUME NEW k \in DOMAIN log' PROVE log'[k] = Base' + k
      OBVIOUS
    <3>1. CASE k \in DOMAIN log
      <4>1. log'[k] = log[k] /\ log[k] = Base + k
        BY <1>2, <2>1, <2>2, <3>1 DEF FileInv
      <4> QED BY <4>1, <2>4
    <3>2. CASE k = Len(log) + 1
      <4>1. log'[k] = written + 1
        BY <2>1, <3>2, <1>1
      <4> QED BY <4>1, <2>4, <2>3, <3>2, <1>1, <2>1
    <3> QED BY <3>1, <3>2, <2>2, <2>1
  <2> QED BY <1>2, <2>2, <2>3, <2>4, <2>5 DEF FileInv
<1>3. CASE ~Exists
  <2>1. log' = <<written + 1>> /\ Exists'
    BY <1>3, LogFacts DEF Write, Exists
  <2>2. Base = written /\ Base' = written' - Len(log')
    BY <1>3, <2>1 DEF Base
  <2>3. Len(log') = 1 /\ DOMAIN log' = {1} /\ log'[1] = written + 1
    BY <2>1, <1>1
  <2> QED BY <1>1, <1>3, <2>1, <2>2, <2>3 DEF FileInv
<1> QED BY <1>2, <1>3

LEMMA TurnFile ==
  ASSUME TypeInv, FileInv, Turn
  PROVE  /\ FileInv' /\ Base' = written /\ Base \in Nat /\ Base <= Base'
         /\ Base + Len(log) = Base' /\ Exists /\ turns' = turns + 1
<1>1. Exists /\ written \in Nat /\ written' = written /\ log \in Seq(Nat) /\ Len(log) \in Nat
  BY LogFacts DEF Turn, OnlyFile, TypeInv
<1>2. log' = Gone \/ log' = <<>>
  BY DEF Turn
<1>3. Base' = written
  <2>1. CASE log' = Gone
    BY <2>1, <1>1 DEF Base, Exists
  <2>2. CASE log' = <<>>
    <3>1. log' # Gone /\ Len(log') = 0
      BY <2>2, LogFacts
    <3> QED BY <3>1, <1>1 DEF Base, Exists
  <2> QED BY <1>2, <2>1, <2>2
<1>4. FileInv'
  <2>1. CASE log' = Gone
    BY <2>1 DEF FileInv, Exists
  <2>2. CASE log' = <<>>
    <3>1. Len(log') = 0 /\ DOMAIN log' = {}
      BY <2>2
    <3> QED BY <3>1, <1>1 DEF FileInv
  <2> QED BY <1>2, <2>1, <2>2
<1>5. Base = written - Len(log) /\ Len(log) <= written
  BY <1>1 DEF Base, FileInv
<1> QED BY <1>1, <1>3, <1>4, <1>5 DEF Turn

LEMMA FileStep ==
  ASSUME TypeInv, FileInv, [Next]_vars
  PROVE  FileInv'
<1>1. CASE UNCHANGED <<log, inode, turns, written>>
  BY <1>1 DEF FileInv, Base, Exists
<1>2. CASE Write
  BY <1>2, WriteFile
<1>3. CASE Turn
  BY <1>3, TurnFile
<1>4. UNCHANGED <<log, inode, turns, written>> \/ Write \/ Turn
  <2>1. CASE UNCHANGED vars
    BY <2>1 DEF vars
  <2>2. ASSUME NEW c \in Clients, Seed(c) \/ Subscribe(c) \/ Pump(c) \/ Unsubscribe(c)
        PROVE  UNCHANGED <<log, inode, turns, written>>
    BY <2>2 DEF Seed, Subscribe, Pump, Unsubscribe
  <2>3. ASSUME NEW f \in Followers, \/ Seek(f) \/ Stat(f) \/ Read(f) \/ Push(f) \/ Stop(f)
                                    \/ Take(f) \/ Quit(f) \/ FanOut(f)
        PROVE  UNCHANGED <<log, inode, turns, written>>
    BY <2>3 DEF Seek, Stat, Read, Push, Stop, Take, Quit, FanOut, OnlyTail, OnlyFan
  <2> QED BY <2>1, <2>2, <2>3 DEF Next
<1> QED BY <1>1, <1>2, <1>3, <1>4

LEMMA BaseType ==
  ASSUME TypeInv, FileInv
  PROVE  /\ Base \in Nat
         /\ Exists => \A k \in 1 .. Len(log) : log[k] = Base + k
<1>1. written \in Nat /\ (Exists => log \in Seq(Nat) /\ Len(log) \in Nat)
  BY LogFacts DEF TypeInv
<1> QED BY <1>1 DEF Base, FileInv

-----------------------------------------------------------------------------
(* Who listens and who follows.                                            *)

LEMMA HubClient ==
  ASSUME TypeInv, HubInv, NEW c \in Clients, Seed(c) \/ Subscribe(c) \/ Pump(c) \/ Unsubscribe(c)
  PROVE  HubInv'
<1>1. client \in [Clients -> {"away", "seeded", "live"}] /\ 0 \notin Followers
  BY LogAssumption DEF TypeInv, LogAssumption
<1>2. CASE Seed(c)
  <2>1. Subs' = Subs /\ client' = [client EXCEPT ![c] = "seeded"] /\ client[c] = "away"
    BY <1>1, <1>2 DEF Seed, Subs
  <2>2. \A d \in Clients : client'[d] # "live" => client[d] # "live"
    BY <1>1, <2>1
  <2> QED BY <1>2, <2>1, <2>2 DEF Seed, HubInv, Over
<1>3. CASE Subscribe(c)
  <2>1. client' = [client EXCEPT ![c] = "live"] /\ c \in Subs' /\ UNCHANGED <<got, buf>>
    BY <1>1, <1>3 DEF Subscribe, Subs
  <2>2. \A d \in Clients : client'[d] # "live" => client[d] # "live"
    BY <1>1, <2>1
  <2>3. CASE Subs = {}
    <3>1. PICK f \in Followers : Start(f)
      BY <1>3, <2>3 DEF Subscribe
    <3>2. cancel' = f /\ f # 0
      BY <1>1, <3>1 DEF Start
    <3>3. tail'[f].pc = "seek" /\ fan'[f].pc = "take"
      BY <3>1 DEF Start, TypeInv, Asleep
    <3>4. ASSUME ~racing', NEW g \in Followers, g # f PROVE Over(g)'
      <4>1. Over(g)
        BY <3>1, <3>4 DEF Start
      <4>2. tail'[g] = tail[g] /\ fan'[g] = fan[g]
        BY <3>1, <3>4 DEF Start, TypeInv
      <4> QED BY <4>1, <4>2 DEF Over
    <3> QED BY <2>1, <2>2, <3>2, <3>3, <3>4 DEF HubInv
  <2>4. CASE Subs # {}
    BY <1>3, <2>1, <2>2, <2>4 DEF Subscribe, HubInv, Over
  <2> QED BY <2>3, <2>4
<1>4. CASE Pump(c)
  <2>1. client[c] = "live" /\ client' = client /\ Subs' = Subs
    BY <1>4 DEF Pump, Subs
  <2>2. \A d \in Clients : d # c => got'[d] = got[d] /\ buf'[d] = buf[d]
    BY <1>4 DEF Pump, TypeInv
  <2> QED BY <1>4, <2>1, <2>2 DEF Pump, HubInv, Over
<1>5. CASE Unsubscribe(c)
  <2>1. Subs' = Subs \ {c} /\ c \in Subs
    BY <1>1, <1>5 DEF Unsubscribe, Subs
  <2>2. cancel' = 0 <=> Subs' = {}
    BY <1>5, <2>1 DEF Unsubscribe, HubInv
  <2>3. cancel' # 0 => cancel' = cancel
    BY <1>5 DEF Unsubscribe
  <2>4. \A d \in Clients : client'[d] # "live" => got'[d] = <<>> /\ buf'[d] = <<>>
    BY <1>1, <1>5 DEF Unsubscribe, TypeInv, HubInv
  <2> QED BY <1>5, <2>2, <2>3, <2>4 DEF Unsubscribe, HubInv, Over
<1> QED BY <1>2, <1>3, <1>4, <1>5

\* What a step of Follow does beside the file's position and the data.
LEMMA TailFrame ==
  ASSUME TypeInv, NEW f \in Followers, Seek(f) \/ Stat(f) \/ Read(f) \/ Push(f) \/ Stop(f)
  PROVE  /\ tail[f].pc # "off" /\ (tail'[f].pc = "off" => f # cancel)
         /\ \A g \in Followers : g # f => tail'[g] = tail[g] /\ pipe'[g] = pipe[g]
         /\ OnlyTail /\ (slipped => slipped')
<1>1. tail[f] \in TailRec /\ tail \in [Followers -> TailType] /\ pipe \in [Followers -> Seq(Seq(Nat))]
  BY TailFields DEF TypeInv, TailType
<1>2. CASE Seek(f)
  BY <1>1, <1>2 DEF Seek, Tails, Asleep
<1>3. CASE Stat(f)
  <2>1. PICK r : Tails(f, r) /\ r.pc \in {"wait", "read"}
    BY <1>3, StatTells
  <2>2. tail'[f] = r /\ \A g \in Followers : g # f => tail'[g] = tail[g]
    BY <1>1, <2>1 DEF Tails
  <2>3. tail[f].pc = "wait" /\ OnlyTail /\ UNCHANGED pipe
    BY <1>3 DEF Stat
  <2>4. slipped => slipped'
    <3>1. UNCHANGED slipped \/ (slipped' <=> slipped \/ (~Rotated(tail[f]) /\ tail[f].turn # turns /\ tail[f].pos > 0))
      BY <1>3, Zenon DEF Stat
    <3> QED BY <3>1, Zenon
  <2> QED BY <2>1, <2>2, <2>3, <2>4
<1>4. CASE Read(f)
  BY <1>1, <1>4 DEF Read, Tails, TailRec, Ahead
<1>5. CASE Push(f)
  BY <1>1, <1>5 DEF Push, Tails, TailRec, Ahead
<1>6. CASE Stop(f)
  BY <1>1, <1>6 DEF Stop, Tails, Asleep, Cancelled
<1> QED BY <1>2, <1>3, <1>4, <1>5, <1>6

LEMMA HubTail ==
  ASSUME TypeInv, HubInv, NEW f \in Followers, Seek(f) \/ Stat(f) \/ Read(f) \/ Push(f) \/ Stop(f)
  PROVE  HubInv'
<1>1. /\ tail[f].pc # "off" /\ (tail'[f].pc = "off" => f # cancel)
      /\ \A g \in Followers : g # f => tail'[g] = tail[g]
      /\ UNCHANGED <<client, got, buf, cancel, fan, racing>>
  BY TailFrame DEF OnlyTail
<1>2. Subs' = Subs
  BY <1>1 DEF Subs
<1>3. cancel # 0 => cancel \in Followers
  BY DEF TypeInv
<1>4. cancel' # 0 => tail'[cancel'].pc # "off" /\ fan'[cancel'].pc # "off"
  BY <1>1, <1>3 DEF HubInv
<1>5. ~racing' /\ cancel' # 0 => \A g \in Followers : g # cancel' => Over(g)'
  <2> SUFFICES ASSUME ~racing, cancel # 0, NEW g \in Followers, g # cancel PROVE Over(g)'
    BY <1>1
  <2>1. Over(g)
    BY DEF HubInv
  <2>2. g # f
    BY <1>1, <2>1 DEF Over
  <2> QED BY <1>1, <2>1, <2>2 DEF Over
<1> QED BY <1>1, <1>2, <1>4, <1>5 DEF HubInv

LEMMA FanFrame ==
  ASSUME TypeInv, HubInv, NEW f \in Followers, Take(f) \/ Quit(f) \/ FanOut(f)
  PROVE  /\ fan[f].pc # "off" /\ (fan'[f].pc = "off" => f # cancel)
         /\ \A g \in Followers : g # f => fan'[g] = fan[g] /\ pipe'[g] = pipe[g]
         /\ OnlyFan
<1>1. fan[f] \in FanType /\ fan \in [Followers -> FanType] /\ pipe \in [Followers -> Seq(Seq(Nat))]
      /\ 0 \notin Followers
  BY TailFields, LogAssumption DEF TypeInv, LogAssumption
<1>2. CASE Take(f)
  BY <1>1, <1>2 DEF Take
<1>3. CASE Quit(f)
  BY <1>1, <1>3 DEF Quit, Cancelled, HubInv
<1>4. CASE FanOut(f)
  BY <1>1, <1>4 DEF FanOut
<1> QED BY <1>2, <1>3, <1>4

LEMMA HubFan ==
  ASSUME TypeInv, HubInv, NEW f \in Followers, Take(f) \/ Quit(f) \/ FanOut(f)
  PROVE  HubInv'
<1>1. /\ fan[f].pc # "off" /\ (fan'[f].pc = "off" => f # cancel)
      /\ \A g \in Followers : g # f => fan'[g] = fan[g]
      /\ UNCHANGED <<client, got, cancel, tail, racing>>
  BY FanFrame DEF OnlyFan
<1>2. Subs' = Subs
  BY <1>1 DEF Subs
<1>3. cancel # 0 => cancel \in Followers
  BY DEF TypeInv
<1>4. cancel' # 0 => tail'[cancel'].pc # "off" /\ fan'[cancel'].pc # "off"
  BY <1>1, <1>3 DEF HubInv
<1>5. ~racing' /\ cancel' # 0 => \A g \in Followers : g # cancel' => Over(g)'
  <2> SUFFICES ASSUME ~racing, cancel # 0, NEW g \in Followers, g # cancel PROVE Over(g)'
    BY <1>1
  <2>1. Over(g)
    BY DEF HubInv
  <2>2. g # f
    BY <1>1, <2>1 DEF Over
  <2> QED BY <1>1, <2>1, <2>2 DEF Over
<1>6. \A c \in Clients : client'[c] # "live" => buf'[c] = <<>>
  <2> SUFFICES ASSUME NEW c \in Clients, client[c] # "live" PROVE buf'[c] = <<>>
    BY <1>1
  <2>1. buf[c] = <<>> /\ c \notin Subs
    BY DEF HubInv, Subs
  <2>2. buf' = buf \/ \E g \in Followers : FanOut(g)
    BY DEF Take, Quit
  <2>3. buf'[c] = buf[c]
    BY <2>1, <2>2 DEF FanOut
  <2> QED BY <2>1, <2>3
<1> QED BY <1>1, <1>2, <1>4, <1>5, <1>6 DEF HubInv

LEMMA HubStep ==
  ASSUME TypeInv, HubInv, [Next]_vars
  PROVE  HubInv'
<1>1. CASE UNCHANGED <<client, got, buf, cancel, tail, fan, racing>>
  BY <1>1 DEF HubInv, Over, Subs
<1>2. CASE Write \/ Turn
  BY <1>1, <1>2 DEF Write, Turn, OnlyFile
<1>3. CASE UNCHANGED vars
  BY <1>1, <1>3 DEF vars
<1> QED BY <1>2, <1>3, HubClient, HubTail, HubFan DEF Next

-----------------------------------------------------------------------------
(* Where the followers are.                                                *)

\* The edge moves on, and stays while the file has not been turned over.
Onward(e, d) == e <= d /\ (turns = 0 => d = e)

LEMMA PosFacts ==
  ASSUME TypeInv, FileInv, NEW t \in TailRec
  PROVE  /\ Mark(t) \in Nat /\ Base \in Nat /\ Base <= Mark(t)
         /\ Len(t.carry) \in Nat /\ (t.carry = <<>> <=> Len(t.carry) = 0)
         /\ DOMAIN t.carry = 1 .. Len(t.carry)
         /\ (HasLine(t.carry) => t.carry # <<>>)
<1>1. Base \in Nat /\ t.pos \in Nat /\ t.carry \in Seq(Nat)
  BY BaseType DEF TailRec
<1>2. Len(t.carry) \in Nat /\ (t.carry = <<>> <=> Len(t.carry) = 0) /\ DOMAIN t.carry = 1 .. Len(t.carry)
  BY <1>1, EmptySeq
<1>3. HasLine(t.carry) => t.carry # <<>>
  BY <1>2 DEF HasLine
<1> QED BY <1>1, <1>2, <1>3 DEF Mark

\* A follower that carries nothing knows only the position.
LEMMA PosEmpty ==
  ASSUME TypeInv, FileInv, NEW t \in TailRec, t.carry = <<>>, t.pc # "push",
         t.turn <= turns,
         t.turn = turns => t.pos <= IF Exists THEN Len(log) ELSE 0,
         t.turn = turns /\ t.opened => t.ino = inode,
         ~t.opened => t.pos = 0,
         t.pc = "read" => t.opened /\ t.size > t.pos /\ (t.turn = turns => Exists /\ t.size <= Len(log))
  PROVE  PosInv(t) /\ Edge(t) = Mark(t)
<1>1. Mark(t) \in Nat /\ Len(t.carry) = 0 /\ DOMAIN t.carry = {} /\ ~HasLine(t.carry)
  BY PosFacts
<1>2. Edge(t) = Mark(t)
  BY DEF Edge
<1>3. Edge(t) + Len(t.carry) = Mark(t)
  BY <1>1, <1>2
<1> QED BY <1>1, <1>2, <1>3 DEF PosInv

LEMMA PosAsleep ==
  ASSUME TypeInv, FileInv, NEW t \in TailRec, t = Asleep \/ t = [Asleep EXCEPT !.pc = "seek"]
  PROVE  PosInv(t) /\ Edge(t) = Base
<1>1. /\ t.carry = <<>> /\ t.pc \in {"off", "seek"} /\ t.turn = 0 /\ t.pos = 0 /\ t.opened = FALSE
  BY DEF Asleep
<1>2. turns \in Nat /\ Base \in Nat /\ (Exists => Len(log) \in Nat)
  BY BaseType, LogFacts DEF TypeInv
<1>3. PosInv(t) /\ Edge(t) = Mark(t)
  BY <1>1, <1>2, PosEmpty
<1> QED BY <1>1, <1>2, <1>3 DEF Mark

LEMMA PosSeek ==
  ASSUME TypeInv, FileInv, NEW f \in Followers, Seek(f)
  PROVE  \E r \in TailRec : Tails(f, r) /\ PosInv(r)
<1>1. Asleep \in TailRec /\ turns \in Nat /\ inode \in Nat /\ (Exists => Len(log) \in Nat)
  BY AsleepType, LogFacts DEF TypeInv, TailType
<1>2. CASE Exists
  <2>1. PICK r : r = [Asleep EXCEPT !.pc = "wait", !.pos = Len(log), !.ino = inode,
                                    !.opened = TRUE, !.turn = turns]
    OBVIOUS
  <2>2. Tails(f, r)
    BY <1>2, <2>1 DEF Seek
  <2>3. /\ r \in TailRec /\ r.pc = "wait" /\ r.pos = Len(log) /\ r.ino = inode /\ r.opened = TRUE /\ r.turn = turns
        /\ r.carry = <<>>
    BY <1>1, <1>2, <2>1 DEF TailRec, Asleep
  <2>4. PosInv(r)
    BY <1>1, <1>2, <2>3, PosEmpty
  <2> QED BY <2>2, <2>3, <2>4
<1>3. CASE ~Exists
  <2>1. PICK r : r = [Asleep EXCEPT !.pc = "wait"]
    OBVIOUS
  <2>2. Tails(f, r)
    BY <1>3, <2>1 DEF Seek
  <2>3. r \in TailRec /\ r.pc = "wait" /\ r.pos = 0 /\ r.opened = FALSE /\ r.turn = 0 /\ r.carry = <<>>
    BY <1>1, <2>1 DEF TailRec, Asleep
  <2>4. PosInv(r)
    BY <1>1, <1>3, <2>3, PosEmpty
  <2> QED BY <2>2, <2>3, <2>4
<1> QED BY <1>2, <1>3

\* A tick hands nothing on, and what it drops was of another file.
LEMMA PosStat ==
  ASSUME TypeInv, FileInv, NEW f \in Followers, Stat(f), PosInv(tail[f]), ~slipped'
  PROVE  \E r \in TailRec : Tails(f, r) /\ PosInv(r) /\ Onward(Edge(tail[f]), Edge(r))
<1>1. PICK t : t = tail[f]
  OBVIOUS
<1>2. /\ t \in TailRec /\ t.pos \in Nat /\ t.turn \in Nat /\ turns \in Nat /\ t.pc = "wait" /\ t.size \in Nat
      /\ (Exists => log \in Seq(Nat) /\ Len(log) \in Nat) /\ Base \in Nat /\ <<>> \in Seq(Nat) /\ t.carry \in Seq(Nat)
  BY <1>1, TailFields, LogFacts, BaseType, EmptySeq DEF TypeInv, TailType, Stat
<1>3. /\ t.turn <= turns
      /\ t.turn = turns => t.pos <= IF Exists THEN Len(log) ELSE 0
      /\ t.turn = turns /\ t.opened => t.ino = inode
      /\ ~t.opened => t.pos = 0
      /\ t.pos = 0 => t.carry = <<>>
      /\ ~HasLine(t.carry)
      /\ Edge(t) \in Nat
      /\ \A k \in DOMAIN t.carry : t.carry[k] = Edge(t) + k
      /\ Edge(t) + Len(t.carry) <= Mark(t)
      /\ t.turn = turns => Edge(t) + Len(t.carry) = Mark(t)
  BY <1>1, <1>2 DEF PosInv
<1>4. /\ Mark(t) \in Nat /\ Len(t.carry) \in Nat /\ (t.carry = <<>> <=> Len(t.carry) = 0)
      /\ Mark(t) = IF t.turn = turns THEN Base + t.pos ELSE Base
  BY <1>2, PosFacts DEF Mark
<1>5. PICK r \in TailRec :
            /\ Tails(f, r)
            /\ \/ /\ ~Exists /\ r.pc = "wait" /\ r.pos = 0 /\ r.carry = <<>> /\ ~r.opened
                  /\ r.ino = t.ino /\ r.turn = t.turn
               \/ /\ Exists /\ r.opened /\ r.ino = inode /\ r.turn = turns
                  /\ IF Rotated(t) THEN r.pos = 0 /\ r.carry = <<>>
                                   ELSE r.pos = t.pos /\ r.carry = t.carry
                  /\ IF Len(log) > r.pos THEN r.pc = "read" /\ r.size = Len(log) ELSE r.pc = "wait"
  BY <1>1, StatTells
<1>6. CASE ~Exists
  <2>1. r.pc = "wait" /\ r.pos = 0 /\ r.carry = <<>> /\ ~r.opened /\ r.turn = t.turn
    BY <1>5, <1>6
  <2>2. PosInv(r) /\ Edge(r) = Mark(r)
    BY <1>2, <1>3, <1>6, <2>1, PosEmpty
  <2>3. Mark(r) = Base
    BY <1>2, <2>1 DEF Mark
  <2>4. Edge(t) <= Base /\ (turns = 0 => Edge(t) = Base)
    BY <1>2, <1>3, <1>4, <1>6
  <2> QED BY <1>1, <1>5, <2>2, <2>3, <2>4 DEF Onward
<1>7. CASE Exists
  <2>1. /\ r.opened /\ r.ino = inode /\ r.turn = turns
        /\ IF Rotated(t) THEN r.pos = 0 /\ r.carry = <<>> ELSE r.pos = t.pos /\ r.carry = t.carry
        /\ IF Len(log) > r.pos THEN r.pc = "read" /\ r.size = Len(log) ELSE r.pc = "wait"
    BY <1>5, <1>7
  <2>2. Rotated(t) <=> ~t.opened \/ Len(log) < t.pos \/ t.ino # inode
    BY DEF Rotated
  <2>3. CASE r.carry = <<>> /\ r.pos = 0
    <3>1. PosInv(r) /\ Edge(r) = Mark(r)
      BY <1>2, <1>7, <2>1, <2>3, PosEmpty
    <3>2. Mark(r) = Base
      BY <1>2, <2>1, <2>3 DEF Mark
    <3>3. t.turn = turns => t.pos = 0
      BY <1>2, <1>3, <1>7, <2>1, <2>2, <2>3
    <3>4. Edge(t) <= Base /\ (turns = 0 => Edge(t) = Base)
      BY <1>2, <1>3, <1>4, <3>3
    <3> QED BY <1>1, <1>5, <3>1, <3>2, <3>4 DEF Onward
  <2>4. CASE ~(r.carry = <<>> /\ r.pos = 0)
    <3>1. ~Rotated(t) /\ r.pos = t.pos /\ r.carry = t.carry /\ t.pos > 0
      BY <1>2, <1>3, <2>1, <2>4
    <3>2. t.turn = turns
      <4>1. slipped' <=> slipped \/ (~Rotated(t) /\ t.turn # turns /\ t.pos > 0)
        BY <1>1, <1>7, Zenon DEF Stat
      <4> QED BY <3>1, <4>1
    <3>3. Mark(r) = Mark(t) /\ Edge(r) = Edge(t)
      BY <2>1, <3>1, <3>2 DEF Mark, Edge
    <3>4. t.pos <= Len(log)
      BY <1>3, <1>7, <3>2
    <3>5. PosInv(r)
      BY <1>2, <1>3, <1>7, <2>1, <3>1, <3>2, <3>3, <3>4 DEF PosInv
    <3> QED BY <1>1, <1>3, <1>5, <3>3, <3>5 DEF Onward
  <2> QED BY <2>3, <2>4
<1> QED BY <1>6, <1>7

\* What is read adjoins what is carried.
LEMMA PosRead ==
  ASSUME TypeInv, FileInv, NEW f \in Followers, Read(f), PosInv(tail[f]), ~slipped'
  PROVE  \E r \in TailRec : Tails(f, r) /\ PosInv(r) /\ Edge(r) = Edge(tail[f])
<1>1. PICK t : t = tail[f]
  OBVIOUS
<1>2. /\ t \in TailRec /\ t.pos \in Nat /\ t.turn \in Nat /\ turns \in Nat /\ t.pc = "read" /\ t.size \in Nat
      /\ (Exists => log \in Seq(Nat) /\ Len(log) \in Nat) /\ Base \in Nat /\ t.carry \in Seq(Nat)
      /\ t.ino \in Nat /\ t.opened \in BOOLEAN
  BY <1>1, TailFields, LogFacts, BaseType DEF TypeInv, TailType, Read
<1>3. /\ t.turn <= turns
      /\ t.turn = turns => t.pos <= IF Exists THEN Len(log) ELSE 0
      /\ t.turn = turns /\ t.opened => t.ino = inode
      /\ ~t.opened => t.pos = 0
      /\ t.pos = 0 => t.carry = <<>>
      /\ t.opened /\ t.size > t.pos /\ (t.turn = turns => Exists /\ t.size <= Len(log))
      /\ ~HasLine(t.carry)
      /\ Edge(t) \in Nat
      /\ \A k \in DOMAIN t.carry : t.carry[k] = Edge(t) + k
      /\ Edge(t) + Len(t.carry) <= Mark(t)
      /\ t.turn = turns => Edge(t) + Len(t.carry) = Mark(t)
  BY <1>1, <1>2 DEF PosInv
<1>4. CASE ~Exists
  <2>1. PICK n, d : n = t.pos + Len(<<>>) /\ d = t.carry \o <<>>
    OBVIOUS
  <2>2. PICK r : Tails(f, r) /\ r = [t EXCEPT !.size = 0, !.pos = n, !.carry = d, !.pc = "wait"]
    BY <1>1, <1>2, <1>4, <2>1 DEF Read, TailRec
  <2>3. n = t.pos /\ d = t.carry
    <3>1. Len(<<>>) = 0
      OBVIOUS
    <3> QED BY <1>2, <2>1, <3>1, EmptySeq
  <2>4. /\ r \in TailRec /\ r.pos = t.pos /\ r.carry = t.carry /\ r.pc = "wait" /\ r.turn = t.turn
        /\ r.opened = t.opened /\ r.ino = t.ino
    BY <1>2, <2>2, <2>3 DEF TailRec
  <2>5. Mark(r) = Mark(t) /\ Edge(r) = Edge(t)
    BY <2>4 DEF Mark, Edge
  <2>6. PosInv(r)
    BY <1>3, <2>4, <2>5 DEF PosInv
  <2> QED BY <1>1, <2>2, <2>4, <2>5, <2>6
<1>5. CASE Exists
  <2>1. t.turn = turns
    <3>1. slipped' <=> slipped \/ (Exists /\ t.turn # turns)
      BY <1>1, Zenon DEF Read
    <3> QED BY <1>5, <3>1
  <2>2. PICK n : n = Len(log)
    OBVIOUS
  <2>3. n \in Nat /\ t.size \in t.pos + 1 .. n /\ log \in Seq(Nat) /\ \A k \in 1 .. n : log[k] = Base + k
    BY <1>2, <1>3, <1>5, <2>1, <2>2, BaseType
  <2>4. Min({t.size, n}) = t.size
    <3>1. {t.size, n} \in SUBSET Nat /\ {t.size, n} # {}
      BY <1>2, <2>3
    <3>2. Min({t.size, n}) \in {t.size, n} /\ \A k \in {t.size, n} : Min({t.size, n}) <= k
      BY <3>1, LeastOf
    <3> QED BY <2>3, <3>2
  <2>5. PICK b : b = SubSeq(log, t.pos + 1, t.size)
    OBVIOUS
  <2>6. /\ b \in Seq(Nat) /\ Len(b) = t.size - t.pos /\ Len(b) \in Nat \ {0}
        /\ \A k \in 1 .. Len(b) : b[k] = Base + t.pos + k
    <3>1. t.pos + 1 \in Int /\ t.size \in Int /\ t.pos + 1 <= t.size /\ \A i \in t.pos + 1 .. t.size : log[i] \in Nat
      BY <1>2, <2>3
    <3>2. /\ b \in Seq(Nat) /\ Len(b) = t.size - (t.pos + 1) + 1
          /\ \A i \in 1 .. t.size - (t.pos + 1) + 1 : b[i] = log[(t.pos + 1) + i - 1]
      BY <3>1, <2>5, SubSeqProperties
    <3>3. Len(b) = t.size - t.pos /\ Len(b) \in Nat \ {0}
      BY <1>2, <3>1, <3>2
    <3>4. ASSUME NEW k \in 1 .. Len(b) PROVE b[k] = Base + t.pos + k
      <4>1. PICK p, z : p = t.pos /\ z = t.size
        OBVIOUS
      <4>2. k \in Nat /\ 1 <= k /\ k <= z - p /\ p \in Nat /\ z \in Nat /\ n \in Nat /\ z <= n
        BY <1>2, <2>3, <3>3, <3>4, <4>1
      <4>3. (p + 1) + k - 1 = p + k /\ p + k \in 1 .. n /\ k \in 1 .. z - (p + 1) + 1
        BY <4>2
      <4>4. (t.pos + 1) + k - 1 = t.pos + k /\ t.pos + k \in 1 .. n /\ k \in 1 .. t.size - (t.pos + 1) + 1
        BY <4>1, <4>3
      <4>5. b[k] = log[t.pos + k] /\ log[t.pos + k] = Base + (t.pos + k)
        BY <4>4, <3>2, <2>3
      <4> QED BY <4>4, <4>5, <1>2, <2>3
    <3> QED BY <3>2, <3>3, <3>4
  <2>7. PICK d : d = t.carry \o b
    OBVIOUS
  <2>8. /\ d \in Seq(Nat) /\ Len(d) = Len(t.carry) + Len(b) /\ Len(t.carry) \in Nat
        /\ \A k \in 1 .. Len(t.carry) : d[k] = t.carry[k]
        /\ \A k \in 1 .. Len(b) : d[Len(t.carry) + k] = b[k]
    <3>1. PICK c : c = t.carry
      OBVIOUS
    <3>2. c \in Seq(Nat) /\ b \in Seq(Nat) /\ d = c \o b
      BY <1>2, <2>6, <2>7, <3>1
    <3>3. /\ d \in Seq(Nat) /\ Len(d) = Len(c) + Len(b) /\ Len(c) \in Nat
          /\ \A k \in 1 .. Len(c) : d[k] = c[k]
          /\ \A k \in 1 .. Len(b) : d[Len(c) + k] = b[k]
      BY <3>2
    <3> QED BY <3>1, <3>3
  <2>9. PICK r : r = [t EXCEPT !.size = 0, !.pos = @ + Len(b), !.carry = d, !.pc = Ahead(d)]
    OBVIOUS
  <2>10. Tails(f, r)
    BY <1>1, <1>2, <1>5, <2>2, <2>4, <2>5, <2>7, <2>9 DEF Read, TailRec
  <2>11. /\ r \in TailRec /\ r.pos = t.pos + Len(b) /\ r.pos = t.size /\ r.carry = d /\ r.pc = Ahead(d) /\ r.turn = t.turn
         /\ r.opened = t.opened /\ r.ino = t.ino
    <3>1. Ahead(d) \in {"wait", "push"} /\ t.pos + Len(b) \in Nat /\ t.pos + Len(b) = t.size
      BY <1>2, <2>6 DEF Ahead
    <3> QED BY <1>2, <2>8, <2>9, <3>1 DEF TailRec
  <2>12. /\ Mark(t) = Base + t.pos /\ Mark(r) = Base + t.pos + Len(b) /\ Mark(r) \in Nat
    BY <1>2, <2>1, <2>6, <2>11 DEF Mark
  <2>13. \A k \in 1 .. Len(d) : d[k] = Edge(t) + k
    <3> SUFFICES ASSUME NEW k \in 1 .. Len(d) PROVE d[k] = Edge(t) + k
      OBVIOUS
    <3>1. CASE k <= Len(t.carry)
      <4>1. k \in DOMAIN t.carry /\ d[k] = t.carry[k]
        BY <1>2, <2>8, <3>1
      <4> QED BY <4>1, <1>3
    <3>2. CASE k > Len(t.carry)
      <4>1. k - Len(t.carry) \in 1 .. Len(b) /\ k = Len(t.carry) + (k - Len(t.carry))
        BY <2>8, <2>6, <3>2
      <4>2. PICK m \in 1 .. Len(b) : k = Len(t.carry) + m
        BY <4>1
      <4>3. d[k] = Base + t.pos + m
        BY <4>2, <2>6, <2>8
      <4> QED BY <1>2, <1>3, <2>1, <2>8, <2>12, <4>2, <4>3
    <3> QED BY <3>1, <3>2, <2>8
  <2>14. Edge(r) = Edge(t)
    <3>1. d # <<>> /\ 1 \in 1 .. Len(d)
      BY <2>6, <2>8
    <3>2. d[1] = Edge(t) + 1
      BY <2>13, <3>1
    <3> QED BY <1>3, <2>11, <3>1, <3>2 DEF Edge
  <2>15. Edge(r) + Len(d) = Mark(r)
    BY <1>2, <1>3, <2>1, <2>6, <2>8, <2>12, <2>14
  <2>16. r.pc = "push" <=> HasLine(d)
    BY <2>11 DEF Ahead
  <2>17. r.pos <= Len(log) /\ r.pos # 0 /\ r.pc # "read"
    BY <1>2, <2>2, <2>3, <2>11, <2>16 DEF Ahead
  <2>18. DOMAIN r.carry = 1 .. Len(d)
    BY <2>8, <2>11
  <2>19. \A k \in DOMAIN r.carry : r.carry[k] = Edge(r) + k
    BY <2>11, <2>13, <2>14, <2>18
  <2>20. Mark(r) <= Mark(r)
    BY <2>12
  <2>21. r.turn = turns /\ (r.opened => r.ino = inode) /\ (~r.opened => r.pos = 0) /\ turns <= turns
    <3>1. t.opened /\ t.ino = inode
      BY <1>3, <2>1
    <3> QED BY <1>2, <2>1, <2>11, <3>1
  <2>22. Edge(r) \in Nat /\ Edge(r) + Len(r.carry) = Mark(r) /\ Edge(r) + Len(r.carry) <= Mark(r)
    BY <1>3, <2>11, <2>14, <2>15, <2>20
  <2>23. PosInv(r)
    BY <1>5, <2>11, <2>16, <2>17, <2>19, <2>21, <2>22 DEF PosInv
  <2> QED BY <1>1, <2>10, <2>11, <2>14, <2>23
<1> QED BY <1>4, <1>5

\* What is handed on is the line behind the edge.
LEMMA PosPush ==
  ASSUME TypeInv, FileInv, NEW f \in Followers, Push(f), PosInv(tail[f])
  PROVE  /\ FirstLine(tail[f].carry) \in Line
         /\ Head(FirstLine(tail[f].carry)) = Edge(tail[f]) + 1
         /\ \E r \in TailRec : Tails(f, r) /\ PosInv(r) /\ Onward(Last(FirstLine(tail[f].carry)), Edge(r))
<1>1. PICK t : t = tail[f]
  OBVIOUS
<1>2. /\ t \in TailRec /\ t.pos \in Nat /\ t.turn \in Nat /\ turns \in Nat /\ t.pc = "push"
      /\ t.carry \in Seq(Nat) /\ Base \in Nat
  BY <1>1, TailFields, BaseType DEF TypeInv, TailType, Push
<1>3. /\ t.turn <= turns
      /\ t.turn = turns => t.pos <= IF Exists THEN Len(log) ELSE 0
      /\ t.turn = turns /\ t.opened => t.ino = inode
      /\ ~t.opened => t.pos = 0
      /\ t.pos = 0 => t.carry = <<>>
      /\ HasLine(t.carry)
      /\ Edge(t) \in Nat
      /\ \A k \in DOMAIN t.carry : t.carry[k] = Edge(t) + k
      /\ Edge(t) + Len(t.carry) <= Mark(t)
      /\ t.turn = turns => Edge(t) + Len(t.carry) = Mark(t)
  BY <1>1, <1>2 DEF PosInv
<1>4. PICK m, d : m = LineEnd(t.carry) /\ d = Rest(t.carry)
  OBVIOUS
<1>5. /\ FirstLine(t.carry) \in Line
      /\ Head(FirstLine(t.carry)) = Edge(t) + 1
      /\ Last(FirstLine(t.carry)) = Edge(t) + m
      /\ \A k \in DOMAIN d : d[k] = Edge(t) + m + k
  BY <1>2, <1>3, <1>4, RunSplits
<1>6. /\ m \in 1 .. Len(t.carry) /\ d \in Seq(Nat) /\ Len(d) = Len(t.carry) - m
      /\ Len(t.carry) \in Nat /\ t.carry # <<>>
  BY <1>2, <1>3, <1>4, LineIsFirst, PosFacts
<1>7. PICK r : r = [t EXCEPT !.carry = d, !.pc = Ahead(d)]
  OBVIOUS
<1>8. Tails(f, r)
  BY <1>1, <1>2, <1>4, <1>7 DEF Push, TailRec
<1>9. /\ r \in TailRec /\ r.pos = t.pos /\ r.carry = d /\ r.pc = Ahead(d) /\ r.turn = t.turn
      /\ r.opened = t.opened /\ r.ino = t.ino
  <2>1. Ahead(d) \in {"wait", "push"}
    BY DEF Ahead
  <2> QED BY <1>2, <1>6, <1>7, <2>1 DEF TailRec
<1>10. Mark(r) = Mark(t) /\ Mark(t) \in Nat
  BY <1>2, <1>9, PosFacts DEF Mark
<1>11. CASE d = <<>>
  <2>1. PosInv(r) /\ Edge(r) = Mark(r)
    <3>1. r.pc = "wait"
      BY <1>9, <1>11 DEF Ahead, HasLine
    <3> QED BY <1>3, <1>9, <1>11, <3>1, PosEmpty
  <2>2. m = Len(t.carry)
    BY <1>6, <1>11
  <2>3. Edge(t) + m <= Mark(r) /\ (turns = 0 => Edge(t) + m = Mark(r))
    BY <1>2, <1>3, <1>10, <2>2
  <2> QED BY <1>1, <1>5, <1>8, <1>9, <2>1, <2>3 DEF Onward
<1>12. CASE d # <<>>
  <2>1. 1 \in DOMAIN d /\ DOMAIN d = 1 .. Len(d) /\ Len(d) \in Nat
    BY <1>6, <1>12
  <2>2. Edge(r) = Edge(t) + m
    <3>1. d[1] = Edge(t) + m + 1
      BY <1>5, <2>1
    <3> QED BY <1>3, <1>6, <1>9, <1>12, <3>1 DEF Edge
  <2>3. Edge(r) + Len(d) = Edge(t) + Len(t.carry) /\ Edge(r) \in Nat
    BY <1>3, <1>6, <2>2
  <2>4. r.pc = "push" <=> HasLine(d)
    BY <1>9 DEF Ahead
  <2>5. r.pc # "read" /\ r.pos # 0
    BY <1>2, <1>3, <1>6, <1>9 DEF Ahead
  <2>6. \A k \in DOMAIN r.carry : r.carry[k] = Edge(r) + k
    BY <1>5, <1>9, <2>2
  <2>7. PosInv(r)
    BY <1>3, <1>9, <1>10, <2>3, <2>4, <2>5, <2>6 DEF PosInv
  <2>8. Edge(t) + m <= Edge(r)
    BY <2>2, <2>3
  <2> QED BY <1>1, <1>5, <1>8, <1>9, <2>2, <2>7, <2>8 DEF Onward
<1> QED BY <1>1, <1>5, <1>11, <1>12

\* Writing behind the end leaves a follower where it is; turning the file over puts it behind what
\* was written.
LEMMA PosFile ==
  ASSUME TypeInv, FileInv, Write \/ Turn, NEW t \in TailRec, PosInv(t)
  PROVE  PosInv(t)' /\ Edge(t) <= Edge(t)' /\ (turns' = 0 => Edge(t)' = Edge(t))
<1>1. /\ t.pos \in Nat /\ t.turn \in Nat /\ t.size \in Nat /\ t.carry \in Seq(Nat) /\ turns \in Nat
      /\ (Exists => Len(log) \in Nat)
  BY LogFacts DEF TypeInv, TailRec
<1>2. /\ Mark(t) \in Nat /\ Base \in Nat /\ Len(t.carry) \in Nat /\ (t.carry = <<>> <=> Len(t.carry) = 0)
      /\ DOMAIN t.carry = 1 .. Len(t.carry)
      /\ Mark(t) = IF t.turn = turns THEN Base + t.pos ELSE Base
  BY PosFacts DEF Mark
<1>3. /\ t.turn <= turns
      /\ t.turn = turns => t.pos <= IF Exists THEN Len(log) ELSE 0
      /\ t.turn = turns /\ t.opened => t.ino = inode
      /\ ~t.opened => t.pos = 0
      /\ t.pos = 0 => t.carry = <<>>
      /\ t.pc = "read" => t.opened /\ t.size > t.pos /\ (t.turn = turns => Exists /\ t.size <= Len(log))
      /\ t.pc = "push" <=> HasLine(t.carry)
      /\ Edge(t) \in Nat
      /\ \A k \in DOMAIN t.carry : t.carry[k] = Edge(t) + k
      /\ Edge(t) + Len(t.carry) <= Mark(t)
      /\ t.turn = turns => Edge(t) + Len(t.carry) = Mark(t)
  BY DEF PosInv
<1>4. CASE Write
  <2>1. Base' = Base /\ Exists' /\ turns' = turns /\ inode' = inode
    BY <1>4, WriteFile DEF Write
  <2>2. Len(log') \in Nat /\ (Exists => Len(log) <= Len(log'))
    <3>1. (Exists => Len(log') = Len(log) + 1) /\ (~Exists => Len(log') = 1)
      BY <1>4, WriteFile
    <3> QED BY <1>1, <3>1
  <2>3. Mark(t)' = Mark(t)
    BY <2>1 DEF Mark
  <2>4. Edge(t)' = Edge(t)
    BY <2>3 DEF Edge
  <2>5. t.turn = turns => t.pos <= Len(log')
    BY <1>1, <1>3, <2>2
  <2>6. t.turn = turns /\ t.pc = "read" => t.size <= Len(log')
    BY <1>1, <1>3, <2>2
  <2>7. PosInv(t)'
    BY <1>3, <2>1, <2>3, <2>4, <2>5, <2>6 DEF PosInv
  <2> QED BY <1>3, <2>4, <2>7
<1>5. CASE Turn
  <2>1. /\ Base' \in Nat /\ Base <= Base' /\ Base + Len(log) = Base' /\ Exists /\ turns' = turns + 1
        /\ Len(log) \in Nat
    <3>1. /\ Base' = written /\ Base <= Base' /\ Base + Len(log) = Base' /\ Exists /\ turns' = turns + 1
          /\ written \in Nat
      BY <1>5, TurnFile DEF TypeInv
    <3> QED BY <1>1, <3>1
  <2>2. t.turn <= turns' /\ t.turn # turns' /\ turns' # 0
    BY <1>1, <1>3, <2>1
  <2>3. Mark(t)' = Base'
    BY <1>1, <2>2 DEF Mark
  <2>4. Mark(t) <= Base'
    BY <1>1, <1>2, <1>3, <2>1
  <2>5. CASE t.carry = <<>>
    <3>1. Edge(t) = Mark(t) /\ Edge(t)' = Base'
      BY <2>3, <2>5 DEF Edge
    <3>2. Len(t.carry) = 0 /\ DOMAIN t.carry = {}
      BY <1>2, <2>5
    <3>3. PICK b : b = Base'
      OBVIOUS
    <3>4. b \in Nat /\ b + 0 <= b
      <4>1. b \in Nat
        BY <2>1, <3>3, Zenon
      <4> QED BY <4>1
    <3>5. Edge(t)' \in Nat /\ Edge(t)' + Len(t.carry) <= Mark(t)'
      BY <2>3, <3>1, <3>2, <3>3, <3>4, Zenon
    <3>6. \A k \in DOMAIN t.carry : t.carry[k] = Edge(t)' + k
      BY <3>2
    <3>7. PosInv(t)'
      BY <1>3, <2>2, <3>5, <3>6, Zenon DEF PosInv
    <3> QED BY <2>2, <2>4, <3>1, <3>7
  <2>6. CASE t.carry # <<>>
    <3>1. Edge(t)' = Edge(t)
      BY <2>6 DEF Edge
    <3>2. Edge(t)' + Len(t.carry) <= Mark(t)'
      BY <1>2, <1>3, <2>1, <2>3, <2>4, <3>1
    <3>3. Edge(t)' \in Nat /\ \A k \in DOMAIN t.carry : t.carry[k] = Edge(t)' + k
      BY <1>3, <3>1
    <3>4. PosInv(t)'
      BY <1>3, <2>2, <3>2, <3>3, Zenon DEF PosInv
    <3> QED BY <1>3, <3>1, <3>4
  <2> QED BY <2>5, <2>6
<1> QED BY <1>4, <1>5

\* The steps of the others do not move a follower.
LEMMA PosKept ==
  ASSUME UNCHANGED <<log, inode, turns, written>>, NEW t
  PROVE  (PosInv(t) => PosInv(t)') /\ Edge(t)' = Edge(t) /\ Mark(t)' = Mark(t)
<1>1. Base' = Base /\ (Exists' <=> Exists)
  BY DEF Base, Exists
<1>2. Mark(t)' = Mark(t)
  BY <1>1 DEF Mark
<1>3. Edge(t)' = Edge(t)
  BY <1>2 DEF Edge
<1> QED BY <1>1, <1>2, <1>3 DEF PosInv

LEMMA PosTail ==
  ASSUME TypeInv, FileInv, PosAll, NEW f \in Followers,
         Seek(f) \/ Stat(f) \/ Read(f) \/ Push(f) \/ Stop(f), ~slipped'
  PROVE  \E r \in TailRec : Tails(f, r) /\ PosInv(r)
<1>1. PosInv(tail[f])
  BY TailFrame DEF PosAll
<1>2. CASE Stop(f)
  <2>1. Asleep \in TailRec /\ PosInv(Asleep)
    BY AsleepType, PosAsleep DEF TailType
  <2> QED BY <1>2, <2>1 DEF Stop
<1> QED BY <1>1, <1>2, PosSeek, PosStat, PosRead, PosPush

LEMMA PosStep ==
  ASSUME TypeInv, FileInv, PosAll, [Next]_vars
  PROVE  PosAll'
<1> SUFFICES ASSUME ~slipped', NEW g \in Followers PROVE PosInv(tail[g])'
  BY DEF PosAll
<1>1. tail \in [Followers -> TailType] /\ tail[g] \in TailRec
  BY TailFields DEF TypeInv, TailType
<1>2. ASSUME UNCHANGED <<log, inode, turns, written>>, tail'[g] = tail[g], slipped => slipped'
      PROVE  PosInv(tail[g])'
  <2>1. PICK t : t = tail[g]
    OBVIOUS
  <2>2. PosInv(t)
    BY <1>2, <2>1 DEF PosAll
  <2>3. PosInv(t)'
    BY <1>2, <2>2, PosKept
  <2>4. tail'[g] = t
    BY <1>2, <2>1
  <2> QED BY <2>3, <2>4
<1>3. ASSUME NEW f \in Followers, Seek(f) \/ Stat(f) \/ Read(f) \/ Push(f) \/ Stop(f)
      PROVE  PosInv(tail[g])'
  <2>1. PICK r \in TailRec : Tails(f, r) /\ PosInv(r)
    BY <1>3, PosTail
  <2>2. OnlyTail /\ \A h \in Followers : h # f => tail'[h] = tail[h]
    BY <1>3, TailFrame
  <2>3. UNCHANGED <<log, inode, turns, written>>
    BY <2>2 DEF OnlyTail
  <2>4. CASE g = f
    <3>1. PosInv(r)' /\ tail'[g] = r
      BY <1>1, <2>1, <2>3, <2>4, PosKept DEF Tails
    <3> QED BY <3>1
  <2>5. CASE g # f
    BY <1>2, <1>3, <2>2, <2>3, <2>5, TailFrame
  <2> QED BY <2>4, <2>5
<1>4. ASSUME NEW c \in Clients, Seed(c) \/ Subscribe(c) \/ Pump(c) \/ Unsubscribe(c)
      PROVE  PosInv(tail[g])'
  <2>1. UNCHANGED <<log, inode, turns, written, slipped>>
    BY <1>4 DEF Seed, Subscribe, Pump, Unsubscribe
  <2>2. CASE tail'[g] = tail[g]
    BY <1>2, <2>1, <2>2
  <2>3. CASE tail'[g] # tail[g]
    <3>1. PICK f \in Followers : Start(f)
      BY <1>4, <2>3 DEF Seed, Subscribe, Pump, Unsubscribe
    <3>2. PICK r : r = [Asleep EXCEPT !.pc = "seek"]
      OBVIOUS
    <3>3. tail'[g] = r
      BY <1>1, <2>3, <3>1, <3>2 DEF Start
    <3>4. r \in TailRec /\ PosInv(r)
      BY <3>2, AsleepType, PosAsleep DEF TailType
    <3>5. PosInv(r)'
      BY <2>1, <3>4, PosKept
    <3> QED BY <3>3, <3>5
  <2> QED BY <2>2, <2>3
<1>5. ASSUME NEW f \in Followers, Take(f) \/ Quit(f) \/ FanOut(f)
      PROVE  PosInv(tail[g])'
  BY <1>2, <1>5 DEF Take, Quit, FanOut, OnlyFan
<1>6. ASSUME Write \/ Turn PROVE PosInv(tail[g])'
  <2>1. PICK t : t = tail[g]
    OBVIOUS
  <2>2. tail'[g] = t /\ PosInv(t) /\ t \in TailRec
    BY <1>1, <1>6, <2>1 DEF Write, Turn, OnlyFile, PosAll
  <2>3. PosInv(t)'
    BY <1>6, <2>2, PosFile
  <2> QED BY <2>2, <2>3
<1>7. CASE UNCHANGED vars
  BY <1>2, <1>7 DEF vars
<1> QED BY <1>3, <1>4, <1>5, <1>6, <1>7 DEF Next

-----------------------------------------------------------------------------
(* What is on the way.                                                     *)

LEMMA WayType ==
  ASSUME TypeInv
  PROVE  /\ \A f \in Followers : InHand(f) \in Seq(Seq(Nat)) /\ Coming(f) \in Seq(Seq(Nat))
         /\ \A c \in Clients : /\ got[c] \in Seq(Seq(Nat)) /\ buf[c] \in Seq(Seq(Nat))
                               /\ Streamed(c) \in Seq(Seq(Nat))
<1>1. ASSUME NEW f \in Followers PROVE InHand(f) \in Seq(Seq(Nat)) /\ Coming(f) \in Seq(Seq(Nat))
  <2>1. pipe[f] \in Seq(Seq(Nat)) /\ fan[f].line \in Seq(Nat) /\ <<>> \in Seq(Seq(Nat))
    BY <1>1, TailFields, EmptySeq
  <2>2. InHand(f) \in Seq(Seq(Nat))
    BY <2>1 DEF InHand
  <2> QED BY <2>1, <2>2 DEF Coming
<1>2. ASSUME NEW c \in Clients
      PROVE  got[c] \in Seq(Seq(Nat)) /\ buf[c] \in Seq(Seq(Nat)) /\ Streamed(c) \in Seq(Seq(Nat))
  <2>1. got[c] \in Seq(Seq(Nat)) /\ buf[c] \in Seq(Seq(Nat))
    BY <1>2 DEF TypeInv
  <2> QED BY <2>1 DEF Streamed
<1> QED BY <1>1, <1>2

\* Only the follower that is not cancelled is at work, unless followers raced.
LEMMA OnlyOne ==
  ASSUME HubInv, ~racing, cancel # 0, NEW f \in Followers, ~Over(f)
  PROVE  f = cancel
  BY DEF HubInv

LEMMA SeekTail ==
  ASSUME TypeInv, NEW f \in Followers, Seek(f) \/ Stat(f) \/ Read(f) \/ Push(f) \/ Stop(f)
  PROVE  tail'[f].pc # "seek"
<1>1. tail[f] \in TailRec /\ tail \in [Followers -> TailType]
  BY TailFields DEF TypeInv, TailType
<1>2. CASE Seek(f)
  BY <1>1, <1>2 DEF Seek, Tails, Asleep
<1>3. CASE Stat(f)
  <2>1. PICK r : Tails(f, r) /\ r.pc \in {"wait", "read"}
    BY <1>3, StatTells
  <2> QED BY <1>1, <2>1 DEF Tails
<1>4. CASE Read(f)
  BY <1>1, <1>4 DEF Read, Tails, TailRec, Ahead
<1>5. CASE Push(f)
  BY <1>1, <1>5 DEF Push, Tails, TailRec, Ahead
<1>6. CASE Stop(f)
  BY <1>1, <1>6 DEF Stop, Tails, Asleep
<1> QED BY <1>2, <1>3, <1>4, <1>5, <1>6

\* A client's steps: nothing comes in or goes out but from the channel to the browser.
LEMMA ClientFrame ==
  ASSUME TypeInv, HubInv, NEW c \in Clients, Seed(c) \/ Subscribe(c) \/ Pump(c) \/ Unsubscribe(c)
  PROVE  \/ \E f \in Followers :
               /\ cancel' = f /\ Coming(f)' = <<>> /\ tail'[f] = [Asleep EXCEPT !.pc = "seek"]
               /\ \A d \in Subs' : Streamed(d)' = <<>>
         \/ /\ cancel' = 0
         \/ /\ cancel' = cancel /\ UNCHANGED <<tail, fan, pipe, racing>>
            /\ \A d \in Subs' : \/ d \in Subs /\ Streamed(d)' = Streamed(d) /\ (d \in lost => d \in lost')
                                \/ Streamed(d)' = <<>>
<1>1. /\ client \in [Clients -> {"away", "seeded", "live"}] /\ got \in [Clients -> Seq(Seq(Nat))]
      /\ buf \in [Clients -> Seq(Seq(Nat))]
  BY DEF TypeInv
<1>2. CASE Seed(c)
  <2>1. Subs' = Subs /\ \A d \in Clients : Streamed(d)' = Streamed(d)
    BY <1>1, <1>2 DEF Seed, Subs, Streamed
  <2> QED BY <1>2, <2>1 DEF Seed, Subs
<1>3. CASE Subscribe(c)
  <2>1. Subs' = Subs \cup {c} /\ UNCHANGED <<got, buf, lost>>
    BY <1>1, <1>3 DEF Subscribe, Subs
  <2>2. \A d \in Clients : Streamed(d)' = Streamed(d)
    BY <2>1 DEF Streamed
  <2>3. Streamed(c) = <<>>
    <3>1. got[c] = <<>> /\ buf[c] = <<>>
      BY <1>3 DEF Subscribe, HubInv
    <3>2. <<>> \o <<>> = <<>>
      BY EmptySeq, ConcatEmptySeq
    <3> QED BY <3>1, <3>2 DEF Streamed
  <2>4. CASE Subs = {}
    <3>1. PICK f \in Followers : Start(f)
      BY <1>3, <2>4 DEF Subscribe
    <3>2. cancel' = f /\ tail'[f] = [Asleep EXCEPT !.pc = "seek"] /\ fan'[f].pc = "take" /\ pipe'[f] = <<>>
      BY <3>1 DEF Start, TypeInv
    <3>3. Coming(f)' = <<>>
      <4>1. <<>> \o <<>> = <<>>
        BY EmptySeq, ConcatEmptySeq
      <4> QED BY <3>2, <4>1 DEF Coming, InHand
    <3> QED BY <2>1, <2>2, <2>3, <2>4, <3>2, <3>3
  <2>5. CASE Subs # {}
    <3>1. UNCHANGED <<cancel, tail, fan, pipe, racing>>
      BY <1>3, <2>5 DEF Subscribe
    <3>2. \A d \in Subs' : d \in Subs \/ d = c
      BY <2>1
    <3>3. \A d \in Subs : Streamed(d)' = Streamed(d)
      BY <2>2 DEF Subs
    <3> QED BY <2>1, <2>2, <2>3, <3>1, <3>2, <3>3
  <2> QED BY <2>4, <2>5
<1>4. CASE Pump(c)
  <2>1. Streamed(c)' = Streamed(c)
    <3>1. got[c] \in Seq(Seq(Nat)) /\ buf[c] \in Seq(Seq(Nat)) /\ buf[c] # <<>>
      BY <1>1, <1>4 DEF Pump
    <3>2. PICK g, b, l, r : g = got[c] /\ b = buf[c] /\ l = Head(b) /\ r = SubSeq(b, 2, Len(b))
      OBVIOUS
    <3>3. got'[c] = Append(g, l) /\ buf'[c] = r
      BY <1>1, <1>4, <3>2 DEF Pump
    <3>4. l \in Seq(Nat) /\ r \in Seq(Seq(Nat)) /\ b = <<l>> \o r /\ g \in Seq(Seq(Nat)) /\ b \in Seq(Seq(Nat))
      BY <3>1, <3>2
    <3>5. Append(g, l) = g \o <<l>>
      BY <3>4
    <3>6. (g \o <<l>>) \o r = g \o (<<l>> \o r)
      BY <3>4, ConcatAssociative
    <3> QED BY <3>2, <3>3, <3>4, <3>5, <3>6 DEF Streamed
  <2>2. \A d \in Clients : d # c => Streamed(d)' = Streamed(d)
    BY <1>1, <1>4 DEF Pump, Streamed
  <2>3. Subs' = Subs
    BY <1>4 DEF Pump, Subs
  <2> QED BY <1>4, <2>1, <2>2, <2>3 DEF Pump, Subs
<1>5. CASE Unsubscribe(c)
  <2>1. Subs' = Subs \ {c}
    BY <1>1, <1>5 DEF Unsubscribe, Subs
  <2>2. \A d \in Clients : d # c => Streamed(d)' = Streamed(d)
    BY <1>1, <1>5 DEF Unsubscribe, Streamed
  <2>3. \A d \in lost : d # c => d \in lost'
    BY <1>5 DEF Unsubscribe
  <2> QED BY <1>5, <2>1, <2>2, <2>3 DEF Unsubscribe, Subs
<1> QED BY <1>2, <1>3, <1>4, <1>5

LEMMA SeekStep ==
  ASSUME TypeInv, HubInv, SeekInv, [Next]_vars
  PROVE  SeekInv'
<1> SUFFICES ASSUME ~racing', cancel' # 0, tail'[cancel'].pc = "seek"
             PROVE  Coming(cancel)' = <<>> /\ \A c \in Subs' : Streamed(c)' = <<>>
  BY DEF SeekInv
<1>1. ASSUME cancel' = cancel, racing' = racing, tail'[cancel] = tail[cancel]
      PROVE  /\ Coming(cancel) = <<>> /\ \A c \in Subs : Streamed(c) = <<>>
             /\ ~racing /\ cancel # 0 /\ cancel \in Followers /\ tail[cancel].pc = "seek"
  BY <1>1 DEF SeekInv, TypeInv
<1>2. ASSUME NEW c \in Clients, Seed(c) \/ Subscribe(c) \/ Pump(c) \/ Unsubscribe(c)
      PROVE  Coming(cancel)' = <<>> /\ \A d \in Subs' : Streamed(d)' = <<>>
  <2>1. CASE \E f \in Followers : /\ cancel' = f /\ Coming(f)' = <<>>
                                  /\ \A d \in Subs' : Streamed(d)' = <<>>
    BY <2>1 DEF Coming, InHand
  <2>2. CASE /\ cancel' = cancel /\ UNCHANGED <<tail, fan, pipe, racing>>
             /\ \A d \in Subs' : (d \in Subs /\ Streamed(d)' = Streamed(d)) \/ Streamed(d)' = <<>>
    <3>1. Coming(cancel) = <<>> /\ \A d \in Subs : Streamed(d) = <<>>
      BY <1>1, <2>2
    <3>2. Coming(cancel)' = Coming(cancel)
      BY <2>2 DEF Coming, InHand
    <3> QED BY <2>2, <3>1, <3>2
  <2> QED BY <1>2, <2>1, <2>2, ClientFrame
<1>3. ASSUME NEW f \in Followers, Seek(f) \/ Stat(f) \/ Read(f) \/ Push(f) \/ Stop(f)
      PROVE  Coming(cancel)' = <<>> /\ \A d \in Subs' : Streamed(d)' = <<>>
  <2>1. /\ \A g \in Followers : g # f => tail'[g] = tail[g] /\ pipe'[g] = pipe[g]
        /\ UNCHANGED <<client, got, buf, cancel, fan, racing>> /\ tail'[f].pc # "seek"
    BY <1>3, TailFrame, SeekTail DEF OnlyTail
  <2>2. cancel \in Followers /\ cancel # f
    BY <2>1 DEF TypeInv
  <2>3. Coming(cancel) = <<>> /\ \A d \in Subs : Streamed(d) = <<>>
    BY <1>1, <2>1, <2>2
  <2>4. Coming(cancel)' = Coming(cancel) /\ Subs' = Subs /\ \A d : Streamed(d)' = Streamed(d)
    BY <2>1, <2>2 DEF Coming, InHand, Subs, Streamed
  <2> QED BY <2>1, <2>3, <2>4
<1>4. ASSUME NEW f \in Followers, Take(f) \/ Quit(f) \/ FanOut(f)
      PROVE  Coming(cancel)' = <<>> /\ \A d \in Subs' : Streamed(d)' = <<>>
  <2>1. /\ fan[f].pc # "off" /\ UNCHANGED <<client, got, cancel, tail, racing>>
        /\ (fan'[f].pc = "off" => f # cancel)
    BY <1>4, FanFrame DEF OnlyFan
  <2>2. /\ Coming(cancel) = <<>> /\ \A d \in Subs : Streamed(d) = <<>>
        /\ ~racing /\ cancel # 0 /\ cancel \in Followers /\ tail[cancel].pc = "seek"
    BY <1>1, <2>1
  <2>3. f = cancel
    BY <2>1, <2>2, OnlyOne DEF Over
  <2>4. InHand(f) = <<>> /\ pipe[f] = <<>>
    BY <2>2, <2>3, WayType, ConcatEqualIffEmpty, TailFields DEF Coming
  <2>5. ~Take(f) /\ ~FanOut(f)
    <3>1. fan[f].pc # "send"
      BY <2>4 DEF InHand
    <3> QED BY <2>4, <3>1 DEF Take, FanOut
  <2>6. Quit(f)
    BY <1>4, <2>5
  <2> QED BY <2>2, <2>3, <2>6 DEF Quit, Cancelled
<1>5. CASE Write \/ Turn
  <2>1. UNCHANGED <<client, got, buf, cancel, tail, fan, pipe, racing>>
    BY <1>5 DEF Write, Turn, OnlyFile
  <2> QED BY <1>1, <2>1 DEF Coming, InHand, Subs, Streamed
<1>6. CASE UNCHANGED vars
  <2>1. UNCHANGED <<client, got, buf, cancel, tail, fan, pipe, racing>>
    BY <1>6 DEF vars
  <2> QED BY <1>1, <2>1 DEF Coming, InHand, Subs, Streamed
<1> QED BY <1>2, <1>3, <1>4, <1>5, <1>6 DEF Next

\* One more line behind what is on the way, and the chain of what is before it.
LEMMA Joined ==
  ASSUME NEW s \in Seq(Seq(Nat)), NEW p \in Seq(Seq(Nat)), NEW l \in Seq(Nat)
  PROVE  /\ s \o Append(p, l) = Append(s \o p, l)
         /\ Append(s, l) \o p = s \o (<<l>> \o p)
         /\ s \o p \in Seq(Seq(Nat)) /\ <<>> \o p = p
<1>1. PICK q, S : q = <<l>> /\ S = Seq(Nat)
  OBVIOUS
<1>2. s \in Seq(S) /\ p \in Seq(S) /\ q \in Seq(S) /\ l \in S /\ s \o p \in Seq(S)
  BY <1>1
<1>3. Append(p, l) = p \o q /\ Append(s, l) = s \o q /\ Append(s \o p, l) = (s \o p) \o q
  BY <1>1, <1>2, AppendIsConcat
<1>4. (s \o p) \o q = s \o (p \o q)
  BY <1>2, ConcatAssociative
<1>5. (s \o q) \o p = s \o (q \o p)
  BY <1>2, ConcatAssociative
<1>6. <<>> \o p = p
  BY ConcatEmptySeq
<1> QED BY <1>1, <1>2, <1>3, <1>4, <1>5, <1>6

\* What is on the way stays as it is while the edge moves on.
LEMMA ChainKept ==
  ASSUME NEW f \in Followers, cancel = f, cancel' = f, NEW e \in Nat, NEW d \in Nat,
         e = Edge(tail[f]), d = Edge(tail[f])', turns \in Nat, turns' \in Nat,
         e <= d, turns' = 0 => d = e, turns' = 0 => turns = 0,
         Coming(f)' = Coming(f), Chain(Coming(f), e, turns = 0),
         \A c \in Subs : Chain(Streamed(c) \o Coming(f), e, c \notin lost /\ turns = 0),
         \A c \in Subs' : c \in Subs /\ Streamed(c)' = Streamed(c) /\ (c \in lost => c \in lost')
  PROVE  /\ Chain(Coming(f)', d, turns' = 0)
         /\ \A c \in Subs' : Chain(Streamed(c)' \o Coming(f)', d, c \notin lost' /\ turns' = 0)
<1>1. Chain(Coming(f), d, turns' = 0)
  BY ChainWider
<1>2. ASSUME NEW c \in Subs' PROVE Chain(Streamed(c)' \o Coming(f)', d, c \notin lost' /\ turns' = 0)
  <2>1. c \in Subs /\ Streamed(c)' = Streamed(c) /\ (c \in lost => c \in lost')
    BY <1>2
  <2>2. PICK a, b \in BOOLEAN : (a <=> c \notin lost /\ turns = 0) /\ (b <=> c \notin lost' /\ turns' = 0)
    OBVIOUS
  <2>3. Chain(Streamed(c) \o Coming(f), e, a) /\ (b => a /\ d = e)
    <3>1. a = (c \notin lost /\ turns = 0)
      BY <2>2
    <3>2. Chain(Streamed(c) \o Coming(f), e, c \notin lost /\ turns = 0)
      BY <2>1
    <3> QED BY <2>1, <2>2, <3>1, <3>2
  <2>4. Chain(Streamed(c) \o Coming(f), d, b)
    BY <2>3, ChainWider
  <2>5. b = (c \notin lost' /\ turns' = 0)
    BY <2>2
  <2> QED BY <2>1, <2>4, <2>5
<1> QED BY <1>1, <1>2

ChainsTrue(f) ==
    /\ Chain(Coming(f), Edge(tail[f]), turns = 0)
    /\ \A c \in Subs : Chain(Streamed(c) \o Coming(f), Edge(tail[f]), c \notin lost /\ turns = 0)

LEMMA ChainClient ==
  ASSUME IInv, NEW c \in Clients, Seed(c) \/ Subscribe(c) \/ Pump(c) \/ Unsubscribe(c),
         ~racing', ~slipped', cancel' # 0, NEW f \in Followers, f = cancel'
  PROVE  ChainsTrue(f)'
<1>1. TypeInv /\ HubInv /\ UNCHANGED <<log, inode, turns, written, slipped>>
  BY DEF IInv, Seed, Subscribe, Pump, Unsubscribe
<1>2. CASE Coming(f)' = <<>> /\ \A d \in Subs' : Streamed(d)' = <<>>
  <2>1. <<>> \o <<>> = <<>>
    BY EmptySeq, ConcatEmptySeq
  <2> QED BY <1>2, <2>1, ChainEmpty DEF ChainsTrue
<1>3. CASE /\ cancel' = cancel /\ UNCHANGED <<tail, fan, pipe, racing>>
           /\ \A d \in Subs' : \/ d \in Subs /\ Streamed(d)' = Streamed(d) /\ (d \in lost => d \in lost')
                               \/ Streamed(d)' = <<>>
  <2>1. ChainsTrue(f) /\ PosInv(tail[f])
    BY <1>1, <1>3 DEF IInv, ChainInv, ChainsTrue, PosAll
  <2>2. PICK e, p, t : e = Edge(tail[f]) /\ p = Coming(f) /\ t = tail[f]
    OBVIOUS
  <2>3. e \in Nat /\ Edge(tail[f])' = e /\ Coming(f)' = p /\ turns' = turns /\ p \in Seq(Seq(Nat))
    <3>1. Edge(t)' = Edge(t) /\ tail'[f] = t
      BY <1>1, <1>3, <2>2, PosKept
    <3>2. Edge(tail[f]) \in Nat /\ Coming(f)' = Coming(f) /\ Coming(f) \in Seq(Seq(Nat))
      BY <1>1, <1>3, <2>1, WayType DEF Coming, InHand, PosInv
    <3> QED BY <1>1, <2>2, <3>1, <3>2
  <2>4. Chain(p, e, turns = 0) /\ \A d \in Subs : Chain(Streamed(d) \o p, e, d \notin lost /\ turns = 0)
    BY <2>1, <2>2 DEF ChainsTrue
  <2>5. ASSUME NEW d \in Subs' PROVE Chain(Streamed(d)' \o p, e, d \notin lost' /\ turns = 0)
    <3>1. CASE d \in Subs /\ Streamed(d)' = Streamed(d) /\ (d \in lost => d \in lost')
      <4>1. PICK a, b \in BOOLEAN : a = (d \notin lost /\ turns = 0) /\ b = (d \notin lost' /\ turns = 0)
        OBVIOUS
      <4>2. Chain(Streamed(d) \o p, e, a)
        BY <2>4, <3>1, <4>1
      <4>3. b => a
        BY <3>1, <4>1, Zenon
      <4>4. Chain(Streamed(d) \o p, e, b)
        BY <2>3, <4>2, <4>3, ChainWider
      <4> QED BY <3>1, <4>1, <4>4
    <3>2. CASE Streamed(d)' = <<>>
      <4>1. Streamed(d)' \o p = p
        BY <2>3, <3>2, ConcatEmptySeq
      <4>2. PICK a, b \in BOOLEAN : a = (turns = 0) /\ b = (d \notin lost' /\ turns = 0)
        OBVIOUS
      <4>3. Chain(p, e, a)
        BY <2>4, <4>2
      <4>4. b => a
        BY <4>2, Zenon
      <4>5. Chain(p, e, b)
        BY <2>3, <4>3, <4>4, ChainWider
      <4> QED BY <4>1, <4>2, <4>5
    <3> QED BY <1>3, <2>5, <3>1, <3>2
  <2> QED BY <2>3, <2>4, <2>5 DEF ChainsTrue
<1>4. (\E g \in Followers : cancel' = g /\ Coming(g)' = <<>> /\ \A d \in Subs' : Streamed(d)' = <<>>)
        => Coming(f)' = <<>> /\ \A d \in Subs' : Streamed(d)' = <<>>
  OBVIOUS
<1> QED BY <1>1, <1>2, <1>3, <1>4, ClientFrame

LEMMA ChainTailStep ==
  ASSUME IInv, NEW g \in Followers, Seek(g) \/ Stat(g) \/ Read(g) \/ Push(g) \/ Stop(g),
         ~racing', ~slipped', cancel' # 0, NEW f \in Followers, f = cancel'
  PROVE  ChainsTrue(f)'
<1>1. /\ TypeInv /\ FileInv /\ HubInv /\ SeekInv
      /\ tail[g].pc # "off" /\ OnlyTail /\ ~slipped /\ ~racing /\ cancel = f
      /\ UNCHANGED <<log, inode, turns, written, client, got, buf, cancel, fan, lost, racing>>
  BY TailFrame DEF IInv, OnlyTail
<1>2. g = f
  BY <1>1, OnlyOne DEF Over
<1>3. ChainsTrue(f) /\ PosInv(tail[f])
  BY <1>1 DEF IInv, ChainInv, ChainsTrue, PosAll
<1>4. PICK t, e, p : t = tail[f] /\ e = Edge(t) /\ p = Coming(f)
  OBVIOUS
<1>5. /\ t \in TailRec /\ e \in Nat /\ turns \in Nat /\ p \in Seq(Seq(Nat)) /\ Subs' = Subs
      /\ tail \in [Followers -> TailType] /\ lost' = lost /\ turns' = turns
      /\ \A c \in Subs : Streamed(c)' = Streamed(c) /\ Streamed(c) \in Seq(Seq(Nat))
  <2>1. t \in TailRec /\ turns \in Nat /\ tail \in [Followers -> TailType] /\ Edge(t) \in Nat
    BY <1>1, <1>3, <1>4, TailFields DEF TypeInv, TailType, PosInv
  <2>2. p \in Seq(Seq(Nat)) /\ \A c \in Clients : Streamed(c) \in Seq(Seq(Nat))
    BY <1>1, <1>4, WayType
  <2>3. Subs' = Subs /\ (\A c : Streamed(c)' = Streamed(c)) /\ Subs \subseteq Clients
    BY <1>1 DEF Subs, Streamed
  <2> QED BY <1>1, <1>4, <2>1, <2>2, <2>3
<1>6. Chain(p, e, turns = 0) /\ \A c \in Subs : Chain(Streamed(c) \o p, e, c \notin lost /\ turns = 0)
  BY <1>3, <1>4 DEF ChainsTrue
<1>7. ASSUME UNCHANGED pipe, NEW r \in TailRec, Tails(f, r), PosInv(r), Onward(e, Edge(r))
      PROVE  ChainsTrue(f)'
  <2>1. PICK d : d = Edge(r)
    OBVIOUS
  <2>2. d \in Nat /\ Edge(r)' = d /\ tail'[f] = r /\ e <= d /\ (turns = 0 => d = e)
    <3>1. Edge(r) \in Nat /\ Edge(r)' = Edge(r) /\ tail'[f] = r
      BY <1>1, <1>5, <1>7, PosKept DEF Tails, PosInv
    <3> QED BY <1>7, <2>1, <3>1 DEF Onward
  <2>3. Coming(f)' = Coming(f)
    BY <1>1, <1>7 DEF Coming, InHand
  <2>4. e = Edge(tail[f]) /\ d = Edge(tail[f])'
    BY <1>4, <2>2
  <2> QED BY <1>1, <1>4, <1>5, <1>6, <2>2, <2>3, <2>4, ChainKept DEF ChainsTrue
<1>8. CASE Seek(f)
  <2>1. p = <<>> /\ \A c \in Subs : Streamed(c) = <<>>
    BY <1>1, <1>4, <1>8 DEF Seek, SeekInv
  <2>2. Coming(f)' = <<>> /\ \A c \in Subs' : Streamed(c)' = <<>>
    BY <1>1, <1>4, <1>5, <1>8, <2>1 DEF Seek, Coming, InHand
  <2>3. <<>> \o <<>> = <<>>
    BY EmptySeq, ConcatEmptySeq
  <2> QED BY <2>2, <2>3, ChainEmpty DEF ChainsTrue
<1>9. CASE Stat(f)
  <2>1. PICK r \in TailRec : Tails(f, r) /\ PosInv(r) /\ Onward(e, Edge(r))
    BY <1>1, <1>3, <1>4, <1>9, PosStat
  <2>2. UNCHANGED pipe
    BY <1>9 DEF Stat
  <2> QED BY <1>7, <2>1, <2>2
<1>10. CASE Read(f)
  <2>1. PICK r \in TailRec : Tails(f, r) /\ PosInv(r) /\ Edge(r) = e
    BY <1>1, <1>3, <1>4, <1>10, PosRead
  <2>2. UNCHANGED pipe /\ Onward(e, Edge(r))
    BY <1>5, <1>10, <2>1 DEF Read, Onward
  <2> QED BY <1>7, <2>1, <2>2
<1>11. CASE Push(f)
  <2>1. PICK l, r : /\ l = FirstLine(t.carry) /\ l \in Line /\ Head(l) = e + 1 /\ r \in TailRec
                    /\ Tails(f, r) /\ PosInv(r) /\ Onward(Last(l), Edge(r))
    BY <1>1, <1>3, <1>4, <1>11, PosPush
  <2>2. PICK d : d = Edge(r)
    OBVIOUS
  <2>3. l \in Seq(Nat) /\ Len(l) \in Nat \ {0} /\ Last(l) \in Nat /\ Head(l) <= Last(l)
    <3>1. l \in Seq(Nat) /\ Len(l) \in Nat \ {0} /\ Last(l) \in Nat
      BY <2>1, LineFacts
    <3>2. t.carry \in Seq(Nat) /\ HasLine(t.carry) /\ \A k \in DOMAIN t.carry : t.carry[k] = e + k
      BY <1>1, <1>3, <1>4, <1>5, <1>11 DEF Push, PosInv, TailRec
    <3>3. Last(l) = e + LineEnd(t.carry) /\ LineEnd(t.carry) \in 1 .. Len(t.carry) /\ Len(t.carry) \in Nat
      BY <1>5, <2>1, <3>2, RunSplits, LineIsFirst
    <3> QED BY <1>5, <2>1, <3>1, <3>3
  <2>4. /\ d \in Nat /\ Edge(r)' = d /\ tail'[f] = r /\ e <= d /\ Last(l) <= d
        /\ (turns = 0 => Last(l) = d)
    <3>1. Edge(r) \in Nat /\ Edge(r)' = Edge(r) /\ tail'[f] = r
      BY <1>1, <1>5, <2>1, PosKept DEF Tails, PosInv
    <3>2. Last(l) <= d /\ (turns = 0 => d = Last(l))
      BY <2>1, <2>2 DEF Onward
    <3> QED BY <1>5, <2>1, <2>2, <2>3, <3>1, <3>2
  <2>5. Coming(f)' = Append(p, l)
    <3>1. pipe'[f] = Append(pipe[f], l) /\ InHand(f)' = InHand(f) /\ pipe[f] \in Seq(Seq(Nat))
      BY <1>1, <1>4, <1>11, <2>1, TailFields DEF Push, InHand, TypeInv
    <3>2. InHand(f) \in Seq(Seq(Nat))
      BY <1>1, WayType
    <3>3. PICK h, q : h = InHand(f) /\ q = pipe[f]
      OBVIOUS
    <3>4. h \o Append(q, l) = Append(h \o q, l)
      BY <2>3, <3>1, <3>2, <3>3, Joined
    <3>5. p = h \o q /\ Coming(f)' = h \o Append(q, l)
      BY <1>4, <3>1, <3>3 DEF Coming
    <3> QED BY <3>4, <3>5
  <2>6. Chain(Append(p, l), d, turns = 0)
    <3>1. PICK b \in BOOLEAN : b = (turns = 0)
      OBVIOUS
    <3> QED BY <1>5, <1>6, <2>1, <2>4, <3>1, ChainAppend
  <2>7. ASSUME NEW c \in Subs PROVE Chain(Streamed(c) \o Append(p, l), d, c \notin lost /\ turns = 0)
    <3>1. PICK b \in BOOLEAN : b = (c \notin lost /\ turns = 0)
      OBVIOUS
    <3>2. PICK s : s = Streamed(c) \o p
      OBVIOUS
    <3>3. Chain(s, e, b) /\ (b => Last(l) = d)
      BY <1>6, <2>4, <2>7, <3>1, <3>2
    <3>4. Chain(Append(s, l), d, b)
      BY <1>5, <2>1, <2>4, <3>3, ChainAppend
    <3>5. Streamed(c) \o Append(p, l) = Append(s, l)
      BY <1>5, <2>3, <2>7, <3>2, Joined
    <3> QED BY <3>1, <3>4, <3>5
  <2> QED BY <1>5, <2>4, <2>5, <2>6, <2>7 DEF ChainsTrue
<1>12. ~Stop(f)
  BY <1>1 DEF Stop, Cancelled
<1> QED BY <1>2, <1>8, <1>9, <1>10, <1>11, <1>12

LEMMA ChainFan ==
  ASSUME IInv, NEW g \in Followers, Take(g) \/ Quit(g) \/ FanOut(g),
         ~racing', ~slipped', cancel' # 0, NEW f \in Followers, f = cancel'
  PROVE  ChainsTrue(f)'
<1>1. /\ TypeInv /\ FileInv /\ HubInv /\ fan[g].pc # "off" /\ OnlyFan /\ (fan'[g].pc = "off" => g # cancel)
      /\ ~slipped /\ ~racing /\ cancel = f
      /\ UNCHANGED <<log, inode, turns, written, client, got, cancel, tail, racing>>
  BY FanFrame DEF IInv, OnlyFan
<1>2. g = f
  BY <1>1, OnlyOne DEF Over
<1>3. ChainsTrue(f) /\ PosInv(tail[f])
  BY <1>1 DEF IInv, ChainInv, ChainsTrue, PosAll
<1>4. PICK t, e, p : t = tail[f] /\ e = Edge(t) /\ p = Coming(f)
  OBVIOUS
<1>5. /\ e \in Nat /\ Edge(tail[f])' = e /\ turns \in Nat /\ turns' = turns
      /\ p \in Seq(Seq(Nat)) /\ Subs' = Subs /\ Subs \subseteq Clients
      /\ pipe \in [Followers -> Seq(Seq(Nat))] /\ fan \in [Followers -> FanType]
      /\ pipe[f] \in Seq(Seq(Nat)) /\ fan[f].line \in Seq(Nat)
  <2>1. Edge(t)' = Edge(t) /\ tail'[f] = t
    BY <1>1, <1>4, PosKept
  <2>2. Edge(t) \in Nat /\ p \in Seq(Seq(Nat)) /\ turns \in Nat
    BY <1>1, <1>3, <1>4, WayType DEF PosInv, TypeInv
  <2>3. Subs' = Subs /\ Subs \subseteq Clients
    BY <1>1 DEF Subs
  <2> QED BY <1>1, <1>4, <2>1, <2>2, <2>3, TailFields DEF TypeInv
<1>6. Chain(p, e, turns = 0) /\ \A c \in Subs : Chain(Streamed(c) \o p, e, c \notin lost /\ turns = 0)
  BY <1>3, <1>4 DEF ChainsTrue
<1>7. CASE UNCHANGED <<buf, lost>> /\ Coming(f)' = p
  <2>1. \A c \in Subs : Streamed(c)' = Streamed(c)
    BY <1>1, <1>7 DEF Streamed
  <2> QED BY <1>5, <1>6, <1>7, <2>1 DEF ChainsTrue
<1>8. CASE Take(f)
  <2>1. PICK q, l, r : q = pipe[f] /\ l = Head(q) /\ r = SubSeq(q, 2, Len(q))
    OBVIOUS
  <2>2. q \in Seq(Seq(Nat)) /\ q # <<>> /\ InHand(f) = <<>>
    BY <1>5, <1>8, <2>1 DEF Take, InHand
  <2>3. l \in Seq(Nat) /\ r \in Seq(Seq(Nat)) /\ q = <<l>> \o r
    BY <2>1, <2>2
  <2>4. fan'[f].pc = "send" /\ fan'[f].line = l /\ pipe'[f] = r
    BY <1>5, <1>8, <2>1 DEF Take
  <2>5. Coming(f)' = <<l>> \o r
    BY <2>4 DEF Coming, InHand
  <2>6. p = <<>> \o q
    BY <1>4, <2>1, <2>2 DEF Coming
  <2>7. <<>> \o q = q
    BY <2>2, ConcatEmptySeq
  <2> QED BY <1>7, <1>8, <2>3, <2>5, <2>6, <2>7 DEF Take
<1>9. CASE FanOut(f)
  <2>1. PICK l, q : l = fan[f].line /\ q = pipe[f]
    OBVIOUS
  <2>2. p = <<l>> \o q /\ l \in Seq(Nat) /\ q \in Seq(Seq(Nat))
    BY <1>4, <1>5, <1>9, <2>1 DEF FanOut, Coming, InHand
  <2>3. Coming(f)' = q
    <3>1. fan'[f].pc = "take" /\ pipe'[f] = q
      BY <1>5, <1>9, <2>1 DEF FanOut
    <3>2. <<>> \o q = q
      BY <2>2, ConcatEmptySeq
    <3> QED BY <3>1, <3>2 DEF Coming, InHand
  <2>4. Chain(q, e, turns = 0)
    <3>1. PICK b \in BOOLEAN : b = (turns = 0)
      OBVIOUS
    <3>2. Chain(<<l>> \o q, e, b)
      BY <1>6, <2>2, <3>1
    <3>3. Chain(q, e, b)
      BY <1>5, <2>2, <3>2, ChainTail
    <3> QED BY <3>1, <3>3
  <2>5. ASSUME NEW c \in Subs PROVE Chain(Streamed(c)' \o q, e, c \notin lost' /\ turns = 0)
    <3>1. PICK s, x, y : s = Streamed(c) /\ x = got[c] /\ y = buf[c]
      OBVIOUS
    <3>2. /\ s \in Seq(Seq(Nat)) /\ x \in Seq(Seq(Nat)) /\ y \in Seq(Seq(Nat)) /\ c \in Clients
          /\ s = x \o y
      BY <1>1, <1>5, <2>5, <3>1, WayType DEF Streamed
    <3>3. PICK a, b \in BOOLEAN : a = (c \notin lost /\ turns = 0) /\ b = (c \notin lost' /\ turns = 0)
      OBVIOUS
    <3>4. Chain(s \o (<<l>> \o q), e, a)
      BY <1>6, <2>2, <2>5, <3>1, <3>3
    <3>5. CASE Len(buf[c]) >= BufLines
      <4>1. c \in lost' /\ buf'[c] = buf[c]
        BY <1>9, <2>5, <3>2, <3>5 DEF FanOut
      <4>2. Streamed(c)' = s
        BY <1>1, <3>1, <4>1 DEF Streamed
      <4>3. Chain(s \o q, e, FALSE)
        BY <1>5, <2>2, <3>2, <3>4, ChainDrop
      <4>4. (c \notin lost' /\ turns = 0) = FALSE
        BY <4>1
      <4> QED BY <4>2, <4>3, <4>4
    <3>6. CASE ~(Len(buf[c]) >= BufLines)
      <4>1. buf'[c] = Append(y, l)
        BY <1>9, <2>1, <2>5, <3>1, <3>2, <3>6 DEF FanOut
      <4>2. c \in lost => c \in lost'
        BY <1>9 DEF FanOut
      <4>3. Streamed(c)' = x \o Append(y, l)
        BY <1>1, <3>1, <4>1 DEF Streamed
      <4>4. x \o Append(y, l) = Append(s, l)
        BY <2>2, <3>2, Joined, Zenon
      <4>5. Append(s, l) \o q = s \o (<<l>> \o q)
        BY <2>2, <3>2, Joined, Zenon
      <4>6. b => a
        BY <3>3, <4>2, Zenon
      <4>7. Chain(s \o (<<l>> \o q), e, b)
        BY <1>5, <3>4, <4>6, ChainWider
      <4> QED BY <3>3, <4>3, <4>4, <4>7, <4>5
    <3> QED BY <3>5, <3>6
  <2> QED BY <1>5, <2>3, <2>4, <2>5 DEF ChainsTrue
<1>10. ~Quit(f)
  <2>1. ~(fan'[f].pc = "off")
    BY <1>1, <1>2
  <2> QED BY <1>5, <2>1 DEF Quit, FanType
<1> QED BY <1>2, <1>8, <1>9, <1>10

LEMMA ChainFile ==
  ASSUME IInv, Write \/ Turn, ~racing', ~slipped', cancel' # 0, NEW f \in Followers, f = cancel'
  PROVE  ChainsTrue(f)'
<1>1. /\ TypeInv /\ FileInv /\ ~slipped /\ ~racing /\ cancel = f
      /\ UNCHANGED <<client, got, buf, cancel, tail, fan, pipe, lost>>
  BY DEF IInv, Write, Turn, OnlyFile
<1>2. ChainsTrue(f) /\ PosInv(tail[f])
  BY <1>1 DEF IInv, ChainInv, ChainsTrue, PosAll
<1>3. PICK t, e : t = tail[f] /\ e = Edge(t)
  OBVIOUS
<1>4. t \in TailRec /\ PosInv(t) /\ tail'[f] = t /\ e \in Nat
  BY <1>1, <1>2, <1>3, TailFields DEF TailType, PosInv
<1>5. PICK d : d = Edge(t)'
  OBVIOUS
<1>6. PosInv(t)' /\ e <= d /\ (turns' = 0 => d = e)
  BY <1>1, <1>3, <1>4, <1>5, PosFile
<1>7. d \in Nat
  BY <1>5, <1>6, Zenon DEF PosInv
<1>8. turns \in Nat /\ turns' \in Nat /\ (turns' = 0 => turns = 0)
  BY <1>1 DEF TypeInv, Write, Turn
<1>9. e = Edge(tail[f]) /\ d = Edge(tail[f])'
  BY <1>3, <1>4, <1>5
<1>10. /\ Coming(f)' = Coming(f)
       /\ \A c \in Subs' : c \in Subs /\ Streamed(c)' = Streamed(c) /\ (c \in lost => c \in lost')
  BY <1>1 DEF Coming, InHand, Subs, Streamed
<1>11. Chain(Coming(f), e, turns = 0) /\ \A c \in Subs : Chain(Streamed(c) \o Coming(f), e, c \notin lost /\ turns = 0)
  BY <1>2, <1>9 DEF ChainsTrue
<1>12. cancel = f /\ cancel' = f
  BY <1>1
<1>13. /\ Chain(Coming(f)', d, turns' = 0)
       /\ \A c \in Subs' : Chain(Streamed(c)' \o Coming(f)', d, c \notin lost' /\ turns' = 0)
  BY <1>4, <1>6, <1>7, <1>8, <1>9, <1>10, <1>11, <1>12, ChainKept
<1> QED BY <1>9, <1>13 DEF ChainsTrue

LEMMA ChainStep ==
  ASSUME IInv, [Next]_vars
  PROVE  ChainInv'
<1> SUFFICES ASSUME ~racing', ~slipped', cancel' # 0, NEW f \in Followers, f = cancel'
             PROVE  ChainsTrue(f)'
  <2>1. TypeInv'
    BY TypeStep DEF IInv
  <2> QED BY <2>1 DEF ChainInv, ChainsTrue, TypeInv
<1>1. CASE UNCHANGED vars
  <2>1. IInv /\ ~racing /\ ~slipped /\ cancel = f /\ cancel # 0
    BY <1>1 DEF vars
  <2>2. ChainsTrue(f)
    BY <2>1 DEF IInv, ChainInv, ChainsTrue
  <2>3. Edge(tail[f])' = Edge(tail[f])
    BY <1>1 DEF vars, Edge, Mark, Base, Exists
  <2>4. Coming(f)' = Coming(f) /\ Subs' = Subs /\ turns' = turns /\ lost' = lost /\ \A c : Streamed(c)' = Streamed(c)
    BY <1>1 DEF vars, Coming, InHand, Subs, Streamed
  <2> QED BY <2>2, <2>3, <2>4 DEF ChainsTrue
<1> QED BY <1>1, ChainClient, ChainTailStep, ChainFan, ChainFile DEF Next

-----------------------------------------------------------------------------
(* The streams are faithful.                                               *)

LEMMA IInvInit == Init => IInv
<1> SUFFICES ASSUME Init PROVE IInv
  OBVIOUS
<1>1. TypeInv
  BY TypeInit
<1>2. FileInv
  <2>1. CASE log = Gone
    BY <2>1 DEF FileInv, Exists
  <2>2. CASE log = <<>>
    <3>1. Len(log) = 0 /\ DOMAIN log = {}
      BY <2>2
    <3> QED BY <3>1 DEF Init, FileInv
  <2> QED BY <2>1, <2>2 DEF Init
<1>3. HubInv
  <2>1. Subs = {} /\ cancel = 0
    BY DEF Init, Subs
  <2> QED BY <2>1 DEF Init, HubInv
<1>4. PosAll
  <2> SUFFICES ASSUME NEW f \in Followers PROVE PosInv(tail[f])
    BY DEF PosAll
  <2>1. tail[f] = Asleep /\ Asleep \in TailRec
    BY AsleepType DEF Init, TailType
  <2> QED BY <1>1, <1>2, <2>1, PosAsleep
<1>5. cancel = 0
  BY DEF Init
<1> QED BY <1>1, <1>2, <1>3, <1>4, <1>5 DEF IInv, SeekInv, ChainInv

LEMMA IInvStep == IInv /\ [Next]_vars => IInv'
<1> SUFFICES ASSUME IInv, [Next]_vars PROVE IInv'
  OBVIOUS
<1>1. TypeInv /\ FileInv /\ HubInv /\ PosAll /\ SeekInv
  BY DEF IInv
<1>2. TypeInv' /\ FileInv' /\ HubInv' /\ PosAll' /\ SeekInv'
  BY <1>1, TypeStep, FileStep, HubStep, PosStep, SeekStep
<1>3. ChainInv'
  BY ChainStep
<1> QED BY <1>2, <1>3 DEF IInv

\* What is on the way and what has arrived is right together, so what has arrived is.
LEMMA ChainFaithful ==
  ASSUME IInv, ~racing, ~slipped, NEW c \in Clients
  PROVE  Faithful(c)
<1>1. TypeInv /\ HubInv
  BY DEF IInv
<1>2. PICK s : s = Streamed(c)
  OBVIOUS
<1>3. s \in Seq(Seq(Nat)) /\ Len(s) \in Nat /\ DOMAIN s = 1 .. Len(s)
  BY <1>1, <1>2, WayType
<1>4. CASE c \notin Subs
  <2>1. got[c] = <<>> /\ buf[c] = <<>>
    BY <1>1, <1>4 DEF HubInv, Subs
  <2>2. <<>> \o <<>> = <<>> /\ Len(<<>>) = 0
    BY EmptySeq, ConcatEmptySeq
  <2>3. Streamed(c) = <<>>
    BY <2>1, <2>2 DEF Streamed
  <2> QED BY <2>2, <2>3 DEF Faithful
<1>5. CASE c \in Subs
  <2>1. cancel # 0 /\ cancel \in Followers
    BY <1>1, <1>5 DEF HubInv, TypeInv
  <2>2. PICK p, e, b : /\ p = Coming(cancel) /\ e = Edge(tail[cancel]) /\ b = (c \notin lost /\ turns = 0)
    OBVIOUS
  <2>3. Chain(s \o p, e, b) /\ p \in Seq(Seq(Nat))
    BY <1>1, <1>2, <1>5, <2>1, <2>2, WayType DEF IInv, ChainInv
  <2>4. PICK r : r = s \o p
    OBVIOUS
  <2>5. /\ Len(r) = Len(s) + Len(p) /\ Len(p) \in Nat /\ DOMAIN r = 1 .. Len(r)
        /\ \A i \in 1 .. Len(s) : r[i] = s[i]
    BY <1>3, <2>3, <2>4
  <2>6. /\ r \in Seq(Line)
        /\ \A i, j \in DOMAIN r : i < j => Last(r[i]) < Head(r[j])
        /\ b => \A i \in 1 .. Len(r) - 1 : Last(r[i]) + 1 = Head(r[i + 1])
    BY <2>3, <2>4 DEF Chain
  <2>7. \A i \in 1 .. Len(s) : i \in DOMAIN r /\ r[i] = s[i]
    BY <1>3, <2>5
  <2>8. \A i \in 1 .. Len(s) : IsLine(s[i])
    BY <2>6, <2>7 DEF Line
  <2>9. ASSUME NEW i \in 1 .. Len(s) - 1
        PROVE  /\ Last(s[i]) < Head(s[i + 1])
               /\ c \notin lost /\ turns = 0 => Last(s[i]) + 1 = Head(s[i + 1])
    <3>1. i \in 1 .. Len(s) /\ i + 1 \in 1 .. Len(s) /\ i \in 1 .. Len(r) - 1 /\ i < i + 1
      BY <1>3, <2>5, <2>9
    <3>2. r[i] = s[i] /\ r[i + 1] = s[i + 1] /\ i \in DOMAIN r /\ i + 1 \in DOMAIN r
      BY <2>7, <3>1
    <3>3. Last(r[i]) < Head(r[i + 1])
      BY <2>6, <3>1, <3>2
    <3>4. b => Last(r[i]) + 1 = Head(r[i + 1])
      BY <2>6, <3>1
    <3> QED BY <2>2, <3>2, <3>3, <3>4
  <2> QED BY <1>2, <2>8, <2>9 DEF Faithful
<1> QED BY <1>4, <1>5

\* The inductive invariant holds of every run of the log stream.
THEOREM IInvAlways == Spec => []IInv
BY IInvInit, IInvStep, PTL DEF Spec

\* Unless followers raced or one took one file for another, every subscriber is sent whole lines,
\* in the order they were written and none twice, and if it kept up and the file was not turned
\* over none is missing between the first and the last (hub.go fanOut, stream.go Follow).
THEOREM StreamsInOrder == Spec => []InOrder
<1>1. IInv => InOrder
  BY ChainFaithful DEF InOrder
<1> QED BY <1>1, IInvAlways, PTL

-----------------------------------------------------------------------------
(* Reading backwards.                                                      *)

\* How many of S come up to x.
UpTo(S, x)  == {j \in S : j <= x}
Place(S, x) == Cardinality(UpTo(S, x))

LEMMA PlaceRises ==
  ASSUME NEW S \in SUBSET Nat, IsFiniteSet(S)
  PROVE  /\ \A x \in S : Place(S, x) \in 1 .. Cardinality(S)
         /\ \A x, y \in S : x < y => Place(S, x) < Place(S, y)
<1>1. Cardinality(S) \in Nat
  BY FS_CardinalityType
<1>2. ASSUME NEW x \in S PROVE IsFiniteSet(UpTo(S, x)) /\ Place(S, x) \in 1 .. Cardinality(S)
  <2>1. UpTo(S, x) \in SUBSET S /\ x \in UpTo(S, x)
    BY <1>2 DEF UpTo
  <2>2. IsFiniteSet(UpTo(S, x)) /\ Cardinality(UpTo(S, x)) <= Cardinality(S)
    BY <2>1, FS_Subset
  <2>3. Cardinality(UpTo(S, x)) \in Nat /\ Cardinality(UpTo(S, x)) # 0
    BY <2>1, <2>2, FS_CardinalityType, FS_EmptySet
  <2> QED BY <1>1, <2>2, <2>3 DEF Place
<1>3. ASSUME NEW x \in S, NEW y \in S, x < y PROVE Place(S, x) < Place(S, y)
  <2>1. UpTo(S, x) \in SUBSET (UpTo(S, y) \ {y}) /\ y \in UpTo(S, y)
    <3>1. y <= y /\ \A j \in S : j <= x => j <= y /\ j # y
      BY <1>3
    <3> QED BY <1>3, <3>1, Zenon DEF UpTo
  <2>2. /\ IsFiniteSet(UpTo(S, y) \ {y})
        /\ Cardinality(UpTo(S, y) \ {y}) = Cardinality(UpTo(S, y)) - 1
    BY <1>2, <1>3, <2>1, FS_RemoveElement
  <2>3. Cardinality(UpTo(S, x)) <= Cardinality(UpTo(S, y) \ {y})
    BY <2>1, <2>2, FS_Subset
  <2>4. Cardinality(UpTo(S, x)) \in Nat /\ Cardinality(UpTo(S, y)) \in Nat
    BY <1>2, <1>3, FS_CardinalityType
  <2> QED BY <2>2, <2>3, <2>4 DEF Place
<1> QED BY <1>2, <1>3

LEMMA PlaceTaken ==
  ASSUME NEW S \in SUBSET Nat, IsFiniteSet(S)
  PROVE  /\ \A k \in 1 .. Cardinality(S) : \E x \in S : Place(S, x) = k
         /\ \A x, y \in S : Place(S, x) = Place(S, y) => x = y
<1> DEFINE R == [x \in S |-> Place(S, x)]
           n == Cardinality(S)
<1>1. n \in Nat /\ IsFiniteSet(1 .. n) /\ Cardinality(1 .. n) = n
  <2>1. n \in Nat
    BY FS_CardinalityType
  <2> QED BY <2>1, FS_Interval
<1>2. \A x \in S : R[x] = Place(S, x) /\ R[x] \in 1 .. n
  BY PlaceRises
<1>3. \A x, y \in S : Place(S, x) = Place(S, y) => x = y
  <2> SUFFICES ASSUME NEW x \in S, NEW y \in S, x # y PROVE Place(S, x) # Place(S, y)
    OBVIOUS
  <2>1. x < y \/ y < x
    OBVIOUS
  <2>2. Place(S, x) \in 1 .. n /\ Place(S, y) \in 1 .. n
    BY PlaceRises
  <2>3. (x < y => Place(S, x) < Place(S, y)) /\ (y < x => Place(S, y) < Place(S, x))
    BY PlaceRises
  <2> QED BY <1>1, <2>1, <2>2, <2>3
<1>4. R \in Injection(S, 1 .. n)
  BY <1>2, <1>3 DEF Injection, IsInjective
<1>5. R \in Surjection(S, 1 .. n)
  BY <1>1, <1>4, FS_Injection
<1>6. \A k \in 1 .. n : \E x \in S : R[x] = k
  <2> HIDE DEF R
  <2> QED BY <1>5 DEF Surjection
<1> QED BY <1>2, <1>3, <1>6

\* Where a set continues another one p further on, the places differ by what comes before.
LEMMA PlaceShifts ==
  ASSUME NEW C \in SUBSET Nat, IsFiniteSet(C), NEW T \in SUBSET (Nat \ {0}), IsFiniteSet(T),
         NEW p \in Nat, \A j \in Nat \ {0} : p + j \in C <=> j \in T
  PROVE  /\ UpTo(C, p) \in SUBSET C /\ Cardinality(UpTo(C, p)) \in Nat
         /\ Cardinality(C) = Cardinality(UpTo(C, p)) + Cardinality(T)
         /\ \A x \in T : Place(C, p + x) = Cardinality(UpTo(C, p)) + Place(T, x)
<1> DEFINE A == UpTo(C, p)
           Moved(U) == {p + j : j \in U}
<1>1. A \in SUBSET C /\ IsFiniteSet(A) /\ Cardinality(A) \in Nat
  BY FS_Subset, FS_CardinalityType DEF UpTo
<1>2. ASSUME NEW U \in SUBSET T
      PROVE  /\ IsFiniteSet(A \cup Moved(U))
             /\ Cardinality(A \cup Moved(U)) = Cardinality(A) + Cardinality(U)
  <2>1. IsFiniteSet(U) /\ Cardinality(U) \in Nat
    BY FS_Subset, FS_CardinalityType
  <2> DEFINE g == [j \in U |-> p + j]
  <2>2. g \in Bijection(U, Moved(U))
    <3>1. g \in [U -> Moved(U)] /\ \A a, b \in U : g[a] = g[b] => a = b
      OBVIOUS
    <3>2. \A t \in Moved(U) : \E j \in U : g[j] = t
      OBVIOUS
    <3> HIDE DEF g
    <3> QED BY <3>1, <3>2 DEF Bijection, Injection, IsInjective, Surjection
  <2>3. IsFiniteSet(Moved(U)) /\ Cardinality(Moved(U)) = Cardinality(U)
    <3>1. ExistsBijection(U, Moved(U))
      BY <2>2 DEF ExistsBijection
    <3> QED BY <2>1, <3>1, FS_Bijection
  <2>4. A \cap Moved(U) = {}
    BY DEF UpTo
  <2> HIDE DEF A, Moved
  <2>5. IsFiniteSet(A \cup Moved(U))
        /\ Cardinality(A \cup Moved(U)) = Cardinality(A) + Cardinality(Moved(U)) - Cardinality(A \cap Moved(U))
    BY <1>1, <2>3, FS_Union
  <2>6. Cardinality(A \cap Moved(U)) = 0
    BY <2>4, FS_EmptySet
  <2> QED BY <1>1, <2>1, <2>3, <2>5, <2>6
<1>3. C = A \cup Moved(T)
  <2>1. ASSUME NEW i \in C PROVE i \in A \cup Moved(T)
    <3>1. CASE i <= p
      BY <2>1, <3>1 DEF UpTo
    <3>2. CASE i > p
      <4>1. i - p \in Nat \ {0} /\ i = p + (i - p)
        BY <2>1, <3>2
      <4>2. i - p \in T
        BY <2>1, <4>1
      <4> QED BY <4>1, <4>2
    <3> QED BY <2>1, <3>1, <3>2
  <2>2. A \cup Moved(T) \subseteq C
    BY DEF UpTo
  <2> QED BY <2>1, <2>2
<1>4. ASSUME NEW x \in T PROVE UpTo(C, p + x) = A \cup Moved(UpTo(T, x))
  <2>1. ASSUME NEW i \in C, i <= p + x PROVE i \in A \cup Moved(UpTo(T, x))
    <3>1. CASE i <= p
      BY <2>1, <3>1 DEF UpTo
    <3>2. CASE i > p
      <4>1. i - p \in Nat \ {0} /\ i = p + (i - p) /\ i - p <= x
        BY <1>4, <2>1, <3>2
      <4>2. i - p \in UpTo(T, x)
        BY <2>1, <4>1 DEF UpTo
      <4> QED BY <4>1, <4>2
    <3> QED BY <2>1, <3>1, <3>2
  <2>2. ASSUME NEW i \in A PROVE i \in UpTo(C, p + x)
    BY <1>4, <2>2 DEF UpTo
  <2>3. ASSUME NEW j \in UpTo(T, x) PROVE p + j \in UpTo(C, p + x)
    BY <1>4, <2>3 DEF UpTo
  <2> QED BY <2>1, <2>2, <2>3 DEF UpTo
<1>5. \A x \in T : UpTo(T, x) \in SUBSET T
  BY DEF UpTo
<1>6. Cardinality(C) = Cardinality(A) + Cardinality(T)
  BY <1>2, <1>3
<1>7. \A x \in T : Place(C, p + x) = Cardinality(A) + Place(T, x)
  BY <1>2, <1>4, <1>5 DEF Place
<1> QED BY <1>1, <1>6, <1>7

\* The cuts of a file, in order.
LEMMA CutsAre ==
  ASSUME NEW d \in Seq(Nat)
  PROVE  /\ Cuts(d) \in SUBSET (1 .. Len(d)) /\ Cuts(d) \in SUBSET Nat /\ IsFiniteSet(Cuts(d))
         /\ Cardinality(Cuts(d)) \in Nat /\ Newlines(d) \in Nat /\ Newlines(d) <= Cardinality(Cuts(d))
<1>1. DOMAIN d = 1 .. Len(d) /\ Len(d) \in Nat
  OBVIOUS
<1>2. Cuts(d) \in SUBSET (1 .. Len(d)) /\ Cuts(d) \in SUBSET Nat
  BY <1>1 DEF Cuts
<1>3. IsFiniteSet(1 .. Len(d))
  BY <1>1, FS_Interval
<1>4. IsFiniteSet(Cuts(d)) /\ Cardinality(Cuts(d)) \in Nat
  BY <1>2, <1>3, FS_Subset, FS_CardinalityType
<1> DEFINE N == {i \in DOMAIN d : Ends(d[i])}
<1>5. N \in SUBSET Cuts(d)
  BY DEF Cuts
<1>6. IsFiniteSet(N) /\ Cardinality(N) \in Nat /\ Cardinality(N) <= Cardinality(Cuts(d))
  BY <1>4, <1>5, FS_Subset, FS_CardinalityType
<1> QED BY <1>2, <1>4, <1>6 DEF Newlines

LEMMA CutIs ==
  ASSUME NEW d \in Seq(Nat), NEW k \in 1 .. Cardinality(Cuts(d))
  PROVE  /\ Cut(d, k) \in Cuts(d) /\ Place(Cuts(d), Cut(d, k)) = k
         /\ \A i \in Cuts(d) : Place(Cuts(d), i) = k => Cut(d, k) = i
<1>1. Cut(d, k) = CHOOSE i \in Cuts(d) : Place(Cuts(d), i) = k
  <2>1. k # 0
    BY CutsAre
  <2> QED BY <2>1 DEF Cut, Place, UpTo
<1>2. \E i \in Cuts(d) : Place(Cuts(d), i) = k
  BY CutsAre, PlaceTaken
<1>3. Cut(d, k) \in Cuts(d) /\ Place(Cuts(d), Cut(d, k)) = k
  BY <1>1, <1>2, Zenon
<1>4. \A x, y \in Cuts(d) : Place(Cuts(d), x) = Place(Cuts(d), y) => x = y
  BY CutsAre, PlaceTaken
<1> QED BY <1>3, <1>4

Behind(d, p) == SubSeq(d, p + 1, Len(d))

\* The cuts of the end of a file are those of the file, moved.
LEMMA CutsMove ==
  ASSUME NEW d \in Seq(Nat), NEW p \in 0 .. Len(d) - 1
  PROVE  /\ Behind(d, p) \in Seq(Nat) /\ Len(Behind(d, p)) = Len(d) - p
         /\ \A j \in Nat \ {0} : p + j \in Cuts(d) <=> j \in Cuts(Behind(d, p))
<1> DEFINE s == Behind(d, p)
<1>1. DOMAIN d = 1 .. Len(d) /\ Len(d) \in Nat /\ p \in Nat /\ p < Len(d)
  OBVIOUS
<1>2. PICK m, n : m = p + 1 /\ n = Len(d)
  OBVIOUS
<1>3. m \in Int /\ n \in Int /\ m <= n /\ \A i \in m .. n : d[i] \in Nat
  BY <1>1, <1>2
<1>4. /\ SubSeq(d, m, n) \in Seq(Nat) /\ Len(SubSeq(d, m, n)) = n - m + 1
      /\ \A i \in 1 .. n - m + 1 : SubSeq(d, m, n)[i] = d[m + i - 1]
  BY <1>3, SubSeqProperties
<1>5. n - m + 1 = Len(d) - p
  BY <1>1, <1>2
<1>6. s \in Seq(Nat) /\ Len(s) = Len(d) - p
  BY <1>2, <1>4, <1>5 DEF Behind
<1>7. ASSUME NEW i \in 1 .. Len(s) PROVE s[i] = d[p + i]
  <2>1. m + i - 1 = p + i
    BY <1>1, <1>2, <1>6, <1>7
  <2>2. i \in 1 .. n - m + 1
    BY <1>5, <1>6, <1>7
  <2>3. s[i] = d[m + i - 1]
    BY <1>2, <1>4, <2>2 DEF Behind
  <2> QED BY <2>1, <2>3
<1> HIDE DEF s
<1>8. ASSUME NEW j \in Nat \ {0} PROVE p + j \in Cuts(d) <=> j \in Cuts(s)
  <2>1. DOMAIN s = 1 .. Len(s)
    BY <1>6
  <2>2. p + j \in DOMAIN d <=> j \in DOMAIN s
    BY <1>1, <1>6, <1>8, <2>1
  <2>3. p + j = Len(d) <=> j = Len(s)
    <3>1. PICK u, v : u = Len(d) /\ v = Len(s)
      OBVIOUS
    <3>2. u \in Nat /\ p \in Nat /\ j \in Nat /\ v = u - p
      BY <1>1, <1>6, <1>8, <3>1
    <3>3. p + j = u <=> j = v
      BY <3>2
    <3> QED BY <3>1, <3>3
  <2>4. j \in DOMAIN s => s[j] = d[p + j]
    BY <1>7, <2>1
  <2> QED BY <2>2, <2>3, <2>4 DEF Cuts
<1> QED BY <1>6, <1>8 DEF s

\* So are its pieces, except the first one, which may have been cut off at the front.
LEMMA PiecesMove ==
  ASSUME NEW d \in Seq(Nat), NEW p \in 0 .. Len(d) - 1
  PROVE  \E b \in Nat :
            /\ Cardinality(Cuts(d)) = b + Cardinality(Cuts(Behind(d, p)))
            /\ \A k \in 2 .. Cardinality(Cuts(Behind(d, p))) : Pieces(d)[b + k] = Pieces(Behind(d, p))[k]
<1>1. PICK s : s = Behind(d, p)
  OBVIOUS
<1>2. /\ s \in Seq(Nat) /\ Len(s) = Len(d) - p /\ Len(d) \in Nat /\ p \in Nat /\ p < Len(d)
      /\ \A j \in Nat \ {0} : p + j \in Cuts(d) <=> j \in Cuts(s)
  <2>1. Len(d) \in Nat /\ p \in Nat /\ p < Len(d)
    OBVIOUS
  <2>2. /\ s \in Seq(Nat) /\ Len(s) = Len(d) - p
        /\ \A j \in Nat \ {0} : p + j \in Cuts(d) <=> j \in Cuts(s)
    BY <1>1, CutsMove, Zenon
  <2> QED BY <2>1, <2>2
<1>3. PICK b : b = Cardinality(UpTo(Cuts(d), p))
  OBVIOUS
<1>4. PICK K, M : K = Cardinality(Cuts(s)) /\ M = Cardinality(Cuts(d))
  OBVIOUS
<1>5. /\ Cuts(s) \in SUBSET (1 .. Len(s)) /\ Cuts(s) \in SUBSET (Nat \ {0}) /\ IsFiniteSet(Cuts(s))
      /\ Cuts(d) \in SUBSET Nat /\ IsFiniteSet(Cuts(d)) /\ K \in Nat /\ M \in Nat
  <2>1. Cuts(s) \in SUBSET (1 .. Len(s)) /\ IsFiniteSet(Cuts(s)) /\ Cardinality(Cuts(s)) \in Nat
    BY <1>2, CutsAre, Zenon
  <2>2. Cuts(d) \in SUBSET Nat /\ IsFiniteSet(Cuts(d)) /\ Cardinality(Cuts(d)) \in Nat
    BY CutsAre, Zenon
  <2>3. 1 .. Len(s) \in SUBSET (Nat \ {0})
    OBVIOUS
  <2> QED BY <1>4, <2>1, <2>2, <2>3
<1>6. /\ b \in Nat /\ M = b + K
      /\ \A x \in Cuts(s) : Place(Cuts(d), p + x) = b + Place(Cuts(s), x)
  <2>1. PICK C, T : C = Cuts(d) /\ T = Cuts(s)
    OBVIOUS
  <2>2. /\ C \in SUBSET Nat /\ IsFiniteSet(C) /\ T \in SUBSET (Nat \ {0}) /\ IsFiniteSet(T) /\ p \in Nat
        /\ \A j \in Nat \ {0} : p + j \in C <=> j \in T
    BY <1>2, <1>5, <2>1
  <2>3. /\ Cardinality(UpTo(C, p)) \in Nat
        /\ Cardinality(C) = Cardinality(UpTo(C, p)) + Cardinality(T)
        /\ \A x \in T : Place(C, p + x) = Cardinality(UpTo(C, p)) + Place(T, x)
    BY <2>2, PlaceShifts
  <2> QED BY <1>3, <1>4, <2>1, <2>3
<1>7. ASSUME NEW k \in 1 .. K PROVE Cut(d, b + k) = p + Cut(s, k) /\ Cut(s, k) \in Cuts(s)
  <2>1. PICK x : x = Cut(s, k)
    OBVIOUS
  <2>2. x \in Cuts(s) /\ Place(Cuts(s), x) = k
    BY <1>2, <1>4, <1>7, <2>1, CutIs
  <2>3. p + x \in Cuts(d) /\ Place(Cuts(d), p + x) = b + k
    BY <1>2, <1>5, <1>6, <2>2
  <2>4. b + k \in 1 .. Cardinality(Cuts(d))
    BY <1>4, <1>5, <1>6, <1>7
  <2>5. Cut(d, b + k) = p + x
    BY <2>3, <2>4, CutIs
  <2> QED BY <2>1, <2>2, <2>5
<1>8. ASSUME NEW k \in 2 .. K PROVE Pieces(d)[b + k] = Pieces(s)[k]
  <2>1. k - 1 \in 1 .. K /\ k \in 1 .. K /\ (b + k) - 1 = b + (k - 1) /\ b + k \in 1 .. M
    BY <1>5, <1>6, <1>8
  <2>2. PICK x, y : x = Cut(s, k - 1) /\ y = Cut(s, k)
    OBVIOUS
  <2>3. x \in 1 .. Len(s) /\ y \in 1 .. Len(s) /\ x < y
    <3>1. /\ x \in Cuts(s) /\ y \in Cuts(s)
          /\ Place(Cuts(s), x) = k - 1 /\ Place(Cuts(s), y) = k
      BY <1>2, <1>4, <2>1, <2>2, CutIs
    <3>2. x = y \/ y < x \/ x < y
      BY <1>5, <3>1
    <3>3. y < x => Place(Cuts(s), y) < Place(Cuts(s), x)
      BY <1>5, <3>1, PlaceRises
    <3> QED BY <1>5, <1>8, <3>1, <3>2, <3>3
  <2>4. Cut(d, b + (k - 1)) = p + x /\ Cut(d, b + k) = p + y
    BY <1>7, <2>1, <2>2
  <2>5. Pieces(d)[b + k] = SubSeq(d, (p + x) + 1, p + y)
    BY <1>4, <2>1, <2>4 DEF Pieces
  <2>6. Pieces(s)[k] = SubSeq(s, x + 1, y)
    BY <1>4, <2>1, <2>2 DEF Pieces
  <2>7. SubSeq(s, x + 1, y) = SubSeq(d, (p + x) + 1, p + y)
    <3>1. PICK i, j, m, n : i = p + 1 /\ j = Len(d) /\ m = x + 1 /\ n = y
      OBVIOUS
    <3>2. i \in 1 .. Len(d) /\ j \in 1 .. Len(d) /\ m \in 1 .. j - i + 1 /\ n \in 1 .. j - i + 1
      <4>1. j - i + 1 = Len(s)
        BY <1>2, <3>1
      <4>2. i \in 1 .. Len(d) /\ j \in 1 .. Len(d)
        BY <1>2, <3>1
      <4>3. m \in 1 .. Len(s) /\ n \in 1 .. Len(s)
        BY <2>3, <3>1
      <4> QED BY <4>1, <4>2, <4>3
    <3>3. SubSeq(SubSeq(d, i, j), m, n) = SubSeq(d, i + m - 1, i + n - 1)
      BY <3>2, SubSeqOfSubSeq
    <3>4. i + m - 1 = (p + x) + 1 /\ i + n - 1 = p + y
      BY <1>2, <2>3, <3>1
    <3> QED BY <1>1, <3>1, <3>3, <3>4 DEF Behind
  <2> QED BY <2>5, <2>6, <2>7
<1> QED BY <1>1, <1>4, <1>6, <1>8

LEMMA LastElements ==
  ASSUME NEW n \in Nat \ {0}, NEW K \in Nat, NEW s, Len(s) = K, n < K
  PROVE  /\ Len(LastOf(s, n)) = n /\ LastOf(s, n) \in Seq({s[k] : k \in K - n + 1 .. K})
         /\ \A i \in 1 .. n : LastOf(s, n)[i] = s[K - n + i]
<1>1. PICK T : T = {s[k] : k \in K - n + 1 .. K}
  OBVIOUS
<1>2. LastOf(s, n) = SubSeq(s, K - n + 1, K)
  BY DEF LastOf
<1>3. PICK m \in Int : m = K - n + 1
  OBVIOUS
<1>4. m <= K /\ K - m + 1 = n /\ K \in Int
  BY <1>3
<1>5. \A k \in m .. K : s[k] \in T
  BY <1>1, <1>3
<1>6. /\ SubSeq(s, m, K) \in Seq(T) /\ Len(SubSeq(s, m, K)) = IF m <= K THEN K - m + 1 ELSE 0
      /\ \A i \in 1 .. K - m + 1 : SubSeq(s, m, K)[i] = s[m + i - 1]
  BY <1>4, <1>5, SubSeqProperties
<1>7. LastOf(s, n) \in Seq(T) /\ Len(LastOf(s, n)) = n
  BY <1>2, <1>3, <1>4, <1>6
<1>8. ASSUME NEW i \in 1 .. n PROVE LastOf(s, n)[i] = s[K - n + i]
  <2>1. m + i - 1 = K - n + i /\ i \in 1 .. K - m + 1
    BY <1>3, <1>4, <1>8
  <2>2. SubSeq(s, m, K)[i] = s[m + i - 1]
    BY <1>6, <2>1
  <2> QED BY <1>2, <1>3, <2>1, <2>2
<1> QED BY <1>1, <1>7, <1>8

\* Where reading backwards stops.
LEMMA StartIs ==
  ASSUME NEW d \in Seq(Nat), NEW n \in Nat
  PROVE  \/ TailStart(d, n) = 0
         \/ /\ TailStart(d, n) \in 0 .. Len(d)
            /\ Newlines(SubSeq(d, TailStart(d, n) + 1, Len(d))) > n
<1> DEFINE Enough(p) == Newlines(SubSeq(d, p + 1, Len(d))) > n
           S == {0} \cup {p \in 0 .. Len(d) : (Len(d) - p) % Chunk = 0 /\ Enough(p)}
<1>1. TailStart(d, n) = Max(S)
  BY DEF TailStart
<1>2. S \in SUBSET (0 .. Len(d)) /\ 0 \in S /\ Len(d) \in Nat
  OBVIOUS
<1> HIDE DEF S
<1>3. \E x \in S : \A y \in S : x >= y
  <2> DEFINE U == {Len(d) - x : x \in S}
  <2>1. U \in SUBSET Nat /\ U # {}
    BY <1>2
  <2>2. PICK u \in U : \A v \in U : u <= v
    BY <2>1, LeastNumber
  <2>3. PICK x \in S : u = Len(d) - x
    BY <2>2
  <2>4. ASSUME NEW y \in S PROVE x >= y
    <3>1. Len(d) - y \in U /\ Len(d) - x <= Len(d) - y
      BY <2>2, <2>3, <2>4
    <3> QED BY <1>2, <2>3, <2>4, <3>1
  <2> QED BY <2>3, <2>4
<1>4. Max(S) \in S
  BY <1>3 DEF Max
<1> QED BY <1>1, <1>4 DEF S

\* Reading backwards finds the last lines that the whole file would give.
LEMMA LastLinesExact ==
  ASSUME NEW d \in Seq(Nat), NEW n \in Nat \ {0}
  PROVE  LastLines(d, n) = LastOf(Pieces(d), n)
<1>1. PICK p, s : p = TailStart(d, n) /\ s = Behind(d, p)
  OBVIOUS
<1>2. LastLines(d, n) = LastOf(Pieces(s), n)
  BY <1>1 DEF LastLines, Behind
<1>3. CASE p = 0
  <2>1. s = d
    <3>1. SubSeq(d, 1, Len(d)) = d
      BY SubSeqFull
    <3> QED BY <1>1, <1>3, <3>1 DEF Behind
  <2> QED BY <1>2, <2>1
<1>4. CASE p # 0
  <2>1. p \in 0 .. Len(d) /\ Newlines(s) > n
    BY <1>1, <1>4, StartIs DEF Behind
  <2>2. p \in 0 .. Len(d) - 1
    <3>1. CASE p = Len(d)
      <4>1. s = <<>>
        BY <1>1, <2>1, <3>1 DEF Behind
      <4>2. DOMAIN s = {} /\ {i \in DOMAIN s : Ends(s[i])} = {}
        BY <4>1
      <4>3. Newlines(s) = 0
        BY <4>2, FS_EmptySet DEF Newlines
      <4> QED BY <2>1, <4>3
    <3> QED BY <2>1, <3>1
  <2>3. s \in Seq(Nat)
    BY <1>1, <2>2, CutsMove
  <2>4. PICK K, M : K = Cardinality(Cuts(s)) /\ M = Cardinality(Cuts(d))
    OBVIOUS
  <2>5. K \in Nat /\ M \in Nat /\ n < K
    <3>1. K \in Nat /\ M \in Nat /\ Newlines(s) \in Nat /\ Newlines(s) <= K
      BY <2>3, <2>4, CutsAre
    <3> QED BY <2>1, <3>1
  <2>6. PICK b \in Nat : M = b + K /\ \A k \in 2 .. K : Pieces(d)[b + k] = Pieces(s)[k]
    <3>1. \E b \in Nat : /\ Cardinality(Cuts(d)) = b + Cardinality(Cuts(s))
                         /\ \A k \in 2 .. Cardinality(Cuts(s)) : Pieces(d)[b + k] = Pieces(s)[k]
      BY <1>1, <2>2, PiecesMove
    <3> QED BY <2>4, <3>1
  <2>7. PICK u, v : u = Pieces(s) /\ v = Pieces(d)
    OBVIOUS
  <2>8. Len(u) = K /\ Len(v) = M
    <3>1. DOMAIN u = 1 .. K /\ DOMAIN v = 1 .. M
      BY <2>4, <2>7 DEF Pieces
    <3> QED BY <2>5, <3>1
  <2>9. /\ Len(LastOf(u, n)) = n /\ LastOf(u, n) \in Seq({u[k] : k \in K - n + 1 .. K})
        /\ \A i \in 1 .. n : LastOf(u, n)[i] = u[K - n + i]
    BY <2>5, <2>8, LastElements
  <2>10. /\ Len(LastOf(v, n)) = n /\ LastOf(v, n) \in Seq({v[k] : k \in M - n + 1 .. M})
         /\ \A i \in 1 .. n : LastOf(v, n)[i] = v[M - n + i]
    <3>1. n < M
      BY <2>5, <2>6
    <3> QED BY <2>5, <2>8, <3>1, LastElements
  <2>11. ASSUME NEW i \in 1 .. n PROVE LastOf(u, n)[i] = LastOf(v, n)[i]
    <3>1. K - n + i \in 2 .. K /\ M - n + i = b + (K - n + i)
      BY <2>5, <2>6, <2>11
    <3>2. v[b + (K - n + i)] = u[K - n + i]
      BY <2>6, <2>7, <3>1
    <3> QED BY <2>9, <2>10, <2>11, <3>1, <3>2
  <2>12. LastOf(u, n) = LastOf(v, n)
    <3>1. PICK A, B : A = {u[k] : k \in K - n + 1 .. K} /\ B = {v[k] : k \in M - n + 1 .. M}
      OBVIOUS
    <3>2. LastOf(u, n) \in Seq(A \cup B) /\ LastOf(v, n) \in Seq(A \cup B)
      BY <2>9, <2>10, <3>1, SeqMonotonic
    <3>3. Len(LastOf(u, n)) = Len(LastOf(v, n)) /\ \A i \in 1 .. Len(LastOf(u, n)) : LastOf(u, n)[i] = LastOf(v, n)[i]
      BY <2>9, <2>10, <2>11
    <3> QED BY <3>2, <3>3, SeqEqual
  <2> QED BY <1>2, <2>7, <2>12
<1> QED BY <1>3, <1>4

\* Reading backwards by chunks of whatever size finds the last lines the whole file would give,
\* whatever the file holds and however many are asked for (tail.go).
THEOREM TailIsExact == Spec => []TailExact
<1>1. IInv => TailExact
  <2> SUFFICES ASSUME IInv, NEW n \in 1 .. MaxHalves, Exists
               PROVE  LastLines(log, n) = LastOf(Pieces(log), n)
    BY DEF TailExact
  <2>1. log \in Seq(Nat)
    BY LogFacts DEF IInv
  <2>2. n \in Nat \ {0}
    BY LogAssumption DEF LogAssumption
  <2> QED BY <2>1, <2>2, LastLinesExact
<1> QED BY <1>1, IInvAlways, PTL
=============================================================================
