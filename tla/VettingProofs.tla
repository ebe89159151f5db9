---------------------------- MODULE VettingProofs ----------------------------
(* What holds of Vetting for every input, number of workers, ports and      *)
(* limits.                                                                  *)
EXTENDS Vetting, FiniteSetTheorems, TLAPS

-----------------------------------------------------------------------------
(* The inductive invariant.                                                 *)

EntryType == [line : Lines, tcpOK : BOOLEAN, tlsOK : BOOLEAN, deepOK : BOOLEAN,
              tcpMs : 0 .. MaxMs, tlsMs : 0 .. MaxMs, deepMs : 0 .. MaxMs,
              real : BOOLEAN, probes : Nat]

BusyPcs   == {"tcp", "pick", "start", "get", "kill"}
WorkerPcs == BusyPcs \cup {"loop", "send", "exited"}

WorkerType == [pc : WorkerPcs, e : All \cup {0}, port : Ports \cup {0},
               box : {"none", "starting", "up", "dead"}, ok : BOOLEAN, ms : 0 .. MaxMs, d : Int]

TypeInv ==
    /\ run \in Runs /\ lists \in Inputs
    /\ ctx \in {"live", "over"} /\ (~Panel => ctx = "live")
    /\ stage \in {"parse", "probe", "deep", "sort", "report", "done"}
    /\ entries \in Seq(EntryType)
    /\ todo \in Seq(All) /\ queue \in Seq(All) /\ fed \in 0 .. Len(todo) /\ closed \in BOOLEAN
    /\ worker \in [Workers -> WorkerType]
    /\ stats \in [done : Int, tcp : Nat, tls : Nat, vless : Nat]
    /\ order \in Seq(All)

\* Who holds an entry, how many entries left the channel, and which of them are done with.
Busy(w)    == worker[w].pc \in BusyPcs
BusyOnes   == {w \in Workers : Busy(w)}
Taken      == fed - Len(queue)
Settled(i) == /\ \E k \in 1 .. Taken : todo[k] = i
              /\ \A w \in Workers : Busy(w) => worker[w].e # i

\* An entry of the stage is still to be fed, in the channel, with one worker, or done with.
FlowInv ==
    /\ Len(queue) <= fed
    /\ \A n \in DOMAIN queue : queue[n] = todo[Taken + n]
    /\ \A k, l \in DOMAIN todo : todo[k] = todo[l] => k = l
    /\ \A w \in Workers : Busy(w) => \E k \in 1 .. Taken : worker[w].e = todo[k]
    /\ \A v, w \in Workers : Busy(v) /\ Busy(w) /\ worker[v].e = worker[w].e => v = w
    /\ closed /\ ctx = "live" => fed = Len(todo)
    /\ \A w \in Workers : At(w, "exited") => closed /\ queue = <<>>

CountInv == stats.done = Taken - Cardinality(BusyOnes)

\* The stages' workers and what the entries can have gone through.
PcsOf(s) == CASE s = "probe" -> {"loop", "tcp", "send", "exited"}
              [] s = "deep"  -> WorkerPcs \ {"tcp"}
              [] s = "parse" -> {"loop"}
              [] OTHER       -> {"loop", "exited"}

StageInv ==
    /\ \A w \in Workers : worker[w].pc \in PcsOf(stage)
    /\ stage = "parse" => entries = <<>>
    /\ stage = "probe" => Len(todo) = Len(entries) /\ \A k \in DOMAIN todo : todo[k] = k
    /\ stage = "deep" => \A k \in DOMAIN todo : entries[todo[k]].tlsOK
    /\ stage = "deep" => run.deep
    /\ stage = "sort" => Panel

ProbedInv ==
    /\ \A i \in All : entries[i].probes \in 0 .. 1
    /\ stage = "probe" => \A i \in All : /\ entries[i].probes = 1 => Settled(i)
                                         /\ ctx = "live" /\ Settled(i) => entries[i].probes = 1
    /\ Workers # {} /\ ctx = "live" =>
          /\ stage \notin {"parse", "probe"} => \A i \in All : entries[i].probes = 1
          /\ stage \in {"sort", "report", "done"} => stats.done = Len(todo)

\* Each mark rests on the one before it.
MarksInv ==
    /\ \A i \in All : /\ entries[i].deepOK => entries[i].tlsOK /\ run.deep
                      /\ entries[i].tlsOK => entries[i].tcpOK /\ ~run.skipTLS
                      /\ entries[i].tcpOK => entries[i].probes = 1
    /\ stage = "probe" => \A i \in All : ~entries[i].deepOK
    /\ stage = "deep" => \A i \in All : entries[i].deepOK => Settled(i)

CountersInv ==
    /\ stats.tcp   = Cardinality({i \in All : entries[i].tcpOK})
    /\ stats.tls   = Cardinality({i \in All : entries[i].tlsOK})
    /\ stats.vless = Cardinality({i \in All : entries[i].deepOK})

IInv == /\ TypeInv /\ FlowInv /\ CountInv /\ StageInv /\ ProbedInv /\ MarksInv /\ CountersInv

BoxOf(r) ==
    /\ r.pc \in {"loop", "send", "exited", "tcp", "pick"} => r.port = 0 /\ r.box = "none" /\ ~r.ok
    /\ r.pc \in {"start", "get"} => r.port # 0 /\ ~r.ok
    /\ r.box # "none" => r.port # 0

\* An entry of the deep stage that is not in the channel any more keeps its candidate.
Handled(j) == stage = "deep" => \E k \in 1 .. Taken : todo[k] = j

\* Who may have carried the answer of an entry's probe does carry traffic.
Backed(i) == \E j \in {i} \cup SharedPort(i) : entries[j].real /\ Handled(j)

\* Two probes have one port only if that is noted, and answers came through the
\* candidate's own sing-box or that of one it shares the port with.
BoxInv == /\ \A w \in Workers : /\ BoxOf(worker[w])
                                /\ \A i \in All : worker[w].ok /\ worker[w].e = i => Backed(i)
          /\ \A v, w \in Workers : worker[v].port = worker[w].port /\ v # w /\ worker[v].port # 0 =>
                                     {worker[v].e, worker[w].e} \in clashes
          /\ \A i \in All : entries[i].deepOK => Backed(i)

-----------------------------------------------------------------------------
(* Ordering by key.                                                         *)

Triples == Int \X Int \X Int

\* A finite set of things with a key each, no two with the same.
Keyed(key) == /\ IsFiniteSet(DOMAIN key)
              /\ key \in [DOMAIN key -> Triples]
              /\ \A x, y \in DOMAIN key : key[x] = key[y] => x = y

\* s holds the members of S, each once.
Lists(s, S) == /\ s \in Seq(S)
               /\ \A x \in S : \E k \in DOMAIN s : s[k] = x
               /\ \A k, l \in DOMAIN s : s[k] = s[l] => k = l

LEMMA BeforeTotal ==
  ASSUME NEW a \in Triples, NEW b \in Triples
  PROVE  /\ ~Before(a, a)
         /\ a # b => Before(a, b) \/ Before(b, a)
         /\ \A c \in Triples : Before(a, b) /\ Before(b, c) => Before(a, c)
BY DEF Before, Triples

LEMMA RankRises ==
  ASSUME NEW key, Keyed(key), NEW x \in DOMAIN key
  PROVE  /\ Rank(key, x) \in 0 .. Cardinality(DOMAIN key) - 1
         /\ \A y \in DOMAIN key : Before(key[y], key[x]) => Rank(key, y) < Rank(key, x)
<1> DEFINE S == DOMAIN key
           Under(z) == {y \in S : Before(key[y], key[z])}
<1>1. IsFiniteSet(S) /\ Cardinality(S) \in Nat
  BY FS_CardinalityType DEF Keyed
<1>2. \A z \in S : key[z] \in Triples
  BY DEF Keyed
<1>3. Under(x) \in SUBSET (S \ {x})
  BY <1>2, BeforeTotal
<1>4. /\ IsFiniteSet(Under(x)) /\ Cardinality(Under(x)) \in Nat
      /\ Cardinality(Under(x)) <= Cardinality(S) - 1
  <2>1. IsFiniteSet(S \ {x}) /\ Cardinality(S \ {x}) = Cardinality(S) - 1
    BY <1>1, FS_RemoveElement
  <2>2. IsFiniteSet(Under(x)) /\ Cardinality(Under(x)) <= Cardinality(S \ {x})
    BY <1>3, <2>1, FS_Subset
  <2> QED BY <1>1, <2>1, <2>2, FS_CardinalityType
<1>5. ASSUME NEW y \in S, Before(key[y], key[x])
      PROVE  Cardinality(Under(y)) < Cardinality(Under(x))
  <2>1. Under(y) \in SUBSET (Under(x) \ {y})
    BY <1>2, <1>5, BeforeTotal
  <2>2. y \in Under(x)
    BY <1>5
  <2>3. IsFiniteSet(Under(x) \ {y}) /\ Cardinality(Under(x) \ {y}) = Cardinality(Under(x)) - 1
    BY <1>4, <2>2, FS_RemoveElement
  <2>4. IsFiniteSet(Under(y)) /\ Cardinality(Under(y)) <= Cardinality(Under(x) \ {y})
    BY <2>1, <2>3, FS_Subset
  <2> QED BY <1>4, <2>3, <2>4, FS_CardinalityType
<1> QED BY <1>1, <1>4, <1>5 DEF Rank

\* ByKey lists what has a key, each once, in the order of the keys.
LEMMA ByKeyLists ==
  ASSUME NEW key, Keyed(key)
  PROVE  /\ Lists(ByKey(key), DOMAIN key)
         /\ Len(ByKey(key)) = Cardinality(DOMAIN key)
         /\ \A k, l \in DOMAIN ByKey(key) :
               k < l <=> Before(key[ByKey(key)[k]], key[ByKey(key)[l]])
<1> DEFINE S == DOMAIN key
           n == Cardinality(S)
           R == [x \in S |-> Rank(key, x)]
           s == ByKey(key)
<1>1. IsFiniteSet(S) /\ n \in Nat /\ \A x \in S : key[x] \in Triples
  BY FS_CardinalityType DEF Keyed
<1>2. \A x \in S : R[x] \in 0 .. n - 1
  BY RankRises
<1>3. \A x, y \in S : Before(key[x], key[y]) => R[x] < R[y]
  BY RankRises
<1>4. \A x, y \in S : x # y => Before(key[x], key[y]) \/ Before(key[y], key[x])
  BY <1>1, BeforeTotal DEF Keyed
<1>5. R \in [S -> 0 .. n - 1] /\ \A x, y \in S : R[x] = R[y] => x = y
  <2> HIDE DEF R
  <2> QED BY <1>2, <1>3, <1>4 DEF R
<1>6. R \in Surjection(S, 0 .. n - 1)
  <2>1. IsFiniteSet(0 .. n - 1) /\ Cardinality(0 .. n - 1) = n
    BY <1>1, FS_Interval
  <2>2. R \in Injection(S, 0 .. n - 1)
    BY <1>5 DEF Injection, IsInjective
  <2> QED BY <2>1, <2>2, FS_Injection
<1>7. \A k \in 1 .. n : \E x \in S : R[x] = k - 1
  <2> HIDE DEF R
  <2>1. \A t \in 0 .. n - 1 : \E x \in S : R[x] = t
    BY <1>6 DEF Surjection
  <2>2. \A k \in 1 .. n : k - 1 \in 0 .. n - 1
    BY <1>1
  <2> QED BY <2>1, <2>2
<1>8. \A k \in 1 .. n : s[k] \in S /\ R[s[k]] = k - 1
  <2> SUFFICES ASSUME NEW k \in 1 .. n PROVE s[k] \in S /\ R[s[k]] = k - 1
    OBVIOUS
  <2>1. s[k] = CHOOSE x \in S : Rank(key, x) = k - 1
    BY DEF ByKey
  <2>2. \E x \in S : Rank(key, x) = k - 1
    BY <1>7
  <2> QED BY <2>1, <2>2
<1>9. s \in Seq(S) /\ Len(s) = n /\ DOMAIN s = 1 .. n
  <2>1. s \in [1 .. n -> S]
    BY <1>8 DEF ByKey
  <2> QED BY <1>1, <2>1
<1> HIDE DEF R, s
<1>10. \A x \in S : \E k \in DOMAIN s : s[k] = x
  <2> SUFFICES ASSUME NEW x \in S PROVE \E k \in DOMAIN s : s[k] = x
    OBVIOUS
  <2>1. R[x] + 1 \in 1 .. n /\ (R[x] + 1) - 1 = R[x]
    BY <1>1, <1>2
  <2>2. s[R[x] + 1] \in S /\ R[s[R[x] + 1]] = R[x]
    BY <1>8, <2>1
  <2> QED BY <1>5, <1>9, <2>1, <2>2
<1>11. \A k, l \in DOMAIN s : k < l <=> Before(key[s[k]], key[s[l]])
  <2> SUFFICES ASSUME NEW k \in 1 .. n, NEW l \in 1 .. n
               PROVE  k < l <=> Before(key[s[k]], key[s[l]])
    BY <1>9
  <2>1. s[k] \in S /\ s[l] \in S /\ R[s[k]] = k - 1 /\ R[s[l]] = l - 1
    BY <1>8
  <2>2. k < l => s[k] # s[l]
    BY <1>1, <2>1
  <2> QED BY <1>1, <1>3, <1>4, <2>1, <2>2
<1>12. \A k, l \in DOMAIN s : s[k] = s[l] => k = l
  BY <1>1, <1>8, <1>9
<1> QED BY <1>9, <1>10, <1>11, <1>12 DEF s, Lists

LEMMA AscendingLists ==
  ASSUME NEW S \in SUBSET Int, IsFiniteSet(S)
  PROVE  /\ Lists(Ascending(S), S)
         /\ \A k, l \in DOMAIN Ascending(S) : k < l <=> Ascending(S)[k] < Ascending(S)[l]
<1> DEFINE key == [n \in S |-> <<n, 0, 0>>]
<1>1. Keyed(key) /\ DOMAIN key = S
  BY DEF Keyed, Triples
<1>2. /\ Lists(ByKey(key), S)
      /\ \A k, l \in DOMAIN ByKey(key) : k < l <=> Before(key[ByKey(key)[k]], key[ByKey(key)[l]])
  BY <1>1, ByKeyLists
<1>3. \A m, n \in S : Before(key[m], key[n]) <=> m < n
  BY DEF Before
<1>4. \A k \in DOMAIN ByKey(key) : ByKey(key)[k] \in S
  BY <1>2 DEF Lists
<1> HIDE DEF key
<1>5. Ascending(S) = ByKey(key)
  BY DEF Ascending, key
<1> QED BY <1>2, <1>3, <1>4, <1>5

-----------------------------------------------------------------------------
(* Parsing.                                                                 *)

LEMMA Config ==
  /\ Cap \in Nat \ {0} /\ MaxDeep \in Nat /\ MaxPerCountry \in Nat /\ MaxMs \in Nat
  /\ IsFiniteSet(Workers)
  /\ \A r \in Runs : r.tool \in {"panel", "cli"} /\ r.skipTLS \in BOOLEAN /\ r.deep \in BOOLEAN
  /\ \A ls \in Inputs : ls \in Seq([lines : Seq(Lines), nl : BOOLEAN])
BY VetAssumption

LEMMA SeparatedFinite ==
  ASSUME lists \in Inputs
  PROVE  /\ IsFiniteSet(Separated)
         /\ \A p \in Separated : p \in Nat \X Nat /\ Line(p) \in Lines
<1> DEFINE Of(i) == {<<i, j>> : j \in DOMAIN lists[i].lines}
           fam == [i \in DOMAIN lists |-> Of(i)]
           all == {Of(i) : i \in DOMAIN lists}
<1>1. lists \in Seq([lines : Seq(Lines), nl : BOOLEAN])
  BY Config
<1>2. /\ Len(lists) \in Nat /\ DOMAIN lists = 1 .. Len(lists)
      /\ \A i \in DOMAIN lists : lists[i].lines \in Seq(Lines)
  <2> DEFINE Source == [lines : Seq(Lines), nl : BOOLEAN]
  <2>1. \A l \in Source : l.lines \in Seq(Lines)
    OBVIOUS
  <2> HIDE DEF Source
  <2>2. lists \in Seq(Source)
    BY <1>1 DEF Source
  <2>3. Len(lists) \in Nat /\ DOMAIN lists = 1 .. Len(lists) /\ \A i \in DOMAIN lists : lists[i] \in Source
    BY <2>2
  <2> QED BY <2>1, <2>3
<1>3. ASSUME NEW i \in DOMAIN lists PROVE IsFiniteSet(Of(i))
  <2> DEFINE f == [j \in DOMAIN lists[i].lines |-> <<i, j>>]
  <2>1. f \in Surjection(DOMAIN lists[i].lines, Of(i))
    BY DEF Surjection
  <2>2. DOMAIN lists[i].lines = 1 .. Len(lists[i].lines) /\ Len(lists[i].lines) \in Nat
    BY <1>2
  <2>3. IsFiniteSet(DOMAIN lists[i].lines)
    BY <2>2, FS_Interval
  <2> QED BY <2>1, <2>3, FS_Surjection
<1>4. fam \in Surjection(DOMAIN lists, all)
  BY DEF Surjection
<1>5. IsFiniteSet(DOMAIN lists)
  BY <1>2, FS_Interval
<1>6. IsFiniteSet(all)
  BY <1>4, <1>5, FS_Surjection
<1>7. IsFiniteSet(UNION all)
  BY <1>3, <1>6, FS_UNION
<1>8. ASSUME NEW p \in Separated PROVE p \in Nat \X Nat /\ Line(p) \in Lines
  <2>1. PICK i \in DOMAIN lists : \E j \in DOMAIN lists[i].lines : p = <<i, j>>
    BY DEF Separated
  <2>2. lists[i].lines \in Seq(Lines) /\ i \in Nat
    BY <1>2
  <2>3. PICK j \in DOMAIN lists[i].lines : p = <<i, j>>
    BY <2>1
  <2>4. j \in Nat /\ lists[i].lines[j] \in Lines
    BY <2>2
  <2> QED BY <2>2, <2>3, <2>4 DEF Line
<1> QED BY <1>7, <1>8 DEF Separated

LEMMA ParsedType ==
  ASSUME lists \in Inputs
  PROVE  /\ Parsed \in Seq(EntryType)
         /\ \A n \in DOMAIN Parsed : /\ ~Parsed[n].tcpOK /\ ~Parsed[n].tlsOK /\ ~Parsed[n].deepOK
                                     /\ Parsed[n].probes = 0 /\ Parsed[n].line.ok
<1> DEFINE kept == IF Panel THEN DedupByAddr(Accepted(Chained)) ELSE Accepted(Separated)
           key == [p \in kept |-> <<p[1], p[2], 0>>]
           file == ByKey(key)
<1>1. kept \in SUBSET Separated /\ \A p \in kept : Line(p).ok
  BY DEF DedupByAddr, Accepted, Chained
<1>2. IsFiniteSet(kept) /\ \A p \in kept : p \in Nat \X Nat /\ Line(p) \in Lines
  BY <1>1, SeparatedFinite, FS_Subset
<1> HIDE DEF kept
<1>3. Keyed(key) /\ DOMAIN key = kept
  <2>1. \A p \in kept : p = <<p[1], p[2]>> /\ p[1] \in Int /\ p[2] \in Int
    BY <1>2
  <2> QED BY <1>2, <2>1 DEF Keyed, Triples
<1>4. file \in Seq(kept)
  BY <1>3, ByKeyLists DEF Lists
<1>5. \A l \in Lines : Entry(l) \in EntryType
  BY Config DEF Entry, EntryType
<1> HIDE DEF key
<1>6. Len(file) \in Nat /\ DOMAIN file = 1 .. Len(file) /\ \A n \in DOMAIN file : file[n] \in kept
  BY <1>4
<1> HIDE DEF file
<1>7. Parsed = [n \in DOMAIN file |-> Entry(Line(file[n]))]
  BY DEF Parsed, file, key, kept
<1>8. \A n \in DOMAIN file : Entry(Line(file[n])) \in EntryType
  BY <1>2, <1>5, <1>6
<1>9. Parsed \in Seq(EntryType) /\ DOMAIN Parsed = DOMAIN file
  BY <1>6, <1>7, <1>8
<1>10. \A n \in DOMAIN file : Parsed[n] = Entry(Line(file[n])) /\ Line(file[n]).ok
  BY <1>1, <1>6, <1>7
<1> QED BY <1>9, <1>10 DEF Entry

-----------------------------------------------------------------------------
(* Ranking.                                                                 *)

LEMMA AllFinite ==
  ASSUME TypeInv
  PROVE  /\ Len(entries) \in Nat /\ All = 1 .. Len(entries)
         /\ IsFiniteSet(All) /\ Cardinality(All) = Len(entries)
         /\ \A i \in All : entries[i] \in EntryType
<1>1. entries \in Seq(EntryType)
  BY DEF TypeInv
<1>2. Len(entries) \in Nat /\ All = 1 .. Len(entries) /\ \A i \in All : entries[i] \in EntryType
  BY <1>1 DEF All
<1>3. ASSUME NEW n \in Nat PROVE IsFiniteSet(1 .. n) /\ Cardinality(1 .. n) = n
  BY FS_Interval
<1> QED BY <1>2, <1>3

LEMMA EntryFields ==
  ASSUME NEW e \in EntryType
  PROVE  /\ e.tcpOK \in BOOLEAN /\ e.tlsOK \in BOOLEAN /\ e.deepOK \in BOOLEAN /\ e.real \in BOOLEAN
         /\ e.tcpMs \in 0 .. MaxMs /\ e.tlsMs \in 0 .. MaxMs /\ e.deepMs \in 0 .. MaxMs
         /\ e.probes \in Nat
         /\ e.line \in Lines /\ e.line.country \in Nat
BY DEF EntryType, Lines

LEMMA MeasuredType == \A ms \in 0 .. MaxMs : Measured(ms) \in 1 .. MaxMs + 1
BY Config DEF Measured, Unmeasured

LEMMA PlaceType ==
  ASSUME TypeInv
  PROVE  \A i \in All : Place(i) \in Nat \ {0}
<1> SUFFICES ASSUME NEW i \in All PROVE Place(i) \in Nat \ {0}
  OBVIOUS
<1> DEFINE better == {j \in Passers(entries[i].line.country) : Faster(j, i)}
<1>1. better \in SUBSET All
  BY DEF Passers
<1>2. Cardinality(better) \in Nat
  BY <1>1, AllFinite, FS_Subset, FS_CardinalityType
<1> HIDE DEF better
<1>3. Place(i) = 1 + Cardinality(better)
  BY DEF Place, better
<1> QED BY <1>2, <1>3

LEMMA CountryRankType ==
  ASSUME TypeInv
  PROVE  \A c : CountryRank(c) \in Nat
<1> SUFFICES ASSUME NEW c PROVE CountryRank(c) \in Nat
  OBVIOUS
<1> DEFINE f == [i \in All |-> entries[i].line.country]
           below == {d \in Countries \ {0} : c = 0 \/ d < c}
<1>1. f \in Surjection(All, Countries)
  BY DEF Surjection, Countries
<1>2. IsFiniteSet(Countries)
  BY <1>1, AllFinite, FS_Surjection
<1>3. below \in SUBSET Countries
  OBVIOUS
<1> QED BY <1>2, <1>3, FS_Subset, FS_CardinalityType DEF CountryRank

LEMMA CappedPrefix ==
  ASSUME NEW S, NEW s \in Seq(S)
  PROVE  /\ Capped(s) \in Seq(S) /\ Len(Capped(s)) <= Len(s)
         /\ \A k \in DOMAIN Capped(s) : k \in DOMAIN s /\ Capped(s)[k] = s[k]
         /\ Len(Capped(s)) < Len(s) => Len(Capped(s)) = MaxDeep
<1>1. CASE MaxDeep = 0 \/ Len(s) <= MaxDeep
  BY <1>1 DEF Capped
<1>2. CASE ~(MaxDeep = 0 \/ Len(s) <= MaxDeep)
  <2>1. MaxDeep \in Nat /\ 1 <= MaxDeep /\ MaxDeep < Len(s) /\ Capped(s) = SubSeq(s, 1, MaxDeep)
    BY <1>2, Config DEF Capped
  <2> QED BY <2>1
<1> QED BY <1>1, <1>2

\* The order the deep candidates are taken in, before the cap.
CandidateKey == [i \in Eligible |-> <<Place(i), CountryRank(entries[i].line.country), i>>]

LEMMA CandidateOrder ==
  ASSUME TypeInv
  PROVE  /\ PickDeepCandidates = Capped(ByKey(CandidateKey))
         /\ Lists(ByKey(CandidateKey), Eligible)
         /\ \A k, l \in DOMAIN ByKey(CandidateKey) :
               k < l => Place(ByKey(CandidateKey)[k]) <= Place(ByKey(CandidateKey)[l])
<1> DEFINE key == CandidateKey
           s == ByKey(key)
<1>1. Eligible \in SUBSET All /\ \A i \in Eligible : i \in Int
  BY AllFinite DEF Eligible
<1>2. IsFiniteSet(Eligible)
  BY <1>1, AllFinite, FS_Subset
<1>3. \A i \in Eligible : /\ key[i] = <<Place(i), CountryRank(entries[i].line.country), i>>
                          /\ key[i] \in Triples /\ Place(i) \in Nat
  BY <1>1, PlaceType, CountryRankType DEF CandidateKey, Triples
<1>4. DOMAIN key = Eligible /\ Keyed(key)
  BY <1>2, <1>3 DEF CandidateKey, Keyed
<1>5. /\ Lists(s, Eligible)
      /\ \A k, l \in DOMAIN s : k < l <=> Before(key[s[k]], key[s[l]])
  BY <1>4, ByKeyLists
<1> HIDE DEF key
<1>6. \A i, j \in Eligible : Before(key[i], key[j]) => Place(i) <= Place(j)
  BY <1>3 DEF Before
<1>7. \A k \in DOMAIN s : s[k] \in Eligible
  BY <1>5 DEF Lists
<1> HIDE DEF s
<1>8. \A k, l \in DOMAIN s : k < l => Place(s[k]) <= Place(s[l])
  BY <1>5, <1>6, <1>7
<1>9. PickDeepCandidates = Capped(s)
  BY DEF PickDeepCandidates, CandidateKey, s, key
<1> QED BY <1>5, <1>8, <1>9 DEF s, key

\* What is picked are TLS-passers, each once.
LEMMA PickedOnce ==
  ASSUME TypeInv
  PROVE  /\ PickDeepCandidates \in Seq(All)
         /\ \A k \in DOMAIN PickDeepCandidates : entries[PickDeepCandidates[k]].tlsOK
         /\ \A k, l \in DOMAIN PickDeepCandidates :
               PickDeepCandidates[k] = PickDeepCandidates[l] => k = l
<1> DEFINE s == ByKey(CandidateKey)
           p == PickDeepCandidates
<1>1. s \in Seq(Eligible) /\ \A k, l \in DOMAIN s : s[k] = s[l] => k = l
  BY CandidateOrder DEF Lists
<1>2. p = Capped(s)
  BY CandidateOrder
<1> HIDE DEF s, p
<1>3. p \in Seq(Eligible) /\ \A k \in DOMAIN p : k \in DOMAIN s /\ p[k] = s[k]
  BY <1>1, <1>2, CappedPrefix
<1>4. Eligible \in SUBSET All /\ \A i \in Eligible : entries[i].tlsOK
  BY DEF Eligible
<1>5. p \in Seq(All) /\ \A k \in DOMAIN p : p[k] \in Eligible
  BY <1>3, <1>4
<1> QED BY <1>1, <1>3, <1>4, <1>5 DEF p

TierKey == [i \in All |-> <<TierRank(entries[i]), Measured(TierLatency(entries[i])), i>>]

LEMMA TierLatencyType ==
  ASSUME NEW e \in EntryType
  PROVE  TierRank(e) \in 0 .. 3 /\ TierLatency(e) \in 0 .. MaxMs
<1>1. TierRank(e) \in 0 .. 3
  BY DEF TierRank
<1>2. TierLatency(e) \in {e.deepMs, e.tlsMs, e.tcpMs, 0}
  BY <1>1 DEF TierLatency
<1> QED BY <1>1, <1>2, EntryFields, Config

\* The result of the sort: every entry once, the stricter check first, then the faster.
LEMMA BestFirst ==
  ASSUME TypeInv
  PROVE  LET s == SortByBestLatency IN
         /\ Lists(s, All) /\ Len(s) = Len(entries)
         /\ \A k, l \in DOMAIN s : k < l =>
               LET e == entries[s[k]]  f == entries[s[l]] IN
               \/ TierRank(e) < TierRank(f)
               \/ TierRank(e) = TierRank(f) /\ Measured(TierLatency(e)) <= Measured(TierLatency(f))
<1> DEFINE key == TierKey
           s == ByKey(key)
           T(i) == TierRank(entries[i])
           L(i) == Measured(TierLatency(entries[i]))
<1>1. \A i \in All : T(i) \in Nat /\ L(i) \in Nat /\ i \in Int
  <2> SUFFICES ASSUME NEW i \in All PROVE T(i) \in Nat /\ L(i) \in Nat /\ i \in Int
    OBVIOUS
  <2>1. entries[i] \in EntryType /\ i \in Int
    BY AllFinite
  <2>2. TierRank(entries[i]) \in 0 .. 3 /\ TierLatency(entries[i]) \in 0 .. MaxMs
    BY <2>1, TierLatencyType
  <2> QED BY <2>1, <2>2, MeasuredType, Config
<1> HIDE DEF T, L
<1>2. \A i \in All : key[i] = <<T(i), L(i), i>>
  BY DEF TierKey, T, L
<1>3. DOMAIN key = All /\ key = [i \in All |-> <<T(i), L(i), i>>]
  BY DEF TierKey, T, L
<1> HIDE DEF key
<1>4. Keyed(key)
  BY <1>1, <1>2, <1>3, AllFinite DEF Keyed, Triples
<1>5. /\ Lists(s, All) /\ Len(s) = Cardinality(All)
      /\ \A k, l \in DOMAIN s : k < l <=> Before(key[s[k]], key[s[l]])
  BY <1>3, <1>4, ByKeyLists
<1> HIDE DEF s
<1>6. \A i, j \in All : Before(key[i], key[j]) => T(i) < T(j) \/ (T(i) = T(j) /\ L(i) <= L(j))
  BY <1>1, <1>2 DEF Before
<1>7. \A k \in DOMAIN s : s[k] \in All
  BY <1>5 DEF Lists
<1>8. SortByBestLatency = s
  BY DEF SortByBestLatency, TierKey, s, key
<1> QED BY <1>5, <1>6, <1>7, <1>8, AllFinite DEF T, L

LEMMA PassersInOrder ==
  ASSUME TypeInv
  PROVE  LET P == {i \in All : entries[i].tlsOK} IN
         /\ Ascending(P) \in Seq(All)
         /\ \A k \in DOMAIN Ascending(P) : entries[Ascending(P)[k]].tlsOK
         /\ \A k, l \in DOMAIN Ascending(P) : Ascending(P)[k] = Ascending(P)[l] => k = l
<1> DEFINE P == {i \in All : entries[i].tlsOK}
           s == Ascending(P)
<1>1. P \in SUBSET All /\ P \in SUBSET Int
  BY AllFinite
<1>2. IsFiniteSet(P)
  BY <1>1, AllFinite, FS_Subset
<1>3. Lists(s, P)
  BY <1>1, <1>2, AscendingLists
<1> HIDE DEF s
<1>4. s \in Seq(P) /\ \A k, l \in DOMAIN s : s[k] = s[l] => k = l
  BY <1>3 DEF Lists
<1>5. s \in Seq(All) /\ \A k \in DOMAIN s : entries[s[k]].tlsOK
  BY <1>1, <1>4
<1> QED BY <1>4, <1>5 DEF s

-----------------------------------------------------------------------------
(* Types.                                                                   *)

LEMMA UnsortedList ==
  ASSUME NEW S, NEW es \in Seq(S)
  PROVE  /\ Unsorted(es) \in Seq(DOMAIN es) /\ Len(Unsorted(es)) = Len(es)
         /\ \A k \in DOMAIN es : Unsorted(es)[k] = k
         /\ DOMAIN Unsorted(es) = DOMAIN es
BY DEF Unsorted

LEMMA TypeInit == Init => TypeInv
<1> SUFFICES ASSUME Init PROVE TypeInv
  OBVIOUS
<1>1. All = {} /\ \A T : <<>> \in Seq(T)
  BY DEF Init, All
<1>2. Resting \in WorkerType
  BY Config DEF Resting, WorkerType, WorkerPcs, BusyPcs
<1>3. worker \in [Workers -> WorkerType]
  BY <1>2 DEF Init
<1>4. /\ run \in Runs /\ lists \in Inputs /\ ctx = "live" /\ stage = "parse"
      /\ entries = <<>> /\ todo = <<>> /\ fed = 0 /\ queue = <<>> /\ closed = FALSE /\ order = <<>>
  BY DEF Init
<1>5. stats \in [done : Int, tcp : Nat, tls : Nat, vless : Nat]
  BY DEF Init
<1>6. fed \in 0 .. Len(todo)
  BY <1>4
<1> HIDE DEF WorkerType, EntryType
<1> QED BY <1>1, <1>3, <1>4, <1>5, <1>6 DEF TypeInv

LEMMA RestingType == Resting \in WorkerType
BY Config DEF Resting, WorkerType, WorkerPcs, BusyPcs

\* Steps that change no more than the worker, the counters and shown.
LEMMA WorkerTypeStep ==
  ASSUME TypeInv, NEW w \in Workers, NEW r \in WorkerType, Becomes(w, r),
         UNCHANGED <<run, lists, ctx, stage, entries, todo, fed, closed, order>>,
         queue' \in Seq(All), stats' \in [done : Int, tcp : Nat, tls : Nat, vless : Nat]
  PROVE  TypeInv'
<1>1. All' = All /\ WorkerType' = WorkerType /\ Panel' = Panel
  BY DEF All, WorkerType, Panel
<1>2. worker' \in [Workers -> WorkerType]
  BY DEF TypeInv, Becomes
<1> HIDE DEF WorkerType
<1> QED BY <1>1, <1>2 DEF TypeInv

\* ... and the results.
LEMMA ResultTypeStep ==
  ASSUME TypeInv, NEW w \in Workers, NEW r \in WorkerType, Becomes(w, r),
         NEW i \in All, NEW x \in EntryType, entries' = [entries EXCEPT ![i] = x],
         UNCHANGED <<run, lists, ctx, stage, todo, fed, closed, order>>,
         queue' \in Seq(All), stats' \in [done : Int, tcp : Nat, tls : Nat, vless : Nat]
  PROVE  TypeInv'
<1>1. entries \in Seq(EntryType)
  BY DEF TypeInv
<1>2. entries' \in Seq(EntryType) /\ DOMAIN entries' = DOMAIN entries
  BY <1>1 DEF All
<1>3. All' = All /\ WorkerType' = WorkerType /\ Panel' = Panel /\ EntryType' = EntryType
  BY <1>2 DEF All, WorkerType, Panel, EntryType
<1>4. worker' \in [Workers -> WorkerType]
  BY DEF TypeInv, Becomes
<1> QED BY <1>2, <1>3, <1>4 DEF TypeInv

\* A stage begins or is skipped.
LEMMA BeginType ==
  ASSUME NEW S, NEW es \in Seq(S), NEW s, Begin(s, es), TypeInv
  PROVE  /\ todo' \in Seq(S) /\ queue' \in Seq(S) /\ fed' \in 0 .. Len(todo') /\ closed' \in BOOLEAN
         /\ worker' \in [Workers -> WorkerType]
         /\ stats' \in [done : Int, tcp : Nat, tls : Nat, vless : Nat]
<1>1. todo' = es /\ fed' = 0 /\ queue' = <<>> /\ closed' = FALSE
  BY DEF Begin
<1>2. Len(es) \in Nat
  OBVIOUS
<1>3. queue' \in Seq(S) /\ fed' \in 0 .. Len(todo')
  BY <1>1, <1>2
<1>4. worker' \in [Workers -> WorkerType]
  BY RestingType DEF Begin
<1>5. stats' \in [done : Int, tcp : Nat, tls : Nat, vless : Nat]
  <2>1. stats \in [done : Int, tcp : Nat, tls : Nat, vless : Nat]
    BY DEF TypeInv
  <2>2. stats' = [stats EXCEPT !.done = 0]
    BY DEF Begin
  <2> QED BY <2>1, <2>2
<1> QED BY <1>1, <1>3, <1>4, <1>5

LEMMA SkipType ==
  ASSUME NEW s, Skip(s), TypeInv
  PROVE  /\ todo' \in Seq(All) /\ queue' \in Seq(All) /\ fed' \in 0 .. Len(todo') /\ closed' \in BOOLEAN
         /\ worker' \in [Workers -> WorkerType]
         /\ stats' \in [done : Int, tcp : Nat, tls : Nat, vless : Nat]
BY DEF Skip, feedVars, TypeInv

LEMMA StageTypeStep ==
  ASSUME TypeInv, UNCHANGED <<run, lists, ctx, entries>>,
         stage' \in {"parse", "probe", "deep", "sort", "report", "done"},
         order' \in Seq(All),
         NEW es \in Seq(All), Begin(stage', es) \/ Skip(stage')
  PROVE  TypeInv'
<1>1. All' = All /\ WorkerType' = WorkerType /\ Panel' = Panel
  BY DEF All, WorkerType, Panel
<1>2. /\ todo' \in Seq(All) /\ queue' \in Seq(All) /\ fed' \in 0 .. Len(todo') /\ closed' \in BOOLEAN
      /\ worker' \in [Workers -> WorkerType]
      /\ stats' \in [done : Int, tcp : Nat, tls : Nat, vless : Nat]
  BY BeginType, SkipType
<1> HIDE DEF WorkerType
<1> QED BY <1>1, <1>2 DEF TypeInv

LEMMA TypeParse ==
  ASSUME TypeInv, StageInv, Parse
  PROVE  TypeInv'
<1>1. Parsed \in Seq(EntryType) /\ EntryType' = EntryType
  BY ParsedType DEF TypeInv, EntryType
<1>2. All' = DOMAIN Parsed /\ All = {} /\ entries' = Parsed /\ order' = Unsorted(Parsed)
  BY DEF Parse, StageInv, All
<1>3. Unsorted(Parsed) \in Seq(All') /\ Len(Unsorted(Parsed)) \in Nat
  BY <1>1, <1>2, UnsortedList
<1>4. WorkerType \subseteq WorkerType' /\ Panel' = Panel
  BY <1>2 DEF Parse, WorkerType, Panel
<1>5. /\ todo' \in Seq(All') /\ queue' \in Seq(All') /\ fed' \in 0 .. Len(todo') /\ closed' \in BOOLEAN
      /\ worker' \in [Workers -> WorkerType]
      /\ stats' \in [done : Int, tcp : Nat, tls : Nat, vless : Nat]
  <2>1. CASE Over
    <3>1. Skip("report")
      BY <2>1 DEF Parse
    <3>2. Seq({}) \subseteq Seq(All')
      OBVIOUS
    <3> QED BY <1>2, <3>1, <3>2, SkipType
  <2>2. CASE ~Over
    <3>1. Begin("probe", Unsorted(Parsed))
      BY <2>2 DEF Parse
    <3> QED BY <1>3, <3>1, BeginType
  <2> QED BY <2>1, <2>2
<1>6. worker' \in [Workers -> WorkerType']
  BY <1>4, <1>5
<1>8. stage' \in {"probe", "report"}
  BY DEF Parse, Begin, Skip
<1> HIDE DEF WorkerType
<1> QED BY <1>1, <1>2, <1>3, <1>4, <1>5, <1>6, <1>8 DEF TypeInv, Parse

LEMMA WorkerFields ==
  ASSUME TypeInv, NEW w \in Workers
  PROVE  /\ worker[w] \in WorkerType
         /\ worker[w].e \in All \cup {0} /\ worker[w].port \in Ports \cup {0}
         /\ worker[w].ok \in BOOLEAN /\ worker[w].ms \in 0 .. MaxMs
<1>1. worker \in [Workers -> WorkerType]
  BY DEF TypeInv
<1>2. worker[w] \in WorkerType
  BY <1>1
<1> QED BY <1>2 DEF WorkerType

LEMMA BusyHolds ==
  ASSUME TypeInv, FlowInv, NEW w \in Workers, Busy(w)
  PROVE  worker[w].e \in All /\ entries[worker[w].e] \in EntryType
<1>1. PICK k \in 1 .. Taken : worker[w].e = todo[k]
  BY DEF FlowInv
<1>2. /\ todo \in Seq(All) /\ fed \in 0 .. Len(todo) /\ queue \in Seq(All)
  BY DEF TypeInv
<1>3. Len(queue) \in Nat /\ Len(todo) \in Nat
  BY <1>2
<1>4. k \in 1 .. Len(todo)
  BY <1>2, <1>3 DEF Taken
<1> QED BY <1>1, <1>2, <1>4, AllFinite

LEMMA QueueHead ==
  ASSUME TypeInv, queue # <<>>
  PROVE  /\ Head(queue) \in All /\ Tail(queue) \in Seq(All) /\ entries[Head(queue)] \in EntryType
         /\ Head(queue) = queue[1] /\ 1 \in DOMAIN queue
         /\ Len(Tail(queue)) = Len(queue) - 1 /\ Len(queue) \in Nat
         /\ \A n \in DOMAIN Tail(queue) : n + 1 \in DOMAIN queue /\ Tail(queue)[n] = queue[n + 1]
<1>1. queue \in Seq(All)
  BY DEF TypeInv
<1> HIDE DEF All
<1>2. Head(queue) \in All
  BY <1>1
<1> QED BY <1>1, <1>2, AllFinite

StatsType == [done : Int, tcp : Nat, tls : Nat, vless : Nat]

LEMMA StatsFields ==
  ASSUME TypeInv
  PROVE  /\ stats \in StatsType
         /\ stats.done \in Int /\ stats.tcp \in Nat /\ stats.tls \in Nat /\ stats.vless \in Nat
BY DEF TypeInv, StatsType

Outcome == [pc : {"send", "loop"}, e : {0}, port : {0}, box : {"none"}, ok : {FALSE}, ms : {0}, d : Int]

LEMMA CountedType ==
  ASSUME TypeInv, NEW w \in Workers, NEW s \in StatsType, Counted(w, s)
  PROVE  /\ stats' = [s EXCEPT !.done = @ + 1] /\ stats' \in StatsType
         /\ \E r \in Outcome : Becomes(w, r)
         /\ Outcome \subseteq WorkerType
<1>1. stats' = [s EXCEPT !.done = @ + 1]
  BY DEF Counted
<1>2. stats' \in StatsType
  BY <1>1 DEF StatsType
<1>3. ASSUME NEW pc \in {"send", "loop"}, NEW d \in Int
      PROVE  [Resting EXCEPT !.pc = pc, !.d = d] \in Outcome
  BY DEF Outcome, Resting
<1>4. [Resting EXCEPT !.pc = IF Panel THEN "send" ELSE "loop", !.d = stats.done + 1] \in Outcome
  <2>1. stats.done + 1 \in Int
    BY StatsFields
  <2> QED BY <1>3, <2>1
<1>5. Outcome \subseteq WorkerType
  <2>1. 0 \in 0 .. MaxMs /\ {"send", "loop"} \subseteq WorkerPcs
    BY Config DEF WorkerPcs
  <2> QED BY <2>1 DEF Outcome, WorkerType
<1> QED BY <1>1, <1>2, <1>4, <1>5 DEF Counted

LEMMA DialedType ==
  ASSUME NEW x \in EntryType, NEW tcp \in BOOLEAN, NEW tls \in BOOLEAN, NEW ms \in 0 .. MaxMs
  PROVE  /\ Dialed(x, tcp, tls, ms) \in EntryType
         /\ Dialed(x, tcp, tls, ms).probes = x.probes + 1
         /\ Dialed(x, tcp, tls, ms).tcpOK = tcp
         /\ Dialed(x, tcp, tls, ms).tlsOK = tls
         /\ Dialed(x, tcp, tls, ms).deepOK = x.deepOK
         /\ Dialed(x, tcp, tls, ms).real = x.real
<1> DEFINE a == IF tls THEN 0 ELSE ms
           b == IF tls THEN ms ELSE 0
<1>1. a \in 0 .. MaxMs /\ b \in 0 .. MaxMs
  BY Config
<1> HIDE DEF a, b
<1>2. Dialed(x, tcp, tls, ms) = [x EXCEPT !.probes = @ + 1, !.tcpOK = tcp, !.tlsOK = tls, !.tcpMs = a, !.tlsMs = b]
  BY DEF Dialed, a, b
<1> DEFINE y == Dialed(x, tcp, tls, ms)
<1>3. x.probes + 1 \in Nat
  BY DEF EntryType
<1>4. y = [line |-> x.line, tcpOK |-> tcp, tlsOK |-> tls, deepOK |-> x.deepOK, tcpMs |-> a, tlsMs |-> b,
           deepMs |-> x.deepMs, real |-> x.real, probes |-> x.probes + 1]
  BY <1>2 DEF EntryType
<1> HIDE DEF y
<1>5. y \in EntryType
  <2>1. x.line \in Lines /\ x.deepOK \in BOOLEAN /\ x.deepMs \in 0 .. MaxMs /\ x.real \in BOOLEAN
    BY DEF EntryType
  <2> QED BY <1>1, <1>3, <1>4, <2>1 DEF EntryType
<1>6. /\ y.probes = x.probes + 1 /\ y.tcpOK = tcp /\ y.tlsOK = tls
      /\ y.deepOK = x.deepOK /\ y.real = x.real
  BY <1>4
<1> QED BY <1>5, <1>6 DEF y

LEMMA ProvedType ==
  ASSUME NEW x \in EntryType, NEW ok \in BOOLEAN, NEW ms \in 0 .. MaxMs
  PROVE  /\ Proved(x, ok, ms) \in EntryType
         /\ Proved(x, ok, ms).probes = x.probes
         /\ Proved(x, ok, ms).tcpOK = x.tcpOK
         /\ Proved(x, ok, ms).tlsOK = x.tlsOK
         /\ Proved(x, ok, ms).deepOK = ok
         /\ Proved(x, ok, ms).real = x.real
BY DEF EntryType, Proved

LEMMA OneType == \A b \in BOOLEAN : One(b) \in Nat
BY DEF One

LEMMA DialStep ==
  ASSUME TypeInv, FlowInv, NEW w \in Workers, Dial(w)
  PROVE  /\ Busy(w) /\ worker[w].e \in All
         /\ \E tcp, tls \in BOOLEAN, ms \in 0 .. MaxMs :
               /\ tls => tcp /\ ~run.skipTLS
               /\ entries' = [entries EXCEPT ![worker[w].e] = Dialed(entries[worker[w].e], tcp, tls, ms)]
               /\ stats' \in StatsType /\ stats'.done = stats.done + 1
               /\ stats'.tcp = stats.tcp + One(tcp) /\ stats'.tls = stats.tls + One(tls)
               /\ stats'.vless = stats.vless
         /\ \E r \in Outcome : Becomes(w, r)
         /\ Outcome \subseteq WorkerType
<1>1. Busy(w)
  BY DEF Dial, At, Busy, BusyPcs
<1>2. worker[w].e \in All
  BY <1>1, BusyHolds
<1>3. PICK tcp \in BOOLEAN, tls \in BOOLEAN, ms \in 0 .. MaxMs :
         /\ tls => tcp /\ ~run.skipTLS
         /\ entries' = [entries EXCEPT ![worker[w].e] = Dialed(@, tcp, tls, ms)]
         /\ Counted(w, [stats EXCEPT !.tcp = @ + One(tcp), !.tls = @ + One(tls)])
  BY DEF Dial
<1> DEFINE s == [stats EXCEPT !.tcp = @ + One(tcp), !.tls = @ + One(tls)]
<1>4. /\ s \in StatsType /\ s.done = stats.done /\ s.tcp = stats.tcp + One(tcp)
      /\ s.tls = stats.tls + One(tls) /\ s.vless = stats.vless
  <2>1. One(tcp) \in Nat /\ One(tls) \in Nat
    BY OneType
  <2> DEFINE m == One(tcp)
             n == One(tls)
  <2> HIDE DEF m, n
  <2>2. s = [stats EXCEPT !.tcp = @ + m, !.tls = @ + n] /\ m \in Nat /\ n \in Nat
    BY <2>1 DEF m, n
  <2>3. /\ s \in StatsType /\ s.done = stats.done /\ s.tcp = stats.tcp + m
        /\ s.tls = stats.tls + n /\ s.vless = stats.vless
    <3> HIDE DEF s
    <3>1. s = [done |-> stats.done, tcp |-> stats.tcp + m, tls |-> stats.tls + n, vless |-> stats.vless]
      BY <2>2, StatsFields DEF StatsType
    <3>2. stats.tcp + m \in Nat /\ stats.tls + n \in Nat
      BY <2>2, StatsFields
    <3> QED BY <3>1, <3>2, StatsFields DEF StatsType
  <2> QED BY <2>3 DEF m, n
<1>5. Counted(w, s)
  BY <1>3
<1> HIDE DEF s
<1>6. stats' = [s EXCEPT !.done = @ + 1] /\ stats' \in StatsType
  BY <1>4, <1>5, CountedType
<1>7. /\ stats'.done = stats.done + 1
      /\ stats'.tcp = stats.tcp + One(tcp) /\ stats'.tls = stats.tls + One(tls)
      /\ stats'.vless = stats.vless
  BY <1>4, <1>6 DEF StatsType
<1>8. (\E r \in Outcome : Becomes(w, r)) /\ Outcome \subseteq WorkerType
  BY <1>4, <1>5, CountedType
<1> QED BY <1>1, <1>2, <1>3, <1>6, <1>7, <1>8

LEMMA KillStep ==
  ASSUME TypeInv, FlowInv, NEW w \in Workers, Kill(w)
  PROVE  /\ Busy(w) /\ worker[w].e \in All
         /\ entries' = [entries EXCEPT ![worker[w].e] =
                           Proved(entries[worker[w].e], worker[w].ok, worker[w].ms)]
         /\ stats' \in StatsType /\ stats'.done = stats.done + 1
         /\ stats'.tcp = stats.tcp /\ stats'.tls = stats.tls
         /\ stats'.vless = stats.vless + One(worker[w].ok)
         /\ \E r \in Outcome : Becomes(w, r)
         /\ Outcome \subseteq WorkerType
<1>1. Busy(w)
  BY DEF Kill, At, Busy, BusyPcs
<1>2. worker[w].e \in All
  BY <1>1, BusyHolds
<1> DEFINE s == [stats EXCEPT !.vless = @ + One(worker[w].ok)]
<1>4. /\ s \in StatsType /\ s.done = stats.done /\ s.tcp = stats.tcp
      /\ s.tls = stats.tls /\ s.vless = stats.vless + One(worker[w].ok)
  <2>1. One(worker[w].ok) \in Nat
    BY OneType, WorkerFields
  <2> QED BY <2>1, StatsFields DEF StatsType
<1>5. Counted(w, s)
  BY DEF Kill
<1> HIDE DEF s
<1>6. stats' = [s EXCEPT !.done = @ + 1] /\ stats' \in StatsType
  BY <1>4, <1>5, CountedType
<1>7. /\ stats'.done = stats.done + 1
      /\ stats'.tcp = stats.tcp /\ stats'.tls = stats.tls
      /\ stats'.vless = stats.vless + One(worker[w].ok)
  BY <1>4, <1>6 DEF StatsType
<1>8. (\E r \in Outcome : Becomes(w, r)) /\ Outcome \subseteq WorkerType
  BY <1>4, <1>5, CountedType
<1> QED BY <1>1, <1>2, <1>6, <1>7, <1>8 DEF Kill

\* Take puts the head of the channel into a worker's hands.
Held(i) == [Resting EXCEPT !.pc = IF stage = "probe" THEN "tcp" ELSE "pick", !.e = i]

LEMMA HeldType ==
  ASSUME TypeInv, NEW i \in All
  PROVE  /\ Held(i) \in WorkerType
         /\ Held(i).pc = IF stage = "probe" THEN "tcp" ELSE "pick"
         /\ Held(i).e = i /\ Held(i).port = 0 /\ Held(i).box = "none" /\ ~Held(i).ok
<1> DEFINE Fresh(pc) == [pc : {pc}, e : {i}, port : {0}, box : {"none"}, ok : {FALSE}, ms : {0}, d : {0}]
<1>1. ASSUME NEW pc \in {"tcp", "pick"}
      PROVE  [Resting EXCEPT !.pc = pc, !.e = i] \in Fresh(pc)
  BY DEF Resting
<1>2. Held(i) \in Fresh(IF stage = "probe" THEN "tcp" ELSE "pick")
  BY <1>1 DEF Held
<1>3. \A pc \in {"tcp", "pick"} : Fresh(pc) \subseteq WorkerType
  <2>1. 0 \in 0 .. MaxMs /\ {"tcp", "pick"} \subseteq WorkerPcs
    BY Config DEF WorkerPcs, BusyPcs
  <2> SUFFICES ASSUME NEW pc \in {"tcp", "pick"}, NEW r \in Fresh(pc) PROVE r \in WorkerType
    OBVIOUS
  <2>2. r.pc \in {pc} /\ r.e \in {i} /\ r.port \in {0} /\ r.box \in {"none"} /\ r.ms \in {0} /\ r.d \in {0}
    OBVIOUS
  <2>4. r.ok \in {FALSE}
    OBVIOUS
  <2>5. r.ok \in BOOLEAN
    BY <2>4
  <2>3. r = [pc |-> r.pc, e |-> r.e, port |-> r.port, box |-> r.box, ok |-> r.ok, ms |-> r.ms, d |-> r.d]
    OBVIOUS
  <2> QED BY <2>1, <2>2, <2>3, <2>5 DEF WorkerType
<1> QED BY <1>2, <1>3

LEMMA TakeStep ==
  ASSUME TypeInv, NEW w \in Workers, Take(w)
  PROVE  /\ Head(queue) \in All /\ Becomes(w, Held(Head(queue)))
         /\ Held(Head(queue)) \in WorkerType
         /\ \E x \in EntryType :
               /\ entries' = [entries EXCEPT ![Head(queue)] = x]
               /\ \E b \in BOOLEAN : x = [entries[Head(queue)] EXCEPT !.real = b]
               /\ stage = "probe" => x = entries[Head(queue)]
<1>1. queue # <<>> /\ Becomes(w, Held(Head(queue)))
  BY DEF Take, Held
<1>2. Head(queue) \in All /\ entries[Head(queue)] \in EntryType
  BY <1>1, QueueHead
<1>3. entries \in Seq(EntryType)
  BY DEF TypeInv
<1>4. ASSUME NEW b \in BOOLEAN
      PROVE  [entries[Head(queue)] EXCEPT !.real = b] \in EntryType
  BY <1>2 DEF EntryType
<1>5. CASE stage = "probe"
  <2> DEFINE x == entries[Head(queue)]
  <2>1. entries' = entries
    BY <1>5 DEF Take
  <2>2. entries' = [entries EXCEPT ![Head(queue)] = x]
    BY <1>2, <1>3, <2>1 DEF All
  <2>3. x.real \in BOOLEAN /\ x = [x EXCEPT !.real = x.real]
    BY <1>2 DEF EntryType
  <2> QED BY <1>1, <1>2, <2>2, <2>3, HeldType
<1>6. CASE stage # "probe"
  <2>1. PICK b \in BOOLEAN : entries' = [entries EXCEPT ![Head(queue)].real = b]
    BY <1>6 DEF Take
  <2> DEFINE x == [entries[Head(queue)] EXCEPT !.real = b]
  <2>2. entries' = [entries EXCEPT ![Head(queue)] = x]
    BY <2>1
  <2> QED BY <1>1, <1>2, <1>4, <1>6, <2>2, HeldType
<1> QED BY <1>5, <1>6

LEMMA TypeStep ==
  ASSUME TypeInv, FlowInv, StageInv, Next
  PROVE  TypeInv'
<1>1. CASE Cancel
  <2>1. All' = All /\ WorkerType' = WorkerType /\ Panel' = Panel
    BY <1>1 DEF Cancel, All, WorkerType, Panel
  <2> HIDE DEF WorkerType
  <2> QED BY <1>1, <2>1 DEF Cancel, TypeInv, feedVars
<1>2. CASE Parse
  BY <1>2, TypeParse
<1>3. CASE ProbeEnds
  <2>1. \E es \in Seq(All) : \/ Begin("deep", es) /\ stage' = "deep"
                             \/ Skip("sort") /\ stage' = "sort"
                             \/ Skip("report") /\ stage' = "report"
    <3>1. PickDeepCandidates \in Seq(All) /\ Ascending({i \in All : entries[i].tlsOK}) \in Seq(All)
      BY PickedOnce, PassersInOrder
    <3>2. \/ Begin("deep", PickDeepCandidates)
          \/ Begin("deep", Ascending({i \in All : entries[i].tlsOK}))
          \/ Skip("sort") \/ Skip("report")
      BY <1>3 DEF ProbeEnds
    <3>3. \A es : Begin("deep", es) => stage' = "deep"
      BY DEF Begin
    <3>4. \A s : Skip(s) => stage' = s
      BY DEF Skip
    <3> QED BY <3>1, <3>2, <3>3, <3>4
  <2> QED BY <1>3, <2>1, StageTypeStep DEF ProbeEnds, TypeInv
<1>4. CASE DeepEnds
  <2>1. \E es \in Seq(All) : Skip(stage') /\ stage' \in {"sort", "report"}
    BY <1>4 DEF DeepEnds, Skip, TypeInv
  <2> QED BY <1>4, <2>1, StageTypeStep DEF DeepEnds, TypeInv
<1>5. CASE Sort
  <2>1. SortByBestLatency \in Seq(All)
    BY BestFirst DEF Lists
  <2>2. Skip(stage') /\ stage' = "report"
    BY <1>5 DEF Sort, Skip
  <2> QED BY <1>5, <2>1, <2>2, StageTypeStep DEF Sort
<1>6. CASE Report
  <2>1. Skip(stage') /\ stage' = "done" /\ order \in Seq(All)
    BY <1>6 DEF Report, Skip, TypeInv
  <2> QED BY <1>6, <2>1, StageTypeStep DEF Report
<1>7. CASE Finished
  BY <1>7 DEF Finished, vars, feedVars, TypeInv, All, WorkerType, Panel, EntryType
<1>8. CASE Feed
  <2>1. All' = All /\ WorkerType' = WorkerType /\ Panel' = Panel
    BY <1>8 DEF Feed, All, WorkerType, Panel
  <2>2. /\ todo \in Seq(All) /\ queue \in Seq(All) /\ fed \in 0 .. Len(todo)
        /\ queue' = Append(queue, todo[fed + 1]) /\ fed' = fed + 1 /\ fed < Len(todo)
    BY <1>8 DEF Feed, TypeInv
  <2>3. fed + 1 \in 1 .. Len(todo)
    BY <2>2
  <2>4. todo[fed + 1] \in All
    BY <2>2, <2>3
  <2>5. queue' \in Seq(All) /\ fed' \in 0 .. Len(todo)
    BY <2>2, <2>3, <2>4
  <2> HIDE DEF WorkerType
  <2> QED BY <1>8, <2>1, <2>5 DEF Feed, TypeInv
<1>9. CASE FeedEnds
  <2>1. All' = All /\ WorkerType' = WorkerType /\ Panel' = Panel
    BY <1>9 DEF FeedEnds, All, WorkerType, Panel
  <2> HIDE DEF WorkerType
  <2> QED BY <1>9, <2>1 DEF FeedEnds, TypeInv
<1>10. ASSUME NEW w \in Workers, Work(w) PROVE TypeInv'
  <2>a. /\ worker[w] \in WorkerType /\ queue \in Seq(All)
        /\ stats \in [done : Int, tcp : Nat, tls : Nat, vless : Nat]
    BY WorkerFields DEF TypeInv
  <2>1. CASE Drain(w)
    <3>1. worker' = worker /\ queue' \in Seq(All)
      BY <2>1, QueueHead DEF Drain
    <3>2. stats' \in [done : Int, tcp : Nat, tls : Nat, vless : Nat]
      BY <2>1, <2>a DEF Drain
    <3>3. Becomes(w, worker[w])
      BY <3>1 DEF Becomes, TypeInv
    <3> QED BY <2>1, <2>a, <3>1, <3>2, <3>3, WorkerTypeStep DEF Drain
  <2>2. CASE Take(w)
    <3>1. queue' \in Seq(All)
      BY <2>2, QueueHead DEF Take
    <3> QED BY <2>2, <2>a, <3>1, TakeStep, ResultTypeStep DEF Take
  <2>3. CASE Exit(w)
    <3>1. [worker[w] EXCEPT !.pc = "exited"] \in WorkerType
      BY <2>a DEF WorkerType, WorkerPcs
    <3> QED BY <2>3, <2>a, <3>1, WorkerTypeStep DEF Exit, Goto, feedVars
  <2>4. CASE Dial(w)
    <3>1. worker[w].e \in All /\ entries[worker[w].e] \in EntryType
      BY <2>4, DialStep, BusyHolds
    <3>2. \E x \in EntryType : entries' = [entries EXCEPT ![worker[w].e] = x]
      BY <2>4, <3>1, DialStep, DialedType
    <3>3. stats' \in [done : Int, tcp : Nat, tls : Nat, vless : Nat] /\ \E r \in WorkerType : Becomes(w, r)
      BY <2>4, DialStep DEF StatsType
    <3> QED BY <2>4, <2>a, <3>1, <3>2, <3>3, ResultTypeStep DEF Dial, feedVars
  <2>5. CASE Send(w)
    BY <2>5, <2>a, RestingType, WorkerTypeStep DEF Send, feedVars
  <2>6. CASE PickPort(w)
    <3>1. PICK p \in Ports : Becomes(w, [worker[w] EXCEPT !.pc = "start", !.port = p])
      BY <2>6 DEF PickPort
    <3>2. [worker[w] EXCEPT !.pc = "start", !.port = p] \in WorkerType
      BY <2>a DEF WorkerType, WorkerPcs, BusyPcs
    <3> QED BY <2>6, <2>a, <3>1, <3>2, WorkerTypeStep DEF PickPort, feedVars
  <2>7. CASE StartBox(w)
    <3>1. [worker[w] EXCEPT !.pc = "get", !.box = "starting"] \in WorkerType
      BY <2>a DEF WorkerType, WorkerPcs, BusyPcs
    <3> QED BY <2>7, <2>a, <3>1, WorkerTypeStep DEF StartBox, feedVars
  <2>8. CASE Bind(w)
    <3>1. \A x \in {"up", "dead"} : [worker[w] EXCEPT !.box = x] \in WorkerType
      BY <2>a DEF WorkerType
    <3> QED BY <2>8, <2>a, <3>1, WorkerTypeStep DEF Bind, feedVars
  <2>9. CASE Get(w)
    <3>1. PICK ms \in 0 .. MaxMs : Becomes(w, [worker[w] EXCEPT !.pc = "kill", !.ok = TRUE, !.ms = ms])
      BY <2>9 DEF Get
    <3>2. [worker[w] EXCEPT !.pc = "kill", !.ok = TRUE, !.ms = ms] \in WorkerType
      BY <2>a DEF WorkerType, WorkerPcs, BusyPcs
    <3> QED BY <2>9, <2>a, <3>1, <3>2, WorkerTypeStep DEF Get, feedVars
  <2>10. CASE GiveUp(w)
    <3>1. [worker[w] EXCEPT !.pc = "kill"] \in WorkerType
      BY <2>a DEF WorkerType, WorkerPcs, BusyPcs
    <3> QED BY <2>10, <2>a, <3>1, WorkerTypeStep DEF GiveUp, Goto, feedVars
  <2>11. CASE Kill(w)
    <3>1. /\ worker[w].e \in All /\ entries[worker[w].e] \in EntryType
          /\ worker[w].ok \in BOOLEAN /\ worker[w].ms \in 0 .. MaxMs
      BY <2>11, KillStep, BusyHolds, WorkerFields
    <3>2. \E x \in EntryType : entries' = [entries EXCEPT ![worker[w].e] = x]
      BY <2>11, <3>1, KillStep, ProvedType
    <3>3. stats' \in [done : Int, tcp : Nat, tls : Nat, vless : Nat] /\ \E r \in WorkerType : Becomes(w, r)
      BY <2>11, KillStep DEF StatsType
    <3> QED BY <2>11, <2>a, <3>1, <3>2, <3>3, ResultTypeStep DEF Kill, feedVars
  <2> QED BY <1>10, <2>1, <2>2, <2>3, <2>4, <2>5, <2>6, <2>7, <2>8, <2>9, <2>10, <2>11 DEF Work
<1> QED BY <1>1, <1>2, <1>3, <1>4, <1>5, <1>6, <1>7, <1>8, <1>9, <1>10 DEF Next

-----------------------------------------------------------------------------
(* The way of an entry through a stage.                                     *)

LEMMA FlowFacts ==
  ASSUME TypeInv
  PROVE  /\ todo \in Seq(All) /\ queue \in Seq(All)
         /\ Len(todo) \in Nat /\ Len(queue) \in Nat /\ fed \in Nat /\ fed <= Len(todo) /\ Taken \in Int
         /\ DOMAIN todo = 1 .. Len(todo) /\ DOMAIN queue = 1 .. Len(queue)
         /\ IsFiniteSet(BusyOnes) /\ Cardinality(BusyOnes) \in Nat
<1>1. todo \in Seq(All) /\ queue \in Seq(All) /\ fed \in 0 .. Len(todo)
  BY DEF TypeInv
<1>2. /\ Len(todo) \in Nat /\ Len(queue) \in Nat
      /\ DOMAIN todo = 1 .. Len(todo) /\ DOMAIN queue = 1 .. Len(queue)
  BY <1>1
<1>3. BusyOnes \in SUBSET Workers
  BY DEF BusyOnes
<1>4. IsFiniteSet(BusyOnes) /\ Cardinality(BusyOnes) \in Nat
  BY <1>3, Config, FS_Subset, FS_CardinalityType
<1> QED BY <1>1, <1>2, <1>4 DEF Taken

\* Steps that move no entry.
LEMMA FlowStays ==
  ASSUME TypeInv, FlowInv, CountInv,
         UNCHANGED <<todo, fed, queue>>, stats'.done = stats.done,
         \A v \in Workers : /\ Busy(v)' <=> Busy(v)
                            /\ Busy(v) => worker'[v].e = worker[v].e
                            /\ At(v, "exited")' => At(v, "exited") \/ (closed /\ queue = <<>>),
         closed => closed', closed' /\ ctx' = "live" => fed = Len(todo)
  PROVE  /\ FlowInv' /\ CountInv' /\ Taken' = Taken
         /\ \A i : Settled(i)' <=> Settled(i)
<1>1. Taken' = Taken /\ BusyOnes' = BusyOnes
  BY DEF Taken, BusyOnes
<1>2. CountInv'
  BY <1>1 DEF CountInv
<1>3. \A i : Settled(i)' <=> Settled(i)
  BY <1>1 DEF Settled
<1>4. \A w \in Workers : Busy(w)' => \E k \in 1 .. Taken' : worker'[w].e = todo'[k]
  BY <1>1 DEF FlowInv
<1>5. \A v, w \in Workers : Busy(v)' /\ Busy(w)' /\ worker'[v].e = worker'[w].e => v = w
  BY DEF FlowInv
<1>6. \A w \in Workers : At(w, "exited")' => closed' /\ queue' = <<>>
  BY DEF FlowInv
<1>7. Len(queue') <= fed' /\ \A n \in DOMAIN queue' : queue'[n] = todo'[Taken' + n]
  BY <1>1 DEF FlowInv
<1>8. \A k, l \in DOMAIN todo' : todo'[k] = todo'[l] => k = l
  BY DEF FlowInv
<1>9. closed' /\ ctx' = "live" => fed' = Len(todo')
  OBVIOUS
<1> QED BY <1>1, <1>2, <1>3, <1>4, <1>5, <1>6, <1>7, <1>8, <1>9 DEF FlowInv

\* A worker takes the head of the channel ...
LEMMA FlowTake ==
  ASSUME TypeInv, FlowInv, CountInv, NEW w \in Workers, Take(w), NEW h, h = Head(queue)
  PROVE  /\ FlowInv' /\ CountInv' /\ Taken' = Taken + 1
         /\ ~Settled(h)
         /\ \A i : Settled(i)' <=> Settled(i)
         /\ \A v \in Workers : Busy(v) => worker[v].e # h
<1>1. queue # <<>> /\ queue' = Tail(queue) /\ Becomes(w, Held(h)) /\ ~Busy(w) /\ ~At(w, "exited")
  BY DEF Take, Held, At, Busy, BusyPcs
<1>2. UNCHANGED <<todo, fed, closed, ctx>> /\ stats' = stats
  BY DEF Take
<1>3. /\ h \in All /\ h = queue[1] /\ 1 \in DOMAIN queue
      /\ Tail(queue) \in Seq(All) /\ Len(Tail(queue)) = Len(queue) - 1 /\ Len(queue) \in Nat
      /\ \A n \in DOMAIN Tail(queue) : n + 1 \in DOMAIN queue /\ Tail(queue)[n] = queue[n + 1]
  BY <1>1, QueueHead
<1>4. h = todo[Taken + 1] /\ Taken + 1 \in DOMAIN todo /\ Taken \in Nat /\ Taken' = Taken + 1
  <2>1. Len(queue) <= fed /\ queue[1] = todo[Taken + 1]
    BY <1>3 DEF FlowInv
  <2> QED BY <1>1, <1>2, <1>3, <2>1, FlowFacts DEF Taken
<1>5. \A k \in 1 .. Taken : k \in DOMAIN todo /\ todo[k] # h
  BY <1>4, FlowFacts DEF FlowInv
<1>6. \A v \in Workers : Busy(v) => worker[v].e # h
  BY <1>5 DEF FlowInv
<1>7. /\ worker' = [worker EXCEPT ![w] = Held(h)] /\ worker \in [Workers -> WorkerType]
      /\ Held(h).e = h /\ Held(h).pc \in {"tcp", "pick"}
  BY <1>1, <1>3, HeldType DEF Becomes, TypeInv
<1>8. /\ worker'[w] = Held(h) /\ Busy(w)' /\ worker'[w].e = h /\ ~At(w, "exited")'
      /\ \A v \in Workers : v # w => worker'[v] = worker[v]
  BY <1>7 DEF Busy, BusyPcs, At
<1>9. \A v \in Workers : v # w => (Busy(v)' <=> Busy(v)) /\ (At(v, "exited")' <=> At(v, "exited"))
  BY <1>8 DEF Busy, At
<1>10. CountInv'
  <2>1. BusyOnes' = BusyOnes \cup {w} /\ w \notin BusyOnes
    BY <1>1, <1>8, <1>9 DEF BusyOnes
  <2>2. Cardinality(BusyOnes') = Cardinality(BusyOnes) + 1
    BY <2>1, FlowFacts, FS_AddElement
  <2> QED BY <1>2, <1>4, <2>2, FlowFacts, StatsFields DEF CountInv
<1>11. ~Settled(h) /\ ~Settled(h)'
  BY <1>5, <1>8 DEF Settled
<1>12. ASSUME NEW i PROVE Settled(i)' <=> Settled(i)
  <2>1. CASE i = h
    BY <1>11, <2>1
  <2>2. CASE i # h
    <3>1. (\E k \in 1 .. Taken' : todo'[k] = i) <=> \E k \in 1 .. Taken : todo[k] = i
      BY <1>2, <1>4, <2>2
    <3>2. (\A v \in Workers : Busy(v)' => worker'[v].e # i) <=> \A v \in Workers : Busy(v) => worker[v].e # i
      BY <1>1, <1>8, <1>9, <2>2
    <3> QED BY <3>1, <3>2 DEF Settled
  <2> QED BY <2>1, <2>2
<1>13. \A v \in Workers : Busy(v)' => \E k \in 1 .. Taken' : worker'[v].e = todo'[k]
  <2> SUFFICES ASSUME NEW v \in Workers, Busy(v)' PROVE \E k \in 1 .. Taken' : worker'[v].e = todo'[k]
    OBVIOUS
  <2>1. CASE v = w
    BY <1>2, <1>4, <1>8, <2>1
  <2>2. CASE v # w
    <3>1. PICK k \in 1 .. Taken : worker[v].e = todo[k]
      BY <1>9, <2>2 DEF FlowInv
    <3> QED BY <1>2, <1>4, <1>8, <2>2, <3>1
  <2> QED BY <2>1, <2>2
<1>14. \A u, v \in Workers : Busy(u)' /\ Busy(v)' /\ worker'[u].e = worker'[v].e => u = v
  BY <1>6, <1>8, <1>9 DEF FlowInv
<1>15. \A v \in Workers : At(v, "exited")' => closed' /\ queue' = <<>>
  BY <1>1, <1>8, <1>9 DEF FlowInv
<1>16. Len(queue') <= fed' /\ \A n \in DOMAIN queue' : queue'[n] = todo'[Taken' + n]
  <2>1. Len(queue') <= fed'
    BY <1>1, <1>2, <1>3, FlowFacts DEF FlowInv
  <2>2. ASSUME NEW n \in DOMAIN queue' PROVE queue'[n] = todo'[Taken' + n]
    <3>1. n + 1 \in DOMAIN queue /\ queue'[n] = queue[n + 1] /\ n \in Nat
      BY <1>1, <1>3
    <3>2. queue[n + 1] = todo[Taken + (n + 1)]
      BY <3>1 DEF FlowInv
    <3>3. Taken + (n + 1) = Taken' + n
      BY <1>4, <3>1
    <3> QED BY <1>2, <3>1, <3>2, <3>3
  <2> QED BY <2>1, <2>2
<1>17. /\ \A k, l \in DOMAIN todo' : todo'[k] = todo'[l] => k = l
       /\ closed' /\ ctx' = "live" => fed' = Len(todo')
  BY <1>2 DEF FlowInv
<1>18. FlowInv'
  BY <1>13, <1>14, <1>15, <1>16, <1>17 DEF FlowInv
<1> QED BY <1>4, <1>6, <1>10, <1>11, <1>12, <1>18

\* ... and is done with it ...
LEMMA FlowDone ==
  ASSUME TypeInv, FlowInv, CountInv, NEW w \in Workers, Busy(w), NEW e, e = worker[w].e,
         \E r \in Outcome : Becomes(w, r), stats'.done = stats.done + 1,
         UNCHANGED <<todo, fed, queue, closed, ctx>>
  PROVE  /\ FlowInv' /\ CountInv' /\ Taken' = Taken
         /\ Settled(e)' /\ ~Settled(e)
         /\ \A i : i # e => (Settled(i)' <=> Settled(i))
<1>1. PICK r \in Outcome : Becomes(w, r)
  OBVIOUS
<1>2. worker' = [worker EXCEPT ![w] = r] /\ worker \in [Workers -> WorkerType]
  BY <1>1 DEF Becomes, TypeInv
<1>3. r.pc \in {"send", "loop"}
  BY DEF Outcome
<1>4. /\ ~Busy(w)' /\ ~At(w, "exited")' /\ ~At(w, "exited")
      /\ \A v \in Workers : v # w => worker'[v] = worker[v]
  BY <1>2, <1>3 DEF Busy, BusyPcs, At
<1>5. \A v \in Workers : v # w => (Busy(v)' <=> Busy(v)) /\ (At(v, "exited")' <=> At(v, "exited"))
  BY <1>4 DEF Busy, At
<1>6. Taken' = Taken
  BY DEF Taken
<1>7. CountInv'
  <2>1. BusyOnes' = BusyOnes \ {w} /\ w \in BusyOnes
    BY <1>4, <1>5 DEF BusyOnes
  <2>2. Cardinality(BusyOnes') = Cardinality(BusyOnes) - 1
    BY <2>1, FlowFacts, FS_RemoveElement
  <2> QED BY <1>6, <2>2, FlowFacts, StatsFields DEF CountInv
<1>8. \A v \in Workers : Busy(v) /\ v # w => worker[v].e # e
  BY DEF FlowInv
<1>9. Settled(e)' /\ ~Settled(e)
  <2>1. \E k \in 1 .. Taken' : todo'[k] = e
    BY <1>6 DEF FlowInv
  <2>2. \A v \in Workers : Busy(v)' => worker'[v].e # e
    BY <1>4, <1>5, <1>8
  <2> QED BY <2>1, <2>2 DEF Settled
<1>10. ASSUME NEW i, i # e PROVE Settled(i)' <=> Settled(i)
  <2>1. (\A v \in Workers : Busy(v)' => worker'[v].e # i) <=> \A v \in Workers : Busy(v) => worker[v].e # i
    BY <1>4, <1>5, <1>10
  <2> QED BY <1>6, <2>1 DEF Settled
<1>11. \A v \in Workers : Busy(v)' => \E k \in 1 .. Taken' : worker'[v].e = todo'[k]
  BY <1>4, <1>5, <1>6 DEF FlowInv
<1>12. \A u, v \in Workers : Busy(u)' /\ Busy(v)' /\ worker'[u].e = worker'[v].e => u = v
  BY <1>4, <1>5 DEF FlowInv
<1>13. \A v \in Workers : At(v, "exited")' => closed' /\ queue' = <<>>
  BY <1>4, <1>5 DEF FlowInv
<1>14. /\ Len(queue') <= fed' /\ \A n \in DOMAIN queue' : queue'[n] = todo'[Taken' + n]
       /\ \A k, l \in DOMAIN todo' : todo'[k] = todo'[l] => k = l
       /\ closed' /\ ctx' = "live" => fed' = Len(todo')
  BY <1>6 DEF FlowInv
<1>15. FlowInv'
  BY <1>11, <1>12, <1>13, <1>14 DEF FlowInv
<1> QED BY <1>6, <1>7, <1>9, <1>10, <1>15

\* ... or only counts it, once the context is over.
LEMMA FlowDrain ==
  ASSUME TypeInv, FlowInv, CountInv, NEW w \in Workers, Drain(w), NEW h, h = Head(queue)
  PROVE  /\ FlowInv' /\ CountInv' /\ Taken' = Taken + 1
         /\ \A i : i # h => (Settled(i)' <=> Settled(i))
         /\ Settled(h)' /\ ~Settled(h)
<1>1. queue # <<>> /\ queue' = Tail(queue) /\ worker' = worker
  BY DEF Drain
<1>2. UNCHANGED <<todo, fed, closed, ctx>> /\ stats' = [stats EXCEPT !.done = @ + 1]
  BY DEF Drain
<1>3. /\ h \in All /\ h = queue[1] /\ 1 \in DOMAIN queue
      /\ Tail(queue) \in Seq(All) /\ Len(Tail(queue)) = Len(queue) - 1 /\ Len(queue) \in Nat
      /\ \A n \in DOMAIN Tail(queue) : n + 1 \in DOMAIN queue /\ Tail(queue)[n] = queue[n + 1]
  BY <1>1, QueueHead
<1>4. h = todo[Taken + 1] /\ Taken + 1 \in DOMAIN todo /\ Taken \in Nat /\ Taken' = Taken + 1
  <2>1. Len(queue) <= fed /\ queue[1] = todo[Taken + 1]
    BY <1>3 DEF FlowInv
  <2> QED BY <1>1, <1>2, <1>3, <2>1, FlowFacts DEF Taken
<1>5. \A k \in 1 .. Taken : k \in DOMAIN todo /\ todo[k] # h
  BY <1>4, FlowFacts DEF FlowInv
<1>6. \A v \in Workers : Busy(v) => worker[v].e # h
  BY <1>5 DEF FlowInv
<1>7. \A v \in Workers : (Busy(v)' <=> Busy(v)) /\ (At(v, "exited")' <=> At(v, "exited"))
  BY <1>1 DEF Busy, At
<1>8. BusyOnes' = BusyOnes
  BY <1>7 DEF BusyOnes
<1>9. stats'.done = stats.done + 1
  BY <1>2, StatsFields DEF StatsType
<1>10. CountInv'
  BY <1>4, <1>8, <1>9, FlowFacts, StatsFields DEF CountInv
<1>11. ~Settled(h)
  BY <1>5 DEF Settled
<1>12. Settled(h)'
  BY <1>1, <1>2, <1>4, <1>6, <1>7 DEF Settled
<1>13. ASSUME NEW i, i # h PROVE Settled(i)' <=> Settled(i)
  <2>1. (\E k \in 1 .. Taken' : todo'[k] = i) <=> \E k \in 1 .. Taken : todo[k] = i
    BY <1>2, <1>4, <1>13
  <2> QED BY <1>1, <1>7, <2>1 DEF Settled
<1>14. \A v \in Workers : Busy(v)' => \E k \in 1 .. Taken' : worker'[v].e = todo'[k]
  <2> SUFFICES ASSUME NEW v \in Workers, Busy(v)' PROVE \E k \in 1 .. Taken' : worker'[v].e = todo'[k]
    OBVIOUS
  <2>1. PICK k \in 1 .. Taken : worker[v].e = todo[k]
    BY <1>7 DEF FlowInv
  <2> QED BY <1>1, <1>2, <1>4, <2>1
<1>15. \A u, v \in Workers : Busy(u)' /\ Busy(v)' /\ worker'[u].e = worker'[v].e => u = v
  BY <1>1, <1>7 DEF FlowInv
<1>16. \A v \in Workers : At(v, "exited")' => closed' /\ queue' = <<>>
  BY <1>1, <1>7 DEF FlowInv
<1>17. Len(queue') <= fed' /\ \A n \in DOMAIN queue' : queue'[n] = todo'[Taken' + n]
  <2>1. Len(queue') <= fed'
    BY <1>1, <1>2, <1>3, FlowFacts DEF FlowInv
  <2>2. ASSUME NEW n \in DOMAIN queue' PROVE queue'[n] = todo'[Taken' + n]
    <3>1. n + 1 \in DOMAIN queue /\ queue'[n] = queue[n + 1] /\ n \in Nat
      BY <1>1, <1>3
    <3>2. queue[n + 1] = todo[Taken + (n + 1)]
      BY <3>1 DEF FlowInv
    <3>3. Taken + (n + 1) = Taken' + n
      BY <1>4, <3>1
    <3> QED BY <1>2, <3>1, <3>2, <3>3
  <2> QED BY <2>1, <2>2
<1>18. /\ \A k, l \in DOMAIN todo' : todo'[k] = todo'[l] => k = l
       /\ closed' /\ ctx' = "live" => fed' = Len(todo')
  BY <1>2 DEF FlowInv
<1>19. FlowInv'
  BY <1>14, <1>15, <1>16, <1>17, <1>18 DEF FlowInv
<1> QED BY <1>4, <1>10, <1>11, <1>12, <1>13, <1>19

LEMMA FlowFeed ==
  ASSUME TypeInv, FlowInv, CountInv, Feed
  PROVE  FlowInv' /\ CountInv' /\ \A i : Settled(i)' <=> Settled(i)
<1>1. /\ ~closed /\ fed < Len(todo) /\ queue' = Append(queue, todo[fed + 1]) /\ fed' = fed + 1
      /\ UNCHANGED <<todo, closed, ctx, worker>> /\ stats' = stats
  BY DEF Feed
<1>2. /\ Len(queue') = Len(queue) + 1 /\ DOMAIN queue' = 1 .. Len(queue) + 1
      /\ \A n \in 1 .. Len(queue) : queue'[n] = queue[n]
      /\ queue'[Len(queue) + 1] = todo[fed + 1]
  BY <1>1, FlowFacts
<1>3. Taken' = Taken
  BY <1>1, <1>2, FlowFacts DEF Taken
<1>4. \A v \in Workers : (Busy(v)' <=> Busy(v)) /\ (At(v, "exited")' <=> At(v, "exited"))
  BY <1>1 DEF Busy, At
<1>5. BusyOnes' = BusyOnes
  BY <1>4 DEF BusyOnes
<1>6. CountInv'
  BY <1>1, <1>3, <1>5 DEF CountInv
<1>7. \A i : Settled(i)' <=> Settled(i)
  BY <1>1, <1>3, <1>4 DEF Settled
<1>8. Len(queue') <= fed' /\ \A n \in DOMAIN queue' : queue'[n] = todo'[Taken' + n]
  <2>1. Len(queue') <= fed'
    BY <1>1, <1>2, FlowFacts DEF FlowInv
  <2>2. ASSUME NEW n \in 1 .. Len(queue) PROVE queue'[n] = todo'[Taken' + n]
    BY <1>1, <1>2, <1>3, FlowFacts DEF FlowInv
  <2>3. Taken' + (Len(queue) + 1) = fed + 1
    BY <1>3, FlowFacts DEF Taken
  <2>4. ASSUME NEW n \in DOMAIN queue' PROVE n \in 1 .. Len(queue) \/ n = Len(queue) + 1
    BY <1>2, FlowFacts
  <2> QED BY <1>1, <1>2, <2>1, <2>2, <2>3, <2>4
<1>9. \A v \in Workers : Busy(v)' => \E k \in 1 .. Taken' : worker'[v].e = todo'[k]
  BY <1>1, <1>3, <1>4 DEF FlowInv
<1>10. \A u, v \in Workers : Busy(u)' /\ Busy(v)' /\ worker'[u].e = worker'[v].e => u = v
  BY <1>1, <1>4 DEF FlowInv
<1>11. \A v \in Workers : At(v, "exited")' => closed' /\ queue' = <<>>
  BY <1>1, <1>4 DEF FlowInv
<1>12. \A k, l \in DOMAIN todo' : todo'[k] = todo'[l] => k = l
  BY <1>1 DEF FlowInv
<1>13. FlowInv'
  BY <1>1, <1>8, <1>9, <1>10, <1>11, <1>12 DEF FlowInv
<1> QED BY <1>6, <1>7, <1>13

\* A stage begins with nothing taken.
LEMMA FlowBegin ==
  ASSUME NEW s, NEW S, NEW es \in Seq(S), Begin(s, es), TypeInv,
         \A k, l \in DOMAIN es : es[k] = es[l] => k = l
  PROVE  /\ FlowInv' /\ CountInv' /\ \A i : ~Settled(i)'
         /\ \A v \in Workers : At(v, "loop")'
<1>1. /\ todo' = es /\ fed' = 0 /\ queue' = <<>> /\ closed' = FALSE
      /\ worker' = [w \in Workers |-> Resting]
      /\ stats' = [stats EXCEPT !.done = 0]
  BY DEF Begin
<1>2. \A v \in Workers : worker'[v] = Resting
  BY <1>1
<1>3. Resting.pc = "loop"
  BY DEF Resting
<1>4. \A v \in Workers : ~Busy(v)' /\ At(v, "loop")' /\ ~At(v, "exited")'
  BY <1>2, <1>3 DEF Busy, BusyPcs, At
<1>5. Taken' = 0 /\ Len(queue') = 0
  <2>1. Len(queue') = 0 /\ fed' = 0
    BY <1>1
  <2> QED BY <2>1 DEF Taken
<1>6. BusyOnes' = {}
  BY <1>4 DEF BusyOnes
<1>7. stats'.done = 0
  BY <1>1, StatsFields DEF StatsType
<1>8. CountInv'
  BY <1>5, <1>6, <1>7, FS_EmptySet DEF CountInv
<1>9. \A i : ~Settled(i)'
  BY <1>5 DEF Settled
<1>10. DOMAIN queue' = {}
  BY <1>1
<1>11. Len(queue') <= fed'
  BY <1>1, <1>5
<1>12. FlowInv'
  BY <1>1, <1>4, <1>10, <1>11 DEF FlowInv
<1> QED BY <1>4, <1>8, <1>9, <1>12

-----------------------------------------------------------------------------
(* The marks and the counters.                                              *)

SameMarks == /\ All' = All
             /\ \A i \in All : /\ entries'[i].tcpOK = entries[i].tcpOK
                               /\ entries'[i].tlsOK = entries[i].tlsOK
                               /\ entries'[i].deepOK = entries[i].deepOK
                               /\ entries'[i].probes = entries[i].probes
             /\ stats'.tcp = stats.tcp /\ stats'.tls = stats.tls /\ stats'.vless = stats.vless

LEMMA CountersStay == ASSUME CountersInv, SameMarks PROVE CountersInv'
<1>1. /\ {i \in All' : entries'[i].tcpOK} = {i \in All : entries[i].tcpOK}
      /\ {i \in All' : entries'[i].tlsOK} = {i \in All : entries[i].tlsOK}
      /\ {i \in All' : entries'[i].deepOK} = {i \in All : entries[i].deepOK}
  BY DEF SameMarks
<1> QED BY <1>1 DEF CountersInv, SameMarks

\* Steps within a stage that give no verdict.
LEMMA NoVerdict ==
  ASSUME IInv, SameMarks, UNCHANGED <<run, stage, todo>>,
         ctx' = "live" => ctx = "live",
         \A i : Settled(i) => Settled(i)',
         ctx' = "live" => \A i : Settled(i)' => Settled(i),
         stage \in {"probe", "deep"} \/ stats'.done = stats.done,
         stage = "parse" => entries' = entries,
         \A v \in Workers : worker'[v].pc \in PcsOf(stage)
  PROVE  StageInv' /\ ProbedInv' /\ MarksInv' /\ CountersInv'
<1>1. CountersInv'
  BY CountersStay DEF IInv
<1>2. \A k \in DOMAIN todo : todo[k] \in All
  BY FlowFacts DEF IInv
<1>3. Len(entries') = Len(entries) /\ Panel' = Panel
  BY DEF SameMarks, All, IInv, TypeInv, Panel
<1>4. StageInv'
  BY <1>2, <1>3 DEF IInv, StageInv, SameMarks
<1>5. ProbedInv'
  BY DEF IInv, ProbedInv, SameMarks
<1>6. MarksInv'
  BY DEF IInv, MarksInv, SameMarks
<1> QED BY <1>1, <1>4, <1>5, <1>6

LEMMA CountOne ==
  ASSUME NEW S, IsFiniteSet(S), NEW T, NEW e, e \notin S, NEW b \in BOOLEAN,
         T = IF b THEN S \cup {e} ELSE S
  PROVE  Cardinality(T) = Cardinality(S) + One(b)
<1>1. Cardinality(S) \in Nat /\ Cardinality(S \cup {e}) = Cardinality(S) + 1
  BY FS_AddElement, FS_CardinalityType
<1>2. CASE b = TRUE
  BY <1>1, <1>2 DEF One
<1>3. CASE b = FALSE
  BY <1>1, <1>3 DEF One
<1> QED BY <1>2, <1>3

\* The entry of a dial has not been probed before, and the counters follow its marks.
LEMMA DialVerdict ==
  ASSUME IInv, NEW w \in Workers, Dial(w)
  PROVE  FlowInv' /\ CountInv' /\ StageInv' /\ ProbedInv' /\ MarksInv' /\ CountersInv'
<1> DEFINE e == worker[w].e
<1>1. PICK i : i = e
  OBVIOUS
<1>2. /\ Busy(w) /\ i \in All /\ worker[w].pc = "tcp"
      /\ UNCHANGED <<run, lists, ctx, stage, todo, fed, queue, closed>>
      /\ \E r \in Outcome : Becomes(w, r)
      /\ stats' \in StatsType /\ stats'.done = stats.done + 1
  BY <1>1, DialStep DEF IInv, Dial, feedVars, At
<1>3. PICK tcp \in BOOLEAN, tls \in BOOLEAN, ms \in 0 .. MaxMs :
         /\ tls => tcp /\ ~run.skipTLS
         /\ entries' = [entries EXCEPT ![i] = Dialed(entries[i], tcp, tls, ms)]
         /\ stats'.tcp = stats.tcp + One(tcp) /\ stats'.tls = stats.tls + One(tls)
         /\ stats'.vless = stats.vless
  BY <1>1, DialStep DEF IInv
<1>4. stage = "probe"
  BY <1>2 DEF IInv, StageInv, PcsOf
<1>5. /\ FlowInv' /\ CountInv' /\ Settled(i)' /\ ~Settled(i)
      /\ \A j : j # i => (Settled(j)' <=> Settled(j))
  BY <1>1, <1>2, FlowDone DEF IInv
<1>6. entries[i] \in EntryType /\ entries \in Seq(EntryType)
  BY <1>2, AllFinite DEF IInv, TypeInv
<1>7. entries[i].probes = 0 /\ ~entries[i].tcpOK /\ ~entries[i].tlsOK /\ ~entries[i].deepOK
  BY <1>2, <1>4, <1>5 DEF IInv, ProbedInv, MarksInv
<1>8. /\ entries'[i].probes = 1 /\ entries'[i].tcpOK = tcp /\ entries'[i].tlsOK = tls
      /\ entries'[i].deepOK = entries[i].deepOK
  <2>1. entries'[i] = Dialed(entries[i], tcp, tls, ms)
    BY <1>2, <1>3, <1>6 DEF All
  <2> QED BY <1>6, <1>7, <2>1, DialedType
<1>9. All' = All /\ Len(entries') = Len(entries) /\ \A j \in All : j # i => entries'[j] = entries[j]
  BY <1>2, <1>3, <1>6 DEF All
<1> HIDE DEF e
<1>10. StageInv'
  <2>1. PICK r \in Outcome : Becomes(w, r)
    BY <1>2
  <2>2. r.pc \in {"send", "loop"} /\ worker' = [worker EXCEPT ![w] = r] /\ worker \in [Workers -> WorkerType]
    BY <2>1 DEF Outcome, Becomes, IInv, TypeInv
  <2>3. \A v \in Workers : worker'[v].pc \in PcsOf("probe")
    BY <1>4, <2>2 DEF IInv, StageInv, PcsOf
  <2> QED BY <1>2, <1>4, <1>9, <2>3 DEF StageInv, IInv
<1>11. ProbedInv'
  BY <1>2, <1>4, <1>5, <1>8, <1>9 DEF ProbedInv, IInv
<1>12. MarksInv'
  BY <1>2, <1>3, <1>4, <1>7, <1>8, <1>9 DEF MarksInv, IInv
<1>13. CountersInv'
  <2> DEFINE S1 == {j \in All : entries[j].tcpOK}
             S2 == {j \in All : entries[j].tlsOK}
             S3 == {j \in All : entries[j].deepOK}
             T1 == {j \in All' : entries'[j].tcpOK}
             T2 == {j \in All' : entries'[j].tlsOK}
             T3 == {j \in All' : entries'[j].deepOK}
  <2>1. IsFiniteSet(All)
    BY AllFinite DEF IInv
  <2>2. IsFiniteSet(S1) /\ IsFiniteSet(S2)
    BY <2>1, FS_Subset
  <2>3. i \notin S1 /\ i \notin S2
    BY <1>7
  <2>4. T1 = (IF tcp THEN S1 \cup {i} ELSE S1) /\ T2 = (IF tls THEN S2 \cup {i} ELSE S2) /\ T3 = S3
    BY <1>2, <1>7, <1>8, <1>9
  <2> HIDE DEF S1, S2, S3, T1, T2, T3
  <2>5. Cardinality(T1) = Cardinality(S1) + One(tcp) /\ Cardinality(T2) = Cardinality(S2) + One(tls)
    BY <2>2, <2>3, <2>4, CountOne
  <2> QED BY <1>3, <2>4, <2>5 DEF IInv, CountersInv, S1, S2, S3, T1, T2, T3
<1> QED BY <1>5, <1>10, <1>11, <1>12, <1>13

LEMMA KillVerdict ==
  ASSUME IInv, NEW w \in Workers, Kill(w)
  PROVE  FlowInv' /\ CountInv' /\ StageInv' /\ ProbedInv' /\ MarksInv' /\ CountersInv'
<1>1. PICK i : i = worker[w].e
  OBVIOUS
<1>2. /\ Busy(w) /\ i \in All /\ worker[w].pc = "kill"
      /\ UNCHANGED <<run, lists, ctx, stage, todo, fed, queue, closed>>
      /\ \E r \in Outcome : Becomes(w, r)
      /\ stats' \in StatsType /\ stats'.done = stats.done + 1
  BY <1>1, KillStep DEF IInv, Kill, feedVars, At
<1>3. PICK ok : ok = worker[w].ok
  OBVIOUS
<1>4. /\ ok \in BOOLEAN /\ worker[w].ms \in 0 .. MaxMs
      /\ entries' = [entries EXCEPT ![i] = Proved(entries[i], ok, worker[w].ms)]
      /\ stats'.tcp = stats.tcp /\ stats'.tls = stats.tls /\ stats'.vless = stats.vless + One(ok)
  BY <1>1, <1>3, KillStep, WorkerFields DEF IInv
<1>5. stage = "deep" /\ run.deep
  BY <1>2 DEF IInv, StageInv, PcsOf
<1>6. /\ FlowInv' /\ CountInv' /\ Settled(i)' /\ ~Settled(i)
      /\ \A j : j # i => (Settled(j)' <=> Settled(j))
  BY <1>1, <1>2, FlowDone DEF IInv
<1>7. entries[i] \in EntryType /\ entries \in Seq(EntryType)
  BY <1>2, AllFinite DEF IInv, TypeInv
<1>8. entries[i].tlsOK /\ ~entries[i].deepOK
  <2>1. PICK k \in 1 .. Taken : i = todo[k]
    BY <1>1, <1>2 DEF IInv, FlowInv
  <2>2. k \in DOMAIN todo
    BY FlowFacts DEF IInv, Taken
  <2> QED BY <1>2, <1>5, <1>6, <2>1, <2>2 DEF IInv, StageInv, MarksInv
<1>9. /\ entries'[i].probes = entries[i].probes /\ entries'[i].tcpOK = entries[i].tcpOK
      /\ entries'[i].tlsOK = entries[i].tlsOK /\ entries'[i].deepOK = ok
  <2>1. entries'[i] = Proved(entries[i], ok, worker[w].ms)
    BY <1>2, <1>4, <1>7 DEF All
  <2> QED BY <1>4, <1>7, <2>1, ProvedType
<1>10. All' = All /\ Len(entries') = Len(entries) /\ \A j \in All : j # i => entries'[j] = entries[j]
  BY <1>2, <1>4, <1>7 DEF All
<1>11. StageInv'
  <2>1. PICK r \in Outcome : Becomes(w, r)
    BY <1>2
  <2>2. r.pc \in {"send", "loop"} /\ worker' = [worker EXCEPT ![w] = r] /\ worker \in [Workers -> WorkerType]
    BY <2>1 DEF Outcome, Becomes, IInv, TypeInv
  <2>3. \A v \in Workers : worker'[v].pc \in PcsOf("deep")
    BY <1>5, <2>2 DEF IInv, StageInv, PcsOf, WorkerPcs
  <2>4. \A k \in DOMAIN todo : todo[k] \in All
    BY FlowFacts DEF IInv
  <2>5. \A k \in DOMAIN todo : entries'[todo[k]].tlsOK
    BY <1>5, <1>9, <1>10, <2>4 DEF IInv, StageInv
  <2> QED BY <1>2, <1>5, <1>10, <2>3, <2>5 DEF StageInv, IInv
<1>12. ProbedInv'
  BY <1>2, <1>5, <1>9, <1>10 DEF ProbedInv, IInv
<1>13. MarksInv'
  BY <1>2, <1>5, <1>6, <1>8, <1>9, <1>10 DEF MarksInv, IInv
<1>14. CountersInv'
  <2> DEFINE S1 == {j \in All : entries[j].tcpOK}
             S2 == {j \in All : entries[j].tlsOK}
             S3 == {j \in All : entries[j].deepOK}
             T1 == {j \in All' : entries'[j].tcpOK}
             T2 == {j \in All' : entries'[j].tlsOK}
             T3 == {j \in All' : entries'[j].deepOK}
  <2>1. IsFiniteSet(All)
    BY AllFinite DEF IInv
  <2>2. IsFiniteSet(S3)
    BY <2>1, FS_Subset
  <2>3. i \notin S3
    BY <1>8
  <2>4. T3 = (IF ok THEN S3 \cup {i} ELSE S3) /\ T1 = S1 /\ T2 = S2
    BY <1>2, <1>8, <1>9, <1>10
  <2> HIDE DEF S1, S2, S3, T1, T2, T3
  <2>5. Cardinality(T3) = Cardinality(S3) + One(ok)
    BY <1>4, <2>2, <2>3, <2>4, CountOne
  <2> QED BY <1>4, <2>4, <2>5 DEF IInv, CountersInv, S1, S2, S3, T1, T2, T3
<1> QED BY <1>6, <1>11, <1>12, <1>13, <1>14

-----------------------------------------------------------------------------
(* The inductive step.                                                      *)

\* When all workers of a stage nobody cut short have ended, every entry of it is done with.
LEMMA StageEmpty ==
  ASSUME IInv, Exited, Workers # {}, ctx = "live"
  PROVE  stats.done = Len(todo) /\ \A k \in DOMAIN todo : Settled(todo[k])
<1>1. closed /\ queue = <<>> /\ fed = Len(todo)
  BY DEF Exited, IInv, FlowInv
<1>2. \A w \in Workers : ~Busy(w)
  BY DEF Exited, At, Busy, BusyPcs
<1>3. BusyOnes = {} /\ Taken = Len(todo) /\ DOMAIN todo = 1 .. Len(todo) /\ Len(todo) \in Nat
  <2>1. Len(queue) = 0
    BY <1>1
  <2> QED BY <1>1, <1>2, <2>1, FlowFacts DEF BusyOnes, Taken, IInv
<1>4. stats.done = Len(todo)
  BY <1>3, FS_EmptySet DEF IInv, CountInv
<1>5. \A k \in DOMAIN todo : Settled(todo[k])
  BY <1>2, <1>3 DEF Settled
<1> QED BY <1>4, <1>5

\* A stage ends, or one without workers is passed.
LEMMA SkipKeeps ==
  ASSUME IInv, NEW s \in {"sort", "report", "done"}, Skip(s),
         UNCHANGED <<run, ctx, entries>>, stage \in {"probe", "deep", "sort", "report"},
         stage \in {"probe", "deep"} => Exited,
         s = "sort" => Panel
  PROVE  FlowInv' /\ CountInv' /\ StageInv' /\ ProbedInv' /\ MarksInv' /\ CountersInv'
<1>1. UNCHANGED <<todo, fed, queue, closed, worker, stats>> /\ stage' = s
  BY DEF Skip, feedVars
<1>2. \A v \in Workers : /\ (Busy(v)' <=> Busy(v)) /\ (At(v, "exited")' <=> At(v, "exited"))
  BY <1>1 DEF Busy, At
<1>3. FlowInv' /\ CountInv' /\ \A i : Settled(i)' <=> Settled(i)
  BY <1>1, <1>2, FlowStays DEF IInv, FlowInv
<1>4. SameMarks
  BY <1>1 DEF SameMarks, All
<1>5. CountersInv'
  BY <1>4, CountersStay DEF IInv
<1>6. \A v \in Workers : worker[v].pc \in {"loop", "exited"}
  BY DEF Exited, At, IInv, StageInv, PcsOf
<1>7. StageInv'
  BY <1>1, <1>6 DEF StageInv, PcsOf, Panel
<1>8. ASSUME Workers # {}, ctx' = "live"
      PROVE  stats'.done = Len(todo') /\ \A i \in All' : entries'[i].probes = 1
  <2>1. CASE stage = "probe"
    <3>1. stats.done = Len(todo) /\ \A k \in DOMAIN todo : Settled(todo[k])
      BY <1>8, <2>1, StageEmpty
    <3>2. \A i \in All : i \in DOMAIN todo /\ todo[i] = i
      BY <2>1, AllFinite, FlowFacts DEF IInv, StageInv
    <3> QED BY <1>1, <1>4, <1>8, <2>1, <3>1, <3>2 DEF IInv, ProbedInv, SameMarks
  <2>2. CASE stage = "deep"
    <3>1. stats.done = Len(todo)
      BY <1>8, <2>2, StageEmpty
    <3> QED BY <1>1, <1>4, <1>8, <2>2, <3>1 DEF IInv, ProbedInv, SameMarks
  <2>3. CASE stage \in {"sort", "report"}
    BY <1>1, <1>4, <1>8, <2>3 DEF IInv, ProbedInv, SameMarks
  <2> QED BY <2>1, <2>2, <2>3
<1>9. ProbedInv'
  BY <1>1, <1>4, <1>8 DEF IInv, ProbedInv, SameMarks
<1>10. MarksInv'
  BY <1>1, <1>4 DEF IInv, MarksInv, SameMarks
<1> QED BY <1>3, <1>5, <1>7, <1>9, <1>10

LEMMA DeepBegins ==
  ASSUME IInv, Exited, stage = "probe", run.deep, UNCHANGED <<run, ctx, entries>>,
         NEW es \in Seq(All), Begin("deep", es),
         \A k \in DOMAIN es : entries[es[k]].tlsOK,
         \A k, l \in DOMAIN es : es[k] = es[l] => k = l
  PROVE  FlowInv' /\ CountInv' /\ StageInv' /\ ProbedInv' /\ MarksInv' /\ CountersInv'
<1>1. /\ FlowInv' /\ CountInv' /\ \A i : ~Settled(i)'
      /\ \A v \in Workers : At(v, "loop")'
  BY FlowBegin DEF IInv
<1>2. /\ stage' = "deep" /\ todo' = es
      /\ stats'.tcp = stats.tcp /\ stats'.tls = stats.tls /\ stats'.vless = stats.vless
  BY StatsFields DEF Begin, IInv, StatsType
<1>3. SameMarks
  BY <1>2 DEF SameMarks, All
<1>4. CountersInv'
  BY <1>3, CountersStay DEF IInv
<1>5. StageInv'
  BY <1>1, <1>2 DEF StageInv, PcsOf, At, WorkerPcs
<1>6. ASSUME Workers # {}, ctx' = "live"
      PROVE  \A i \in All' : entries'[i].probes = 1
  <2>1. \A k \in DOMAIN todo : Settled(todo[k])
    BY <1>6, StageEmpty
  <2>2. \A i \in All : i \in DOMAIN todo /\ todo[i] = i
    BY AllFinite, FlowFacts DEF IInv, StageInv
  <2> QED BY <1>3, <1>6, <2>1, <2>2 DEF IInv, ProbedInv, SameMarks
<1>7. ProbedInv'
  BY <1>2, <1>3, <1>6 DEF IInv, ProbedInv, SameMarks
<1>8. MarksInv'
  BY <1>2, <1>3 DEF IInv, MarksInv, SameMarks
<1> QED BY <1>1, <1>4, <1>5, <1>7, <1>8

LEMMA ParseKeeps ==
  ASSUME IInv, Parse
  PROVE  FlowInv' /\ CountInv' /\ StageInv' /\ ProbedInv' /\ MarksInv' /\ CountersInv'
<1>1. /\ Parsed \in Seq(EntryType)
      /\ \A n \in DOMAIN Parsed : /\ ~Parsed[n].tcpOK /\ ~Parsed[n].tlsOK /\ ~Parsed[n].deepOK
                                  /\ Parsed[n].probes = 0
  BY ParsedType DEF IInv, TypeInv
<1>2. stage = "parse" /\ entries = <<>> /\ entries' = Parsed /\ UNCHANGED <<run, ctx>> /\ All = {}
  BY DEF Parse, IInv, StageInv, All
<1>3. All' = DOMAIN Parsed /\ \A i \in All' : /\ ~entries'[i].tcpOK /\ ~entries'[i].tlsOK
                                             /\ ~entries'[i].deepOK /\ entries'[i].probes = 0
  BY <1>1, <1>2 DEF All
<1>4. stats.tcp = 0 /\ stats.tls = 0 /\ stats.vless = 0
  <2>1. /\ {i \in All : entries[i].tcpOK} = {} /\ {i \in All : entries[i].tlsOK} = {}
        /\ {i \in All : entries[i].deepOK} = {}
    BY <1>2
  <2> QED BY <2>1, FS_EmptySet DEF IInv, CountersInv
<1>5. stats'.tcp = 0 /\ stats'.tls = 0 /\ stats'.vless = 0
  BY <1>4, StatsFields DEF Parse, Begin, Skip, IInv, StatsType
<1>6. CountersInv'
  <2>1. /\ {i \in All' : entries'[i].tcpOK} = {} /\ {i \in All' : entries'[i].tlsOK} = {}
        /\ {i \in All' : entries'[i].deepOK} = {}
    BY <1>3
  <2> QED BY <1>5, <2>1, FS_EmptySet DEF CountersInv
<1>7. CASE Over
  <2>1. Skip("report") /\ ctx = "over"
    BY <1>7 DEF Parse, Over
  <2>2. UNCHANGED <<todo, fed, queue, closed, worker, stats>> /\ stage' = "report"
    BY <2>1 DEF Skip, feedVars
  <2>3. \A v \in Workers : /\ (Busy(v)' <=> Busy(v)) /\ (At(v, "exited")' <=> At(v, "exited"))
    BY <2>2 DEF Busy, At
  <2>4. FlowInv' /\ CountInv'
    BY <1>2, <2>2, <2>3, FlowStays DEF IInv, FlowInv
  <2>5. StageInv'
    BY <1>2, <2>2 DEF IInv, StageInv, PcsOf
  <2>6. ProbedInv' /\ MarksInv'
    BY <1>2, <1>3, <2>1, <2>2 DEF ProbedInv, MarksInv
  <2> QED BY <1>6, <2>4, <2>5, <2>6
<1>8. CASE ~Over
  <2>1. Begin("probe", Unsorted(Parsed))
    BY <1>8 DEF Parse
  <2>2. /\ Unsorted(Parsed) \in Seq(DOMAIN Parsed) /\ Len(Unsorted(Parsed)) = Len(Parsed)
        /\ \A k \in DOMAIN Parsed : Unsorted(Parsed)[k] = k
        /\ DOMAIN Unsorted(Parsed) = DOMAIN Parsed
    BY <1>1, UnsortedList
  <2>3. /\ FlowInv' /\ CountInv' /\ \A i : ~Settled(i)'
        /\ \A v \in Workers : At(v, "loop")'
    BY <2>1, <2>2, FlowBegin DEF IInv
  <2>4. stage' = "probe" /\ todo' = Unsorted(Parsed)
    BY <2>1 DEF Begin
  <2>5. StageInv'
    BY <1>2, <2>2, <2>3, <2>4 DEF StageInv, PcsOf, At
  <2>6. ProbedInv' /\ MarksInv'
    BY <1>3, <2>3, <2>4 DEF ProbedInv, MarksInv
  <2> QED BY <1>6, <2>3, <2>5, <2>6
<1> QED BY <1>7, <1>8

\* A worker's step that moves no entry and gives no verdict.
LEMMA WorkerMoves ==
  ASSUME IInv, NEW w \in Workers, NEW r, Becomes(w, r),
         UNCHANGED <<run, ctx, stage, entries, todo, fed, queue, closed, stats>>,
         r.pc \in PcsOf(stage), r.pc \in BusyPcs <=> Busy(w), Busy(w) => r.e = worker[w].e,
         r.pc = "exited" => closed /\ queue = <<>>
  PROVE  FlowInv' /\ CountInv' /\ StageInv' /\ ProbedInv' /\ MarksInv' /\ CountersInv'
<1>1. worker' = [worker EXCEPT ![w] = r] /\ worker \in [Workers -> WorkerType]
  BY DEF Becomes, IInv, TypeInv
<1>2. /\ worker'[w] = r
      /\ \A v \in Workers : v # w => worker'[v] = worker[v]
  BY <1>1
<1>3. ASSUME NEW v \in Workers
      PROVE  /\ Busy(v)' <=> Busy(v)
             /\ Busy(v) => worker'[v].e = worker[v].e
             /\ At(v, "exited")' => At(v, "exited") \/ (closed /\ queue = <<>>)
             /\ worker'[v].pc \in PcsOf(stage)
  <2>1. CASE v = w
    BY <1>2, <2>1 DEF Busy, At
  <2>2. CASE v # w
    BY <1>2, <2>2 DEF Busy, At, IInv, StageInv
  <2> QED BY <2>1, <2>2
<1>4. FlowInv' /\ CountInv' /\ \A i : Settled(i)' <=> Settled(i)
  BY <1>3, FlowStays DEF IInv, FlowInv
<1>5. SameMarks
  BY DEF SameMarks, All
<1> QED BY <1>3, <1>4, <1>5, NoVerdict

\* Steps that leave the workers alone.
LEMMA OthersMove ==
  ASSUME IInv, FlowInv', CountInv', UNCHANGED <<run, stage, entries, todo, worker>>,
         ctx' = "live" => ctx = "live",
         \A i : Settled(i) => Settled(i)',
         ctx' = "live" => \A i : Settled(i)' => Settled(i),
         stats'.tcp = stats.tcp /\ stats'.tls = stats.tls /\ stats'.vless = stats.vless,
         stage \in {"probe", "deep"} \/ stats'.done = stats.done
  PROVE  FlowInv' /\ CountInv' /\ StageInv' /\ ProbedInv' /\ MarksInv' /\ CountersInv'
<1>1. SameMarks
  BY DEF SameMarks, All
<1>2. \A v \in Workers : worker'[v].pc \in PcsOf(stage)
  BY DEF IInv, StageInv
<1> QED BY <1>1, <1>2, NoVerdict

LEMMA SameWorkers ==
  ASSUME worker' = worker
  PROVE  \A v \in Workers : /\ (Busy(v)' <=> Busy(v)) /\ (At(v, "exited")' <=> At(v, "exited"))
                            /\ worker'[v].e = worker[v].e
BY DEF Busy, At

DeepPcs == {"pick", "start", "get", "kill"}

LEMMA DeepPcsTogether ==
  ASSUME NEW s, NEW pc \in DeepPcs, pc \in PcsOf(s)
  PROVE  DeepPcs \subseteq PcsOf(s) /\ s = "deep"
BY DEF DeepPcs, PcsOf, WorkerPcs, BusyPcs

\* ... of a deep probe.
LEMMA DeepMoves ==
  ASSUME IInv, NEW w \in Workers, NEW r, Becomes(w, r),
         UNCHANGED <<run, ctx, stage, entries, todo, fed, queue, closed, stats>>,
         worker[w].pc \in DeepPcs, r.pc \in DeepPcs, r.e = worker[w].e
  PROVE  FlowInv' /\ CountInv' /\ StageInv' /\ ProbedInv' /\ MarksInv' /\ CountersInv'
<1>1. worker[w].pc \in PcsOf(stage)
  BY DEF IInv, StageInv
<1>2. r.pc \in PcsOf(stage)
  BY <1>1, DeepPcsTogether
<1>3. Busy(w) /\ r.pc \in BusyPcs /\ r.pc # "exited"
  BY DEF Busy, BusyPcs, DeepPcs
<1> QED BY <1>2, <1>3, WorkerMoves

LEMMA IStutter ==
  ASSUME IInv, UNCHANGED vars
  PROVE  IInv'
<1>1. /\ UNCHANGED <<run, lists, ctx, stage, entries, todo, fed, queue, closed, worker, stats, order>>
      /\ UNCHANGED <<run, ctx, stage, entries, todo, fed, queue, closed, worker, stats>>
  BY DEF vars, feedVars
<1>2. TypeInv'
  BY <1>1 DEF IInv, TypeInv, WorkerType, All, Panel
<1>3. FlowInv' /\ CountInv' /\ \A i : Settled(i)' <=> Settled(i)
  BY <1>1, SameWorkers, FlowStays DEF IInv, FlowInv
<1>4. FlowInv' /\ CountInv' /\ StageInv' /\ ProbedInv' /\ MarksInv' /\ CountersInv'
  BY <1>1, <1>3, OthersMove
<1> QED BY <1>2, <1>4 DEF IInv

LEMMA IStep == ASSUME IInv, Next PROVE IInv'
<1> DEFINE Rest == FlowInv' /\ CountInv' /\ StageInv' /\ ProbedInv' /\ MarksInv' /\ CountersInv'
<1>0. TypeInv'
  BY TypeStep DEF IInv
<1>1. CASE Cancel
  <2>1. /\ UNCHANGED <<run, stage, entries, todo, fed, queue, closed, worker, stats>> /\ ctx' = "over"
    BY <1>1 DEF Cancel, feedVars
  <2>2. FlowInv' /\ CountInv' /\ \A i : Settled(i)' <=> Settled(i)
    BY <2>1, SameWorkers, FlowStays DEF IInv, FlowInv
  <2>3. Rest
    BY <2>1, <2>2, OthersMove
  <2> QED BY <1>0, <2>3 DEF IInv
<1>2. CASE Parse
  BY <1>0, <1>2, ParseKeeps DEF IInv
<1>3. CASE ProbeEnds
  <2>1. stage = "probe" /\ Exited /\ UNCHANGED <<run, ctx, entries>>
    BY <1>3 DEF ProbeEnds
  <2>2. CASE Skip("report")
    BY <1>0, <2>1, <2>2, SkipKeeps DEF IInv
  <2>3. CASE Panel /\ Skip("sort")
    BY <1>0, <2>1, <2>3, SkipKeeps DEF IInv
  <2>4. CASE run.deep /\ Begin("deep", PickDeepCandidates)
    BY <1>0, <2>1, <2>4, PickedOnce, DeepBegins DEF IInv
  <2>5. CASE run.deep /\ Begin("deep", Ascending({i \in All : entries[i].tlsOK}))
    BY <1>0, <2>1, <2>5, PassersInOrder, DeepBegins DEF IInv
  <2> QED BY <1>3, <2>2, <2>3, <2>4, <2>5 DEF ProbeEnds
<1>4. CASE DeepEnds
  <2>1. stage = "deep" /\ Exited /\ UNCHANGED <<run, ctx, entries>>
    BY <1>4 DEF DeepEnds
  <2>2. Skip("report") \/ (Panel /\ Skip("sort"))
    BY <1>4 DEF DeepEnds
  <2> QED BY <1>0, <2>1, <2>2, SkipKeeps DEF IInv
<1>5. CASE Sort
  <2>1. stage = "sort" /\ Skip("report") /\ UNCHANGED <<run, ctx, entries>>
    BY <1>5 DEF Sort
  <2> QED BY <1>0, <2>1, SkipKeeps DEF IInv
<1>6. CASE Report
  <2>1. stage = "report" /\ Skip("done") /\ UNCHANGED <<run, ctx, entries>>
    BY <1>6 DEF Report
  <2> QED BY <1>0, <2>1, SkipKeeps DEF IInv
<1>7. CASE Finished
  BY <1>7, IStutter DEF Finished, IInv
<1>8. CASE Feed
  <2>1. Probing /\ UNCHANGED <<run, ctx, stage, entries, todo, worker, stats>>
    BY <1>8 DEF Feed
  <2>2. FlowInv' /\ CountInv' /\ \A i : Settled(i)' <=> Settled(i)
    BY <1>8, FlowFeed DEF IInv
  <2>3. Rest
    BY <2>1, <2>2, OthersMove
  <2> QED BY <1>0, <2>3 DEF IInv
<1>9. CASE FeedEnds
  <2>1. /\ UNCHANGED <<run, ctx, stage, entries, todo, fed, queue, worker, stats>>
        /\ closed' = TRUE /\ (fed = Len(todo) \/ ctx = "over")
    BY <1>9 DEF FeedEnds, Over
  <2>2. FlowInv' /\ CountInv' /\ \A i : Settled(i)' <=> Settled(i)
    BY <2>1, SameWorkers, FlowStays DEF IInv
  <2>3. Rest
    BY <2>1, <2>2, OthersMove
  <2> QED BY <1>0, <2>3 DEF IInv
<1>10. ASSUME NEW w \in Workers, Work(w) PROVE Rest
  <2>a. worker[w] \in WorkerType
    BY WorkerFields DEF IInv
  <2>b. worker[w].pc \in PcsOf(stage)
    BY DEF IInv, StageInv
  <2>1. CASE Drain(w)
    <3>1. PICK h : h = Head(queue)
      OBVIOUS
    <3>2. FlowInv' /\ CountInv' /\ \A i : Settled(i) => Settled(i)'
      BY <2>1, <3>1, FlowDrain DEF IInv
    <3>3. /\ UNCHANGED <<run, ctx, stage, entries, todo, worker>> /\ Probing /\ ctx = "over"
          /\ stats' = [stats EXCEPT !.done = @ + 1]
      BY <2>1 DEF Drain, Over
    <3>4. stats'.tcp = stats.tcp /\ stats'.tls = stats.tls /\ stats'.vless = stats.vless
      BY <3>3, StatsFields DEF IInv, StatsType
    <3> QED BY <3>2, <3>3, <3>4, OthersMove DEF Probing
  <2>2. CASE Take(w)
    <3>1. PICK h : h = Head(queue)
      OBVIOUS
    <3>2. FlowInv' /\ CountInv' /\ \A i : Settled(i) <=> Settled(i)'
      BY <2>2, <3>1, FlowTake DEF IInv
    <3>3. UNCHANGED <<run, ctx, stage, todo, stats>> /\ Probing
      BY <2>2 DEF Take
    <3>4. /\ h \in All /\ worker' = [worker EXCEPT ![w] = Held(h)]
          /\ Held(h).pc = IF stage = "probe" THEN "tcp" ELSE "pick"
      BY <2>2, <3>1, TakeStep, HeldType DEF IInv, Becomes
    <3>5. \A v \in Workers : worker'[v].pc \in PcsOf(stage)
      <4>1. Held(h).pc \in PcsOf(stage)
        BY <3>3, <3>4 DEF PcsOf, WorkerPcs, BusyPcs, Probing
      <4> QED BY <3>4, <4>1 DEF IInv, StageInv, TypeInv
    <3>6. PICK b \in BOOLEAN : entries' = [entries EXCEPT ![h] = [entries[h] EXCEPT !.real = b]]
      BY <2>2, <3>1, TakeStep DEF IInv
    <3>7. SameMarks
      <4>1. entries \in Seq(EntryType) /\ entries[h] \in EntryType
        BY <3>4, AllFinite DEF IInv, TypeInv
      <4>2. All' = All /\ \A i \in All : entries'[i] = IF i = h THEN [entries[h] EXCEPT !.real = b] ELSE entries[i]
        BY <3>4, <3>6, <4>1 DEF All
      <4>3. LET x == [entries[h] EXCEPT !.real = b] IN
            /\ x.tcpOK = entries[h].tcpOK /\ x.tlsOK = entries[h].tlsOK
            /\ x.deepOK = entries[h].deepOK /\ x.probes = entries[h].probes
        BY <4>1 DEF EntryType
      <4> QED BY <3>3, <4>2, <4>3 DEF SameMarks
    <3> QED BY <3>2, <3>3, <3>5, <3>7, NoVerdict DEF Probing
  <2>3. CASE Exit(w)
    <3> DEFINE r == [worker[w] EXCEPT !.pc = "exited"]
    <3>1. /\ Becomes(w, r) /\ closed /\ queue = <<>> /\ worker[w].pc = "loop" /\ Probing
          /\ UNCHANGED <<run, ctx, stage, entries, todo, fed, queue, closed, stats>>
      BY <2>3 DEF Exit, Goto, feedVars, At
    <3>2. r.pc = "exited"
      BY <2>a DEF WorkerType
    <3> HIDE DEF r
    <3> QED BY <3>1, <3>2, WorkerMoves DEF Busy, BusyPcs, PcsOf, WorkerPcs, Probing
  <2>4. CASE Dial(w)
    BY <2>4, DialVerdict
  <2>5. CASE Send(w)
    <3>1. /\ Becomes(w, Resting) /\ worker[w].pc = "send"
          /\ UNCHANGED <<run, ctx, stage, entries, todo, fed, queue, closed, stats>>
      BY <2>5 DEF Send, feedVars, At
    <3>2. Resting.pc = "loop"
      BY DEF Resting
    <3> QED BY <2>b, <3>1, <3>2, WorkerMoves DEF Busy, BusyPcs, PcsOf, WorkerPcs
  <2>6. CASE PickPort(w)
    <3>1. PICK p \in Ports : Becomes(w, [worker[w] EXCEPT !.pc = "start", !.port = p])
      BY <2>6 DEF PickPort
    <3> DEFINE r == [worker[w] EXCEPT !.pc = "start", !.port = p]
    <3>2. /\ worker[w].pc = "pick"
          /\ UNCHANGED <<run, ctx, stage, entries, todo, fed, queue, closed, stats>>
      BY <2>6 DEF PickPort, feedVars, At
    <3>3. r.pc = "start" /\ r.e = worker[w].e /\ Becomes(w, r)
      BY <2>a, <3>1 DEF WorkerType
    <3> HIDE DEF r
    <3> QED BY <3>1, <3>2, <3>3, DeepMoves DEF DeepPcs
  <2>7. CASE StartBox(w)
    <3> DEFINE r == [worker[w] EXCEPT !.pc = "get", !.box = "starting"]
    <3>1. /\ Becomes(w, r) /\ worker[w].pc = "start"
          /\ UNCHANGED <<run, ctx, stage, entries, todo, fed, queue, closed, stats>>
      BY <2>7 DEF StartBox, feedVars, At
    <3>2. r.pc = "get" /\ r.e = worker[w].e
      BY <2>a DEF WorkerType
    <3> HIDE DEF r
    <3> QED BY <3>1, <3>2, DeepMoves DEF DeepPcs
  <2>8. CASE Bind(w)
    <3>1. PICK x \in {"up", "dead"} : Becomes(w, [worker[w] EXCEPT !.box = x])
      BY <2>8 DEF Bind
    <3> DEFINE r == [worker[w] EXCEPT !.box = x]
    <3>2. UNCHANGED <<run, ctx, stage, entries, todo, fed, queue, closed, stats>>
      BY <2>8 DEF Bind, feedVars
    <3>3. r.pc = worker[w].pc /\ r.e = worker[w].e
      BY <2>a DEF WorkerType
    <3>4. r.pc = "exited" => closed /\ queue = <<>>
      BY <3>3 DEF IInv, FlowInv, At
    <3> QED BY <2>b, <3>1, <3>2, <3>3, <3>4, WorkerMoves DEF Busy
  <2>9. CASE Get(w)
    <3>1. PICK ms \in 0 .. MaxMs : Becomes(w, [worker[w] EXCEPT !.pc = "kill", !.ok = TRUE, !.ms = ms])
      BY <2>9 DEF Get
    <3> DEFINE r == [worker[w] EXCEPT !.pc = "kill", !.ok = TRUE, !.ms = ms]
    <3>2. /\ worker[w].pc = "get"
          /\ UNCHANGED <<run, ctx, stage, entries, todo, fed, queue, closed, stats>>
      BY <2>9 DEF Get, feedVars, At
    <3>3. r.pc = "kill" /\ r.e = worker[w].e /\ Becomes(w, r)
      BY <2>a, <3>1 DEF WorkerType
    <3> HIDE DEF r
    <3> QED BY <3>1, <3>2, <3>3, DeepMoves DEF DeepPcs
  <2>10. CASE GiveUp(w)
    <3> DEFINE r == [worker[w] EXCEPT !.pc = "kill"]
    <3>1. /\ Becomes(w, r) /\ worker[w].pc \in {"pick", "start", "get"}
          /\ UNCHANGED <<run, ctx, stage, entries, todo, fed, queue, closed, stats>>
      BY <2>10 DEF GiveUp, Goto, feedVars
    <3>2. r.pc = "kill" /\ r.e = worker[w].e
      BY <2>a DEF WorkerType
    <3> HIDE DEF r
    <3> QED BY <3>1, <3>2, DeepMoves DEF DeepPcs
  <2>11. CASE Kill(w)
    BY <2>11, KillVerdict
  <2> QED BY <1>10, <2>1, <2>2, <2>3, <2>4, <2>5, <2>6, <2>7, <2>8, <2>9, <2>10, <2>11 DEF Work
<1> QED BY <1>0, <1>1, <1>2, <1>3, <1>4, <1>5, <1>6, <1>7, <1>8, <1>9, <1>10 DEF Next, IInv

LEMMA IInit == Init => IInv
<1> SUFFICES ASSUME Init PROVE IInv
  OBVIOUS
<1>1. TypeInv
  BY TypeInit
<1>2. /\ stage = "parse" /\ entries = <<>> /\ todo = <<>> /\ fed = 0 /\ queue = <<>> /\ closed = FALSE
      /\ worker = [w \in Workers |-> Resting]
      /\ stats.done = 0 /\ stats.tcp = 0 /\ stats.tls = 0 /\ stats.vless = 0
  BY DEF Init
<1>3. All = {} /\ DOMAIN todo = {} /\ DOMAIN queue = {} /\ Len(queue) = 0
  BY <1>2 DEF All
<1>4. \A w \in Workers : worker[w].pc = "loop" /\ ~Busy(w)
  BY <1>2 DEF Resting, Busy, BusyPcs
<1>5. FlowInv
  BY <1>2, <1>3, <1>4 DEF FlowInv, At
<1>6. CountInv
  <2>1. BusyOnes = {}
    BY <1>4 DEF BusyOnes
  <2>2. fed = 0 /\ Len(queue) = 0
    BY <1>2, <1>3
  <2>3. Taken = 0
    BY <2>2 DEF Taken
  <2> QED BY <1>2, <2>1, <2>3, FS_EmptySet DEF CountInv
<1>7. StageInv
  BY <1>2, <1>4 DEF StageInv, PcsOf
<1>8. ProbedInv /\ MarksInv
  BY <1>2, <1>3 DEF ProbedInv, MarksInv
<1>9. CountersInv
  <2>1. /\ {i \in All : entries[i].tcpOK} = {} /\ {i \in All : entries[i].tlsOK} = {}
        /\ {i \in All : entries[i].deepOK} = {}
    BY <1>3
  <2> QED BY <1>2, <2>1, FS_EmptySet DEF CountersInv
<1> QED BY <1>1, <1>5, <1>6, <1>7, <1>8, <1>9 DEF IInv

\* Every state of a vetting satisfies the inductive invariant: every entry of the stage is still
\* to be fed, in the channel, with one worker, or done with, and its marks and the counters say
\* what it went through.
THEOREM IInvAlways == Spec => []IInv
<1>1. IInv /\ [Next]_vars => IInv'
  BY IStep, IStutter
<1> QED BY <1>1, IInit, PTL DEF Spec

\* The counters are those of the entries' marks, a stricter check is only passed by who passed
\* the laxer, nobody is probed twice, and a run nobody cuts short probes everybody, however many
\* workers there are and wherever the channel is full.  (Without any worker, which only the
\* command accepts, as -workers 0, a list that fits into the channel passes unprobed.)
THEOREM CountersTrue ==
  ASSUME Workers # {}
  PROVE  Spec => []Tally
<1>1. IInv => Tally
  <2> SUFFICES ASSUME IInv PROVE Tally
    OBVIOUS
  <2>1. /\ stats.tcp   = Cardinality({i \in All : entries[i].tcpOK})
        /\ stats.tls   = Cardinality({i \in All : entries[i].tlsOK})
        /\ stats.vless = Cardinality({i \in All : entries[i].deepOK})
    BY DEF IInv, CountersInv
  <2>2. \A i \in All : /\ entries[i].deepOK => entries[i].tlsOK
                       /\ entries[i].tlsOK => entries[i].tcpOK
                       /\ entries[i].probes \in 0 .. 1
    BY DEF IInv, MarksInv, ProbedInv
  <2>3. ctx = "live" /\ stage \in {"sort", "report", "done"} =>
           /\ \A i \in All : entries[i].probes = 1
           /\ stats.done = Len(todo)
    BY DEF IInv, ProbedInv
  <2> QED BY <2>1, <2>2, <2>3 DEF Tally
<1> QED BY <1>1, IInvAlways, PTL

-----------------------------------------------------------------------------
(* A deep probe and its port.                                               *)

\* A port and an answer belong to an entry that is with a worker.
LEMMA PortHolds ==
  ASSUME IInv, BoxInv, NEW w \in Workers, worker[w].ok \/ worker[w].port # 0
  PROVE  Busy(w) /\ worker[w].e \in All /\ Handled(worker[w].e)
<1>1. worker[w].pc \in WorkerPcs /\ BoxOf(worker[w])
  BY WorkerFields DEF IInv, BoxInv, WorkerType
<1>2. Busy(w)
  BY <1>1 DEF BoxOf, WorkerPcs, Busy
<1>3. \E k \in 1 .. Taken : todo[k] = worker[w].e
  BY <1>2 DEF IInv, FlowInv
<1> QED BY <1>2, <1>3, BusyHolds DEF IInv, Handled

\* In the deep stage entries leave the channel and do not come back.
LEMMA TakenGrows ==
  ASSUME IInv, Next, stage = "deep", stage' = "deep"
  PROVE  todo' = todo /\ Taken \in Int /\ Taken' \in Int /\ Taken' >= Taken
<1>1. /\ fed \in Int /\ queue \in Seq(All) /\ Len(queue) \in Int
      /\ Taken = fed - Len(queue) /\ Taken' = fed' - Len(queue')
  BY DEF IInv, TypeInv, Taken
<1>2. CASE UNCHANGED feedVars
  BY <1>1, <1>2 DEF feedVars
<1>3. CASE Feed
  <2>1. todo' = todo /\ fed' = fed + 1 /\ queue' = Append(queue, todo[fed + 1])
    BY <1>3 DEF Feed
  <2>2. Len(queue') = Len(queue) + 1
    BY <1>1, <2>1
  <2> QED BY <1>1, <2>1, <2>2
<1>4. CASE FeedEnds
  BY <1>1, <1>4 DEF FeedEnds
<1>5. ASSUME NEW w \in Workers, Drain(w) \/ Take(w)
      PROVE  todo' = todo /\ Taken \in Int /\ Taken' \in Int /\ Taken' >= Taken
  <2>1. todo' = todo /\ fed' = fed /\ queue' = Tail(queue) /\ queue # <<>>
    BY <1>5 DEF Drain, Take
  <2>2. Len(queue') = Len(queue) - 1
    BY <1>1, <2>1
  <2> QED BY <1>1, <2>1, <2>2
<1>6. CASE Cancel \/ Parse \/ ProbeEnds \/ DeepEnds \/ Sort \/ Report \/ Finished
  <2>1. UNCHANGED feedVars
    BY <1>6 DEF Cancel, Parse, ProbeEnds, DeepEnds, Sort, Report, Finished, Skip, vars, feedVars
  <2> QED BY <1>2, <2>1
<1>7. ASSUME NEW w \in Workers, Work(w), ~Drain(w), ~Take(w)
      PROVE  todo' = todo /\ Taken \in Int /\ Taken' \in Int /\ Taken' >= Taken
  <2>1. UNCHANGED feedVars
    BY <1>7 DEF Work, Exit, Dial, Send, PickPort, StartBox, Bind, Get, GiveUp, Kill, feedVars
  <2> QED BY <1>2, <2>1
<1> QED BY <1>3, <1>4, <1>5, <1>6, <1>7 DEF Next

LEMMA HandledStays ==
  ASSUME IInv, Next, stage' = "deep" => stage = "deep", NEW j, Handled(j)
  PROVE  Handled(j)'
<1>1. CASE stage' = "deep"
  <2>1. todo' = todo /\ Taken \in Int /\ Taken' \in Int /\ Taken' >= Taken
    BY <1>1, TakenGrows
  <2>2. PICK k \in 1 .. Taken : todo[k] = j
    BY <1>1 DEF Handled
  <2>3. k \in 1 .. Taken'
    BY <2>1
  <2> QED BY <2>1, <2>2, <2>3 DEF Handled
<1>2. CASE stage' # "deep"
  BY <1>2 DEF Handled
<1> QED BY <1>1, <1>2

\* Steps that leave the handled candidates as they are leave every answer well backed.
LEMMA BackedStays ==
  ASSUME IInv, Next, stage' = "deep" => stage = "deep", All' = All, clashes \subseteq clashes',
         \A j \in All : Handled(j) /\ entries[j].real => entries'[j].real,
         NEW i \in All, Backed(i)
  PROVE  Backed(i)'
<1>1. PICK j \in {i} \cup SharedPort(i) : entries[j].real /\ Handled(j)
  BY DEF Backed
<1>2. j \in All /\ j \in {i} \cup SharedPort(i)'
  BY <1>1 DEF SharedPort
<1>3. Handled(j)' /\ entries'[j].real
  BY <1>1, <1>2, HandledStays
<1> QED BY <1>2, <1>3 DEF Backed

\* Before the deep stage nobody has an answer.
LEMMA BoxQuiet ==
  ASSUME BoxInv, \A w \in Workers : ~worker[w].ok, UNCHANGED clashes,
         worker' = worker \/ \A v \in Workers : worker'[v] = Resting,
         \A i \in All' : ~entries'[i].deepOK
  PROVE  BoxInv'
<1>1. BoxOf(Resting) /\ Resting.port = 0 /\ ~Resting.ok
  BY DEF BoxOf, Resting
<1>2. \A w \in Workers : BoxOf(worker'[w]) /\ ~worker'[w].ok
  BY <1>1 DEF BoxInv
<1>3. \A v, w \in Workers : worker'[v].port = worker'[w].port /\ v # w /\ worker'[v].port # 0 =>
                               {worker'[v].e, worker'[w].e} \in clashes'
  BY <1>1 DEF BoxInv
<1> QED BY <1>2, <1>3 DEF BoxInv, BoxOf

\* Steps that leave every worker where it is, or at rest.
LEMMA BoxStays ==
  ASSUME IInv, BoxInv, Next, stage' = "deep" => stage = "deep", UNCHANGED <<entries, clashes>>,
         worker' = worker \/ \A v \in Workers : worker'[v] = Resting
  PROVE  BoxInv'
<1>1. BoxOf(Resting) /\ Resting.port = 0 /\ ~Resting.ok
  BY DEF BoxOf, Resting
<1>2. All' = All
  BY DEF All
<1>3. \A i \in All : Backed(i) => Backed(i)'
  BY <1>2, BackedStays
<1>4. ASSUME NEW w \in Workers, NEW i \in All, worker'[w].ok, worker'[w].e = i
      PROVE  Backed(i)'
  BY <1>1, <1>3, <1>4 DEF BoxInv
<1>5. \A w \in Workers : BoxOf(worker'[w])
  BY <1>1 DEF BoxInv
<1>6. \A v, w \in Workers : worker'[v].port = worker'[w].port /\ v # w /\ worker'[v].port # 0 =>
                               {worker'[v].e, worker'[w].e} \in clashes'
  BY <1>1 DEF BoxInv
<1>7. \A i \in All : entries'[i].deepOK => Backed(i)'
  BY <1>3 DEF BoxInv
<1> QED BY <1>2, <1>4, <1>5, <1>6, <1>7 DEF BoxInv, BoxOf

\* A step of one worker: the others' answers and ports still stand.
LEMMA BoxMoves ==
  ASSUME IInv, BoxInv, Next, NEW w \in Workers, NEW r, Becomes(w, r),
         stage' = stage, All' = All, clashes \subseteq clashes', BoxOf(r),
         \A j \in All : Handled(j) /\ entries[j].real => entries'[j].real,
         \A i \in All : r.ok /\ r.e = i => Backed(i),
         r.port # 0 => \A v \in Workers \ {w} : worker[v].port = r.port =>
                                                   {r.e, worker[v].e} \in clashes',
         \A i \in All : entries'[i].deepOK => Backed(i)
  PROVE  BoxInv'
<1>1. worker' = [worker EXCEPT ![w] = r] /\ worker \in [Workers -> WorkerType]
  BY DEF Becomes, IInv, TypeInv
<1>2. worker'[w] = r /\ \A v \in Workers : v # w => worker'[v] = worker[v]
  BY <1>1
<1>3. \A i \in All : Backed(i) => Backed(i)'
  BY BackedStays
<1>4. ASSUME NEW v \in Workers, NEW i \in All, worker'[v].ok, worker'[v].e = i
      PROVE  Backed(i)'
  <2>1. CASE v = w
    BY <1>2, <1>3, <1>4, <2>1
  <2>2. CASE v # w
    BY <1>2, <1>3, <1>4, <2>2 DEF BoxInv
  <2> QED BY <2>1, <2>2
<1>5. \A v \in Workers : BoxOf(worker'[v])
  BY <1>2 DEF BoxInv
<1>6. ASSUME NEW u \in Workers, NEW v \in Workers,
             worker'[u].port = worker'[v].port, u # v, worker'[u].port # 0
      PROVE  {worker'[u].e, worker'[v].e} \in clashes'
  <2>1. CASE u = w
    BY <1>2, <1>6, <2>1
  <2>2. CASE v = w
    <3>1. {worker'[v].e, worker'[u].e} \in clashes'
      BY <1>2, <1>6, <2>2
    <3>2. {worker'[v].e, worker'[u].e} = {worker'[u].e, worker'[v].e}
      OBVIOUS
    <3> QED BY <3>1, <3>2
  <2>3. CASE u # w /\ v # w
    BY <1>2, <1>6, <2>3 DEF BoxInv
  <2> QED BY <2>1, <2>2, <2>3
<1>7. \A i \in All : entries'[i].deepOK => Backed(i)'
  BY <1>3
<1> QED BY <1>4, <1>5, <1>6, <1>7 DEF BoxInv, BoxOf

\* ... that leaves the candidates and the ports alone.
LEMMA BoxTurns ==
  ASSUME IInv, BoxInv, Next, NEW w \in Workers, NEW r, Becomes(w, r),
         UNCHANGED <<stage, entries, clashes>>, BoxOf(r),
         \A i \in All : r.ok /\ r.e = i => Backed(i),
         r.port # 0 => r.port = worker[w].port /\ r.e = worker[w].e
  PROVE  BoxInv'
<1>1. All' = All /\ \A j \in All : Handled(j) /\ entries[j].real => entries'[j].real
  BY DEF All
<1>2. \A i \in All : entries'[i].deepOK => Backed(i)
  BY DEF BoxInv
<1>3. r.port # 0 => \A v \in Workers \ {w} : worker[v].port = r.port => {r.e, worker[v].e} \in clashes'
  BY DEF BoxInv
<1> QED BY <1>1, <1>2, <1>3, BoxMoves

\* The head of the channel is with nobody, and not done with.
LEMMA HeadIsFree ==
  ASSUME IInv, queue # <<>>
  PROVE  /\ \A v \in Workers : Busy(v) => worker[v].e # Head(queue)
         /\ ~Settled(Head(queue))
         /\ stage = "deep" => ~Handled(Head(queue))
<1>1. /\ Head(queue) = queue[1] /\ 1 \in DOMAIN queue /\ Len(queue) >= 1
      /\ Head(queue) = todo[Taken + 1]
  BY QueueHead DEF IInv, FlowInv
<1>2. Taken \in Nat /\ Taken + 1 \in DOMAIN todo /\ \A k \in 1 .. Taken : k \in DOMAIN todo
  BY <1>1, FlowFacts DEF IInv, FlowInv, Taken
<1>3. \A k \in 1 .. Taken : todo[k] # Head(queue)
  BY <1>1, <1>2 DEF IInv, FlowInv
<1> QED BY <1>3 DEF IInv, FlowInv, Settled, Handled

LEMMA BoxStep ==
  ASSUME IInv, BoxInv, Next
  PROVE  BoxInv'
<1>q. stage \in {"parse", "probe"} => \A w \in Workers : ~worker[w].ok
  <2>1. ASSUME stage \in {"parse", "probe"}, NEW w \in Workers
        PROVE  ~worker[w].ok
    <3>1. worker[w].pc \in {"loop", "tcp", "send", "exited"}
      BY <2>1 DEF IInv, StageInv, PcsOf
    <3> QED BY <3>1 DEF BoxInv, BoxOf
  <2> QED BY <2>1
<1>1. CASE Parse
  <2>1. /\ stage = "parse" /\ entries' = Parsed /\ UNCHANGED clashes
        /\ \A n \in DOMAIN Parsed : ~Parsed[n].deepOK
    BY <1>1, ParsedType DEF Parse, IInv, StageInv, TypeInv, All
  <2>2. worker' = worker \/ \A v \in Workers : worker'[v] = Resting
    BY <1>1 DEF Parse, Begin, Skip
  <2>3. \A i \in All' : ~entries'[i].deepOK
    BY <2>1 DEF All
  <2> QED BY <1>q, <2>1, <2>2, <2>3, BoxQuiet
<1>p. CASE ProbeEnds
  <2>1. stage = "probe" /\ UNCHANGED <<entries, clashes>>
    BY <1>p DEF ProbeEnds
  <2>2. worker' = worker \/ \A v \in Workers : worker'[v] = Resting
    BY <1>p DEF ProbeEnds, Begin, Skip
  <2>3. \A i \in All' : ~entries'[i].deepOK
    BY <2>1 DEF All, IInv, MarksInv
  <2> QED BY <1>q, <2>1, <2>2, <2>3, BoxQuiet
<1>2. CASE Cancel \/ DeepEnds \/ Sort \/ Report \/ Finished \/ Feed \/ FeedEnds
  <2>1. UNCHANGED <<entries, clashes>>
    BY <1>2 DEF Cancel, DeepEnds, Sort, Report, Finished, Feed, FeedEnds, vars
  <2>2. worker' = worker \/ \A v \in Workers : worker'[v] = Resting
    BY <1>2 DEF Cancel, DeepEnds, Sort, Report, Finished, Feed, FeedEnds, vars, Begin, Skip
  <2>3. stage' = "deep" => stage = "deep"
    BY <1>2 DEF Cancel, DeepEnds, Sort, Report, Finished, Feed, FeedEnds, vars, Skip
  <2> QED BY <2>1, <2>2, <2>3, BoxStays
<1>3. ASSUME NEW w \in Workers, Work(w) PROVE BoxInv'
  <2>a. worker[w] \in WorkerType /\ BoxOf(worker[w]) /\ worker[w].ok \in BOOLEAN
    BY WorkerFields DEF IInv, BoxInv
  <2>c. \A i \in All : worker[w].ok /\ worker[w].e = i => Backed(i)
    BY DEF BoxInv
  <2>d. entries \in Seq(EntryType)
    BY DEF IInv, TypeInv
  <2>e. stage' = stage
    BY <1>3 DEF Work, Drain, Take, Exit, Dial, Send, PickPort, StartBox, Bind, Get, GiveUp, Kill
  <2>f. \A i \in All : entries[i].deepOK => Backed(i)
    BY DEF BoxInv
  <2>1. CASE Drain(w)
    <3>1. UNCHANGED <<entries, clashes, worker>>
      BY <2>1 DEF Drain
    <3> QED BY <2>e, <3>1, BoxStays
  <2>2. CASE Take(w)
    <3>1. PICK h : h = Head(queue)
      OBVIOUS
    <3>2. queue # <<>> /\ h \in All /\ Becomes(w, Held(h)) /\ UNCHANGED clashes
      BY <2>2, <3>1, TakeStep DEF Take, IInv
    <3>3. Held(h).port = 0 /\ Held(h).box = "none" /\ ~Held(h).ok /\ BoxOf(Held(h))
      <4>1. /\ Held(h).port = 0 /\ Held(h).box = "none" /\ ~Held(h).ok
            /\ Held(h).pc = IF stage = "probe" THEN "tcp" ELSE "pick"
        BY <3>2, HeldType DEF IInv
      <4>2. Held(h).pc \in {"tcp", "pick"}
        BY <4>1
      <4> QED BY <4>1, <4>2 DEF BoxOf
    <3>4. PICK b \in BOOLEAN, x \in EntryType :
             /\ entries' = [entries EXCEPT ![h] = x] /\ x = [entries[h] EXCEPT !.real = b]
             /\ stage = "probe" => x = entries[h]
      BY <2>2, <3>1, TakeStep DEF IInv
    <3>5. /\ All' = All /\ \A i \in All : entries'[i] = IF i = h THEN x ELSE entries[i]
          /\ x.deepOK = entries[h].deepOK
      BY <2>d, <3>2, <3>4, EntryFields DEF All, EntryType
    <3>6. ASSUME NEW j \in All, Handled(j), entries[j].real
          PROVE  entries'[j].real
      <4>1. CASE stage = "probe"
        BY <3>4, <3>5, <3>6, <4>1
      <4>2. CASE stage = "deep"
        BY <3>1, <3>2, <3>5, <3>6, <4>2, HeadIsFree
      <4> QED BY <2>2, <4>1, <4>2 DEF Take, Probing
    <3>7. \A i \in All : entries'[i].deepOK => Backed(i)
      BY <2>f, <3>5
    <3> HIDE DEF Held
    <3> QED BY <2>e, <3>2, <3>3, <3>5, <3>6, <3>7, BoxMoves
  <2>3. CASE Exit(w)
    <3> DEFINE r == [worker[w] EXCEPT !.pc = "exited"]
    <3>1. Becomes(w, r) /\ UNCHANGED <<stage, entries, clashes>> /\ worker[w].pc = "loop"
      BY <2>3 DEF Exit, Goto, At
    <3>2. BoxOf(r) /\ r.port = 0 /\ ~r.ok
      BY <2>a, <3>1 DEF BoxOf, WorkerType
    <3> HIDE DEF r
    <3> QED BY <3>1, <3>2, BoxTurns
  <2>4. CASE Dial(w)
    <3>1. PICK i : i = worker[w].e
      OBVIOUS
    <3>2. PICK r \in Outcome : Becomes(w, r)
      BY <2>4, DialStep DEF IInv
    <3>3. PICK x : entries' = [entries EXCEPT ![i] = x] /\ x.real = entries[i].real /\ x.deepOK = entries[i].deepOK
      <4>1. PICK tcp, tls \in BOOLEAN, ms \in 0 .. MaxMs :
               entries' = [entries EXCEPT ![i] = Dialed(entries[i], tcp, tls, ms)]
        BY <2>4, <3>1, DialStep DEF IInv
      <4>2. entries[i] \in EntryType
        BY <2>4, <3>1, DialStep, BusyHolds DEF IInv
      <4>3. /\ Dialed(entries[i], tcp, tls, ms).real = entries[i].real
            /\ Dialed(entries[i], tcp, tls, ms).deepOK = entries[i].deepOK
        BY <4>2 DEF Dialed, EntryType
      <4> QED BY <4>1, <4>3
    <3>4. i \in All /\ All' = All /\ \A j \in All : entries'[j] = IF j = i THEN x ELSE entries[j]
      BY <2>4, <2>d, <3>1, <3>3, DialStep DEF All, IInv
    <3>5. \A j \in All : entries'[j].real = entries[j].real /\ entries'[j].deepOK = entries[j].deepOK
      BY <3>3, <3>4
    <3>6. BoxOf(r) /\ r.port = 0 /\ ~r.ok
      BY <3>2 DEF Outcome, BoxOf
    <3>7. UNCHANGED clashes
      BY <2>4 DEF Dial
    <3> QED BY <2>e, <2>f, <3>2, <3>4, <3>5, <3>6, <3>7, BoxMoves
  <2>5. CASE Send(w)
    <3>1. Becomes(w, Resting) /\ UNCHANGED <<stage, entries, clashes>>
      BY <2>5 DEF Send
    <3>2. BoxOf(Resting) /\ Resting.port = 0 /\ ~Resting.ok
      BY DEF BoxOf, Resting
    <3> QED BY <3>1, <3>2, BoxTurns
  <2>6. CASE PickPort(w)
    <3>1. PICK p \in Ports : /\ Becomes(w, [worker[w] EXCEPT !.pc = "start", !.port = p])
                             /\ clashes' = clashes \cup {{worker[w].e, worker[v].e} : v \in Holders(p)}
      BY <2>6 DEF PickPort
    <3> DEFINE r == [worker[w] EXCEPT !.pc = "start", !.port = p]
    <3>2. Becomes(w, r) /\ UNCHANGED entries /\ worker[w].pc = "pick"
      BY <2>6, <3>1 DEF PickPort, At
    <3>3. p # 0
      BY <3>1, VetAssumption
    <3>4. /\ r.pc = "start" /\ r.port = p /\ r.box = worker[w].box /\ r.ok = worker[w].ok
          /\ r.e = worker[w].e
      BY <2>a DEF WorkerType
    <3>5. BoxOf(r) /\ ~r.ok
      BY <2>a, <3>2, <3>3, <3>4 DEF BoxOf
    <3>6. \A v \in Workers \ {w} : worker[v].port = r.port => {r.e, worker[v].e} \in clashes'
      BY <3>1, <3>4 DEF Holders
    <3>7. All' = All /\ clashes \subseteq clashes'
      BY <3>1, <3>2 DEF All
    <3> HIDE DEF r
    <3> QED BY <2>e, <2>f, <3>2, <3>5, <3>6, <3>7, BoxMoves
  <2>7. CASE StartBox(w)
    <3> DEFINE r == [worker[w] EXCEPT !.pc = "get", !.box = "starting"]
    <3>1. Becomes(w, r) /\ UNCHANGED <<stage, entries, clashes>> /\ worker[w].pc = "start"
      BY <2>7 DEF StartBox, At
    <3>2. r.pc = "get" /\ r.port = worker[w].port /\ r.ok = worker[w].ok /\ r.e = worker[w].e
      BY <2>a DEF WorkerType
    <3>3. BoxOf(r) /\ ~r.ok
      BY <2>a, <3>1, <3>2 DEF BoxOf
    <3> HIDE DEF r
    <3> QED BY <3>1, <3>2, <3>3, BoxTurns
  <2>8. CASE Bind(w)
    <3>1. PICK x \in {"up", "dead"} : Becomes(w, [worker[w] EXCEPT !.box = x])
      BY <2>8 DEF Bind
    <3> DEFINE r == [worker[w] EXCEPT !.box = x]
    <3>2. Becomes(w, r) /\ UNCHANGED <<stage, entries, clashes>> /\ worker[w].box = "starting"
      BY <2>8, <3>1 DEF Bind
    <3>3. r.pc = worker[w].pc /\ r.port = worker[w].port /\ r.ok = worker[w].ok /\ r.e = worker[w].e
      BY <2>a DEF WorkerType
    <3>4. BoxOf(r)
      BY <2>a, <3>2, <3>3 DEF BoxOf
    <3> HIDE DEF r
    <3> QED BY <2>c, <3>2, <3>3, <3>4, BoxTurns
  <2>9. CASE Get(w)
    <3>1. PICK v \in Up(worker[w].port), ms \in 0 .. MaxMs :
             /\ entries[worker[v].e].real
             /\ Becomes(w, [worker[w] EXCEPT !.pc = "kill", !.ok = TRUE, !.ms = ms])
      BY <2>9 DEF Get
    <3> DEFINE r == [worker[w] EXCEPT !.pc = "kill", !.ok = TRUE, !.ms = ms]
    <3>2. Becomes(w, r) /\ UNCHANGED <<stage, entries, clashes>> /\ worker[w].pc = "get"
      BY <2>9, <3>1 DEF Get, At
    <3>3. worker[w].port # 0
      BY <2>a, <3>2 DEF BoxOf
    <3>4. v \in Workers /\ worker[v].port = worker[w].port
      BY <3>1 DEF Up
    <3>5. r.pc = "kill" /\ r.port = worker[w].port /\ r.e = worker[w].e /\ r.box = worker[w].box
      BY <2>a DEF WorkerType
    <3>6. BoxOf(r)
      BY <3>3, <3>5 DEF BoxOf
    <3>7. PICK i, j : i = worker[w].e /\ j = worker[v].e
      OBVIOUS
    <3>8. j \in All /\ Handled(j) /\ entries[j].real /\ i \in All
      BY <3>1, <3>3, <3>4, <3>7, PortHolds
    <3>9. j \in {i} \cup SharedPort(i)
      <4>1. v # w => {i, j} \in clashes
        BY <3>3, <3>4, <3>7 DEF BoxInv
      <4> QED BY <3>7, <3>8, <4>1 DEF SharedPort
    <3>10. Backed(i)
      BY <3>8, <3>9 DEF Backed
    <3> HIDE DEF r
    <3> QED BY <3>2, <3>5, <3>6, <3>7, <3>10, BoxTurns
  <2>10. CASE GiveUp(w)
    <3> DEFINE r == [worker[w] EXCEPT !.pc = "kill"]
    <3>1. Becomes(w, r) /\ UNCHANGED <<stage, entries, clashes>>
      BY <2>10 DEF GiveUp, Goto
    <3>2. /\ r.pc = "kill" /\ r.port = worker[w].port /\ r.e = worker[w].e /\ r.box = worker[w].box
          /\ r.ok = worker[w].ok
      BY <2>a DEF WorkerType
    <3>3. BoxOf(r)
      BY <2>a, <3>2 DEF BoxOf
    <3> HIDE DEF r
    <3> QED BY <2>c, <3>1, <3>2, <3>3, BoxTurns
  <2>11. CASE Kill(w)
    <3>1. PICK i : i = worker[w].e
      OBVIOUS
    <3>2. PICK r \in Outcome : Becomes(w, r)
      BY <2>11, KillStep DEF IInv
    <3>3. PICK x : entries' = [entries EXCEPT ![i] = x] /\ x.real = entries[i].real /\ x.deepOK = worker[w].ok
      <4>1. entries' = [entries EXCEPT ![i] = Proved(entries[i], worker[w].ok, worker[w].ms)]
        BY <2>11, <3>1, KillStep DEF IInv
      <4>2. entries[i] \in EntryType
        BY <2>11, <3>1, KillStep, BusyHolds DEF IInv
      <4>3. /\ Proved(entries[i], worker[w].ok, worker[w].ms).real = entries[i].real
            /\ Proved(entries[i], worker[w].ok, worker[w].ms).deepOK = worker[w].ok
        BY <4>2 DEF Proved, EntryType
      <4> QED BY <4>1, <4>3
    <3>4. i \in All /\ All' = All /\ \A j \in All : entries'[j] = IF j = i THEN x ELSE entries[j]
      BY <2>11, <2>d, <3>1, <3>3, KillStep DEF All, IInv
    <3>5. \A j \in All : entries'[j].real = entries[j].real
      BY <3>3, <3>4
    <3>6. \A j \in All : entries'[j].deepOK => Backed(j)
      BY <2>c, <2>f, <3>1, <3>3, <3>4
    <3>7. BoxOf(r) /\ r.port = 0 /\ ~r.ok
      BY <3>2 DEF Outcome, BoxOf
    <3>8. UNCHANGED clashes
      BY <2>11 DEF Kill
    <3> QED BY <2>e, <3>2, <3>4, <3>5, <3>6, <3>7, <3>8, BoxMoves
  <2> QED BY <1>3, <2>1, <2>2, <2>3, <2>4, <2>5, <2>6, <2>7, <2>8, <2>9, <2>10, <2>11 DEF Work
<1> QED BY <1>1, <1>p, <1>2, <1>3 DEF Next

\* A candidate is reported as carrying traffic only if it does, however many are probed at once;
\* or, where the kernel named a port to its probe and to another's before one of them listened
\* there, if that other one does: a request goes through the sing-box of its own candidate, or of
\* one that shared the port, and through no other.
THEOREM DeepProbesProve == Spec => []DeepProves
<1>1. Init => BoxInv
  BY DEF Init, BoxInv, BoxOf, Resting, All
<1>2. IInv /\ BoxInv /\ [Next]_vars => BoxInv'
  <2>1. ASSUME BoxInv, UNCHANGED vars PROVE BoxInv'
    <3>1. UNCHANGED <<stage, entries, todo, fed, queue, clashes, worker>>
      BY <2>1 DEF vars, feedVars
    <3>2. All' = All /\ Taken' = Taken
      BY <3>1 DEF All, Taken
    <3>3. \A j : Handled(j)' <=> Handled(j)
      BY <3>1, <3>2 DEF Handled
    <3>4. \A i \in All : Backed(i)' <=> Backed(i)
      BY <3>1, <3>2, <3>3 DEF Backed, SharedPort
    <3> QED BY <2>1, <3>1, <3>2, <3>4 DEF BoxInv, BoxOf
  <2> QED BY <2>1, BoxStep
<1>3. BoxInv => DeepProves
  BY DEF BoxInv, Backed, DeepProves
<1> QED BY <1>1, <1>2, <1>3, IInvAlways, PTL DEF Spec

-----------------------------------------------------------------------------
(* The pick of the deep candidates.                                         *)

LEMMA LeastNumber ==
  ASSUME NEW S \in SUBSET Nat, S # {}
  PROVE  \E m \in S : \A n \in S : m <= n
<1>1. \E m \in S : \A n \in S : ~(<<n, m>> \in OpToRel(<, Nat))
  BY NatLessThanWellFounded, WFMin, Zenon
<1>2. PICK m \in S : \A n \in S : ~(n < m)
  BY <1>1 DEF OpToRel
<1> QED BY <1>2

\* The places of a country's passers: the faster one is before.
LEMMA PlaceRises ==
  ASSUME TypeInv, NEW c, NEW i \in Passers(c), NEW j \in Passers(c)
  PROVE  /\ i \in All /\ Place(i) \in Nat /\ Place(i) = 1 + Cardinality({k \in Passers(c) : Faster(k, i)})
         /\ Faster(j, i) => Place(j) < Place(i)
         /\ i # j => Faster(i, j) \/ Faster(j, i)
<1> DEFINE Ahead(k) == {l \in Passers(c) : Faster(l, k)}
           M(k) == Measured(entries[k].tlsMs)
<1>1. Passers(c) \in SUBSET All /\ IsFiniteSet(Passers(c)) /\ \A k \in Passers(c) : k \in Int
  <2>1. Passers(c) \in SUBSET All
    BY DEF Passers
  <2> QED BY <2>1, AllFinite, FS_Subset
<1>2. \A k \in Passers(c) : M(k) \in Int
  <2> SUFFICES ASSUME NEW k \in Passers(c) PROVE M(k) \in Int
    OBVIOUS
  <2>1. entries[k].tlsMs \in 0 .. MaxMs
    BY <1>1, AllFinite, EntryFields
  <2> QED BY <2>1, MeasuredType, Config
<1> HIDE DEF M
<1>3. \A k, l : Faster(k, l) <=> M(k) < M(l) \/ (M(k) = M(l) /\ k < l)
  BY DEF Faster, M
<1>4. \A k \in Passers(c) : IsFiniteSet(Ahead(k)) /\ Cardinality(Ahead(k)) \in Nat
  <2> SUFFICES ASSUME NEW k \in Passers(c) PROVE IsFiniteSet(Ahead(k)) /\ Cardinality(Ahead(k)) \in Nat
    OBVIOUS
  <2>1. Ahead(k) \in SUBSET Passers(c)
    OBVIOUS
  <2> QED BY <1>1, <2>1, FS_Subset, FS_CardinalityType
<1>5. \A k \in Passers(c) : Place(k) = 1 + Cardinality(Ahead(k))
  BY DEF Place, Passers
<1>6. i # j => Faster(i, j) \/ Faster(j, i)
  BY <1>1, <1>2, <1>3
<1>7. ASSUME Faster(j, i) PROVE Place(j) < Place(i)
  <2>1. Ahead(j) \in SUBSET (Ahead(i) \ {j}) /\ j \in Ahead(i)
    BY <1>1, <1>2, <1>3, <1>7
  <2>2. IsFiniteSet(Ahead(i) \ {j}) /\ Cardinality(Ahead(i) \ {j}) = Cardinality(Ahead(i)) - 1
    BY <1>4, <2>1, FS_RemoveElement
  <2>3. Cardinality(Ahead(j)) <= Cardinality(Ahead(i)) - 1
    BY <2>1, <2>2, FS_Subset
  <2> QED BY <1>4, <1>5, <2>3
<1> QED BY <1>1, <1>4, <1>5, <1>6, <1>7

\* At most n of a country's passers have one of its first n places.
LEMMA PlacesBound ==
  ASSUME TypeInv, NEW c, NEW S \in SUBSET Passers(c), NEW n \in Nat, \A i \in S : Place(i) <= n
  PROVE  IsFiniteSet(S) /\ Cardinality(S) \in Nat /\ Cardinality(S) <= n
<1> DEFINE f == [i \in S |-> Place(i)]
<1>1. \A i \in S : Place(i) \in 1 .. n
  <2>1. \A i \in S : Place(i) \in Nat \ {0}
    BY PlaceType DEF Passers
  <2> QED BY <2>1
<1>2. \A i, j \in S : Place(i) = Place(j) => i = j
  <2> SUFFICES ASSUME NEW i \in S, NEW j \in S, Place(i) = Place(j), i # j PROVE FALSE
    OBVIOUS
  <2>1. Place(i) < Place(j) \/ Place(j) < Place(i)
    BY PlaceRises
  <2>2. Place(i) \in Nat
    BY PlaceType DEF Passers
  <2> QED BY <2>1, <2>2
<1>3. f \in Injection(S, 1 .. n)
  BY <1>1, <1>2 DEF Injection, IsInjective
<1>4. IsFiniteSet(1 .. n) /\ Cardinality(1 .. n) = n
  BY FS_Interval
<1> HIDE DEF f
<1>5. IsFiniteSet(S) /\ Cardinality(S) <= n
  BY <1>3, <1>4, FS_Injection
<1> QED BY <1>5, FS_CardinalityType

\* Of the picks, cut off by the total cap, and of one that is missing.
LEMMA PicksInOrder ==
  ASSUME TypeInv
  PROVE  LET P == ToSet(PickDeepCandidates) IN
         /\ P \subseteq Eligible
         /\ P # Eligible => Len(PickDeepCandidates) = MaxDeep
         /\ \A i \in Eligible \ P, j \in P : Place(j) <= Place(i)
<1> DEFINE s == ByKey(CandidateKey)
           p == PickDeepCandidates
           P == ToSet(p)
<1>1. /\ s \in Seq(Eligible) /\ \A i \in Eligible : \E k \in DOMAIN s : s[k] = i
      /\ p = Capped(s)
      /\ \A k, l \in DOMAIN s : k < l => Place(s[k]) <= Place(s[l])
  BY CandidateOrder DEF Lists
<1> HIDE DEF s, p
<1>2. /\ p \in Seq(Eligible) /\ Len(p) <= Len(s) /\ (Len(p) < Len(s) => Len(p) = MaxDeep)
      /\ \A k \in DOMAIN p : k \in DOMAIN s /\ p[k] = s[k]
  BY <1>1, CappedPrefix
<1>3. /\ Len(s) \in Nat /\ Len(p) \in Nat /\ DOMAIN s = 1 .. Len(s) /\ DOMAIN p = 1 .. Len(p)
  BY <1>1, <1>2
<1>4. P = {p[k] : k \in DOMAIN p}
  BY DEF ToSet
<1>5. P \subseteq Eligible
  BY <1>2, <1>4
<1>6. ASSUME NEW i \in Eligible, i \notin P
      PROVE  Len(p) = MaxDeep /\ \A j \in P : Place(j) <= Place(i)
  <2>1. PICK k \in DOMAIN s : s[k] = i
    BY <1>1
  <2>2. k > Len(p)
    BY <1>2, <1>3, <1>4, <1>6, <2>1
  <2>3. \A l \in DOMAIN p : Place(p[l]) <= Place(i)
    BY <1>1, <1>2, <1>3, <2>1, <2>2
  <2> QED BY <1>2, <1>3, <1>4, <2>1, <2>2, <2>3
<1> QED BY <1>5, <1>6 DEF p

\* Who is left out is not faster than the picks of his country, which has as many as it may
\* have, or the total cap is spent and no country is more than one ahead.
LEMMA FairPick ==
  ASSUME TypeInv, NEW i \in All, i \notin ToSet(PickDeepCandidates), entries[i].tlsOK
  PROVE  LET P == ToSet(PickDeepCandidates)
             Of(d) == {j \in P : entries[j].line.country = d}
             c == entries[i].line.country
         IN  /\ \A j \in Of(c) : Measured(entries[j].tlsMs) <= Measured(entries[i].tlsMs)
             /\ \/ MaxPerCountry # 0 /\ Cardinality(Of(c)) = MaxPerCountry
                \/ /\ Len(PickDeepCandidates) = MaxDeep
                   /\ \A d \in Countries : Cardinality(Of(d)) <= Cardinality(Of(c)) + 1
<1> DEFINE p == PickDeepCandidates
           P == ToSet(p)
           c == entries[i].line.country
           Of(d) == {j \in P : entries[j].line.country = d}
           M(k) == Measured(entries[k].tlsMs)
<1>1. /\ P \subseteq Eligible /\ (P # Eligible => Len(p) = MaxDeep)
      /\ \A k \in Eligible \ P, j \in P : Place(j) <= Place(k)
  BY PicksInOrder
<1> HIDE DEF p
<1>2. i \in Passers(c) /\ i \notin P
  BY DEF Passers, p
<1>3. \A d : Of(d) \in SUBSET Passers(d)
  BY <1>1 DEF Passers, Eligible
<1>4. \A k \in All : Place(k) \in Nat \ {0}
  BY PlaceType
<1>5. MaxPerCountry \in Nat
  BY Config
<1> HIDE DEF c
<1>6. \A k, j \in Passers(c) : j \in P /\ k \notin P => ~(Place(k) < Place(j))
  <2> SUFFICES ASSUME NEW k \in Passers(c), NEW j \in Passers(c), j \in P, k \notin P, Place(k) < Place(j)
               PROVE  FALSE
    OBVIOUS
  <2>1. k \in All /\ j \in All /\ j \in Eligible /\ entries[k].tlsOK
    BY <1>1 DEF Passers
  <2>2. k \in Eligible
    BY <1>4, <1>5, <2>1 DEF Eligible
  <2> QED BY <1>1, <1>4, <2>1, <2>2
<1>7. \A j \in Of(c) : M(j) <= M(i)
  <2> SUFFICES ASSUME NEW j \in Of(c) PROVE M(j) <= M(i)
    OBVIOUS
  <2>1. j \in Passers(c) /\ j \in P
    BY <1>3
  <2>2. ~Faster(i, j)
    BY <1>2, <1>6, <2>1, PlaceRises
  <2>3. j \in All /\ entries[j].tlsMs \in 0 .. MaxMs /\ entries[i].tlsMs \in 0 .. MaxMs
    BY <2>1, AllFinite, EntryFields DEF Passers
  <2>4. M(j) \in Int /\ M(i) \in Int
    BY <2>3, MeasuredType, Config
  <2> QED BY <2>2, <2>4 DEF Faster
<1>8. PICK k \in Passers(c) \ P : \A j \in Passers(c) \ P : Place(k) <= Place(j)
  <2> DEFINE S == {Place(j) : j \in Passers(c) \ P}
  <2>1. S \in SUBSET Nat /\ S # {}
    BY <1>2, <1>4 DEF Passers
  <2>2. PICK m \in S : \A n \in S : m <= n
    BY <2>1, LeastNumber
  <2> QED BY <2>2
<1> DEFINE Ahead == {j \in Passers(c) : Faster(j, k)}
<1>9. /\ k \in All /\ entries[k].tlsOK /\ Place(k) \in Nat
      /\ Place(k) = 1 + Cardinality(Ahead)
  BY <1>8, PlaceRises DEF Passers
<1>10. IsFiniteSet(Of(c)) /\ Cardinality(Of(c)) \in Nat /\ Cardinality(Ahead) \in Nat
       /\ Cardinality(Ahead) <= Cardinality(Of(c))
  <2>1. Ahead \in SUBSET Of(c)
    <3> SUFFICES ASSUME NEW j \in Passers(c), Faster(j, k) PROVE j \in Of(c)
      OBVIOUS
    <3>1. Place(j) < Place(k) /\ Place(j) \in Nat /\ j \in All /\ entries[j].line.country = c
      BY <1>4, <1>8, PlaceRises DEF Passers
    <3>2. j \in P
      BY <1>8, <1>9, <3>1
    <3> QED BY <3>1, <3>2
  <2>2. Of(c) \in SUBSET All /\ IsFiniteSet(Of(c))
    <3>1. Of(c) \in SUBSET All
      BY <1>3 DEF Passers
    <3> QED BY <3>1, AllFinite, FS_Subset
  <2> HIDE DEF Ahead, Of
  <2> QED BY <2>1, <2>2, FS_Subset, FS_CardinalityType
<1> HIDE DEF Ahead
<1>11. CASE k \notin Eligible
  <2>1. MaxPerCountry # 0 /\ Place(k) > MaxPerCountry
    BY <1>5, <1>9, <1>11 DEF Eligible
  <2>2. \A j \in Of(c) : Place(j) <= MaxPerCountry
    BY <1>1, <2>1 DEF Eligible
  <2>3. Cardinality(Of(c)) <= MaxPerCountry
    BY <1>3, <1>5, <2>2, PlacesBound
  <2>4. Cardinality(Of(c)) = MaxPerCountry
    BY <1>5, <1>9, <1>10, <2>1, <2>3
  <2> QED BY <1>7, <2>1, <2>4 DEF c, p
<1>12. CASE k \in Eligible
  <2>1. Len(p) = MaxDeep /\ \A j \in P : Place(j) <= Place(k)
    BY <1>1, <1>8, <1>12
  <2>2. ASSUME NEW d PROVE Cardinality(Of(d)) <= Cardinality(Of(c)) + 1
    <3>1. \A j \in Of(d) : Place(j) <= Place(k)
      BY <2>1
    <3>2. Cardinality(Of(d)) \in Nat /\ Cardinality(Of(d)) <= Place(k)
      BY <1>3, <1>9, <3>1, PlacesBound
    <3> QED BY <1>9, <1>10, <3>2
  <2> QED BY <1>7, <2>1, <2>2 DEF c, p
<1> QED BY <1>11, <1>12

\* What the pick goes by does not change while the candidates are probed.
SameRanks == /\ All' = All
             /\ \A i \in All : /\ entries'[i].line = entries[i].line
                               /\ entries'[i].tlsOK = entries[i].tlsOK
                               /\ entries'[i].tlsMs = entries[i].tlsMs

LEMMA FairKept ==
  ASSUME TypeInv, FairPicks, Panel, stage = "deep", todo' = todo, SameRanks
  PROVE  FairPicks'
<1>1. Panel /\ stage = "deep" => FairPicks
  OBVIOUS
<1>2. ToSet(todo) \subseteq All /\ ToSet(todo)' = ToSet(todo)
  BY FlowFacts DEF ToSet
<1>3. Countries' = Countries
  BY DEF Countries, SameRanks
<1>4. \A c : Picked(c)' = Picked(c) /\ Picked(c) \subseteq All
  BY <1>2 DEF Picked, SameRanks
<1> SUFFICES ASSUME NEW i \in All, i \notin ToSet(todo), entries[i].tlsOK
             PROVE  LET c == entries[i].line.country IN
                    /\ \A j \in Picked(c) : Measured(entries'[j].tlsMs) <= Measured(entries'[i].tlsMs)
                    /\ \/ MaxPerCountry # 0 /\ Cardinality(Picked(c)) = MaxPerCountry
                       \/ /\ Len(todo) = MaxDeep
                          /\ \A d \in Countries : Cardinality(Picked(d)) <= Cardinality(Picked(c)) + 1
  BY <1>2, <1>3, <1>4 DEF FairPicks, SameRanks, Measured, Unmeasured
<1> DEFINE c == entries[i].line.country
<1>5. /\ \A j \in Picked(c) : Measured(entries[j].tlsMs) <= Measured(entries[i].tlsMs)
      /\ \/ MaxPerCountry # 0 /\ Cardinality(Picked(c)) = MaxPerCountry
         \/ /\ Len(todo) = MaxDeep
            /\ \A d \in Countries : Cardinality(Picked(d)) <= Cardinality(Picked(c)) + 1
  BY DEF FairPicks
<1>6. \A j \in Picked(c) : entries'[j].tlsMs = entries[j].tlsMs
  BY <1>4 DEF SameRanks
<1>7. entries'[i].tlsMs = entries[i].tlsMs
  BY DEF SameRanks
<1> QED BY <1>5, <1>6, <1>7

LEMMA FairStarts ==
  ASSUME TypeInv, todo' = PickDeepCandidates, entries' = entries
  PROVE  FairPicks'
<1>1. /\ All' = All /\ Countries' = Countries /\ ToSet(todo)' = ToSet(PickDeepCandidates)
      /\ \A c : Picked(c)' = {j \in ToSet(PickDeepCandidates) : entries[j].line.country = c}
  BY DEF All, Countries, ToSet, Picked
<1> SUFFICES ASSUME NEW i \in All, i \notin ToSet(PickDeepCandidates), entries[i].tlsOK
             PROVE  LET c == entries[i].line.country IN
                    /\ \A j \in Picked(c)' : Measured(entries[j].tlsMs) <= Measured(entries[i].tlsMs)
                    /\ \/ MaxPerCountry # 0 /\ Cardinality(Picked(c)') = MaxPerCountry
                       \/ /\ Len(PickDeepCandidates) = MaxDeep
                          /\ \A d \in Countries : Cardinality(Picked(d)') <= Cardinality(Picked(c)') + 1
  BY <1>1 DEF FairPicks
<1> QED BY <1>1, FairPick

LEMMA FairStep ==
  ASSUME IInv, FairPicks, Next \/ UNCHANGED vars
  PROVE  FairPicks'
<1> SUFFICES ASSUME Panel', stage' = "deep" PROVE FairPicks'
  BY DEF FairPicks
<1>1. CASE ProbeEnds
  <2>1. UNCHANGED <<run, entries>> /\ Panel
    BY <1>1 DEF ProbeEnds, Panel
  <2>2. Begin("deep", PickDeepCandidates)
    BY <1>1, <2>1 DEF ProbeEnds, Skip
  <2> QED BY <2>1, <2>2, FairStarts DEF Begin, IInv
<1>2. CASE Cancel \/ Finished \/ Feed \/ FeedEnds \/ UNCHANGED vars
  <2>1. UNCHANGED <<run, stage, entries, todo>>
    BY <1>2 DEF Cancel, Finished, Feed, FeedEnds, feedVars, vars
  <2> QED BY <2>1, FairKept DEF SameRanks, All, Panel, IInv
<1>3. CASE Parse \/ DeepEnds \/ Sort \/ Report
  BY <1>3 DEF Parse, DeepEnds, Sort, Report, Skip, Begin
<1>4. ASSUME NEW w \in Workers, Work(w) PROVE FairPicks'
  <2>1. UNCHANGED <<run, stage, todo>> /\ Panel
    BY <1>4 DEF Work, Drain, Take, Exit, Dial, Send, PickPort, StartBox, Bind, Get, GiveUp, Kill,
               feedVars, Panel
  <2>2. worker[w].pc # "tcp"
    BY <2>1 DEF IInv, StageInv, PcsOf
  <2>3. entries \in Seq(EntryType)
    BY DEF IInv, TypeInv
  <2>4. SameRanks
    <3>1. CASE Take(w)
      <4>1. PICK h : h = Head(queue)
        OBVIOUS
      <4>2. PICK b \in BOOLEAN : h \in All /\ entries' = [entries EXCEPT ![h] = [entries[h] EXCEPT !.real = b]]
        BY <3>1, <4>1, TakeStep DEF IInv
      <4>3. All' = All /\ \A i \in All : entries'[i] = IF i = h THEN [entries[h] EXCEPT !.real = b] ELSE entries[i]
        BY <2>3, <4>2 DEF All
      <4>4. entries[h] \in EntryType
        BY <2>3, <4>2 DEF All
      <4>5. LET x == [entries[h] EXCEPT !.real = b] IN
            x.line = entries[h].line /\ x.tlsOK = entries[h].tlsOK /\ x.tlsMs = entries[h].tlsMs
        BY <4>4 DEF EntryType
      <4> QED BY <4>3, <4>5 DEF SameRanks
    <3>2. CASE Kill(w)
      <4>1. PICK h : h = worker[w].e
        OBVIOUS
      <4>2. h \in All /\ entries' = [entries EXCEPT ![h] = Proved(entries[h], worker[w].ok, worker[w].ms)]
        BY <3>2, <4>1, KillStep DEF IInv
      <4>3. All' = All /\ \A i \in All : entries'[i] = IF i = h THEN Proved(entries[h], worker[w].ok, worker[w].ms) ELSE entries[i]
        BY <2>3, <4>2 DEF All
      <4>4. entries[h] \in EntryType
        BY <2>3, <4>2 DEF All
      <4>5. LET x == Proved(entries[h], worker[w].ok, worker[w].ms) IN
            x.line = entries[h].line /\ x.tlsOK = entries[h].tlsOK /\ x.tlsMs = entries[h].tlsMs
        BY <4>4 DEF Proved, EntryType
      <4> QED BY <4>3, <4>5 DEF SameRanks
    <3>3. CASE ~Take(w) /\ ~Kill(w)
      <4>1. UNCHANGED entries
        BY <1>4, <2>2, <3>3 DEF Work, Drain, Exit, Dial, Send, PickPort, StartBox, Bind, Get, GiveUp, At
      <4> QED BY <4>1 DEF SameRanks, All
    <3> QED BY <3>1, <3>2, <3>3
  <2> QED BY <2>1, <2>4, FairKept DEF IInv
<1> QED BY <1>1, <1>2, <1>3, <1>4 DEF Next

\* The panel's deep candidates are picked fairly: while a country has a passer left out, not for
\* its own cap, the total cap is spent, no country has two more candidates than it, and the
\* left-out one is not faster than those of its country that were picked.
THEOREM PickIsFair == Spec => []FairPicks
<1>1. Init => FairPicks
  BY DEF Init, FairPicks
<1>2. IInv /\ FairPicks /\ [Next]_vars => FairPicks'
  BY FairStep
<1> QED BY <1>1, <1>2, IInvAlways, PTL DEF Spec

-----------------------------------------------------------------------------
(* The report.                                                              *)

\* Best first, by the tiers that the panel sorts by.
Sorted(s) == \A k, l \in DOMAIN s : k < l =>
                LET e == entries[s[k]]  f == entries[s[l]] IN
                \/ TierRank(e) < TierRank(f)
                \/ TierRank(e) = TierRank(f) /\ Measured(TierLatency(e)) <= Measured(TierLatency(f))

\* Groups of distinct keys, which hold who is alive and asked for, each once and under his key.
Wanted(i)   == Alive(entries[i]) /\ (~Panel => Matches(entries[i].line.bucket))
Groups(rep) ==
    /\ \A m \in DOMAIN rep : /\ DOMAIN rep[m].es \subseteq All
                             /\ \A n \in DOMAIN rep[m].es : /\ rep[m].es[n] \in All
                                                            /\ Key(rep[m].es[n]) = rep[m].key
                                                            /\ Wanted(rep[m].es[n])
                             /\ \A k, l \in DOMAIN rep[m].es : rep[m].es[k] = rep[m].es[l] => k = l
    /\ \A m, n \in DOMAIN rep : rep[m].key = rep[n].key => m = n
    /\ \A i \in All : Wanted(i) => \E m \in DOMAIN rep : \E n \in DOMAIN rep[m].es : rep[m].es[n] = i

ListingInv ==
    /\ \A i \in All : entries[i].line.ok
    /\ stage # "parse" => Lists(order, All) /\ Len(order) = Len(entries)
    /\ stage \in {"report", "done"} /\ Panel /\ ctx = "live" => Sorted(order)
    /\ stage = "done" => Groups(report)

\* A worker's step leaves the lines, and after the probes everything, as it is.
LEMMA LinesStay ==
  ASSUME IInv, NEW w \in Workers, Work(w)
  PROVE  /\ UNCHANGED <<run, ctx, stage, order, report>>
         /\ All' = All /\ \A i \in All : entries'[i].line = entries[i].line
         /\ stage \notin {"probe", "deep"} => UNCHANGED entries
<1>1. UNCHANGED <<run, ctx, stage, order, report>>
  BY DEF Work, Drain, Take, Exit, Dial, Send, PickPort, StartBox, Bind, Get, GiveUp, Kill
<1>2. entries \in Seq(EntryType) /\ \A i \in All : entries[i] \in EntryType
  BY AllFinite DEF IInv, TypeInv
<1>3. ASSUME NEW h \in All, NEW x, entries' = [entries EXCEPT ![h] = x], x.line = entries[h].line
      PROVE  All' = All /\ \A i \in All : entries'[i].line = entries[i].line
  BY <1>2, <1>3 DEF All
<1>4. CASE Take(w)
  <2>1. PICK h : h = Head(queue)
    OBVIOUS
  <2>2. PICK b \in BOOLEAN : h \in All /\ entries' = [entries EXCEPT ![h] = [entries[h] EXCEPT !.real = b]]
    BY <1>4, <2>1, TakeStep DEF IInv
  <2>3. [entries[h] EXCEPT !.real = b].line = entries[h].line
    BY <1>2, <2>2 DEF EntryType
  <2>4. stage \in {"probe", "deep"}
    BY <1>4 DEF Take, Probing
  <2> QED BY <1>1, <1>3, <2>2, <2>3, <2>4
<1>5. CASE Dial(w)
  <2>1. PICK h : h = worker[w].e
    OBVIOUS
  <2>2. PICK tcp, tls \in BOOLEAN, ms \in 0 .. MaxMs :
           h \in All /\ entries' = [entries EXCEPT ![h] = Dialed(entries[h], tcp, tls, ms)]
    BY <1>5, <2>1, DialStep DEF IInv
  <2>3. Dialed(entries[h], tcp, tls, ms).line = entries[h].line
    BY <1>2, <2>2 DEF EntryType, Dialed
  <2>4. stage \in {"probe", "deep"}
    BY <1>5 DEF Dial, At, IInv, StageInv, PcsOf
  <2> QED BY <1>1, <1>3, <2>2, <2>3, <2>4
<1>6. CASE Kill(w)
  <2>1. PICK h : h = worker[w].e
    OBVIOUS
  <2>2. h \in All /\ entries' = [entries EXCEPT ![h] = Proved(entries[h], worker[w].ok, worker[w].ms)]
    BY <1>6, <2>1, KillStep DEF IInv
  <2>3. Proved(entries[h], worker[w].ok, worker[w].ms).line = entries[h].line
    BY <1>2, <2>2 DEF EntryType, Proved
  <2>4. stage \in {"probe", "deep"}
    BY <1>6 DEF Kill, At, IInv, StageInv, PcsOf
  <2> QED BY <1>1, <1>3, <2>2, <2>3, <2>4
<1>7. CASE ~Take(w) /\ ~Dial(w) /\ ~Kill(w)
  <2>1. UNCHANGED entries
    BY <1>7 DEF Work, Drain, Exit, Send, PickPort, StartBox, Bind, Get, GiveUp
  <2> QED BY <1>1, <2>1 DEF All
<1> QED BY <1>4, <1>5, <1>6, <1>7

\* How many checks were passed is what the tiers go by.
LEMMA DepthOfTier ==
  ASSUME NEW e \in EntryType, e.deepOK => e.tlsOK /\ run.deep, e.tlsOK => e.tcpOK /\ ~run.skipTLS
  PROVE  Depth(e) = 3 - TierRank(e)
<1>1. /\ Cardinality({}) = 0 /\ Cardinality({"tcp"}) = 1
      /\ Cardinality({"tcp", "tls"}) = 2 /\ Cardinality({"tcp", "tls", "deep"}) = 3
  <2>1. IsFiniteSet({"tcp"}) /\ Cardinality({"tcp"}) = 1
    BY FS_Singleton
  <2>2. IsFiniteSet({"tcp"} \cup {"tls"}) /\ Cardinality({"tcp"} \cup {"tls"}) = 2
    BY <2>1, FS_AddElement
  <2>3. {"tcp"} \cup {"tls"} = {"tcp", "tls"}
    OBVIOUS
  <2>4. Cardinality({"tcp", "tls"} \cup {"deep"}) = 3
    BY <2>2, <2>3, FS_AddElement
  <2>5. {"tcp", "tls"} \cup {"deep"} = {"tcp", "tls", "deep"}
    OBVIOUS
  <2> QED BY <2>1, <2>2, <2>3, <2>4, <2>5, FS_EmptySet
<1> DEFINE D == {x \in {"tcp", "tls", "deep"} : \/ x = "tcp" /\ e.tcpOK
                                                \/ x = "tls" /\ e.tlsOK
                                                \/ x = "deep" /\ e.deepOK}
<1>2. Depth(e) = Cardinality(D)
  BY DEF Depth
<1>3. e.tcpOK \in BOOLEAN /\ e.tlsOK \in BOOLEAN /\ e.deepOK \in BOOLEAN
  BY EntryFields
<1>4. CASE e.deepOK
  <2>1. D = {"tcp", "tls", "deep"} /\ TierRank(e) = 0
    BY <1>4 DEF TierRank
  <2> QED BY <1>1, <1>2, <2>1
<1>5. CASE ~e.deepOK /\ e.tlsOK
  <2>1. D = {"tcp", "tls"} /\ TierRank(e) = 1
    BY <1>5 DEF TierRank
  <2> QED BY <1>1, <1>2, <2>1
<1>6. CASE ~e.deepOK /\ ~e.tlsOK /\ e.tcpOK
  <2>1. D = {"tcp"} /\ TierRank(e) = 2
    BY <1>6 DEF TierRank
  <2> QED BY <1>1, <1>2, <2>1
<1>7. CASE ~e.deepOK /\ ~e.tlsOK /\ ~e.tcpOK
  <2>1. D = {} /\ TierRank(e) = 3
    BY <1>7 DEF TierRank
  <2> QED BY <1>1, <1>2, <2>1
<1> QED BY <1>4, <1>5, <1>6, <1>7

LEMMA LivingFinite ==
  ASSUME TypeInv
  PROVE  /\ Living \subseteq All /\ IsFiniteSet(Living)
         /\ \A S \in SUBSET All : IsFiniteSet(S) /\ Cardinality(S) \in Nat /\ Cardinality(S) <= Len(entries)
<1>1. ASSUME NEW S \in SUBSET All
      PROVE  IsFiniteSet(S) /\ Cardinality(S) \in Nat /\ Cardinality(S) <= Len(entries)
  BY AllFinite, FS_Subset, FS_CardinalityType
<1>2. Living \in SUBSET All
  BY DEF Living
<1> QED BY <1>1, <1>2

\* A country's living entries, each once.
LEMMA CountryList ==
  ASSUME TypeInv, Lists(order, All), Len(order) = Len(entries), NEW c
  PROVE  /\ Lists(OfCountry(c), {i \in Living : entries[i].line.country = c})
         /\ DOMAIN OfCountry(c) \subseteq All /\ Len(OfCountry(c)) \in Nat
<1> DEFINE K == {k \in DOMAIN order : order[k] \in Living /\ entries[order[k]].line.country = c}
           S == {i \in Living : entries[i].line.country = c}
           at == Ascending(K)
           g == OfCountry(c)
<1>1. /\ order \in Seq(All) /\ \A i \in All : \E k \in DOMAIN order : order[k] = i
      /\ \A k, l \in DOMAIN order : order[k] = order[l] => k = l
  BY DEF Lists
<1>2. DOMAIN order = All /\ K \in SUBSET All /\ K \in SUBSET Int
  BY <1>1, AllFinite
<1>3. IsFiniteSet(K) /\ Cardinality(K) <= Len(entries)
  BY <1>2, LivingFinite
<1>4. Lists(at, K)
  BY <1>2, <1>3, AscendingLists
<1> HIDE DEF at
<1>5. /\ at \in Seq(K) /\ \A k \in K : \E n \in DOMAIN at : at[n] = k
      /\ \A m, n \in DOMAIN at : at[m] = at[n] => m = n
  BY <1>4 DEF Lists
<1>6. Len(at) \in Nat /\ DOMAIN at = 1 .. Len(at) /\ \A n \in DOMAIN at : at[n] \in K
  BY <1>5
<1>7. g = [n \in DOMAIN at |-> order[at[n]]]
  BY DEF OfCountry, at
<1> HIDE DEF g
<1>8. \A n \in DOMAIN at : order[at[n]] \in S
  BY <1>6
<1>9. g \in Seq(S) /\ DOMAIN g = DOMAIN at /\ Len(g) = Len(at) /\ \A n \in DOMAIN g : g[n] = order[at[n]]
  BY <1>6, <1>7, <1>8
<1>10. \A i \in S : \E n \in DOMAIN g : g[n] = i
  <2> SUFFICES ASSUME NEW i \in S PROVE \E n \in DOMAIN g : g[n] = i
    OBVIOUS
  <2>1. PICK k \in DOMAIN order : order[k] = i
    BY <1>1, LivingFinite
  <2>2. k \in K
    BY <2>1
  <2> QED BY <1>5, <1>9, <2>1, <2>2
<1>11. \A m, n \in DOMAIN g : g[m] = g[n] => m = n
  <2> HIDE DEF K
  <2>1. K \subseteq DOMAIN order
    BY DEF K
  <2> QED BY <1>1, <1>5, <1>6, <1>9, <2>1
<1>12. Len(at) <= Len(entries)
  <2>1. at = ByKey([n \in K |-> <<n, 0, 0>>])
    BY DEF at, Ascending
  <2>2. Keyed([n \in K |-> <<n, 0, 0>>])
    BY <1>2, <1>3 DEF Keyed, Triples
  <2>3. Len(at) = Cardinality(K)
    BY <2>1, <2>2, ByKeyLists
  <2> QED BY <1>3, <2>3
<1>13. DOMAIN g \subseteq All
  BY <1>6, <1>9, <1>12, AllFinite
<1> QED BY <1>6, <1>9, <1>10, <1>11, <1>13 DEF Lists, g

\* What the panel reports.
LEMMA CountryGroups ==
  ASSUME TypeInv, Panel, Lists(order, All), Len(order) = Len(entries)
  PROVE  Groups(GroupsByCountry)
<1> DEFINE C == {entries[i].line.country : i \in Living}
           key == [c \in C |-> <<IF c = 0 THEN 1 ELSE 0, -Len(OfCountry(c)), c>>]
           ks == ByKey(key)
           G == GroupsByCountry
<1>1. Living \subseteq All /\ IsFiniteSet(Living) /\ \A i \in Living : entries[i].line.country \in Nat
  BY LivingFinite, AllFinite, EntryFields
<1>2. IsFiniteSet(C) /\ C \subseteq Int
  <2> DEFINE f == [i \in Living |-> entries[i].line.country]
  <2>1. f \in Surjection(Living, C)
    BY DEF Surjection
  <2>2. IsFiniteSet(C)
    BY <1>1, <2>1, FS_Surjection
  <2> QED BY <1>1, <2>2
<1> DEFINE Of(c) == {i \in Living : entries[i].line.country = c}
<1>3. \A c : Lists(OfCountry(c), Of(c)) /\ DOMAIN OfCountry(c) \subseteq All /\ Len(OfCountry(c)) \in Nat
  BY CountryList
<1>4. Keyed(key) /\ DOMAIN key = C
  <2> HIDE DEF C
  <2>1. \A c \in C : (IF c = 0 THEN 1 ELSE 0) \in Int /\ -Len(OfCountry(c)) \in Int
    BY <1>3
  <2> QED BY <1>2, <2>1 DEF Keyed, Triples
<1>5. Lists(ks, C)
  BY <1>4, ByKeyLists
<1>6. G = [n \in DOMAIN ks |-> [key |-> ks[n], es |-> OfCountry(ks[n])]]
  BY DEF GroupsByCountry
<1> HIDE DEF ks, C, G
<1>7. DOMAIN G = DOMAIN ks /\ \A m \in DOMAIN G : G[m].key = ks[m] /\ G[m].es = OfCountry(ks[m])
  BY <1>6
<1>8. \A c : /\ \A n \in DOMAIN OfCountry(c) : OfCountry(c)[n] \in Of(c)
             /\ \A i \in Of(c) : \E n \in DOMAIN OfCountry(c) : OfCountry(c)[n] = i
             /\ \A k, l \in DOMAIN OfCountry(c) : OfCountry(c)[k] = OfCountry(c)[l] => k = l
  <2> SUFFICES ASSUME NEW c
               PROVE  /\ \A n \in DOMAIN OfCountry(c) : OfCountry(c)[n] \in Of(c)
                      /\ \A i \in Of(c) : \E n \in DOMAIN OfCountry(c) : OfCountry(c)[n] = i
                      /\ \A k, l \in DOMAIN OfCountry(c) : OfCountry(c)[k] = OfCountry(c)[l] => k = l
    OBVIOUS
  <2>1. Lists(OfCountry(c), Of(c))
    BY <1>3
  <2> HIDE DEF Of
  <2> QED BY <2>1 DEF Lists
<1>9. \A i \in All : Wanted(i) <=> i \in Living
  BY DEF Wanted, Living
<1>10. ASSUME NEW m \in DOMAIN G
       PROVE  /\ DOMAIN G[m].es \subseteq All
              /\ \A n \in DOMAIN G[m].es : /\ G[m].es[n] \in All
                                           /\ Key(G[m].es[n]) = G[m].key
                                           /\ Wanted(G[m].es[n])
              /\ \A k, l \in DOMAIN G[m].es : G[m].es[k] = G[m].es[l] => k = l
  <2>1. PICK c, s : c = G[m].key /\ s = G[m].es /\ s = OfCountry(c)
    BY <1>7
  <2>2. /\ \A n \in DOMAIN s : s[n] \in Of(c)
        /\ \A k, l \in DOMAIN s : s[k] = s[l] => k = l
        /\ DOMAIN s \subseteq All
    BY <1>3, <1>8, <2>1
  <2>3. \A n \in DOMAIN s : s[n] \in Living /\ Key(s[n]) = c
    BY <2>2 DEF Key
  <2> QED BY <1>1, <1>9, <2>1, <2>2, <2>3
<1>11. \A m, n \in DOMAIN G : G[m].key = G[n].key => m = n
  BY <1>5, <1>7 DEF Lists
<1>12. ASSUME NEW i \in All, Wanted(i)
       PROVE  \E m \in DOMAIN G : \E n \in DOMAIN G[m].es : G[m].es[n] = i
  <2>1. i \in Living /\ entries[i].line.country \in C
    BY <1>9, <1>12 DEF C
  <2>2. PICK m \in DOMAIN ks : ks[m] = entries[i].line.country
    BY <1>5, <2>1 DEF Lists
  <2>3. i \in Of(ks[m])
    BY <2>1, <2>2
  <2> QED BY <1>7, <1>8, <2>3
<1> QED BY <1>10, <1>11, <1>12 DEF Groups, G

LEMMA FourBuckets ==
  /\ DOMAIN PreferredOrder = 1 .. 4
  /\ \A k, l \in 1 .. 4 : PreferredOrder[k] = PreferredOrder[l] => k = l
<1>1. DOMAIN PreferredOrder = 1 .. 4
  BY DEF PreferredOrder
<1>2. /\ PreferredOrder[1] = <<"tcp", "reality">> /\ PreferredOrder[2] = <<"tcp", "tls">>
      /\ PreferredOrder[3] = <<"ws", "tls">> /\ PreferredOrder[4] = <<"ws", "reality">>
  BY DEF PreferredOrder
<1>3. \A k \in 1 .. 4 : k = 1 \/ k = 2 \/ k = 3 \/ k = 4
  OBVIOUS
<1> QED BY <1>1, <1>2, <1>3

\* A bucket's living entries, each once.
LEMMA BucketList ==
  ASSUME TypeInv, NEW b
  PROVE  /\ Lists(OfBucket(b), {i \in Living : entries[i].line.bucket = b})
         /\ DOMAIN OfBucket(b) \subseteq All
<1> DEFINE S == {i \in Living : entries[i].line.bucket = b}
           key == [i \in S |-> <<LatencyForSort(entries[i]), i, 0>>]
           s == OfBucket(b)
<1>1. S \in SUBSET All
  BY LivingFinite
<1>2. IsFiniteSet(S) /\ Cardinality(S) \in Nat /\ Cardinality(S) <= Len(entries)
  BY <1>1, LivingFinite
<1>3. \A i \in S : LatencyForSort(entries[i]) \in Int /\ i \in Int
  <2> SUFFICES ASSUME NEW i \in S PROVE LatencyForSort(entries[i]) \in Int /\ i \in Int
    OBVIOUS
  <2>1. entries[i] \in EntryType /\ i \in Int
    BY <1>1, AllFinite
  <2>2. /\ entries[i].tcpMs \in Int /\ entries[i].tlsMs \in Int /\ entries[i].deepMs \in Int
    BY <2>1, EntryFields, Config
  <2> QED BY <2>1, <2>2 DEF LatencyForSort
<1> HIDE DEF S
<1>4. Keyed(key) /\ DOMAIN key = S
  BY <1>2, <1>3 DEF Keyed, Triples
<1>5. s = ByKey(key)
  BY DEF OfBucket, S
<1> HIDE DEF key, s
<1>6. Lists(s, S) /\ Len(s) = Cardinality(S)
  BY <1>4, <1>5, ByKeyLists
<1>7. DOMAIN s = 1 .. Len(s)
  BY <1>6 DEF Lists
<1>8. DOMAIN s \subseteq All
  BY <1>2, <1>6, <1>7, AllFinite
<1> QED BY <1>6, <1>8 DEF s, S

\* What vless-vet reports.
LEMMA BucketGroups ==
  ASSUME TypeInv, ~Panel, \A i \in All : entries[i].line.ok
  PROVE  Groups(GroupsByBucket)
<1> DEFINE K == {k \in DOMAIN PreferredOrder : OfBucket(PreferredOrder[k]) # <<>> /\ Matches(PreferredOrder[k])}
           ks == Ascending(K)
           G == GroupsByBucket
           Of(b) == {i \in Living : entries[i].line.bucket = b}
<1>1. Living \subseteq All
  BY LivingFinite
<1>2. K \in SUBSET Int /\ IsFiniteSet(K)
  <2>1. K \in SUBSET (1 .. 4)
    BY FourBuckets
  <2>2. IsFiniteSet(1 .. 4)
    <3>1. ASSUME NEW n \in Nat PROVE IsFiniteSet(1 .. n)
      BY FS_Interval
    <3> QED BY <3>1
  <2>3. IsFiniteSet(K)
    BY <2>1, <2>2, FS_Subset
  <2> QED BY <2>1, <2>3
<1>3. Lists(ks, K)
  BY <1>2, AscendingLists
<1>4. G = [n \in DOMAIN ks |-> [key |-> PreferredOrder[ks[n]], es |-> OfBucket(PreferredOrder[ks[n]])]]
  BY DEF GroupsByBucket
<1> HIDE DEF ks, G
<1>5. /\ DOMAIN G = DOMAIN ks
      /\ \A m \in DOMAIN G : /\ G[m].key = PreferredOrder[ks[m]] /\ G[m].es = OfBucket(PreferredOrder[ks[m]])
                             /\ ks[m] \in K
  BY <1>3, <1>4 DEF Lists
<1>6. ASSUME NEW b
      PROVE  /\ \A n \in DOMAIN OfBucket(b) : OfBucket(b)[n] \in Of(b)
             /\ \A i \in Of(b) : \E n \in DOMAIN OfBucket(b) : OfBucket(b)[n] = i
             /\ \A k, l \in DOMAIN OfBucket(b) : OfBucket(b)[k] = OfBucket(b)[l] => k = l
             /\ DOMAIN OfBucket(b) \subseteq All
  <2>1. Lists(OfBucket(b), Of(b)) /\ DOMAIN OfBucket(b) \subseteq All
    BY BucketList
  <2> HIDE DEF Of
  <2> QED BY <2>1 DEF Lists
<1>7. \A i \in All : Wanted(i) <=> i \in Living /\ Matches(entries[i].line.bucket)
  BY DEF Wanted, Living
<1>8. ASSUME NEW m \in DOMAIN G
      PROVE  /\ DOMAIN G[m].es \subseteq All
             /\ \A n \in DOMAIN G[m].es : /\ G[m].es[n] \in All
                                          /\ Key(G[m].es[n]) = G[m].key
                                          /\ Wanted(G[m].es[n])
             /\ \A k, l \in DOMAIN G[m].es : G[m].es[k] = G[m].es[l] => k = l
  <2>1. PICK b, s : b = G[m].key /\ s = G[m].es /\ s = OfBucket(b) /\ Matches(b)
    BY <1>5
  <2>2. /\ \A n \in DOMAIN s : s[n] \in Of(b)
        /\ \A k, l \in DOMAIN s : s[k] = s[l] => k = l
        /\ DOMAIN s \subseteq All
    BY <1>6, <2>1
  <2>3. \A n \in DOMAIN s : s[n] \in Living /\ Key(s[n]) = b /\ Matches(entries[s[n]].line.bucket)
    BY <2>1, <2>2 DEF Key
  <2> QED BY <1>1, <1>7, <2>1, <2>2, <2>3
<1>9. \A m, n \in DOMAIN G : G[m].key = G[n].key => m = n
  BY <1>3, <1>5, FourBuckets DEF Lists
<1>10. ASSUME NEW i \in All, Wanted(i)
       PROVE  \E m \in DOMAIN G : \E n \in DOMAIN G[m].es : G[m].es[n] = i
  <2>1. PICK b : b = entries[i].line.bucket
    OBVIOUS
  <2>2. i \in Of(b) /\ Matches(b)
    BY <1>7, <1>10, <2>1
  <2>3. PICK k \in DOMAIN PreferredOrder : PreferredOrder[k] = b
    <3>1. entries[i].line \in Lines /\ entries[i].line.ok
      BY AllFinite, EntryFields
    <3>2. b \in ToSet(PreferredOrder)
      BY <2>1, <3>1 DEF Lines
    <3> QED BY <3>2 DEF ToSet
  <2>4. OfBucket(b) # <<>>
    <3>1. PICK n \in DOMAIN OfBucket(b) : OfBucket(b)[n] = i
      BY <1>6, <2>2
    <3> QED BY <3>1
  <2>5. k \in K
    BY <2>2, <2>3, <2>4
  <2>6. PICK m \in DOMAIN ks : ks[m] = k
    BY <1>3, <2>5 DEF Lists
  <2>7. m \in DOMAIN G /\ G[m].es = OfBucket(b)
    BY <1>5, <2>3, <2>6
  <2> QED BY <1>6, <2>2, <2>7
<1> QED BY <1>8, <1>9, <1>10 DEF Groups, G

\* In such groups everybody who is wanted is shown once.
LEMMA GroupsShow ==
  ASSUME Groups(report)
  PROVE  /\ \A i \in All : Cardinality({x \in Shown : report[x[1]].es[x[2]] = i}) =
                           IF Alive(entries[i]) /\ (~Panel => Matches(entries[i].line.bucket)) THEN 1 ELSE 0
         /\ \A x \in Shown : Key(report[x[1]].es[x[2]]) = report[x[1]].key
<1>1. \A x \in Shown : x \in (DOMAIN report) \X All /\ x[1] \in DOMAIN report /\ x[2] \in DOMAIN report[x[1]].es
  BY DEF Shown
<1>2. \A m \in DOMAIN report : \A n \in DOMAIN report[m].es : <<m, n>> \in Shown
  BY DEF Shown, Groups
<1>3. \A x \in Shown : Key(report[x[1]].es[x[2]]) = report[x[1]].key
  BY <1>1 DEF Groups
<1>4. ASSUME NEW i \in All
      PROVE  Cardinality({x \in Shown : report[x[1]].es[x[2]] = i}) = IF Wanted(i) THEN 1 ELSE 0
  <2> DEFINE X == {x \in Shown : report[x[1]].es[x[2]] = i}
  <2>1. \A x, y \in X : x = y
    <3> SUFFICES ASSUME NEW x \in X, NEW y \in X PROVE x = y
      OBVIOUS
    <3>1. /\ x[1] \in DOMAIN report /\ x[2] \in DOMAIN report[x[1]].es /\ report[x[1]].es[x[2]] = i
          /\ y[1] \in DOMAIN report /\ y[2] \in DOMAIN report[y[1]].es /\ report[y[1]].es[y[2]] = i
      BY <1>1
    <3>2. x[1] = y[1]
      <4>1. Key(i) = report[x[1]].key /\ Key(i) = report[y[1]].key
        BY <1>3, <3>1
      <4> QED BY <3>1, <4>1 DEF Groups
    <3>3. x[2] = y[2]
      BY <3>1, <3>2 DEF Groups
    <3>4. x \in (DOMAIN report) \X All /\ y \in (DOMAIN report) \X All
      BY <1>1
    <3> QED BY <3>2, <3>3, <3>4
  <2>2. CASE Wanted(i)
    <3>1. PICK m \in DOMAIN report : \E n \in DOMAIN report[m].es : report[m].es[n] = i
      BY <2>2 DEF Groups
    <3>2. PICK n \in DOMAIN report[m].es : report[m].es[n] = i
      BY <3>1
    <3>3. <<m, n>> \in X
      BY <1>2, <3>1, <3>2
    <3>4. X = {<<m, n>>}
      BY <2>1, <3>3
    <3> HIDE DEF X
    <3> QED BY <2>2, <3>4, FS_Singleton DEF X
  <2>3. CASE ~Wanted(i)
    <3>1. X = {}
      BY <1>1, <2>3 DEF Groups
    <3> QED BY <2>3, <3>1, FS_EmptySet
  <2> QED BY <2>2, <2>3
<1> QED BY <1>3, <1>4 DEF Wanted

\* Steps that change neither the entries' results nor the listing.
LEMMA ListingStays ==
  ASSUME TypeInv, ListingInv, UNCHANGED <<run, entries, order>>, stage # "parse",
         ctx' = "live" => ctx = "live",
         stage' \in {"report", "done"} /\ Panel /\ ctx' = "live" => stage \in {"report", "done"},
         stage' = "done" => Groups(report')
  PROVE  ListingInv'
<1>1. /\ \A i \in All' : entries'[i].line.ok
      /\ Lists(order, All)' /\ Len(order') = Len(entries')
  BY DEF ListingInv, All, Lists
<1>2. stage' \in {"report", "done"} /\ Panel' /\ ctx' = "live" => Sorted(order)'
  BY DEF ListingInv, Sorted, TierRank, TierLatency, Measured, Unmeasured, Panel
<1>3. stage' = "done" => Groups(report)'
  BY DEF Groups, Wanted, Key, Panel, All, Alive, Matches
<1> QED BY <1>1, <1>2, <1>3 DEF ListingInv

LEMMA ListingStep ==
  ASSUME IInv, ListingInv, Next \/ UNCHANGED vars
  PROVE  ListingInv'
<1>a. TypeInv
  BY DEF IInv
<1>1. CASE Parse
  <2>1. /\ Parsed \in Seq(EntryType) /\ \A n \in DOMAIN Parsed : Parsed[n].line.ok
    BY <1>a, ParsedType DEF TypeInv
  <2>2. /\ Unsorted(Parsed) \in Seq(DOMAIN Parsed) /\ Len(Unsorted(Parsed)) = Len(Parsed)
        /\ \A k \in DOMAIN Parsed : Unsorted(Parsed)[k] = k
        /\ DOMAIN Unsorted(Parsed) = DOMAIN Parsed
    BY <2>1, UnsortedList
  <2>3. entries' = Parsed /\ All' = DOMAIN Parsed /\ order' = Unsorted(Parsed)
    BY <1>1 DEF Parse, All
  <2>4. Lists(order', All')
    BY <2>2, <2>3 DEF Lists
  <2>5. Lists(order, All)'
    BY <2>4
  <2>6. \/ stage' = "probe"
        \/ stage' = "report" /\ Panel' /\ ctx' = "over"
    BY <1>1 DEF Parse, Begin, Skip, Over, Panel
  <2> QED BY <2>1, <2>2, <2>3, <2>5, <2>6 DEF ListingInv
<1>2. CASE Sort
  <2>1. UNCHANGED <<run, entries, ctx>> /\ order' = SortByBestLatency /\ stage' = "report"
    BY <1>2 DEF Sort, Skip
  <2>2. Lists(order', All) /\ Len(order') = Len(entries) /\ Sorted(order')
    BY <1>a, <2>1, BestFirst DEF Sorted
  <2>3. All' = All
    BY <2>1 DEF All
  <2>4. Lists(order, All)' /\ \A i \in All' : entries'[i].line.ok
    BY <2>1, <2>2, <2>3 DEF ListingInv
  <2>5. Sorted(order)'
    BY <2>1, <2>2 DEF Sorted, TierRank, TierLatency, Measured, Unmeasured
  <2> QED BY <2>1, <2>2, <2>4, <2>5 DEF ListingInv
<1>3. CASE Report
  <2>1. /\ UNCHANGED <<run, entries, order, ctx>> /\ stage = "report" /\ stage' = "done"
        /\ report' = IF Panel THEN GroupsByCountry ELSE GroupsByBucket
    BY <1>3 DEF Report, Skip
  <2>2. Groups(report')
    <3>1. CASE Panel
      BY <1>a, <2>1, <3>1, CountryGroups DEF ListingInv
    <3>2. CASE ~Panel
      BY <1>a, <2>1, <3>2, BucketGroups DEF ListingInv
    <3> QED BY <3>1, <3>2
  <2> QED BY <1>a, <2>1, <2>2, ListingStays
<1>4. CASE ProbeEnds \/ DeepEnds
  <2>1. /\ UNCHANGED <<run, entries, order, ctx>> /\ stage \in {"probe", "deep"}
        /\ stage' \in {"deep", "sort", "report"}
        /\ stage' = "report" /\ Panel => ctx = "over"
    BY <1>4 DEF ProbeEnds, DeepEnds, Skip, Begin, Over
  <2> QED BY <1>a, <2>1, ListingStays
<1>5. CASE Cancel \/ Finished \/ Feed \/ FeedEnds \/ UNCHANGED vars
  <2>1. /\ UNCHANGED <<run, entries, order, stage, report>>
        /\ ctx' = "live" => ctx = "live"
    BY <1>5 DEF Cancel, Finished, Feed, FeedEnds, vars
  <2>2. CASE stage # "parse"
    BY <1>a, <2>1, <2>2, ListingStays DEF ListingInv
  <2>3. CASE stage = "parse"
    BY <2>1, <2>3 DEF ListingInv, All
  <2> QED BY <2>2, <2>3
<1>6. ASSUME NEW w \in Workers, Work(w) PROVE ListingInv'
  <2>1. /\ UNCHANGED <<run, ctx, stage, order, report>>
        /\ All' = All /\ \A i \in All : entries'[i].line = entries[i].line
        /\ stage \notin {"probe", "deep"} => UNCHANGED entries
    BY <1>6, LinesStay
  <2>2. CASE stage \in {"probe", "deep"}
    <3>1. Len(entries') = Len(entries)
      <4>1. TypeInv'
        BY <1>6, TypeStep DEF Next, IInv
      <4>2. entries \in Seq(EntryType) /\ entries' \in Seq(EntryType)'
        BY <1>a, <4>1 DEF TypeInv
      <4> QED BY <2>1, <4>2 DEF All
    <3>2. Lists(order, All)' /\ \A i \in All' : entries'[i].line.ok
      BY <2>1, <2>2 DEF ListingInv, Lists
    <3> QED BY <2>1, <2>2, <3>1, <3>2 DEF ListingInv
  <2>3. CASE stage \notin {"probe", "deep"} /\ stage # "parse"
    BY <1>a, <2>1, <2>3, ListingStays DEF ListingInv
  <2>4. CASE stage = "parse"
    BY <2>1, <2>4 DEF ListingInv
  <2> QED BY <2>2, <2>3, <2>4
<1> QED BY <1>1, <1>2, <1>3, <1>4, <1>5, <1>6 DEF Next

\* The report holds each candidate that passed the strictest check asked for, once, under its
\* own group, and no other, vless-vet's of the buckets that -only names; and unless the run was
\* cut short the panel lists who passed more before who passed less, at equals the faster first.
THEOREM ReportIsRight == Spec => []Reported
<1>1. Init => ListingInv
  BY DEF Init, ListingInv, All
<1>2. IInv /\ ListingInv /\ [Next]_vars => ListingInv'
  BY ListingStep
<1>3. IInv /\ ListingInv => Reported
  <2> SUFFICES ASSUME IInv, ListingInv, stage = "done" PROVE Reported
    BY DEF Reported
  <2>1. Groups(report) /\ Lists(order, All) /\ Len(order) = Len(entries)
    BY DEF ListingInv
  <2>2. /\ \A i \in All : Cardinality({x \in Shown : report[x[1]].es[x[2]] = i}) =
                          IF Alive(entries[i]) /\ (~Panel => Matches(entries[i].line.bucket)) THEN 1 ELSE 0
        /\ \A x \in Shown : Key(report[x[1]].es[x[2]]) = report[x[1]].key
    BY <2>1, GroupsShow
  <2>3. order \in Seq(All) /\ DOMAIN order = All
    BY <2>1, AllFinite DEF IInv, Lists
  <2>4. ToSet(order) = All
    BY <2>1, <2>3 DEF ToSet, Lists
  <2>5. ASSUME Panel, ctx = "live", NEW a \in All, NEW b \in All, a < b
        PROVE  LET e == entries[order[a]]  f == entries[order[b]] IN
               \/ Depth(e) > Depth(f)
               \/ Depth(e) = Depth(f) /\ Measured(TierLatency(e)) <= Measured(TierLatency(f))
    <3>1. PICK e, f : e = entries[order[a]] /\ f = entries[order[b]]
      OBVIOUS
    <3>2. \/ TierRank(e) < TierRank(f)
          \/ TierRank(e) = TierRank(f) /\ Measured(TierLatency(e)) <= Measured(TierLatency(f))
      BY <2>3, <2>5, <3>1 DEF ListingInv, Sorted
    <3>3. /\ e \in EntryType /\ (e.deepOK => e.tlsOK /\ run.deep) /\ (e.tlsOK => e.tcpOK /\ ~run.skipTLS)
          /\ f \in EntryType /\ (f.deepOK => f.tlsOK /\ run.deep) /\ (f.tlsOK => f.tcpOK /\ ~run.skipTLS)
      <4>1. order[a] \in All /\ order[b] \in All
        BY <2>3
      <4> QED BY <3>1, <4>1, AllFinite DEF IInv, MarksInv
    <3>4. /\ Depth(e) = 3 - TierRank(e) /\ Depth(f) = 3 - TierRank(f)
          /\ TierRank(e) \in 0 .. 3 /\ TierRank(f) \in 0 .. 3
      BY <3>3, DepthOfTier, TierLatencyType
    <3> QED BY <3>1, <3>2, <3>4
  <2> QED BY <2>1, <2>2, <2>4, <2>5 DEF Reported
<1> QED BY <1>1, <1>2, <1>3, IInvAlways, PTL DEF Spec
=============================================================================
