--------------------------- MODULE ProfilesProofs ---------------------------
(* What holds of Profiles for every number of handlers, profiles and        *)
(* requests.                                                                *)
EXTENDS Profiles, FiniteSetTheorems, FunctionTheorems, SequenceTheorems, TLAPS

-----------------------------------------------------------------------------
(* Lists of profiles.                                                       *)

Distinct(seq) == \A m, n \in 1..Len(seq) : seq[m].id = seq[n].id => m = n

\* A list in which no id occurs twice has as many ids as entries.
LEMMA DistinctCount ==
    ASSUME NEW seq \in Seq(Profile), Distinct(seq)
    PROVE  Cardinality(IdsOf(seq)) = Len(seq)
<1>. DEFINE f == [n \in 1..Len(seq) |-> seq[n].id]
<1>1. f \in [1..Len(seq) -> IdsOf(seq)]
  BY DEF IdsOf
<1>2. \A a, b \in 1..Len(seq) : f[a] = f[b] => a = b
  BY DEF Distinct
<1>3. \A t \in IdsOf(seq) : \E s \in 1..Len(seq) : f[s] = t
  BY DEF IdsOf
<1>4. f \in Bijection(1..Len(seq), IdsOf(seq))
  <2>. HIDE DEF f
  <2>. QED  BY <1>1, <1>2, <1>3, Fun_IsBij
<1>5. ExistsBijection(1..Len(seq), IdsOf(seq))
  BY <1>4 DEF ExistsBijection
<1>. QED  BY <1>5, FS_CountingElements

\* The position of a listed id.
LEMMA IndexFound ==
    ASSUME NEW i \in IdsOf(saved), saved \in Seq(Profile)
    PROVE  IndexOf(i) \in 1..Len(saved) /\ saved[IndexOf(i)].id = i
<1>1. \E n \in DOMAIN saved : saved[n].id = i
  BY DEF IdsOf
<1>. QED  BY <1>1 DEF IndexOf

\* Add appends a profile with a new id.
LEMMA AppendList ==
    ASSUME NEW seq \in Seq(Profile), NEW p \in Profile, Distinct(seq), p.id \notin IdsOf(seq)
    PROVE  /\ Append(seq, p) \in Seq(Profile)
           /\ Distinct(Append(seq, p))
           /\ IdsOf(Append(seq, p)) = IdsOf(seq) \cup {p.id}
<1>. DEFINE new == Append(seq, p)
<1>1. new \in Seq(Profile) /\ Len(new) = Len(seq) + 1 /\ DOMAIN new = 1..Len(seq) + 1
  OBVIOUS
<1>2. new[Len(seq) + 1] = p /\ \A n \in 1..Len(seq) : new[n] = seq[n]
  OBVIOUS
<1>3. \A n \in 1..Len(seq) : seq[n].id # p.id
  BY DEF IdsOf
<1>4. Distinct(new)
  BY <1>1, <1>2, <1>3 DEF Distinct
<1>5. IdsOf(new) = IdsOf(seq) \cup {p.id}
  <2>1. ASSUME NEW x \in IdsOf(new) PROVE x \in IdsOf(seq) \cup {p.id}
    <3>1. PICK n \in 1..Len(seq) + 1 : x = new[n].id
      BY <1>1 DEF IdsOf
    <3>2. CASE n = Len(seq) + 1
      BY <1>2, <3>1, <3>2
    <3>3. CASE n \in 1..Len(seq)
      BY <1>2, <3>1, <3>3 DEF IdsOf
    <3>. QED  BY <3>1, <3>2, <3>3
  <2>2. ASSUME NEW x \in IdsOf(seq) PROVE x \in IdsOf(new)
    <3>1. PICK n \in 1..Len(seq) : x = seq[n].id
      BY DEF IdsOf
    <3>. QED  BY <1>1, <1>2, <3>1 DEF IdsOf
  <2>3. p.id \in IdsOf(new)
    BY <1>1, <1>2 DEF IdsOf
  <2>. QED  BY <2>1, <2>2, <2>3
<1>. QED  BY <1>1, <1>4, <1>5

\* Update replaces a profile by one with the same id.
LEMMA ReplaceList ==
    ASSUME NEW seq \in Seq(Profile), NEW k \in 1..Len(seq), NEW p \in Profile, p.id = seq[k].id
    PROVE  LET new == [seq EXCEPT ![k] = p]
           IN  /\ new \in Seq(Profile)
               /\ Len(new) = Len(seq)
               /\ Distinct(seq) => Distinct(new)
               /\ IdsOf(new) = IdsOf(seq)
<1>. DEFINE new == [seq EXCEPT ![k] = p]
<1>1. new \in Seq(Profile) /\ Len(new) = Len(seq)
  OBVIOUS
<1>2. \A n \in 1..Len(seq) : new[n].id = seq[n].id
  OBVIOUS
<1>3. IdsOf(new) = IdsOf(seq)
  BY <1>1, <1>2 DEF IdsOf
<1>. QED  BY <1>1, <1>2, <1>3 DEF Distinct

\* Delete takes one profile out.
LEMMA RemoveList ==
    ASSUME NEW seq \in Seq(Profile), NEW k \in 1..Len(seq), Distinct(seq)
    PROVE  LET new == SubSeq(seq, 1, k - 1) \o SubSeq(seq, k + 1, Len(seq))
           IN  /\ new \in Seq(Profile)
               /\ Len(new) = Len(seq) - 1
               /\ \A n \in 1..Len(new) : new[n] = seq[IF n < k THEN n ELSE n + 1]
               /\ Distinct(new)
               /\ IdsOf(new) = IdsOf(seq) \ {seq[k].id}
<1>. DEFINE a   == SubSeq(seq, 1, k - 1)
            b   == SubSeq(seq, k + 1, Len(seq))
            new == a \o b
<1>1. /\ a \in Seq(Profile) /\ Len(a) = k - 1 /\ \A n \in 1..k - 1 : a[n] = seq[n]
      /\ b \in Seq(Profile) /\ Len(b) = Len(seq) - k
      /\ \A n \in 1..Len(seq) - k : b[n] = seq[k + n]
  <2>1. \A n \in 1..k - 1 : seq[n] \in Profile
    OBVIOUS
  <2>2. \A n \in k + 1..Len(seq) : seq[n] \in Profile
    OBVIOUS
  <2>3. k \in Int /\ Len(seq) \in Int /\ 1 <= k /\ k <= Len(seq)
    OBVIOUS
  <2>4. a \in Seq(Profile) /\ Len(a) = k - 1 /\ \A n \in 1..k - 1 : a[n] = seq[n]
    BY <2>1, <2>3, SubSeqProperties
  <2>5. /\ b \in Seq(Profile) /\ Len(b) = Len(seq) - k
        /\ \A n \in 1..Len(seq) - k : b[n] = seq[k + n]
    BY <2>2, <2>3, SubSeqProperties
  <2>. QED  BY <2>4, <2>5
<1>2. /\ new \in Seq(Profile) /\ Len(new) = Len(seq) - 1
      /\ \A n \in 1..Len(new) : new[n] = seq[IF n < k THEN n ELSE n + 1]
  <2>. HIDE DEF a, b
  <2>1. /\ new \in Seq(Profile) /\ Len(new) = Len(a) + Len(b)
        /\ \A n \in 1..Len(a) + Len(b) : new[n] = IF n <= Len(a) THEN a[n] ELSE b[n - Len(a)]
    BY <1>1, ConcatProperties
  <2>2. Len(a) = k - 1 /\ Len(a) + Len(b) = Len(seq) - 1
    BY <1>1
  <2>3. ASSUME NEW n \in 1..Len(seq) - 1 PROVE new[n] = seq[IF n < k THEN n ELSE n + 1]
    <3>. HIDE DEF new
    <3>1. CASE n < k
      <4>1. n \in 1..k - 1 /\ new[n] = a[n]
        BY <2>1, <2>2, <3>1
      <4>. QED  BY <1>1, <3>1, <4>1
    <3>2. CASE ~(n < k)
      <4>1. new[n] = b[n - (k - 1)] /\ n - (k - 1) \in 1..Len(seq) - k
        BY <2>1, <2>2, <3>2
      <4>2. b[n - (k - 1)] = seq[k + (n - (k - 1))] /\ k + (n - (k - 1)) = n + 1
        BY <1>1, <4>1
      <4>. QED  BY <3>2, <4>1, <4>2
    <3>. QED  BY <3>1, <3>2
  <2>. HIDE DEF new
  <2>. QED  BY <2>1, <2>2, <2>3
<1>. HIDE DEF new
<1>3. Distinct(new)
  BY <1>2 DEF Distinct
<1>4. ASSUME NEW x \in IdsOf(new) PROVE x \in IdsOf(seq) \ {seq[k].id}
  <2>1. PICK n \in 1..Len(new) : x = new[n].id
    BY <1>2 DEF IdsOf
  <2>2. PICK m \in 1..Len(seq) : m # k /\ new[n] = seq[m]
    <3>1. (IF n < k THEN n ELSE n + 1) \in 1..Len(seq) \ {k}
      BY <1>2
    <3>. QED  BY <1>2, <3>1
  <2>3. x = seq[m].id /\ x # seq[k].id
    BY <2>1, <2>2 DEF Distinct
  <2>. QED  BY <2>3 DEF IdsOf
<1>5. ASSUME NEW x \in IdsOf(seq) \ {seq[k].id} PROVE x \in IdsOf(new)
  <2>1. PICK n \in 1..Len(seq) : x = seq[n].id
    BY DEF IdsOf
  <2>2. n # k
    BY <2>1
  <2>3. CASE n < k
    BY <1>2, <2>1, <2>3 DEF IdsOf
  <2>4. CASE n > k
    <3>1. n - 1 \in 1..Len(new) /\ new[n - 1] = seq[n]
      BY <1>2, <2>4
    <3>. QED  BY <1>2, <2>1, <3>1 DEF IdsOf
  <2>. QED  BY <2>2, <2>3, <2>4
<1>6. IdsOf(new) = IdsOf(seq) \ {seq[k].id}
  BY <1>4, <1>5
<1>. QED  BY <1>2, <1>3, <1>6 DEF new

-----------------------------------------------------------------------------
(* The invariant.  What a handler carries from step to step: the body it     *)
(* was called with, the merged profile it is about to store, the list it     *)
(* has checked; and the list and the files as other handlers find them.      *)

\* A file with a complete configuration: it selects one of its outbounds and
\* passed the check.
FileOK(f) == f.kind = "whole" =>
    /\ f.outbounds # <<>>
    /\ f.default \in IdsOf(f.outbounds)
    /\ Passes(f.outbounds)

JobOK(j) ==
    /\ j.pc = "add" => j.op = "import" /\ j.body \in Links
    /\ j.pc = "get" => j.id \in Ids /\ j.body \in Edits \cup {<<>>}
    /\ j.pc = "update" => /\ j.id \in Ids /\ j.body \in Edits
                          /\ j.existing \in Profile /\ j.existing.id = j.id
    /\ j.op = "patch" => j.body \in Edits \cup {<<>>}
    /\ j.pc = "get" /\ j.op # "activate" => j.op = "patch" /\ j.body \in Edits
    /\ j.pc \in {"open", "fill"} => j.all # <<>> /\ Passes(j.all)

JobsInv == \A h \in Handlers : JobOK(job[h])
ListInv == Distinct(saved) /\ IdsOf(saved) = DOMAIN expected
FileInv == FileOK(config) /\ FileOK(tmp) /\ FileOK(loaded)

IInv == TypeOK /\ JobsInv /\ ListInv /\ FileInv

LEMMA PatchedType ==
    ASSUME NEW d \in Data, NEW b \in Edits \cup {<<>>}
    PROVE  Patched(d, b) \in Data
<1>1. \A f \in DOMAIN b : b[f] \in Values
  <2>1. CASE b \in Edits
    BY <2>1 DEF Values
  <2>2. CASE b = <<>>
    BY <2>2
  <2>. QED  BY <2>1, <2>2
<1>. QED  BY <1>1 DEF Patched, Data

LEMMA IInvHolds == IInv => StoreExact /\ DefaultExists /\ OnlyChecked
<1>. SUFFICES ASSUME IInv PROVE StoreExact /\ DefaultExists /\ OnlyChecked
  OBVIOUS
<1>1. StoreExact
  BY DistinctCount DEF IInv, TypeOK, ListInv, StoreExact
<1>2. DefaultExists
  BY DEF IInv, FileInv, FileOK, DefaultExists
<1>3. OnlyChecked
  <2>1. CASE loaded.kind = "whole"
    BY <2>1 DEF IInv, FileInv, FileOK, Passes, OnlyChecked
  <2>2. CASE loaded.kind # "whole"
    <3>1. loaded.outbounds = <<>>
      BY <2>2 DEF IInv, TypeOK, Files, NoFile, Torn
    <3>. QED  BY <3>1 DEF OnlyChecked
  <2>. QED  BY <2>1, <2>2
<1>. QED  BY <1>1, <1>2, <1>3

LEMMA NoJobOK == NoJob \in Jobs /\ JobOK(NoJob)
BY DEF NoJob, Jobs, JobOK, Steps

LEMMA InitIInv == Init => IInv
<1>. SUFFICES ASSUME Init PROVE IInv
  OBVIOUS
<1>1. saved \in Seq(Profile) /\ Distinct(saved) /\ IdsOf(saved) = {} /\ DOMAIN expected = {}
  BY DEF Init, Distinct, IdsOf
<1>2. JobsInv /\ job \in [Handlers -> Jobs]
  BY NoJobOK DEF Init, JobsInv
<1>3. FileInv
  BY DEF Init, FileInv, FileOK, NoFile
<1>4. TypeOK
  BY <1>1, <1>2 DEF Init, TypeOK, Files
<1>. QED  BY <1>1, <1>2, <1>3, <1>4 DEF IInv, ListInv

\* The steps that change one handler's locals: those of the others keep what
\* the invariant says of them.
LEMMA SetJob ==
    ASSUME IInv, NEW h \in Handlers, NEW j \in Jobs, JobOK(j), Become(h, j)
    PROVE  job' \in [Handlers -> Jobs] /\ JobsInv'
<1>1. job' \in [Handlers -> Jobs] /\ \A g \in Handlers : job'[g] = IF g = h THEN j ELSE job[g]
  BY DEF IInv, TypeOK, Become
<1>. QED  BY <1>1 DEF IInv, JobsInv, JobOK

LEMMA LeaveJob ==
    ASSUME IInv, NEW h \in Handlers, Leave(h)
    PROVE  job' \in [Handlers -> Jobs] /\ JobsInv'
BY NoJobOK, SetJob DEF Leave

\* Moving on without a new obligation.
Plain == Steps \ {"add", "get", "update", "open", "fill"}

LEMMA GotoJob ==
    ASSUME IInv, NEW h \in Handlers, NEW s \in Plain, Goto(h, s)
    PROVE  job' \in [Handlers -> Jobs] /\ JobsInv'
<1>. DEFINE j == [job[h] EXCEPT !.pc = s]
<1>1. j \in Jobs /\ j.pc = s /\ j.op = job[h].op /\ j.body = job[h].body
  BY DEF IInv, TypeOK, Jobs, Plain
<1>2. JobOK(j)
  BY <1>1 DEF IInv, JobsInv, JobOK, Plain
<1>. QED  BY <1>1, <1>2, SetJob DEF Goto

-----------------------------------------------------------------------------
(* One lemma per step of a handler.                                         *)

\* Steps that change nothing but the handlers' locals.
LEMMA OnlyJobs ==
    ASSUME IInv, job' \in [Handlers -> Jobs], JobsInv',
           UNCHANGED <<diskVars, singboxVars, historyVars>>
    PROVE  IInv'
BY DEF IInv, TypeOK, ListInv, FileInv, FileOK, diskVars, singboxVars, historyVars

\* What a rendered configuration is.
LEMMA RenderOK ==
    ASSUME NEW all \in Seq(Profile), all # <<>>, Passes(all), NEW act, NEW flag \in BOOLEAN
    PROVE  Render(all, act, flag) \in Files /\ FileOK(Render(all, act, flag))
<1>1. /\ Len(all) \in Nat \ {0}
      /\ DOMAIN all = 1..Len(all)
      /\ \A n \in 1..Len(all) : all[n] \in Profile
  BY EmptySeq, LenProperties, ElementOfSeq
<1>2. all[1].id \in IdsOf(all) /\ IdsOf(all) \subseteq Ids
  <2>1. 1 \in DOMAIN all
    BY <1>1
  <2>2. \A n \in DOMAIN all : all[n].id \in Ids
    BY <1>1 DEF Profile
  <2>. QED  BY <2>1, <2>2 DEF IdsOf
<1>3. (IF act \in IdsOf(all) THEN act ELSE all[1].id) \in Ids \cap IdsOf(all)
  BY <1>2
<1>. QED  BY <1>3 DEF Render, Files, FileOK

LEMMA AddInv ==
    ASSUME IInv, NEW h \in Handlers, Add(h)
    PROVE  IInv'
<1>1. PICK i \in Ids \ minted :
        /\ saved' = Append(saved, [id |-> i, data |-> job[h].body])
        /\ Become(h, [job[h] EXCEPT !.id = i, !.body = <<>>, !.pc = "list"])
        /\ minted' = minted \cup {i}
        /\ expected' = [x \in DOMAIN expected \cup {i} |->
                          IF x = i THEN job[h].body ELSE expected[x]]
  BY DEF Add
<1>2. job[h].op = "import" /\ job[h].body \in Data
  BY ProfilesAssumption DEF Add, At, IInv, JobsInv, JobOK
<1>. DEFINE p == [id |-> i, data |-> job[h].body]
<1>3. p \in Profile /\ p.id = i /\ i \notin DOMAIN expected
  BY <1>2 DEF Profile, IInv, TypeOK
<1>4. saved' \in Seq(Profile) /\ Distinct(saved') /\ IdsOf(saved') = IdsOf(saved) \cup {i}
  BY <1>1, <1>3, AppendList DEF IInv, TypeOK, ListInv
<1>5. DOMAIN expected' = DOMAIN expected \cup {i} /\ ListInv'
  BY <1>1, <1>4 DEF IInv, ListInv
<1>6. \A x \in DOMAIN expected' : expected'[x] \in Data
  BY <1>1, <1>2 DEF IInv, TypeOK
<1>. DEFINE j == [job[h] EXCEPT !.id = i, !.body = <<>>, !.pc = "list"]
<1>7. j \in Jobs /\ JobOK(j)
  BY <1>2 DEF IInv, TypeOK, Jobs, JobOK, Steps
<1>8. job' \in [Handlers -> Jobs] /\ JobsInv'
  BY <1>1, <1>7, SetJob
<1>9. TypeOK'
  BY <1>1, <1>4, <1>5, <1>6, <1>8 DEF Add, IInv, TypeOK, singboxVars
<1>10. FileInv'
  BY DEF Add, IInv, FileInv, FileOK, singboxVars
<1>. QED  BY <1>5, <1>8, <1>9, <1>10 DEF IInv

LEMMA GetInv ==
    ASSUME IInv, NEW h \in Handlers, Get(h)
    PROVE  IInv'
<1>1. UNCHANGED <<diskVars, singboxVars, historyVars>>
  BY DEF Get
<1>. DEFINE p == saved[IndexOf(job[h].id)]
            q == [p EXCEPT !.data = Patched(p.data, job[h].body)]
            j == [job[h] EXCEPT !.existing = q, !.pc = "update"]
<1>2. CASE Leave(h) \/ Goto(h, "list")
  <2>1. "list" \in Plain
    BY DEF Plain, Steps
  <2>. QED  BY <1>1, <1>2, <2>1, LeaveJob, GotoJob, OnlyJobs
<1>3. CASE ~(Leave(h) \/ Goto(h, "list"))
  <2>1. job[h].id \in IdsOf(saved) /\ job[h].op # "activate" /\ Become(h, j)
    BY <1>3 DEF Get
  <2>2. p \in Profile /\ p.id = job[h].id
    BY <2>1, IndexFound DEF IInv, TypeOK
  <2>3. job[h].body \in Edits /\ job[h].op = "patch" /\ job[h].id \in Ids
    BY <2>1 DEF Get, At, IInv, JobsInv, JobOK
  <2>4. Patched(p.data, job[h].body) \in Data
    BY <2>2, <2>3, PatchedType DEF Profile
  <2>5. q \in Profile /\ q.id = job[h].id
    BY <2>2, <2>4 DEF Profile
  <2>6. j \in Jobs /\ JobOK(j)
    <3>. HIDE DEF q
    <3>. QED  BY <2>3, <2>5 DEF IInv, TypeOK, Jobs, JobOK, Steps
  <2>. QED  BY <1>1, <2>1, <2>6, SetJob, OnlyJobs
<1>. QED  BY <1>2, <1>3

LEMMA UpdateInv ==
    ASSUME IInv, NEW h \in Handlers, Update(h)
    PROVE  IInv'
<1>1. CASE job[h].id \notin IdsOf(saved)
  BY <1>1, LeaveJob, OnlyJobs DEF Update, diskVars, historyVars, singboxVars
<1>2. CASE job[h].id \in IdsOf(saved)
  <2>. DEFINE i == job[h].id
              k == IndexOf(i)
              j == [job[h] EXCEPT !.body = <<>>, !.existing = <<>>, !.pc = "list"]
  <2>1. /\ saved' = [saved EXCEPT ![k] = job[h].existing]
        /\ expected' = [expected EXCEPT ![i] = Patched(@, job[h].body)]
        /\ Become(h, j)
        /\ UNCHANGED <<active, config, tmp, singboxVars, minted>>
    BY <1>2 DEF Update
  <2>2. /\ job[h].existing \in Profile /\ job[h].existing.id = i
        /\ job[h].body \in Edits
    BY DEF Update, At, IInv, JobsInv, JobOK
  <2>3. k \in 1..Len(saved) /\ saved[k].id = i
    BY <1>2, IndexFound DEF IInv, TypeOK
  <2>. HIDE DEF k
  <2>4. saved' \in Seq(Profile) /\ Distinct(saved') /\ IdsOf(saved') = IdsOf(saved)
    BY <2>1, <2>2, <2>3, ReplaceList DEF IInv, TypeOK, ListInv
  <2>5. DOMAIN expected' = DOMAIN expected
    BY <2>1
  <2>6. \A x \in DOMAIN expected' : expected'[x] \in Data
    BY <2>1, <2>2, PatchedType DEF IInv, TypeOK
  <2>7. j \in Jobs /\ JobOK(j)
    BY DEF IInv, TypeOK, Jobs, JobOK, JobsInv, Steps
  <2>8. job' \in [Handlers -> Jobs] /\ JobsInv'
    BY <2>1, <2>7, SetJob
  <2>9. TypeOK'
    BY <2>1, <2>4, <2>5, <2>6, <2>8 DEF IInv, TypeOK, singboxVars
  <2>10. ListInv' /\ FileInv'
    BY <2>1, <2>4, <2>5 DEF IInv, ListInv, FileInv, FileOK, singboxVars
  <2>. QED  BY <2>8, <2>9, <2>10 DEF IInv
<1>. QED  BY <1>1, <1>2

LEMMA DeleteInv ==
    ASSUME IInv, NEW h \in Handlers, Delete(h)
    PROVE  IInv'
<1>1. CASE job[h].id \notin IdsOf(saved)
  BY <1>1, LeaveJob, OnlyJobs DEF Delete, diskVars, historyVars, singboxVars
<1>2. CASE job[h].id \in IdsOf(saved)
  <2>. DEFINE k == IndexOf(job[h].id)
  <2>1. /\ saved' = SubSeq(saved, 1, k - 1) \o SubSeq(saved, k + 1, Len(saved))
        /\ expected' = [i \in DOMAIN expected \ {job[h].id} |-> expected[i]]
        /\ Goto(h, "list")
        /\ UNCHANGED <<active, config, tmp, singboxVars, minted>>
    BY <1>2 DEF Delete
  <2>2. k \in 1..Len(saved) /\ saved[k].id = job[h].id
    BY <1>2, IndexFound DEF IInv, TypeOK
  <2>. HIDE DEF k
  <2>3. /\ saved' \in Seq(Profile) /\ Distinct(saved')
        /\ IdsOf(saved') = IdsOf(saved) \ {job[h].id}
    BY <2>1, <2>2, RemoveList DEF IInv, TypeOK, ListInv
  <2>4. job' \in [Handlers -> Jobs] /\ JobsInv'
    <3>1. "list" \in Plain
      BY DEF Plain, Steps
    <3>. QED  BY <2>1, <3>1, GotoJob
  <2>5. TypeOK'
    BY <2>1, <2>3, <2>4 DEF IInv, TypeOK, singboxVars
  <2>6. ListInv' /\ FileInv'
    BY <2>1, <2>3 DEF IInv, ListInv, FileInv, FileOK, singboxVars
  <2>. QED  BY <2>4, <2>5, <2>6 DEF IInv
<1>. QED  BY <1>1, <1>2

LEMMA ListStepInv ==
    ASSUME IInv, NEW h \in Handlers, List(h)
    PROVE  IInv'
<1>. DEFINE j1 == [job[h] EXCEPT !.all = saved, !.act = job[h].id, !.pc = "check"]
            a  == IF job[h].act = NoId THEN saved[1].id ELSE job[h].act
            j2 == [job[h] EXCEPT !.all = saved, !.pc = "check", !.act = a]
            j3 == [job[h] EXCEPT !.all = saved, !.pc = "readActive"]
<1>1. UNCHANGED <<diskVars, singboxVars, historyVars>>
  BY DEF List
<1>2. saved # <<>> => saved[1].id \in Ids
  <2>1. saved # <<>> => saved[1] \in Profile
    BY EmptySeq, LenProperties, ElementOfSeq DEF IInv, TypeOK
  <2>. QED  BY <2>1 DEF Profile
<1>3. saved \in Seq(Profile) /\ job[h] \in Jobs /\ JobOK(job[h])
  BY DEF IInv, TypeOK, JobsInv
<1>4. j1 \in Jobs /\ JobOK(j1)
  BY <1>3 DEF Jobs, JobOK, Steps
<1>5. saved # <<>> => j2 \in Jobs /\ JobOK(j2)
  <2>1. saved # <<>> => a \in Ids \cup {NoId}
    BY <1>2, <1>3 DEF Jobs
  <2>. HIDE DEF a
  <2>. QED  BY <1>3, <2>1 DEF Jobs, JobOK, Steps
<1>6. j3 \in Jobs /\ JobOK(j3)
  BY <1>3 DEF Jobs, JobOK, Steps
<1>7. Become(h, j1) \/ Leave(h) \/ (saved # <<>> /\ Become(h, j2)) \/ Become(h, j3)
  BY DEF List
<1>. HIDE DEF j1, j2, j3
<1>. QED  BY <1>1, <1>4, <1>5, <1>6, <1>7, SetJob, LeaveJob, OnlyJobs

LEMMA CheckInv ==
    ASSUME IInv, NEW h \in Handlers, Check(h)
    PROVE  IInv'
<1>. DEFINE j == [job[h] EXCEPT !.pc = "open"]
<1>1. UNCHANGED <<diskVars, singboxVars, historyVars>>
  BY DEF Check
<1>2. CASE job[h].all # <<>> /\ Passes(job[h].all)
  <2>1. j \in Jobs /\ JobOK(j)
    BY <1>2 DEF IInv, TypeOK, Jobs, JobsInv, JobOK, Steps
  <2>. QED  BY <1>1, <1>2, <2>1, SetJob, OnlyJobs DEF Check, Goto
<1>3. CASE ~(job[h].all # <<>> /\ Passes(job[h].all))
  BY <1>1, <1>3, LeaveJob, OnlyJobs DEF Check
<1>. QED  BY <1>2, <1>3

\* The files that a write may leave.
LEMMA TornOK == Torn \in Files /\ FileOK(Torn) /\ NoFile \in Files /\ FileOK(NoFile)
BY DEF Files, FileOK, Torn, NoFile

LEMMA OpenInv ==
    ASSUME IInv, NEW h \in Handlers, Open(h)
    PROVE  IInv'
<1>. DEFINE j == [job[h] EXCEPT !.pc = "fill", !.fd = "tmp"]
<1>1. j \in Jobs /\ JobOK(j)
  BY DEF Open, At, IInv, TypeOK, Jobs, JobsInv, JobOK, Steps
<1>2. job' \in [Handlers -> Jobs] /\ JobsInv'
  BY <1>1, SetJob DEF Open
<1>3. TypeOK'
  BY <1>2, TornOK DEF Open, IInv, TypeOK, singboxVars, historyVars
<1>4. ListInv'
  BY DEF Open, IInv, ListInv, historyVars
<1>5. FileInv'
  BY TornOK DEF Open, IInv, FileInv, FileOK, singboxVars
<1>. QED  BY <1>2, <1>3, <1>4, <1>5 DEF IInv

LEMMA FillInv ==
    ASSUME IInv, NEW h \in Handlers, Fill(h)
    PROVE  IInv'
<1>1. "rename" \in Plain
  BY DEF Plain, Steps
<1>2. job' \in [Handlers -> Jobs] /\ JobsInv'
  BY <1>1, GotoJob DEF Fill
<1>3. /\ Render(job[h].all, job[h].act, Flagged(job[h])) \in Files
      /\ FileOK(Render(job[h].all, job[h].act, Flagged(job[h])))
  <2>1. job[h].all \in Seq(Profile) /\ job[h].all # <<>> /\ Passes(job[h].all)
    BY DEF Fill, At, IInv, TypeOK, Jobs, JobsInv, JobOK
  <2>2. Flagged(job[h]) \in BOOLEAN
    BY DEF Flagged
  <2>. QED  BY <2>1, <2>2, RenderOK
<1>4. \A file, new : new \in Outcomes(h, file) => new \in Files /\ FileOK(new)
  BY <1>3, TornOK DEF Outcomes
<1>5. tmp' \in Files /\ FileOK(tmp') /\ config' \in Files /\ FileOK(config')
  BY <1>4 DEF Fill, IInv, TypeOK, FileInv
<1>6. TypeOK'
  BY <1>2, <1>5 DEF Fill, IInv, TypeOK, singboxVars, historyVars
<1>7. ListInv'
  BY DEF Fill, IInv, ListInv, historyVars
<1>8. FileInv'
  BY <1>5 DEF Fill, IInv, FileInv, FileOK, singboxVars
<1>. QED  BY <1>2, <1>6, <1>7, <1>8 DEF IInv

LEMMA RenameInv ==
    ASSUME IInv, NEW h \in Handlers, Rename(h)
    PROVE  IInv'
<1>1. CASE tmp.kind = "none"
  BY <1>1, LeaveJob, OnlyJobs DEF Rename, diskVars
<1>2. CASE tmp.kind # "none"
  <2>. DEFINE i == IF job[h].op = "activate" THEN job[h].id ELSE NoId
              j == [NoJob EXCEPT !.op = job[h].op, !.pc = AfterRename(job[h].op), !.id = i]
  <2>1. job[h] \in Jobs
    BY DEF IInv, TypeOK
  <2>2. AfterRename(job[h].op) \in {"setActive", "reload", "probe"}
    BY DEF AfterRename
  <2>3. i \in Ids \cup {NoId}
    BY <2>1 DEF Jobs
  <2>4. j \in Jobs /\ JobOK(j)
    <3>. HIDE DEF i
    <3>1. NoJob \in Jobs /\ NoJob.body = <<>>
      BY NoJobOK DEF NoJob
    <3>2. job[h].op \in AllOps \cup {"idle"}
      BY <2>1 DEF Jobs
    <3>. QED  BY <2>2, <2>3, <3>1, <3>2 DEF Jobs, JobOK, Steps
  <2>. HIDE DEF j
  <2>5. \A g \in Handlers : /\ [job[g] EXCEPT !.fd = Moved(job[g].fd)] \in Jobs
                            /\ JobOK([job[g] EXCEPT !.fd = Moved(job[g].fd)])
    <3>1. \A fd \in {"none", "tmp", "config"} : Moved(fd) \in {"none", "tmp", "config"}
      BY DEF Moved
    <3>. SUFFICES ASSUME NEW g \in Handlers
                  PROVE  /\ [job[g] EXCEPT !.fd = Moved(job[g].fd)] \in Jobs
                         /\ JobOK([job[g] EXCEPT !.fd = Moved(job[g].fd)])
      OBVIOUS
    <3>2. job[g] \in Jobs /\ JobOK(job[g])
      BY DEF IInv, TypeOK, JobsInv
    <3>3. Moved(job[g].fd) \in {"none", "tmp", "config"}
      BY <3>1, <3>2 DEF Jobs
    <3>. QED  BY <3>2, <3>3 DEF Jobs, JobOK
  <2>6. /\ config' = tmp /\ tmp' = NoFile
        /\ job' = [g \in Handlers |->
                     IF g = h THEN j ELSE [job[g] EXCEPT !.fd = Moved(job[g].fd)]]
        /\ UNCHANGED <<saved, active, singboxVars, historyVars>>
    BY <1>2 DEF Rename, j
  <2>7. job' \in [Handlers -> Jobs] /\ JobsInv'
    BY <2>4, <2>5, <2>6 DEF JobsInv
  <2>8. TypeOK'
    BY <2>6, <2>7, TornOK DEF IInv, TypeOK, singboxVars, historyVars
  <2>9. ListInv'
    BY <2>6 DEF IInv, ListInv, historyVars
  <2>10. FileInv'
    BY <2>6, TornOK DEF IInv, FileInv, FileOK, singboxVars
  <2>. QED  BY <2>7, <2>8, <2>9, <2>10 DEF IInv
<1>. QED  BY <1>1, <1>2

LEMMA ActJob ==
    ASSUME NEW j \in Jobs, JobOK(j), NEW a \in Ids \cup {NoId}, NEW s \in Plain
    PROVE  /\ [j EXCEPT !.act = a, !.pc = s] \in Jobs
           /\ JobOK([j EXCEPT !.act = a, !.pc = s])
BY DEF Jobs, JobOK, Plain

LEMMA ReadActiveInv ==
    ASSUME IInv, NEW h \in Handlers, ReadActive(h)
    PROVE  IInv'
<1>1. UNCHANGED <<diskVars, singboxVars, historyVars>>
  BY DEF ReadActive
<1>2. PICK a \in Ids \cup {NoId} : Become(h, WithActive(h, a))
  BY DEF ReadActive, IInv, TypeOK
<1>3. job[h] \in Jobs /\ JobOK(job[h])
  BY DEF IInv, TypeOK, JobsInv
<1>. DEFINE b  == IF a = NoId THEN job[h].id ELSE a
            j1 == [job[h] EXCEPT !.act = a, !.pc = "delete"]
            j2 == [job[h] EXCEPT !.act = b, !.pc = "check"]
            j3 == [job[h] EXCEPT !.pc = "probe"]
            j4 == [job[h] EXCEPT !.act = a, !.pc = "check"]
<1>4. b \in Ids \cup {NoId}
  BY <1>3 DEF Jobs
<1>5. WithActive(h, a) \in {NoJob, j1, j2, j3, j4}
  BY DEF WithActive
<1>6. {"delete", "check", "probe"} \subseteq Plain
  BY DEF Plain, Steps
<1>7. j1 \in Jobs /\ JobOK(j1) /\ j4 \in Jobs /\ JobOK(j4)
  BY <1>3, <1>6, ActJob
<1>8. j2 \in Jobs /\ JobOK(j2)
  BY <1>3, <1>4, <1>6, ActJob
<1>9. j3 \in Jobs /\ JobOK(j3)
  BY <1>3 DEF Jobs, JobOK, Steps
<1>. HIDE DEF j1, j2, j3, j4
<1>. QED  BY <1>1, <1>2, <1>5, <1>6, <1>7, <1>8, <1>9, NoJobOK, SetJob, OnlyJobs

\* The steps that end a handler or move it on, and change one other variable.
LEMMA CommandInv ==
    ASSUME IInv, NEW h \in Handlers,
           SetActive(h) \/ Probe(h) \/ Select(h) \/ SelectFails(h) \/ Reload(h) \/ NoReload(h)
             \/ Start(h) \/ Abort(h)
    PROVE  IInv'
<1>. USE DEF diskVars, singboxVars, historyVars
<1>1. CASE SetActive(h)
  <2>1. "probe" \in Plain
    BY DEF Plain, Steps
  <2>2. job' \in [Handlers -> Jobs] /\ JobsInv'
    BY <1>1, <2>1, GotoJob DEF SetActive
  <2>3. active' \in Ids \cup {NoId}
    BY <1>1 DEF SetActive, IInv, TypeOK, Jobs
  <2>. QED
    BY <1>1, <2>2, <2>3 DEF SetActive, IInv, TypeOK, ListInv, FileInv, FileOK
<1>2. CASE Probe(h)
  <2>1. Leave(h) \/ \E s \in {"select", "start", "reload"} : Goto(h, s)
    BY <1>2 DEF Probe
  <2>2. {"select", "start", "reload"} \subseteq Plain
    BY DEF Plain, Steps
  <2>3. UNCHANGED <<diskVars, singboxVars, historyVars>>
    BY <1>2 DEF Probe
  <2>. QED  BY <2>1, <2>2, <2>3, LeaveJob, GotoJob, OnlyJobs
<1>3. CASE Select(h)
  <2>1. job' \in [Handlers -> Jobs] /\ JobsInv'
    BY <1>3, LeaveJob DEF Select
  <2>2. selected' \in Ids \cup {NoId}
    BY <1>3 DEF Select, IInv, TypeOK, Jobs
  <2>. QED
    BY <1>3, <2>1, <2>2 DEF Select, IInv, TypeOK, ListInv, FileInv, FileOK
<1>4. CASE SelectFails(h)
  <2>1. "reload" \in Plain
    BY DEF Plain, Steps
  <2>. QED  BY <1>4, <2>1, GotoJob, OnlyJobs DEF SelectFails
<1>5. ASSUME Leave(h), UNCHANGED <<diskVars, historyVars>>,
             \/ UNCHANGED singboxVars
             \/ config.kind = "whole" /\ LoadConfig
      PROVE  IInv'
  <2>1. job' \in [Handlers -> Jobs] /\ JobsInv'
    BY <1>5, LeaveJob
  <2>2. config.kind = "whole" => config.default \in Ids
    BY DEF IInv, TypeOK, Files, NoFile, Torn
  <2>3. loaded' \in Files /\ FileOK(loaded') /\ selected' \in Ids \cup {NoId}
    BY <1>5, <2>2 DEF LoadConfig, IInv, TypeOK, FileInv
  <2>. QED
    BY <1>5, <2>1, <2>3 DEF IInv, TypeOK, ListInv, FileInv, FileOK
<1>6. CASE Reload(h) \/ NoReload(h) \/ Start(h) \/ Abort(h)
  BY <1>5, <1>6 DEF Reload, NoReload, Start, Abort
<1>. QED  BY <1>1, <1>2, <1>3, <1>4, <1>6

LEMMA CallInv ==
    ASSUME IInv, NEW h \in Handlers, NEW op \in Ops, Call(h, op)
    PROVE  IInv'
<1>1. op \in AllOps
  BY ProfilesAssumption
<1>2. PICK b \in Bodies(op), i \in Targets(op) :
        Become(h, [NoJob EXCEPT !.op = op, !.pc = Entry(op), !.id = i, !.body = b])
  BY DEF Call
<1>. DEFINE j == [NoJob EXCEPT !.op = op, !.pc = Entry(op), !.id = i, !.body = b]
<1>3. /\ i \in Ids \cup {NoId}
      /\ op \notin {"import", "rerender"} => i \in Ids
  BY <1>2 DEF Targets, IInv, TypeOK
<1>4. /\ b \in Links \cup Edits \cup {<<>>}
      /\ op = "import" => b \in Links
      /\ op = "patch" => b \in Edits
      /\ op \notin {"import", "patch"} => b = <<>>
  BY <1>2 DEF Bodies
<1>5. /\ Entry(op) \in {"add", "readActive", "list", "get"}
      /\ Entry(op) = "add" => op = "import"
      /\ Entry(op) = "get" => op \in {"patch", "activate"}
  BY <1>1 DEF Entry, AllOps
<1>6. /\ j.op = op /\ j.pc = Entry(op) /\ j.id = i /\ j.body = b
      /\ j \in Jobs
  BY <1>1, <1>3, <1>4, <1>5, NoJobOK DEF Jobs, Steps
<1>7. JobOK(j)
  <2>. HIDE DEF j
  <2>. QED  BY <1>3, <1>4, <1>5, <1>6 DEF JobOK
<1>. QED  BY <1>2, <1>6, <1>7, SetJob, OnlyJobs DEF Call

LEMMA NextIInv == IInv /\ [Next]_vars => IInv'
<1>. SUFFICES ASSUME IInv, [Next]_vars PROVE IInv'
  OBVIOUS
<1>1. ASSUME NEW h \in Handlers, Step(h) \/ Abort(h) PROVE IInv'
  BY <1>1, AddInv, GetInv, UpdateInv, DeleteInv, ListStepInv, CheckInv, OpenInv, FillInv,
     RenameInv, ReadActiveInv, CommandInv DEF Step
<1>2. ASSUME NEW h \in Handlers, NEW op \in Ops, Call(h, op) PROVE IInv'
  BY <1>2, CallInv
<1>3. CASE ServiceLoads
  <2>1. config.default \in Ids
    BY <1>3 DEF ServiceLoads, IInv, TypeOK, Files, NoFile, Torn
  <2>2. TypeOK'
    BY <1>3, <2>1 DEF ServiceLoads, LoadConfig, IInv, TypeOK, diskVars, historyVars
  <2>. QED
    BY <1>3, <2>2 DEF ServiceLoads, LoadConfig, IInv, JobsInv, ListInv, FileInv, FileOK,
                      diskVars, historyVars
<1>4. CASE ServiceStops
  BY <1>4, TornOK DEF ServiceStops, IInv, TypeOK, JobsInv, ListInv, FileInv, FileOK, diskVars,
                      historyVars
<1>5. CASE UNCHANGED vars
  BY <1>5 DEF vars, IInv, TypeOK, JobsInv, ListInv, FileInv, FileOK, diskVars, singboxVars,
              historyVars
<1>. QED  BY <1>1, <1>2, <1>3, <1>4, <1>5 DEF Next

\* The variables keep their types, with any number of requests at once.
THEOREM TypeCorrect == Spec => []TypeOK
<1>1. IInv => TypeOK
  BY DEF IInv
<1>. QED  BY <1>1, InitIInv, NextIInv, PTL DEF Spec

\* For every number of concurrent requests the list holds exactly the
\* profiles imported and not deleted, each once (internal/store).
THEOREM StoreIsExact == Spec => []StoreExact
<1>1. IInv => StoreExact
  BY IInvHolds
<1>. QED  BY <1>1, InitIInv, NextIInv, PTL DEF Spec

\* Whatever the other handlers do between a handler's steps, a complete
\* config.json has outbounds and selects one of them, on disk and in the
\* running sing-box (Render, WriteAndCheck).
THEOREM DefaultAlwaysExists == Spec => []DefaultExists
<1>1. IInv => DefaultExists
  BY IInvHolds
<1>. QED  BY <1>1, InitIInv, NextIInv, PTL DEF Spec

\* sing-box never runs data that its own check rejects (WriteAndCheck and
\* reload_service).
THEOREM OnlyCheckedRuns == Spec => []OnlyChecked
<1>1. IInv => OnlyChecked
  BY IInvHolds
<1>. QED  BY <1>1, InitIInv, NextIInv, PTL DEF Spec

-----------------------------------------------------------------------------
(* One request at a time.                                                   *)

OneAtATime == \A g, h \in Handlers : job[g].pc # "idle" /\ job[h].pc # "idle" => g = h

\* While an edit waits to be stored, the merged profile is what it should be.
EditInv ==
    /\ EditsKept
    /\ \A h \in Handlers :
          job[h].pc = "update" /\ job[h].id \in DOMAIN expected =>
            job[h].existing.data = Patched(expected[job[h].id], job[h].body)

(* Without failures, aborts or bad data: how far the configuration and the  *)
(* running sing-box are behind the list, step by step of a handler.         *)

\* config.json has the list; sing-box has the list; the active profile is
\* selected in both.
Written  == saved # <<>> => config.kind = "whole" /\ config.outbounds = saved
Carried  == Running /\ saved # <<>> => loaded.outbounds = saved
Chosen   == active # NoId => config.default = active \/ config.flag
Named    == Chosen /\ (active # NoId /\ Running =>
                          selected = active \/ (loaded.flag /\ selected = loaded.default))
Clean    == Written /\ Carried /\ Named

Rendering == {"list", "readActive", "check", "open", "fill", "rename"}
Writing   == {"check", "open", "fill", "rename"}

StageOK(j) ==
    /\ j.pc \in {"add", "get", "update", "delete", "start"} => Clean
    /\ j.pc = "readActive" /\ j.op = "delete" => Clean
    /\ j.pc \in Rendering =>
          /\ Named /\ j.op # "idle"
          /\ j.op \in {"activate", "rerender"} => Clean
          /\ j.op \in {"import", "patch"} => saved # <<>>
    /\ j.op = "activate" /\ j.pc \notin {"idle", "get"} => j.id \in IdsOf(saved)
    /\ j.pc = "delete" => j.act = active /\ j.id # active
    /\ j.pc = "delete" => j.op = "delete"
    /\ j.pc = "update" => j.op = "patch"
    /\ j.pc = "readActive" => j.op # "activate"
    /\ j.pc = "list" /\ j.op = "delete" => j.act = active
    /\ j.pc \in Writing \/ (j.pc = "readActive" /\ j.op # "delete") => j.all = saved
    /\ j.pc \in Writing =>
          /\ j.op # "activate" /\ ~Flagged(j) /\ active # NoId => j.act = active
          /\ j.op = "activate" => j.act = j.id
          /\ j.op # "rerender" => saved # <<>>
    /\ j.pc = "fill" => tmp = Torn /\ j.fd = "tmp"
    /\ j.pc \in {"fill", "rename"} => saved # <<>>
    /\ j.pc = "rename" => tmp = Render(saved, j.act, Flagged(j))
    /\ j.pc = "setActive" => /\ j.op = "activate" /\ Written /\ Carried
                             /\ saved # <<>> /\ config.default = j.id
    /\ j.pc \in {"probe", "select", "reload"} => saved # <<>> /\ Written
    /\ j.pc \in {"probe", "select"} /\ j.op = "activate" =>
          Carried /\ active = j.id /\ config.default = active
    /\ j.pc = "probe" /\ j.op # "activate" => Named /\ j.op # "rerender"
    /\ j.pc = "select" => j.op = "activate"
    /\ j.pc = "reload" => Chosen
    /\ j.pc = "reload" /\ j.op = "rerender" => Clean

StageInv ==
    /\ ActiveSaved
    /\ Quiet => Clean
    /\ \A h \in Handlers : StageOK(job[h])

\* One handler is at work: what its step does to the others.
LEMMA OthersIdle ==
    ASSUME OneAtATime, NEW h \in Handlers, job[h].pc # "idle"
    PROVE  \A g \in Handlers \ {h} : job[g].pc = "idle"
BY DEF OneAtATime

LEMMA OneStage ==
    ASSUME OneAtATime, NEW h \in Handlers, job[h].pc # "idle", NEW j, job'[h] = j,
           \A g \in Handlers \ {h} : job'[g].pc = job[g].pc,
           StageOK(j)', j.pc = "idle" => Clean', ActiveSaved'
    PROVE  OneAtATime' /\ StageInv'
<1>1. \A g \in Handlers \ {h} : job'[g].pc = "idle"
  BY OthersIdle
<1>2. OneAtATime'
  BY <1>1 DEF OneAtATime
<1>3. (Quiet => Clean)'
  BY DEF Quiet, Active
<1>4. \A g \in Handlers : StageOK(job[g])'
  BY <1>1 DEF StageOK, Rendering, Writing
<1>. QED  BY <1>2, <1>3, <1>4 DEF StageInv

LEMMA BecomeOne ==
    ASSUME IInv, NEW h \in Handlers, NEW j, Become(h, j)
    PROVE  job'[h] = j /\ \A g \in Handlers \ {h} : job'[g] = job[g]
BY DEF IInv, TypeOK, Become

\* A handler is done: what it leaves is in order.
LEMMA LeaveStage ==
    ASSUME IInv, OneAtATime, NEW h \in Handlers, job[h].pc # "idle", Leave(h),
           Clean', ActiveSaved'
    PROVE  OneAtATime' /\ StageInv'
<1>1. NoJob.pc = "idle" /\ NoJob.op = "idle"
  BY DEF NoJob
<1>2. StageOK(NoJob)'
  BY <1>1 DEF StageOK, Rendering, Writing
<1>3. job'[h] = NoJob /\ \A g \in Handlers \ {h} : job'[g] = job[g]
  BY BecomeOne DEF Leave
<1>. QED  BY <1>2, <1>3, OneStage

\* Nothing but locals changes: what the stages say of the files stays.
LEMMA Frame ==
    ASSUME UNCHANGED <<diskVars, singboxVars>>
    PROVE  /\ Clean' = Clean /\ Written' = Written /\ Carried' = Carried
           /\ Named' = Named /\ Chosen' = Chosen /\ ActiveSaved' = ActiveSaved
BY DEF Clean, Written, Carried, Named, Chosen, Running, ActiveSaved, diskVars, singboxVars

SeqInv == IInv /\ OneAtATime /\ StageInv

LEMMA AddStage ==
    ASSUME SeqInv, NEW h \in Handlers, Add(h)
    PROVE  OneAtATime' /\ StageInv'
<1>1. PICK i \in Ids \ minted :
        /\ saved' = Append(saved, [id |-> i, data |-> job[h].body])
        /\ Become(h, [job[h] EXCEPT !.id = i, !.body = <<>>, !.pc = "list"])
  BY DEF Add
<1>2. job[h] \in Jobs /\ job[h].pc = "add" /\ job[h].op = "import" /\ job[h].body \in Data
  BY ProfilesAssumption DEF Add, At, SeqInv, IInv, TypeOK, JobsInv, JobOK
<1>3. PICK j : j = [job[h] EXCEPT !.id = i, !.body = <<>>, !.pc = "list"]
  OBVIOUS
<1>4. j.pc = "list" /\ j.op = "import"
  BY <1>2, <1>3 DEF Jobs
<1>5. Clean /\ ActiveSaved
  BY <1>2 DEF SeqInv, StageInv, StageOK
<1>6. IdsOf(saved) \subseteq IdsOf(saved') /\ saved' # <<>>
  <2>1. [id |-> i, data |-> job[h].body] \in Profile /\ i \notin IdsOf(saved)
    BY <1>2 DEF Profile, SeqInv, IInv, TypeOK, ListInv
  <2>2. IdsOf(saved') = IdsOf(saved) \cup {i}
    BY <1>1, <2>1, AppendList DEF SeqInv, IInv, TypeOK, ListInv
  <2>. QED  BY <1>1, <2>2 DEF SeqInv, IInv, TypeOK
<1>7. ActiveSaved' /\ Named'
  BY <1>5, <1>6 DEF Add, ActiveSaved, Clean, Named, Chosen, Running, singboxVars
<1>8. StageOK(j)'
  BY <1>4, <1>6, <1>7 DEF StageOK, Rendering, Writing
<1>. QED
  BY <1>1, <1>2, <1>3, <1>4, <1>7, <1>8, BecomeOne, OneStage DEF SeqInv

LEMMA GetStage ==
    ASSUME SeqInv, NEW h \in Handlers, Get(h)
    PROVE  OneAtATime' /\ StageInv'
<1>1. job[h] \in Jobs /\ job[h].pc = "get" /\ JobOK(job[h])
  BY DEF Get, At, SeqInv, IInv, TypeOK, JobsInv
<1>2. Clean /\ ActiveSaved
  BY <1>1 DEF SeqInv, StageInv, StageOK
<1>3. Clean' /\ ActiveSaved' /\ Named' /\ saved' = saved
  BY <1>2, Frame DEF Get, Clean, diskVars
<1>4. CASE Leave(h)
  BY <1>1, <1>3, <1>4, LeaveStage DEF SeqInv
<1>5. CASE Goto(h, "list") /\ job[h].op = "activate" /\ job[h].id \in IdsOf(saved)
  <2>1. PICK j : j = [job[h] EXCEPT !.pc = "list"]
    OBVIOUS
  <2>2. j.pc = "list" /\ j.op = "activate" /\ j.id = job[h].id
    BY <1>1, <1>5, <2>1 DEF Jobs
  <2>3. StageOK(j)'
    BY <1>3, <1>5, <2>2 DEF StageOK, Rendering, Writing
  <2>. QED
    BY <1>1, <1>3, <1>5, <2>1, <2>2, <2>3, BecomeOne, OneStage DEF SeqInv, Goto
<1>6. CASE \E q : Become(h, [job[h] EXCEPT !.existing = q, !.pc = "update"])
                  /\ job[h].op # "activate"
  <2>1. PICK q : /\ Become(h, [job[h] EXCEPT !.existing = q, !.pc = "update"])
                 /\ job[h].op = "patch"
    BY <1>1, <1>6 DEF JobOK
  <2>2. PICK j : j = [job[h] EXCEPT !.existing = q, !.pc = "update"]
    OBVIOUS
  <2>3. j.pc = "update" /\ j.op = "patch"
    BY <1>1, <2>1, <2>2 DEF Jobs
  <2>4. StageOK(j)'
    BY <1>3, <2>3 DEF StageOK, Rendering, Writing
  <2>. QED
    BY <1>1, <1>3, <2>1, <2>2, <2>3, <2>4, BecomeOne, OneStage DEF SeqInv
<1>. QED  BY <1>4, <1>5, <1>6 DEF Get

LEMMA UpdateStage ==
    ASSUME SeqInv, NEW h \in Handlers, Update(h)
    PROVE  OneAtATime' /\ StageInv'
<1>1. job[h] \in Jobs /\ job[h].pc = "update"
  BY DEF Update, At, SeqInv, IInv, TypeOK
<1>2. Clean /\ ActiveSaved /\ job[h].op = "patch"
  BY <1>1 DEF SeqInv, StageInv, StageOK
<1>3. CASE job[h].id \notin IdsOf(saved)
  <2>1. Leave(h) /\ Clean' /\ ActiveSaved'
    BY <1>2, <1>3, Frame DEF Update, diskVars, singboxVars
  <2>. QED  BY <1>1, <2>1, LeaveStage DEF SeqInv
<1>4. CASE job[h].id \in IdsOf(saved)
  <2>. DEFINE k == IndexOf(job[h].id)
  <2>1. PICK j : j = [job[h] EXCEPT !.body = <<>>, !.existing = <<>>, !.pc = "list"]
    OBVIOUS
  <2>2. /\ saved' = [saved EXCEPT ![k] = job[h].existing]
        /\ Become(h, j)
        /\ UNCHANGED <<active, config, tmp, singboxVars, minted>>
    BY <1>4, <2>1 DEF Update
  <2>3. k \in 1..Len(saved) /\ saved[k].id = job[h].id
    BY <1>4, IndexFound DEF SeqInv, IInv, TypeOK
  <2>4. job[h].existing \in Profile /\ job[h].existing.id = job[h].id
    BY <1>1 DEF SeqInv, IInv, JobsInv, JobOK
  <2>. HIDE DEF k
  <2>5. IdsOf(saved') = IdsOf(saved) /\ Len(saved') = Len(saved)
    BY <2>2, <2>3, <2>4, ReplaceList DEF SeqInv, IInv, TypeOK
  <2>6. saved' # <<>>
    BY <2>3, <2>5
  <2>7. ActiveSaved' /\ Named'
    BY <1>2, <2>2, <2>5 DEF ActiveSaved, Clean, Named, Chosen, Running, singboxVars
  <2>8. j.pc = "list" /\ j.op = "patch"
    BY <1>1, <1>2, <2>1 DEF Jobs
  <2>9. StageOK(j)'
    BY <2>6, <2>7, <2>8 DEF StageOK, Rendering, Writing
  <2>. QED
    BY <1>1, <2>2, <2>7, <2>8, <2>9, BecomeOne, OneStage DEF SeqInv
<1>. QED  BY <1>3, <1>4

LEMMA DeleteStage ==
    ASSUME SeqInv, NEW h \in Handlers, Delete(h)
    PROVE  OneAtATime' /\ StageInv'
<1>1. job[h] \in Jobs /\ job[h].pc = "delete"
  BY DEF Delete, At, SeqInv, IInv, TypeOK
<1>2. Clean /\ ActiveSaved /\ job[h].op = "delete" /\ job[h].act = active /\ job[h].id # active
  BY <1>1 DEF SeqInv, StageInv, StageOK
<1>3. CASE job[h].id \notin IdsOf(saved)
  <2>1. Leave(h) /\ Clean' /\ ActiveSaved'
    BY <1>2, <1>3, Frame DEF Delete, diskVars, singboxVars
  <2>. QED  BY <1>1, <2>1, LeaveStage DEF SeqInv
<1>4. CASE job[h].id \in IdsOf(saved)
  <2>. DEFINE k == IndexOf(job[h].id)
  <2>1. PICK j : j = [job[h] EXCEPT !.pc = "list"]
    OBVIOUS
  <2>2. /\ saved' = SubSeq(saved, 1, k - 1) \o SubSeq(saved, k + 1, Len(saved))
        /\ Become(h, j)
        /\ UNCHANGED <<active, config, tmp, singboxVars, minted>>
    BY <1>4, <2>1 DEF Delete, Goto
  <2>3. k \in 1..Len(saved) /\ saved[k].id = job[h].id
    BY <1>4, IndexFound DEF SeqInv, IInv, TypeOK
  <2>. HIDE DEF k
  <2>4. IdsOf(saved') = IdsOf(saved) \ {job[h].id}
    BY <2>2, <2>3, RemoveList DEF SeqInv, IInv, TypeOK, ListInv
  <2>5. ActiveSaved' /\ Named'
    BY <1>2, <2>2, <2>4 DEF ActiveSaved, Clean, Named, Chosen, Running, singboxVars
  <2>6. j.pc = "list" /\ j.op = "delete" /\ j.act = job[h].act
    BY <1>1, <1>2, <2>1 DEF Jobs
  <2>7. StageOK(j)'
    BY <1>2, <2>2, <2>5, <2>6 DEF StageOK, Rendering, Writing
  <2>. QED
    BY <1>1, <2>2, <2>5, <2>6, <2>7, BecomeOne, OneStage DEF SeqInv
<1>. QED  BY <1>3, <1>4

LEMMA ListStage ==
    ASSUME SeqInv, NEW h \in Handlers, List(h)
    PROVE  OneAtATime' /\ StageInv'
<1>1. job[h] \in Jobs /\ job[h].pc = "list" /\ StageOK(job[h]) /\ ActiveSaved
  BY DEF List, At, SeqInv, IInv, TypeOK, StageInv
<1>2. /\ Named /\ job[h].op # "idle"
      /\ job[h].op \in {"activate", "rerender"} => Clean
      /\ job[h].op \in {"import", "patch"} => saved # <<>>
      /\ job[h].op = "activate" => job[h].id \in IdsOf(saved)
      /\ job[h].op = "delete" => job[h].act = active
  BY <1>1 DEF StageOK, Rendering
<1>3. UNCHANGED <<diskVars, singboxVars>> /\ saved' = saved /\ active' = active
  BY DEF List, diskVars
<1>4. Named' /\ ActiveSaved' /\ (Clean => Clean')
  BY <1>1, <1>2, <1>3, Frame
<1>5. CASE job[h].op = "activate" \/ Flagged(job[h])
  <2>1. PICK j : j = [job[h] EXCEPT !.all = saved, !.act = job[h].id, !.pc = "check"]
    OBVIOUS
  <2>2. /\ j.pc = "check" /\ j.op = job[h].op /\ j.id = job[h].id /\ j.act = job[h].id
        /\ j.all = saved
    BY <1>1, <1>5, <2>1 DEF Jobs
  <2>3. job[h].op = "activate" => saved # <<>>
    BY <1>2 DEF IdsOf
  <2>4. StageOK(j)'
    BY <1>2, <1>3, <1>4, <1>5, <2>2, <2>3 DEF StageOK, Rendering, Writing, Flagged
  <2>5. Become(h, j)
    BY <1>5, <2>1 DEF List, Flagged
  <2>. QED
    BY <1>1, <1>4, <2>2, <2>4, <2>5, BecomeOne, OneStage DEF SeqInv
<1>6. CASE job[h].op = "delete" /\ saved = <<>>
  <2>1. Leave(h)
    BY <1>6 DEF List, Flagged
  <2>2. Clean'
    BY <1>3, <1>4, <1>6 DEF Clean, Written, Carried
  <2>. QED  BY <1>1, <1>4, <2>1, <2>2, LeaveStage DEF SeqInv
<1>7. CASE job[h].op = "delete" /\ saved # <<>>
  <2>1. PICK a : a = IF job[h].act = NoId THEN saved[1].id ELSE job[h].act
    OBVIOUS
  <2>2. PICK j : j = [job[h] EXCEPT !.all = saved, !.pc = "check", !.act = a]
    OBVIOUS
  <2>3. Become(h, j)
    BY <1>7, <2>1, <2>2 DEF List, Flagged
  <2>4. /\ j.pc = "check" /\ j.op = "delete" /\ j.all = saved
        /\ active # NoId => j.act = active
    BY <1>1, <1>2, <1>7, <2>1, <2>2 DEF Jobs
  <2>5. StageOK(j)'
    BY <1>3, <1>4, <1>7, <2>4 DEF StageOK, Rendering, Writing
  <2>. QED
    BY <1>1, <1>4, <2>3, <2>4, <2>5, BecomeOne, OneStage DEF SeqInv
<1>8. CASE job[h].op \notin {"activate", "delete"} /\ ~Flagged(job[h])
  <2>1. PICK j : j = [job[h] EXCEPT !.all = saved, !.pc = "readActive"]
    OBVIOUS
  <2>2. Become(h, j)
    BY <1>8, <2>1 DEF List
  <2>3. j.pc = "readActive" /\ j.op = job[h].op /\ j.all = saved
    BY <1>1, <2>1 DEF Jobs
  <2>4. StageOK(j)'
    BY <1>2, <1>3, <1>4, <1>8, <2>3 DEF StageOK, Rendering, Writing
  <2>. QED
    BY <1>1, <1>4, <2>2, <2>3, <2>4, BecomeOne, OneStage DEF SeqInv
<1>. QED  BY <1>5, <1>6, <1>7, <1>8 DEF Flagged

LEMMA ReadActiveStage ==
    ASSUME SeqInv, ~Flaky, ~Aborts, NEW h \in Handlers, ReadActive(h)
    PROVE  OneAtATime' /\ StageInv'
<1>1. job[h] \in Jobs /\ job[h].pc = "readActive" /\ StageOK(job[h]) /\ ActiveSaved
  BY DEF ReadActive, At, SeqInv, IInv, TypeOK, StageInv
<1>2. UNCHANGED <<diskVars, singboxVars>> /\ saved' = saved /\ active' = active
  BY DEF ReadActive, diskVars
<1>3. Become(h, WithActive(h, active))
  BY DEF ReadActive, MayFail
<1>4. /\ Named /\ job[h].op \notin {"activate", "idle"}
      /\ job[h].op \in {"delete", "rerender"} => Clean
      /\ job[h].op \in {"import", "patch"} => saved # <<>>
      /\ job[h].op # "delete" => job[h].all = saved
  BY <1>1 DEF StageOK, Rendering
<1>5. Named' /\ ActiveSaved' /\ (Clean => Clean')
  BY <1>1, <1>2, <1>4, Frame
<1>6. CASE job[h].op = "delete" /\ active = job[h].id
  <2>1. Leave(h)
    BY <1>3, <1>6 DEF WithActive, Leave
  <2>. QED  BY <1>1, <1>4, <1>5, <1>6, <2>1, LeaveStage DEF SeqInv
<1>7. CASE job[h].op = "delete" /\ active # job[h].id
  <2>1. PICK j : j = [job[h] EXCEPT !.act = active, !.pc = "delete"]
    OBVIOUS
  <2>2. Become(h, j)
    BY <1>3, <1>7, <2>1 DEF WithActive
  <2>3. j.pc = "delete" /\ j.op = "delete" /\ j.act = active /\ j.id = job[h].id
    BY <1>1, <1>7, <2>1 DEF Jobs
  <2>4. StageOK(j)'
    BY <1>2, <1>4, <1>5, <1>7, <2>3 DEF StageOK, Rendering, Writing
  <2>. QED
    BY <1>1, <1>5, <2>2, <2>3, <2>4, BecomeOne, OneStage DEF SeqInv
<1>8. CASE job[h].op # "delete"
  <2>1. PICK a : a = IF job[h].op = "import" /\ active = NoId THEN job[h].id ELSE active
    OBVIOUS
  <2>2. PICK j : j = [job[h] EXCEPT !.act = a, !.pc = "check"]
    OBVIOUS
  <2>3. job[h].op = "patch" => job[h].all # <<>>
    BY <1>4, <1>8
  <2>4. Become(h, j)
    BY <1>3, <1>8, <2>1, <2>2, <2>3 DEF WithActive
  <2>5. /\ j.pc = "check" /\ j.op = job[h].op /\ j.all = saved
        /\ active # NoId => j.act = active
    BY <1>1, <1>4, <1>8, <2>1, <2>2 DEF Jobs
  <2>6. job[h].op # "rerender" => saved # <<>>
    BY <1>1, <1>4, <1>8, <2>5 DEF Jobs, AllOps
  <2>7. StageOK(j)'
    BY <1>2, <1>4, <1>5, <1>8, <2>5, <2>6 DEF StageOK, Rendering, Writing
  <2>. QED
    BY <1>1, <1>5, <2>4, <2>5, <2>7, BecomeOne, OneStage DEF SeqInv
<1>. QED  BY <1>6, <1>7, <1>8

LEMMA CheckStage ==
    ASSUME SeqInv, Bad = {}, NEW h \in Handlers, Check(h)
    PROVE  OneAtATime' /\ StageInv'
<1>1. job[h] \in Jobs /\ job[h].pc = "check" /\ StageOK(job[h]) /\ ActiveSaved
  BY DEF Check, At, SeqInv, IInv, TypeOK, StageInv
<1>2. /\ Named /\ job[h].all = saved
      /\ job[h].op = "rerender" => Clean
      /\ job[h].op # "rerender" => saved # <<>>
  BY <1>1 DEF StageOK, Rendering, Writing, Flagged
<1>3. UNCHANGED <<diskVars, singboxVars>> /\ saved' = saved /\ active' = active
  BY DEF Check, diskVars
<1>4. Named' /\ ActiveSaved' /\ (Clean => Clean')
  BY <1>1, <1>2, <1>3, Frame
<1>5. CASE saved = <<>>
  BY <1>1, <1>2, <1>4, <1>5, LeaveStage DEF Check, SeqInv
<1>6. CASE saved # <<>>
  <2>1. PICK j : j = [job[h] EXCEPT !.pc = "open"]
    OBVIOUS
  <2>2. Become(h, j)
    BY <1>2, <1>6, <2>1 DEF Check, Passes, Goto
  <2>3. /\ j.pc = "open" /\ j.op = job[h].op /\ j.id = job[h].id /\ j.act = job[h].act
        /\ j.all = saved
    BY <1>1, <1>2, <2>1 DEF Jobs
  <2>4. StageOK(j)'
    BY <1>1, <1>3, <1>4, <1>6, <2>3 DEF StageOK, Rendering, Writing, Flagged
  <2>. QED
    BY <1>1, <1>4, <2>2, <2>3, <2>4, BecomeOne, OneStage DEF SeqInv
<1>. QED  BY <1>5, <1>6

LEMMA OpenStage ==
    ASSUME SeqInv, NEW h \in Handlers, Open(h)
    PROVE  OneAtATime' /\ StageInv'
<1>1. /\ job[h] \in Jobs /\ job[h].pc = "open" /\ StageOK(job[h]) /\ ActiveSaved
      /\ job[h].all # <<>>
  BY DEF Open, At, SeqInv, IInv, TypeOK, StageInv, JobsInv, JobOK
<1>2. job[h].all = saved /\ saved # <<>>
  BY <1>1 DEF StageOK, Writing
<1>3. PICK j : j = [job[h] EXCEPT !.pc = "fill", !.fd = "tmp"]
  OBVIOUS
<1>4. /\ j.pc = "fill" /\ j.op = job[h].op /\ j.id = job[h].id /\ j.act = job[h].act
      /\ j.all = job[h].all /\ j.fd = "tmp"
  BY <1>1, <1>3 DEF Jobs
<1>5. tmp' = Torn /\ saved' = saved /\ active' = active /\ config' = config
  BY DEF Open
<1>6. ActiveSaved' = ActiveSaved /\ Clean' = Clean /\ Named' = Named
  BY <1>5 DEF Open, ActiveSaved, Clean, Written, Carried, Named, Chosen, Running, singboxVars
<1>7. StageOK(j)'
  BY <1>1, <1>2, <1>4, <1>5, <1>6 DEF StageOK, Rendering, Writing, Flagged
<1>. QED
  BY <1>1, <1>3, <1>4, <1>6, <1>7, BecomeOne, OneStage DEF SeqInv, Open

LEMMA FillStage ==
    ASSUME SeqInv, NEW h \in Handlers, Fill(h)
    PROVE  OneAtATime' /\ StageInv'
<1>1. job[h] \in Jobs /\ job[h].pc = "fill" /\ StageOK(job[h]) /\ ActiveSaved
  BY DEF Fill, At, SeqInv, IInv, TypeOK, StageInv
<1>2. job[h].all = saved /\ saved # <<>> /\ tmp = Torn /\ job[h].fd = "tmp"
  BY <1>1 DEF StageOK, Writing
<1>3. tmp' = Render(saved, job[h].act, Flagged(job[h])) /\ config' = config
  BY <1>2 DEF Fill, Outcomes, Torn
<1>4. PICK j : j = [job[h] EXCEPT !.pc = "rename"]
  OBVIOUS
<1>5. /\ j.pc = "rename" /\ j.op = job[h].op /\ j.id = job[h].id /\ j.act = job[h].act
      /\ j.all = job[h].all
  BY <1>1, <1>4 DEF Jobs
<1>6. tmp' = Render(saved', j.act, Flagged(j)) /\ saved' = saved /\ active' = active
  BY <1>3, <1>5 DEF Fill, Flagged
<1>7. ActiveSaved' = ActiveSaved /\ Clean' = Clean /\ Named' = Named
  BY <1>3, <1>6 DEF Fill, ActiveSaved, Clean, Written, Carried, Named, Chosen, Running, singboxVars
<1>8. StageOK(j)'
  BY <1>1, <1>2, <1>5, <1>6, <1>7 DEF StageOK, Rendering, Writing, Flagged
<1>. QED
  BY <1>1, <1>4, <1>5, <1>7, <1>8, BecomeOne, OneStage DEF SeqInv, Fill, Goto

LEMMA RenameStage ==
    ASSUME SeqInv, NEW h \in Handlers, Rename(h)
    PROVE  OneAtATime' /\ StageInv'
<1>1. job[h] \in Jobs /\ job[h].pc = "rename" /\ StageOK(job[h]) /\ ActiveSaved
  BY DEF Rename, At, SeqInv, IInv, TypeOK, StageInv
<1>2. /\ saved # <<>> /\ tmp = Render(saved, job[h].act, Flagged(job[h]))
      /\ Named /\ job[h].op # "idle"
      /\ job[h].op # "activate" /\ ~Flagged(job[h]) /\ active # NoId => job[h].act = active
      /\ job[h].op = "rerender" => Clean
      /\ job[h].op = "activate" => /\ job[h].act = job[h].id
                                   /\ job[h].id \in IdsOf(saved)
                                   /\ Clean
  BY <1>1 DEF StageOK, Rendering, Writing
<1>3. PICK j : j = [NoJob EXCEPT !.op = job[h].op, !.pc = AfterRename(job[h].op),
                      !.id = IF job[h].op = "activate" THEN job[h].id ELSE NoId]
  OBVIOUS
<1>4. /\ config' = tmp /\ UNCHANGED <<saved, active, singboxVars>>
      /\ job' = [g \in Handlers |->
                   IF g = h THEN j ELSE [job[g] EXCEPT !.fd = Moved(job[g].fd)]]
  BY <1>2, <1>3 DEF Rename, Render
<1>5. /\ j.op = job[h].op /\ j.pc = AfterRename(job[h].op)
      /\ j.op = "activate" => j.id = job[h].id
  BY <1>3 DEF NoJob
<1>6. job'[h] = j /\ \A g \in Handlers \ {h} : job'[g].pc = job[g].pc
  <2>1. \A g \in Handlers : [job[g] EXCEPT !.fd = Moved(job[g].fd)].pc = job[g].pc
    BY DEF SeqInv, IInv, TypeOK, Jobs
  <2>. QED  BY <1>4, <2>1
<1>7. /\ config'.kind = "whole" /\ config'.outbounds = saved
      /\ job[h].act \in IdsOf(saved) => config'.default = job[h].act
      /\ config'.flag = Flagged(job[h])
  BY <1>2, <1>4 DEF Render
<1>8. Written' /\ ActiveSaved' /\ saved' # <<>> /\ (Carried => Carried')
  BY <1>1, <1>2, <1>4, <1>7 DEF Written, ActiveSaved, Carried, Running, singboxVars
<1>9. CASE job[h].op = "activate"
  <2>1. j.pc = "setActive"
    BY <1>5, <1>9 DEF AfterRename
  <2>2. Carried
    BY <1>2, <1>9 DEF Clean
  <2>3. config'.default = j.id /\ j.id \in IdsOf(saved')
    BY <1>2, <1>4, <1>5, <1>7, <1>9
  <2>4. StageOK(j)'
    BY <1>5, <1>8, <1>9, <2>1, <2>2, <2>3 DEF StageOK, Rendering, Writing
  <2>. QED
    BY <1>1, <1>6, <1>8, <2>1, <2>4, OneStage DEF SeqInv
<1>10. CASE job[h].op # "activate"
  <2>1. j.pc \in {"probe", "reload"}
    BY <1>5, <1>10 DEF AfterRename
  <2>2. Chosen'
    BY <1>1, <1>2, <1>4, <1>7, <1>10 DEF ActiveSaved, Chosen
  <2>3. Named'
    BY <1>2, <1>4, <2>2 DEF Named, Running, singboxVars
  <2>4. job[h].op = "rerender" => Clean'
    BY <1>2, <1>8, <2>3 DEF Clean
  <2>5. StageOK(j)'
    BY <1>4, <1>5, <1>8, <1>10, <2>1, <2>2, <2>3, <2>4
       DEF StageOK, Rendering, Writing, AfterRename
  <2>. QED
    BY <1>1, <1>6, <1>8, <2>1, <2>5, OneStage DEF SeqInv
<1>. QED  BY <1>9, <1>10

LEMMA SetActiveStage ==
    ASSUME SeqInv, NEW h \in Handlers, SetActive(h)
    PROVE  OneAtATime' /\ StageInv'
<1>1. job[h] \in Jobs /\ job[h].pc = "setActive" /\ StageOK(job[h])
  BY DEF SetActive, At, SeqInv, IInv, TypeOK, StageInv
<1>2. /\ job[h].op = "activate" /\ Written /\ Carried /\ saved # <<>>
      /\ config.default = job[h].id /\ job[h].id \in IdsOf(saved)
  BY <1>1 DEF StageOK
<1>3. PICK j : j = [job[h] EXCEPT !.pc = "probe"]
  OBVIOUS
<1>4. j.pc = "probe" /\ j.op = "activate" /\ j.id = job[h].id
  BY <1>1, <1>2, <1>3 DEF Jobs
<1>5. active' = job[h].id /\ saved' = saved /\ config' = config
  BY DEF SetActive
<1>6. Written' /\ Carried' /\ ActiveSaved'
  BY <1>2, <1>5 DEF SetActive, Written, Carried, ActiveSaved, Running, singboxVars
<1>7. StageOK(j)'
  BY <1>2, <1>4, <1>5, <1>6 DEF StageOK, Rendering, Writing
<1>. QED
  BY <1>1, <1>3, <1>4, <1>6, <1>7, BecomeOne, OneStage DEF SeqInv, SetActive, Goto

LEMMA ProbeStage ==
    ASSUME SeqInv, ~Flaky, NEW h \in Handlers, Probe(h)
    PROVE  OneAtATime' /\ StageInv'
<1>1. job[h] \in Jobs /\ job[h].pc = "probe" /\ StageOK(job[h]) /\ ActiveSaved
  BY DEF Probe, At, SeqInv, IInv, TypeOK, StageInv
<1>2. /\ saved # <<>> /\ Written
      /\ job[h].op = "activate" => /\ Carried /\ active = job[h].id
                                   /\ config.default = active /\ job[h].id \in IdsOf(saved)
      /\ job[h].op # "activate" => Named
  BY <1>1 DEF StageOK
<1>3. UNCHANGED <<diskVars, singboxVars>> /\ saved' = saved /\ active' = active
  BY DEF Probe, diskVars
<1>4. /\ ActiveSaved' /\ Written' /\ Carried' = Carried /\ Named' = Named /\ Clean' = Clean
      /\ config' = config /\ Chosen' = Chosen
  BY <1>1, <1>2, <1>3, Frame DEF diskVars
<1>5. CASE job[h].op = "activate"
  <2>1. PICK j : j = [job[h] EXCEPT !.pc = IF Running THEN "select" ELSE "start"]
    OBVIOUS
  <2>2. Become(h, j)
    BY <1>5, <2>1 DEF Probe, Goto
  <2>3. /\ j.pc = IF Running THEN "select" ELSE "start"
        /\ j.op = "activate" /\ j.id = job[h].id
    BY <1>1, <1>5, <2>1 DEF Jobs
  <2>4. ~Running => Clean
    BY <1>2, <1>5 DEF Clean, Named, Chosen
  <2>5. StageOK(j)'
    BY <1>2, <1>3, <1>4, <1>5, <2>3, <2>4 DEF StageOK, Rendering, Writing
  <2>. QED
    BY <1>1, <1>4, <2>2, <2>3, <2>5, BecomeOne, OneStage DEF SeqInv
<1>6. CASE job[h].op # "activate" /\ Running
  <2>1. PICK j : j = [job[h] EXCEPT !.pc = "reload"]
    OBVIOUS
  <2>2. Become(h, j)
    BY <1>6, <2>1 DEF Probe, Goto
  <2>3. j.pc = "reload" /\ j.op = job[h].op
    BY <1>1, <2>1 DEF Jobs
  <2>4. Chosen /\ (job[h].op = "rerender" => Clean)
    BY <1>1, <1>2, <1>6 DEF Named, StageOK
  <2>5. StageOK(j)'
    BY <1>2, <1>3, <1>4, <1>6, <2>3, <2>4 DEF StageOK, Rendering, Writing
  <2>. QED
    BY <1>1, <1>4, <2>2, <2>3, <2>5, BecomeOne, OneStage DEF SeqInv
<1>7. CASE job[h].op # "activate" /\ ~Running
  <2>1. Leave(h)
    BY <1>7 DEF Probe
  <2>2. Clean
    BY <1>2, <1>7 DEF Clean, Carried
  <2>. QED  BY <1>1, <1>4, <2>1, <2>2, LeaveStage DEF SeqInv
<1>. QED  BY <1>5, <1>6, <1>7

LEMMA SelectStage ==
    ASSUME SeqInv, NEW h \in Handlers, Select(h)
    PROVE  OneAtATime' /\ StageInv'
<1>1. job[h].pc = "select" /\ StageOK(job[h]) /\ ActiveSaved
  BY DEF Select, At, SeqInv, StageInv
<1>2. Written /\ Carried /\ active = job[h].id /\ config.default = active
  BY <1>1 DEF StageOK
<1>3. Clean' /\ ActiveSaved'
  BY <1>1, <1>2 DEF Select, Clean, Written, Carried, Named, Chosen, Running, ActiveSaved, diskVars
<1>. QED  BY <1>1, <1>3, LeaveStage DEF SeqInv, Select

LEMMA SelectFailsStage ==
    ASSUME SeqInv, NEW h \in Handlers, SelectFails(h)
    PROVE  OneAtATime' /\ StageInv'
<1>1. job[h] \in Jobs /\ job[h].pc = "select" /\ StageOK(job[h]) /\ ActiveSaved
  BY DEF SelectFails, At, SeqInv, IInv, TypeOK, StageInv
<1>2. /\ saved # <<>> /\ Written /\ active = job[h].id /\ config.default = active
      /\ job[h].op = "activate" /\ job[h].id \in IdsOf(saved)
  BY <1>1 DEF StageOK
<1>3. /\ Written' /\ ActiveSaved' /\ saved' = saved /\ active' = active /\ config' = config
  BY <1>1, <1>2, Frame DEF SelectFails, diskVars
<1>4. PICK j : j = [job[h] EXCEPT !.pc = "reload"]
  OBVIOUS
<1>5. j.pc = "reload" /\ j.op = "activate" /\ j.id = job[h].id
  BY <1>1, <1>2, <1>4 DEF Jobs
<1>6. StageOK(j)'
  BY <1>2, <1>3, <1>5 DEF StageOK, Rendering, Writing, Chosen
<1>. QED
  BY <1>1, <1>3, <1>4, <1>5, <1>6, BecomeOne, OneStage DEF SeqInv, SelectFails, Goto

\* sing-box has read what is on disk.
LEMMA Loaded ==
    ASSUME LoadConfig, Written, Chosen,
           UNCHANGED <<saved, active, config>>
    PROVE  Clean'
BY DEF LoadConfig, Clean, Written, Carried, Named, Chosen

LEMMA ReloadStage ==
    ASSUME SeqInv, NEW h \in Handlers, Reload(h)
    PROVE  OneAtATime' /\ StageInv'
<1>1. job[h].pc = "reload" /\ StageOK(job[h]) /\ ActiveSaved
  BY DEF Reload, At, SeqInv, StageInv
<1>2. saved # <<>> /\ Written /\ Chosen
  BY <1>1 DEF StageOK
<1>3. LoadConfig
  BY <1>2 DEF Reload, Written
<1>4. Clean' /\ ActiveSaved'
  BY <1>1, <1>2, <1>3, Loaded DEF Reload, ActiveSaved, diskVars
<1>. QED  BY <1>1, <1>4, LeaveStage DEF SeqInv, Reload

LEMMA NoReloadStage ==
    ASSUME SeqInv, NEW h \in Handlers, NoReload(h)
    PROVE  OneAtATime' /\ StageInv'
<1>1. job[h].pc = "reload" /\ job[h].op = "rerender" /\ StageOK(job[h]) /\ ActiveSaved
  BY DEF NoReload, At, SeqInv, StageInv
<1>2. Clean
  BY <1>1 DEF StageOK
<1>3. Clean' /\ ActiveSaved'
  BY <1>1, <1>2, Frame DEF NoReload
<1>. QED  BY <1>1, <1>3, LeaveStage DEF SeqInv, NoReload

LEMMA StartStage ==
    ASSUME SeqInv, NEW h \in Handlers, Start(h)
    PROVE  OneAtATime' /\ StageInv'
<1>1. job[h].pc = "start" /\ StageOK(job[h]) /\ ActiveSaved
  BY DEF Start, At, SeqInv, StageInv
<1>2. Clean
  BY <1>1 DEF StageOK
<1>3. ActiveSaved'
  BY <1>1 DEF Start, ActiveSaved, diskVars
<1>4. CASE LoadConfig
  BY <1>1, <1>2, <1>3, <1>4, Loaded, LeaveStage DEF SeqInv, Start, Clean, Named, diskVars
<1>5. CASE UNCHANGED singboxVars
  BY <1>1, <1>2, <1>3, <1>5, Frame, LeaveStage DEF SeqInv, Start
<1>. QED  BY <1>4, <1>5 DEF Start

\* With a limit of one request none is served when another begins.
LEMMA NoneServed ==
    ASSUME IsFiniteSet(Handlers), Concurrency = 1, Cardinality(Active) < Concurrency
    PROVE  \A g \in Handlers : job[g].pc = "idle"
<1>1. IsFiniteSet(Active) /\ Cardinality(Active) \in Nat
  BY FS_Subset, FS_CardinalityType DEF Active
<1>2. Active = {}
  BY <1>1, FS_EmptySet
<1>. QED  BY <1>2 DEF Active

LEMMA CallStage ==
    ASSUME SeqInv, IsFiniteSet(Handlers), Concurrency = 1,
           NEW h \in Handlers, NEW op \in Ops, Call(h, op)
    PROVE  OneAtATime' /\ StageInv'
<1>1. \A g \in Handlers : job[g].pc = "idle"
  BY NoneServed DEF Call
<1>2. Clean /\ ActiveSaved
  BY <1>1 DEF SeqInv, StageInv, Quiet, Active
<1>3. Clean' /\ ActiveSaved' /\ Named' /\ saved' = saved
  BY <1>2, Frame DEF Call, Clean, diskVars
<1>4. PICK b, i : Become(h, [NoJob EXCEPT !.op = op, !.pc = Entry(op), !.id = i, !.body = b])
  BY DEF Call
<1>5. PICK j : j = [NoJob EXCEPT !.op = op, !.pc = Entry(op), !.id = i, !.body = b]
  OBVIOUS
<1>6. j.op = op /\ j.pc = Entry(op)
  BY <1>5 DEF NoJob
<1>7. op \in AllOps
  BY ProfilesAssumption
<1>8. \/ op = "import" /\ j.pc = "add"
      \/ op = "delete" /\ j.pc = "readActive"
      \/ op = "rerender" /\ j.pc = "list"
      \/ op \in {"patch", "activate"} /\ j.pc = "get"
  BY <1>6, <1>7 DEF Entry, AllOps
<1>9. StageOK(j)'
  BY <1>3, <1>6, <1>8 DEF StageOK, Rendering, Writing
<1>10. job'[h] = j /\ \A g \in Handlers \ {h} : job'[g].pc = "idle"
  BY <1>1, <1>4, <1>5, BecomeOne DEF SeqInv
<1>11. OneAtATime'
  BY <1>10 DEF OneAtATime
<1>12. ~Quiet'
  BY <1>8, <1>10 DEF Quiet, Active
<1>13. \A g \in Handlers : StageOK(job[g])'
  BY <1>9, <1>10 DEF StageOK, Rendering, Writing
<1>. QED  BY <1>3, <1>11, <1>12, <1>13 DEF StageInv

LEMMA ServiceStage ==
    ASSUME SeqInv, ServiceLoads \/ ServiceStops
    PROVE  OneAtATime' /\ StageInv'
<1>1. UNCHANGED <<saved, active, config, tmp>> /\ job' = job
  BY DEF ServiceLoads, ServiceStops, diskVars
<1>2. Written' = Written /\ ActiveSaved' = ActiveSaved
  BY <1>1 DEF Written, ActiveSaved
<1>3. (Named => Named') /\ Chosen' = Chosen
  BY <1>1 DEF ServiceLoads, ServiceStops, LoadConfig, Named, Chosen, Running, NoFile
<1>4. Written => Carried'
  BY <1>1 DEF ServiceLoads, ServiceStops, LoadConfig, Written, Carried, Running, NoFile
<1>5. Clean => Clean'
  BY <1>2, <1>3, <1>4 DEF Clean
<1>6. ASSUME NEW h \in Handlers PROVE StageOK(job[h])'
  <2>1. StageOK(job[h])
    BY DEF SeqInv, StageInv
  <2>. QED  BY <1>1, <1>2, <1>3, <1>4, <1>5, <2>1 DEF StageOK
<1>7. Quiet' = Quiet /\ OneAtATime'
  BY <1>1 DEF SeqInv, Quiet, Active, OneAtATime
<1>. QED  BY <1>2, <1>5, <1>6, <1>7 DEF SeqInv, StageInv

\* Without failures, aborts or data the check rejects, one request at a time:
\* the stages are an invariant.
LEMMA NextSeqInv ==
    ASSUME IsFiniteSet(Handlers), Concurrency = 1, ~Flaky, ~Aborts, Bad = {}
    PROVE  SeqInv /\ [Next]_vars => SeqInv'
<1>. SUFFICES ASSUME SeqInv, [Next]_vars PROVE SeqInv'
  OBVIOUS
<1>1. IInv'
  BY NextIInv DEF SeqInv
<1>. SUFFICES OneAtATime' /\ StageInv'
  BY <1>1 DEF SeqInv
<1>2. ASSUME NEW h \in Handlers, Step(h) PROVE OneAtATime' /\ StageInv'
  BY <1>2, AddStage, GetStage, UpdateStage, DeleteStage, ListStage, CheckStage, OpenStage,
     FillStage, RenameStage, ReadActiveStage, SetActiveStage, ProbeStage, SelectStage,
     SelectFailsStage, ReloadStage, NoReloadStage, StartStage DEF Step
<1>3. ASSUME NEW h \in Handlers, NEW op \in Ops, Call(h, op) PROVE OneAtATime' /\ StageInv'
  BY <1>3, CallStage
<1>4. CASE UNCHANGED vars
  <2>1. (Quiet => Clean)' /\ ActiveSaved'
    <3>1. Clean' = Clean /\ ActiveSaved' = ActiveSaved
      BY <1>4, Frame DEF vars
    <3>2. Quiet' = Quiet
      BY <1>4 DEF vars, Quiet, Active
    <3>. QED  BY <3>1, <3>2 DEF SeqInv, StageInv
  <2>2. OneAtATime'
    BY <1>4 DEF vars, OneAtATime, SeqInv
  <2>3. ASSUME NEW h \in Handlers PROVE StageOK(job[h])'
    <3>1. StageOK(job[h])
      BY DEF SeqInv, StageInv
    <3>2. /\ Clean' = Clean /\ Written' = Written /\ Carried' = Carried /\ Named' = Named
          /\ Chosen' = Chosen /\ saved' = saved /\ active' = active /\ config' = config /\ tmp' = tmp
          /\ job' = job
      BY <1>4, Frame DEF vars, diskVars
    <3>. QED  BY <3>1, <3>2 DEF StageOK
  <2>. QED  BY <2>1, <2>2, <2>3 DEF StageInv
<1>5. ASSUME NEW h \in Handlers, Abort(h) PROVE FALSE
  BY <1>5 DEF Abort
<1>6. CASE ServiceLoads \/ ServiceStops
  BY <1>6, ServiceStage
<1>. QED  BY <1>2, <1>3, <1>4, <1>5, <1>6 DEF Next

LEMMA InitSeqInv == Init => SeqInv
<1>. SUFFICES ASSUME Init PROVE SeqInv
  OBVIOUS
<1>1. \A h \in Handlers : job[h].pc = "idle" /\ job[h].op = "idle"
  BY DEF Init, NoJob
<1>2. OneAtATime
  BY <1>1 DEF OneAtATime
<1>3. Clean /\ ActiveSaved
  BY DEF Init, Clean, Written, Carried, Named, Chosen, Running, ActiveSaved
<1>4. StageInv
  BY <1>1, <1>3 DEF StageInv, StageOK, Rendering, Writing
<1>. QED  BY <1>2, <1>4, InitIInv DEF SeqInv

\* One request at a time and no failure: between requests the running sing-box
\* has exactly the saved profiles with their current data, in their order.
THEOREM TunnelIsCurrent ==
    ASSUME IsFiniteSet(Handlers), Concurrency = 1, ~Flaky, ~Aborts, Bad = {}
    PROVE  Spec => []TunnelCurrent
<1>1. SeqInv => TunnelCurrent
  BY DEF SeqInv, StageInv, Clean, Carried, TunnelCurrent
<1>. QED  BY <1>1, InitSeqInv, NextSeqInv, PTL DEF Spec

\* Under the same conditions the active profile is always saved, and between
\* requests it is the default of config.json and carries the traffic, except
\* where panel-rerender -active chose the default of that file.
THEOREM ActiveIsSelected ==
    ASSUME IsFiniteSet(Handlers), Concurrency = 1, ~Flaky, ~Aborts, Bad = {}
    PROVE  Spec => []ActiveSelected
<1>1. SeqInv => ActiveSelected
  BY DEF SeqInv, StageInv, Clean, Named, Chosen, ActiveSelected
<1>. QED  BY <1>1, InitSeqInv, NextSeqInv, PTL DEF Spec

-----------------------------------------------------------------------------
(* One request at a time, whatever fails: edits are kept.                   *)

\* A step is the step of the one handler at work; the others stay idle.
LEMMA StepOne ==
    ASSUME IInv, OneAtATime, NEW h \in Handlers, Step(h) \/ Abort(h)
    PROVE  OneAtATime' /\ \A g \in Handlers \ {h} : job'[g].pc = "idle"
<1>1. job[h].pc # "idle"
  BY DEF Step, Abort, At, Add, Get, Update, Delete, List, Check, Open, Fill, Rename, ReadActive,
         SetActive, Probe, Select, SelectFails, Reload, NoReload, Start
<1>2. \A g \in Handlers \ {h} : job'[g].pc = job[g].pc
  <2>1. CASE Rename(h)
    <3>1. \A g \in Handlers : [job[g] EXCEPT !.fd = Moved(job[g].fd)].pc = job[g].pc
      BY DEF IInv, TypeOK, Jobs
    <3>2. CASE Leave(h)
      BY <3>2, BecomeOne DEF Leave
    <3>3. CASE ~Leave(h)
      <4>1. \A g \in Handlers \ {h} : job'[g] = [job[g] EXCEPT !.fd = Moved(job[g].fd)]
        BY <2>1, <3>3 DEF Rename
      <4>. QED  BY <3>1, <4>1
    <3>. QED  BY <3>2, <3>3
  <2>2. CASE \E j : Become(h, j)
    BY <2>2, BecomeOne
  <2>3. Rename(h) \/ \E j : Become(h, j)
    BY DEF Step, Abort, Add, Get, Update, Delete, List, Check, Open, Fill, ReadActive,
           SetActive, Probe, Select, SelectFails, Reload, NoReload, Start, Leave, Goto
  <2>. QED  BY <2>1, <2>2, <2>3
<1>3. \A g \in Handlers \ {h} : job'[g].pc = "idle"
  BY <1>1, <1>2, OthersIdle
<1>. QED  BY <1>3 DEF OneAtATime

LEMMA CallOne ==
    ASSUME IInv, IsFiniteSet(Handlers), Concurrency = 1,
           NEW h \in Handlers, NEW op \in Ops, Call(h, op)
    PROVE  OneAtATime' /\ \A g \in Handlers : job'[g].pc # "update"
<1>1. \A g \in Handlers : job[g].pc = "idle"
  BY NoneServed DEF Call
<1>2. PICK b, i : Become(h, [NoJob EXCEPT !.op = op, !.pc = Entry(op), !.id = i, !.body = b])
  BY DEF Call
<1>3. PICK j : j = [NoJob EXCEPT !.op = op, !.pc = Entry(op), !.id = i, !.body = b]
  OBVIOUS
<1>4. j.pc # "update"
  BY <1>3 DEF NoJob, Entry
<1>5. job'[h] = j /\ \A g \in Handlers \ {h} : job'[g].pc = "idle"
  BY <1>1, <1>2, <1>3, BecomeOne
<1>. QED  BY <1>4, <1>5 DEF OneAtATime

EditSeq == IInv /\ OneAtATime /\ EditInv

\* A listed profile has its data on record.
LEMMA Recorded ==
    ASSUME IInv, EditInv, NEW n \in 1..Len(saved)
    PROVE  /\ saved[n] \in Profile /\ saved[n].id \in DOMAIN expected
           /\ saved[n].data = expected[saved[n].id]
BY DEF IInv, TypeOK, ListInv, IdsOf, EditInv, EditsKept

LEMMA AddEdit ==
    ASSUME EditSeq, NEW h \in Handlers, Add(h)
    PROVE  EditsKept' /\ job'[h].pc # "update"
<1>1. PICK i \in Ids \ minted :
        /\ saved' = Append(saved, [id |-> i, data |-> job[h].body])
        /\ Become(h, [job[h] EXCEPT !.id = i, !.body = <<>>, !.pc = "list"])
        /\ expected' = [x \in DOMAIN expected \cup {i} |->
                          IF x = i THEN job[h].body ELSE expected[x]]
  BY DEF Add
<1>2. job'[h].pc = "list"
  BY <1>1 DEF Become, EditSeq, IInv, TypeOK, Jobs
<1>3. PICK p : p = [id |-> i, data |-> job[h].body]
  OBVIOUS
<1>4. p.id = i /\ p.data = job[h].body /\ i \notin DOMAIN expected
  BY <1>1, <1>3 DEF EditSeq, IInv, TypeOK
<1>5. ASSUME NEW n \in DOMAIN saved' PROVE saved'[n].data = expected'[saved'[n].id]
  <2>1. saved' = Append(saved, p) /\ saved \in Seq(Profile)
    BY <1>1, <1>3 DEF EditSeq, IInv, TypeOK
  <2>2. p \in Profile
    BY <1>3, ProfilesAssumption DEF Add, At, EditSeq, IInv, TypeOK, JobsInv, JobOK, Profile
  <2>3. \/ n \in 1..Len(saved) /\ saved'[n] = saved[n]
        \/ saved'[n] = p
    BY <2>1, <2>2
  <2>4. CASE saved'[n] = p
    BY <1>1, <1>4, <2>4
  <2>5. CASE n \in 1..Len(saved) /\ saved'[n] = saved[n]
    <3>1. saved[n].id \in DOMAIN expected /\ saved[n].data = expected[saved[n].id]
      BY <2>5, Recorded DEF EditSeq
    <3>. QED  BY <1>1, <1>4, <2>5, <3>1
  <2>. QED  BY <2>3, <2>4, <2>5
<1>. QED  BY <1>2, <1>5 DEF EditsKept

LEMMA GetEdit ==
    ASSUME EditSeq, NEW h \in Handlers, Get(h)
    PROVE  /\ saved' = saved /\ expected' = expected
           /\ job'[h].pc = "update" /\ job'[h].id \in DOMAIN expected =>
                job'[h].existing.data = Patched(expected[job'[h].id], job'[h].body)
<1>. DEFINE p == saved[IndexOf(job[h].id)]
            q == [p EXCEPT !.data = Patched(p.data, job[h].body)]
<1>1. saved' = saved /\ expected' = expected
  BY DEF Get, diskVars, historyVars
<1>2. job[h] \in Jobs /\ job \in [Handlers -> Jobs]
  BY DEF EditSeq, IInv, TypeOK
<1>3. CASE Leave(h) \/ Goto(h, "list")
  BY <1>1, <1>2, <1>3 DEF Leave, Goto, Become, NoJob, Jobs
<1>4. CASE ~(Leave(h) \/ Goto(h, "list"))
  <2>1. /\ job[h].id \in IdsOf(saved)
        /\ Become(h, [job[h] EXCEPT !.existing = q, !.pc = "update"])
    BY <1>4 DEF Get
  <2>2. p \in Profile /\ p.id = job[h].id /\ p.data = expected[p.id]
    BY <2>1, IndexFound, Recorded DEF EditSeq, IInv, TypeOK
  <2>3. q.data = Patched(p.data, job[h].body)
    BY <2>2 DEF Profile
  <2>. HIDE DEF p, q
  <2>4. job'[h].existing = q /\ job'[h].id = job[h].id /\ job'[h].body = job[h].body
    BY <1>2, <2>1 DEF Become, Jobs
  <2>. QED  BY <1>1, <2>2, <2>3, <2>4
<1>. QED  BY <1>3, <1>4

LEMMA UpdateEdit ==
    ASSUME EditSeq, NEW h \in Handlers, Update(h)
    PROVE  EditsKept' /\ job'[h].pc # "update"
<1>1. job[h] \in Jobs /\ job \in [Handlers -> Jobs] /\ job[h].pc = "update"
  BY DEF EditSeq, IInv, TypeOK, Update, At
<1>2. CASE job[h].id \notin IdsOf(saved)
  BY <1>1, <1>2 DEF Update, EditSeq, EditInv, EditsKept, Leave, Become, NoJob
<1>3. CASE job[h].id \in IdsOf(saved)
  <2>. DEFINE i == job[h].id
              k == IndexOf(i)
  <2>1. /\ saved' = [saved EXCEPT ![k] = job[h].existing]
        /\ expected' = [expected EXCEPT ![i] = Patched(@, job[h].body)]
        /\ Become(h, [job[h] EXCEPT !.body = <<>>, !.existing = <<>>, !.pc = "list"])
    BY <1>3 DEF Update
  <2>2. /\ job[h].existing \in Profile /\ job[h].existing.id = i
        /\ i \in DOMAIN expected
        /\ job[h].existing.data = Patched(expected[i], job[h].body)
    BY <1>1, <1>3 DEF EditSeq, IInv, JobsInv, JobOK, ListInv, EditInv
  <2>3. k \in 1..Len(saved) /\ saved[k].id = i
    BY <1>3, IndexFound DEF EditSeq, IInv, TypeOK
  <2>4. expected'[i] = Patched(expected[i], job[h].body)
    BY <2>1, <2>2
  <2>. HIDE DEF k
  <2>5. ASSUME NEW n \in DOMAIN saved' PROVE saved'[n].data = expected'[saved'[n].id]
    <3>1. n \in 1..Len(saved)
      BY <2>1 DEF EditSeq, IInv, TypeOK
    <3>2. CASE n = k
      BY <2>1, <2>2, <2>4, <3>1, <3>2
    <3>3. CASE n # k
      <4>1. saved'[n] = saved[n] /\ saved[n].id # i
        BY <2>1, <2>3, <3>1, <3>3 DEF EditSeq, IInv, ListInv, Distinct
      <4>2. saved[n].id \in DOMAIN expected /\ saved[n].data = expected[saved[n].id]
        BY <3>1, Recorded DEF EditSeq
      <4>. QED  BY <2>1, <4>1, <4>2
    <3>. QED  BY <3>2, <3>3
  <2>6. job'[h].pc = "list"
    BY <1>1, <2>1 DEF Become, Jobs
  <2>. QED  BY <2>5, <2>6 DEF EditsKept
<1>. QED  BY <1>2, <1>3

LEMMA DeleteEdit ==
    ASSUME EditSeq, NEW h \in Handlers, Delete(h)
    PROVE  EditsKept' /\ job'[h].pc # "update"
<1>1. job[h] \in Jobs /\ job \in [Handlers -> Jobs] /\ saved \in Seq(Profile)
  BY DEF EditSeq, IInv, TypeOK
<1>2. CASE job[h].id \notin IdsOf(saved)
  BY <1>1, <1>2 DEF Delete, EditSeq, EditInv, EditsKept, Leave, Become, NoJob
<1>3. CASE job[h].id \in IdsOf(saved)
  <2>. DEFINE i == job[h].id
              k == IndexOf(i)
  <2>1. /\ saved' = SubSeq(saved, 1, k - 1) \o SubSeq(saved, k + 1, Len(saved))
        /\ expected' = [x \in DOMAIN expected \ {i} |-> expected[x]]
        /\ Goto(h, "list")
    BY <1>3 DEF Delete
  <2>2. k \in 1..Len(saved) /\ saved[k].id = i
    BY <1>1, <1>3, IndexFound
  <2>. HIDE DEF k
  <2>3. /\ saved' \in Seq(Profile) /\ Len(saved') = Len(saved) - 1
        /\ \A n \in 1..Len(saved') : saved'[n] = saved[IF n < k THEN n ELSE n + 1]
        /\ IdsOf(saved') = IdsOf(saved) \ {i}
    BY <1>1, <2>1, <2>2, RemoveList DEF EditSeq, IInv, ListInv
  <2>4. ASSUME NEW n \in DOMAIN saved' PROVE saved'[n].data = expected'[saved'[n].id]
    <3>1. n \in 1..Len(saved')
      BY <2>3
    <3>2. PICK m \in 1..Len(saved) : saved'[n] = saved[m]
      <4>1. (IF n < k THEN n ELSE n + 1) \in 1..Len(saved)
        BY <1>1, <2>2, <2>3, <3>1
      <4>. QED  BY <2>3, <3>1, <4>1
    <3>3. saved[m].id \in DOMAIN expected /\ saved[m].data = expected[saved[m].id]
      BY Recorded DEF EditSeq
    <3>4. saved'[n].id # i
      BY <2>3, <3>1 DEF IdsOf
    <3>. QED  BY <2>1, <3>2, <3>3, <3>4
  <2>5. job'[h].pc = "list"
    BY <1>1, <2>1 DEF Goto, Become, Jobs
  <2>. QED  BY <2>4, <2>5 DEF EditsKept
<1>. QED  BY <1>2, <1>3

\* The other steps leave the list and its record alone.
LEMMA OtherEdit ==
    ASSUME EditSeq, NEW h \in Handlers, Step(h) \/ Abort(h),
           ~Add(h), ~Get(h), ~Update(h), ~Delete(h)
    PROVE  saved' = saved /\ expected' = expected /\ job'[h].pc # "update"
<1>1. job[h] \in Jobs /\ job \in [Handlers -> Jobs]
  BY DEF EditSeq, IInv, TypeOK
<1>2. ASSUME Leave(h) PROVE job'[h].pc # "update"
  BY <1>1, <1>2 DEF Leave, Become, NoJob
<1>3. ASSUME NEW s \in Steps \ {"update"}, Goto(h, s) PROVE job'[h].pc # "update"
  BY <1>1, <1>3 DEF Goto, Become, Jobs
<1>. USE DEF diskVars, historyVars, singboxVars
<1>4. CASE List(h) \/ Open(h)
  BY <1>1, <1>2, <1>4 DEF List, Open, Become, Jobs
<1>5. CASE Check(h) \/ Fill(h) \/ SetActive(h) \/ Probe(h) \/ SelectFails(h)
  BY <1>2, <1>3, <1>5 DEF Check, Fill, SetActive, Probe, SelectFails, Steps
<1>6. CASE Select(h) \/ Reload(h) \/ NoReload(h) \/ Start(h) \/ Abort(h)
  BY <1>2, <1>6 DEF Select, Reload, NoReload, Start, Abort
<1>7. CASE Rename(h)
  <2>1. \A op : AfterRename(op) # "update"
    BY DEF AfterRename
  <2>2. \A s, i, op : [NoJob EXCEPT !.op = op, !.pc = s, !.id = i].pc = s
    BY DEF NoJob
  <2>3. saved' = saved /\ expected' = expected
    BY <1>7 DEF Rename
  <2>4. CASE tmp.kind = "none"
    BY <1>2, <1>7, <2>3, <2>4 DEF Rename
  <2>5. CASE tmp.kind # "none"
    <3>1. PICK i : job'[h] = [NoJob EXCEPT !.op = job[h].op, !.pc = AfterRename(job[h].op), !.id = i]
      BY <1>7, <2>5 DEF Rename
    <3>2. job'[h].pc = AfterRename(job[h].op)
      BY <2>2, <3>1
    <3>. QED  BY <2>1, <2>3, <3>2
  <2>. QED  BY <2>4, <2>5
<1>8. CASE ReadActive(h)
  <2>1. PICK a : Become(h, WithActive(h, a))
    BY <1>8 DEF ReadActive
  <2>2. WithActive(h, a).pc # "update"
    BY <1>1 DEF WithActive, NoJob, Jobs
  <2>3. job'[h] = WithActive(h, a)
    BY <1>1, <2>1 DEF Become
  <2>. QED  BY <1>8, <2>2, <2>3 DEF ReadActive
<1>. QED  BY <1>4, <1>5, <1>6, <1>7, <1>8 DEF Step

LEMMA NextEditSeq ==
    ASSUME IsFiniteSet(Handlers), Concurrency = 1
    PROVE  EditSeq /\ [Next]_vars => EditSeq'
<1>. SUFFICES ASSUME EditSeq, [Next]_vars PROVE EditSeq'
  OBVIOUS
<1>1. IInv'
  BY NextIInv DEF EditSeq
<1>. SUFFICES OneAtATime' /\ EditInv'
  BY <1>1 DEF EditSeq
<1>2. ASSUME saved' = saved, expected' = expected PROVE EditsKept'
  BY <1>2 DEF EditSeq, EditInv, EditsKept
<1>3. ASSUME NEW h \in Handlers, Step(h) \/ Abort(h) PROVE OneAtATime' /\ EditInv'
  <2>1. OneAtATime' /\ \A g \in Handlers \ {h} : job'[g].pc = "idle"
    BY <1>3, StepOne DEF EditSeq
  <2>2. EditsKept'
    BY <1>2, <1>3, AddEdit, GetEdit, UpdateEdit, DeleteEdit, OtherEdit
  <2>3. job'[h].pc = "update" /\ job'[h].id \in DOMAIN expected' =>
          job'[h].existing.data = Patched(expected'[job'[h].id], job'[h].body)
    BY <1>3, AddEdit, GetEdit, UpdateEdit, DeleteEdit, OtherEdit
  <2>. QED  BY <2>1, <2>2, <2>3 DEF EditInv
<1>4. ASSUME NEW h \in Handlers, NEW op \in Ops, Call(h, op) PROVE OneAtATime' /\ EditInv'
  BY <1>2, <1>4, CallOne DEF EditSeq, EditInv, Call, diskVars, historyVars
<1>5. CASE ServiceLoads \/ ServiceStops \/ UNCHANGED vars
  <2>1. saved' = saved /\ expected' = expected /\ job' = job
    BY <1>5 DEF ServiceLoads, ServiceStops, vars, diskVars, historyVars
  <2>2. OneAtATime' /\ EditInv'
    BY <1>2, <2>1 DEF EditSeq, EditInv, OneAtATime
  <2>. QED  BY <2>2
<1>. QED  BY <1>3, <1>4, <1>5 DEF Next

\* One request at a time, whatever fails or is cut off: every saved profile has
\* the fields its edits set and keeps the others (profilePatchReq).
THEOREM EditsAreKept ==
    ASSUME IsFiniteSet(Handlers), Concurrency = 1
    PROVE  Spec => []EditsKept
<1>1. Init => EditSeq
  <2>1. Init => OneAtATime /\ EditInv
    BY DEF Init, NoJob, OneAtATime, EditInv, EditsKept
  <2>. QED  BY <2>1, InitIInv DEF EditSeq
<1>2. EditSeq => EditsKept
  BY DEF EditSeq, EditInv
<1>. QED  BY <1>1, <1>2, NextEditSeq, PTL DEF Spec
=============================================================================
