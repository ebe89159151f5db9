-------------------------- MODULE SourceListProofs --------------------------
(* What holds of SourceList for every number of requests, sources and       *)
(* bodies.                                                                  *)
EXTENDS SourceList, FiniteSetTheorems, TLAPS

-----------------------------------------------------------------------------
(* The inductive invariant.                                                 *)

Request == [pc : {"idle", "load", "fetch", "prev", "reload", "open", "write", "rename"},
            op : AllOps \cup {"none"}, id : Sources \cup {None}, file : Stores,
            fd : Files \cup {0}, left : SUBSET Sources, res : Metas]

TypeInv ==
    /\ request \in [Requests -> Request]
    /\ disk \in [Files -> Stores \cup {Torn}]
    /\ main \in Files \cup {0} /\ tmp \in Files \cup {0}
    /\ body \in [Sources -> Versions]
    /\ used \subseteq Ids
    /\ truth \in Stores
    /\ seen \in [Sources -> (Versions \cup {None}) \X (Versions \cup {None})]

\* What a request's operation makes of a store.
Applied(q, file) == IF q.op \in Edits THEN Edit(q.op, q.id, file) ELSE Record(q.id, q.res, file)

\* A status says "unchanged" of a hash that the one before it equals.
Judges(m, before) == m.status = "unchanged" <=> before # None /\ before = m.hash

\* What a request knows, at each of its steps.
KnowsInv(q) ==
    /\ q.pc # "idle" => q.op \in AllOps
    /\ q.pc = "load" /\ q.op \in Edits => q.id \in Sources
    /\ q.pc \in {"fetch", "prev", "reload"} => q.op \notin Edits
    /\ q.pc \in {"prev", "reload", "open", "write", "rename"} => q.id \in Sources
    /\ q.pc \in {"write", "rename"} \/ q.fd = 0
    /\ q.pc = "prev" => \/ q.res.status = "ok" /\ q.res.hash # None
                        \/ q.res.status = "error" /\ q.res.hash = None
    /\ q.pc \in {"reload", "open", "write", "rename"} /\ q.op \notin Edits =>
          Judges(q.res, MetaOf(truth, q.id).hash)
    /\ q.pc \in {"open", "write", "rename"} => q.file = Applied(q, truth)
    /\ q.pc \in {"write", "rename"} => q.fd = tmp /\ tmp # 0
    /\ q.pc = "write" => disk[tmp] = Torn
    /\ q.pc = "rename" => disk[tmp] = q.file

OneHolds == \A q, r \in Requests : Holding(q) /\ Holding(r) => q = r

FileInv == /\ Read = truth
           /\ main # 0 => main # tmp

MetaInv == \A s \in Sources : /\ MetaOf(truth, s).hash = seen[s][2]
                              /\ Judges(MetaOf(truth, s), seen[s][1])

SeqInv == /\ TypeInv /\ OneHolds /\ FileInv /\ MetaInv
          /\ \A r \in Requests : KnowsInv(request[r])

IInv == ~overlap => SeqInv

-----------------------------------------------------------------------------
(* Stores.                                                                  *)

LEMMA FreshStore == Fresh \in Stores /\ NoMeta \in Metas
<1>1. NoMeta \in Metas
  BY DEF NoMeta, Metas
<1>2. PICK f : f = <<>>
  OBVIOUS
<1>3. f \in [{} -> BOOLEAN] /\ f \in [{} -> Metas]
  BY <1>2
<1>4. {} \in SUBSET Sources
  OBVIOUS
<1>5. /\ f \in UNION {[d -> BOOLEAN] : d \in SUBSET Sources}
      /\ f \in UNION {[d -> Metas] : d \in SUBSET Sources}
  BY <1>3, <1>4
<1>. QED  BY <1>1, <1>2, <1>5 DEF Fresh, Stores

\* A store, by its two functions.
LEMMA StoreParts ==
    ASSUME NEW file \in Stores
    PROVE  /\ file = [enabled |-> file.enabled, meta |-> file.meta]
           /\ DOMAIN file.enabled \in SUBSET Sources
           /\ file.enabled \in [DOMAIN file.enabled -> BOOLEAN]
           /\ DOMAIN file.meta \in SUBSET Sources
           /\ file.meta \in [DOMAIN file.meta -> Metas]
<1>1. /\ file = [enabled |-> file.enabled, meta |-> file.meta]
      /\ file.enabled \in UNION {[d -> BOOLEAN] : d \in SUBSET Sources}
      /\ file.meta \in UNION {[d -> Metas] : d \in SUBSET Sources}
  BY DEF Stores
<1>2. PICK d \in SUBSET Sources : file.enabled \in [d -> BOOLEAN]
  BY <1>1
<1>3. PICK e \in SUBSET Sources : file.meta \in [e -> Metas]
  BY <1>1
<1>. QED  BY <1>1, <1>2, <1>3

\* Editing the list of sources makes a store with the same metas.
LEMMA EditStore ==
    ASSUME NEW file \in Stores, NEW op \in Edits, NEW id \in Sources
    PROVE  Edit(op, id, file) \in Stores /\ Edit(op, id, file).meta = file.meta
<1>1. PICK f : f = file.enabled
  OBVIOUS
<1>2. DOMAIN f \in SUBSET Sources /\ f \in [DOMAIN f -> BOOLEAN]
  BY <1>1, StoreParts
<1>3. ASSUME NEW v \in BOOLEAN
      PROVE  /\ DOMAIN f \cup {id} \in SUBSET Sources
             /\ Put(f, id, v) \in [DOMAIN f \cup {id} -> BOOLEAN]
  BY <1>2 DEF Put
<1>5. CASE op # "delete"
  <2>1. PICK v \in BOOLEAN : Edit(op, id, file) = [file EXCEPT !.enabled = Put(f, id, v)]
    BY <1>1, <1>5 DEF Edit, Edits, Adds, Stores
  <2>2. PICK g : g = Put(f, id, v)
    OBVIOUS
  <2>3. PICK d \in SUBSET Sources : g \in [d -> BOOLEAN]
    BY <1>3, <2>2
  <2>4. Edit(op, id, file) = [file EXCEPT !.enabled = g]
    BY <2>1, <2>2
  <2>. QED  BY <2>3, <2>4 DEF Stores
<1>7. CASE op = "delete"
  <2>1. Edit(op, id, file) = [file EXCEPT !.enabled = Restrict(f, DOMAIN f \ {id})]
    BY <1>1, <1>7 DEF Edit, Stores
  <2>2. PICK g : g = Restrict(f, DOMAIN f \ {id})
    OBVIOUS
  <2>3. PICK d \in SUBSET Sources : g \in [d -> BOOLEAN]
    BY <1>2, <2>2 DEF Restrict
  <2>4. Edit(op, id, file) = [file EXCEPT !.enabled = g]
    BY <2>1, <2>2
  <2>. QED  BY <2>3, <2>4 DEF Stores
<1>. QED  BY <1>5, <1>7

LEMMA MetaType ==
    ASSUME NEW file \in Stores, NEW s
    PROVE  MetaOf(file, s) \in Metas
BY StoreParts, FreshStore DEF MetaOf

\* Recording the meta of one source leaves those of the others.
LEMMA RecordStore ==
    ASSUME NEW file \in Stores, NEW id \in Sources, NEW m \in Metas
    PROVE  /\ Record(id, m, file) \in Stores
           /\ MetaOf(Record(id, m, file), id) = m
           /\ \A s \in Sources : s # id => MetaOf(Record(id, m, file), s) = MetaOf(file, s)
<1>1. PICK f : f = file.meta
  OBVIOUS
<1>2. DOMAIN f \in SUBSET Sources /\ f \in [DOMAIN f -> Metas]
  BY <1>1, StoreParts
<1>3. PICK g : g = Put(f, id, m)
  OBVIOUS
<1>4. /\ DOMAIN g = DOMAIN f \cup {id} /\ g \in [DOMAIN g -> Metas]
      /\ g[id] = m /\ \A s \in DOMAIN f : s # id => g[s] = f[s]
  BY <1>2, <1>3 DEF Put
<1>5. Record(id, m, file) = [file EXCEPT !.meta = g]
  BY <1>1, <1>3 DEF Record, Stores
<1>6. PICK new : new = Record(id, m, file)
  OBVIOUS
<1>7. new.meta = g /\ new \in Stores
  <2>1. PICK d \in SUBSET Sources : g \in [d -> Metas]
    BY <1>2, <1>4
  <2>. QED  BY <1>5, <1>6, <2>1 DEF Stores
<1>. QED  BY <1>1, <1>4, <1>6, <1>7 DEF MetaOf

LEMMA ListedSources ==
    ASSUME NEW file \in Stores
    PROVE  AllSources(file) \subseteq Sources
BY StoreParts DEF AllSources, Sources

LEMMA AppliedStore ==
    ASSUME NEW q \in Request, q.id \in Sources, NEW file \in Stores
    PROVE  Applied(q, file) \in Stores
<1>1. q.res \in Metas
  BY DEF Request
<1>. QED  BY <1>1, EditStore, RecordStore DEF Applied

-----------------------------------------------------------------------------
(* What a step of one request has to show.                                  *)

\* The other requests know what they knew, for only a holder's knowledge is about the
\* files and the truth.
LEMMA OthersKnow ==
    ASSUME SeqInv, NEW q \in Requests, ~Holding(q), request'[q] = request[q]
    PROVE  KnowsInv(request[q])' /\ ~Holding(q)'
<1>1. PICK u \in Request : u = request[q]
  BY DEF SeqInv, TypeInv
<1>2. u.pc \notin {"reload", "open", "write", "rename"} /\ KnowsInv(u)
  BY <1>1 DEF Holding, SeqInv
<1>3. KnowsInv(u)'
  BY <1>2 DEF KnowsInv
<1>. QED  BY <1>1, <1>2, <1>3 DEF Holding

Files1 == /\ disk' \in [Files -> Stores \cup {Torn}]
          /\ main' \in Files \cup {0} /\ tmp' \in Files \cup {0}
          /\ truth' \in Stores
          /\ seen' \in [Sources -> (Versions \cup {None}) \X (Versions \cup {None})]

\* A step of the holder.
LEMMA HolderStep ==
    ASSUME SeqInv, NEW r \in Requests, Holding(r), NEW x \in Request,
           request' = [request EXCEPT ![r] = x],
           Files1, body' = body, used' = used,
           FileInv', MetaInv', KnowsInv(x)'
    PROVE  SeqInv'
<1>1. /\ request' \in [Requests -> Request] /\ request'[r] = x
      /\ \A q \in Requests : q # r => request'[q] = request[q]
  BY DEF SeqInv, TypeInv
<1>2. \A q \in Requests : q # r => ~Holding(q)
  BY DEF SeqInv, OneHolds
<1>3. \A q \in Requests : q # r => KnowsInv(request[q])' /\ ~Holding(q)'
  BY <1>1, <1>2, OthersKnow
<1>4. KnowsInv(request[r])'
  BY <1>1
<1>5. OneHolds'
  BY <1>3 DEF OneHolds
<1>6. TypeInv'
  BY <1>1 DEF SeqInv, TypeInv, Files1
<1>. QED  BY <1>3, <1>4, <1>5, <1>6 DEF SeqInv

\* A step of a request that holds nothing, and only becomes the holder if there is none.
LEMMA OtherStep ==
    ASSUME SeqInv, NEW r \in Requests, ~Holding(r), NEW x \in Request,
           request' = [request EXCEPT ![r] = x],
           UNCHANGED <<disk, main, tmp, truth, seen, body>>, used' \subseteq Ids,
           KnowsInv(x),
           x.pc \in {"reload", "open", "write", "rename"} => \A q \in Requests \ {r} : ~Holding(q)
    PROVE  SeqInv'
<1>1. /\ request' \in [Requests -> Request] /\ request'[r] = x
      /\ \A q \in Requests : q # r => request'[q] = request[q]
  BY DEF SeqInv, TypeInv
<1>2. \A q \in Requests : q # r => Holding(q)' = Holding(q)
  BY <1>1 DEF Holding
<1>3. OneHolds'
  <2>1. CASE x.pc \in {"reload", "open", "write", "rename"}
    BY <1>2, <2>1 DEF OneHolds
  <2>2. CASE x.pc \notin {"reload", "open", "write", "rename"}
    <3>1. ~Holding(r)'
      BY <1>1, <2>2 DEF Holding
    <3>. QED  BY <1>2, <3>1 DEF OneHolds, SeqInv
  <2>. QED  BY <2>1, <2>2
<1>4. \A q \in Requests : KnowsInv(request'[q])
  BY <1>1 DEF SeqInv
<1>5. \A q \in Requests : KnowsInv(request[q])'
  BY <1>4 DEF KnowsInv, Applied, MetaOf
<1>6. FileInv' /\ MetaInv'
  BY DEF SeqInv, FileInv, MetaInv, Read, MetaOf
<1>7. TypeInv'
  BY <1>1 DEF SeqInv, TypeInv
<1>. QED  BY <1>3, <1>5, <1>6, <1>7 DEF SeqInv

LEMMA RestingRequest == Resting \in Request /\ (SeqInv => KnowsInv(Resting))
<1>1. Resting \in Request
  BY FreshStore DEF Resting, Request
<1>2. /\ Resting.pc = "idle" /\ Resting.fd = 0
  BY DEF Resting
<1>3. KnowsInv(Resting)
  BY <1>2 DEF KnowsInv
<1>. QED  BY <1>1, <1>3

LEMMA ReadIsTruth ==
    ASSUME SeqInv
    PROVE  Readable /\ Read = truth /\ truth \in Stores
BY SourceAssumption DEF SeqInv, FileInv, TypeInv, Readable

-----------------------------------------------------------------------------
(* Each step preserves the invariant while no two requests hold a copy.     *)

LEMMA ArriveInv ==
    ASSUME SeqInv, NEW r \in Requests, Arrive(r)
    PROVE  SeqInv'
<1>0. used \subseteq Ids /\ Ops \subseteq AllOps
  BY SourceAssumption DEF SeqInv, TypeInv
<1>1. PICK op \in Ops :
        \E id \in CASE op \in Adds -> Ids \ used
                    [] op \in {"enable", "disable", "refresh_one"} -> Presets \cup used
                    [] op = "delete" -> used
                    [] OTHER -> {None} :
           /\ used' = IF op \in Adds THEN used \cup {id} ELSE used
           /\ Does(r, [Resting EXCEPT !.pc = "load", !.op = op, !.id = id])
  BY DEF Arrive
<1>2. PICK id : /\ id \in CASE op \in Adds -> Ids \ used
                    [] op \in {"enable", "disable", "refresh_one"} -> Presets \cup used
                    [] op = "delete" -> used
                    [] OTHER -> {None}
                /\ used' = IF op \in Adds THEN used \cup {id} ELSE used
                /\ Does(r, [Resting EXCEPT !.pc = "load", !.op = op, !.id = id])
  BY <1>1
<1>3. /\ op \in AllOps
      /\ op \in Edits => id \in Sources
      /\ id \in Sources \cup {None}
      /\ op \in Adds => id \in Ids
  <2>1. CASE op \in Adds
    BY <1>0, <1>2, <2>1 DEF Sources, Adds
  <2>2. CASE op \in {"enable", "disable", "refresh_one"}
    BY <1>0, <1>2, <2>2 DEF Sources, Adds
  <2>3. CASE op = "delete"
    BY <1>0, <1>2, <2>3 DEF Sources, Adds
  <2>4. CASE op \notin Adds \cup {"enable", "disable", "refresh_one", "delete"}
    BY <1>0, <1>2, <2>4 DEF Edits, Adds
  <2>. QED  BY <1>0, <2>1, <2>2, <2>3, <2>4
<1>4. used' \subseteq Ids
  BY <1>0, <1>2, <1>3
<1>5. PICK x : x = [Resting EXCEPT !.pc = "load", !.op = op, !.id = id]
  OBVIOUS
<1>6. x \in Request
  BY <1>3, <1>5, RestingRequest DEF Request
<1>7. x.pc = "load" /\ x.op = op /\ x.id = id /\ x.fd = 0
  BY <1>5 DEF Resting
<1>8. KnowsInv(x)
  BY <1>3, <1>7 DEF KnowsInv
<1>9. request' = [request EXCEPT ![r] = x] /\ ~Holding(r)
  BY <1>2, <1>5 DEF Does, Arrive, At, Holding
<1>. QED  BY <1>4, <1>6, <1>7, <1>8, <1>9, OtherStep DEF Arrive

LEMMA NotHeld ==
    ASSUME NEW r \in Requests, Overlaps(r), ~overlap'
    PROVE  \A q \in Requests \ {r} : ~Holding(q)
BY DEF Overlaps

LEMMA EndsInv ==
    ASSUME SeqInv, NEW r \in Requests, ~Holding(r), Ends(r),
           UNCHANGED <<disk, main, tmp, truth, seen, body, used>>
    PROVE  SeqInv'
<1>1. request' = [request EXCEPT ![r] = Resting] /\ Resting.pc = "idle"
  BY DEF Ends, Does, Resting
<1>. QED  BY <1>1, RestingRequest, OtherStep DEF SeqInv, TypeInv

LEMMA LoadEditInv ==
    ASSUME SeqInv, NEW r \in Requests, LoadEdit(r), ~overlap'
    PROVE  SeqInv'
<1>1. PICK u \in Request : u = request[r]
  BY DEF SeqInv, TypeInv
<1>2. /\ u.pc = "load" /\ u.op \in Edits /\ ~Holding(r) /\ KnowsInv(u)
      /\ UNCHANGED <<disk, main, tmp, truth, seen, body, used>>
  BY <1>1 DEF LoadEdit, At, Holding, SeqInv
<1>3. u.id \in Sources /\ u.fd = 0
  BY <1>2 DEF KnowsInv
<1>4. CASE Readable /\ Allowed(u.op, u.id, Read)
  <2>1. PICK f : f = Edit(u.op, u.id, truth)
    OBVIOUS
  <2>2. f \in Stores
    BY <1>2, <1>3, <2>1, EditStore, ReadIsTruth
  <2>3. PICK x : x = [u EXCEPT !.pc = "open", !.file = f]
    OBVIOUS
  <2>4. x \in Request
    BY <2>2, <2>3 DEF Request
  <2>5. x.pc = "open" /\ x.file = f /\ x.op = u.op /\ x.id = u.id /\ x.fd = u.fd
    BY <2>3 DEF Request
  <2>6. request' = [request EXCEPT ![r] = x] /\ Overlaps(r)
    BY <1>1, <1>4, <2>1, <2>3, ReadIsTruth DEF LoadEdit, Does
  <2>7. x.file = Applied(x, truth)
    BY <1>2, <2>1, <2>5 DEF Applied
  <2>8. KnowsInv(x)
    <3>1. x.op \in AllOps
      BY <1>2, <2>5 DEF Edits, Adds, AllOps
    <3>. QED  BY <1>2, <1>3, <2>5, <2>7, <3>1 DEF KnowsInv
  <2>. QED  BY <1>2, <2>4, <2>6, <2>8, NotHeld, OtherStep DEF SeqInv, TypeInv
<1>5. CASE ~(Readable /\ Allowed(u.op, u.id, Read))
  <2>1. Ends(r)
    BY <1>1, <1>5 DEF LoadEdit
  <2>. QED  BY <1>2, <2>1, EndsInv
<1>. QED  BY <1>4, <1>5

LEMMA LoadListInv ==
    ASSUME SeqInv, NEW r \in Requests, LoadList(r)
    PROVE  SeqInv'
<1>1. PICK u \in Request : u = request[r]
  BY DEF SeqInv, TypeInv
<1>2. /\ u.pc = "load" /\ u.op \notin Edits /\ ~Holding(r) /\ KnowsInv(u)
      /\ UNCHANGED <<disk, main, tmp, truth, seen, body, used>>
  BY <1>1 DEF LoadList, At, Holding, SeqInv
<1>3. u.op \in AllOps /\ u.fd = 0
  BY <1>2 DEF KnowsInv
<1>4. CASE Readable /\ Picked(u.op, u.id, Read) # {}
  <2>1. PICK l : l = Picked(u.op, u.id, truth)
    OBVIOUS
  <2>2. l \in SUBSET Sources
    <3>1. AllSources(truth) \subseteq Sources
      BY ReadIsTruth, ListedSources
    <3>2. u.op \in {"refresh", "refresh_one", "scan"}
      BY <1>2, <1>3 DEF AllOps, Edits, Adds
    <3>. QED  BY <2>1, <3>1, <3>2 DEF Picked
  <2>3. PICK x : x = [u EXCEPT !.pc = "fetch", !.left = l]
    OBVIOUS
  <2>4. x \in Request
    BY <2>2, <2>3 DEF Request
  <2>5. x.pc = "fetch" /\ x.op = u.op /\ x.id = u.id /\ x.fd = u.fd
    BY <2>3 DEF Request
  <2>6. request' = [request EXCEPT ![r] = x]
    BY <1>1, <1>4, <2>1, <2>3, ReadIsTruth DEF LoadList, Does
  <2>7. KnowsInv(x)
    BY <1>2, <1>3, <2>5 DEF KnowsInv
  <2>. QED  BY <1>2, <2>4, <2>5, <2>6, <2>7, OtherStep DEF SeqInv, TypeInv
<1>5. CASE ~(Readable /\ Picked(u.op, u.id, Read) # {})
  <2>1. Ends(r)
    BY <1>1, <1>5 DEF LoadList
  <2>. QED  BY <1>2, <2>1, EndsInv
<1>. QED  BY <1>4, <1>5

LEMMA FetchInv ==
    ASSUME SeqInv, NEW r \in Requests, Fetch(r)
    PROVE  SeqInv'
<1>1. PICK u \in Request : u = request[r]
  BY DEF SeqInv, TypeInv
<1>2. /\ u.pc = "fetch" /\ ~Holding(r) /\ KnowsInv(u)
      /\ UNCHANGED <<disk, main, tmp, truth, seen, body, used>>
  BY <1>1 DEF Fetch, At, Holding, SeqInv
<1>3. u.op \in AllOps /\ u.op \notin Edits /\ u.fd = 0
  BY <1>2 DEF KnowsInv
<1>4. PICK s \in u.left : \E m \in {[status |-> "ok", hash |-> body[s]],
                                  [status |-> "error", hash |-> None]} :
         Does(r, [u EXCEPT !.pc = "prev", !.id = s, !.left = @ \ {s}, !.res = m])
  BY <1>1 DEF Fetch
<1>5. s \in Sources /\ u.left \in SUBSET Sources
  BY DEF Request
<1>6. body[s] \in Versions /\ body[s] # None
  BY <1>5, SourceAssumption DEF SeqInv, TypeInv
<1>7. PICK m \in Metas :
         /\ \/ m.status = "ok" /\ m.hash # None
            \/ m.status = "error" /\ m.hash = None
         /\ Does(r, [u EXCEPT !.pc = "prev", !.id = s, !.left = @ \ {s}, !.res = m])
  BY <1>4, <1>6 DEF Metas
<1>8. PICK x : x = [u EXCEPT !.pc = "prev", !.id = s, !.left = @ \ {s}, !.res = m]
  OBVIOUS
<1>9. x \in Request
  BY <1>5, <1>7, <1>8 DEF Request
<1>10. x.pc = "prev" /\ x.op = u.op /\ x.id = s /\ x.fd = u.fd /\ x.res = m
  BY <1>8 DEF Request
<1>11. request' = [request EXCEPT ![r] = x]
  BY <1>7, <1>8 DEF Does
<1>12. KnowsInv(x)
  BY <1>3, <1>5, <1>7, <1>10 DEF KnowsInv
<1>. QED  BY <1>2, <1>9, <1>10, <1>11, <1>12, OtherStep DEF SeqInv, TypeInv

LEMMA CompareInv ==
    ASSUME SeqInv, NEW r \in Requests, Compare(r), ~overlap'
    PROVE  SeqInv'
<1>1. PICK u \in Request : u = request[r]
  BY DEF SeqInv, TypeInv
<1>2. /\ u.pc = "prev" /\ ~Holding(r) /\ KnowsInv(u) /\ Overlaps(r)
      /\ UNCHANGED <<disk, main, tmp, truth, seen, body, used>>
  BY <1>1 DEF Compare, At, Holding, SeqInv
<1>3. /\ u.op \in AllOps /\ u.op \notin Edits /\ u.fd = 0 /\ u.id \in Sources
      /\ \/ u.res.status = "ok" /\ u.res.hash # None
         \/ u.res.status = "error" /\ u.res.hash = None
  BY <1>2 DEF KnowsInv
<1>4. PICK p : p = MetaOf(truth, u.id)
  OBVIOUS
<1>5. PICK m : m = Compared(p, u.res)
  OBVIOUS
<1>6. m \in Metas /\ Judges(m, p.hash)
  <2>1. PICK e \in Metas : e = u.res
    BY DEF Request
  <2>2. CASE p.hash # None /\ e.status = "ok" /\ p.hash = e.hash
    <3>1. m = [e EXCEPT !.status = "unchanged"]
      BY <1>5, <2>1, <2>2 DEF Compared
    <3>2. m \in Metas /\ m.status = "unchanged" /\ m.hash = e.hash
      BY <3>1 DEF Metas
    <3>. QED  BY <2>2, <3>2 DEF Judges
  <2>3. CASE ~(p.hash # None /\ e.status = "ok" /\ p.hash = e.hash)
    <3>1. m = e
      BY <1>5, <2>1, <2>3 DEF Compared
    <3>. QED  BY <1>3, <2>1, <2>3, <3>1 DEF Judges
  <2>. QED  BY <2>2, <2>3
<1>7. PICK x : x = [u EXCEPT !.pc = "reload", !.res = m]
  OBVIOUS
<1>8. x \in Request
  BY <1>6, <1>7 DEF Request
<1>9. x.pc = "reload" /\ x.op = u.op /\ x.id = u.id /\ x.fd = u.fd /\ x.res = m
  BY <1>7 DEF Request
<1>10. request' = [request EXCEPT ![r] = x]
  BY <1>1, <1>4, <1>5, <1>7, ReadIsTruth DEF Compare, Does
<1>11. KnowsInv(x)
  BY <1>3, <1>4, <1>6, <1>9 DEF KnowsInv
<1>. QED  BY <1>2, <1>8, <1>10, <1>11, NotHeld, OtherStep DEF SeqInv, TypeInv

\* A request whose save is done or has failed: on to the next source, or it ends.
LEMMA NextRequest ==
    ASSUME NEW r \in Requests, NEW u \in Request, u = request[r], u.op \in AllOps,
           IF u.op \in Edits THEN Ends(r) ELSE NextFetch(r)
    PROVE  \E x \in Request : /\ request' = [request EXCEPT ![r] = x]
                              /\ KnowsInv(x)'
<1>1. CASE Ends(r)
  <2>1. request' = [request EXCEPT ![r] = Resting] /\ Resting.pc = "idle" /\ Resting.fd = 0
    BY <1>1 DEF Ends, Does, Resting
  <2>2. KnowsInv(Resting)'
    BY <2>1 DEF KnowsInv
  <2>. QED  BY <2>1, <2>2, RestingRequest
<1>2. CASE ~Ends(r)
  <2>1. PICK x : x = [u EXCEPT !.pc = "fetch", !.file = Fresh, !.fd = 0]
    OBVIOUS
  <2>2. request' = [request EXCEPT ![r] = x] /\ u.op \notin Edits
    BY <1>2, <2>1 DEF NextFetch, Does
  <2>3. x \in Request
    BY <2>1, FreshStore DEF Request
  <2>4. x.pc = "fetch" /\ x.op = u.op /\ x.fd = 0
    BY <2>1 DEF Request
  <2>5. KnowsInv(x)'
    BY <2>2, <2>4 DEF KnowsInv
  <2>. QED  BY <2>2, <2>3, <2>5
<1>. QED  BY <1>1, <1>2

\* The step of a holder that leaves the files alone.
LEMMA SameFiles ==
    ASSUME SeqInv, UNCHANGED <<disk, main, tmp, truth, seen>>
    PROVE  Files1 /\ FileInv' /\ MetaInv'
BY DEF SeqInv, TypeInv, Files1, FileInv, MetaInv, Read, MetaOf

LEMMA ReloadInv ==
    ASSUME SeqInv, NEW r \in Requests, Reload(r), ~overlap'
    PROVE  SeqInv'
<1>1. PICK u \in Request : u = request[r]
  BY DEF SeqInv, TypeInv
<1>2. /\ u.pc = "reload" /\ Holding(r) /\ KnowsInv(u)
      /\ UNCHANGED <<disk, main, tmp, truth, seen, body, used>>
  BY <1>1 DEF Reload, At, Holding, SeqInv
<1>3. /\ u.op \in AllOps /\ u.op \notin Edits /\ u.id \in Sources /\ u.fd = 0
      /\ Judges(u.res, MetaOf(truth, u.id).hash)
  BY <1>2 DEF KnowsInv
<1>4. PICK f : f = Record(u.id, u.res, truth)
  OBVIOUS
<1>5. f \in Stores
  <2>1. u.res \in Metas
    BY DEF Request
  <2>. QED  BY <1>3, <1>4, <2>1, RecordStore, ReadIsTruth
<1>6. PICK x : x = [u EXCEPT !.pc = "open", !.file = f]
  OBVIOUS
<1>7. x \in Request
  BY <1>5, <1>6 DEF Request
<1>8. x.pc = "open" /\ x.op = u.op /\ x.id = u.id /\ x.fd = u.fd /\ x.res = u.res /\ x.file = f
  BY <1>6 DEF Request
<1>9. request' = [request EXCEPT ![r] = x]
  BY <1>1, <1>4, <1>6, ReadIsTruth DEF Reload, Does
<1>10. x.file = Applied(x, truth)
  BY <1>3, <1>4, <1>8 DEF Applied
<1>11. KnowsInv(x)
  BY <1>3, <1>8, <1>10 DEF KnowsInv
<1>12. KnowsInv(x)'
  BY <1>2, <1>11 DEF KnowsInv, Applied, MetaOf
<1>. QED  BY <1>2, <1>7, <1>9, <1>12, SameFiles, HolderStep

\* There is always a number for a new file: no other request has a file open.
LEMMA FreeFile ==
    ASSUME SeqInv, NEW r \in Requests, Holding(r), request[r].fd = 0, tmp = 0
    PROVE  \E x \in Files : x \notin InUse
<1>1. InUse \subseteq {main, 0}
  <2>1. ASSUME NEW q \in Requests PROVE request[q].fd = 0
    <3>1. CASE q # r
      <4>1. PICK u \in Request : u = request[q]
        BY DEF SeqInv, TypeInv
      <4>2. ~Holding(q) /\ KnowsInv(u)
        BY <3>1, <4>1 DEF SeqInv, OneHolds
      <4>. QED  BY <4>1, <4>2 DEF KnowsInv, Holding
    <3>. QED  BY <3>1
  <2>. QED  BY <2>1 DEF InUse
<1>2. 1 \in Files /\ 2 \in Files
  BY SourceAssumption, FS_CardinalityType DEF Files
<1>. QED  BY <1>1, <1>2

LEMMA OpenInv ==
    ASSUME SeqInv, NEW r \in Requests, Open(r)
    PROVE  SeqInv'
<1>1. PICK u \in Request : u = request[r]
  BY DEF SeqInv, TypeInv
<1>2. /\ u.pc = "open" /\ Holding(r) /\ KnowsInv(u)
      /\ UNCHANGED <<main, truth, seen, body, used>>
  BY <1>1 DEF Open, At, Holding, SeqInv
<1>3. /\ u.op \in AllOps /\ u.id \in Sources /\ u.fd = 0
      /\ u.op \notin Edits => Judges(u.res, MetaOf(truth, u.id).hash)
      /\ u.file = Applied(u, truth)
  BY <1>2 DEF KnowsInv, Edits, Adds, AllOps
<1>. PICK f : f = IF tmp # 0 THEN tmp ELSE CHOOSE x \in Files \ InUse : TRUE
  OBVIOUS
<1>4. /\ f = IF tmp # 0 THEN tmp ELSE CHOOSE x \in Files \ InUse : TRUE
      /\ tmp' = f /\ disk' = [disk EXCEPT ![f] = Torn]
      /\ Does(r, [u EXCEPT !.pc = "write", !.fd = f])
  BY <1>1 DEF Open
<1>5. f \in Files /\ f # 0 /\ (main # 0 => f # main)
  <2>1. 0 \notin Files
    BY DEF Files
  <2>2. CASE tmp # 0
    BY <1>4, <2>1, <2>2 DEF SeqInv, TypeInv, FileInv
  <2>3. CASE tmp = 0
    <3>1. f \in Files \ InUse
      BY <1>1, <1>2, <1>3, <1>4, <2>3, FreeFile
    <3>. QED  BY <2>1, <3>1 DEF InUse
  <2>. QED  BY <2>2, <2>3
<1>6. PICK x : x = [u EXCEPT !.pc = "write", !.fd = f]
  OBVIOUS
<1>7. x \in Request
  BY <1>5, <1>6 DEF Request
<1>8. x.pc = "write" /\ x.op = u.op /\ x.id = u.id /\ x.fd = f /\ x.res = u.res /\ x.file = u.file
  BY <1>6 DEF Request
<1>9. request' = [request EXCEPT ![r] = x]
  BY <1>4, <1>6 DEF Does
<1>10. disk' \in [Files -> Stores \cup {Torn}] /\ disk'[f] = Torn
       /\ \A g \in Files : g # f => disk'[g] = disk[g]
  BY <1>4, <1>5 DEF SeqInv, TypeInv
<1>11. x.file = Applied(x, truth)
  BY <1>3, <1>8 DEF Applied
<1>12. KnowsInv(x)'
  <2>1. x.op \notin Edits => Judges(x.res, MetaOf(truth, x.id).hash)
    BY <1>3, <1>8
  <2>2. x.file = Applied(x, truth')
    BY <1>2, <1>11
  <2>3. x.op \notin Edits => Judges(x.res, MetaOf(truth', x.id).hash)
    BY <1>2, <2>1
  <2>. QED  BY <1>3, <1>4, <1>5, <1>8, <1>10, <2>2, <2>3 DEF KnowsInv
<1>13. FileInv'
  <2>1. main # 0 => main \in Files
    BY DEF SeqInv, TypeInv
  <2>2. Read' = Read
    BY <1>2, <1>5, <1>10, <2>1 DEF Read
  <2>. QED  BY <1>2, <1>4, <1>5, <2>2 DEF SeqInv, FileInv
<1>14. MetaInv'
  BY <1>2 DEF SeqInv, MetaInv, MetaOf
<1>15. Files1
  BY <1>2, <1>4, <1>5, <1>10 DEF Files1, SeqInv, TypeInv
<1>. QED  BY <1>2, <1>7, <1>9, <1>12, <1>13, <1>14, <1>15, HolderStep

LEMMA WriteInv ==
    ASSUME SeqInv, NEW r \in Requests, Write(r)
    PROVE  SeqInv'
<1>1. PICK u \in Request : u = request[r]
  BY DEF SeqInv, TypeInv
<1>2. /\ u.pc = "write" /\ Holding(r) /\ KnowsInv(u)
      /\ UNCHANGED <<main, tmp, truth, seen, body, used>>
  BY <1>1 DEF Write, At, Holding, SeqInv
<1>3. /\ u.op \in AllOps /\ u.id \in Sources /\ u.fd = tmp /\ tmp # 0 /\ disk[tmp] = Torn
      /\ u.op \notin Edits => Judges(u.res, MetaOf(truth, u.id).hash)
      /\ u.file = Applied(u, truth)
  BY <1>2 DEF KnowsInv, Edits, Adds, AllOps
<1>4. tmp \in Files /\ (main # 0 => main # tmp /\ main \in Files)
  BY <1>3 DEF SeqInv, TypeInv, FileInv
<1>5. disk' = [disk EXCEPT ![tmp] = u.file] /\ Does(r, [u EXCEPT !.pc = "rename"])
  BY <1>1, <1>3 DEF Write
<1>6. PICK x : x = [u EXCEPT !.pc = "rename"]
  OBVIOUS
<1>7. x \in Request
  BY <1>6 DEF Request
<1>8. x.pc = "rename" /\ x.op = u.op /\ x.id = u.id /\ x.fd = u.fd /\ x.res = u.res /\ x.file = u.file
  BY <1>6 DEF Request
<1>9. request' = [request EXCEPT ![r] = x]
  BY <1>5, <1>6 DEF Does
<1>10. disk' \in [Files -> Stores \cup {Torn}] /\ disk'[tmp] = u.file
       /\ \A g \in Files : g # tmp => disk'[g] = disk[g]
  <2>1. u.file \in Stores
    BY DEF Request
  <2>. QED  BY <1>4, <1>5, <2>1 DEF SeqInv, TypeInv
<1>11. x.file = Applied(x, truth)
  BY <1>3, <1>8 DEF Applied
<1>12. KnowsInv(x)'
  <2>1. x.file = Applied(x, truth')
    BY <1>2, <1>11
  <2>2. x.op \notin Edits => Judges(x.res, MetaOf(truth', x.id).hash)
    BY <1>2, <1>3, <1>8
  <2>. QED  BY <1>2, <1>3, <1>8, <1>10, <2>1, <2>2 DEF KnowsInv
<1>13. FileInv'
  <2>1. Read' = Read
    BY <1>2, <1>4, <1>10 DEF Read
  <2>. QED  BY <1>2, <2>1 DEF SeqInv, FileInv
<1>14. MetaInv'
  BY <1>2 DEF SeqInv, MetaInv, MetaOf
<1>15. Files1
  BY <1>2, <1>10 DEF Files1, SeqInv, TypeInv
<1>. QED  BY <1>2, <1>7, <1>9, <1>12, <1>13, <1>14, <1>15, HolderStep

LEMMA RenameFailsInv ==
    ASSUME SeqInv, NEW r \in Requests, RenameFails(r)
    PROVE  SeqInv'
<1>1. PICK u \in Request : u = request[r]
  BY DEF SeqInv, TypeInv
<1>2. u.pc = "rename" /\ tmp = 0 /\ KnowsInv(u)
  BY <1>1 DEF RenameFails, At, SeqInv
<1>. QED  BY <1>2 DEF KnowsInv

\* A failed write leaves at most a temporary file that does not parse.
LEMMA WriteFailsInv ==
    ASSUME SeqInv, NEW r \in Requests, WriteFails(r)
    PROVE  SeqInv'
<1>1. PICK u \in Request : u = request[r]
  BY DEF SeqInv, TypeInv
<1>2. /\ u.pc \in {"open", "write"} /\ Holding(r) /\ KnowsInv(u) /\ u.op \in AllOps
      /\ UNCHANGED <<main, tmp, truth, seen, body, used>>
      /\ IF u.op \in Edits THEN Ends(r) ELSE NextFetch(r)
  BY <1>1 DEF WriteFails, At, Holding, SeqInv, KnowsInv
<1>3. UNCHANGED disk
  <2>1. CASE u.pc = "open"
    BY <1>1, <2>1 DEF WriteFails, At
  <2>2. CASE u.pc = "write"
    <3>1. u.fd = tmp /\ tmp # 0 /\ disk[tmp] = Torn /\ tmp \in DOMAIN disk
      BY <1>2, <2>2 DEF KnowsInv, SeqInv, TypeInv
    <3>2. disk' = [disk EXCEPT ![tmp] = Torn]
      BY <1>1, <2>2, <3>1 DEF WriteFails, At
    <3>. QED  BY <3>1, <3>2 DEF SeqInv, TypeInv
  <2>. QED  BY <1>2, <2>1, <2>2
<1>4. PICK x \in Request : request' = [request EXCEPT ![r] = x] /\ KnowsInv(x)'
  BY <1>1, <1>2, NextRequest
<1>. QED  BY <1>2, <1>3, <1>4, SameFiles, HolderStep

\* The rename is the moment the change counts: the new file is what it makes of the truth.
LEMMA RenameInv ==
    ASSUME SeqInv, NEW r \in Requests, Rename(r)
    PROVE  SeqInv'
<1>1. PICK u \in Request : u = request[r]
  BY DEF SeqInv, TypeInv
<1>2. /\ u.pc = "rename" /\ Holding(r) /\ KnowsInv(u) /\ tmp # 0
      /\ UNCHANGED <<disk, body, used>> /\ main' = tmp /\ tmp' = 0
  BY <1>1 DEF Rename, At, Holding, SeqInv
<1>3. /\ u.op \in AllOps /\ u.id \in Sources /\ disk[tmp] = u.file
      /\ u.op \notin Edits => Judges(u.res, MetaOf(truth, u.id).hash)
      /\ u.file = Applied(u, truth)
  BY <1>2 DEF KnowsInv, Edits, Adds, AllOps
<1>4. truth' = Applied(u, truth) /\ truth \in Stores
  BY <1>1 DEF Rename, Applied, SeqInv, TypeInv
<1>5. truth' \in Stores
  BY <1>3, <1>4, AppliedStore
<1>6. u.res \in Metas
  BY DEF Request
<1>7. PICK x \in Request : request' = [request EXCEPT ![r] = x] /\ KnowsInv(x)'
  <2>1. IF u.op \in Edits THEN Ends(r) ELSE NextFetch(r)
    BY <1>1 DEF Rename
  <2>. QED  BY <1>1, <1>3, <2>1, NextRequest
<1>8. FileInv'
  <2>1. main' # 0 /\ Read' = disk[tmp]
    BY <1>2 DEF Read
  <2>. QED  BY <1>2, <1>3, <1>4, <2>1 DEF FileInv
<1>9. MetaInv' /\ seen' \in [Sources -> (Versions \cup {None}) \X (Versions \cup {None})]
  <2>1. CASE u.op \in Edits
    <3>1. seen' = seen /\ truth' = Edit(u.op, u.id, truth)
      BY <1>1, <1>4, <2>1 DEF Rename, Applied
    <3>2. truth'.meta = truth.meta
      BY <1>3, <1>4, <2>1, <3>1, EditStore
    <3>3. \A s \in Sources : MetaOf(truth', s) = MetaOf(truth, s)
      BY <3>2 DEF MetaOf
    <3>. QED  BY <3>1, <3>3 DEF SeqInv, TypeInv, MetaInv
  <2>2. CASE u.op \notin Edits
    <3>1. seen' = [seen EXCEPT ![u.id] = <<@[2], u.res.hash>>]
          /\ truth' = Record(u.id, u.res, truth)
      BY <1>1, <1>4, <2>2 DEF Rename, Applied
    <3>2. /\ MetaOf(truth', u.id) = u.res
          /\ \A s \in Sources : s # u.id => MetaOf(truth', s) = MetaOf(truth, s)
      BY <1>3, <1>4, <1>6, <3>1, RecordStore
    <3>3. PICK v \in Versions \cup {None}, w \in Versions \cup {None} :
             v = seen[u.id][2] /\ w = u.res.hash
      BY <1>3, <1>6 DEF Metas, SeqInv, TypeInv
    <3>4. PICK z : z = <<v, w>>
      OBVIOUS
    <3>5. /\ seen' = [seen EXCEPT ![u.id] = z]
          /\ z \in (Versions \cup {None}) \X (Versions \cup {None}) /\ z[1] = v /\ z[2] = w
      BY <1>3, <3>1, <3>3, <3>4 DEF SeqInv, TypeInv
    <3>6. /\ seen' \in [Sources -> (Versions \cup {None}) \X (Versions \cup {None})]
          /\ seen'[u.id] = z /\ \A s \in Sources : s # u.id => seen'[s] = seen[s]
      BY <1>3, <3>5 DEF SeqInv, TypeInv
    <3>7. MetaOf(truth, u.id).hash = v
      BY <1>3, <3>3 DEF SeqInv, MetaInv
    <3>8. MetaOf(truth', u.id).hash = z[2] /\ Judges(MetaOf(truth', u.id), z[1])
      BY <1>3, <2>2, <3>2, <3>3, <3>5, <3>7
    <3>9. \A s \in Sources : s # u.id =>
            MetaOf(truth', s).hash = seen'[s][2] /\ Judges(MetaOf(truth', s), seen'[s][1])
      BY <3>2, <3>6 DEF SeqInv, MetaInv
    <3>10. \A s \in Sources :
            MetaOf(truth', s).hash = seen'[s][2] /\ Judges(MetaOf(truth', s), seen'[s][1])
      BY <3>6, <3>8, <3>9
    <3>. QED  BY <3>6, <3>10 DEF MetaInv
  <2>. QED  BY <2>1, <2>2
<1>10. Files1
  BY <1>2, <1>5, <1>9 DEF Files1, SeqInv, TypeInv
<1>. QED  BY <1>2, <1>7, <1>8, <1>9, <1>10, HolderStep

\* A crash takes the requests with it, and no file.
LEMMA CrashInv ==
    ASSUME SeqInv, Crash
    PROVE  SeqInv'
<1>1. /\ request' = [r \in Requests |-> Resting]
      /\ UNCHANGED <<disk, main, tmp, truth, seen, body, used>>
  BY DEF Crash
<1>2. Resting \in Request /\ KnowsInv(Resting) /\ Resting.pc = "idle"
  BY RestingRequest DEF Resting
<1>3. TypeInv'
  BY <1>1, <1>2 DEF SeqInv, TypeInv
<1>4. OneHolds'
  BY <1>1, <1>2 DEF OneHolds, Holding
<1>5. \A r \in Requests : KnowsInv(request'[r])
  BY <1>1, <1>2
<1>6. \A r \in Requests : KnowsInv(request[r])'
  BY <1>1, <1>5 DEF KnowsInv, Applied, MetaOf
<1>. QED  BY <1>1, <1>3, <1>4, <1>6, SameFiles DEF SeqInv

LEMMA UnmovedInv ==
    ASSUME SeqInv, UNCHANGED <<request, disk, main, tmp, truth, seen, used>>,
           body' \in [Sources -> Versions]
    PROVE  SeqInv'
<1>1. \A r \in Requests : KnowsInv(request'[r])
  BY DEF SeqInv
<1>2. \A r \in Requests : KnowsInv(request[r])'
  BY <1>1 DEF KnowsInv, Applied, MetaOf
<1>3. OneHolds' /\ TypeInv'
  BY DEF SeqInv, OneHolds, Holding, TypeInv
<1>. QED  BY <1>2, <1>3, SameFiles DEF SeqInv

LEMMA InitInv == Init => IInv
<1>. SUFFICES ASSUME Init PROVE SeqInv
  BY DEF IInv
<1>1. Resting \in Request /\ Fresh \in Stores /\ Resting.pc = "idle" /\ Resting.fd = 0
  BY FreshStore, RestingRequest DEF Resting
<1>2. TypeInv
  BY <1>1 DEF Init, TypeInv
<1>3. OneHolds
  BY <1>1 DEF Init, OneHolds, Holding
<1>4. FileInv
  BY DEF Init, FileInv, Read
<1>5. MetaInv
  <2>1. DOMAIN Fresh.meta = {}
    <3>1. PICK f : f = <<>>
      OBVIOUS
    <3>2. DOMAIN f = {}
      BY <3>1
    <3>. QED  BY <3>1, <3>2 DEF Fresh
  <2>2. \A s \in Sources : MetaOf(truth, s) = NoMeta
    BY <2>1 DEF Init, MetaOf
  <2>. QED  BY <2>2 DEF Init, MetaInv, NoMeta, Judges
<1>6. \A r \in Requests : KnowsInv(request[r])
  BY <1>1 DEF Init, KnowsInv
<1>. QED  BY <1>2, <1>3, <1>4, <1>5, <1>6 DEF SeqInv

LEMMA NextInv == IInv /\ [Next]_vars => IInv'
<1>. SUFFICES ASSUME IInv, [Next]_vars, ~overlap' PROVE SeqInv'
  BY DEF IInv
<1>1. ~overlap
  BY DEF Next, vars, Serve, Arrive, LoadEdit, LoadList, Fetch, Compare, Reload, Open, Write,
         WriteFails, Rename, RenameFails, Change, Crash, Overlaps
<1>2. SeqInv
  BY <1>1 DEF IInv
<1>3. CASE UNCHANGED vars
  BY <1>2, <1>3, UnmovedInv DEF vars, SeqInv, TypeInv
<1>4. ASSUME NEW r \in Requests, Arrive(r) \/ Serve(r)
      PROVE  SeqInv'
  BY <1>2, <1>4, ArriveInv, LoadEditInv, LoadListInv, FetchInv, CompareInv, ReloadInv, OpenInv,
     WriteInv, WriteFailsInv, RenameInv, RenameFailsInv DEF Serve
<1>5. CASE Change
  <2>1. body' \in [Sources -> Versions]
    BY <1>2, <1>5 DEF Change, SeqInv, TypeInv
  <2>. QED  BY <1>2, <1>5, <2>1, UnmovedInv DEF Change
<1>6. CASE Crash
  BY <1>2, <1>6, CrashInv
<1>. QED  BY <1>3, <1>4, <1>5, <1>6 DEF Next

\* The invariant holds in every run (http/sources.go) until two requests hold copies at once.
THEOREM InvAlways == Spec => []IInv
<1>. QED  BY InitInv, NextInv, PTL DEF Spec

-----------------------------------------------------------------------------
\* As long as no two requests have held copies of sources.json at once, it parses and
\* holds exactly what the answered requests add up to, though the panel may die
\* between any two steps of a save and leave the temporary file behind in any state.
THEOREM StoreIsKept == Spec => []StoreKept
<1>1. IInv => StoreKept
  BY ReadIsTruth DEF IInv, StoreKept
<1>. QED  BY <1>1, InvAlways, PTL

\* And a source is shown as unchanged exactly when its last two recorded fetches
\* succeeded with the same body, whatever other requests did during the fetches.
THEOREM UnchangedIsTrue == Spec => []UnchangedTrue
<1>1. IInv => UnchangedTrue
  <2>. SUFFICES ASSUME IInv, ~overlap PROVE \A s \in Sources :
         MetaOf(Read, s).status = "unchanged" <=> seen[s][1] # None /\ seen[s][1] = seen[s][2]
    BY DEF UnchangedTrue
  <2>1. SeqInv
    BY DEF IInv
  <2>2. Read = truth
    BY <2>1, ReadIsTruth
  <2>. QED  BY <2>1, <2>2 DEF SeqInv, MetaInv, Judges
<1>. QED  BY <1>1, InvAlways, PTL

=============================================================================
