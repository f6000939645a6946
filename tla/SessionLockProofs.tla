--------------------------- MODULE SessionLockProofs ---------------------------
(***************************************************************************)
(* The safety properties of SessionLock, for any set of displays, any of   *)
(* them found first, a compositor patient or not, and any number of        *)
(* messages under way.                                                     *)
(***************************************************************************)
EXTENDS SessionLock, TLAPS, SequenceTheorems, FiniteSetTheorems

\* The types without the requests and events under way, which RequestsInOrder types.
StateTyped ==
    /\ pc \in Places
    /\ lock_ \in BOOLEAN /\ locked_ \in BOOLEAN /\ finished_ \in BOOLEAN
    /\ unlocked \in BOOLEAN
    /\ outputs_ \subseteq Outputs
    /\ sized \subseteq lock_surfaces_ /\ needs_redraw \subseteq lock_surfaces_
    /\ lock_surfaces_ \subseteq outputs_
    /\ link \in {"up", "closed", "lost"}

CompositorTyped ==
    /\ session \in {"none", "pending", "locked", "refused", "ended", "unlocked"}
    /\ drawn \in [Outputs -> {"none", "created", "acked", "committed"}]
    /\ plug \in [Outputs -> {"new", "in", "out"}]
    /\ error = FALSE

LEMMA Parts ==
    IInv => StateTyped /\ CompositorTyped /\ RequestsInOrder /\ AnswerStands /\ AckedFirst
BY DEF IInv, TypeOK, StateTyped, CompositorTyped

\* What is under way is of its type.
LEMMA UnderWayTyped ==
    ASSUME NEW q \in Seq(Requests), NEW r \in Seq(Events)
    PROVE  /\ \A x \in Range(q) : x.output \in Outputs \cup {None}
           /\ \A e \in Range(r) : e.output \in Outputs \cup {None}
<1>1. Range(q) \subseteq Requests /\ Range(r) \subseteq Events
  BY RangeOfSeq
<1>2. \A x \in Requests : x.output \in Outputs \cup {None}
  BY DEF Requests
<1>3. \A e \in Events : e.output \in Outputs \cup {None}
  BY DEF Events
<1> QED
  BY <1>1, <1>2, <1>3

LEMMA PartsBefore ==
    StateTyped /\ CompositorTyped /\ RequestsInOrder /\ AnswerStands /\ AckedFirst => IInv
<1> SUFFICES ASSUME StateTyped, CompositorTyped, RequestsInOrder, AnswerStands, AckedFirst
             PROVE  IInv
  OBVIOUS
<1>1. /\ \A x \in Range(out) : x.output \in Outputs \cup {None}
      /\ \A x \in Range(c2s) : x.output \in Outputs \cup {None}
      /\ \A e \in Range(s2c) : e.output \in Outputs \cup {None}
  BY UnderWayTyped DEF RequestsInOrder
<1>3. \A x \in Range(out) \cup Range(c2s) : x.output \in Outputs \cup {None}
  BY <1>1
<1>4. error \in BOOLEAN
  BY DEF CompositorTyped
<1>2. TypeOK
  BY <1>1, <1>3, <1>4, Zenon DEF StateTyped, CompositorTyped, TypeOK
<1> QED
  BY <1>2 DEF IInv, CompositorTyped

LEMMA PartsAfter ==
    StateTyped' /\ CompositorTyped' /\ RequestsInOrder' /\ AnswerStands' /\ AckedFirst' => IInv'
<1> SUFFICES ASSUME StateTyped', CompositorTyped', RequestsInOrder', AnswerStands', AckedFirst'
             PROVE  IInv'
  OBVIOUS
<1>1. /\ \A x \in Range(out') : x.output \in Outputs \cup {None}
      /\ \A x \in Range(c2s') : x.output \in Outputs \cup {None}
      /\ \A e \in Range(s2c') : e.output \in Outputs \cup {None}
  BY UnderWayTyped DEF RequestsInOrder
<1>3. \A x \in Range(out') \cup Range(c2s') : x.output \in Outputs \cup {None}
  BY <1>1
<1>4. error' \in BOOLEAN
  BY DEF CompositorTyped
<1>2. TypeOK'
  BY <1>1, <1>3, <1>4, Zenon DEF StateTyped, CompositorTyped, TypeOK
<1> QED
  BY <1>2 DEF IInv, CompositorTyped

-----------------------------------------------------------------------------
(* What the steps do to what is under way *)

\* Events the compositor sends come after those under way.
LEMMA SentIsBehind ==
    ASSUME s2c \in Seq(Events), NEW q \in Seq(Events), Send(q)
    PROVE  /\ s2c' \in Seq(Events)
           /\ \A i \in DOMAIN s2c' : \/ i \in DOMAIN s2c /\ s2c'[i] = s2c[i]
                                     \/ \E k \in DOMAIN q : s2c'[i] = q[k]
<1>1. CASE link # "up"
  BY <1>1 DEF Send
<1>2. CASE link = "up"
  <2>1. s2c' = s2c \o q
    BY <1>2 DEF Send
  <2>2. /\ s2c' \in Seq(Events) /\ Len(s2c') = Len(s2c) + Len(q)
        /\ \A i \in 1 .. Len(s2c) + Len(q) :
              s2c'[i] = IF i <= Len(s2c) THEN s2c[i] ELSE q[i - Len(s2c)]
    BY <2>1, ConcatProperties
  <2>3. DOMAIN s2c' = 1 .. Len(s2c') /\ DOMAIN s2c = 1 .. Len(s2c) /\ DOMAIN q = 1 .. Len(q)
        /\ Len(s2c) \in Nat /\ Len(q) \in Nat
    BY <2>2, LenProperties
  <2>4. ASSUME NEW i \in DOMAIN s2c'
        PROVE  \/ i \in DOMAIN s2c /\ s2c'[i] = s2c[i]
               \/ \E k \in DOMAIN q : s2c'[i] = q[k]
    <3>1. CASE i <= Len(s2c)
      BY <2>2, <2>3, <3>1
    <3>2. CASE i > Len(s2c)
      <4>1. i - Len(s2c) \in DOMAIN q /\ s2c'[i] = q[i - Len(s2c)]
        BY <2>2, <2>3, <3>2
      <4> QED
        BY <4>1
    <3> QED
      BY <2>2, <2>3, <3>1, <3>2
  <2> QED
    BY <2>2, <2>4
<1> QED
  BY <1>1, <1>2

\* A concatenation: what was there keeps its place, the rest follows.
LEMMA ConcatPlaces ==
    ASSUME NEW s \in Seq(Requests), NEW q \in Seq(Requests)
    PROVE  /\ s \o q \in Seq(Requests)
           /\ \A i \in DOMAIN s : i \in DOMAIN (s \o q) /\ (s \o q)[i] = s[i]
           /\ \A k \in DOMAIN q : /\ Len(s) + k \in DOMAIN (s \o q)
                                  /\ (s \o q)[Len(s) + k] = q[k]
           /\ \A i \in DOMAIN (s \o q) :
                 \/ i \in DOMAIN s
                 \/ \E k \in DOMAIN q : i = Len(s) + k
<1>1. /\ s \o q \in Seq(Requests) /\ Len(s \o q) = Len(s) + Len(q)
      /\ \A i \in 1 .. Len(s) + Len(q) : (s \o q)[i] = IF i <= Len(s) THEN s[i] ELSE q[i - Len(s)]
  BY ConcatProperties
<1>2. DOMAIN (s \o q) = 1 .. Len(s \o q) /\ DOMAIN s = 1 .. Len(s) /\ DOMAIN q = 1 .. Len(q)
      /\ Len(s) \in Nat /\ Len(q) \in Nat
  BY <1>1, LenProperties
<1>3. \A i \in DOMAIN s : i \in DOMAIN (s \o q) /\ (s \o q)[i] = s[i]
  BY <1>1, <1>2
<1>4. \A k \in DOMAIN q : Len(s) + k \in DOMAIN (s \o q) /\ (s \o q)[Len(s) + k] = q[k]
  BY <1>1, <1>2
<1>5. ASSUME NEW i \in DOMAIN (s \o q), i \notin DOMAIN s
      PROVE  \E k \in DOMAIN q : i = Len(s) + k
  <2>1. i - Len(s) \in DOMAIN q /\ i = Len(s) + (i - Len(s))
    BY <1>1, <1>2, <1>5
  <2> QED
    BY <2>1
<1> QED
  BY <1>1, <1>3, <1>4, <1>5

\* ForEach lists each output of a finite set once.
LEMMA ForEachLists ==
    ASSUME NEW op, NEW S \in SUBSET Outputs
    PROVE  /\ op \in {"get_lock_surface", "commit", "destroy_surface"} =>
                 ForEach(op, S) \in Seq(Requests)
           /\ \A i \in DOMAIN ForEach(op, S) :
                 /\ ForEach(op, S)[i].op = op /\ ForEach(op, S)[i].output \in S
                 /\ \A j \in DOMAIN ForEach(op, S) : ForEach(op, S)[j] = ForEach(op, S)[i] => i = j
<1>1. IsFiniteSet(S)
  BY OutputsAssumption, FS_Subset
<1>2. PICK n \in Nat : \E f : ExistsBijection(1 .. n, S) /\ n = Cardinality(S)
  BY <1>1, FS_CardinalityType
<1>3. PICK f \in Bijection(1 .. n, S) : TRUE
  BY <1>2 DEF ExistsBijection
<1>4. f \in [1 .. Cardinality(S) -> S] /\ IsInjective(f)
  BY <1>2, <1>3 DEF Bijection, Injection, IsInjective
<1> DEFINE q == SetToSeq(S)
<1>5. q \in [1 .. Cardinality(S) -> S] /\ IsInjective(q)
  BY <1>4 DEF SetToSeq
<1>6. Cardinality(S) \in Nat
  BY <1>1, FS_CardinalityType
<1>7. DOMAIN ForEach(op, S) = 1 .. Cardinality(S)
      /\ \A i \in 1 .. Cardinality(S) : ForEach(op, S)[i] = Request(op, q[i])
  BY <1>5 DEF ForEach
<1>8. op \in {"get_lock_surface", "commit", "destroy_surface"} => ForEach(op, S) \in Seq(Requests)
  <2> SUFFICES ASSUME op \in {"get_lock_surface", "commit", "destroy_surface"}
               PROVE  ForEach(op, S) \in Seq(Requests)
    OBVIOUS
  <2>1. ForEach(op, S) = [i \in 1 .. Cardinality(S) |-> Request(op, q[i])]
    BY <1>5 DEF ForEach
  <2>2. \A i \in 1 .. Cardinality(S) : Request(op, q[i]) \in Requests
    BY <1>5 DEF Request, Requests
  <2> QED
    BY <1>6, <2>1, <2>2, SeqDef
<1>9. \A i, j \in 1 .. Cardinality(S) :
         ForEach(op, S)[j] = ForEach(op, S)[i] => i = j
  BY <1>5, <1>7 DEF Request, IsInjective
<1> QED
  BY <1>5, <1>7, <1>8, <1>9 DEF Request

-----------------------------------------------------------------------------
(* The client's steps *)

\* connect() has asked for nothing yet.
LEMMA InitEstablishes == Init => IInv
<1> SUFFICES ASSUME Init PROVE IInv
  OBVIOUS
<1>1. StateTyped
  BY OutputsAssumption DEF Init, StateTyped, Places
<1>2. CompositorTyped
  BY DEF Init, CompositorTyped
<1>3. <<>> \in Seq(Requests) /\ <<>> \in Seq(Events) /\ DOMAIN <<>> = {}
  OBVIOUS
<1>4. RequestsInOrder
  BY <1>3 DEF Init, RequestsInOrder
<1>5. AnswerStands
  BY <1>3 DEF Init, AnswerStands
<1>6. AckedFirst
  BY <1>3 DEF Init, AckedFirst
<1> QED
  BY <1>1, <1>2, <1>4, <1>5, <1>6, PartsBefore

\* Steps from one place to another that touch nothing the invariant relates.
LEMMA MovesOn ==
    ASSUME IInv, pc \notin {"connected", "exit", "gone"}, pc' \in Places \ {"connected", "gone"},
           needs_redraw' \subseteq lock_surfaces_, unlocked' \in BOOLEAN,
           UNCHANGED <<outputs_, lock_, locked_, finished_, lock_surfaces_, sized,
                       out, c2s, s2c, link, compVars>>
    PROVE  IInv'
<1> USE Parts
<1>1. StateTyped'
  BY DEF StateTyped
<1>2. CompositorTyped'
  BY DEF CompositorTyped, compVars
<1>3. RequestsInOrder'
  BY DEF RequestsInOrder
<1>4. AnswerStands'
  BY DEF AnswerStands, compVars
<1>5. AckedFirst'
  BY DEF AckedFirst, Acknowledged, Acknowledges, compVars
<1> QED
  BY <1>1, <1>2, <1>3, <1>4, <1>5, PartsAfter

\* What waits is flushed, with commits behind it for surfaces whose size is known.
LEMMA FlushKeepsOrder ==
    ASSUME IInv, pc \notin {"connected", "exit", "gone"}, pc' \notin {"connected", "exit", "gone"},
           NEW q \in Seq(Requests),
           \A k \in DOMAIN q : q[k].op = "commit" /\ q[k].output \in sized,
           c2s' = Flushed(out \o q), out' = <<>>,
           UNCHANGED <<s2c, link, session, drawn, sized, locked_, finished_>>
    PROVE  RequestsInOrder' /\ AnswerStands' /\ AckedFirst'
<1> USE Parts
<1>0. out' \in Seq(Requests) /\ DOMAIN out' = {} /\ link # "closed"
  BY DEF RequestsInOrder
<1>1. CASE link # "up"
  <2>1. c2s' = c2s
    BY <1>1 DEF Flushed
  <2>2. RequestsInOrder'
    BY <1>0, <2>1 DEF RequestsInOrder
  <2>3. AnswerStands'
    BY <1>0, <2>1 DEF AnswerStands
  <2>4. AckedFirst'
    BY <1>0, <1>1, <2>1 DEF AckedFirst, Acknowledged, Acknowledges
  <2> QED
    BY <2>2, <2>3, <2>4
<1>2. CASE link = "up"
  <2> DEFINE r == out \o q
  <2>1. out \in Seq(Requests) /\ c2s \in Seq(Requests) /\ c2s' = c2s \o r
    BY <1>2 DEF Flushed, RequestsInOrder
  <2>2. /\ r \in Seq(Requests)
        /\ \A k \in DOMAIN out : k \in DOMAIN r /\ r[k] = out[k]
        /\ \A k \in DOMAIN q : Len(out) + k \in DOMAIN r /\ r[Len(out) + k] = q[k]
        /\ \A k \in DOMAIN r : k \in DOMAIN out \/ \E m \in DOMAIN q : k = Len(out) + m
    BY <2>1, ConcatPlaces
  <2> HIDE DEF r
  <2>3. /\ c2s' \in Seq(Requests)
        /\ \A i \in DOMAIN c2s : i \in DOMAIN c2s' /\ c2s'[i] = c2s[i]
        /\ \A k \in DOMAIN r : Len(c2s) + k \in DOMAIN c2s' /\ c2s'[Len(c2s) + k] = r[k]
        /\ \A i \in DOMAIN c2s' : i \in DOMAIN c2s \/ \E k \in DOMAIN r : i = Len(c2s) + k
    BY <2>1, <2>2, ConcatPlaces
  <2>4. /\ DOMAIN out = 1 .. Len(out) /\ Len(out) \in Nat /\ DOMAIN q = 1 .. Len(q) /\ Len(q) \in Nat
        /\ DOMAIN c2s = 1 .. Len(c2s) /\ Len(c2s) \in Nat
    BY <2>1, LenProperties
  \* Where a request of the new path comes from
  <2>5. ASSUME NEW i \in DOMAIN c2s'
        PROVE  \/ i \in DOMAIN c2s /\ c2s'[i] = c2s[i]
               \/ /\ c2s'[i].op = "ack_configure" /\ drawn[c2s'[i].output] # "none"
               \/ /\ c2s'[i].op = "commit" /\ c2s'[i].output \in sized
                  /\ i > Len(c2s) + Len(out) /\ i \in Nat
    <3>1. CASE i \in DOMAIN c2s
      BY <2>3, <3>1
    <3>2. CASE \E k \in DOMAIN r : i = Len(c2s) + k
      <4>1. PICK k \in DOMAIN r : i = Len(c2s) + k
        BY <3>2
      <4>2. c2s'[i] = r[k]
        BY <2>3, <4>1
      <4>3. CASE k \in DOMAIN out
        BY <2>2, <4>2, <4>3 DEF RequestsInOrder, AckedFirst
      <4>4. CASE \E m \in DOMAIN q : k = Len(out) + m
        <5>1. PICK m \in DOMAIN q : k = Len(out) + m
          BY <4>4
        <5> QED
          BY <2>2, <2>4, <4>1, <4>2, <5>1
      <4> QED
        BY <2>2, <4>3, <4>4
    <3> QED
      BY <2>3, <3>1, <3>2
  \* An acknowledgement that waited is under way now, before the commits.
  <2>6. ASSUME NEW o \in sized
        PROVE  \/ Acknowledged(o)
               \/ \E j \in DOMAIN c2s' : Acknowledges(c2s', j, o) /\ j \in 1 .. Len(c2s) + Len(out)
    <3>1. CASE Acknowledged(o)
      BY <3>1
    <3>2. CASE \E j \in DOMAIN c2s : Acknowledges(c2s, j, o)
      BY <2>3, <2>4, <3>2 DEF Acknowledges
    <3>3. CASE \E k \in DOMAIN out : Acknowledges(out, k, o)
      <4>1. PICK k \in DOMAIN out : Acknowledges(out, k, o)
        BY <3>3
      <4>2. /\ Len(c2s) + k \in DOMAIN c2s' /\ c2s'[Len(c2s) + k] = out[k]
            /\ Len(c2s) + k \in 1 .. Len(c2s) + Len(out)
        BY <2>2, <2>3, <2>4
      <4> QED
        BY <4>1, <4>2 DEF Acknowledges
    <3> QED
      BY <1>2, <3>1, <3>2, <3>3 DEF AckedFirst
  <2>7. RequestsInOrder'
    BY <1>0, <2>3, <2>5 DEF RequestsInOrder
  <2>8. AnswerStands'
    BY <1>0, <2>5 DEF AnswerStands
  <2>9. AckedFirst'
    <3>1. ASSUME NEW i \in DOMAIN c2s', c2s'[i].op = "get_lock_surface"
          PROVE  /\ drawn[c2s'[i].output] = "none"
                 /\ \A j \in DOMAIN c2s' : c2s'[j] = c2s'[i] => i = j
      <4>1. i \in DOMAIN c2s /\ c2s'[i] = c2s[i]
        BY <2>5, <3>1
      <4>2. \A j \in DOMAIN c2s' : c2s'[j] = c2s'[i] => j \in DOMAIN c2s /\ c2s'[j] = c2s[j]
        BY <2>5, <3>1
      <4> QED
        BY <3>1, <4>1, <4>2 DEF AckedFirst
    <3>2. ASSUME NEW i \in DOMAIN c2s', c2s'[i].op = "commit"
          PROVE  \/ Acknowledged(c2s'[i].output)
                 \/ \E j \in 1 .. (i - 1) : Acknowledges(c2s', j, c2s'[i].output)
      <4>1. CASE i \in DOMAIN c2s /\ c2s'[i] = c2s[i]
        <5>1. \/ Acknowledged(c2s[i].output)
              \/ \E j \in 1 .. (i - 1) : Acknowledges(c2s, j, c2s[i].output)
          BY <3>2, <4>1 DEF AckedFirst
        <5>2. \A j \in 1 .. (i - 1) : c2s'[j] = c2s[j]
          BY <2>3, <2>4, <4>1
        <5> QED
          BY <4>1, <5>1, <5>2 DEF Acknowledges
      <4>2. CASE c2s'[i].output \in sized /\ i > Len(c2s) + Len(out) /\ i \in Nat
        BY <2>4, <2>6, <4>2
      <4> QED
        BY <2>5, <3>2, <4>1, <4>2
    <3>3. \A i \in DOMAIN c2s' : c2s'[i].op = "ack_configure" => drawn[c2s'[i].output] # "none"
      BY <2>5 DEF AckedFirst
    <3> QED
      BY <1>0, <2>6, <3>1, <3>2, <3>3 DEF AckedFirst, Acknowledged
  <2> QED
    BY <2>7, <2>8, <2>9
<1> QED
  BY <1>1, <1>2

\* lock, a surface for each output known, and the sync, on an empty connection.
LEMMA LockSessionPreserves == IInv /\ lock_session => IInv'
<1> SUFFICES ASSUME IInv, lock_session PROVE IInv'
  OBVIOUS
<1> USE Parts
<1>0. /\ out = <<>> /\ c2s = <<>> /\ session = "none" /\ link # "closed"
      /\ \A o \in Outputs : drawn[o] = "none"
      /\ locked_ = FALSE /\ finished_ = FALSE /\ sized = {}
  BY DEF lock_session, RequestsInOrder, AnswerStands, AckedFirst, StateTyped, WasLocked, Over
<1>1. StateTyped' /\ CompositorTyped'
  BY DEF lock_session, StateTyped, CompositorTyped, compVars, Places
<1>2. out' = <<>> /\ pc' = "roundtrip" /\ UNCHANGED <<s2c, session, drawn, locked_, finished_, sized, link>>
  BY DEF lock_session, compVars
<1>3. out' \in Seq(Requests) /\ DOMAIN out' = {} /\ s2c' \in Seq(Events)
  BY <1>2 DEF RequestsInOrder
<1>4. /\ c2s' \in Seq(Requests)
      /\ \A i \in DOMAIN c2s' :
            \/ i = 1 /\ c2s'[i].op = "lock"
            \/ /\ c2s'[i].op = "get_lock_surface" /\ c2s'[i].output \in Outputs
               /\ \A j \in DOMAIN c2s' : c2s'[j] = c2s'[i] => i = j
            \/ c2s'[i].op = "sync"
  <2> DEFINE F == ForEach("get_lock_surface", outputs_)
             a == <<Request("lock", None)>>
             z == <<Request("sync", None)>>
             b == a \o F
             r == b \o z
  <2>1. /\ F \in Seq(Requests)
        /\ \A i \in DOMAIN F : /\ F[i].op = "get_lock_surface" /\ F[i].output \in Outputs
                               /\ \A j \in DOMAIN F : F[j] = F[i] => i = j
    BY ForEachLists DEF StateTyped
  <2>2. /\ a \in Seq(Requests) /\ DOMAIN a = {1} /\ Len(a) = 1 /\ a[1].op = "lock"
        /\ z \in Seq(Requests) /\ DOMAIN z = {1} /\ Len(z) = 1 /\ z[1].op = "sync"
    BY DEF Request, Requests
  <2>3. c2s' = IF link = "up" THEN r ELSE <<>>
    <3>1. c2s' = Flushed(<<>> \o a \o F \o z)
      BY <1>0 DEF lock_session
    <3>2. <<>> \o a = a
      BY <2>2, ConcatEmptySeq
    <3>3. r \in Seq(Requests)
      BY <2>1, <2>2, ConcatProperties
    <3>4. <<>> \o r = r
      BY <3>3, ConcatEmptySeq
    <3> QED
      BY <1>0, <3>1, <3>2, <3>4 DEF Flushed
  <2> HIDE DEF F, a, z
  <2>4. /\ b \in Seq(Requests)
        /\ \A i \in DOMAIN a : i \in DOMAIN b /\ b[i] = a[i]
        /\ \A k \in DOMAIN F : Len(a) + k \in DOMAIN b /\ b[Len(a) + k] = F[k]
        /\ \A i \in DOMAIN b : i \in DOMAIN a \/ \E k \in DOMAIN F : i = Len(a) + k
    BY <2>1, <2>2, ConcatPlaces
  <2> HIDE DEF b
  <2>5. /\ r \in Seq(Requests)
        /\ \A i \in DOMAIN b : i \in DOMAIN r /\ r[i] = b[i]
        /\ \A k \in DOMAIN z : Len(b) + k \in DOMAIN r /\ r[Len(b) + k] = z[k]
        /\ \A i \in DOMAIN r : i \in DOMAIN b \/ \E k \in DOMAIN z : i = Len(b) + k
    BY <2>2, <2>4, ConcatPlaces
  <2> HIDE DEF r
  <2>6. ASSUME NEW i \in DOMAIN r
        PROVE  \/ i = 1 /\ r[i].op = "lock"
               \/ \E k \in DOMAIN F : i = 1 + k /\ r[i] = F[k]
               \/ r[i].op = "sync"
    <3>1. CASE i \in DOMAIN b
      <4>1. r[i] = b[i]
        BY <2>5, <3>1
      <4>2. CASE i \in DOMAIN a
        BY <2>2, <2>4, <4>1, <4>2
      <4>3. CASE \E k \in DOMAIN F : i = Len(a) + k
        BY <2>2, <2>4, <4>1, <4>3
      <4> QED
        BY <2>4, <3>1, <4>2, <4>3
    <3>2. CASE \E k \in DOMAIN z : i = Len(b) + k
      BY <2>2, <2>5, <3>2
    <3> QED
      BY <2>5, <3>1, <3>2
  <2>7. ASSUME NEW i \in DOMAIN r, NEW k \in DOMAIN F, i = 1 + k, r[i] = F[k]
        PROVE  /\ r[i].op = "get_lock_surface" /\ r[i].output \in Outputs
               /\ \A j \in DOMAIN r : r[j] = r[i] => i = j
    <3>1. r[i].op = "get_lock_surface" /\ r[i].output \in Outputs
      BY <2>1, <2>7
    <3>2. ASSUME NEW j \in DOMAIN r, r[j] = r[i]
          PROVE  i = j
      <4>1. PICK m \in DOMAIN F : j = 1 + m /\ r[j] = F[m]
        BY <2>6, <3>1, <3>2
      <4>2. m = k
        BY <2>1, <2>7, <3>2, <4>1
      <4> QED
        BY <2>7, <4>1, <4>2
    <3> QED
      BY <3>1, <3>2
  <2>8. DOMAIN <<>> = {} /\ <<>> \in Seq(Requests)
    OBVIOUS
  <2> QED
    BY <2>3, <2>5, <2>6, <2>7, <2>8
<1>5. RequestsInOrder'
  BY <1>0, <1>2, <1>3, <1>4 DEF RequestsInOrder
<1>6. AnswerStands'
  BY <1>0, <1>2, <1>3, <1>4 DEF AnswerStands
<1>7. AckedFirst'
  BY <1>0, <1>2, <1>3, <1>4 DEF AckedFirst
<1> QED
  BY <1>1, <1>5, <1>6, <1>7, PartsAfter

\* One event is dispatched, and a configure acknowledged.
LEMMA DispatchEventPreserves == IInv /\ DispatchEvent => IInv'
<1> SUFFICES ASSUME IInv, DispatchEvent PROVE IInv'
  OBVIOUS
<1> USE Parts
<1> DEFINE e == Head(s2c)
<1>1. /\ e \in Events /\ s2c' \in Seq(Events)
      /\ \A i \in DOMAIN s2c' : i + 1 \in DOMAIN s2c /\ s2c'[i] = s2c[i + 1]
      /\ 1 \in DOMAIN s2c /\ s2c[1] = e
  <2>1. s2c \in Seq(Events) /\ s2c # <<>> /\ s2c' = Tail(s2c)
    BY DEF DispatchEvent, RequestsInOrder
  <2> QED
    BY <2>1, HeadTailProperties, LenProperties
<1>2. Handle(e) /\ UNCHANGED <<lock_, lock_surfaces_, unlocked, c2s, link, session, drawn, plug, error>>
  BY DEF DispatchEvent, compVars
<1> HIDE DEF e
<1>3. pc \in {"roundtrip", "drain", "firstDispatch", "poll"}
      /\ pc' \in {"roundtrip", "drain", "firstDispatch", "poll"}
  BY DEF DispatchEvent, AfterEvent
<1>4. /\ e.ev \in {"configure", "global"} => e.output \in Outputs
      /\ e.ev = "locked" => session \in WasLocked
      /\ e.ev = "finished" => session \in Over
      /\ e.ev = "configure" => drawn[e.output] # "none"
  <2>1. e.ev \in {"configure", "global"} => e.output \in Outputs
    BY <1>1 DEF Events
  <2>2. (e.ev = "locked" => session \in WasLocked) /\ (e.ev = "finished" => session \in Over)
    <3>1. \A i \in DOMAIN s2c : /\ s2c[i].ev = "locked" => session \in WasLocked
                                /\ s2c[i].ev = "finished" => session \in Over
      BY DEF AnswerStands
    <3> QED
      BY <1>1, <3>1
  <2>3. e.ev = "configure" => drawn[e.output] # "none"
    BY <1>1 DEF AckedFirst
  <2> QED
    BY <2>1, <2>2, <2>3
<1>5. /\ outputs_ \subseteq outputs_' /\ outputs_' \subseteq Outputs
      /\ locked_' \in BOOLEAN /\ finished_' \in BOOLEAN
      /\ sized' \subseteq lock_surfaces_ /\ needs_redraw' \subseteq lock_surfaces_
      /\ (locked_' => session \in WasLocked)
      /\ (finished_' => session \in Over)
  <2>1. /\ outputs_ \subseteq Outputs /\ locked_ \in BOOLEAN /\ finished_ \in BOOLEAN
        /\ sized \subseteq lock_surfaces_ /\ needs_redraw \subseteq lock_surfaces_
        /\ (locked_ => session \in WasLocked) /\ (finished_ => session \in Over)
    BY DEF StateTyped, AnswerStands
  <2>2. CASE e.ev = "configure" /\ handle_lock_surface_configure(e.output)
    BY <2>1, <2>2 DEF handle_lock_surface_configure
  <2>3. CASE e.ev = "locked" /\ handle_lock_locked
    BY <1>4, <2>1, <2>3 DEF handle_lock_locked
  <2>4. CASE e.ev = "finished" /\ handle_lock_finished
    BY <1>4, <2>1, <2>4 DEF handle_lock_finished
  <2>5. CASE e.ev = "global" /\ handle_registry_global(e.output)
    BY <1>4, <2>1, <2>5 DEF handle_registry_global
  <2>6. CASE UNCHANGED <<out, outputs_, locked_, finished_, sized, needs_redraw>>
    BY <2>1, <2>6
  <2> QED
    BY <1>2, <2>2, <2>3, <2>4, <2>5, <2>6 DEF Handle
<1>6. /\ out' \in Seq(Requests)
      /\ \A i \in DOMAIN out : i \in DOMAIN out' /\ out'[i] = out[i]
      /\ \A i \in DOMAIN out' : \/ i \in DOMAIN out /\ out'[i] = out[i]
                                \/ out'[i].op = "ack_configure" /\ drawn[out'[i].output] # "none"
      /\ \A o \in sized' : o \in sized \/ \E j \in DOMAIN out' : Acknowledges(out', j, o)
  <2>1. CASE e.ev = "configure" /\ handle_lock_surface_configure(e.output)
    <3> DEFINE r == Request("ack_configure", e.output)
    <3>1. r \in Requests /\ r.op = "ack_configure" /\ r.output = e.output
      BY <1>4, <2>1 DEF Request, Requests
    <3>2. out' = Append(out, r) /\ out \in Seq(Requests)
      BY <2>1 DEF handle_lock_surface_configure, RequestsInOrder
    <3> HIDE DEF r
    <3>3. /\ out' \in Seq(Requests) /\ Len(out') = Len(out) + 1
          /\ \A i \in 1 .. Len(out) : out'[i] = out[i]
          /\ out'[Len(out) + 1] = r
      BY <3>1, <3>2, AppendProperties
    <3>4. DOMAIN out' = 1 .. Len(out') /\ DOMAIN out = 1 .. Len(out) /\ Len(out) \in Nat
      BY <3>2, <3>3, LenProperties
    <3>5. Len(out) + 1 \in DOMAIN out' /\ Acknowledges(out', Len(out) + 1, e.output)
      BY <3>1, <3>3, <3>4 DEF Acknowledges
    <3>6. \A o \in sized' : o \in sized \/ o = e.output
      BY <2>1 DEF handle_lock_surface_configure
    <3>7. ASSUME NEW i \in DOMAIN out'
          PROVE  \/ i \in DOMAIN out /\ out'[i] = out[i]
                 \/ out'[i].op = "ack_configure" /\ drawn[out'[i].output] # "none"
      <4>1. CASE i = Len(out) + 1
        BY <1>4, <2>1, <3>1, <3>3, <4>1
      <4>2. CASE i # Len(out) + 1
        BY <3>3, <3>4, <4>2
      <4> QED
        BY <4>1, <4>2
    <3>8. \A i \in DOMAIN out : i \in DOMAIN out' /\ out'[i] = out[i]
      BY <3>3, <3>4
    <3>9. \A o \in sized' : o \in sized \/ \E j \in DOMAIN out' : Acknowledges(out', j, o)
      BY <3>5, <3>6
    <3> QED
      BY <3>3, <3>7, <3>8, <3>9
  <2>2. CASE UNCHANGED <<out, sized>>
    <3>1. out \in Seq(Requests)
      BY DEF RequestsInOrder
    <3> QED
      BY <2>2, <3>1, Zenon
  <2> QED
    BY <1>2, <2>1, <2>2 DEF Handle, handle_lock_locked, handle_lock_finished, handle_registry_global
<1>7. StateTyped' /\ CompositorTyped'
  BY <1>2, <1>3, <1>5 DEF StateTyped, CompositorTyped, Places
<1>8. RequestsInOrder'
  BY <1>1, <1>2, <1>3, <1>6 DEF RequestsInOrder
<1>9. AnswerStands'
  BY <1>1, <1>2, <1>3, <1>5, <1>6 DEF AnswerStands
<1>10. AckedFirst'
  BY <1>1, <1>2, <1>3, <1>6 DEF AckedFirst, Acknowledged, Acknowledges
<1> QED
  BY <1>7, <1>8, <1>9, <1>10, PartsAfter

\* Out of the loop: the client adds requests that nothing flushes.
LEMMA LeavingPreserves ==
    ASSUME IInv, pc \in {"loop", "exit"}, pc' \in {"exit", "gone"},
           NEW q \in Seq(Requests),
           \A k \in DOMAIN q : /\ q[k].op \in {"destroy_surface", "unlock_and_destroy", "destroy"}
                               /\ q[k].op = "unlock_and_destroy" => session \in WasLocked,
           out' = out \o q, StateTyped', locked_' => locked_, sized' = {},
           link' = "closed" => pc' = "gone",
           UNCHANGED <<finished_, c2s, s2c, session, drawn, plug, error>>
    PROVE  IInv'
<1> USE Parts
<1>1. out \in Seq(Requests) /\ c2s \in Seq(Requests) /\ s2c \in Seq(Events)
  BY DEF RequestsInOrder
<1>2. /\ out' \in Seq(Requests)
      /\ \A i \in DOMAIN out' : \/ i \in DOMAIN out /\ out'[i] = out[i]
                                \/ \E k \in DOMAIN q : out'[i] = q[k]
  <2>1. /\ out \o q \in Seq(Requests)
        /\ \A i \in DOMAIN out : i \in DOMAIN (out \o q) /\ (out \o q)[i] = out[i]
        /\ \A k \in DOMAIN q : /\ Len(out) + k \in DOMAIN (out \o q)
                               /\ (out \o q)[Len(out) + k] = q[k]
        /\ \A i \in DOMAIN (out \o q) : i \in DOMAIN out \/ \E k \in DOMAIN q : i = Len(out) + k
    BY <1>1, ConcatPlaces
  <2> QED
    BY <2>1
<1>3. CompositorTyped'
  BY DEF CompositorTyped
<1>4. RequestsInOrder'
  BY <1>1, <1>2 DEF RequestsInOrder
<1>5. AnswerStands'
  BY <1>2 DEF AnswerStands
<1>6. AckedFirst'
  <2>1. \A i \in DOMAIN out' : out'[i].op = "ack_configure" => drawn[out'[i].output] # "none"
    BY <1>2 DEF AckedFirst
  <2> QED
    BY <2>1 DEF AckedFirst, Acknowledged, Acknowledges
<1> QED
  BY <1>3, <1>4, <1>5, <1>6, PartsAfter

\* unlock_session(), or nothing where the lock is not held
LEMMA ExitProgramPreserves == IInv /\ ExitProgram => IInv'
<1> SUFFICES ASSUME IInv, ExitProgram PROVE IInv'
  OBVIOUS
<1> USE Parts
<1>1. CASE lock_ /\ locked_
  <2> DEFINE F == ForEach("destroy_surface", lock_surfaces_)
             u == <<Request("unlock_and_destroy", None)>>
             q == F \o u
  <2>1. /\ F \in Seq(Requests)
        /\ \A i \in DOMAIN F : F[i].op = "destroy_surface"
    BY ForEachLists DEF StateTyped
  <2>2. /\ u \in Seq(Requests) /\ DOMAIN u = {1} /\ u[1].op = "unlock_and_destroy"
    BY DEF Request, Requests
  <2>3. out \in Seq(Requests) /\ session \in WasLocked
    BY <1>1 DEF RequestsInOrder, AnswerStands
  <2>4. out' = (out \o F) \o u
    BY <1>1 DEF ExitProgram, unlock_session
  <2> HIDE DEF F, u
  <2>5. /\ q \in Seq(Requests)
        /\ \A i \in DOMAIN F : i \in DOMAIN q /\ q[i] = F[i]
        /\ \A k \in DOMAIN u : Len(F) + k \in DOMAIN q /\ q[Len(F) + k] = u[k]
        /\ \A i \in DOMAIN q : i \in DOMAIN F \/ \E k \in DOMAIN u : i = Len(F) + k
    BY <2>1, <2>2, ConcatPlaces
  <2>6. out' = out \o q
    BY <2>1, <2>2, <2>3, <2>4, ConcatAssociative
  <2> HIDE DEF q
  <2>7. \A k \in DOMAIN q : /\ q[k].op \in {"destroy_surface", "unlock_and_destroy", "destroy"}
                            /\ q[k].op = "unlock_and_destroy" => session \in WasLocked
    BY <2>1, <2>2, <2>3, <2>5
  <2>8. StateTyped'
    BY <1>1 DEF ExitProgram, unlock_session, StateTyped, Places
  <2>9. /\ pc = "loop" /\ pc' = "exit" /\ locked_' = FALSE /\ sized' = {} /\ link' # "closed"
        /\ UNCHANGED <<finished_, c2s, s2c, session, drawn, plug, error>>
    BY <1>1 DEF ExitProgram, unlock_session, compVars, RequestsInOrder
  <2> QED
    BY <2>5, <2>6, <2>7, <2>8, <2>9, LeavingPreserves
<1>2. CASE ~(lock_ /\ locked_)
  <2>1. /\ pc = "loop" /\ pc' = "exit" /\ unlocked' \in BOOLEAN
        /\ needs_redraw' \subseteq lock_surfaces_
        /\ UNCHANGED <<outputs_, lock_, locked_, finished_, lock_surfaces_, sized,
                       out, c2s, s2c, link, compVars>>
    BY <1>2 DEF ExitProgram, unlock_session, StateTyped
  <2> QED
    BY <2>1, MovesOn DEF Places
<1> QED
  BY <1>1, <1>2

\* ~Client
LEMMA DestroyPreserves == IInv /\ Destroy => IInv'
<1> SUFFICES ASSUME IInv, Destroy PROVE IInv'
  OBVIOUS
<1> USE Parts
<1> DEFINE F == ForEach("destroy_surface", lock_surfaces_)
           u == IF lock_ THEN <<Request("destroy", None)>> ELSE <<>>
           q == F \o u
<1>1. /\ F \in Seq(Requests)
      /\ \A i \in DOMAIN F : F[i].op = "destroy_surface"
  BY ForEachLists DEF StateTyped
<1>2. /\ u \in Seq(Requests)
      /\ \A i \in DOMAIN u : u[i].op = "destroy"
  <2>1. CASE lock_
    BY <2>1 DEF Request, Requests
  <2>2. CASE ~lock_
    BY <2>2
  <2> QED
    BY <2>1, <2>2
<1>3. out \in Seq(Requests)
  BY DEF RequestsInOrder
<1>4. out' = (out \o F) \o u
  BY DEF Destroy
<1> HIDE DEF F, u
<1>5. /\ q \in Seq(Requests)
      /\ \A i \in DOMAIN F : i \in DOMAIN q /\ q[i] = F[i]
      /\ \A k \in DOMAIN u : Len(F) + k \in DOMAIN q /\ q[Len(F) + k] = u[k]
      /\ \A i \in DOMAIN q : i \in DOMAIN F \/ \E k \in DOMAIN u : i = Len(F) + k
  BY <1>1, <1>2, ConcatPlaces
<1>6. out' = out \o q
  BY <1>1, <1>2, <1>3, <1>4, ConcatAssociative
<1> HIDE DEF q
<1>7. \A k \in DOMAIN q : /\ q[k].op \in {"destroy_surface", "unlock_and_destroy", "destroy"}
                          /\ q[k].op = "unlock_and_destroy" => session \in WasLocked
  BY <1>1, <1>2, <1>5
<1>8. StateTyped'
  BY DEF Destroy, StateTyped, Places
<1>9. /\ pc = "exit" /\ pc' = "gone" /\ locked_' = locked_ /\ sized' = {}
      /\ UNCHANGED <<finished_, c2s, s2c, session, drawn, plug, error>>
  BY DEF Destroy, compVars
<1> QED
  BY <1>5, <1>6, <1>7, <1>8, <1>9, LeavingPreserves

-----------------------------------------------------------------------------
(* The compositor's steps *)

\* The lock is answered, or a granted one ends.
Answers ==
    \/ session' = session
    \/ session = "pending" /\ session' \in {"locked", "refused"}
    \/ session = "locked" /\ session' = "ended"

\* Something is sent, and nothing but what became of the lock and the plugs changes.
LEMMA SendingPreserves ==
    ASSUME IInv, NEW q \in Seq(Events), Send(q),
           \A k \in DOMAIN q : /\ q[k].ev = "configure" => drawn[q[k].output] # "none"
                               /\ q[k].ev = "locked" => session' \in WasLocked
                               /\ q[k].ev = "finished" => session' \in Over,
           Answers,
           plug' \in [Outputs -> {"new", "in", "out"}],
           UNCHANGED <<clientVars, out, c2s, link, drawn, error>>
    PROVE  IInv'
<1> USE Parts
<1>1. /\ s2c' \in Seq(Events)
      /\ \A i \in DOMAIN s2c' : \/ i \in DOMAIN s2c /\ s2c'[i] = s2c[i]
                                \/ \E k \in DOMAIN q : s2c'[i] = q[k]
  <2>1. s2c \in Seq(Events)
    BY DEF RequestsInOrder
  <2> QED
    BY <2>1, SentIsBehind
<1>2. StateTyped' /\ CompositorTyped'
  BY DEF StateTyped, CompositorTyped, Answers, clientVars, objVars
<1>3. RequestsInOrder'
  BY <1>1 DEF RequestsInOrder, clientVars, objVars
<1>4. AnswerStands'
  <2>1. /\ session \in WasLocked => session' \in WasLocked
        /\ session \in Over => session' \in Over
        /\ session = "none" => session' = "none"
    BY DEF Answers, WasLocked, Over
  <2>2. \A i \in DOMAIN s2c' : /\ s2c'[i].ev = "locked"   => session' \in WasLocked
                               /\ s2c'[i].ev = "finished" => session' \in Over
    BY <1>1, <2>1 DEF AnswerStands
  <2> QED
    BY <2>1, <2>2 DEF AnswerStands, clientVars, objVars
<1>5. AckedFirst'
  BY <1>1 DEF AckedFirst, Acknowledged, Acknowledges, clientVars, objVars
<1> QED
  BY <1>2, <1>3, <1>4, <1>5, PartsAfter

\* One event
LEMMA SendingOnePreserves ==
    ASSUME IInv, NEW e \in Events, Send(<<e>>),
           e.ev = "configure" => drawn[e.output] # "none",
           e.ev = "locked" => session' \in WasLocked,
           e.ev = "finished" => session' \in Over,
           Answers,
           plug' \in [Outputs -> {"new", "in", "out"}],
           UNCHANGED <<clientVars, out, c2s, link, drawn, error>>
    PROVE  IInv'
<1> DEFINE q == <<e>>
<1>1. q \in Seq(Events) /\ DOMAIN q = {1} /\ q[1] = e /\ Send(q)
  OBVIOUS
<1> HIDE DEF q
<1> QED
  BY <1>1, SendingPreserves

\* The answer to the lock, its end, and an event that concerns none of this
LEMMA AnswerPreserves ==
    IInv /\ (SendLocked \/ SendFinished \/ Notify(Event("other", None))) => IInv'
<1> SUFFICES ASSUME IInv, SendLocked \/ SendFinished \/ Notify(Event("other", None)) PROVE IInv'
  OBVIOUS
<1>0. plug \in [Outputs -> {"new", "in", "out"}]
  BY Parts DEF CompositorTyped
<1>1. /\ Event("locked", None) \in Events /\ Event("locked", None).ev = "locked"
      /\ Event("finished", None) \in Events /\ Event("finished", None).ev = "finished"
      /\ Event("other", None) \in Events /\ Event("other", None).ev = "other"
  BY DEF Event, Events
<1>2. CASE SendLocked
  <2>1. /\ Send(<<Event("locked", None)>>) /\ Answers /\ session' \in WasLocked
        /\ UNCHANGED <<clientVars, out, c2s, link, drawn, plug, error>>
    BY <1>2 DEF SendLocked, Answers, WasLocked
  <2> QED
    BY <1>0, <1>1, <2>1, SendingOnePreserves
<1>3. CASE SendFinished
  <2>1. /\ Send(<<Event("finished", None)>>) /\ Answers /\ session' \in Over
        /\ UNCHANGED <<clientVars, out, c2s, link, drawn, plug, error>>
    BY <1>3 DEF SendFinished, Answers, Over
  <2> QED
    BY <1>0, <1>1, <2>1, SendingOnePreserves
<1>4. CASE Notify(Event("other", None))
  <2>1. /\ Send(<<Event("other", None)>>) /\ Answers
        /\ UNCHANGED <<clientVars, out, c2s, link, session, drawn, plug, error>>
    BY <1>4 DEF Notify, compVars, Answers
  <2> QED
    BY <1>0, <1>1, <2>1, SendingOnePreserves
<1> QED
  BY <1>2, <1>3, <1>4

\* A size, and a display plugged in or out
LEMMA DisplayPreserves ==
    ASSUME IInv, NEW o \in Outputs, PlugIn(o) \/ PlugOut(o) \/ Notify(Event("configure", o))
    PROVE  IInv'
<1>0. /\ plug \in [Outputs -> {"new", "in", "out"}]
      /\ \A w \in {"in", "out"} : [plug EXCEPT ![o] = w] \in [Outputs -> {"new", "in", "out"}]
  BY Parts DEF CompositorTyped
<1>1. /\ Event("configure", o) \in Events /\ Event("configure", o).ev = "configure"
      /\ Event("configure", o).output = o
      /\ Event("global", o) \in Events /\ Event("global", o).ev = "global"
      /\ Event("removed", o) \in Events /\ Event("removed", o).ev = "removed"
  BY DEF Event, Events
<1>2. CASE Notify(Event("configure", o))
  <2>1. /\ Send(<<Event("configure", o)>>) /\ drawn[o] # "none"
        /\ Answers /\ UNCHANGED <<clientVars, out, c2s, link, session, drawn, plug, error>>
    BY <1>1, <1>2 DEF Notify, compVars, Answers
  <2> QED
    BY <1>0, <1>1, <2>1, SendingOnePreserves
<1>3. CASE PlugIn(o)
  <2>1. /\ Send(<<Event("global", o)>>) /\ plug' = [plug EXCEPT ![o] = "in"]
        /\ Answers /\ UNCHANGED <<clientVars, out, c2s, link, session, drawn, error>>
    BY <1>3 DEF PlugIn, Answers
  <2> QED
    BY <1>0, <1>1, <2>1, SendingOnePreserves
<1>4. CASE PlugOut(o)
  <2>1. /\ Send(<<Event("removed", o)>>) /\ plug' = [plug EXCEPT ![o] = "out"]
        /\ Answers /\ UNCHANGED <<clientVars, out, c2s, link, session, drawn, error>>
    BY <1>4 DEF PlugOut, Answers
  <2> QED
    BY <1>0, <1>1, <2>1, SendingOnePreserves
<1> QED
  BY <1>2, <1>3, <1>4

\* One request is served: what it was the acknowledgement of is drawn as such.
LEMMA ServeRequestPreserves == IInv /\ ServeRequest => IInv'
<1> SUFFICES ASSUME IInv, ServeRequest PROVE IInv'
  OBVIOUS
<1> USE Parts
<1> DEFINE r == Head(c2s)
<1>1. /\ r \in Requests /\ c2s' \in Seq(Requests)
      /\ \A i \in DOMAIN c2s' : /\ i \in Nat /\ i >= 1
                                /\ i + 1 \in DOMAIN c2s /\ c2s'[i] = c2s[i + 1]
      /\ \A i \in DOMAIN c2s : i = 1 \/ (i - 1 \in DOMAIN c2s' /\ c2s'[i - 1] = c2s[i] /\ i \in Nat)
      /\ 1 \in DOMAIN c2s /\ c2s[1] = r
  <2>1. c2s \in Seq(Requests) /\ c2s # <<>> /\ c2s' = Tail(c2s)
    BY DEF ServeRequest, RequestsInOrder
  <2>2. /\ r \in Requests /\ c2s' \in Seq(Requests) /\ Len(c2s') = Len(c2s) - 1
        /\ \A i \in 1 .. Len(c2s') : c2s'[i] = c2s[i + 1]
    BY <2>1, HeadTailProperties
  <2>3. DOMAIN c2s' = 1 .. Len(c2s') /\ DOMAIN c2s = 1 .. Len(c2s) /\ Len(c2s) \in Nat /\ Len(c2s) > 0
    BY <2>1, <2>2, LenProperties, EmptySeq
  <2>4. c2s[1] = r
    BY <2>1
  <2> QED
    BY <2>2, <2>3, <2>4
<1>2. Serve(r) /\ UNCHANGED <<clientVars, out, link, plug>>
  BY DEF ServeRequest
<1> HIDE DEF r
<1>3. /\ pc' = pc /\ pc # "connected"
      /\ UNCHANGED <<outputs_, lock_, locked_, finished_, lock_surfaces_, sized, needs_redraw, unlocked>>
  <2>1. DOMAIN <<>> = {}
    OBVIOUS
  <2> QED
    BY <1>1, <1>2, <2>1 DEF clientVars, objVars, RequestsInOrder
<1>4. /\ r.op \in {"lock", "get_lock_surface", "ack_configure", "commit", "sync"}
      /\ r.op \in {"get_lock_surface", "ack_configure", "commit"} => r.output \in Outputs
  <2>1. r.op \notin {"destroy_surface", "destroy", "unlock_and_destroy"}
    BY <1>1 DEF RequestsInOrder
  <2> QED
    BY <1>1, <2>1 DEF Requests
\* What the head of the queue means for its surface
<1>5. /\ r.op = "lock" => session = "none"
      /\ r.op = "get_lock_surface" => drawn[r.output] = "none"
      /\ r.op = "ack_configure" => drawn[r.output] # "none"
      /\ r.op = "commit" => Acknowledged(r.output)
  <2>1. r.op = "lock" => session = "none"
    BY <1>1 DEF AnswerStands
  <2>2. r.op = "get_lock_surface" => drawn[r.output] = "none"
    BY <1>1 DEF AckedFirst
  <2>3. r.op = "ack_configure" => drawn[r.output] # "none"
    BY <1>1 DEF AckedFirst
  <2>4. r.op = "commit" => Acknowledged(r.output) \/ \E j \in 1 .. (1 - 1) : Acknowledges(c2s, j, r.output)
    BY <1>1 DEF AckedFirst
  <2> QED
    BY <2>1, <2>2, <2>3, <2>4
<1>6. drawn \in [Outputs -> {"none", "created", "acked", "committed"}]
      /\ session \in {"none", "pending", "locked", "refused", "ended", "unlocked"} /\ error = FALSE
      /\ s2c \in Seq(Events)
  BY DEF CompositorTyped, RequestsInOrder
\* A surface changes only when its own request is served, and never back.
<1>7. /\ drawn' \in [Outputs -> {"none", "created", "acked", "committed"}] /\ error' = FALSE
      /\ \A o \in Outputs : /\ drawn[o] # "none" => drawn'[o] # "none"
                            /\ Acknowledged(o) => drawn'[o] \in {"acked", "committed"}
                            /\ drawn'[o] # "none" => drawn[o] # "none" \/ r = Request("get_lock_surface", o)
      /\ r.op = "ack_configure" => drawn'[r.output] \in {"acked", "committed"}
      /\ r.op = "get_lock_surface" => drawn'[r.output] = "created"
  <2>1. CASE r.op \in {"lock", "sync"}
    <3>1. drawn' = drawn /\ error' = error
      BY <1>2, <2>1 DEF Serve
    <3> QED
      BY <1>6, <2>1, <3>1 DEF Acknowledged
  <2>2. CASE r.op = "get_lock_surface"
    <3>1. drawn' = [drawn EXCEPT ![r.output] = "created"] /\ error' = error
      BY <1>2, <2>2 DEF Serve, Draw
    <3>2. r = Request("get_lock_surface", r.output)
      BY <1>1, <2>2 DEF Requests, Request
    <3> QED
      BY <1>4, <1>5, <1>6, <2>2, <3>1, <3>2 DEF Acknowledged
  <2>3. CASE r.op = "ack_configure"
    <3>1. /\ drawn' = [drawn EXCEPT ![r.output] =
                          IF drawn[r.output] = "created" THEN "acked" ELSE drawn[r.output]]
          /\ error' = error
      BY <1>2, <2>3 DEF Serve, Draw
    <3>2. drawn'[r.output] \in {"acked", "committed"}
      BY <1>4, <1>5, <1>6, <2>3, <3>1
    <3> QED
      BY <1>4, <1>5, <1>6, <2>3, <3>1, <3>2 DEF Acknowledged
  <2>4. CASE r.op = "commit"
    <3>1. /\ drawn' = [drawn EXCEPT ![r.output] = "committed"]
          /\ error' = (error \/ drawn[r.output] \notin {"acked", "committed"})
      BY <1>2, <2>4 DEF Serve, Draw
    <3> QED
      BY <1>4, <1>5, <1>6, <2>4, <3>1 DEF Acknowledged
  <2> QED
    BY <1>4, <2>1, <2>2, <2>3, <2>4
<1>8. /\ session' \in {"none", "pending", "locked", "refused", "ended", "unlocked"}
      /\ session' = session \/ (r.op = "lock" /\ session = "none")
      /\ s2c' \in Seq(Events)
      /\ \A i \in DOMAIN s2c' :
            \/ i \in DOMAIN s2c /\ s2c'[i] = s2c[i]
            \/ s2c'[i].ev = "done"
            \/ s2c'[i].ev = "configure" /\ s2c'[i].output = r.output /\ r.op = "get_lock_surface"
  <2>1. ASSUME NEW q \in Seq(Events), Send(q),
               \A k \in DOMAIN q :
                  \/ q[k].ev = "done"
                  \/ q[k].ev = "configure" /\ q[k].output = r.output /\ r.op = "get_lock_surface"
        PROVE  /\ s2c' \in Seq(Events)
               /\ \A i \in DOMAIN s2c' :
                     \/ i \in DOMAIN s2c /\ s2c'[i] = s2c[i]
                     \/ s2c'[i].ev = "done"
                     \/ s2c'[i].ev = "configure" /\ s2c'[i].output = r.output /\ r.op = "get_lock_surface"
    <3>1. /\ s2c' \in Seq(Events)
          /\ \A i \in DOMAIN s2c' : \/ i \in DOMAIN s2c /\ s2c'[i] = s2c[i]
                                    \/ \E k \in DOMAIN q : s2c'[i] = q[k]
      BY <1>6, <2>1, SentIsBehind
    <3> QED
      BY <2>1, <3>1
  <2>2. /\ <<>> \in Seq(Events) /\ DOMAIN <<>> = {}
        /\ <<Event("done", None)>> \in Seq(Events) /\ DOMAIN <<Event("done", None)>> = {1}
        /\ <<Event("done", None)>>[1].ev = "done"
    BY DEF Event, Events
  <2>3. ASSUME NEW o \in Outputs
        PROVE  /\ <<Event("configure", o)>> \in Seq(Events) /\ DOMAIN <<Event("configure", o)>> = {1}
               /\ <<Event("configure", o)>>[1].ev = "configure" /\ <<Event("configure", o)>>[1].output = o
    BY DEF Event, Events
  <2>4. CASE r.op = "lock"
    <3>1. session' = "pending" /\ Send(<<>>)
      BY <1>2, <2>4 DEF Serve, TakeLock
    <3> QED
      BY <1>5, <2>1, <2>2, <2>4, <3>1
  <2>5. CASE r.op = "get_lock_surface"
    <3>1. session' = session
          /\ (Send(<<Event("configure", r.output)>>) \/ Send(<<>>))
      BY <1>2, <2>5 DEF Serve
    <3>2. r.output \in Outputs
      BY <1>4, <2>5
    <3>3. CASE Send(<<Event("configure", r.output)>>)
      <4> DEFINE q == <<Event("configure", r.output)>>
      <4>1. /\ q \in Seq(Events) /\ DOMAIN q = {1} /\ Send(q)
            /\ q[1].ev = "configure" /\ q[1].output = r.output
        BY <2>3, <3>2, <3>3
      <4> HIDE DEF q
      <4> QED
        BY <1>6, <2>1, <2>5, <3>1, <4>1
    <3>4. CASE Send(<<>>)
      BY <1>6, <2>1, <2>2, <3>1, <3>4
    <3> QED
      BY <3>1, <3>3, <3>4
  <2>6. CASE r.op \in {"ack_configure", "commit"}
    <3>1. session' = session /\ Send(<<>>)
      BY <1>2, <2>6 DEF Serve
    <3> QED
      BY <1>6, <2>1, <2>2, <3>1
  <2>7. CASE r.op = "sync"
    <3>1. session' = session /\ Send(<<Event("done", None)>>)
      BY <1>2, <2>7 DEF Serve
    <3> QED
      BY <1>6, <2>1, <2>2, <3>1
  <2> QED
    BY <1>4, <2>4, <2>5, <2>6, <2>7
<1>9. StateTyped' /\ CompositorTyped'
  BY <1>2, <1>3, <1>7, <1>8 DEF StateTyped, CompositorTyped
<1>10. RequestsInOrder'
  BY <1>1, <1>2, <1>3, <1>8 DEF RequestsInOrder
<1>11. AnswerStands'
  <2>1. \A i \in DOMAIN c2s' : c2s'[i].op # "lock"
    BY <1>1 DEF AnswerStands
  <2>2. /\ session \in WasLocked => session' \in WasLocked
        /\ session \in Over => session' \in Over
    BY <1>8 DEF WasLocked, Over
  <2>3. \A i \in DOMAIN s2c' : /\ s2c'[i].ev = "locked"   => session' \in WasLocked
                               /\ s2c'[i].ev = "finished" => session' \in Over
    <3>1. \A i \in DOMAIN s2c : /\ s2c[i].ev = "locked"   => session \in WasLocked
                                /\ s2c[i].ev = "finished" => session \in Over
      BY DEF AnswerStands
    <3> QED
      BY <1>8, <2>2, <3>1
  <2>4. /\ locked_' => session' \in WasLocked
        /\ finished_' => session' \in Over
    BY <1>3, <2>2 DEF AnswerStands
  <2>5. \A i \in DOMAIN out' : out'[i].op = "unlock_and_destroy" => session' \in WasLocked
    BY <1>2, <2>2 DEF AnswerStands
  <2> QED
    BY <1>3, <2>1, <2>3, <2>4, <2>5 DEF AnswerStands
<1>12. AckedFirst'
  <2>1. ASSUME NEW i \in DOMAIN c2s', c2s'[i].op = "get_lock_surface"
        PROVE  /\ drawn'[c2s'[i].output] = "none"
               /\ \A j \in DOMAIN c2s' : c2s'[j] = c2s'[i] => i = j
    <3>1. c2s[i + 1].op = "get_lock_surface" /\ i + 1 \in DOMAIN c2s /\ c2s'[i] = c2s[i + 1]
          /\ i \in Nat /\ i >= 1
      BY <1>1, <2>1
    <3>2. /\ drawn[c2s'[i].output] = "none"
          /\ \A j \in DOMAIN c2s : c2s[j] = c2s[i + 1] => i + 1 = j
      BY <3>1 DEF AckedFirst
    <3>3. c2s[i + 1] \in Requests
      BY <3>1, ElementOfSeq, LenProperties DEF RequestsInOrder
    <3>4. c2s'[i] = Request("get_lock_surface", c2s'[i].output) /\ c2s'[i].output \in Outputs
      BY <3>1, <3>3 DEF Requests, Request
    <3>5. r # c2s'[i]
      BY <1>1, <3>1, <3>2
    <3>6. drawn'[c2s'[i].output] = "none"
      BY <1>7, <3>2, <3>4, <3>5
    <3>7. \A j \in DOMAIN c2s' : c2s'[j] = c2s'[i] => i = j
      BY <1>1, <3>1, <3>2
    <3> QED
      BY <3>6, <3>7
  <2>2. \A i \in DOMAIN s2c' : s2c'[i].ev = "configure" => drawn'[s2c'[i].output] # "none"
    <3>1. \A i \in DOMAIN s2c : s2c[i].ev = "configure" => s2c[i].output \in Outputs
                                                           /\ drawn[s2c[i].output] # "none"
      <4>1. \A i \in DOMAIN s2c : s2c[i] \in Events
        BY <1>6, ElementOfSeq, LenProperties
      <4> QED
        BY <4>1 DEF AckedFirst, Events
    <3> QED
      BY <1>7, <1>8, <3>1
  <2>3. \A i \in DOMAIN c2s' : c2s'[i].op \in {"ack_configure", "commit"} => c2s'[i].output \in Outputs
    <3>1. \A i \in DOMAIN c2s' : c2s'[i] \in Requests
      BY <1>1, ElementOfSeq, LenProperties
    <3> QED
      BY <3>1 DEF Requests
  <2>4. \A i \in DOMAIN c2s' : c2s'[i].op = "ack_configure" => drawn'[c2s'[i].output] # "none"
    <3>1. \A i \in DOMAIN c2s : c2s[i].op = "ack_configure" => drawn[c2s[i].output] # "none"
      BY DEF AckedFirst
    <3>2. ASSUME NEW i \in DOMAIN c2s', c2s'[i].op = "ack_configure"
          PROVE  drawn'[c2s'[i].output] # "none"
      <4>1. drawn[c2s'[i].output] # "none" /\ c2s'[i].output \in Outputs
        BY <1>1, <2>3, <3>1, <3>2
      <4> QED
        BY <1>7, <4>1
    <3> QED
      BY <3>2
  <2>5. \A i \in DOMAIN out' : out'[i].op = "ack_configure" => drawn'[out'[i].output] # "none"
    <3>1. out' = out
      BY <1>2
    <3>2. \A i \in DOMAIN out : out[i].op = "ack_configure" => out[i].output \in Outputs
                                                               /\ drawn[out[i].output] # "none"
      <4>1. \A i \in DOMAIN out : out[i] \in Requests
        BY ElementOfSeq, LenProperties DEF RequestsInOrder
      <4> QED
        BY <4>1 DEF AckedFirst, Requests
    <3> QED
      BY <1>7, <3>1, <3>2
  <2>6. ASSUME NEW o \in Outputs, NEW j \in DOMAIN c2s, Acknowledges(c2s, j, o)
        PROVE  \/ drawn'[o] \in {"acked", "committed"}
               \/ j - 1 \in DOMAIN c2s' /\ Acknowledges(c2s', j - 1, o)
    <3>1. CASE j = 1
      BY <1>1, <1>7, <2>6, <3>1 DEF Acknowledges
    <3>2. CASE j # 1
      BY <1>1, <2>6, <3>2 DEF Acknowledges
    <3> QED
      BY <3>1, <3>2
  <2>7. ASSUME NEW i \in DOMAIN c2s', c2s'[i].op = "commit"
        PROVE  \/ drawn'[c2s'[i].output] \in {"acked", "committed"}
               \/ \E j \in 1 .. (i - 1) : Acknowledges(c2s', j, c2s'[i].output)
    <3> DEFINE o == c2s'[i].output
    <3>1. i + 1 \in DOMAIN c2s /\ c2s'[i] = c2s[i + 1] /\ i \in Nat /\ o \in Outputs
      BY <1>1, <2>3, <2>7
    <3>2. \/ Acknowledged(o)
          \/ \E j \in 1 .. i : Acknowledges(c2s, j, o)
      BY <2>7, <3>1 DEF AckedFirst
    <3>3. CASE Acknowledged(o)
      BY <1>7, <3>1, <3>3
    <3>4. CASE \E j \in 1 .. i : Acknowledges(c2s, j, o)
      <4>1. PICK j \in 1 .. i : Acknowledges(c2s, j, o)
        BY <3>4
      <4>2. j \in DOMAIN c2s
        BY <3>1, LenProperties DEF RequestsInOrder
      <4>3. \/ drawn'[o] \in {"acked", "committed"}
            \/ j - 1 \in DOMAIN c2s' /\ Acknowledges(c2s', j - 1, o)
        BY <2>6, <3>1, <4>1, <4>2
      <4>4. j - 1 \in DOMAIN c2s' => j - 1 \in 1 .. (i - 1)
        BY <1>1, <3>1, <4>1
      <4> QED
        BY <4>3, <4>4
    <3> QED
      BY <3>2, <3>3, <3>4
  <2>8. ASSUME link = "up", NEW o \in sized
        PROVE  \/ drawn'[o] \in {"acked", "committed"}
               \/ \E j \in DOMAIN c2s' : Acknowledges(c2s', j, o)
               \/ \E j \in DOMAIN out : Acknowledges(out, j, o)
    <3>1. o \in Outputs
      BY DEF StateTyped
    <3>2. \/ Acknowledged(o)
          \/ \E j \in DOMAIN c2s : Acknowledges(c2s, j, o)
          \/ \E j \in DOMAIN out : Acknowledges(out, j, o)
      BY <2>8 DEF AckedFirst
    <3> QED
      BY <1>7, <2>6, <3>1, <3>2
  <2>9. link' = link /\ sized' = sized /\ out' = out /\ pc' # "connected"
    BY <1>2, <1>3
  <2> QED
    BY <2>1, <2>2, <2>4, <2>5, <2>7, <2>8, <2>9 DEF AckedFirst, Acknowledged, Acknowledges
<1> QED
  BY <1>9, <1>10, <1>11, <1>12, PartsAfter

-----------------------------------------------------------------------------

LEMMA CutOffPreserves == IInv /\ CutOff => IInv'
<1> SUFFICES ASSUME IInv, CutOff PROVE IInv'
  OBVIOUS
<1> USE Parts
<1>1. link' = "lost" /\ UNCHANGED <<clientVars, out, c2s, s2c, compVars>>
  BY DEF CutOff
<1>2. StateTyped' /\ CompositorTyped'
  BY <1>1 DEF StateTyped, CompositorTyped, clientVars, objVars, compVars
<1>3. RequestsInOrder'
  BY <1>1 DEF RequestsInOrder, clientVars, objVars
<1>4. AnswerStands'
  BY <1>1 DEF AnswerStands, clientVars, objVars, compVars
<1>5. AckedFirst'
  BY <1>1 DEF AckedFirst, Acknowledged, Acknowledges, clientVars, objVars, compVars
<1> QED
  BY <1>2, <1>3, <1>4, <1>5, PartsAfter

LEMMA StutterKeeps ==
    ASSUME IInv, UNCHANGED vars
    PROVE  IInv'
<1> USE Parts
<1> USE DEF vars, clientVars, objVars, compVars
<1>1. StateTyped' /\ CompositorTyped'
  BY DEF StateTyped, CompositorTyped
<1>2. RequestsInOrder'
  BY DEF RequestsInOrder
<1>3. AnswerStands'
  BY DEF AnswerStands
<1>4. AckedFirst'
  BY DEF AckedFirst, Acknowledged, Acknowledges
<1> QED
  BY <1>1, <1>2, <1>3, <1>4, PartsAfter

\* The two steps that flush: what was asked for so far, or what a turn drew as well
LEMMA FlushPreserves == IInv /\ (FirstDispatchFlushes \/ RenderAndPoll) => IInv'
<1> SUFFICES ASSUME IInv, FirstDispatchFlushes \/ RenderAndPoll PROVE IInv'
  OBVIOUS
<1> USE Parts
<1>0. out \in Seq(Requests) /\ <<>> \in Seq(Requests) /\ DOMAIN <<>> = {}
  BY DEF RequestsInOrder
<1>1. CASE FirstDispatchFlushes
  <2>1. out \o <<>> = out
    BY <1>0, ConcatEmptySeq
  <2>2. /\ pc = "firstDispatch" /\ pc' = pc /\ c2s' = Flushed(out) /\ out' = <<>>
        /\ UNCHANGED <<clientVars, s2c, link, compVars>>
    BY <1>1 DEF FirstDispatchFlushes, clientVars
  <2>3. UNCHANGED <<outputs_, lock_, locked_, finished_, lock_surfaces_, sized, needs_redraw, unlocked,
                    s2c, link, session, drawn, plug, error>>
    BY <2>2 DEF clientVars, objVars, compVars
  <2>4. RequestsInOrder' /\ AnswerStands' /\ AckedFirst'
    BY <1>0, <2>1, <2>2, <2>3, FlushKeepsOrder
  <2>5. StateTyped' /\ CompositorTyped'
    BY <2>2, <2>3 DEF StateTyped, CompositorTyped
  <2> QED
    BY <2>4, <2>5, PartsAfter
<1>2. CASE RenderAndPoll
  <2> DEFINE F == ForEach("commit", needs_redraw \cap sized)
  <2>1. needs_redraw \cap sized \in SUBSET Outputs
    BY DEF StateTyped
  <2>2. /\ F \in Seq(Requests)
        /\ \A k \in DOMAIN F : F[k].op = "commit" /\ F[k].output \in sized
    BY <2>1, ForEachLists
  <2>3. /\ pc = "loop" /\ pc' = "poll" /\ c2s' = Flushed(out \o F) /\ out' = <<>>
        /\ needs_redraw' = needs_redraw \ sized
        /\ UNCHANGED <<outputs_, lock_, locked_, finished_, lock_surfaces_, sized, unlocked,
                       s2c, link, session, drawn, plug, error>>
    BY <1>2 DEF RenderAndPoll, compVars
  <2> HIDE DEF F
  <2>4. RequestsInOrder' /\ AnswerStands' /\ AckedFirst'
    BY <2>2, <2>3, FlushKeepsOrder
  <2>5. StateTyped' /\ CompositorTyped'
    BY <2>3 DEF StateTyped, CompositorTyped, Places
  <2> QED
    BY <2>4, <2>5, PartsAfter
<1> QED
  BY <1>1, <1>2

LEMMA NextPreserves == IInv /\ [Next]_vars => IInv'
<1> SUFFICES ASSUME IInv, [Next]_vars PROVE IInv'
  OBVIOUS
<1>0. needs_redraw \subseteq lock_surfaces_ /\ unlocked \in BOOLEAN
  BY Parts DEF StateTyped
<1>1. CASE RoundtripFails \/ RoundtripReturns \/ FirstDispatchFails \/ NextTurn \/ ConnectionLost
  <2>1. /\ pc \notin {"connected", "exit", "gone"} /\ pc' \in Places \ {"connected", "gone"}
        /\ UNCHANGED <<objVars, unlocked, out, c2s, s2c, link, compVars>>
    BY <1>1 DEF RoundtripFails, RoundtripReturns, FirstDispatchFails, NextTurn, ConnectionLost, Places
  <2> QED
    BY <1>0, <2>1, MovesOn DEF objVars
<1>2. CASE RedrawAll
  <2>1. /\ pc \notin {"connected", "exit", "gone"} /\ pc' \in Places \ {"connected", "gone"}
        /\ needs_redraw' \subseteq lock_surfaces_
        /\ UNCHANGED <<outputs_, lock_, locked_, finished_, lock_surfaces_, sized, unlocked,
                       out, c2s, s2c, link, compVars>>
    BY <1>2 DEF RedrawAll, Places
  <2> QED
    BY <1>0, <2>1, MovesOn
<1>3. CASE lock_session
  BY <1>3, LockSessionPreserves
<1>4. CASE DispatchEvent
  BY <1>4, DispatchEventPreserves
<1>5. CASE FirstDispatchFlushes \/ RenderAndPoll
  BY <1>5, FlushPreserves
<1>6. CASE ExitProgram
  BY <1>6, ExitProgramPreserves
<1>7. CASE Destroy
  BY <1>7, DestroyPreserves
<1>8. CASE ServeRequest
  BY <1>8, ServeRequestPreserves
<1>9. CASE SendLocked \/ SendFinished \/ Notify(Event("other", None))
  BY <1>9, AnswerPreserves
<1>10. ASSUME NEW o \in Outputs, PlugIn(o) \/ PlugOut(o) \/ Notify(Event("configure", o))
       PROVE  IInv'
  BY <1>10, DisplayPreserves
<1>11. CASE CutOff
  BY <1>11, CutOffPreserves
<1>12. CASE UNCHANGED vars
  BY <1>12, StutterKeeps
<1> QED
  BY <1>1, <1>2, <1>3, <1>4, <1>5, <1>6, <1>7, <1>8, <1>9, <1>10, <1>11, <1>12
  DEF Next, ClientStep, CompositorStep, Terminated

THEOREM Invariance == Spec => []IInv
<1>1. Init => IInv
  BY InitEstablishes
<1>2. IInv /\ [Next]_vars => IInv'
  BY NextPreserves
<1> QED
  BY <1>1, <1>2, PTL DEF Spec

\* The state and all that is under way keep their types: an event for a surface names
\* an output, and no surface is listed of an output unknown (client.cpp:508-528).
THEOREM TypesHold == Spec => []TypeOK
<1>1. IInv => TypeOK
  BY DEF IInv
<1> QED
  BY <1>1, Invariance, PTL

\* No commit overtakes the acknowledgement of the surface's first configure, with any
\* number of displays and messages under way, and wherever main flushes
\* (client.cpp:508-520, main.cpp:134).
THEOREM NoCommitUnacknowledged == Spec => []NoProtocolError
<1>1. IInv => NoProtocolError
  BY DEF IInv, NoProtocolError
<1> QED
  BY <1>1, Invariance, PTL

\* unlock_and_destroy waits in the buffer only where the compositor has sent locked
\* (client.cpp:264-281).
THEOREM UnlocksOnlyTheLocked == Spec => []UnlockFollowsLocked
<1>1. IInv => UnlockFollowsLocked
  <2> SUFFICES ASSUME IInv, NEW r \in Range(out), r.op = "unlock_and_destroy"
               PROVE  session \in WasLocked
    BY DEF UnlockFollowsLocked
  <2>1. PICK i \in DOMAIN out : out[i] = r
    BY DEF Range
  <2>2. AnswerStands
    BY DEF IInv
  <2> QED
    BY <2>1, <2>2 DEF AnswerStands
<1> QED
  BY <1>1, Invariance, PTL

-----------------------------------------------------------------------------
(* The end of a lock that was granted *)

\* What is sent leaves alone what is under way.
LEMMA SentKeeps ==
    ASSUME s2c \in Seq(Events), NEW q \in Seq(Events), Send(q)
    PROVE  \A i \in DOMAIN s2c : i \in DOMAIN s2c' /\ s2c'[i] = s2c[i]
<1>1. CASE link # "up"
  BY <1>1 DEF Send
<1>2. CASE link = "up"
  <2>1. s2c' = s2c \o q
    BY <1>2 DEF Send
  <2>2. /\ s2c' \in Seq(Events) /\ Len(s2c') = Len(s2c) + Len(q)
        /\ \A i \in 1 .. Len(s2c) + Len(q) :
              s2c'[i] = IF i <= Len(s2c) THEN s2c[i] ELSE q[i - Len(s2c)]
    BY <2>1, ConcatProperties
  <2>3. DOMAIN s2c' = 1 .. Len(s2c') /\ DOMAIN s2c = 1 .. Len(s2c)
        /\ Len(s2c) \in Nat /\ Len(q) \in Nat
    BY <2>2, LenProperties
  <2> QED
    BY <2>2, <2>3
<1> QED
  BY <1>1, <1>2

\* Nothing else ends a lock, and all that is sent comes behind what is under way.
LEMMA OthersKeepEnd ==
    ASSUME IInv, EndIsTold, NEW q \in Seq(Events), Send(q),
           session' = "ended" => session = "ended", finished_' = finished_
    PROVE  EndIsTold'
<1>1. s2c \in Seq(Events)
  BY DEF IInv, RequestsInOrder
<1>2. \A i \in DOMAIN s2c : i \in DOMAIN s2c' /\ s2c'[i] = s2c[i]
  BY <1>1, SentKeeps
<1> QED
  BY <1>2 DEF EndIsTold, FinishedUnderWay

\* The compositor says that it ended the lock in the same step; the client takes the
\* events in order, and notes the end when it comes to it.
LEMMA EndStaysTold == IInv /\ EndIsTold /\ [Next]_vars => EndIsTold'
<1> SUFFICES ASSUME IInv, EndIsTold, [Next]_vars PROVE EndIsTold'
  OBVIOUS
<1>0. s2c \in Seq(Events) /\ finished_ \in BOOLEAN
  BY DEF IInv, RequestsInOrder, TypeOK
<1>1. CASE DispatchEvent
  <2> DEFINE e == Head(s2c)
  <2>1. /\ \A i \in DOMAIN s2c : i = 1 \/ (i - 1 \in DOMAIN s2c' /\ s2c'[i - 1] = s2c[i])
        /\ s2c[1] = e
    <3>1. s2c # <<>> /\ s2c' = Tail(s2c)
      BY <1>1 DEF DispatchEvent
    <3>2. /\ s2c' \in Seq(Events) /\ Len(s2c') = Len(s2c) - 1
          /\ \A i \in 1 .. Len(s2c') : s2c'[i] = s2c[i + 1]
      BY <1>0, <3>1, HeadTailProperties
    <3>3. DOMAIN s2c' = 1 .. Len(s2c') /\ DOMAIN s2c = 1 .. Len(s2c) /\ Len(s2c) \in Nat
      BY <1>0, <3>2, LenProperties
    <3>4. ASSUME NEW i \in DOMAIN s2c, i # 1
          PROVE  i - 1 \in DOMAIN s2c' /\ s2c'[i - 1] = s2c[i]
      <4>1. i - 1 \in 1 .. Len(s2c') /\ (i - 1) + 1 = i
        BY <3>2, <3>3, <3>4
      <4> QED
        BY <3>2, <3>3, <4>1
    <3> QED
      BY <3>4
  <2>2. Handle(e) /\ session' = session
    BY <1>1 DEF DispatchEvent, compVars
  <2> HIDE DEF e
  <2>3. finished_' = TRUE \/ (finished_' = finished_ /\ e.ev # "finished")
    BY <2>2 DEF Handle, handle_lock_surface_configure, handle_lock_locked,
                handle_lock_finished, handle_registry_global
  <2>4. CASE finished_' = TRUE
    BY <2>4 DEF EndIsTold
  <2>5. CASE finished_' = finished_ /\ e.ev # "finished"
    BY <2>1, <2>2, <2>5 DEF EndIsTold, FinishedUnderWay
  <2> QED
    BY <2>3, <2>4, <2>5
<1>2. CASE SendFinished
  <2> DEFINE q == <<Event("finished", None)>>
  <2>1. q \in Seq(Events) /\ Len(q) = 1 /\ q[1].ev = "finished"
    BY DEF Event, Events
  <2>2. s2c' = s2c \o q
    BY <1>2 DEF SendFinished, Send
  <2> HIDE DEF q
  <2>3. /\ s2c' \in Seq(Events) /\ Len(s2c') = Len(s2c) + 1
        /\ s2c'[Len(s2c) + 1] = q[1]
    <3>1. /\ s2c' \in Seq(Events) /\ Len(s2c') = Len(s2c) + Len(q)
          /\ \A i \in 1 .. Len(s2c) + Len(q) :
                s2c'[i] = IF i <= Len(s2c) THEN s2c[i] ELSE q[i - Len(s2c)]
      BY <1>0, <2>1, <2>2, ConcatProperties
    <3>2. Len(s2c) \in Nat
      BY <1>0, LenProperties
    <3> QED
      BY <2>1, <3>1, <3>2
  <2>4. Len(s2c) + 1 \in DOMAIN s2c'
    BY <1>0, <2>3, LenProperties
  <2> QED
    BY <2>1, <2>3, <2>4 DEF EndIsTold, FinishedUnderWay
<1>3. <<>> \in Seq(Events)
      /\ \A e \in Events : <<e>> \in Seq(Events)
  OBVIOUS
<1>4. CASE ServeRequest
  <2>1. Serve(Head(c2s)) /\ finished_' = finished_
    BY <1>4 DEF ServeRequest, clientVars, objVars
  <2>2. session' = "ended" => session = "ended"
    BY <2>1 DEF Serve, TakeLock
  <2>3. \E q \in Seq(Events) : Send(q)
    <3>1. Head(c2s) \in Requests
      <4>1. c2s \in Seq(Requests) /\ c2s # <<>>
        BY <1>4 DEF ServeRequest, IInv, RequestsInOrder
      <4> QED
        BY <4>1, HeadTailProperties
    <3>2. Event("done", None) \in Events
          /\ \A o \in Outputs : Event("configure", o) \in Events
      BY DEF Event, Events
    <3>3. Head(c2s).op = "get_lock_surface" => Head(c2s).output \in Outputs
      BY <3>1 DEF Requests
    <3>4. Send(<<>>) \/ Send(<<Event("done", None)>>)
          \/ (Head(c2s).op = "get_lock_surface" /\ Send(<<Event("configure", Head(c2s).output)>>))
      BY <2>1 DEF Serve, TakeLock
    <3> QED
      BY <1>3, <3>2, <3>3, <3>4
  <2> QED
    BY <2>1, <2>2, <2>3, OthersKeepEnd
<1>5. CASE SendLocked \/ Notify(Event("other", None))
           \/ \E o \in Outputs : PlugIn(o) \/ PlugOut(o) \/ Notify(Event("configure", o))
  <2>1. /\ finished_' = finished_ /\ (session' = "ended" => session = "ended")
        /\ \E e \in Events : Send(<<e>>)
    <3>1. /\ Event("locked", None) \in Events /\ Event("other", None) \in Events
          /\ \A o \in Outputs : /\ Event("configure", o) \in Events
                                /\ Event("global", o) \in Events /\ Event("removed", o) \in Events
      BY DEF Event, Events
    <3> QED
      BY <1>5, <3>1 DEF SendLocked, Notify, PlugIn, PlugOut, clientVars, objVars, compVars
  <2> QED
    BY <1>3, <2>1, OthersKeepEnd
<1>6. CASE UNCHANGED <<finished_, s2c, session>>
  BY <1>6 DEF EndIsTold, FinishedUnderWay
<1>7. CASE \/ lock_session \/ RoundtripFails \/ RoundtripReturns
           \/ FirstDispatchFlushes \/ FirstDispatchFails \/ NextTurn \/ RenderAndPoll \/ Destroy
           \/ RedrawAll \/ ExitProgram \/ ConnectionLost \/ CutOff \/ UNCHANGED vars
  <2>1. UNCHANGED <<finished_, s2c, session>>
    BY <1>7 DEF lock_session, RoundtripFails, RoundtripReturns, FirstDispatchFlushes,
                FirstDispatchFails, NextTurn, RenderAndPoll, Destroy, RedrawAll, ExitProgram,
                ConnectionLost, CutOff, vars, clientVars, objVars, compVars
  <2> QED
    BY <1>6, <2>1
<1> QED
  BY <1>1, <1>2, <1>4, <1>5, <1>7 DEF Next, ClientStep, CompositorStep, Terminated

\* Where the client takes itself to have the lock, the compositor locks the session, or
\* has sent word that it no longer does, whenever the lock fails or ends: before or after
\* the configures, before or after locked (client.cpp:522-528).
THEOREM LockedIsTheCompositors == Spec => []LockedAgrees
<1>1. Init => EndIsTold
  BY DEF Init, EndIsTold
<1>2. IInv /\ EndIsTold => LockedAgrees
  <2>1. IInv => (locked_ => session \in WasLocked)
    BY DEF IInv, AnswerStands
  <2> QED
    BY <2>1 DEF WasLocked, EndIsTold, LockedAgrees
<1> QED
  BY <1>1, <1>2, EndStaysTold, Invariance, PTL DEF Spec
=============================================================================
