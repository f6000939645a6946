------------------------------ MODULE GraceProofs ------------------------------
(***************************************************************************)
(* The safety properties of Grace, for any number of runs, any grace       *)
(* periods and clock settings, from the inductive invariant IInv, after    *)
(* what the parser makes of any file.                                      *)
(***************************************************************************)
EXTENDS Grace, TLAPS, WellFoundedInduction

-----------------------------------------------------------------------------
(* Induction on sets of numbers *)

LEMMA AllNumbers ==
    ASSUME NEW T \in SUBSET Nat, 0 \in T, \A n \in T : n + 1 \in T
    PROVE  T = Nat
<1> DEFINE Left == Nat \ T
<1> SUFFICES ASSUME Left # {} PROVE FALSE
  OBVIOUS
<1>1. PICK d \in Left : \A e \in Left : ~(<<e, d>> \in OpToRel(<, Nat))
  BY WFMin, NatLessThanWellFounded, Zenon
<1>2. d \in Nat /\ d \notin T /\ d # 0
  OBVIOUS
<1>3. d - 1 \in Nat /\ d - 1 < d /\ (d - 1) + 1 = d
  BY <1>2
<1>4. d - 1 \in T
  BY <1>1, <1>2, <1>3 DEF OpToRel
<1> QED
  BY <1>2, <1>3, <1>4

-----------------------------------------------------------------------------
(* The parser *)

\* The loop over the lines computes what AfterLine says.
LEMMA LineByLine ==
    ASSUME NEW lines, Len(lines) \in Nat
    PROVE  AfterLine(lines) =
             [i \in 0..Len(lines) |-> IF i = 0 THEN Fresh ELSE Line(AfterLine(lines)[i - 1], lines[i])]
<1> DEFINE Is(f, n) == f = [i \in 0..n |-> IF i = 0 THEN Fresh ELSE Line(f[i - 1], lines[i])]
           T == {n \in Nat : \E f : Is(f, n)}
<1>1. 0 \in T
  <2> DEFINE f == [i \in 0..0 |-> Fresh]
  <2>1. Is(f, 0)
    OBVIOUS
  <2> QED
    BY <2>1
<1>2. ASSUME NEW n \in T PROVE n + 1 \in T
  <2>1. n \in Nat /\ \E f : Is(f, n)
    OBVIOUS
  <2>2. PICK f : Is(f, n)
    BY <2>1
  <2> DEFINE g == [i \in 0..(n + 1) |-> IF i = n + 1 THEN Line(f[n], lines[n + 1]) ELSE f[i]]
  <2>3. \A i \in 0..n : g[i] = f[i]
    BY <2>1
  <2>4. ASSUME NEW i \in 0..(n + 1)
        PROVE  g[i] = IF i = 0 THEN Fresh ELSE Line(g[i - 1], lines[i])
    <3>1. CASE i = n + 1
      <4>1. i # 0 /\ i - 1 = n /\ n \in 0..n
        BY <2>1, <3>1
      <4>2. g[i] = Line(f[n], lines[i])
        BY <3>1
      <4> QED
        BY <2>3, <4>1, <4>2
    <3>2. CASE i # n + 1
      <4>1. i \in 0..n /\ (i # 0 => i - 1 \in 0..n)
        BY <2>1, <3>2
      <4>2. f[i] = IF i = 0 THEN Fresh ELSE Line(f[i - 1], lines[i])
        BY <2>2, <4>1
      <4> HIDE DEF g
      <4> QED
        BY <2>3, <4>1, <4>2
    <3> QED
      BY <3>1, <3>2
  <2>5. Is(g, n + 1)
    <3>1. g = [i \in 0..(n + 1) |-> g[i]]
      OBVIOUS
    <3> HIDE DEF g
    <3> QED
      BY <2>4, <3>1
  <2> HIDE DEF g, Is
  <2> QED
    BY <2>1, <2>5
<1>3. T = Nat
  <2>1. T \in SUBSET Nat
    OBVIOUS
  <2> HIDE DEF T
  <2> QED
    BY <1>1, <1>2, <2>1, AllNumbers
<1>4. \E f : Is(f, Len(lines))
  BY <1>3
<1>5. AfterLine(lines) = CHOOSE f : Is(f, Len(lines))
  BY DEF AfterLine
<1> HIDE DEF Is
<1>6. Is(AfterLine(lines), Len(lines))
  BY <1>4, <1>5
<1> QED
  BY <1>6 DEF Is

State(s, c, t) == [section |-> s, cfg |-> c, threw |-> t]

LEMMA SectionSet ==
    ASSUME NEW s, NEW c, NEW t, NEW v, NEW q, q = [State(s, c, t) EXCEPT !.section = v]
    PROVE  q = State(v, c, t)
<1>1. q = [k \in {"section", "cfg", "threw"} |-> q[k]] /\ q.section = v /\ q.cfg = c /\ q.threw = t
  BY DEF State
<1> QED
  BY <1>1 DEF State

LEMMA ThrewSet ==
    ASSUME NEW s, NEW c, NEW t, NEW q, q = [State(s, c, t) EXCEPT !.threw = TRUE]
    PROVE  q = State(s, c, TRUE)
<1>1. q = [k \in {"section", "cfg", "threw"} |-> q[k]] /\ q.section = s /\ q.cfg = c /\ q.threw = TRUE
  BY DEF State
<1> QED
  BY <1>1 DEF State

\* q is what a line may make of the section s, the Config c and the flag t.
Turn(s, c, t, line, q) ==
    LET sets == line.type = "pair" /\ IsField(s, line.key)
        kind == Fields[s][line.key]
    IN  \/ t /\ q = State(s, c, t)
        \/ ~t /\ line.type = "header" /\ q = State(line.section, c, t)
        \/ ~t /\ sets /\ Unreadable(kind, line.value) /\ q = State(s, c, TRUE)
        \/ /\ ~t /\ sets /\ ~Unreadable(kind, line.value)
           /\ q = State(s, [c EXCEPT ![s][line.key] = Convert(kind, line.value)], t)
        \/ ~t /\ line.type # "header" /\ ~sets /\ q = State(s, c, t)

LEMMA LineCases ==
    ASSUME NEW s, NEW c, NEW t \in BOOLEAN, NEW line
    PROVE  Turn(s, c, t, line, Line(State(s, c, t), line))
<1> DEFINE p == State(s, c, t)
           kind == Fields[s][line.key]
<1>1. p.section = s /\ p.cfg = c /\ p.threw = t
  BY DEF State
<1>2. CASE t
  BY <1>1, <1>2 DEF Line, Turn
<1>3. CASE ~t /\ line.type = "header"
  <2>1. Line(p, line) = [p EXCEPT !.section = line.section]
    BY <1>1, <1>3 DEF Line
  <2>2. [p EXCEPT !.section = line.section] = State(line.section, c, t)
    <3> PICK q : q = [p EXCEPT !.section = line.section]
      OBVIOUS
    <3> QED
      BY SectionSet
  <2> QED
    BY <1>3, <2>1, <2>2 DEF Turn
<1>4. CASE ~t /\ line.type = "pair" /\ IsField(s, line.key)
  <2>1. Line(p, line) = Assign(p, line.key, line.value)
    BY <1>1, <1>4 DEF Line
  <2>2. CASE Unreadable(kind, line.value)
    <3>1. Assign(p, line.key, line.value) = [p EXCEPT !.threw = TRUE]
      BY <1>1, <2>2 DEF Assign
    <3>2. [p EXCEPT !.threw = TRUE] = State(s, c, TRUE)
      <4> PICK q : q = [p EXCEPT !.threw = TRUE]
        OBVIOUS
      <4> QED
        BY ThrewSet
    <3> QED
      BY <1>4, <2>1, <2>2, <3>1, <3>2 DEF Turn
  <2>3. CASE ~Unreadable(kind, line.value)
    <3>1. Assign(p, line.key, line.value) = [p EXCEPT !.cfg[s][line.key] = Convert(kind, line.value)]
      BY <1>1, <2>3 DEF Assign
    <3>2. [p EXCEPT !.cfg[s][line.key] = Convert(kind, line.value)]
            = State(s, [c EXCEPT ![s][line.key] = Convert(kind, line.value)], t)
      <4> HIDE DEF kind
      <4> QED
        BY DEF State
    <3> QED
      BY <1>4, <2>1, <2>3, <3>1, <3>2 DEF Turn
  <2> QED
    BY <2>2, <2>3
<1>5. CASE ~t /\ line.type # "header" /\ ~(line.type = "pair" /\ IsField(s, line.key))
  BY <1>1, <1>5 DEF Line, Turn
<1> QED
  BY <1>2, <1>3, <1>4, <1>5

\* A header begins a section, and nothing else does.
LEMMA SectionNext ==
    ASSUME NEW lines, NEW i \in Nat, i >= 1
    PROVE  SectionAt(lines, i + 1) = IF lines[i].type = "header" THEN lines[i].section
                                                                 ELSE SectionAt(lines, i)
<1> DEFINE headers(n) == {j \in 1..(n - 1) : lines[j].type = "header"}
           Section(H) == IF H = {} THEN "" ELSE lines[CHOOSE j \in H : \A k \in H : k <= j].section
<1>1. \A n : SectionAt(lines, n) = Section(headers(n))
  BY DEF SectionAt
<1>2. CASE lines[i].type = "header"
  <2>1. i \in headers(i + 1) /\ \A k \in headers(i + 1) : k \in Int /\ k <= i
    BY <1>2
  <2> PICK H : H = headers(i + 1)
    OBVIOUS
  <2>2. \A j \in H : (\A k \in H : k <= j) => j = i
    BY <2>1
  <2>3. (CHOOSE j \in H : \A k \in H : k <= j) = i
    BY <2>1, <2>2
  <2> HIDE DEF headers
  <2>4. Section(H) = lines[i].section
    BY <2>1, <2>3
  <2> QED
    BY <1>1, <1>2, <2>4
<1>3. CASE lines[i].type # "header"
  <2>1. headers(i + 1) = headers(i)
    BY <1>3
  <2> HIDE DEF headers, Section
  <2> QED
    BY <1>1, <1>3, <2>1
<1> QED
  BY <1>2, <1>3

\* The givers among the first i lines, and the value they give
GiversTo(lines, s, k, i) == {j \in Givers(lines, s, k) : j <= i}

Given(s, k, lines, givers) ==
    IF givers = {} THEN Defaults[s][k]
    ELSE Convert(Fields[s][k], lines[CHOOSE i \in givers : \A j \in givers : j <= i].value)

LEMMA GiversNext ==
    ASSUME NEW lines, Len(lines) \in Nat, DOMAIN lines = 1..Len(lines), NEW i \in Nat, NEW s, NEW k
    PROVE  LET now == GiversTo(lines, s, k, i + 1)
           IN  /\ GiversTo(lines, s, k, 0) = {}
               /\ i + 1 \notin Givers(lines, s, k) => now = GiversTo(lines, s, k, i)
               /\ i + 1 \in Givers(lines, s, k) =>
                    /\ now = GiversTo(lines, s, k, i) \cup {i + 1}
                    /\ Given(s, k, lines, now) = Convert(Fields[s][k], lines[i + 1].value)
<1>1. Givers(lines, s, k) \subseteq 1..Len(lines)
  BY DEF Givers
<1> PICK G : G = Givers(lines, s, k)
  OBVIOUS
<1> PICK n \in Nat : n = i + 1
  OBVIOUS
<1>2. {j \in G : j <= 0} = {}
  BY <1>1
<1>3. ASSUME n \notin G
      PROVE  {j \in G : j <= n} = {j \in G : j <= i}
  BY <1>1, <1>3
<1>4. ASSUME n \in G
      PROVE  {j \in G : j <= n} = {j \in G : j <= i} \cup {n}
  BY <1>1, <1>4
<1>5. ASSUME n \in G
      PROVE  Given(s, k, lines, {j \in G : j <= n}) = Convert(Fields[s][k], lines[n].value)
  <2> PICK H : H = {j \in G : j <= n}
    OBVIOUS
  <2>1. n \in H /\ \A j \in H : j \in Int /\ j <= n
    BY <1>1, <1>5
  <2>2. \A l \in H : (\A j \in H : j <= l) => l = n
    BY <2>1
  <2>3. (CHOOSE l \in H : \A j \in H : j <= l) = n
    BY <2>1, <2>2
  <2>4. Given(s, k, lines, H) = Convert(Fields[s][k], lines[n].value)
    BY <2>1, <2>3 DEF Given
  <2> QED
    BY <2>4
<1> QED
  BY <1>2, <1>3, <1>4, <1>5 DEF GiversTo

Fails(lines, givers, s, k) == \E j \in givers : Unreadable(Fields[s][k], lines[j].value)

\* p is what the first i lines should give.
Reads(p, lines, i) ==
    /\ \E s, c : \E t \in BOOLEAN : p = State(s, c, t)
    /\ DOMAIN p.cfg = DOMAIN Fields /\ \A s \in DOMAIN Fields : DOMAIN p.cfg[s] = DOMAIN Fields[s]
    /\ p.threw <=> \E s \in DOMAIN Fields : \E k \in DOMAIN Fields[s] :
                       Fails(lines, GiversTo(lines, s, k, i), s, k)
    /\ ~p.threw => /\ p.section = SectionAt(lines, i + 1)
                   /\ \A s \in DOMAIN Fields : \A k \in DOMAIN Fields[s] :
                        p.cfg[s][k] = Given(s, k, lines, GiversTo(lines, s, k, i))

LEMMA ReadNext ==
    ASSUME NEW lines, Len(lines) \in Nat, DOMAIN lines = 1..Len(lines),
           NEW i \in Nat, i < Len(lines), NEW p, Reads(p, lines, i)
    PROVE  Reads(Line(p, lines[i + 1]), lines, i + 1)
<1> SUFFICES ASSUME NEW n \in Nat, n = i + 1, NEW line, line = lines[n]
             PROVE  Reads(Line(p, line), lines, n)
  OBVIOUS
<1> PICK s, c : \E u \in BOOLEAN : p = State(s, c, u)
  BY DEF Reads
<1>1. PICK t \in BOOLEAN : p = State(s, c, t)
  OBVIOUS
<1>2. p.section = s /\ p.cfg = c /\ p.threw = t
  BY <1>1 DEF State
<1> DEFINE Gives(S, K) == line.type = "pair" /\ line.key = K /\ SectionAt(lines, n) = S
           to(S, K)  == GiversTo(lines, S, K, i)
           now(S, K) == GiversTo(lines, S, K, n)
           sets == line.type = "pair" /\ IsField(s, line.key)
           kind == Fields[s][line.key]
<1>3. /\ DOMAIN c = DOMAIN Fields /\ \A S \in DOMAIN Fields : DOMAIN c[S] = DOMAIN Fields[S]
      /\ t <=> \E S \in DOMAIN Fields : \E K \in DOMAIN Fields[S] : Fails(lines, to(S, K), S, K)
      /\ ~t => /\ s = SectionAt(lines, n)
               /\ \A S \in DOMAIN Fields : \A K \in DOMAIN Fields[S] : c[S][K] = Given(S, K, lines, to(S, K))
  BY <1>2 DEF Reads
<1>4. \A S, K : /\ ~Gives(S, K) => now(S, K) = to(S, K)
                /\ Gives(S, K) => /\ now(S, K) = to(S, K) \cup {n}
                                  /\ Given(S, K, lines, now(S, K)) = Convert(Fields[S][K], line.value)
  <2> TAKE S, K
  <2>1. n \in Givers(lines, S, K) <=> Gives(S, K)
    BY DEF Givers
  <2> HIDE DEF Gives
  <2> QED
    BY <2>1, GiversNext
<1>5. SectionAt(lines, n + 1) = IF line.type = "header" THEN line.section ELSE SectionAt(lines, n)
  BY SectionNext
<1> HIDE DEF to, now
<1>11. Turn(s, c, t, line, Line(p, line))
  BY <1>1, LineCases
\* It is enough to know the new state's parts.
<1>6. ASSUME NEW z, NEW d, NEW u \in BOOLEAN, Line(p, line) = State(z, d, u),
             DOMAIN d = DOMAIN Fields, \A S \in DOMAIN Fields : DOMAIN d[S] = DOMAIN Fields[S],
             u <=> \E S \in DOMAIN Fields : \E K \in DOMAIN Fields[S] : Fails(lines, now(S, K), S, K),
             ~u => /\ z = SectionAt(lines, n + 1)
                   /\ \A S \in DOMAIN Fields : \A K \in DOMAIN Fields[S] :
                        d[S][K] = Given(S, K, lines, now(S, K))
      PROVE  Reads(Line(p, line), lines, n)
  <2>1. Line(p, line).section = z /\ Line(p, line).cfg = d /\ Line(p, line).threw = u
    BY <1>6 DEF State
  <2> QED
    BY <1>6, <2>1 DEF Reads, now
<1>7. CASE t
  <2>1. Line(p, line) = State(s, c, t)
    BY <1>1, <1>7, <1>11 DEF Turn
  <2>2. \A S, K : Fails(lines, to(S, K), S, K) => Fails(lines, now(S, K), S, K)
    BY <1>4 DEF Fails
  <2> QED
    BY <1>3, <1>6, <1>7, <2>1, <2>2
<1>8. CASE ~t /\ ~sets
  <2>1. \A S \in DOMAIN Fields : \A K \in DOMAIN Fields[S] : now(S, K) = to(S, K)
    BY <1>3, <1>4, <1>8 DEF IsField
  <2>2. PICK z : Line(p, line) = State(z, c, t) /\ z = SectionAt(lines, n + 1)
    <3>1. CASE line.type = "header"
      <4>1. Line(p, line) = State(line.section, c, t)
        BY <1>1, <1>8, <3>1, <1>11 DEF Turn
      <4> QED
        BY <1>5, <3>1, <4>1
    <3>2. CASE line.type # "header"
      <4>1. Line(p, line) = State(s, c, t)
        BY <1>1, <1>8, <3>2, <1>11 DEF Turn
      <4> QED
        BY <1>3, <1>5, <1>8, <3>2, <4>1
    <3> QED
      BY <3>1, <3>2
  <2> QED
    BY <1>3, <1>6, <1>8, <2>1, <2>2
<1>9. CASE ~t /\ sets /\ Unreadable(kind, line.value)
  <2>1. Line(p, line) = State(s, c, TRUE)
    BY <1>1, <1>9, <1>11 DEF Turn
  <2>2. Gives(s, line.key) /\ s \in DOMAIN Fields /\ line.key \in DOMAIN Fields[s]
    BY <1>3, <1>9 DEF IsField
  <2>3. n \in now(s, line.key)
    BY <1>4, <2>2
  <2>4. Fails(lines, now(s, line.key), s, line.key)
    BY <1>9, <2>3 DEF Fails
  <2> QED
    BY <1>3, <1>6, <2>1, <2>2, <2>4
<1>10. CASE ~t /\ sets /\ ~Unreadable(kind, line.value)
  <2>1. PICK d : Line(p, line) = State(s, d, t) /\ d = [c EXCEPT ![s][line.key] = Convert(kind, line.value)]
    BY <1>1, <1>10, <1>11 DEF Turn
  <2>2. line.type = "pair" /\ s = SectionAt(lines, n) /\ s \in DOMAIN Fields /\ line.key \in DOMAIN Fields[s]
    BY <1>3, <1>10 DEF IsField
  <2>3. /\ DOMAIN d = DOMAIN Fields /\ \A S \in DOMAIN Fields : DOMAIN d[S] = DOMAIN Fields[S]
        /\ d[s][line.key] = Convert(kind, line.value)
        /\ \A S \in DOMAIN Fields : \A K \in DOMAIN Fields[S] : S # s \/ K # line.key => d[S][K] = c[S][K]
    BY <1>3, <2>1, <2>2
  <2>4. \A S \in DOMAIN Fields : \A K \in DOMAIN Fields[S] : d[S][K] = Given(S, K, lines, now(S, K))
    <3> TAKE S \in DOMAIN Fields
    <3> TAKE K \in DOMAIN Fields[S]
    <3>1. CASE Gives(S, K)
      BY <1>4, <2>2, <2>3, <3>1
    <3>2. CASE ~Gives(S, K)
      BY <1>3, <1>4, <1>10, <2>2, <2>3, <3>2
    <3> QED
      BY <3>1, <3>2
  <2>5. \A S \in DOMAIN Fields : \A K \in DOMAIN Fields[S] : ~Fails(lines, now(S, K), S, K)
    <3> TAKE S \in DOMAIN Fields
    <3> TAKE K \in DOMAIN Fields[S]
    <3>1. ~Fails(lines, to(S, K), S, K)
      BY <1>3, <1>10
    <3>2. CASE Gives(S, K)
      BY <1>4, <1>10, <2>2, <3>1, <3>2 DEF Fails
    <3>3. CASE ~Gives(S, K)
      BY <1>4, <3>1, <3>3
    <3> QED
      BY <3>2, <3>3
  <2>6. s = SectionAt(lines, n + 1)
    BY <1>5, <2>2
  <2>7. t <=> \E S \in DOMAIN Fields : \E K \in DOMAIN Fields[S] : Fails(lines, now(S, K), S, K)
    BY <1>10, <2>5
  <2>8. Line(p, line) = State(s, d, t) /\ DOMAIN d = DOMAIN Fields
        /\ \A S \in DOMAIN Fields : DOMAIN d[S] = DOMAIN Fields[S]
    BY <2>1, <2>3
  <2> QED
    BY <1>6, <2>4, <2>6, <2>7, <2>8
<1> QED
  BY <1>7, <1>8, <1>9, <1>10

LEMMA DefaultsHaveFields ==
    /\ DOMAIN Defaults = DOMAIN Fields
    /\ \A s \in DOMAIN Fields : DOMAIN Defaults[s] = DOMAIN Fields[s]
<1>1. DOMAIN Fields = {"general", "background", "clock", "input", "label", "error"}
  BY DEF Fields
<1>2. DOMAIN Defaults = DOMAIN Fields
  BY DEF Fields, Defaults
<1>3. /\ DOMAIN Defaults["general"] = DOMAIN Fields["general"]
      /\ DOMAIN Defaults["background"] = DOMAIN Fields["background"]
  BY DEF Fields, Defaults
<1>4. DOMAIN Defaults["clock"] = DOMAIN Fields["clock"]
  BY DEF Fields, Defaults
<1>5. DOMAIN Defaults["input"] = DOMAIN Fields["input"]
  BY DEF Fields, Defaults
<1>6. /\ DOMAIN Defaults["label"] = DOMAIN Fields["label"]
      /\ DOMAIN Defaults["error"] = DOMAIN Fields["error"]
  BY DEF Fields, Defaults
<1> QED
  BY <1>1, <1>2, <1>3, <1>4, <1>5, <1>6

LEMMA NothingRead ==
    ASSUME NEW lines, Len(lines) \in Nat, DOMAIN lines = 1..Len(lines)
    PROVE  Reads(Fresh, lines, 0)
<1>1. Fresh = State("", Defaults, FALSE) /\ Fresh.section = "" /\ Fresh.cfg = Defaults /\ Fresh.threw = FALSE
  BY DEF Fresh, State
<1>2. \A s, k : GiversTo(lines, s, k, 0) = {}
  BY GiversNext
<1>3. \A s, k : ~Fails(lines, GiversTo(lines, s, k, 0), s, k)
  BY <1>2 DEF Fails
<1>4. \A s, k : Given(s, k, lines, GiversTo(lines, s, k, 0)) = Defaults[s][k]
  BY <1>2 DEF Given
<1>5. SectionAt(lines, 0 + 1) = ""
  BY DEF SectionAt
<1> QED
  BY <1>1, <1>3, <1>4, <1>5, DefaultsHaveFields DEF Reads

LEMMA EveryLineRead ==
    ASSUME NEW lines, Len(lines) \in Nat, DOMAIN lines = 1..Len(lines)
    PROVE  Reads(Parse(lines), lines, Len(lines))
<1> DEFINE T == {n \in Nat : n <= Len(lines) => Reads(AfterLine(lines)[n], lines, n)}
<1>1. 0 \in T
  <2>1. AfterLine(lines)[0] = Fresh
    BY LineByLine
  <2> QED
    BY <2>1, NothingRead
<1>2. ASSUME NEW n \in T PROVE n + 1 \in T
  <2> SUFFICES ASSUME n + 1 <= Len(lines) PROVE Reads(AfterLine(lines)[n + 1], lines, n + 1)
    OBVIOUS
  <2>1. n \in Nat /\ n < Len(lines) /\ Reads(AfterLine(lines)[n], lines, n)
    OBVIOUS
  <2>2. n + 1 \in 0..Len(lines) /\ n + 1 # 0 /\ (n + 1) - 1 = n
    BY <2>1
  <2>3. AfterLine(lines)[n + 1] = Line(AfterLine(lines)[n], lines[n + 1])
    BY <2>2, LineByLine
  <2> HIDE DEF T
  <2> QED
    BY <2>1, <2>3, ReadNext
<1>3. T = Nat
  <2>1. T \in SUBSET Nat
    OBVIOUS
  <2> HIDE DEF T
  <2> QED
    BY <1>1, <1>2, <2>1, AllNumbers
<1> QED
  BY <1>3 DEF Parse

\* An exception ends the parse for a number in its own section only; else every
\* field has its last giver's value.
LEMMA ParseIsRight ==
    ASSUME NEW lines \in Seq(Lines)
    PROVE  /\ Parse(lines).threw <=> Malformed(lines)
           /\ ~Parse(lines).threw => LastWins(lines, Parse(lines).cfg)
<1>1. Len(lines) \in Nat /\ DOMAIN lines = 1..Len(lines)
  OBVIOUS
<1>2. \A s, k : GiversTo(lines, s, k, Len(lines)) = Givers(lines, s, k)
  BY <1>1 DEF GiversTo, Givers
<1>3. Reads(Parse(lines), lines, Len(lines))
  BY <1>1, EveryLineRead
<1>4. Parse(lines).threw <=> Malformed(lines)
  BY <1>2, <1>3 DEF Reads, Malformed, Fails
<1>5. ASSUME ~Parse(lines).threw
      PROVE  LastWins(lines, Parse(lines).cfg)
  <2>1. \A s \in DOMAIN Fields : \A k \in DOMAIN Fields[s] :
           Parse(lines).cfg[s][k] = Given(s, k, lines, Givers(lines, s, k))
    BY <1>2, <1>3, <1>5 DEF Reads
  <2> QED
    BY <2>1 DEF LastWins, Given
<1> QED
  BY <1>4, <1>5

LEMMA LastOfSome ==
    ASSUME NEW n \in Nat, NEW G \in SUBSET (1..n), G # {}
    PROVE  (CHOOSE i \in G : \A j \in G : j <= i) \in G
<1> DEFINE D == {m \in Nat : n - m \in G}
<1>1. D # {}
  <2> PICK g : g \in G
    OBVIOUS
  <2>1. n - g \in Nat /\ n - (n - g) = g
    OBVIOUS
  <2> QED
    BY <2>1
<1>2. PICK d \in D : \A e \in D : ~(<<e, d>> \in OpToRel(<, Nat))
  BY <1>1, WFMin, NatLessThanWellFounded, Zenon
<1>3. ASSUME NEW j \in G PROVE j <= n - d
  <2>1. n - j \in Nat /\ n - (n - j) = j
    OBVIOUS
  <2>2. ~(n - j < d)
    BY <1>2, <2>1 DEF OpToRel
  <2> QED
    BY <2>1, <2>2
<1>4. n - d \in G
  OBVIOUS
<1> QED
  BY <1>3, <1>4

\* What parse gives for the grace period is a number (Seconds is a double).
LEMMA GracePeriodsAreNumbers ==
    ASSUME NEW f \in Files
    PROVE  Parse(f).threw \/ Parse(f).cfg.general.grace_period \in Int
<1> SUFFICES ASSUME ~Parse(f).threw PROVE Parse(f).cfg.general.grace_period \in Int
  OBVIOUS
<1>1. f \in Seq(Lines) /\ Len(f) \in Nat /\ DOMAIN f = 1..Len(f)
  BY GraceAssumption
<1>2. /\ "general" \in DOMAIN Fields /\ "grace_period" \in DOMAIN Fields["general"]
      /\ Fields["general"]["grace_period"] = "number" /\ Defaults["general"]["grace_period"] = 10
  BY DEF Fields, Defaults
<1> PICK G : G = Givers(f, "general", "grace_period")
  OBVIOUS
<1> PICK g : g = CHOOSE i \in G : \A j \in G : j <= i
  OBVIOUS
<1>3. Parse(f).cfg["general"]["grace_period"] = IF G = {} THEN 10 ELSE Convert("number", f[g].value)
  <2>1. LastWins(f, Parse(f).cfg)
    BY <1>1, ParseIsRight
  <2> PICK c : c = Parse(f).cfg
    OBVIOUS
  <2>2. c["general"]["grace_period"] =
          IF G = {} THEN Defaults["general"]["grace_period"]
          ELSE Convert(Fields["general"]["grace_period"], f[g].value)
    BY <1>2, <2>1, Zenon DEF LastWins
  <2> QED
    BY <1>2, <2>2
<1>4. CASE G # {}
  <2>1. G \in SUBSET (1..Len(f))
    BY <1>1 DEF Givers
  <2>2. g \in G
    BY <1>1, <1>4, <2>1, LastOfSome
  <2>3. f[g] \in Lines /\ f[g].type = "pair"
    BY <1>1, <2>1, <2>2 DEF Givers
  <2>4. f[g].value \in Texts
    BY <2>3 DEF Lines, Other, OpenHeader
  <2>5. ~Unreadable("number", f[g].value)
    BY <1>1, <1>2, <2>2, ParseIsRight DEF Malformed
  <2>6. Numbers["number"][f[g].value] \in Int /\ Convert("number", f[g].value) = Numbers["number"][f[g].value]
    BY <2>4, <2>5, ParserAssumption DEF Unreadable, Convert
  <2> QED
    BY <1>3, <1>4, <2>6
<1> QED
  BY <1>3, <1>4

-----------------------------------------------------------------------------
(* The runs *)

\* Dropping the fractions of both keeps a shorter time shorter than the period.
LEMMA SecondsShorter ==
    ASSUME NEW e \in Nat, NEW g \in Int, g > 0
    PROVE  /\ Seconds(e) < Seconds(g) => e < g
           /\ e < g /\ g % 2 = 0 => Seconds(e) < Seconds(g)
  <1>1. Seconds(e) = e \div 2 /\ Seconds(g) = g \div 2
    BY DEF Seconds
  <1> QED BY <1>1, SMT

\* Nothing is written at the start.
LEMMA InitEstablishes == Init => IInv
  <1> SUFFICES ASSUME Init PROVE IInv
    OBVIOUS
  <1>1. TypeOK
    <2>1. file \in Files /\ time \in 0..MaxTime /\ skew \in Skews
      BY GraceAssumption DEF Init
    <2>2. /\ pc \in [Runs -> {"off", "parsed", "locking", "locked", "leaving", "opened", "aborted"}]
          /\ grace \in [Runs -> Int] /\ skips \in [Runs -> BOOLEAN]
      BY DEF Init
    <2>3. looped \in BOOLEAN /\ disturbed \in BOOLEAN /\ ~looped /\ written = Missing /\ stamp = Missing
      BY DEF Init
    <2> QED BY <2>1, <2>2, <2>3 DEF TypeOK
  <1>2. stamp = Missing /\ written = Missing /\ \A r \in Runs : ~skips[r]
    BY DEF Init
  <1> QED BY <1>1, <1>2 DEF IInv

\* Time passes, the clock is set, the configuration is changed.
LEMMA TimePreserves ==
    ASSUME IInv, Tick \/ SetClock \/ Edit
    PROVE  IInv'
  <1> USE DEF IInv, TypeOK, runVars, history
  <1>1. CASE Tick
    BY <1>1, GraceAssumption DEF Tick
  <1>2. CASE SetClock
    BY <1>2, GraceAssumption DEF SetClock
  <1>3. CASE Edit
    BY <1>3, GraceAssumption DEF Edit
  <1> QED BY <1>1, <1>2, <1>3

\* A run goes on or ends, and leaves the file alone.
LEMMA RunPreserves ==
    ASSUME IInv, NEW r \in Runs,
           Start(r) \/ CheckGrace(r) \/ CannotLock(r) \/ Lock(r) \/ LeaveLoop(r) \/ Killed(r)
    PROVE  IInv'
  <1> USE DEF IInv, TypeOK, runVars, history, timeVars, Go, Off
  <1>1. CASE Start(r)
    <2>1. grace' \in [Runs -> Int]
      BY <1>1, GracePeriodsAreNumbers DEF Start
    <2> QED BY <1>1, <2>1 DEF Start
  <1>2. CASE CheckGrace(r)
    BY <1>2 DEF CheckGrace, within_grace_period
  <1>3. CASE CannotLock(r)
    BY <1>3 DEF CannotLock
  <1>4. CASE Lock(r)
    BY <1>4 DEF Lock
  <1>5. CASE LeaveLoop(r)
    BY <1>5 DEF LeaveLoop
  <1>6. CASE Killed(r)
    BY <1>6 DEF Killed
  <1> QED BY <1>1, <1>2, <1>3, <1>4, <1>5, <1>6

\* The file is opened, and the time written.
LEMMA StampPreserves ==
    ASSUME IInv, NEW r \in Runs, OpenStamp(r) \/ WriteStamp(r)
    PROVE  IInv'
  <1> USE DEF IInv, TypeOK, history, timeVars, Go, Off
  <1>1. CASE OpenStamp(r)
    BY <1>1 DEF OpenStamp
  <1>2. CASE WriteStamp(r)
    <2>1. looped' = TRUE
      <3>1. looped' = (looped \/ ~skips[r])
        BY <1>2 DEF WriteStamp
      <3>2. looped \/ ~skips[r]
        OBVIOUS
      <3> QED BY <3>1, <3>2
    <2>2. stamp' = Base + time + skew /\ written' = time /\ UNCHANGED <<file, time, skew>>
      BY <1>2 DEF WriteStamp, Clock
    <2>3. /\ pc' \in [Runs -> {"off", "parsed", "locking", "locked", "leaving", "opened", "aborted"}]
          /\ grace' \in [Runs -> Int] /\ skips' \in [Runs -> BOOLEAN]
          /\ disturbed' = FALSE
      BY <1>2 DEF WriteStamp
    <2>4. stamp' \in {Base + t + s : t \in 0..MaxTime, s \in Skews}
      <3>1. time \in 0..MaxTime /\ skew \in Skews
        OBVIOUS
      <3> QED BY <2>2, <3>1
    <2>5. written' \in 0..time' /\ written' # Missing
      BY <2>2, GraceAssumption
    <2>6. TypeOK'
      <3>1. file' \in Files /\ time' \in 0..MaxTime /\ skew' \in Skews
        BY <2>2
      <3>2. looped' \in BOOLEAN /\ disturbed' \in BOOLEAN
        BY <2>1, <2>3
      <3> HIDE DEF IInv
      <3> QED BY <2>3, <2>4, <2>5, <3>1, <3>2
    <2>7. stamp' = Base + written' + skew'
      BY <2>2
    <2> QED BY <2>1, <2>5, <2>6, <2>7
  <1> QED BY <1>1, <1>2

\* Every step keeps the invariant.
LEMMA StepPreserves == IInv /\ [Next]_vars => IInv'
  <1> SUFFICES ASSUME IInv, [Next]_vars PROVE IInv'
    OBVIOUS
  <1>1. CASE UNCHANGED vars
    BY <1>1 DEF IInv, TypeOK, vars, timeVars, runVars, history
  <1> QED BY <1>1, TimePreserves, RunPreserves, StampPreserves DEF Next

\* Only CheckGrace decides to skip or to lock.
LEMMA Decision ==
    ASSUME IInv, [Next]_vars, NEW r \in Runs, pc[r] = "parsed", pc'[r] \in {"leaving", "locking"}
    PROVE  /\ pc'[r] = "leaving" <=> within_grace_period(grace[r])
           /\ looped = TRUE \/ ~within_grace_period(grace[r])
  <1>1. CheckGrace(r)
    BY DEF IInv, TypeOK, Next, Tick, SetClock, Edit, Start, CheckGrace, CannotLock, Lock, LeaveLoop,
           OpenStamp, WriteStamp, Killed, Go, Off, vars, runVars, timeVars
  <1>2. pc'[r] = "leaving" <=> within_grace_period(grace[r])
    BY <1>1 DEF CheckGrace, Go, IInv, TypeOK
  <1> QED BY <1>2 DEF within_grace_period, IInv, TypeOK

-----------------------------------------------------------------------------

\* The inductive invariant holds of every run of the system.
THEOREM Invariance == Spec => []IInv
  BY InitEstablishes, StepPreserves, PTL DEF Spec

\* Every variable keeps its type.
THEOREM TypeCorrect == Spec => []TypeOK
  <1>1. IInv => TypeOK
    BY DEF IInv
  <1> QED BY <1>1, Invariance, PTL

\* Undisturbed, a time in the file is as old as the wall clock says.
LEMMA StampIsAsOld ==
    ASSUME IInv, ~disturbed, written # Missing
    PROVE  stamp \in Int /\ Clock - stamp = time - written /\ time - written \in Nat
  <1>1. stamp = Base + written + skew /\ written \in 0..time
    BY DEF IInv, TypeOK
  <1>2. Base \in Int /\ time \in Nat /\ skew \in Int
    BY GraceAssumption DEF IInv, TypeOK
  <1> QED BY <1>1, <1>2 DEF Clock

\* No run skips the lock without a run having left its loop, or later than its
\* grace period after a time was written (main.cpp:80-104, 177-180, 429).
THEOREM SkipsAreRecent == Spec => SkipIsRecent
  <1>1. IInv /\ [Next]_vars =>
          [\A r \in Runs : (pc[r] = "parsed" /\ pc'[r] = "leaving") =>
               /\ looped
               /\ ~disturbed => time - written < grace[r]]_vars
    <2> SUFFICES ASSUME IInv, [Next]_vars, NEW r \in Runs, pc[r] = "parsed", pc'[r] = "leaving"
                 PROVE  looped /\ (~disturbed => time - written < grace[r])
      OBVIOUS
    <2>1. within_grace_period(grace[r]) /\ looped
      BY Decision
    <2>2. ASSUME ~disturbed PROVE time - written < grace[r]
      <3>1. written # Missing
        BY <2>1, <2>2 DEF IInv, within_grace_period
      <3>2. stamp \in Int /\ Clock - stamp = time - written /\ time - written \in Nat
        BY <2>2, <3>1, StampIsAsOld
      <3>3. grace[r] \in Int /\ grace[r] > 0
        BY <2>1 DEF within_grace_period, IInv, TypeOK
      <3> QED BY <2>1, <3>2, <3>3, SecondsShorter DEF within_grace_period
    <2> QED BY <2>1, <2>2
  <1> QED BY <1>1, Invariance, PTL DEF Spec, SkipIsRecent

\* A run whose grace period is of whole seconds does skip within it
\* (main.cpp:80-104).
THEOREM RecentsAreSkipped == Spec => RecentIsSkipped
  <1>1. IInv /\ [Next]_vars =>
          [\A r \in Runs : (pc[r] = "parsed" /\ pc'[r] = "locking" /\ grace[r] % 2 = 0) =>
               \/ written = Missing \/ disturbed
               \/ time - written >= grace[r]]_vars
    <2> SUFFICES ASSUME IInv, [Next]_vars, NEW r \in Runs, pc[r] = "parsed", pc'[r] = "locking",
                        grace[r] % 2 = 0, written # Missing, ~disturbed
                 PROVE  time - written >= grace[r]
      OBVIOUS
    <2>1. ~within_grace_period(grace[r])
      BY Decision
    <2>2. stamp \in Int /\ Clock - stamp = time - written /\ time - written \in Nat
      BY StampIsAsOld
    <2>3. stamp > 0
      <3>1. stamp \in {Base + t + s : t \in 0..MaxTime, s \in Skews}
        BY <2>2, GraceAssumption DEF IInv, TypeOK
      <3>2. PICK t \in 0..MaxTime, s \in Skews : stamp = Base + t + s
        BY <3>1
      <3>3. Base + s > 0 /\ s \in Int /\ Base \in Int /\ t \in Nat
        BY GraceAssumption
      <3> QED BY <3>2, <3>3
    <2>4. stamp \notin {Missing, Empty, 0}
      BY <2>2, <2>3, GraceAssumption
    <2>5. grace[r] \in Int
      BY DEF IInv, TypeOK
    <2>6. CASE grace[r] > 0
      BY <2>1, <2>2, <2>4, <2>5, <2>6, SecondsShorter DEF within_grace_period
    <2>7. CASE ~(grace[r] > 0)
      BY <2>2, <2>5, <2>7
    <2> QED BY <2>6, <2>7
  <1> QED BY <1>1, Invariance, PTL DEF Spec, RecentIsSkipped

\* Any file is read as it should be: the last line that gives a field a value counts, and
\* only a number of a field's own section ends the run (parser.cpp:52-140).
THEOREM FilesAreRead == Spec => ParseIsLastWins
  <1>1. IInv /\ [Next]_vars =>
          [\A r \in Runs :
              /\ (pc[r] = "off" /\ pc'[r] = "parsed") => ~Malformed(file) /\ LastWins(file, Parse(file).cfg)
              /\ (pc[r] = "off" /\ pc'[r] = "aborted") => Malformed(file)]_vars
    <2> SUFFICES ASSUME IInv, [Next]_vars, NEW r \in Runs, pc[r] = "off", pc'[r] \in {"parsed", "aborted"}
                 PROVE  /\ pc'[r] = "parsed" => ~Malformed(file) /\ LastWins(file, Parse(file).cfg)
                        /\ pc'[r] = "aborted" => Malformed(file)
      OBVIOUS
    <2>1. Start(r)
      BY DEF IInv, TypeOK, Next, Tick, SetClock, Edit, Start, CheckGrace, CannotLock, Lock, LeaveLoop,
             OpenStamp, WriteStamp, Killed, Go, Off, vars, runVars, timeVars
    <2>2. pc'[r] = IF Parse(file).threw THEN "aborted" ELSE "parsed"
      BY <2>1 DEF Start, Go, IInv, TypeOK
    <2>3. file \in Seq(Lines)
      BY GraceAssumption DEF IInv, TypeOK
    <2> QED BY <2>2, <2>3, ParseIsRight
  <1> QED BY <1>1, Invariance, PTL DEF Spec, ParseIsLastWins
=============================================================================
