-------------------------- MODULE DeploymentProofs --------------------------
(***************************************************************************)
(* Theorems about Deployment, for every number of jobs and every set of    *)
(* configuration keys that are edited: what administrators edited, the     *)
(* schema of each revision, what the service finds and what may stop a     *)
(* job.                                                                    *)
(***************************************************************************)
EXTENDS Deployment, SequenceTheorems, WellFoundedInduction, TLAPS

-----------------------------------------------------------------------------
IsTab(t) == t = [name |-> t.name, cols |-> t.cols, refs |-> t.refs, keys |-> t.keys]

\* A statement of a kind in K; what it creates is a table.
OfKind(x, K) == x.kind \in K /\ (x.kind = "create" => IsTab(x.table))

\* A sequence of such statements.
OfKinds(t, K) == \E T : t \in Seq(T) /\ \A x \in T : OfKind(x, K)

UpKinds   == {"create", "add", "width", "check"}
DownKinds == {"drop", "remove", "width", "check"}
SeedKinds == {"insert", "admin"}

LEMMA Concat ==
  ASSUME NEW K, NEW s, NEW t, OfKinds(s, K), OfKinds(t, K)
  PROVE  OfKinds(s \o t, K)
<1>1. PICK S : s \in Seq(S) /\ \A x \in S : OfKind(x, K)
  BY DEF OfKinds
<1>2. PICK T : t \in Seq(T) /\ \A x \in T : OfKind(x, K)
  BY DEF OfKinds
<1>3. PICK U : U = S \cup T
  OBVIOUS
<1>4. s \in Seq(U) /\ t \in Seq(U) /\ \A x \in U : OfKind(x, K)
  BY <1>1, <1>2, <1>3
<1>5. s \o t \in Seq(U)
  BY <1>4
<1> QED
  BY <1>4, <1>5 DEF OfKinds

LEMMA Rest ==
  ASSUME NEW K, NEW t, OfKinds(t, K), t # << >>
  PROVE  OfKind(Head(t), K) /\ OfKinds(Tail(t), K)
<1>1. PICK T : t \in Seq(T) /\ \A x \in T : OfKind(x, K)
  BY DEF OfKinds
<1>2. Head(t) \in T /\ Tail(t) \in Seq(T)
  BY <1>1, HeadTailProperties
<1> QED
  BY <1>1, <1>2 DEF OfKinds

LEMMA Empty ==
  ASSUME NEW K, NEW q, q = [i \in 1 .. 0 |-> q[i]]
  PROVE  OfKinds(q, K)
<1>1. q \in Seq({})
  OBVIOUS
<1> QED
  BY <1>1 DEF OfKinds

\* f[i] is the first i of the sequences in q, one after another; there are
\* three revisions.
Flattens(f, q, n) ==
  /\ FlattenSeq(q) = f[n] /\ f[1] = q[1]
  /\ \A i \in 1 .. n : i # 1 => f[i] = f[i - 1] \o q[i]

LEMMA FlatSteps ==
  ASSUME NEW n \in 1 .. 3, NEW q, q = [i \in 1 .. n |-> q[i]]
  PROVE  \E f : Flattens(f, q, n)
<1>1. Len(q) = n /\ n # 0 /\ n >= 1 /\ 1 \in 1 .. n
  OBVIOUS
<1> DEFINE step(f) == [i \in 1 .. n |-> IF i = 1 THEN q[i] ELSE f[i - 1] \o q[i]]
           f == CHOOSE h : h = step(h)
<1>2. PICK g : g = [i \in 1 .. n |-> IF i = 1 THEN q[1] ELSE IF i = 2 THEN q[1] \o q[2]
                                    ELSE (q[1] \o q[2]) \o q[3]]
  OBVIOUS
<1>3. \A i \in 1 .. n : i # 1 => g[i - 1] = IF i = 2 THEN q[1] ELSE q[1] \o q[2]
  BY <1>2
<1>4. \A i \in 1 .. n : i # 1 /\ i # 2 => i = 3
  OBVIOUS
<1>5. g = step(g)
  BY <1>2, <1>3, <1>4
<1>6. f = step(f)
  BY <1>5
<1>7. FlattenSeq(q) = f[n]
  BY <1>1 DEF FlattenSeq
<1> HIDE DEF f
<1>8. f[1] = q[1] /\ \A i \in 1 .. n : i # 1 => f[i] = f[i - 1] \o q[i]
  BY <1>1, <1>6
<1> QED
  BY <1>7, <1>8 DEF Flattens

LEMMA Flat ==
  ASSUME NEW K, NEW n \in 0 .. 3, NEW q, q = [i \in 1 .. n |-> q[i]],
         \A i \in 1 .. n : OfKinds(q[i], K)
  PROVE  OfKinds(FlattenSeq(q), K)
<1>1. Len(q) = n
  OBVIOUS
<1>2. CASE n = 0
  <2>1. FlattenSeq(q) = q
    BY <1>1, <1>2 DEF FlattenSeq
  <2> QED
    BY <1>2, <2>1, Empty
<1>3. CASE n # 0
  <2>1. n \in 1 .. 3
    BY <1>3
  <2>2. PICK f : Flattens(f, q, n)
    BY <2>1, FlatSteps
  <2>3. OfKinds(f[1], K)
    BY <2>1, <2>2 DEF Flattens
  <2>4. ASSUME NEW i \in 1 .. n, i # 1, OfKinds(f[i - 1], K) PROVE OfKinds(f[i], K)
    <3>1. f[i] = f[i - 1] \o q[i]
      BY <2>2, <2>4 DEF Flattens
    <3> QED
      BY <2>4, <3>1, Concat
  <2>5. n >= 2 => OfKinds(f[2], K)
    BY <2>3, <2>4
  <2>6. n >= 3 => OfKinds(f[3], K)
    BY <2>4, <2>5
  <2> QED
    BY <2>1, <2>2, <2>3, <2>5, <2>6 DEF Flattens
<1> QED
  BY <1>2, <1>3

-----------------------------------------------------------------------------
(***************************************************************************)
(* The lists of tables are sequences.                                      *)
(***************************************************************************)
IsSeq(t) == \E T : t \in Seq(T)

LEMMA Joined ==
  ASSUME NEW s, NEW t, IsSeq(s), IsSeq(t)
  PROVE  IsSeq(s \o t)
<1>1. PICK S : s \in Seq(S)
  BY DEF IsSeq
<1>2. PICK T : t \in Seq(T)
  BY DEF IsSeq
<1>3. PICK U : U = S \cup T
  OBVIOUS
<1>4. s \in Seq(U) /\ t \in Seq(U)
  BY <1>1, <1>2, <1>3
<1>5. s \o t \in Seq(U)
  BY <1>4
<1> QED
  BY <1>5 DEF IsSeq

\* A tuple is a sequence.
LEMMA Tuples ==
  ASSUME NEW a, NEW b, NEW c, NEW d, NEW e, NEW f
  PROVE  /\ IsSeq(<<a>>) /\ IsSeq(<<a, b, c>>) /\ IsSeq(<<a, b, c, d>>)
         /\ IsSeq(<<a, b, c, d, e>>) /\ IsSeq(<<a, b, c, d, e, f>>)
<1> PICK T : T = {a, b, c, d, e, f}
  OBVIOUS
<1>1. /\ <<a>> \in Seq(T) /\ <<a, b, c>> \in Seq(T) /\ <<a, b, c, d>> \in Seq(T)
      /\ <<a, b, c, d, e>> \in Seq(T) /\ <<a, b, c, d, e, f>> \in Seq(T)
  OBVIOUS
<1> QED
  BY <1>1 DEF IsSeq

LEMMA Parts ==
  /\ IsSeq(Lookups) /\ IsSeq(Users) /\ IsSeq(Astrology) /\ IsSeq(Pairs) /\ IsSeq(Families)
  /\ IsSeq(Talk) /\ IsSeq(Shown) /\ IsSeq(Profiles) /\ IsSeq(Trust) /\ IsSeq(ChoiceTables)
  /\ IsSeq(Preferred) /\ IsSeq(Dashboard)
<1>1. IsSeq(Lookups)
  <2>1. Lookups \in Seq({Lookups[i] : i \in 1 .. 11})
    BY DEF Lookups
  <2> QED
    BY <2>1 DEF IsSeq
<1>2. IsSeq(Users)
  BY Tuples, Zenon DEF Users
<1>3. IsSeq(Astrology)
  BY Tuples, Zenon DEF Astrology
<1>4. IsSeq(Pairs)
  BY Tuples, Zenon DEF Pairs
<1>5. IsSeq(Families)
  BY Tuples, Zenon DEF Families
<1>6. IsSeq(Talk)
  BY Tuples, Zenon DEF Talk
<1>7. IsSeq(Shown)
  BY Tuples, Zenon DEF Shown
<1>8. IsSeq(Profiles)
  BY Tuples, Zenon DEF Profiles
<1>9. IsSeq(Trust)
  BY Tuples, Zenon DEF Trust
<1>10. IsSeq(ChoiceTables)
  BY Tuples, Zenon DEF ChoiceTables
<1>11. IsSeq(Preferred)
  BY Tuples, Zenon DEF Preferred
<1>12. IsSeq(Dashboard)
  BY Tuples, Zenon DEF Dashboard
<1> QED
  BY <1>1, <1>2, <1>3, <1>4, <1>5, <1>6, <1>7, <1>8, <1>9, <1>10, <1>11, <1>12

LEMMA Tables == IsSeq(InitialTables)
  BY Parts, Joined DEF InitialTables

LEMMA ThreeRevisions == Latest = 3
  BY DEF Latest, Revision

-----------------------------------------------------------------------------
(***************************************************************************)
(* Induction over the natural numbers, for a set of them.                  *)
(***************************************************************************)
LEMMA Induction ==
  ASSUME NEW S, 0 \in S, \A n \in Nat : n \in S => n + 1 \in S
  PROVE  \A n \in Nat : n \in S
<1> DEFINE R == OpToRel(<, Nat)
           T == Nat \ S
<1>1. \A x, y \in Nat : y < x => <<y, x>> \in R
  BY DEF OpToRel
<1>2. IsWellFoundedOn(R, Nat) /\ T \subseteq Nat
  BY NatLessThanWellFounded
<1> HIDE DEF R
<1>3. ASSUME T # {} PROVE FALSE
  <2>1. PICK x \in T : \A y \in T : ~ (<<y, x>> \in R)
    <3> HIDE DEF T
    <3> QED BY <1>2, <1>3, WFMin
  <2>2. x - 1 \in T /\ x - 1 < x
    OBVIOUS
  <2> QED
    BY <1>1, <2>1, <2>2
<1> QED
  BY <1>3

-----------------------------------------------------------------------------
(***************************************************************************)
(* What a sequence of statements leads to.                                 *)
(***************************************************************************)
Shape(tables, width, open) == [tables |-> tables, width |-> width, open |-> open]

IsDatabase(d) == d = [tables |-> d.tables, width |-> d.width, check |-> d.check, rows |-> d.rows]

Distinct(T) == \A x, y \in T : x.name = y.name => x = y

\* d has the tables and the width of a and, if a says so, admits the new roles.
Like(d, a) ==
  /\ d.tables = a.tables /\ d.width = a.width
  /\ a.open => d.check = Role

\* s is not broken on a database like a and makes it one like b.
Steps(a, s, b) ==
  \A d : IsDatabase(d) /\ Like(d, a) =>
           ~Broken(d, s) /\ IsDatabase(Apply(d, s)) /\ Like(Apply(d, s), b)

\* The statements in q, one after another, lead from a to b through shapes f.
Through(f, q) == \A k \in 1 .. Len(q) : Steps(f[k - 1], q[k], f[k])

Leads(a, q, b) == IsSeq(q) /\ \E f : f[0] = a /\ f[Len(q)] = b /\ Through(f, q)

LEMMA LeadsNowhere ==
  ASSUME NEW a, NEW q, IsSeq(q), Len(q) = 0
  PROVE  Leads(a, q, a)
<1>1. PICK f : f = [k \in {0} |-> a]
  OBVIOUS
<1> QED
  BY <1>1 DEF Leads, Through

LEMMA LeadsOnce ==
  ASSUME NEW a, NEW b, NEW s, Steps(a, s, b)
  PROVE  Leads(a, <<s>>, b)
<1>1. PICK f : f = [k \in {0, 1} |-> IF k = 0 THEN a ELSE b]
  OBVIOUS
<1>2. f[0] = a /\ f[1] = b /\ Len(<<s>>) = 1 /\ <<s>>[1] = s
  BY <1>1
<1>3. Through(f, <<s>>)
  BY <1>2 DEF Through
<1> QED
  BY <1>2, <1>3, Tuples DEF Leads

LEMMA LeadsOn ==
  ASSUME NEW a, NEW b, NEW c, NEW s, NEW t, Leads(a, s, b), Leads(b, t, c)
  PROVE  Leads(a, s \o t, c)
<1>1. PICK f : f[0] = a /\ f[Len(s)] = b /\ Through(f, s)
  BY DEF Leads
<1>2. PICK g : g[0] = b /\ g[Len(t)] = c /\ Through(g, t)
  BY DEF Leads
<1>3. PICK m, n : m = Len(s) /\ n = Len(t) /\ m \in Nat /\ n \in Nat
  <2>1. Len(s) \in Nat /\ Len(t) \in Nat
    BY DEF Leads, IsSeq
  <2> QED
    BY <2>1
<1>4. IsSeq(s \o t)
  BY Joined DEF Leads
<1>5. /\ Len(s \o t) = m + n
      /\ \A k \in 1 .. m + n : (s \o t)[k] = IF k <= m THEN s[k] ELSE t[k - m]
  BY <1>3 DEF Leads, IsSeq
<1>6. PICK h : h = [k \in 0 .. m + n |-> IF k <= m THEN f[k] ELSE g[k - m]]
  OBVIOUS
<1>7. h[0] = a /\ h[m + n] = c
  BY <1>1, <1>2, <1>3, <1>6
<1>8. ASSUME NEW k \in 1 .. m + n PROVE Steps(h[k - 1], (s \o t)[k], h[k])
  <2>1. CASE k <= m
    BY <1>1, <1>3, <1>5, <1>6, <2>1 DEF Through
  <2>2. CASE k > m
    <3>1. k - m \in 1 .. n /\ k - m - 1 = (k - 1) - m
      BY <1>3, <2>2
    <3>2. Steps(g[k - m - 1], t[k - m], g[k - m])
      BY <1>2, <1>3, <3>1 DEF Through
    <3>3. h[k] = g[k - m] /\ (s \o t)[k] = t[k - m]
      BY <1>3, <1>5, <1>6, <2>2
    <3>4. h[k - 1] = g[k - m - 1]
      BY <1>1, <1>2, <1>3, <1>6, <2>2, <3>1
    <3> QED
      BY <3>2, <3>3, <3>4
  <2> QED
    BY <1>3, <2>1, <2>2
<1> QED
  BY <1>4, <1>5, <1>7, <1>8 DEF Leads, Through

\* What is left after the first statement leads on.
LEMMA LeadsFirst ==
  ASSUME NEW a, NEW b, NEW q, Leads(a, q, b), q # << >>
  PROVE  \E c : Steps(a, Head(q), c) /\ Leads(c, Tail(q), b)
<1>1. PICK f : f[0] = a /\ f[Len(q)] = b /\ Through(f, q)
  BY DEF Leads
<1>2. PICK T : q \in Seq(T)
  BY DEF Leads, IsSeq
<1>3. PICK n : n = Len(q) /\ n \in Nat /\ n >= 1
  BY <1>2
<1>4. /\ Tail(q) \in Seq(T) /\ Len(Tail(q)) = n - 1 /\ Head(q) = q[1]
      /\ \A k \in 1 .. n - 1 : Tail(q)[k] = q[k + 1]
  BY <1>2, <1>3
<1>5. Steps(f[0], q[1], f[1])
  BY <1>1, <1>3 DEF Through
<1>6. PICK h : h = [k \in 0 .. n - 1 |-> f[k + 1]]
  OBVIOUS
<1>7. h[0] = f[1] /\ h[n - 1] = b
  BY <1>1, <1>3, <1>6
<1>8. ASSUME NEW k \in 1 .. n - 1 PROVE Steps(h[k - 1], Tail(q)[k], h[k])
  <2>1. h[k - 1] = f[k] /\ h[k] = f[k + 1] /\ Tail(q)[k] = q[k + 1]
    BY <1>3, <1>4, <1>6
  <2>2. k + 1 \in 1 .. n /\ (k + 1) - 1 = k
    BY <1>3
  <2>3. Steps(f[(k + 1) - 1], q[k + 1], f[k + 1])
    BY <1>1, <1>3, <2>2 DEF Through
  <2> QED
    BY <2>1, <2>2, <2>3
<1>9. Leads(f[1], Tail(q), b)
  BY <1>3, <1>4, <1>7, <1>8 DEF Leads, Through, IsSeq
<1> QED
  BY <1>1, <1>4, <1>5, <1>9

LEMMA LeadsDone ==
  ASSUME NEW a, NEW b, Leads(a, << >>, b)
  PROVE  a = b
  BY DEF Leads

-----------------------------------------------------------------------------
(***************************************************************************)
(* The fold that defines SchemaAt goes the same way.                       *)
(***************************************************************************)
\* A set of positions has a greatest element, which the fold takes out.
LEMMA Greatest ==
  ASSUME NEW n \in Nat, NEW s \in SUBSET (1 .. n), s # {}
  PROVE  Max(s) \in s /\ \A y \in s : y <= Max(s)
<1> DEFINE M == {m \in Nat : \A u \in SUBSET (1 .. m) : u # {} => \E x \in u : \A y \in u : y <= x}
<1>1. 0 \in M
  <2>1. 1 .. 0 = {}
    OBVIOUS
  <2> QED
    BY <2>1
<1>2. ASSUME NEW m \in Nat, m \in M PROVE m + 1 \in M
  <2> SUFFICES ASSUME NEW u \in SUBSET (1 .. m + 1), u # {}
               PROVE  \E x \in u : \A y \in u : y <= x
    OBVIOUS
  <2>1. CASE m + 1 \in u
    BY <2>1
  <2>2. CASE m + 1 \notin u
    <3>1. u \in SUBSET (1 .. m)
      BY <2>2
    <3> QED
      BY <1>2, <3>1
  <2> QED
    BY <2>1, <2>2
<1>3. n \in M
  <2> HIDE DEF M
  <2> QED
    BY <1>1, <1>2, Induction
<1>4. \E x \in s : \A y \in s : x >= y
  BY <1>3
<1> QED
  BY <1>4 DEF Max

LEMMA GreatestTo ==
  ASSUME NEW n \in Nat
  PROVE  Max(1 .. n + 1) = n + 1 /\ (1 .. n + 1) \ {n + 1} = 1 .. n
<1>1. n + 1 \in Nat /\ n + 1 \in 1 .. n + 1 /\ 1 .. n + 1 \in SUBSET (1 .. n + 1)
  OBVIOUS
<1>2. Max(1 .. n + 1) \in 1 .. n + 1 /\ \A y \in 1 .. n + 1 : y <= Max(1 .. n + 1)
  BY <1>1, Greatest
<1> QED
  BY <1>1, <1>2

\* The recursion of the fold has a solution.
Recursion(f, d, q, n) ==
  f = [s \in SUBSET (1 .. n) |-> IF s = {} THEN d ELSE Apply(f[s \ {Max(s)}], q[Max(s)])]

LEMMA FoldExists ==
  ASSUME NEW d, NEW q, NEW n \in Nat
  PROVE  \E f : Recursion(f, d, q, n)
<1> USE DEF Recursion
<1> DEFINE Solves(f, m) == Recursion(f, d, q, m)
           M == {m \in Nat : \E f : Solves(f, m)}
<1>1. 0 \in M
  <2>1. PICK f : f = [s \in SUBSET (1 .. 0) |-> d]
    OBVIOUS
  <2>2. Solves(f, 0)
    BY <2>1
  <2> QED
    BY <2>2
<1>2. ASSUME NEW m \in Nat, m \in M PROVE m + 1 \in M
  <2>1. PICK f : Solves(f, m)
    BY <1>2
  <2>2. PICK g : g = [s \in SUBSET (1 .. m + 1) |->
                        IF s = {} THEN d ELSE Apply(f[s \ {Max(s)}], q[Max(s)])]
    OBVIOUS
  <2>3. ASSUME NEW s \in SUBSET (1 .. m) PROVE g[s] = f[s]
    <3>1. s \in SUBSET (1 .. m + 1)
      OBVIOUS
    <3>2. g[s] = IF s = {} THEN d ELSE Apply(f[s \ {Max(s)}], q[Max(s)])
      BY <2>2, <3>1
    <3>3. f[s] = IF s = {} THEN d ELSE Apply(f[s \ {Max(s)}], q[Max(s)])
      BY <2>1, <2>3
    <3> QED
      BY <3>2, <3>3
  <2>4. ASSUME NEW s \in SUBSET (1 .. m + 1), s # {}
        PROVE  s \ {Max(s)} \in SUBSET (1 .. m)
    <3>1. m + 1 \in Nat
      OBVIOUS
    <3>2. Max(s) \in s /\ \A y \in s : y <= Max(s)
      BY <2>4, <3>1, Greatest
    <3>3. ASSUME NEW y \in s \ {Max(s)} PROVE y \in 1 .. m
      <4>1. y \in 1 .. m + 1 /\ Max(s) \in 1 .. m + 1 /\ y <= Max(s) /\ y # Max(s)
        BY <3>2
      <4> QED
        BY <4>1
    <3> QED
      BY <3>3
  <2>5. ASSUME NEW s \in SUBSET (1 .. m + 1)
        PROVE  g[s] = IF s = {} THEN d ELSE Apply(g[s \ {Max(s)}], q[Max(s)])
    <3>1. CASE s = {}
      BY <2>2, <3>1
    <3>2. CASE s # {}
      <4>1. g[s \ {Max(s)}] = f[s \ {Max(s)}]
        BY <2>3, <2>4, <3>2
      <4>2. g[s] = Apply(f[s \ {Max(s)}], q[Max(s)])
        BY <2>2, <3>2
      <4> QED
        BY <3>2, <4>1, <4>2
    <3> QED
      BY <3>1, <3>2
  <2>6. PICK h : h = [s \in SUBSET (1 .. m + 1) |->
                        IF s = {} THEN d ELSE Apply(g[s \ {Max(s)}], q[Max(s)])]
    OBVIOUS
  <2>7. \A s \in SUBSET (1 .. m + 1) : g[s] = h[s]
    BY <2>5, <2>6
  <2>8. g = h
    BY <2>2, <2>6, <2>7
  <2>9. Solves(g, m + 1)
    BY <2>6, <2>8
  <2> HIDE DEF Recursion
  <2> QED
    BY <2>9
<1>3. n \in M
  <2> HIDE DEF M
  <2> QED
    BY <1>1, <1>2, Induction
<1> QED
  BY <1>3

\* The statements in q applied to d, as SchemaAt applies them.
Folded(d, q) == FoldLeft(Apply, d, q)

LEMMA FoldSteps ==
  ASSUME NEW d, NEW q, IsSeq(q)
  PROVE  \E f : /\ f[0] = d /\ f[Len(q)] = Folded(d, q)
                /\ \A k \in 1 .. Len(q) : f[k] = Apply(f[k - 1], q[k])
<1>1. PICK n : n = Len(q) /\ n \in Nat /\ DOMAIN q = 1 .. n
  <2>1. Len(q) \in Nat /\ DOMAIN q = 1 .. Len(q)
    BY DEF IsSeq
  <2> QED
    BY <2>1
<1> DEFINE iter == CHOOSE f : Recursion(f, d, q, n)
<1>2. Folded(d, q) = iter[1 .. n]
  BY <1>1 DEF Folded, FoldLeft, MapThenFoldSet, Recursion
<1>3. Recursion(iter, d, q, n)
  BY <1>1, FoldExists
<1> HIDE DEF iter
<1>4. PICK f : f = [k \in 0 .. n |-> iter[1 .. k]]
  OBVIOUS
<1>5. f[0] = d
  <2>1. f[0] = iter[{}]
    BY <1>1, <1>4
  <2> QED
    BY <1>3, <2>1 DEF Recursion
<1>6. ASSUME NEW k \in 1 .. n PROVE f[k] = Apply(f[k - 1], q[k])
  <2>1. k - 1 \in Nat /\ (k - 1) + 1 = k
    OBVIOUS
  <2>2. Max(1 .. k) = k /\ (1 .. k) \ {k} = 1 .. k - 1
    BY <2>1, GreatestTo
  <2>3. 1 .. k \in SUBSET (1 .. n) /\ 1 .. k # {}
    <3>1. \A x \in 1 .. k : x \in 1 .. n
      BY <1>1
    <3>2. 1 \in 1 .. k
      BY <1>1
    <3> QED
      BY <3>1, <3>2
  <2>4. iter[1 .. k] = Apply(iter[1 .. k - 1], q[k])
    BY <1>3, <2>2, <2>3 DEF Recursion
  <2> QED
    BY <1>1, <1>4, <2>1, <2>4
<1>7. f[n] = Folded(d, q)
  BY <1>1, <1>2, <1>4
<1> QED
  BY <1>1, <1>5, <1>6, <1>7

\* They turn a database like a into one like b, if q leads there.
LEMMA FoldLeads ==
  ASSUME NEW a, NEW b, NEW q, Leads(a, q, b), NEW d, IsDatabase(d), Like(d, a)
  PROVE  Like(Folded(d, q), b)
<1>1. PICK f : f[0] = a /\ f[Len(q)] = b /\ Through(f, q)
  BY DEF Leads
<1>2. PICK n : n = Len(q) /\ n \in Nat
  <2>1. Len(q) \in Nat
    BY DEF Leads, IsSeq
  <2> QED
    BY <2>1
<1>3. PICK g : /\ g[0] = d /\ g[n] = Folded(d, q)
               /\ \A k \in 1 .. n : g[k] = Apply(g[k - 1], q[k])
  <2>1. IsSeq(q)
    BY DEF Leads
  <2> QED
    BY <1>2, <2>1, FoldSteps
<1> DEFINE M == {k \in Nat : k <= n => IsDatabase(g[k]) /\ Like(g[k], f[k])}
<1>4. 0 \in M
  BY <1>1, <1>3
<1>5. ASSUME NEW k \in Nat, k \in M PROVE k + 1 \in M
  <2> SUFFICES ASSUME k + 1 <= n PROVE IsDatabase(g[k + 1]) /\ Like(g[k + 1], f[k + 1])
    OBVIOUS
  <2>1. k + 1 \in 1 .. n /\ (k + 1) - 1 = k /\ k <= n
    BY <1>2
  <2>2. IsDatabase(g[k]) /\ Like(g[k], f[k])
    BY <1>5, <2>1
  <2>3. Steps(f[k], q[k + 1], f[k + 1])
    BY <1>1, <1>2, <2>1 DEF Through
  <2>4. g[k + 1] = Apply(g[k], q[k + 1])
    BY <1>3, <2>1
  <2> QED
    BY <2>2, <2>3, <2>4 DEF Steps
<1>6. n \in M
  <2> HIDE DEF M
  <2> QED
    BY <1>2, <1>4, <1>5, Induction
<1> QED
  BY <1>1, <1>2, <1>3, <1>6

LEMMA LeadsThrough ==
  ASSUME NEW n \in 0 .. 3, NEW q, q = [i \in 1 .. n |-> q[i]],
         NEW a, \A i \in 1 .. n : Leads(a[i - 1], q[i], a[i])
  PROVE  Leads(a[0], FlattenSeq(q), a[n])
<1>1. CASE n = 0
  <2>1. Len(q) = 0 /\ q \in Seq({})
    BY <1>1
  <2>2. FlattenSeq(q) = q
    BY <2>1 DEF FlattenSeq
  <2>3. IsSeq(q)
    BY <2>1 DEF IsSeq
  <2> QED
    BY <1>1, <2>1, <2>2, <2>3, LeadsNowhere
<1>2. CASE n # 0
  <2>1. PICK f : Flattens(f, q, n)
    <3>1. n \in 1 .. 3
      BY <1>2
    <3> QED
      BY <3>1, FlatSteps
  <2>2. Leads(a[0], f[1], a[1])
    BY <1>2, <2>1 DEF Flattens
  <2>3. ASSUME NEW i \in 1 .. n, i # 1, Leads(a[0], f[i - 1], a[i - 1])
        PROVE  Leads(a[0], f[i], a[i])
    <3>1. f[i] = f[i - 1] \o q[i] /\ Leads(a[i - 1], q[i], a[i])
      BY <2>1, <2>3 DEF Flattens
    <3> QED
      BY <2>3, <3>1, LeadsOn
  <2>4. n >= 2 => Leads(a[0], f[2], a[2])
    BY <2>2, <2>3
  <2>5. n >= 3 => Leads(a[0], f[3], a[3])
    BY <2>3, <2>4
  <2> QED
    BY <1>2, <2>1, <2>2, <2>4, <2>5 DEF Flattens
<1> QED
  BY <1>1, <1>2

-----------------------------------------------------------------------------
(***************************************************************************)
(* What each statement does to a shape.                                    *)
(***************************************************************************)
NamesOf(T) == {t.name : t \in T}

LEMMA CreateSteps ==
  ASSUME NEW T, NEW w, NEW o, NEW t, t.name \notin NamesOf(T),
         \A r \in t.refs : r[2] \in NamesOf(T) \/ r[2] = t.name
  PROVE  Steps(Shape(T, w, o), CreateTable(t), Shape(T \cup {t}, w, o))
<1> SUFFICES ASSUME NEW d, IsDatabase(d), Like(d, Shape(T, w, o)), NEW s, s = CreateTable(t)
             PROVE  /\ ~Broken(d, s) /\ IsDatabase(Apply(d, s))
                    /\ Like(Apply(d, s), Shape(T \cup {t}, w, o))
  BY DEF Steps
<1>1. d.tables = T /\ d.width = w /\ (o => d.check = Role)
  BY DEF Like, Shape
<1>2. s.kind = "create" /\ s.table = t
  BY DEF CreateTable
<1>3. ~Broken(d, s)
  BY <1>1, <1>2 DEF Broken, NamesOf, Names
<1>4. Apply(d, s) = [d EXCEPT !.tables = @ \cup {t}]
  BY <1>2 DEF Apply
<1>5. /\ IsDatabase(Apply(d, s)) /\ Apply(d, s).tables = T \cup {t}
      /\ Apply(d, s).width = d.width /\ Apply(d, s).check = d.check
  BY <1>1, <1>4 DEF IsDatabase
<1> QED
  BY <1>1, <1>2, <1>3, <1>5 DEF Like, Shape

LEMMA DropSteps ==
  ASSUME NEW T, NEW w, NEW o, NEW name, name \in NamesOf(T),
         \A x \in T : x.name # name => \A r \in x.refs : r[2] # name,
         NEW U, U = {x \in T : x.name # name}
  PROVE  Steps(Shape(T, w, o), DropTable(name), Shape(U, w, o))
<1> SUFFICES ASSUME NEW d, IsDatabase(d), Like(d, Shape(T, w, o)), NEW s, s = DropTable(name)
             PROVE  /\ ~Broken(d, s) /\ IsDatabase(Apply(d, s))
                    /\ Like(Apply(d, s), Shape(U, w, o))
  BY DEF Steps
<1>1. d.tables = T /\ d.width = w /\ (o => d.check = Role)
  BY DEF Like, Shape
<1>2. s.kind = "drop" /\ s.name = name
  BY DEF DropTable
<1>3. ~Broken(d, s)
  BY <1>1, <1>2 DEF Broken, NamesOf, Names, References
<1>4. Apply(d, s) = [d EXCEPT !.tables = {t \in @ : t.name # s.name},
                              !.rows = {r \in @ : r[1] # s.name}]
  BY <1>2 DEF Apply
<1>5. /\ IsDatabase(Apply(d, s)) /\ Apply(d, s).tables = U
      /\ Apply(d, s).width = d.width /\ Apply(d, s).check = d.check
  BY <1>1, <1>2, <1>4 DEF IsDatabase
<1> QED
  BY <1>1, <1>2, <1>3, <1>5 DEF Like, Shape

\* What the CHOOSE of a table by its name returns.
LEMMA TheOne ==
  ASSUME NEW d, Distinct(d.tables), NEW t \in d.tables
  PROVE  TheTable(d, t.name) = t
  BY DEF TheTable, Distinct

LEMMA AddSteps ==
  ASSUME NEW T, NEW w, NEW o, Distinct(T), NEW t \in T, NEW cols, NEW refs,
         t.cols \cap cols = {}, \A r \in refs : r[2] \in NamesOf(T),
         NEW u, u = [t EXCEPT !.cols = @ \cup cols, !.refs = @ \cup refs]
  PROVE  Steps(Shape(T, w, o), AddColumns(t.name, cols, refs), Shape((T \ {t}) \cup {u}, w, o))
<1> SUFFICES ASSUME NEW d, IsDatabase(d), Like(d, Shape(T, w, o)),
                    NEW s, s = AddColumns(t.name, cols, refs)
             PROVE  /\ ~Broken(d, s) /\ IsDatabase(Apply(d, s))
                    /\ Like(Apply(d, s), Shape((T \ {t}) \cup {u}, w, o))
  BY DEF Steps
<1>1. d.tables = T /\ d.width = w /\ (o => d.check = Role)
  BY DEF Like, Shape
<1>2. s.kind = "add" /\ s.name = t.name /\ s.cols = cols /\ s.refs = refs
  BY DEF AddColumns
<1>3. TheTable(d, s.name) = t
  BY <1>1, <1>2, TheOne
<1>4. ~Broken(d, s)
  BY <1>1, <1>2, <1>3 DEF Broken, NamesOf, Names
<1>5. Apply(d, s) = [d EXCEPT !.tables = (@ \ {t}) \cup {u}]
  BY <1>2, <1>3 DEF Apply
<1>6. /\ IsDatabase(Apply(d, s)) /\ Apply(d, s).tables = (T \ {t}) \cup {u}
      /\ Apply(d, s).width = d.width /\ Apply(d, s).check = d.check
  BY <1>1, <1>5 DEF IsDatabase
<1> QED
  BY <1>1, <1>4, <1>6 DEF Like, Shape

\* A table without columns, and the rows without what was stored in them.
Narrower(t, s) == [t EXCEPT !.cols = @ \ s.cols, !.refs = {r \in @ : r[1] \notin s.cols}]
Forgotten(rows, s) == {IF r[1] = s.name THEN Without(r, s.cols) ELSE r : r \in rows}
Removed(d, s, t) ==
  [d EXCEPT !.tables = (@ \ {t}) \cup {Narrower(t, s)}, !.rows = Forgotten(d.rows, s)]

LEMMA RemoveApplies ==
  ASSUME NEW d, IsDatabase(d), NEW s, s.kind = "remove", NEW t, t = TheTable(d, s.name)
  PROVE  Apply(d, s) = Removed(d, s, t)
<1>1. PICK m : m = [d EXCEPT !.tables = (@ \ {t}) \cup {Narrower(t, s)}]
  OBVIOUS
<1>2. m.rows = d.rows
  BY <1>1 DEF IsDatabase
<1>3. Apply(d, s)
        = [m EXCEPT !.rows = {IF r[1] = s.name THEN Without(r, s.cols) ELSE r : r \in @}]
  BY <1>1 DEF Apply, Narrower
<1>4. Apply(d, s) = [m EXCEPT !.rows = Forgotten(d.rows, s)]
  BY <1>1, <1>2, <1>3 DEF IsDatabase, Forgotten
<1> QED
  BY <1>1, <1>4 DEF IsDatabase, Removed

LEMMA RemoveSteps ==
  ASSUME NEW T, NEW w, NEW o, Distinct(T), NEW t \in T, NEW cols, cols \subseteq t.cols,
         NEW u, u = [t EXCEPT !.cols = @ \ cols, !.refs = {r \in @ : r[1] \notin cols}]
  PROVE  Steps(Shape(T, w, o), DropColumns(t.name, cols), Shape((T \ {t}) \cup {u}, w, o))
<1> SUFFICES ASSUME NEW d, IsDatabase(d), Like(d, Shape(T, w, o)),
                    NEW s, s = DropColumns(t.name, cols)
             PROVE  /\ ~Broken(d, s) /\ IsDatabase(Apply(d, s))
                    /\ Like(Apply(d, s), Shape((T \ {t}) \cup {u}, w, o))
  BY DEF Steps
<1>1. d.tables = T /\ d.width = w /\ (o => d.check = Role)
  BY DEF Like, Shape
<1>2. s.kind = "remove" /\ s.name = t.name /\ s.cols = cols
  BY DEF DropColumns
<1>3. TheTable(d, s.name) = t
  BY <1>1, <1>2, TheOne
<1>4. ~Broken(d, s)
  BY <1>1, <1>2, <1>3 DEF Broken, Names
<1>5. PICK R : R = {IF r[1] = s.name THEN Without(r, s.cols) ELSE r : r \in d.rows}
  OBVIOUS
<1>6. Apply(d, s) = [d EXCEPT !.tables = (@ \ {t}) \cup {u}, !.rows = R]
  <2>1. Apply(d, s) = Removed(d, s, t)
    BY <1>2, <1>3, RemoveApplies
  <2>2. u = Narrower(t, s) /\ R = Forgotten(d.rows, s)
    BY <1>2, <1>5 DEF Narrower, Forgotten
  <2> QED
    BY <2>1, <2>2 DEF Removed
<1>7. /\ IsDatabase(Apply(d, s)) /\ Apply(d, s).tables = (T \ {t}) \cup {u}
      /\ Apply(d, s).width = d.width /\ Apply(d, s).check = d.check
  BY <1>1, <1>6 DEF IsDatabase
<1> QED
  BY <1>1, <1>4, <1>7 DEF Like, Shape

LEMMA WidthSteps ==
  ASSUME NEW T, NEW w, NEW o, NEW n
  PROVE  Steps(Shape(T, w, o), KeyWidth(n), Shape(T, n, o))
<1> SUFFICES ASSUME NEW d, IsDatabase(d), Like(d, Shape(T, w, o)), NEW s, s = KeyWidth(n)
             PROVE  /\ ~Broken(d, s) /\ IsDatabase(Apply(d, s))
                    /\ Like(Apply(d, s), Shape(T, n, o))
  BY DEF Steps
<1>1. s.kind = "width" /\ s.to = n
  BY DEF KeyWidth
<1>2. ~Broken(d, s) /\ Apply(d, s) = [d EXCEPT !.width = n]
  BY <1>1 DEF Broken, Apply
<1>3. /\ IsDatabase(Apply(d, s)) /\ Apply(d, s).tables = d.tables
      /\ Apply(d, s).width = n /\ Apply(d, s).check = d.check
  BY <1>2 DEF IsDatabase
<1> QED
  BY <1>2, <1>3 DEF Like, Shape

LEMMA CheckSteps ==
  ASSUME NEW T, NEW w, NEW o
  PROVE  /\ Steps(Shape(T, w, o), RoleCheck(TRUE), Shape(T, w, TRUE))
         /\ Steps(Shape(T, w, o), RoleCheck(FALSE), Shape(T, w, FALSE))
<1>1. ASSUME NEW R, NEW d, IsDatabase(d), Like(d, Shape(T, w, o)), NEW s, s = CheckRoles(R)
      PROVE  /\ ~Broken(d, s) /\ IsDatabase(Apply(d, s))
             /\ Apply(d, s).tables = T /\ Apply(d, s).width = w /\ Apply(d, s).check = R
  <2>1. s.kind = "check" /\ s.roles = R
    BY <1>1 DEF CheckRoles
  <2>2. ~Broken(d, s) /\ Apply(d, s) = [d EXCEPT !.check = R]
    BY <2>1 DEF Broken, Apply
  <2> QED
    BY <1>1, <2>2 DEF IsDatabase, Like, Shape
<1>2. Steps(Shape(T, w, o), RoleCheck(TRUE), Shape(T, w, TRUE))
  <2>1. RoleCheck(TRUE) = CheckRoles(Role)
    BY DEF RoleCheck, Role
  <2> SUFFICES ASSUME NEW d, IsDatabase(d), Like(d, Shape(T, w, o)), NEW s, s = RoleCheck(TRUE)
               PROVE  /\ ~Broken(d, s) /\ IsDatabase(Apply(d, s))
                      /\ Like(Apply(d, s), Shape(T, w, TRUE))
    BY DEF Steps
  <2>2. s = CheckRoles(Role)
    BY <2>1
  <2>3. /\ ~Broken(d, s) /\ IsDatabase(Apply(d, s))
        /\ Apply(d, s).tables = T /\ Apply(d, s).width = w /\ Apply(d, s).check = Role
    BY <1>1, <2>2
  <2> QED
    BY <2>3 DEF Like, Shape
<1>3. Steps(Shape(T, w, o), RoleCheck(FALSE), Shape(T, w, FALSE))
  <2>1. RoleCheck(FALSE) = CheckRoles(FirstRoles)
    BY DEF RoleCheck
  <2> SUFFICES ASSUME NEW d, IsDatabase(d), Like(d, Shape(T, w, o)), NEW s, s = RoleCheck(FALSE)
               PROVE  /\ ~Broken(d, s) /\ IsDatabase(Apply(d, s))
                      /\ Like(Apply(d, s), Shape(T, w, FALSE))
    BY DEF Steps
  <2>2. s = CheckRoles(FirstRoles)
    BY <2>1
  <2>3. /\ ~Broken(d, s) /\ IsDatabase(Apply(d, s))
        /\ Apply(d, s).tables = T /\ Apply(d, s).width = w /\ Apply(d, s).check = FirstRoles
    BY <1>1, <2>2
  <2> QED
    BY <2>3 DEF Like, Shape
<1> QED
  BY <1>2, <1>3

-----------------------------------------------------------------------------
(***************************************************************************)
(* Tables that are created one after another, and dropped in reverse.      *)
(***************************************************************************)
\* Every foreign key leads to a table, and no two tables have one name.
Sound(T) ==
  /\ Distinct(T)
  /\ \A t \in T : IsTab(t) /\ \A r \in t.refs : r[2] \in NamesOf(T)

\* The tables in q can be created in this order where the names B exist.
Layered(B, q) ==
  \A i \in 1 .. Len(q) :
    /\ IsTab(q[i]) /\ q[i].name \notin B
    /\ \A j \in 1 .. Len(q) : q[j].name = q[i].name => j = i
    /\ \A r \in q[i].refs : r[2] \in B \/ \E j \in 1 .. i : r[2] = q[j].name

\* The first k of q.
First(q, k) == {q[i] : i \in 1 .. k}

LEMMA LayeredKeepsSound ==
  ASSUME NEW T, Sound(T), NEW q, IsSeq(q), Layered(NamesOf(T), q), NEW k \in 0 .. Len(q)
  PROVE  Sound(T \cup First(q, k))
<1>1. Len(q) \in Nat
  BY DEF IsSeq
<1>2. NamesOf(T \cup First(q, k)) = NamesOf(T) \cup {q[i].name : i \in 1 .. k}
  BY DEF NamesOf, First
<1>3. Distinct(T \cup First(q, k))
  BY <1>1 DEF Distinct, Sound, First, Layered, NamesOf
<1>4. ASSUME NEW t \in T \cup First(q, k)
      PROVE  IsTab(t) /\ \A r \in t.refs : r[2] \in NamesOf(T \cup First(q, k))
  <2>1. CASE t \in T
    BY <1>2, <2>1 DEF Sound
  <2>2. CASE t \in First(q, k)
    <3>1. PICK i \in 1 .. k : t = q[i]
      BY <2>2 DEF First
    <3>2. i \in 1 .. Len(q) /\ \A j \in 1 .. i : j \in 1 .. k
      BY <1>1
    <3>3. IsTab(t) /\ \A r \in t.refs : r[2] \in NamesOf(T) \/ \E j \in 1 .. i : r[2] = q[j].name
      BY <3>1, <3>2 DEF Layered
    <3>4. \A j \in 1 .. i : q[j].name \in NamesOf(T \cup First(q, k))
      BY <1>2, <3>2
    <3>5. NamesOf(T) \subseteq NamesOf(T \cup First(q, k))
      BY <1>2
    <3> QED
      BY <3>3, <3>4, <3>5
  <2> QED
    BY <2>1, <2>2
<1> QED
  BY <1>3, <1>4 DEF Sound

LEMMA FirstGrows ==
  ASSUME NEW q, NEW k \in Nat, k # 0
  PROVE  First(q, k) = First(q, k - 1) \cup {q[k]}
<1>1. \A i \in 1 .. k : i \in 1 .. k - 1 \/ i = k
  OBVIOUS
<1>2. k \in 1 .. k /\ \A i \in 1 .. k - 1 : i \in 1 .. k
  OBVIOUS
<1> QED
  BY <1>1, <1>2 DEF First

LEMMA Creates ==
  ASSUME NEW T, NEW w, NEW o, NEW q, IsSeq(q), Layered(NamesOf(T), q), NEW n, n = Len(q)
  PROVE  Leads(Shape(T, w, o), [i \in DOMAIN q |-> CreateTable(q[i])],
               Shape(T \cup First(q, n), w, o))
<1>1. n \in Nat /\ DOMAIN q = 1 .. n
  BY DEF IsSeq
<1>2. PICK c : c = [i \in 1 .. n |-> CreateTable(q[i])]
  OBVIOUS
<1>3. c \in Seq({c[i] : i \in 1 .. n}) /\ Len(c) = n
  BY <1>1, <1>2
<1>4. PICK f : f = [k \in 0 .. n |-> Shape(T \cup First(q, k), w, o)]
  OBVIOUS
<1>5. First(q, 0) = {}
  BY DEF First
<1>6. f[0] = Shape(T, w, o) /\ f[n] = Shape(T \cup First(q, n), w, o)
  BY <1>1, <1>4, <1>5
<1>7. ASSUME NEW k \in 1 .. n PROVE Steps(f[k - 1], c[k], f[k])
  <2>1. PICK U, t : U = T \cup First(q, k - 1) /\ t = q[k]
    OBVIOUS
  <2>2. T \cup First(q, k) = U \cup {t}
    BY <1>1, <2>1, FirstGrows
  <2>3. f[k - 1] = Shape(U, w, o) /\ f[k] = Shape(U \cup {t}, w, o) /\ c[k] = CreateTable(t)
    BY <1>1, <1>2, <1>4, <2>1, <2>2
  <2>4. t.name \notin NamesOf(U)
    BY <1>1, <2>1 DEF Layered, NamesOf, First
  <2>5. \A r \in t.refs : r[2] \in NamesOf(U) \/ r[2] = t.name
    <3> SUFFICES ASSUME NEW r \in t.refs, r[2] # t.name PROVE r[2] \in NamesOf(U)
      OBVIOUS
    <3>1. CASE r[2] \in NamesOf(T)
      BY <2>1, <3>1 DEF NamesOf
    <3>2. CASE \E j \in 1 .. k : r[2] = q[j].name
      <4>1. PICK j \in 1 .. k : r[2] = q[j].name
        BY <3>2
      <4>2. j \in 1 .. k - 1
        BY <2>1, <4>1
      <4>3. q[j] \in U
        BY <2>1, <4>2 DEF First
      <4> QED
        BY <4>1, <4>3 DEF NamesOf
    <3> QED
      BY <1>1, <2>1, <3>1, <3>2 DEF Layered
  <2> QED
    BY <2>3, <2>4, <2>5, CreateSteps
<1>8. Leads(Shape(T, w, o), c, Shape(T \cup First(q, n), w, o))
  BY <1>3, <1>6, <1>7 DEF Leads, Through, IsSeq
<1> QED
  BY <1>1, <1>2, <1>8

LEMMA Drops ==
  ASSUME NEW T, NEW w, NEW o, Sound(T), NEW q, IsSeq(q), Layered(NamesOf(T), q), NEW n, n = Len(q)
  PROVE  Leads(Shape(T \cup First(q, n), w, o),
               [i \in DOMAIN q |-> DropTable(Reverse(q)[i].name)], Shape(T, w, o))
<1>1. n \in Nat /\ DOMAIN q = 1 .. n
  BY DEF IsSeq
<1>2. PICK c : c = [i \in 1 .. n |-> DropTable(Reverse(q)[i].name)]
  OBVIOUS
<1>3. c \in Seq({c[i] : i \in 1 .. n}) /\ Len(c) = n
  BY <1>1, <1>2
<1>4. PICK f : f = [k \in 0 .. n |-> Shape(T \cup First(q, n - k), w, o)]
  OBVIOUS
<1>5. First(q, 0) = {}
  BY DEF First
<1>6. f[0] = Shape(T \cup First(q, n), w, o) /\ f[n] = Shape(T, w, o)
  BY <1>1, <1>4, <1>5
<1>7. ASSUME NEW k \in 1 .. n PROVE Steps(f[k - 1], c[k], f[k])
  <2>1. PICK m : m = n + 1 - k /\ m \in 1 .. n
    BY <1>1
  <2>2. PICK U, t : U = T \cup First(q, m) /\ t = q[m]
    OBVIOUS
  <2>3. n - (k - 1) = m /\ n - k = m - 1 /\ (n - k) + 1 = m
    BY <1>1, <2>1
  <2>4. Reverse(q)[k] = t
    BY <1>1, <2>2, <2>3 DEF Reverse
  <2>5. /\ f[k - 1] = Shape(U, w, o) /\ f[k] = Shape(T \cup First(q, m - 1), w, o)
        /\ c[k] = DropTable(t.name)
    <3>1. k - 1 \in 0 .. n /\ k \in 0 .. n
      BY <1>1
    <3>2. f[k - 1] = Shape(T \cup First(q, n - (k - 1)), w, o) /\ f[k] = Shape(T \cup First(q, n - k), w, o)
      BY <1>4, <3>1
    <3>3. c[k] = DropTable(t.name)
      BY <1>2, <2>4
    <3> QED
      BY <2>2, <2>3, <3>2, <3>3
  <2>6. t.name \in NamesOf(U) /\ t.name \notin NamesOf(T)
    BY <1>1, <2>1, <2>2 DEF Layered, NamesOf, First
  <2>7. ASSUME NEW x \in U, x.name # t.name PROVE \A r \in x.refs : r[2] # t.name
    <3>1. CASE x \in T
      BY <2>6, <3>1 DEF Sound
    <3>2. CASE x \notin T
      <4>1. PICK i \in 1 .. m : x = q[i]
        BY <2>2, <3>2 DEF First
      <4>2. i \in 1 .. n /\ i # m /\ \A j \in 1 .. i : j # m /\ j \in 1 .. n
        BY <1>1, <2>1, <2>2, <2>7, <4>1
      <4>3. \A j \in 1 .. i : q[j].name # t.name
        BY <1>1, <2>1, <2>2, <4>2 DEF Layered
      <4> QED
        BY <1>1, <2>6, <4>1, <4>2, <4>3 DEF Layered
    <3> QED
      BY <3>1, <3>2
  <2>8. T \cup First(q, m - 1) = {x \in U : x.name # t.name}
    <3>1. U = (T \cup First(q, m - 1)) \cup {t}
      BY <2>1, <2>2, FirstGrows
    <3>2. \A x \in T : x.name # t.name
      BY <2>6 DEF NamesOf
    <3>3. ASSUME NEW x \in First(q, m - 1) PROVE x.name # t.name
      <4>1. PICK i \in 1 .. m - 1 : x = q[i]
        BY DEF First
      <4>2. i \in 1 .. n /\ i # m
        BY <1>1, <2>1
      <4> QED
        BY <1>1, <2>1, <2>2, <4>1, <4>2 DEF Layered
    <3> QED
      BY <3>1, <3>2, <3>3
  <2> QED
    BY <2>5, <2>6, <2>7, <2>8, DropSteps
<1>8. Leads(Shape(T \cup First(q, n), w, o), c, Shape(T, w, o))
  BY <1>3, <1>6, <1>7 DEF Leads, Through, IsSeq
<1> QED
  BY <1>1, <1>2, <1>8

\* t with more columns and foreign keys.
Wider(t, cols, refs) ==
  [name |-> t.name, cols |-> t.cols \cup cols, refs |-> t.refs \cup refs, keys |-> t.keys]

\* The tables U are T with u, which is t with new columns, for t.
Altered(T, t, cols, refs, u, U) ==
  /\ t \in T /\ u = Wider(t, cols, refs) /\ U = (T \ {t}) \cup {u}
  /\ t.cols \cap cols = {} /\ \A r \in t.refs : r[1] \notin cols
  /\ \A r \in refs : r[1] \in cols /\ r[2] \in NamesOf(T)

\* Columns that are added can be dropped again.
LEMMA Alters ==
  ASSUME NEW T, NEW w, NEW o, Sound(T), NEW t, NEW cols, NEW refs, NEW u, NEW U,
         Altered(T, t, cols, refs, u, U)
  PROVE  /\ Sound(U) /\ NamesOf(U) = NamesOf(T)
         /\ Steps(Shape(T, w, o), AddColumns(t.name, cols, refs), Shape(U, w, o))
         /\ Steps(Shape(U, w, o), DropColumns(t.name, cols), Shape(T, w, o))
<1>1. /\ t \in T /\ u = Wider(t, cols, refs) /\ U = (T \ {t}) \cup {u}
      /\ t.cols \cap cols = {} /\ \A r \in t.refs : r[1] \notin cols
      /\ \A r \in refs : r[1] \in cols /\ r[2] \in NamesOf(T)
  BY DEF Altered
<1> USE <1>1
<1>2. IsTab(t) /\ Distinct(T)
  BY DEF Sound
<1>3. /\ u.name = t.name /\ u.cols = t.cols \cup cols /\ u.refs = t.refs \cup refs
      /\ u.keys = t.keys /\ IsTab(u)
  BY DEF Wider, IsTab
<1>4. u = [t EXCEPT !.cols = @ \cup cols, !.refs = @ \cup refs]
  BY <1>2, <1>3 DEF IsTab
<1>5. t = [u EXCEPT !.cols = @ \ cols, !.refs = {r \in @ : r[1] \notin cols}]
  <2>1. u.cols \ cols = t.cols /\ {r \in u.refs : r[1] \notin cols} = t.refs
    BY <1>3
  <2> QED
    BY <1>2, <1>3, <2>1 DEF IsTab
<1>6. Distinct(U)
  BY <1>2, <1>3 DEF Distinct
<1>7. NamesOf(U) = NamesOf(T)
  BY <1>3 DEF NamesOf
<1>8. Sound(U)
  <2>1. ASSUME NEW x \in U PROVE IsTab(x) /\ \A r \in x.refs : r[2] \in NamesOf(T)
    BY <1>2, <1>3 DEF Sound
  <2> QED
    BY <1>6, <1>7, <2>1 DEF Sound
<1>9. Steps(Shape(T, w, o), AddColumns(t.name, cols, refs), Shape(U, w, o))
  BY <1>2, <1>4, AddSteps
<1>10. Steps(Shape(U, w, o), DropColumns(t.name, cols), Shape(T, w, o))
  <2>1. u \in U /\ cols \subseteq u.cols
    BY <1>3
  <2>2. (U \ {u}) \cup {t} = T
    <3>1. u \in T => u = t
      BY <1>2, <1>3 DEF Distinct
    <3> QED
      BY <3>1
  <2>3. Steps(Shape(U, w, o), DropColumns(u.name, cols), Shape((U \ {u}) \cup {t}, w, o))
    BY <1>5, <1>6, <2>1, RemoveSteps
  <2> QED
    BY <1>3, <2>2, <2>3
<1> QED
  BY <1>7, <1>8, <1>9, <1>10

-----------------------------------------------------------------------------
(***************************************************************************)
(* The tables of the first revision.                                       *)
(***************************************************************************)
LEMMA TabFields ==
  \A name, cols, refs, keys :
    /\ IsTab(Tab(name, cols, refs, keys)) /\ IsTab(Stamped(name, cols, refs, keys))
    /\ Tab(name, cols, refs, keys).name = name
    /\ Tab(name, cols, refs, keys).cols = cols \cup {"id"}
    /\ Tab(name, cols, refs, keys).refs = refs
    /\ Tab(name, cols, refs, keys).keys = keys
    /\ Stamped(name, cols, refs, keys).name = name
    /\ Stamped(name, cols, refs, keys).cols = cols \cup Stamps \cup {"id"}
    /\ Stamped(name, cols, refs, keys).refs = refs
    /\ Stamped(name, cols, refs, keys).keys = keys
  BY DEF Tab, Stamped, IsTab

LEMMA RefFields ==
  \A col, table :
    /\ Cascade(col, table)[1] = col /\ Cascade(col, table)[2] = table
    /\ SetNull(col, table)[1] = col /\ SetNull(col, table)[2] = table
    /\ Protect(col, table)[1] = col /\ Protect(col, table)[2] = table
  BY DEF Cascade, SetNull, Protect

\* The names of the tables that are created up to each part of the migration.
Upto1 ==
  {"app_config", "castes", "conversations", "countries", "education_levels", "interests",
   "languages", "occupations", "religions", "states", "subscription_plans"}
Upto2 == Upto1 \cup {"users"}
Upto3 == Upto2 \cup {"astrology_profiles"}
Upto4 == Upto3 \cup {"audit_logs", "blocks", "conversation_participants"}
Upto5 == Upto4 \cup {"families", "family_members", "matches"}
Upto6 == Upto5 \cup {"messages", "notifications", "partner_preferences"}
Upto7 == Upto6 \cup {"payments", "photos", "profile_shares"}
Upto8 == Upto7 \cup {"profiles"}
Upto9 == Upto8 \cup {"refresh_tokens", "reports", "subscriptions"}
Upto10 ==
  Upto9 \cup {"swipes", "user_interests", "user_languages", "user_privacy_settings",
              "job_verifications"}
Upto11 ==
  Upto10 \cup {"preferred_castes", "preferred_countries", "preferred_diets",
               "preferred_languages", "preferred_religions", "preferred_states"}

Members(q) == First(q, Len(q))

\* A part can follow another whose tables it refers to.
LEMMA LayeredOn ==
  ASSUME NEW B, NEW s, NEW t, IsSeq(s), IsSeq(t), Layered(B, s),
         NEW C, C = B \cup NamesOf(Members(s)), Layered(C, t)
  PROVE  /\ IsSeq(s \o t) /\ Layered(B, s \o t)
         /\ Members(s \o t) = Members(s) \cup Members(t)
<1>1. PICK m, n : m = Len(s) /\ n = Len(t) /\ m \in Nat /\ n \in Nat
  <2>1. Len(s) \in Nat /\ Len(t) \in Nat
    BY DEF IsSeq
  <2> QED
    BY <2>1
<1>2. IsSeq(s \o t)
  BY Joined
<1>3. PICK q : q = s \o t
  OBVIOUS
<1>4. Len(q) = m + n /\ \A k \in 1 .. m + n : q[k] = IF k <= m THEN s[k] ELSE t[k - m]
  BY <1>1, <1>3 DEF IsSeq
<1>5. \A k \in 1 .. m : q[k] = s[k] /\ k \in 1 .. m + n
  BY <1>1, <1>4
<1>6. \A k \in 1 .. n : q[m + k] = t[k] /\ m + k \in 1 .. m + n
  BY <1>1, <1>4
<1>7. \A k \in 1 .. m + n : k \in 1 .. m \/ \E j \in 1 .. n : k = m + j
  <2> SUFFICES ASSUME NEW k \in 1 .. m + n, k \notin 1 .. m PROVE k - m \in 1 .. n /\ k = m + (k - m)
    OBVIOUS
  <2> QED
    BY <1>1
<1>8. C = B \cup {s[i].name : i \in 1 .. m}
  BY <1>1 DEF NamesOf, Members, First
<1>9. ASSUME NEW i \in 1 .. m
      PROVE  /\ IsTab(q[i]) /\ q[i].name \notin B
             /\ \A j \in 1 .. m + n : q[j].name = q[i].name => j = i
             /\ \A r \in q[i].refs : r[2] \in B \/ \E j \in 1 .. i : r[2] = q[j].name
  <2>1. /\ IsTab(s[i]) /\ s[i].name \notin B
        /\ \A j \in 1 .. m : s[j].name = s[i].name => j = i
        /\ \A r \in s[i].refs : r[2] \in B \/ \E j \in 1 .. i : r[2] = s[j].name
    BY <1>1 DEF Layered
  <2>2. \A j \in 1 .. n : t[j].name # s[i].name
    BY <1>1, <1>8 DEF Layered
  <2>3. ASSUME NEW j \in 1 .. m + n, q[j].name = q[i].name PROVE j = i
    BY <1>5, <1>6, <1>7, <2>1, <2>2, <2>3
  <2>4. \A j \in 1 .. i : j \in 1 .. m
    BY <1>1
  <2> QED
    BY <1>5, <2>1, <2>3, <2>4
<1>10. ASSUME NEW i \in 1 .. n
       PROVE  /\ IsTab(q[m + i]) /\ q[m + i].name \notin B
              /\ \A j \in 1 .. m + n : q[j].name = q[m + i].name => j = m + i
              /\ \A r \in q[m + i].refs : r[2] \in B \/ \E j \in 1 .. m + i : r[2] = q[j].name
  <2>1. /\ IsTab(t[i]) /\ t[i].name \notin C
        /\ \A j \in 1 .. n : t[j].name = t[i].name => j = i
        /\ \A r \in t[i].refs : r[2] \in C \/ \E j \in 1 .. i : r[2] = t[j].name
    BY <1>1 DEF Layered
  <2>2. ASSUME NEW j \in 1 .. m + n, q[j].name = q[m + i].name PROVE j = m + i
    <3>1. \A k \in 1 .. m : s[k].name # t[i].name
      BY <1>8, <2>1
    <3> QED
      BY <1>5, <1>6, <1>7, <2>1, <2>2, <3>1
  <2>3. ASSUME NEW r \in t[i].refs PROVE r[2] \in B \/ \E j \in 1 .. m + i : r[2] = q[j].name
    <3>1. CASE r[2] \in C
      <4>1. r[2] \in B \/ \E j \in 1 .. m : r[2] = s[j].name
        BY <1>8, <3>1
      <4>2. \A j \in 1 .. m : j \in 1 .. m + i
        BY <1>1
      <4> QED
        BY <1>5, <4>1, <4>2
    <3>2. CASE \E j \in 1 .. i : r[2] = t[j].name
      <4>1. PICK j \in 1 .. i : r[2] = t[j].name
        BY <3>2
      <4>2. j \in 1 .. n /\ m + j \in 1 .. m + i
        BY <1>1
      <4> QED
        BY <1>6, <4>1, <4>2
    <3> QED
      BY <2>1, <3>1, <3>2
  <2> QED
    BY <1>6, <1>8, <2>1, <2>2, <2>3
<1>11. Layered(B, q)
  <2>1. \A i \in 1 .. m + n :
          /\ IsTab(q[i]) /\ q[i].name \notin B
          /\ \A j \in 1 .. m + n : q[j].name = q[i].name => j = i
          /\ \A r \in q[i].refs : r[2] \in B \/ \E j \in 1 .. i : r[2] = q[j].name
    BY <1>7, <1>9, <1>10
  <2> QED
    BY <1>4, <2>1 DEF Layered
<1>12. Members(q) = Members(s) \cup Members(t)
  <2>1. Members(q) = {q[i] : i \in 1 .. m + n} /\ Members(s) = {s[i] : i \in 1 .. m}
        /\ Members(t) = {t[i] : i \in 1 .. n}
    BY <1>1, <1>4 DEF Members, First
  <2> QED
    BY <1>5, <1>6, <1>7, <2>1
<1> QED
  BY <1>2, <1>3, <1>11, <1>12

\* Part q of the migration follows when the tables B exist, and then C do.
Follows(B, q, C) == IsSeq(q) /\ Layered(B, q) /\ C = B \cup NamesOf(Members(q))

LEMMA LookupsFollow == Follows({}, Lookups, Upto1)
<1>1. Layered({}, Lookups)
  BY TabFields, RefFields DEF Lookups, Layered, Upto1
<1>2. Upto1 = {} \cup NamesOf(Members(Lookups))
  BY TabFields DEF Lookups, NamesOf, Members, First, Upto1
<1> QED
  BY <1>1, <1>2, Parts DEF Follows

LEMMA UsersFollow == Follows(Upto1, Users, Upto2)
<1>1. Layered(Upto1, Users)
  BY TabFields, RefFields DEF Users, Layered, Upto1, Upto2
<1>2. Upto2 = Upto1 \cup NamesOf(Members(Users))
  BY TabFields DEF Users, NamesOf, Members, First, Upto2
<1> QED
  BY <1>1, <1>2, Parts DEF Follows

LEMMA AstrologyFollow == Follows(Upto2, Astrology, Upto3)
<1>1. Layered(Upto2, Astrology)
  BY TabFields, RefFields DEF Astrology, Layered, Upto1, Upto2, Upto3
<1>2. Upto3 = Upto2 \cup NamesOf(Members(Astrology))
  BY TabFields DEF Astrology, NamesOf, Members, First, Upto3
<1> QED
  BY <1>1, <1>2, Parts DEF Follows

LEMMA PairsFollow == Follows(Upto3, Pairs, Upto4)
<1>1. Layered(Upto3, Pairs)
  BY TabFields, RefFields DEF Pairs, Layered, Upto1, Upto2, Upto3, Upto4
<1>2. Upto4 = Upto3 \cup NamesOf(Members(Pairs))
  BY TabFields DEF Pairs, NamesOf, Members, First, Upto4
<1> QED
  BY <1>1, <1>2, Parts DEF Follows

LEMMA FamiliesFollow == Follows(Upto4, Families, Upto5)
<1>1. Layered(Upto4, Families)
  BY TabFields, RefFields DEF Families, Layered, Upto1, Upto2, Upto3, Upto4, Upto5
<1>2. Upto5 = Upto4 \cup NamesOf(Members(Families))
  BY TabFields DEF Families, NamesOf, Members, First, Upto5
<1> QED
  BY <1>1, <1>2, Parts DEF Follows

LEMMA TalkFollow == Follows(Upto5, Talk, Upto6)
<1>1. Layered(Upto5, Talk)
  BY TabFields, RefFields DEF Talk, Layered, Upto1, Upto2, Upto3, Upto4, Upto5, Upto6
<1>2. Upto6 = Upto5 \cup NamesOf(Members(Talk))
  BY TabFields DEF Talk, NamesOf, Members, First, Upto6
<1> QED
  BY <1>1, <1>2, Parts DEF Follows

LEMMA ShownFollow == Follows(Upto6, Shown, Upto7)
<1>1. Layered(Upto6, Shown)
  BY TabFields, RefFields DEF Shown, Layered, Upto1, Upto2, Upto3, Upto4, Upto5, Upto6, Upto7
<1>2. Upto7 = Upto6 \cup NamesOf(Members(Shown))
  BY TabFields DEF Shown, NamesOf, Members, First, Upto7
<1> QED
  BY <1>1, <1>2, Parts DEF Follows

LEMMA ProfilesFollow == Follows(Upto7, Profiles, Upto8)
<1>1. Layered(Upto7, Profiles)
  BY TabFields, RefFields DEF Profiles, Layered, Upto1, Upto2, Upto3, Upto4, Upto5, Upto6, Upto7, Upto8
<1>2. Upto8 = Upto7 \cup NamesOf(Members(Profiles))
  BY TabFields DEF Profiles, NamesOf, Members, First, Upto8
<1> QED
  BY <1>1, <1>2, Parts DEF Follows

LEMMA TrustFollow == Follows(Upto8, Trust, Upto9)
<1>1. Layered(Upto8, Trust)
  BY TabFields, RefFields DEF Trust, Layered, Upto1, Upto2, Upto3, Upto4, Upto5, Upto6, Upto7, Upto8, Upto9
<1>2. Upto9 = Upto8 \cup NamesOf(Members(Trust))
  BY TabFields DEF Trust, NamesOf, Members, First, Upto9
<1> QED
  BY <1>1, <1>2, Parts DEF Follows

LEMMA ChoiceTablesFollow == Follows(Upto9, ChoiceTables, Upto10)
<1>1. Layered(Upto9, ChoiceTables)
  BY TabFields, RefFields DEF ChoiceTables, Layered, Upto1, Upto2, Upto3, Upto4, Upto5, Upto6, Upto7, Upto8, Upto9, Upto10
<1>2. Upto10 = Upto9 \cup NamesOf(Members(ChoiceTables))
  BY TabFields DEF ChoiceTables, NamesOf, Members, First, Upto10
<1> QED
  BY <1>1, <1>2, Parts DEF Follows

LEMMA PreferredFollow == Follows(Upto10, Preferred, Upto11)
<1>1. Layered(Upto10, Preferred)
  BY TabFields, RefFields DEF Preferred, Layered, Upto1, Upto2, Upto3, Upto4, Upto5, Upto6, Upto7, Upto8, Upto9, Upto10, Upto11
<1>2. Upto11 = Upto10 \cup NamesOf(Members(Preferred))
  BY TabFields DEF Preferred, NamesOf, Members, First, Upto11
<1> QED
  BY <1>1, <1>2, Parts DEF Follows

LEMMA FollowsOn ==
  ASSUME NEW B, NEW C, NEW D, NEW s, NEW t, Follows(B, s, C), Follows(C, t, D)
  PROVE  /\ Follows(B, s \o t, D)
         /\ \A x : x \in Members(s \o t) <=> x \in Members(s) \/ x \in Members(t)
<1>1. IsSeq(s \o t) /\ Layered(B, s \o t) /\ Members(s \o t) = Members(s) \cup Members(t)
  BY LayeredOn DEF Follows
<1>2. D = B \cup NamesOf(Members(s) \cup Members(t))
  BY DEF Follows, NamesOf
<1> QED
  BY <1>1, <1>2 DEF Follows

FirstTables ==
  Members(Lookups) \cup Members(Users) \cup Members(Astrology) \cup Members(Pairs)
    \cup Members(Families) \cup Members(Talk) \cup Members(Shown) \cup Members(Profiles)
    \cup Members(Trust) \cup Members(ChoiceTables) \cup Members(Preferred)

LEMMA InitialFollows ==
  Follows({}, InitialTables, Upto11) /\ Members(InitialTables) = FirstTables
<1>1. PICK q2 : q2 = Lookups \o Users
  OBVIOUS
<1>2. PICK q3 : q3 = q2 \o Astrology
  OBVIOUS
<1>3. PICK q4 : q4 = q3 \o Pairs
  OBVIOUS
<1>4. PICK q5 : q5 = q4 \o Families
  OBVIOUS
<1>5. PICK q6 : q6 = q5 \o Talk
  OBVIOUS
<1>6. PICK q7 : q7 = q6 \o Shown
  OBVIOUS
<1>7. PICK q8 : q8 = q7 \o Profiles
  OBVIOUS
<1>8. PICK q9 : q9 = q8 \o Trust
  OBVIOUS
<1>9. PICK q10 : q10 = q9 \o ChoiceTables
  OBVIOUS
<1>10. InitialTables = q10 \o Preferred
  BY <1>1, <1>2, <1>3, <1>4, <1>5, <1>6, <1>7, <1>8, <1>9 DEF InitialTables
<1>11. Follows({}, q2, Upto2) /\ Members(q2) = Members(Lookups) \cup Members(Users)
  BY <1>1, LookupsFollow, UsersFollow, FollowsOn
<1>12. Follows({}, q3, Upto3) /\ Members(q3) = Members(q2) \cup Members(Astrology)
  BY <1>2, <1>11, AstrologyFollow, FollowsOn
<1>13. Follows({}, q4, Upto4) /\ Members(q4) = Members(q3) \cup Members(Pairs)
  BY <1>3, <1>12, PairsFollow, FollowsOn
<1>14. Follows({}, q5, Upto5) /\ Members(q5) = Members(q4) \cup Members(Families)
  BY <1>4, <1>13, FamiliesFollow, FollowsOn
<1>15. Follows({}, q6, Upto6) /\ Members(q6) = Members(q5) \cup Members(Talk)
  BY <1>5, <1>14, TalkFollow, FollowsOn
<1>16. Follows({}, q7, Upto7) /\ Members(q7) = Members(q6) \cup Members(Shown)
  BY <1>6, <1>15, ShownFollow, FollowsOn
<1>17. Follows({}, q8, Upto8) /\ Members(q8) = Members(q7) \cup Members(Profiles)
  BY <1>7, <1>16, ProfilesFollow, FollowsOn
<1>18. Follows({}, q9, Upto9) /\ Members(q9) = Members(q8) \cup Members(Trust)
  BY <1>8, <1>17, TrustFollow, FollowsOn
<1>19. Follows({}, q10, Upto10) /\ Members(q10) = Members(q9) \cup Members(ChoiceTables)
  BY <1>9, <1>18, ChoiceTablesFollow, FollowsOn
<1>20. /\ Follows({}, InitialTables, Upto11)
       /\ Members(InitialTables) = Members(q10) \cup Members(Preferred)
  BY <1>10, <1>19, PreferredFollow, FollowsOn
<1> QED
  BY <1>11, <1>12, <1>13, <1>14, <1>15, <1>16, <1>17, <1>18, <1>19, <1>20 DEF FirstTables

-----------------------------------------------------------------------------
(***************************************************************************)
(* The shape that each revision leads to, and back to the one before.      *)
(***************************************************************************)
OldConfig   == Lookups[1]
OldProfiles == Profiles[1]
OldJobs     == ChoiceTables[5]
OldUsers    == Users[1]

NewConfig   == Wider(OldConfig, RemoteConfigColumns, {SetNull("updated_by", "users")})
NewProfiles == Wider(OldProfiles, ReviewColumns, {SetNull("reviewed_by", "users")})
NewJobs     == Wider(OldJobs, {"reviewer_notes"}, {})
NewUsers    == Wider(OldUsers, SuspensionColumns, {SetNull("suspended_by", "users")})

SecondTables == (FirstTables \ {OldConfig}) \cup {NewConfig}

WithDashboard == SecondTables \cup Members(Dashboard)
WithReviews   == (WithDashboard \ {OldProfiles}) \cup {NewProfiles}
WithNotes     == (WithReviews \ {OldJobs}) \cup {NewJobs}
ThirdTables   == (WithNotes \ {OldUsers}) \cup {NewUsers}

ShapeAt == [n \in 0 .. 3 |-> IF n = 0 THEN Shape({}, 100, FALSE)
                             ELSE IF n = 1 THEN Shape(FirstTables, 100, FALSE)
                             ELSE IF n = 2 THEN Shape(SecondTables, 120, FALSE)
                             ELSE Shape(ThirdTables, 120, TRUE)]

LEMMA ShapesAre ==
  /\ ShapeAt[0] = Shape({}, 100, FALSE) /\ ShapeAt[1] = Shape(FirstTables, 100, FALSE)
  /\ ShapeAt[2] = Shape(SecondTables, 120, FALSE) /\ ShapeAt[3] = Shape(ThirdTables, 120, TRUE)
  BY DEF ShapeAt

LEMMA FirstIsSound == Sound(FirstTables) /\ NamesOf(FirstTables) = Upto11
<1>1. Sound({}) /\ NamesOf({}) = {}
  BY DEF Sound, NamesOf, Distinct
<1>2. /\ IsSeq(InitialTables) /\ Layered({}, InitialTables)
      /\ Members(InitialTables) = FirstTables /\ Upto11 = NamesOf(Members(InitialTables))
  BY InitialFollows DEF Follows
<1>3. Len(InitialTables) \in Nat
  BY <1>2 DEF IsSeq
<1>4. Sound({} \cup First(InitialTables, Len(InitialTables)))
  BY <1>1, <1>2, <1>3, LayeredKeepsSound
<1> QED
  BY <1>2, <1>4 DEF Members

LEMMA InitialLeads ==
  /\ Leads(ShapeAt[0], InitialUp, ShapeAt[1])
  /\ Leads(ShapeAt[1], InitialDown, ShapeAt[0])
<1>1. Sound({}) /\ NamesOf({}) = {}
  BY DEF Sound, NamesOf, Distinct
<1>2. /\ IsSeq(InitialTables) /\ Layered({}, InitialTables)
      /\ Members(InitialTables) = FirstTables
  BY InitialFollows DEF Follows
<1>3. {} \cup First(InitialTables, Len(InitialTables)) = FirstTables
  BY <1>2 DEF Members
<1>4. Leads(Shape({}, 100, FALSE), InitialUp, Shape(FirstTables, 100, FALSE))
  BY <1>1, <1>2, <1>3, Creates DEF InitialUp
<1>5. Leads(Shape(FirstTables, 100, FALSE), InitialDown, Shape({}, 100, FALSE))
  BY <1>1, <1>2, <1>3, Drops DEF InitialDown
<1> QED
  BY <1>4, <1>5, ShapesAre

LEMMA LeadsTwice ==
  ASSUME NEW a, NEW b, NEW c, NEW s, NEW t, Steps(a, s, b), Steps(b, t, c)
  PROVE  Leads(a, <<s, t>>, c)
<1>1. PICK f : f = [k \in 0 .. 2 |-> IF k = 0 THEN a ELSE IF k = 1 THEN b ELSE c]
  OBVIOUS
<1>2. PICK q : q = <<s, t>>
  OBVIOUS
<1>3. q \in Seq({s, t}) /\ Len(q) = 2 /\ q[1] = s /\ q[2] = t
  BY <1>2
<1>4. f[0] = a /\ f[1] = b /\ f[2] = c
  BY <1>1
<1>5. ASSUME NEW k \in 1 .. 2 PROVE Steps(f[k - 1], q[k], f[k])
  <2>1. k = 1 \/ k = 2
    OBVIOUS
  <2> QED
    BY <1>3, <1>4, <2>1
<1>6. Leads(a, q, c)
  BY <1>3, <1>4, <1>5 DEF Leads, Through, IsSeq
<1> QED
  BY <1>2, <1>6

LEMMA LeadsThrice ==
  ASSUME NEW a, NEW b, NEW c, NEW d, NEW s, NEW t, NEW u,
         Steps(a, s, b), Steps(b, t, c), Steps(c, u, d)
  PROVE  Leads(a, <<s, t, u>>, d)
<1>1. PICK f : f = [k \in 0 .. 3 |-> IF k = 0 THEN a ELSE IF k = 1 THEN b
                                     ELSE IF k = 2 THEN c ELSE d]
  OBVIOUS
<1>2. PICK q : q = <<s, t, u>>
  OBVIOUS
<1>3. q \in Seq({s, t, u}) /\ Len(q) = 3 /\ q[1] = s /\ q[2] = t /\ q[3] = u
  BY <1>2
<1>4. f[0] = a /\ f[1] = b /\ f[2] = c /\ f[3] = d
  BY <1>1
<1>5. ASSUME NEW k \in 1 .. 3 PROVE Steps(f[k - 1], q[k], f[k])
  <2>1. k = 1 \/ k = 2 \/ k = 3
    OBVIOUS
  <2> QED
    BY <1>3, <1>4, <2>1
<1>6. Leads(a, q, d)
  BY <1>3, <1>4, <1>5 DEF Leads, Through, IsSeq
<1> QED
  BY <1>2, <1>6

LEMMA ConfigAlters ==
  /\ OldConfig \in FirstTables /\ OldConfig.name = "app_config"
  /\ OldConfig.cols \cap RemoteConfigColumns = {} /\ OldConfig.refs = {}
<1>1. OldConfig \in FirstTables
  BY DEF OldConfig, FirstTables, Members, First, Lookups
<1>2. /\ OldConfig.name = "app_config" /\ OldConfig.cols = {"key", "value", "description"} \cup {"id"}
      /\ OldConfig.refs = {}
  BY TabFields DEF OldConfig, Lookups
<1>3. OldConfig.cols \cap RemoteConfigColumns = {}
  BY <1>2 DEF RemoteConfigColumns
<1> QED
  BY <1>1, <1>2, <1>3

LEMMA RemoteConfigLeads ==
  /\ Leads(ShapeAt[1], RemoteConfigUp, ShapeAt[2])
  /\ Leads(ShapeAt[2], RemoteConfigDown, ShapeAt[1])
  /\ Sound(SecondTables) /\ NamesOf(SecondTables) = Upto11
<1>1. PICK refs : refs = {SetNull("updated_by", "users")}
  OBVIOUS
<1>2. \A r \in refs : r[1] \in RemoteConfigColumns /\ r[2] \in NamesOf(FirstTables)
  <2>1. "users" \in Upto11
    BY DEF Upto1, Upto2, Upto3, Upto4, Upto5, Upto6, Upto7, Upto8, Upto9, Upto10, Upto11
  <2> QED
    BY <1>1, <2>1, RefFields, FirstIsSound DEF RemoteConfigColumns
<1>3. NewConfig = Wider(OldConfig, RemoteConfigColumns, refs)
  BY <1>1 DEF NewConfig
<1>4. ASSUME NEW w
      PROVE  /\ Sound(SecondTables) /\ NamesOf(SecondTables) = NamesOf(FirstTables)
             /\ Steps(Shape(FirstTables, w, FALSE), AddColumns("app_config", RemoteConfigColumns, refs),
                      Shape(SecondTables, w, FALSE))
             /\ Steps(Shape(SecondTables, w, FALSE), DropColumns("app_config", RemoteConfigColumns),
                      Shape(FirstTables, w, FALSE))
  <2>2. \A r \in OldConfig.refs : r[1] \notin RemoteConfigColumns
    BY ConfigAlters
  <2>3. SecondTables = (FirstTables \ {OldConfig}) \cup {NewConfig}
    BY DEF SecondTables
  <2>4. Altered(FirstTables, OldConfig, RemoteConfigColumns, refs, NewConfig, SecondTables)
    BY <1>2, <1>3, <2>2, <2>3, ConfigAlters DEF Altered
  <2> QED
    BY <2>4, ConfigAlters, FirstIsSound, Alters
<1>5. RemoteConfigUp = << AddColumns("app_config", RemoteConfigColumns, refs), KeyWidth(120) >>
  BY <1>1 DEF RemoteConfigUp
<1>6. Leads(Shape(FirstTables, 100, FALSE), RemoteConfigUp, Shape(SecondTables, 120, FALSE))
  BY <1>4, <1>5, WidthSteps, LeadsTwice
<1>7. Leads(Shape(SecondTables, 120, FALSE), RemoteConfigDown, Shape(FirstTables, 100, FALSE))
  BY <1>4, WidthSteps, LeadsTwice DEF RemoteConfigDown
<1> QED
  BY <1>4, <1>6, <1>7, FirstIsSound, ShapesAre

Upto12 ==
  Upto11 \cup {"role_permissions", "user_totp_secrets", "totp_recovery_codes",
               "notification_campaigns"}

LEMMA DashboardFollow == Follows(Upto11, Dashboard, Upto12)
<1>1. Layered(Upto11, Dashboard)
  BY TabFields, RefFields
    DEF Dashboard, Layered, Upto1, Upto2, Upto3, Upto4, Upto5, Upto6, Upto7, Upto8, Upto9,
        Upto10, Upto11
<1>2. Upto12 = Upto11 \cup NamesOf(Members(Dashboard))
  BY TabFields DEF Dashboard, NamesOf, Members, First, Upto12
<1> QED
  BY <1>1, <1>2, Parts DEF Follows

LEMMA DashboardIsSound == Sound(WithDashboard) /\ NamesOf(WithDashboard) = Upto12
<1>1. Sound(SecondTables) /\ NamesOf(SecondTables) = Upto11
  BY RemoteConfigLeads
<1>2. IsSeq(Dashboard) /\ Layered(Upto11, Dashboard)
  BY DashboardFollow DEF Follows
<1>3. Len(Dashboard) \in Nat
  BY <1>2 DEF IsSeq
<1>4. Sound(SecondTables \cup First(Dashboard, Len(Dashboard)))
  BY <1>1, <1>2, <1>3, LayeredKeepsSound
<1>5. NamesOf(SecondTables \cup Members(Dashboard)) = Upto11 \cup NamesOf(Members(Dashboard))
  BY <1>1 DEF NamesOf
<1>6. Upto12 = Upto11 \cup NamesOf(Members(Dashboard))
  BY DashboardFollow DEF Follows
<1> QED
  BY <1>4, <1>5, <1>6 DEF WithDashboard, Members

\* The tables that the third revision alters, as the first one made them.
LEMMA OldTables ==
  /\ OldProfiles \in FirstTables /\ OldJobs \in FirstTables /\ OldUsers \in FirstTables
  /\ OldProfiles.name = "profiles" /\ OldJobs.name = "job_verifications" /\ OldUsers.name = "users"
  /\ OldProfiles.cols \cap ReviewColumns = {} /\ OldJobs.cols \cap {"reviewer_notes"} = {}
  /\ OldUsers.cols \cap SuspensionColumns = {}
  /\ \A r \in OldProfiles.refs : r[1] \notin ReviewColumns
  /\ \A r \in OldJobs.refs : r[1] \notin {"reviewer_notes"}
  /\ \A r \in OldUsers.refs : r[1] \notin SuspensionColumns
<1>1. OldProfiles \in FirstTables
  <2>1. 1 \in 1 .. Len(Profiles)
    BY DEF Profiles
  <2>2. OldProfiles \in Members(Profiles)
    BY <2>1 DEF OldProfiles, Members, First
  <2> QED
    BY <2>2 DEF FirstTables
<1>2. OldJobs \in FirstTables
  <2>1. 5 \in 1 .. Len(ChoiceTables)
    BY DEF ChoiceTables
  <2>2. OldJobs \in Members(ChoiceTables)
    BY <2>1 DEF OldJobs, Members, First
  <2> QED
    BY <2>2 DEF FirstTables
<1>3. OldUsers \in FirstTables
  BY DEF OldUsers, FirstTables, Members, First, Users
<1>4. /\ OldProfiles.name = "profiles" /\ OldProfiles.refs = {Cascade("user_id", "users")}
      /\ OldProfiles.cols \cap ReviewColumns = {}
  BY TabFields DEF OldProfiles, Profiles, ReviewColumns, Stamps
<1>5. /\ OldJobs.name = "job_verifications" /\ OldJobs.cols \cap {"reviewer_notes"} = {}
      /\ OldJobs.refs = {SetNull("payment_id", "payments"), SetNull("reviewer_id", "users"),
                         Cascade("user_id", "users")}
  BY TabFields DEF OldJobs, ChoiceTables, Stamps
<1>6. OldUsers.name = "users" /\ OldUsers.refs = {} /\ OldUsers.cols \cap SuspensionColumns = {}
  BY TabFields DEF OldUsers, Users, SuspensionColumns, Stamps
<1>7. \A r \in OldProfiles.refs : r[1] \notin ReviewColumns
  BY <1>4, RefFields DEF ReviewColumns
<1>8. \A r \in OldJobs.refs : r[1] \notin {"reviewer_notes"}
  BY <1>5, RefFields
<1> QED
  BY <1>1, <1>2, <1>3, <1>4, <1>5, <1>6, <1>7, <1>8

LEMMA Alterations ==
  /\ Altered(WithDashboard, OldProfiles, ReviewColumns, {SetNull("reviewed_by", "users")},
             NewProfiles, WithReviews)
  /\ Altered(WithReviews, OldJobs, {"reviewer_notes"}, {}, NewJobs, WithNotes)
  /\ Altered(WithNotes, OldUsers, SuspensionColumns, {SetNull("suspended_by", "users")},
             NewUsers, ThirdTables)
  /\ Sound(WithReviews) /\ Sound(WithNotes) /\ Sound(ThirdTables)
  /\ NamesOf(ThirdTables) = Upto12
<1>1. OldProfiles # OldConfig /\ OldJobs # OldConfig /\ OldUsers # OldConfig
  BY OldTables, ConfigAlters
<1>2. OldProfiles \in WithDashboard /\ OldJobs \in WithDashboard /\ OldUsers \in WithDashboard
  BY <1>1, OldTables DEF WithDashboard, SecondTables
<1>3. "users" \in Upto12
  BY DEF Upto1, Upto2, Upto3, Upto4, Upto5, Upto6, Upto7, Upto8, Upto9, Upto10, Upto11, Upto12
<1>4. Altered(WithDashboard, OldProfiles, ReviewColumns, {SetNull("reviewed_by", "users")},
             NewProfiles, WithReviews)
  <2>1. \A r \in {SetNull("reviewed_by", "users")} : r[1] \in ReviewColumns /\ r[2] \in Upto12
    BY <1>3, RefFields DEF ReviewColumns
  <2> QED
    BY <1>2, <2>1, OldTables, DashboardIsSound DEF Altered, NewProfiles, WithReviews
<1>5. Sound(WithReviews) /\ NamesOf(WithReviews) = Upto12
  BY <1>4, DashboardIsSound, Alters
<1>6. Altered(WithReviews, OldJobs, {"reviewer_notes"}, {}, NewJobs, WithNotes)
  BY <1>2, OldTables DEF Altered, NewJobs, WithNotes, WithReviews
<1>7. Sound(WithNotes) /\ NamesOf(WithNotes) = Upto12
  BY <1>5, <1>6, Alters
<1>8. Altered(WithNotes, OldUsers, SuspensionColumns, {SetNull("suspended_by", "users")},
             NewUsers, ThirdTables)
  <2>1. \A r \in {SetNull("suspended_by", "users")} : r[1] \in SuspensionColumns /\ r[2] \in Upto12
    BY <1>3, RefFields DEF SuspensionColumns
  <2>2. OldUsers \in WithNotes
    BY <1>2, OldTables DEF WithNotes, WithReviews
  <2> QED
    BY <1>7, <2>1, <2>2, OldTables DEF Altered, NewUsers, ThirdTables
<1>9. Sound(ThirdTables) /\ NamesOf(ThirdTables) = Upto12
  BY <1>7, <1>8, Alters
<1> QED
  BY <1>4, <1>5, <1>6, <1>7, <1>8, <1>9

LEMMA DashboardLeads ==
  /\ Leads(ShapeAt[2], DashboardUp, ShapeAt[3])
  /\ Leads(ShapeAt[3], DashboardDown, ShapeAt[2])
<1>1. PICK a : a = Shape(SecondTables, 120, TRUE)
  OBVIOUS
<1>2. PICK b : b = Shape(WithDashboard, 120, TRUE)
  OBVIOUS
<1>3. PICK c : c = Shape(WithReviews, 120, TRUE)
  OBVIOUS
<1>4. PICK d : d = Shape(WithNotes, 120, TRUE)
  OBVIOUS
<1>5. PICK e : e = Shape(ThirdTables, 120, TRUE)
  OBVIOUS
<1>6. PICK z : z = Shape(SecondTables, 120, FALSE)
  OBVIOUS
<1>7. Steps(z, RoleCheck(TRUE), a) /\ Steps(a, RoleCheck(FALSE), z)
  BY <1>1, <1>6, CheckSteps
<1>8. /\ Leads(a, [i \in DOMAIN Dashboard |-> CreateTable(Dashboard[i])], b)
      /\ Leads(b, [i \in DOMAIN Dashboard |-> DropTable(Reverse(Dashboard)[i].name)], a)
  <2>1. /\ Sound(SecondTables) /\ NamesOf(SecondTables) = Upto11
        /\ IsSeq(Dashboard) /\ Layered(Upto11, Dashboard)
    BY RemoteConfigLeads, DashboardFollow DEF Follows
  <2>2. WithDashboard = SecondTables \cup First(Dashboard, Len(Dashboard))
    BY DEF WithDashboard, Members
  <2> QED
    BY <1>1, <1>2, <2>1, <2>2, Creates, Drops
<1>9. /\ Steps(b, AddColumns("profiles", ReviewColumns, {SetNull("reviewed_by", "users")}), c)
      /\ Steps(c, DropColumns("profiles", ReviewColumns), b)
  BY <1>2, <1>3, DashboardIsSound, Alterations, Alters, OldTables
<1>10. /\ Steps(c, AddColumns("job_verifications", {"reviewer_notes"}, {}), d)
       /\ Steps(d, DropColumns("job_verifications", {"reviewer_notes"}), c)
  BY <1>3, <1>4, Alterations, Alters, OldTables
<1>11. /\ Steps(d, AddColumns("users", SuspensionColumns, {SetNull("suspended_by", "users")}), e)
       /\ Steps(e, DropColumns("users", SuspensionColumns), d)
  BY <1>4, <1>5, Alterations, Alters, OldTables
<1>12. Leads(z, DashboardUp, e)
  <2>1. Leads(z, <<RoleCheck(TRUE)>>, a)
    BY <1>7, LeadsOnce
  <2>2. Leads(z, <<RoleCheck(TRUE)>> \o [i \in DOMAIN Dashboard |-> CreateTable(Dashboard[i])], b)
    BY <1>8, <2>1, LeadsOn
  <2>3. Leads(b, << AddColumns("profiles", ReviewColumns, {SetNull("reviewed_by", "users")}),
                    AddColumns("job_verifications", {"reviewer_notes"}, {}),
                    AddColumns("users", SuspensionColumns, {SetNull("suspended_by", "users")}) >>,
                 e)
    BY <1>9, <1>10, <1>11, LeadsThrice
  <2> QED
    BY <2>2, <2>3, LeadsOn DEF DashboardUp
<1>13. Leads(e, DashboardDown, z)
  <2>1. Leads(e, << DropColumns("users", SuspensionColumns),
                    DropColumns("job_verifications", {"reviewer_notes"}),
                    DropColumns("profiles", ReviewColumns) >>, b)
    BY <1>9, <1>10, <1>11, LeadsThrice
  <2>2. Leads(e, << DropColumns("users", SuspensionColumns),
                    DropColumns("job_verifications", {"reviewer_notes"}),
                    DropColumns("profiles", ReviewColumns) >>
                 \o [i \in DOMAIN Dashboard |-> DropTable(Reverse(Dashboard)[i].name)], a)
    BY <1>8, <2>1, LeadsOn
  <2>3. Leads(a, <<RoleCheck(FALSE)>>, z)
    BY <1>7, LeadsOnce
  <2> QED
    BY <2>2, <2>3, LeadsOn DEF DashboardDown
<1> QED
  BY <1>5, <1>6, <1>12, <1>13, ShapesAre

\* Each revision leads to the next shape, and its downgrade back.
LEMMA RevisionsLead ==
  \A i \in 1 .. 3 : /\ Leads(ShapeAt[i - 1], Revision[i].up, ShapeAt[i])
                    /\ Leads(ShapeAt[i], Revision[i].down, ShapeAt[i - 1])
<1>1. /\ Revision[1].up = InitialUp /\ Revision[1].down = InitialDown
      /\ Revision[2].up = RemoteConfigUp /\ Revision[2].down = RemoteConfigDown
      /\ Revision[3].up = DashboardUp /\ Revision[3].down = DashboardDown
  BY DEF Revision
<1>2. \A i \in 1 .. 3 : i = 1 \/ i = 2 \/ i = 3
  OBVIOUS
<1> QED
  BY <1>1, <1>2, InitialLeads, RemoteConfigLeads, DashboardLeads

\* So do the revisions together, from and to any of them.
LEMMA UpgradeLeads ==
  ASSUME NEW from \in 0 .. 3
  PROVE  Leads(ShapeAt[from], Upgrade(from), ShapeAt[3])
<1>1. PICK n : n = 3 - from
  OBVIOUS
<1>2. PICK q : q = [i \in 1 .. n |-> Revision[from + i].up]
  OBVIOUS
<1>3. PICK a : a = [k \in 0 .. n |-> ShapeAt[from + k]]
  OBVIOUS
<1>4. n \in 0 .. 3 /\ q = [i \in 1 .. n |-> q[i]] /\ Upgrade(from) = FlattenSeq(q)
  BY <1>1, <1>2, ThreeRevisions DEF Upgrade
<1>5. ASSUME NEW i \in 1 .. n PROVE Leads(a[i - 1], q[i], a[i])
  <2>1. from + i \in 1 .. 3 /\ (from + i) - 1 = from + (i - 1)
    BY <1>1
  <2>2. a[i - 1] = ShapeAt[(from + i) - 1] /\ a[i] = ShapeAt[from + i]
    BY <1>1, <1>3, <2>1
  <2> QED
    BY <1>2, <2>1, <2>2, RevisionsLead
<1>6. a[0] = ShapeAt[from] /\ a[n] = ShapeAt[3]
  BY <1>1, <1>3
<1>7. Leads(a[0], FlattenSeq(q), a[n])
  BY <1>4, <1>5, LeadsThrough
<1> QED
  BY <1>4, <1>6, <1>7

LEMMA DowngradeLeads ==
  ASSUME NEW from \in 0 .. 3, NEW to \in 0 .. from
  PROVE  Leads(ShapeAt[from], Downgrade(from, to), ShapeAt[to])
<1>1. PICK n : n = from - to
  OBVIOUS
<1>2. PICK q : q = [i \in 1 .. n |-> Revision[from + 1 - i].down]
  OBVIOUS
<1>3. PICK a : a = [k \in 0 .. n |-> ShapeAt[from - k]]
  OBVIOUS
<1>4. n \in 0 .. 3 /\ q = [i \in 1 .. n |-> q[i]] /\ Downgrade(from, to) = FlattenSeq(q)
  BY <1>1, <1>2 DEF Downgrade
<1>5. ASSUME NEW i \in 1 .. n PROVE Leads(a[i - 1], q[i], a[i])
  <2>1. from + 1 - i \in 1 .. 3 /\ (from + 1 - i) - 1 = from - i /\ from + 1 - i = from - (i - 1)
    BY <1>1
  <2>2. a[i - 1] = ShapeAt[from + 1 - i] /\ a[i] = ShapeAt[(from + 1 - i) - 1]
    BY <1>1, <1>3, <2>1
  <2> QED
    BY <1>2, <2>1, <2>2, RevisionsLead
<1>6. a[0] = ShapeAt[from] /\ a[n] = ShapeAt[to]
  BY <1>1, <1>3
<1>7. Leads(a[0], FlattenSeq(q), a[n])
  BY <1>4, <1>5, LeadsThrough
<1> QED
  BY <1>4, <1>6, <1>7

\* The schema of a fresh installation has the shape of its revision.
LEMMA SchemaShapes ==
  ASSUME NEW n \in 0 .. 3
  PROVE  Like(SchemaAt[n], ShapeAt[n])
<1>1. PICK q : q = [i \in 1 .. n |-> Revision[i].up]
  OBVIOUS
<1>2. q = [i \in 1 .. n |-> q[i]]
  BY <1>1
<1>3. \A i \in 1 .. n : Leads(ShapeAt[i - 1], q[i], ShapeAt[i])
  BY <1>1, RevisionsLead
<1>4. Leads(ShapeAt[0], FlattenSeq(q), ShapeAt[n])
  BY <1>2, <1>3, LeadsThrough
<1>5. IsDatabase(EmptyDatabase) /\ Like(EmptyDatabase, ShapeAt[0])
  BY ShapesAre DEF IsDatabase, EmptyDatabase, Like, Shape
<1>6. SchemaAt[n] = Folded(EmptyDatabase, FlattenSeq(q))
  BY <1>1, ThreeRevisions DEF SchemaAt, Folded
<1> QED
  BY <1>4, <1>5, <1>6, FoldLeads

\* The tables that a later revision alters.
Altereds == {"app_config", "profiles", "job_verifications", "users"}

\* The table that a part of the migration creates stays as it is, if no later
\* revision alters it.
LEMMA Stays ==
  ASSUME NEW x, x.name \notin Altereds,
         x \in FirstTables \/ x \in Members(Dashboard)
  PROVE  x \in ThirdTables
<1>1. x \notin {OldConfig, OldProfiles, OldJobs, OldUsers}
  BY OldTables, ConfigAlters DEF Altereds
<1> QED
  BY <1>1 DEF ThirdTables, WithNotes, WithReviews, WithDashboard, SecondTables

LEMMA TablesAt ==
  /\ \A i \in 1 .. 11 : Lookups[i] \in FirstTables
  /\ Astrology[1] \in FirstTables
  /\ \A i \in 1 .. 3 : /\ Pairs[i] \in FirstTables /\ Families[i] \in FirstTables
                       /\ Talk[i] \in FirstTables /\ Shown[i] \in FirstTables
                       /\ Trust[i] \in FirstTables
  /\ \A i \in 1 .. 5 : ChoiceTables[i] \in FirstTables
  /\ \A i \in 1 .. 6 : Preferred[i] \in FirstTables
  /\ \A i \in 1 .. 4 : Dashboard[i] \in Members(Dashboard)
<1>1. /\ Len(Lookups) = 11 /\ Len(Astrology) = 1 /\ Len(Pairs) = 3 /\ Len(Families) = 3
      /\ Len(Talk) = 3 /\ Len(Shown) = 3 /\ Len(Trust) = 3 /\ Len(ChoiceTables) = 5
      /\ Len(Preferred) = 6 /\ Len(Dashboard) = 4
  BY DEF Lookups, Astrology, Pairs, Families, Talk, Shown, Trust, ChoiceTables, Preferred,
         Dashboard
<1>2. ASSUME NEW q, NEW n, Len(q) = n PROVE \A i \in 1 .. n : q[i] \in Members(q)
  BY <1>2 DEF Members, First
<1>3. \A i \in 1 .. 11 : Lookups[i] \in Members(Lookups)
  BY <1>1, <1>2
<1>4. \A i \in 1 .. 1 : Astrology[i] \in Members(Astrology)
  BY <1>1, <1>2
<1>5. \A i \in 1 .. 3 : Pairs[i] \in Members(Pairs)
  BY <1>1, <1>2
<1>6. \A i \in 1 .. 3 : Families[i] \in Members(Families)
  BY <1>1, <1>2
<1>7. \A i \in 1 .. 3 : Talk[i] \in Members(Talk)
  BY <1>1, <1>2
<1>8. \A i \in 1 .. 3 : Shown[i] \in Members(Shown)
  BY <1>1, <1>2
<1>9. \A i \in 1 .. 3 : Trust[i] \in Members(Trust)
  BY <1>1, <1>2
<1>10. \A i \in 1 .. 5 : ChoiceTables[i] \in Members(ChoiceTables)
  BY <1>1, <1>2
<1>11. \A i \in 1 .. 6 : Preferred[i] \in Members(Preferred)
  BY <1>1, <1>2
<1>12. \A i \in 1 .. 4 : Dashboard[i] \in Members(Dashboard)
  BY <1>1, <1>2
<1> QED
  BY <1>3, <1>4, <1>5, <1>6, <1>7, <1>8, <1>9, <1>10, <1>11, <1>12 DEF FirstTables

LEMMA ModelAdminThere == ModelAdmin \subseteq ThirdTables
<1> SUFFICES ASSUME NEW x \in ModelAdmin PROVE x \in ThirdTables
  OBVIOUS
<1>1. x \in {Dashboard[1], Dashboard[2], Dashboard[3]}
  BY DEF ModelAdmin, Dashboard
<1>2. x.name \notin Altereds
  BY TabFields DEF ModelAdmin, Altereds
<1> QED
  BY <1>1, <1>2, Stays, TablesAt

\* The models list some keys, columns and references in another order.
LEMMA Exchanged ==
  /\ \A a, b : {a, b} = {b, a}
  /\ \A a, b, c : {a, b, c} = {b, a, c} /\ {a, b, c} = {b, c, a}
  OBVIOUS

LEMMA ModelLookupsThere == ModelLookups \subseteq ThirdTables
<1> SUFFICES ASSUME NEW x \in ModelLookups PROVE x \in ThirdTables
  OBVIOUS
<1>1. CASE x.name \notin Altereds
  <2>1. \/ x \in {Lookups[2], Lookups[4], Lookups[5], Lookups[6], Lookups[7], Lookups[8],
            Lookups[9], Lookups[10]}
        \/ x \in {ChoiceTables[2], ChoiceTables[3]}
    <3>1. {{"name"}, {"code"}} = {{"code"}, {"name"}}
      BY Exchanged
    <3>2. /\ {Cascade("interest_id", "interests"), Cascade("user_id", "users")}
               = {Cascade("user_id", "users"), Cascade("interest_id", "interests")}
          /\ {Cascade("language_id", "languages"), Cascade("user_id", "users")}
               = {Cascade("user_id", "users"), Cascade("language_id", "languages")}
      BY Exchanged
    <3>3. x # Stamped("app_config",
        {"key", "value", "value_type", "category", "is_public", "is_active",
         "description", "updated_by"}, {SetNull("updated_by", "users")}, {{"key"}})
      BY <1>1, TabFields DEF Altereds
    <3> QED
      BY <3>1, <3>2, <3>3 DEF ModelLookups, Lookups, ChoiceTables
  <2> QED
    BY <1>1, <2>1, Stays, TablesAt
<1>2. CASE x.name \in Altereds
  <2>1. IsTab(x) /\ x.name = "app_config" /\ x.keys = {{"key"}} /\ x.refs = {SetNull("updated_by", "users")}
        /\ x.cols = {"key", "value", "value_type", "category", "is_public", "is_active",
         "description", "updated_by"} \cup Stamps \cup {"id"}
    BY <1>2, TabFields DEF ModelLookups, Altereds
  <2>2. IsTab(NewConfig) /\ NewConfig.name = "app_config" /\ NewConfig.keys = {{"key"}}
        /\ NewConfig.refs = {SetNull("updated_by", "users")}
        /\ NewConfig.cols = ({"key", "value", "description"} \cup {"id"}) \cup RemoteConfigColumns
    BY TabFields DEF NewConfig, Wider, OldConfig, Lookups, IsTab
  <2>3. x.cols = NewConfig.cols
    BY <2>1, <2>2 DEF RemoteConfigColumns, Stamps
  <2>4. x = NewConfig
    BY <2>1, <2>2, <2>3 DEF IsTab
  <2> QED
    BY <2>4, <2>2, OldTables DEF ThirdTables, WithNotes, WithReviews, WithDashboard, SecondTables
<1> QED
  BY <1>1, <1>2

LEMMA PersonsThere ==
  ModelAstrology \cup ModelAudit \cup ModelFamily \cup ModelMatch \cup ModelMessage
    \cup ModelNotification \cup ModelPhoto \cup ModelShare \cup ModelSwipe \subseteq ThirdTables
<1>1. ASSUME NEW x \in ModelAstrology \cup ModelAudit \cup ModelFamily \cup ModelMatch
      PROVE  x \in ThirdTables
  <2>1. x \in {Astrology[1], Pairs[1], Families[1], Families[2], Families[3]}
    BY <1>1 DEF ModelAstrology, ModelAudit, ModelFamily, ModelMatch, Astrology, Pairs, Families
  <2>2. x.name \notin Altereds
    BY <1>1, TabFields DEF ModelAstrology, ModelAudit, ModelFamily, ModelMatch, Altereds
  <2> QED
    BY <2>1, <2>2, Stays, TablesAt
<1>2. ASSUME NEW x \in ModelMessage \cup ModelNotification PROVE x \in ThirdTables
  <2>1. x \in {Lookups[3], Pairs[3], Talk[1], Talk[2], Dashboard[4]}
    BY <1>2 DEF ModelMessage, ModelNotification, Lookups, Pairs, Talk, Dashboard
  <2>2. x.name \notin Altereds
    BY <1>2, TabFields DEF ModelMessage, ModelNotification, Altereds
  <2> QED
    BY <2>1, <2>2, Stays, TablesAt
<1>3. ASSUME NEW x \in ModelPhoto \cup ModelShare \cup ModelSwipe PROVE x \in ThirdTables
  <2>1. x \in {Shown[2], Shown[3], ChoiceTables[1]}
    BY <1>3 DEF ModelPhoto, ModelShare, ModelSwipe, Shown, ChoiceTables
  <2>2. x.name \notin Altereds
    BY <1>3, TabFields DEF ModelPhoto, ModelShare, ModelSwipe, Altereds
  <2> QED
    BY <2>1, <2>2, Stays, TablesAt
<1> QED
  BY <1>1, <1>2, <1>3

LEMMA ModelBillingThere == ModelBilling \subseteq ThirdTables
<1> SUFFICES ASSUME NEW x \in ModelBilling PROVE x \in ThirdTables
  OBVIOUS
<1>1. {Protect("plan_id", "subscription_plans"), Cascade("user_id", "users")}
        = {Cascade("user_id", "users"), Protect("plan_id", "subscription_plans")}
  BY Exchanged
<1>2. x \in {Lookups[11], Trust[3], Shown[1]}
  BY <1>1 DEF ModelBilling, Lookups, Trust, Shown
<1>3. x.name \notin Altereds
  BY TabFields DEF ModelBilling, Altereds
<1> QED
  BY <1>2, <1>3, Stays, TablesAt

LEMMA ModelModerationThere == ModelModeration \subseteq ThirdTables
<1> SUFFICES ASSUME NEW x \in ModelModeration PROVE x \in ThirdTables
  OBVIOUS
<1>1. /\ {Cascade("blocked_id", "users"), Cascade("blocker_id", "users")}
           = {Cascade("blocker_id", "users"), Cascade("blocked_id", "users")}
      /\ {Cascade("reported_user_id", "users"), Cascade("reporter_id", "users"),
          SetNull("reviewed_by", "users")}
           = {Cascade("reporter_id", "users"), Cascade("reported_user_id", "users"),
              SetNull("reviewed_by", "users")}
  BY Exchanged
<1>2. x \in {Pairs[2], Trust[2]}
  BY <1>1 DEF ModelModeration, Pairs, Trust
<1>3. x.name \notin Altereds
  BY TabFields DEF ModelModeration, Altereds
<1> QED
  BY <1>2, <1>3, Stays, TablesAt

LEMMA ModelPreferenceThere == ModelPreference \subseteq ThirdTables
<1> SUFFICES ASSUME NEW x \in ModelPreference PROVE x \in ThirdTables
  OBVIOUS
<1>1. \A a : {a, "preference_id", "level"} = {"preference_id", a, "level"}
  BY Exchanged
<1>2. x \in {Talk[3], Preferred[1], Preferred[2], Preferred[3], Preferred[4], Preferred[5],
             Preferred[6]}
  BY <1>1 DEF ModelPreference, Talk, Preferred
<1>3. x.name \notin Altereds
  BY TabFields DEF ModelPreference, Altereds
<1> QED
  BY <1>2, <1>3, Stays, TablesAt

LEMMA ModelProfileThere == ModelProfile \subseteq ThirdTables
<1> SUFFICES ASSUME NEW x \in ModelProfile PROVE x \in ThirdTables
  OBVIOUS
<1>1. CASE x.name \notin Altereds
  <2>1. x = ChoiceTables[4]
    <3>1. x.name # "profiles"
      BY <1>1 DEF Altereds
    <3> QED
      BY <3>1, TabFields DEF ModelProfile, ChoiceTables
  <2> QED
    BY <1>1, <2>1, Stays, TablesAt
<1>2. CASE x.name \in Altereds
  <2>1. /\ IsTab(x) /\ x.name = "profiles" /\ x.keys = {{"user_id"}}
        /\ x.refs = {Cascade("user_id", "users"), SetNull("reviewed_by", "users")}
    BY <1>2, TabFields DEF ModelProfile, Altereds
  <2>2. /\ IsTab(NewProfiles) /\ NewProfiles.name = "profiles"
        /\ NewProfiles.keys = {{"user_id"}}
        /\ NewProfiles.refs = {Cascade("user_id", "users")} \cup {SetNull("reviewed_by", "users")}
    BY TabFields DEF NewProfiles, Wider, OldProfiles, Profiles, IsTab
  <2>3. x.cols = NewProfiles.cols
    BY <1>2, TabFields DEF ModelProfile, Altereds, NewProfiles, Wider, OldProfiles, Profiles,
         ReviewColumns, Stamps
  <2>4. x.refs = NewProfiles.refs
    BY <2>1, <2>2
  <2>5. x = NewProfiles
    BY <2>1, <2>2, <2>3, <2>4 DEF IsTab
  <2> QED
    BY <2>2, <2>5, OldTables DEF ThirdTables, WithNotes, WithReviews
<1> QED
  BY <1>1, <1>2

LEMMA ModelUserThere == ModelUser \subseteq ThirdTables
<1> SUFFICES ASSUME NEW x \in ModelUser PROVE x \in ThirdTables
  OBVIOUS
<1>1. CASE x.name \notin Altereds
  <2>1. x = Trust[1]
    <3>1. x.name # "users"
      BY <1>1 DEF Altereds
    <3> QED
      BY <3>1, TabFields DEF ModelUser, Trust
  <2> QED
    BY <1>1, <2>1, Stays, TablesAt
<1>2. CASE x.name \in Altereds
  <2>1. /\ IsTab(x) /\ x.name = "users" /\ x.keys = {{"phone_number"}, {"email"}}
        /\ x.refs = {SetNull("suspended_by", "users")}
    BY <1>2, TabFields DEF ModelUser, Altereds
  <2>2. /\ IsTab(NewUsers) /\ NewUsers.name = "users"
        /\ NewUsers.keys = {{"email"}, {"phone_number"}}
        /\ NewUsers.refs = {SetNull("suspended_by", "users")}
    BY TabFields DEF NewUsers, Wider, OldUsers, Users, IsTab
  <2>3. x.cols = NewUsers.cols
    BY <1>2, TabFields DEF ModelUser, Altereds, NewUsers, Wider, OldUsers, Users,
         SuspensionColumns, Stamps
  <2>4. x.keys = NewUsers.keys
    BY <2>1, <2>2
  <2>5. x = NewUsers
    BY <2>1, <2>2, <2>3, <2>4 DEF IsTab
  <2> QED
    BY <2>5 DEF ThirdTables
<1> QED
  BY <1>1, <1>2

LEMMA ModelVerificationThere == ModelVerification \subseteq ThirdTables
<1> SUFFICES ASSUME NEW x \in ModelVerification PROVE x \in ThirdTables
  OBVIOUS
<1>1. /\ IsTab(x) /\ x.name = "job_verifications" /\ x.keys = {}
      /\ x.refs = {Cascade("user_id", "users"), SetNull("payment_id", "payments"),
                   SetNull("reviewer_id", "users")}
  BY TabFields DEF ModelVerification
<1>2. /\ IsTab(NewJobs) /\ NewJobs.name = "job_verifications" /\ NewJobs.keys = {}
      /\ NewJobs.refs = {SetNull("payment_id", "payments"), SetNull("reviewer_id", "users"),
                         Cascade("user_id", "users")}
  BY TabFields DEF NewJobs, Wider, OldJobs, ChoiceTables, IsTab
<1>3. x.cols = NewJobs.cols
  BY TabFields DEF ModelVerification, NewJobs, Wider, OldJobs, ChoiceTables, Stamps
<1>4. x.refs = NewJobs.refs
  BY <1>1, <1>2
<1>5. x = NewJobs
  BY <1>1, <1>2, <1>3, <1>4 DEF IsTab
<1> QED
  BY <1>2, <1>5, OldTables DEF ThirdTables, WithNotes

\* The revisions create no table but those of the models, and these as the
\* models describe them.
LEMMA NamesInModel == Upto12 \subseteq NamesOf(Model)
<1>1. /\ Upto1 \subseteq NamesOf(ModelLookups) \cup NamesOf(ModelMessage) \cup NamesOf(ModelBilling)
      /\ "users" \in NamesOf(ModelUser) /\ "refresh_tokens" \in NamesOf(ModelUser)
      /\ "astrology_profiles" \in NamesOf(ModelAstrology) /\ "audit_logs" \in NamesOf(ModelAudit)
  BY TabFields DEF NamesOf, Upto1, ModelLookups, ModelMessage, ModelBilling, ModelUser,
       ModelAstrology, ModelAudit
<1>2. /\ {"blocks", "reports"} \subseteq NamesOf(ModelModeration)
      /\ {"conversation_participants", "messages"} \subseteq NamesOf(ModelMessage)
      /\ {"families", "family_members"} \subseteq NamesOf(ModelFamily)
      /\ "matches" \in NamesOf(ModelMatch)
      /\ {"notifications", "notification_campaigns"} \subseteq NamesOf(ModelNotification)
      /\ {"payments", "subscriptions"} \subseteq NamesOf(ModelBilling)
  BY TabFields DEF NamesOf, ModelModeration, ModelMessage, ModelFamily, ModelMatch,
       ModelNotification, ModelBilling
<1>3. /\ {"partner_preferences", "preferred_castes", "preferred_countries", "preferred_diets",
          "preferred_languages", "preferred_religions", "preferred_states"}
            \subseteq NamesOf(ModelPreference)
      /\ {"profiles", "user_privacy_settings"} \subseteq NamesOf(ModelProfile)
      /\ "photos" \in NamesOf(ModelPhoto) /\ "profile_shares" \in NamesOf(ModelShare)
      /\ "swipes" \in NamesOf(ModelSwipe)
      /\ {"user_interests", "user_languages"} \subseteq NamesOf(ModelLookups)
      /\ "job_verifications" \in NamesOf(ModelVerification)
      /\ {"role_permissions", "user_totp_secrets", "totp_recovery_codes"}
            \subseteq NamesOf(ModelAdmin)
  BY TabFields DEF NamesOf, ModelPreference, ModelProfile, ModelPhoto, ModelShare, ModelSwipe,
       ModelLookups, ModelVerification, ModelAdmin
<1>4. \A n : n \in NamesOf(ModelAdmin) \/ n \in NamesOf(ModelAstrology) \/ n \in NamesOf(ModelAudit)
             \/ n \in NamesOf(ModelBilling) \/ n \in NamesOf(ModelFamily)
             \/ n \in NamesOf(ModelLookups) \/ n \in NamesOf(ModelMatch)
             \/ n \in NamesOf(ModelMessage) \/ n \in NamesOf(ModelModeration)
             \/ n \in NamesOf(ModelNotification) \/ n \in NamesOf(ModelPhoto)
             \/ n \in NamesOf(ModelPreference) \/ n \in NamesOf(ModelProfile)
             \/ n \in NamesOf(ModelShare) \/ n \in NamesOf(ModelSwipe)
             \/ n \in NamesOf(ModelUser) \/ n \in NamesOf(ModelVerification)
             => n \in NamesOf(Model)
  BY DEF NamesOf, Model
<1> QED
  BY <1>1, <1>2, <1>3, <1>4
    DEF Upto2, Upto3, Upto4, Upto5, Upto6, Upto7, Upto8, Upto9, Upto10, Upto11, Upto12

LEMMA ThirdIsModel == ThirdTables = Model
<1>1. Model \subseteq ThirdTables
  BY ModelAdminThere, ModelLookupsThere, PersonsThere, ModelBillingThere, ModelModerationThere,
     ModelPreferenceThere, ModelProfileThere, ModelUserThere, ModelVerificationThere DEF Model
<1>2. ASSUME NEW x \in ThirdTables PROVE x \in Model
  <2>1. x.name \in Upto12
    BY Alterations DEF NamesOf
  <2>2. PICK y \in Model : y.name = x.name
    BY <2>1, NamesInModel DEF NamesOf
  <2>3. y = x
    BY <1>1, <2>2, Alterations DEF Sound, Distinct
  <2> QED
    BY <2>3
<1> QED
  BY <1>1, <1>2

-----------------------------------------------------------------------------
(***************************************************************************)
(* The kinds of the statements of each job.                                *)
(***************************************************************************)
LEMMA UpSteps ==
  OfKinds(InitialUp, UpKinds) /\ OfKinds(RemoteConfigUp, UpKinds) /\ OfKinds(DashboardUp, UpKinds)
<1>1. ASSUME NEW q, IsSeq(q), \A i \in 1 .. Len(q) : IsTab(q[i])
      PROVE  OfKinds([i \in DOMAIN q |-> CreateTable(q[i])], UpKinds)
  <2>1. DOMAIN q = 1 .. Len(q) /\ Len(q) \in Nat
    BY <1>1 DEF IsSeq
  <2>2. [i \in DOMAIN q |-> CreateTable(q[i])] \in Seq({CreateTable(q[i]) : i \in 1 .. Len(q)})
    BY <2>1
  <2>3. ASSUME NEW x \in {CreateTable(q[i]) : i \in 1 .. Len(q)} PROVE OfKind(x, UpKinds)
    <3>1. PICK i \in 1 .. Len(q) : x = CreateTable(q[i])
      OBVIOUS
    <3>2. x.kind = "create" /\ x.table = q[i]
      BY <3>1 DEF CreateTable
    <3> QED
      BY <1>1, <3>2 DEF OfKind, UpKinds
  <2> QED
    BY <2>2, <2>3 DEF OfKinds
<1>2. OfKinds(InitialUp, UpKinds)
  <2>1. \A i \in 1 .. Len(InitialTables) : IsTab(InitialTables[i])
    BY InitialFollows DEF Follows, Layered
  <2> QED
    BY <1>1, <2>1, Tables DEF InitialUp
<1>3. OfKinds(RemoteConfigUp, UpKinds)
  <2>1. RemoteConfigUp \in Seq({RemoteConfigUp[1], RemoteConfigUp[2]})
    BY DEF RemoteConfigUp
  <2>2. RemoteConfigUp[1].kind = "add" /\ RemoteConfigUp[2].kind = "width"
    BY DEF RemoteConfigUp, AddColumns, KeyWidth
  <2> QED
    BY <2>1, <2>2 DEF OfKinds, OfKind, UpKinds
<1>4. OfKinds(DashboardUp, UpKinds)
  <2>1. OfKinds(<<RoleCheck(TRUE)>>, UpKinds)
    <3>1. PICK x : x = RoleCheck(TRUE)
      OBVIOUS
    <3>2. x.kind = "check"
      BY <3>1 DEF RoleCheck, CheckRoles
    <3>3. PICK T : T = {x}
      OBVIOUS
    <3>4. <<x>> \in Seq(T)
      BY <3>3
    <3>5. OfKinds(<<x>>, UpKinds)
      BY <3>2, <3>3, <3>4 DEF OfKinds, OfKind, UpKinds
    <3> QED
      BY <3>1, <3>5
  <2>2. OfKinds([i \in DOMAIN Dashboard |-> CreateTable(Dashboard[i])], UpKinds)
    <3>1. \A i \in 1 .. Len(Dashboard) : IsTab(Dashboard[i])
      BY DashboardFollow DEF Follows, Layered
    <3> QED
      BY <1>1, <3>1, Parts
  <2>3. ASSUME NEW a, NEW b, NEW c, a.kind = "add", b.kind = "add", c.kind = "add"
        PROVE  OfKinds(<<a, b, c>>, UpKinds)
    <3>1. PICK T : T = {a, b, c}
      OBVIOUS
    <3>2. <<a, b, c>> \in Seq(T)
      BY <3>1
    <3> QED
      BY <2>3, <3>1, <3>2 DEF OfKinds, OfKind, UpKinds
  <2>4. OfKinds(<< AddColumns("profiles", ReviewColumns, {SetNull("reviewed_by", "users")}),
                   AddColumns("job_verifications", {"reviewer_notes"}, {}),
                   AddColumns("users", SuspensionColumns, {SetNull("suspended_by", "users")}) >>,
                UpKinds)
    BY <2>3 DEF AddColumns
  <2> QED
    BY <2>1, <2>2, <2>4, Concat DEF DashboardUp
<1> QED
  BY <1>2, <1>3, <1>4

LEMMA DownSteps ==
  /\ OfKinds(InitialDown, DownKinds) /\ OfKinds(RemoteConfigDown, DownKinds)
  /\ OfKinds(DashboardDown, DownKinds)
<1>1. ASSUME NEW q, IsSeq(q)
      PROVE  OfKinds([i \in DOMAIN q |-> DropTable(Reverse(q)[i].name)], DownKinds)
  <2>1. DOMAIN q = 1 .. Len(q) /\ Len(q) \in Nat
    BY <1>1 DEF IsSeq
  <2>2. [i \in DOMAIN q |-> DropTable(Reverse(q)[i].name)]
          \in Seq({DropTable(Reverse(q)[i].name) : i \in 1 .. Len(q)})
    BY <2>1
  <2>3. \A x \in {DropTable(Reverse(q)[i].name) : i \in 1 .. Len(q)} : OfKind(x, DownKinds)
    BY DEF DropTable, DownKinds, OfKind
  <2> QED
    BY <2>2, <2>3 DEF OfKinds
<1>2. OfKinds(InitialDown, DownKinds)
  BY <1>1, Tables DEF InitialDown
<1>3. OfKinds(RemoteConfigDown, DownKinds)
  <2>1. RemoteConfigDown \in Seq({RemoteConfigDown[1], RemoteConfigDown[2]})
    BY DEF RemoteConfigDown
  <2>2. RemoteConfigDown[1].kind = "width" /\ RemoteConfigDown[2].kind = "remove"
    BY DEF RemoteConfigDown, DropColumns, KeyWidth
  <2> QED
    BY <2>1, <2>2 DEF OfKinds, OfKind, DownKinds
<1>4. OfKinds(DashboardDown, DownKinds)
  <2>1. OfKinds(<<RoleCheck(FALSE)>>, DownKinds)
    <3>1. PICK x : x = RoleCheck(FALSE)
      OBVIOUS
    <3>2. x.kind = "check"
      BY <3>1 DEF RoleCheck, CheckRoles
    <3>3. PICK T : T = {x}
      OBVIOUS
    <3>4. <<x>> \in Seq(T)
      BY <3>3
    <3>5. OfKinds(<<x>>, DownKinds)
      BY <3>2, <3>3, <3>4 DEF OfKinds, OfKind, DownKinds
    <3> QED
      BY <3>1, <3>5
  <2>2. OfKinds([i \in DOMAIN Dashboard |-> DropTable(Reverse(Dashboard)[i].name)], DownKinds)
    BY <1>1, Parts
  <2>3. ASSUME NEW a, NEW b, NEW c, a.kind = "remove", b.kind = "remove", c.kind = "remove"
        PROVE  OfKinds(<<a, b, c>>, DownKinds)
    <3>1. PICK T : T = {a, b, c}
      OBVIOUS
    <3>2. <<a, b, c>> \in Seq(T)
      BY <3>1
    <3> QED
      BY <2>3, <3>1, <3>2 DEF OfKinds, OfKind, DownKinds
  <2>4. OfKinds(<< DropColumns("users", SuspensionColumns),
                   DropColumns("job_verifications", {"reviewer_notes"}),
                   DropColumns("profiles", ReviewColumns) >>, DownKinds)
    BY <2>3 DEF DropColumns
  <2> QED
    BY <2>1, <2>2, <2>4, Concat DEF DashboardDown
<1> QED
  BY <1>2, <1>3, <1>4

LEMMA Revisions ==
  /\ Latest = 3
  /\ \A i \in 1 .. 3 : OfKinds(Revision[i].up, UpKinds) /\ OfKinds(Revision[i].down, DownKinds)
<1>1. Latest = 3 /\ \A i \in 1 .. 3 : i = 1 \/ i = 2 \/ i = 3
  BY DEF Latest, Revision
<1>2. /\ Revision[1].up = InitialUp /\ Revision[1].down = InitialDown
      /\ Revision[2].up = RemoteConfigUp /\ Revision[2].down = RemoteConfigDown
      /\ Revision[3].up = DashboardUp /\ Revision[3].down = DashboardDown
  BY DEF Revision
<1> QED
  BY <1>1, <1>2, UpSteps, DownSteps

LEMMA UpgradeKinds ==
  ASSUME NEW from \in 0 .. 3
  PROVE  OfKinds(Upgrade(from), UpKinds)
<1>1. PICK q : q = [i \in 1 .. 3 - from |-> Revision[from + i].up]
  OBVIOUS
<1>2. \A i \in 1 .. 3 - from : OfKinds(q[i], UpKinds)
  BY <1>1, Revisions
<1>3. 3 - from \in 0 .. 3 /\ q = [i \in 1 .. 3 - from |-> q[i]]
  BY <1>1
<1>4. OfKinds(FlattenSeq(q), UpKinds)
  BY <1>2, <1>3, Flat
<1> QED
  BY <1>1, <1>4, Revisions DEF Upgrade

LEMMA DowngradeKinds ==
  ASSUME NEW from \in 0 .. 3, NEW to \in 0 .. from
  PROVE  OfKinds(Downgrade(from, to), DownKinds)
<1>1. PICK q : q = [i \in 1 .. from - to |-> Revision[from + 1 - i].down]
  OBVIOUS
<1>2. \A i \in 1 .. from - to : OfKinds(q[i], DownKinds)
  BY <1>1, Revisions
<1>3. from - to \in 0 .. 3 /\ q = [i \in 1 .. from - to |-> q[i]]
  BY <1>1
<1>4. OfKinds(FlattenSeq(q), DownKinds)
  BY <1>2, <1>3, Flat
<1> QED
  BY <1>1, <1>4 DEF Downgrade

LEMMA SeedKindsHold ==
  ASSUME NEW email
  PROVE  OfKinds(Seed(email), SeedKinds)
<1>1. PICK T : T = {Seed(email)[i] : i \in 1 .. 11}
  OBVIOUS
<1>2. Seed(email) \in Seq(T)
  BY <1>1 DEF Seed
<1>3. \A i \in 1 .. 11 : Seed(email)[i].kind \in SeedKinds
  BY DEF Seed, InsertMissing, InsertAdmin, SeedKinds
<1>4. \A x \in T : OfKind(x, SeedKinds)
  <2> SUFFICES ASSUME NEW x \in T PROVE OfKind(x, SeedKinds)
    OBVIOUS
  <2>1. PICK i \in 1 .. 11 : x = Seed(email)[i]
    BY <1>1
  <2> QED
    BY <1>3, <2>1 DEF OfKind, SeedKinds
<1> QED
  BY <1>2, <1>4 DEF OfKinds

-----------------------------------------------------------------------------
(***************************************************************************)
(* The invariant.  What is left to a job is of its kinds; the rows in its  *)
(* transaction are the committed ones while it upgrades, those and what    *)
(* was missing while it seeds, and while it downgrades those whose table   *)
(* still exists, without what was stored in the columns that are gone.     *)
(***************************************************************************)
\* The row r may join rows: nothing that keeps its name is there under it.
NewName(r, rows) ==
  \A q \in rows : q[1] = r[1] /\ q[2] = r[2] => q[3] = "renamed" \/ r[1] = "users"

\* What is left of the row r of d in e.
Shrunk(r, d, e) == Without(r, Columns(d, r[1]) \ Columns(e, r[1]))

\* e is what statements of a downgrade can make of d.
Shrinks(d, e) ==
  /\ Names(e) \subseteq Names(d)
  /\ \A n : Columns(e, n) \subseteq Columns(d, n)
  /\ \A r \in d.rows : r[1] \in Names(e) => Shrunk(r, d, e) \in e.rows
  /\ \A q \in e.rows : \E r \in d.rows : q = Shrunk(r, d, e)

Upgrading ==
  job = "upgrade" => OfKinds(todo, UpKinds) /\ work.rows = db.rows

Seeding ==
  job = "seed" => /\ OfKinds(todo, SeedKinds)
                  /\ db.rows \subseteq work.rows
                  /\ \A r \in work.rows \ db.rows : NewName(r, db.rows)

Downgrading ==
  job = "downgrade" => OfKinds(todo, DownKinds) /\ Shrinks(db, work)

\* One table under a name, and rows of four fields.
Orderly(d) ==
  /\ Distinct(d.tables) /\ \A t \in d.tables : IsTab(t)
  /\ \A r \in d.rows : r = <<r[1], r[2], r[3], r[4]>>

\* The service starts when a job has ended, and no job starts while it runs.
Idle == up => job = "none"

DInv ==
  /\ Idle
  /\ head \in 0 .. 3 /\ goal \in 0 .. 3
  /\ job \in {"none", "upgrade", "seed", "downgrade"}
  /\ job = "none" => todo = << >>
  /\ IsDatabase(db) /\ IsDatabase(work) /\ Orderly(db) /\ Orderly(work)
  /\ Upgrading /\ Seeding /\ Downgrading

\* What a statement does to the rows and the names of the tables.
LEMMA UpApplies ==
  ASSUME NEW d, IsDatabase(d), Orderly(d), NEW s, OfKind(s, UpKinds), ~Broken(d, s)
  PROVE  IsDatabase(Apply(d, s)) /\ Orderly(Apply(d, s)) /\ Apply(d, s).rows = d.rows
<1>1. CASE s.kind = "create"
  <2>1. Apply(d, s) = [d EXCEPT !.tables = @ \cup {s.table}]
    BY <1>1 DEF Apply
  <2>2. /\ IsDatabase(Apply(d, s)) /\ Apply(d, s).rows = d.rows
        /\ Apply(d, s).tables = d.tables \cup {s.table}
    BY <2>1 DEF IsDatabase
  <2>3. \A t \in d.tables : t.name # s.table.name
    BY <1>1 DEF Broken, Names
  <2>4. IsTab(s.table)
    BY <1>1 DEF OfKind
  <2> QED
    BY <2>2, <2>3, <2>4 DEF Orderly, Distinct
<1>2. CASE s.kind = "add"
  <2>1. PICK t : t = TheTable(d, s.name)
    OBVIOUS
  <2>2. t \in d.tables /\ t.name = s.name
    BY <1>2, <2>1 DEF Broken, Names, TheTable
  <2>3. PICK u : u = [t EXCEPT !.cols = @ \cup s.cols, !.refs = @ \cup s.refs]
    OBVIOUS
  <2>4. Apply(d, s) = [d EXCEPT !.tables = (@ \ {t}) \cup {u}]
    BY <1>2, <2>1, <2>3 DEF Apply
  <2>5. /\ IsDatabase(Apply(d, s)) /\ Apply(d, s).rows = d.rows
        /\ Apply(d, s).tables = (d.tables \ {t}) \cup {u}
    BY <2>4 DEF IsDatabase
  <2>6. IsTab(t)
    BY <2>2 DEF Orderly
  <2>7. u.name = t.name /\ IsTab(u)
    BY <2>3, <2>6 DEF IsTab
  <2> QED
    BY <2>2, <2>5, <2>7 DEF Orderly, Distinct
<1>3. CASE s.kind = "width"
  BY <1>3 DEF Apply, IsDatabase, Orderly
<1>4. CASE s.kind = "check"
  BY <1>4 DEF Apply, IsDatabase, Orderly
<1> QED
  BY <1>1, <1>2, <1>3, <1>4 DEF OfKind, UpKinds

LEMMA SeedApplies ==
  ASSUME NEW d, IsDatabase(d), Orderly(d), NEW s, s.kind \in SeedKinds
  PROVE  /\ IsDatabase(Apply(d, s)) /\ Orderly(Apply(d, s))
         /\ d.rows \subseteq Apply(d, s).rows
         /\ \A r \in Apply(d, s).rows \ d.rows : NewName(r, d.rows)
<1>1. CASE s.kind = "insert"
  <2>1. Apply(d, s) = [d EXCEPT !.rows = @ \cup {<<s.name, n, "seeded", {}>> : n \in Missing(d, s)}]
    BY <1>1 DEF Apply
  <2>2. PICK N : N = {<<s.name, n, "seeded", {}>> : n \in Missing(d, s)}
    OBVIOUS
  <2>3. \A r \in N : NewName(r, d.rows) /\ r = <<r[1], r[2], r[3], r[4]>>
    BY <2>2 DEF NewName, Missing
  <2>4. /\ IsDatabase(Apply(d, s)) /\ Apply(d, s).rows = d.rows \cup N
        /\ Apply(d, s).tables = d.tables
    BY <2>1, <2>2 DEF IsDatabase
  <2> QED
    BY <2>3, <2>4 DEF Orderly
<1>2. CASE s.kind = "admin"
  <2>1. CASE s.spelled = "unset"
    BY <1>2, <2>1 DEF Apply
  <2>2. CASE s.spelled # "unset"
    <3>1. PICK r : r = <<"users", "SUPER_ADMIN", "dev", {}>>
      OBVIOUS
    <3>2. Apply(d, s) = [d EXCEPT !.rows = @ \cup {r}]
      BY <1>2, <2>2, <3>1 DEF Apply
    <3>3. /\ IsDatabase(Apply(d, s)) /\ Apply(d, s).rows = d.rows \cup {r}
          /\ Apply(d, s).tables = d.tables
      BY <3>2 DEF IsDatabase
    <3>4. NewName(r, d.rows) /\ r = <<r[1], r[2], r[3], r[4]>>
      BY <3>1 DEF NewName
    <3> QED
      BY <3>3, <3>4 DEF Orderly
  <2> QED
    BY <2>1, <2>2
<1> QED
  BY <1>1, <1>2 DEF SeedKinds

\* Without changes what is stored in a row and nothing else about it.
LEMMA Rows ==
  ASSUME NEW r, NEW X
  PROVE  /\ Without(r, X) = <<Without(r, X)[1], Without(r, X)[2], Without(r, X)[3],
                              Without(r, X)[4]>>
         /\ Without(r, X)[1] = r[1] /\ Without(r, X)[2] = r[2] /\ Without(r, X)[3] = r[3]
         /\ Without(r, X)[4] = r[4] \ X
  BY DEF Without

\* A database from which nothing is taken, and what is taken in two steps.
LEMMA ShrinksNothing ==
  ASSUME NEW d, Orderly(d), NEW e, e.rows = d.rows, Names(e) = Names(d),
         \A n : Columns(e, n) = Columns(d, n)
  PROVE  Shrinks(d, e)
<1>1. ASSUME NEW r \in d.rows PROVE Shrunk(r, d, e) = r
  <2>1. PICK X : X = Columns(d, r[1]) \ Columns(e, r[1])
    OBVIOUS
  <2>2. X = {} /\ r[4] \ X = r[4] /\ r = <<r[1], r[2], r[3], r[4]>>
    BY <2>1 DEF Orderly
  <2>3. Without(r, X) = r
    BY <2>2 DEF Without
  <2> QED
    BY <2>1, <2>3 DEF Shrunk
<1> QED
  BY <1>1 DEF Shrinks

LEMMA ShrinksTwice ==
  ASSUME NEW d, NEW e, NEW f, Shrinks(d, e), Shrinks(e, f)
  PROVE  Shrinks(d, f)
<1>1. ASSUME NEW r PROVE Shrunk(Shrunk(r, d, e), e, f) = Shrunk(r, d, f)
  <2>1. PICK C, D, E : C = Columns(d, r[1]) /\ D = Columns(e, r[1]) /\ E = Columns(f, r[1])
    OBVIOUS
  <2>2. E \subseteq D /\ D \subseteq C
    BY <2>1 DEF Shrinks
  <2>3. (r[4] \ (C \ D)) \ (D \ E) = r[4] \ (C \ E)
    BY <2>2
  <2>4. PICK q : q = Without(r, C \ D)
    OBVIOUS
  <2>5. q[1] = r[1] /\ q[2] = r[2] /\ q[3] = r[3] /\ q[4] = r[4] \ (C \ D)
    BY <2>4, Rows
  <2>6. Without(q, D \ E) = Without(r, C \ E)
    BY <2>3, <2>5 DEF Without
  <2> QED
    BY <2>1, <2>4, <2>5, <2>6 DEF Shrunk
<1>2. \A r : Shrunk(r, d, e)[1] = r[1]
  BY Rows DEF Shrunk
<1>3. Names(f) \subseteq Names(d) /\ \A n : Columns(f, n) \subseteq Columns(d, n)
  BY DEF Shrinks
<1>4. ASSUME NEW r \in d.rows, r[1] \in Names(f) PROVE Shrunk(r, d, f) \in f.rows
  <2>1. PICK q : q = Shrunk(r, d, e)
    OBVIOUS
  <2>2. q \in e.rows /\ q[1] = r[1]
    BY <1>2, <1>4, <2>1 DEF Shrinks
  <2>3. Shrunk(q, e, f) \in f.rows
    BY <1>4, <2>2 DEF Shrinks
  <2> QED
    BY <1>1, <2>1, <2>3
<1>5. ASSUME NEW q \in f.rows PROVE \E r \in d.rows : q = Shrunk(r, d, f)
  <2>1. PICK p \in e.rows : q = Shrunk(p, e, f)
    BY DEF Shrinks
  <2>2. PICK r \in d.rows : p = Shrunk(r, d, e)
    BY DEF Shrinks
  <2> QED
    BY <1>1, <2>1, <2>2
<1> QED
  BY <1>3, <1>4, <1>5 DEF Shrinks

LEMMA DownApplies ==
  ASSUME NEW d, IsDatabase(d), Orderly(d), NEW s, s.kind \in DownKinds, ~Broken(d, s)
  PROVE  IsDatabase(Apply(d, s)) /\ Orderly(Apply(d, s)) /\ Shrinks(d, Apply(d, s))
<1>1. CASE s.kind = "drop"
  <2>1. PICK e : e = Apply(d, s)
    OBVIOUS
  <2>2. e = [d EXCEPT !.tables = {t \in @ : t.name # s.name},
                      !.rows = {r \in @ : r[1] # s.name}]
    BY <1>1, <2>1 DEF Apply
  <2>3. /\ IsDatabase(e)
        /\ e.tables = {t \in d.tables : t.name # s.name}
        /\ e.rows = {r \in d.rows : r[1] # s.name}
    BY <2>2 DEF IsDatabase
  <2>4. Orderly(e) /\ Names(e) \subseteq Names(d) /\ s.name \notin Names(e)
    BY <2>3 DEF Orderly, Distinct, Names
  <2>5. \A n : Columns(e, n) \subseteq Columns(d, n)
    BY <2>3 DEF Columns
  <2>6. ASSUME NEW n, n # s.name PROVE Columns(e, n) = Columns(d, n)
    <3>1. {u \in e.tables : u.name = n} = {u \in d.tables : u.name = n}
      BY <2>3, <2>6
    <3> QED
      BY <3>1 DEF Columns
  <2>7. ASSUME NEW r \in e.rows PROVE r = Shrunk(r, d, e)
    <3>1. r \in d.rows /\ r[1] # s.name /\ r = <<r[1], r[2], r[3], r[4]>>
      BY <2>3 DEF Orderly
    <3>2. PICK X : X = Columns(d, r[1]) \ Columns(e, r[1])
      OBVIOUS
    <3>3. X = {} /\ r[4] \ X = r[4]
      BY <2>6, <3>1, <3>2
    <3>4. Without(r, X) = r
      BY <3>1, <3>3 DEF Without
    <3> QED
      BY <3>2, <3>4 DEF Shrunk
  <2>8. Shrinks(d, e)
    BY <2>3, <2>4, <2>5, <2>7 DEF Shrinks
  <2> QED
    BY <2>1, <2>3, <2>4, <2>8
<1>2. CASE s.kind = "remove"
  <2>1. PICK t : t = TheTable(d, s.name)
    OBVIOUS
  <2>2. t \in d.tables /\ t.name = s.name /\ s.cols \subseteq t.cols
    BY <1>2, <2>1 DEF Broken, Names, TheTable
  <2>3. PICK u : u = [t EXCEPT !.cols = @ \ s.cols,
                               !.refs = {r \in @ : r[1] \notin s.cols}]
    OBVIOUS
  <2>4. PICK R : R = {IF r[1] = s.name THEN Without(r, s.cols) ELSE r : r \in d.rows}
    OBVIOUS
  <2>5. PICK e : e = Apply(d, s)
    OBVIOUS
  <2>6. e = [d EXCEPT !.tables = (@ \ {t}) \cup {u}, !.rows = R]
    <3>1. e = Removed(d, s, t)
      BY <1>2, <2>1, <2>5, RemoveApplies
    <3>2. u = Narrower(t, s) /\ R = Forgotten(d.rows, s)
      BY <2>3, <2>4 DEF Narrower, Forgotten
    <3> QED
      BY <3>1, <3>2 DEF Removed
  <2>7. IsDatabase(e) /\ e.tables = (d.tables \ {t}) \cup {u} /\ e.rows = R
    BY <2>6 DEF IsDatabase
  <2>8. IsTab(t)
    BY <2>2 DEF Orderly
  <2>9. u.name = s.name /\ u.cols = t.cols \ s.cols /\ IsTab(u)
    BY <2>2, <2>3, <2>8 DEF IsTab
  <2>10. /\ Names(e) = Names(d) /\ Distinct(e.tables)
         /\ \A x \in e.tables : IsTab(x)
    BY <2>2, <2>7, <2>9 DEF Names, Orderly, Distinct
  <2>11. Orderly(e)
    <3>1. ASSUME NEW q \in R PROVE q = <<q[1], q[2], q[3], q[4]>>
      <4>1. PICK r \in d.rows : q = IF r[1] = s.name THEN Without(r, s.cols) ELSE r
        BY <2>4
      <4> QED
        BY <4>1, Rows DEF Orderly
    <3> QED
      BY <2>7, <2>10, <3>1 DEF Orderly
  <2>12. Columns(d, s.name) = t.cols
    <3>1. {x \in d.tables : x.name = s.name} = {t}
      BY <2>2 DEF Orderly, Distinct
    <3> QED
      BY <3>1 DEF Columns
  <2>13. Columns(e, s.name) = t.cols \ s.cols
    <3>1. {x \in e.tables : x.name = s.name} = {u}
      BY <2>7, <2>9, <2>10 DEF Distinct
    <3> QED
      BY <2>9, <3>1 DEF Columns
  <2>14. ASSUME NEW n, n # s.name PROVE Columns(e, n) = Columns(d, n)
    <3>1. {x \in e.tables : x.name = n} = {x \in d.tables : x.name = n}
      BY <2>2, <2>7, <2>9, <2>14
    <3> QED
      BY <3>1 DEF Columns
  <2>15. \A n : Columns(e, n) \subseteq Columns(d, n)
    BY <2>12, <2>13, <2>14
  <2>16. ASSUME NEW r \in d.rows
         PROVE  Shrunk(r, d, e) = IF r[1] = s.name THEN Without(r, s.cols) ELSE r
    <3>1. PICK X : X = Columns(d, r[1]) \ Columns(e, r[1])
      OBVIOUS
    <3>2. Shrunk(r, d, e) = Without(r, X)
      BY <3>1 DEF Shrunk
    <3>3. CASE r[1] = s.name
      <4>1. X = s.cols
        BY <2>2, <2>12, <2>13, <3>1, <3>3
      <4> QED
        BY <3>2, <3>3, <4>1
    <3>4. CASE r[1] # s.name
      <4>1. X = {} /\ r[4] \ X = r[4] /\ r = <<r[1], r[2], r[3], r[4]>>
        BY <2>14, <3>1, <3>4 DEF Orderly
      <4>2. Without(r, X) = r
        BY <4>1 DEF Without
      <4> QED
        BY <3>2, <3>4, <4>2
    <3> QED
      BY <3>3, <3>4
  <2>17. \A r \in d.rows : Shrunk(r, d, e) \in e.rows
    BY <2>4, <2>7, <2>16
  <2>18. ASSUME NEW q \in e.rows PROVE \E r \in d.rows : q = Shrunk(r, d, e)
    <3>1. PICK r \in d.rows : q = IF r[1] = s.name THEN Without(r, s.cols) ELSE r
      BY <2>4, <2>7
    <3> QED
      BY <2>16, <3>1
  <2>19. Shrinks(d, e)
    BY <2>10, <2>15, <2>17, <2>18 DEF Shrinks
  <2> QED
    BY <2>5, <2>7, <2>11, <2>19
<1>3. ASSUME s.kind = "width" \/ s.kind = "check"
      PROVE  IsDatabase(Apply(d, s)) /\ Orderly(Apply(d, s)) /\ Shrinks(d, Apply(d, s))
  <2>1. PICK e : e = Apply(d, s)
    OBVIOUS
  <2>2. IsDatabase(e) /\ e.tables = d.tables /\ e.rows = d.rows
    <3>1. CASE s.kind = "width"
      BY <2>1, <3>1 DEF Apply, IsDatabase
    <3>2. CASE s.kind = "check"
      BY <2>1, <3>2 DEF Apply, IsDatabase
    <3> QED
      BY <1>3, <3>1, <3>2
  <2>3. Orderly(e) /\ Names(e) = Names(d) /\ \A n : Columns(e, n) = Columns(d, n)
    BY <2>2 DEF Orderly, Names, Columns
  <2>4. Shrinks(d, e)
    BY <2>2, <2>3, ShrinksNothing
  <2> QED
    BY <2>1, <2>2, <2>3, <2>4
<1> QED
  BY <1>1, <1>2, <1>3 DEF DownKinds

\* Nothing is wrong with the empty database.
LEMMA EmptyIsOrderly ==
  /\ IsDatabase(EmptyDatabase) /\ Orderly(EmptyDatabase)
  BY DEF IsDatabase, Orderly, Distinct, EmptyDatabase

LEMMA DInit == Init => DInv
  BY EmptyIsOrderly DEF Init, DInv, Idle, Upgrading, Seeding, Downgrading

\* A transaction begins with the committed database.
LEMMA ShrinksSame == ASSUME NEW d, Orderly(d) PROVE Shrinks(d, d)
  BY ShrinksNothing

LEMMA StatementKeeps ==
  ASSUME DInv, Statement
  PROVE  DInv'
<1>1. PICK s : /\ s = Head(todo) /\ todo # << >> /\ ~Broken(work, s)
               /\ work' = Apply(work, s) /\ todo' = Tail(todo)
  BY DEF Statement, Blocked
<1>2. /\ db' = db /\ head' = head /\ job' = job /\ goal' = goal /\ up' = up /\ Idle /\ job # "none"
      /\ head \in 0 .. 3 /\ goal \in 0 .. 3
      /\ job \in {"none", "upgrade", "seed", "downgrade"}
      /\ IsDatabase(db) /\ IsDatabase(work) /\ Orderly(db) /\ Orderly(work)
      /\ Upgrading /\ Seeding /\ Downgrading
  BY <1>1 DEF Statement, DInv
<1>3. CASE job = "upgrade"
  <2>1. OfKind(s, UpKinds) /\ OfKinds(todo', UpKinds) /\ work.rows = db.rows
    BY <1>1, <1>2, <1>3, Rest DEF Upgrading
  <2>2. IsDatabase(work') /\ Orderly(work') /\ work'.rows = work.rows
    BY <1>1, <1>2, <2>1, UpApplies
  <2> QED
    BY <1>2, <1>3, <2>1, <2>2 DEF DInv, Idle, IsDatabase, Orderly, Upgrading, Seeding, Downgrading
<1>4. CASE job = "seed"
  <2>1. s.kind \in SeedKinds /\ OfKinds(todo', SeedKinds)
    BY <1>1, <1>2, <1>4, Rest DEF Seeding, OfKind
  <2>2. /\ IsDatabase(work') /\ Orderly(work') /\ work.rows \subseteq work'.rows
        /\ \A r \in work'.rows \ work.rows : NewName(r, work.rows)
    BY <1>1, <1>2, <2>1, SeedApplies
  <2>3. db.rows \subseteq work'.rows /\ \A r \in work'.rows \ db.rows : NewName(r, db.rows)
    BY <1>2, <1>4, <2>2 DEF Seeding, NewName
  <2> QED
    BY <1>2, <1>4, <2>1, <2>2, <2>3 DEF DInv, Idle, IsDatabase, Orderly, Upgrading, Seeding, Downgrading
<1>5. CASE job = "downgrade"
  <2>1. s.kind \in DownKinds /\ OfKinds(todo', DownKinds)
    BY <1>1, <1>2, <1>5, Rest DEF Downgrading, OfKind
  <2>2. PICK e : e = Apply(work, s)
    OBVIOUS
  <2>3. IsDatabase(e) /\ Orderly(e) /\ Shrinks(work, e)
    BY <1>1, <1>2, <2>1, <2>2, DownApplies
  <2>4. Shrinks(db, e)
    BY <1>2, <1>5, <2>3, ShrinksTwice DEF Downgrading
  <2>5. PICK d : d = db
    OBVIOUS
  <2>6. work' = e /\ db' = d /\ Shrinks(d, e)
    BY <1>1, <1>2, <2>2, <2>4, <2>5
  <2>7. Downgrading'
    BY <2>1, <2>6 DEF Downgrading, Shrinks, Shrunk, Names, Columns, Without
  <2> QED
    BY <1>2, <1>5, <2>3, <2>6, <2>7 DEF DInv, Idle, IsDatabase, Orderly, Upgrading, Seeding
<1> QED
  BY <1>2, <1>3, <1>4, <1>5

LEMMA StartJobKeeps ==
  ASSUME DInv, NEW email, StartJob(email)
  PROVE  DInv'
<1>1. /\ job' = "upgrade" /\ todo' = Upgrade(head) /\ goal' = Latest /\ work' = db
      /\ db' = db /\ head' = head /\ ~up'
  BY DEF StartJob, Begin
<1>2. OfKinds(todo', UpKinds) /\ goal' = 3
  BY <1>1, UpgradeKinds, Revisions DEF DInv
<1> QED
  BY <1>1, <1>2 DEF DInv, Idle, IsDatabase, Orderly, Upgrading, Seeding, Downgrading

LEMMA StartDowngradeKeeps ==
  ASSUME DInv, NEW to \in 0 .. Latest - 1, StartDowngrade(to)
  PROVE  DInv'
<1>1. /\ job' = "downgrade" /\ todo' = Downgrade(head, to) /\ goal' = to /\ work' = db
      /\ db' = db /\ head' = head /\ to < head /\ ~up'
  BY DEF StartDowngrade, Begin
<1>2. head \in 0 .. 3 /\ to \in 0 .. head /\ to \in 0 .. 3
  BY <1>1, Revisions DEF DInv
<1>3. OfKinds(todo', DownKinds)
  BY <1>1, <1>2, DowngradeKinds
<1>4. PICK d : d = db
  OBVIOUS
<1>5. db' = d /\ work' = d /\ Shrinks(d, d)
  BY <1>1, <1>4, ShrinksSame DEF DInv
<1>6. Downgrading'
  BY <1>3, <1>5 DEF Downgrading, Shrinks, Shrunk, Names, Columns, Without
<1> QED
  BY <1>1, <1>2, <1>6 DEF DInv, Idle, IsDatabase, Orderly, Upgrading, Seeding

LEMMA CommitKeeps ==
  ASSUME DInv, Commit
  PROVE  DInv'
<1>1. db' = work /\ head' = goal /\ goal' = goal /\ todo = << >>
      /\ job \in {"upgrade", "seed", "downgrade"}
  BY DEF Commit, DInv
<1>2. IsDatabase(EmptyDatabase) /\ Orderly(EmptyDatabase)
  BY EmptyIsOrderly
<1>3. CASE job = "upgrade"
  <2>1. job' = "seed" /\ todo' = Seed(spelled) /\ work' = work /\ up' = up
    BY <1>3 DEF Commit
  <2>2. OfKinds(todo', SeedKinds)
    BY <2>1, SeedKindsHold
  <2> QED
    BY <1>1, <2>1, <2>2 DEF DInv, Idle, IsDatabase, Orderly, Upgrading, Seeding, Downgrading
<1>4. CASE job # "upgrade"
  <2>1. job' = "none" /\ todo' = << >> /\ work' = EmptyDatabase
    BY <1>1, <1>4 DEF Commit
  <2> QED
    BY <1>1, <1>2, <2>1 DEF DInv, Idle, IsDatabase, Orderly, Upgrading, Seeding, Downgrading
<1> QED
  BY <1>3, <1>4

\* With the service running no job is.
LEMMA OthersKeep ==
  ASSUME DInv, NEW rows, \A r \in rows : r = <<r[1], r[2], r[3], r[4]>>,
         Abort \/ StopService \/ Writes(rows)
  PROVE  DInv'
<1>1. IsDatabase(EmptyDatabase) /\ Orderly(EmptyDatabase)
  BY EmptyIsOrderly
<1>2. CASE Abort
  BY <1>1, <1>2 DEF Abort, DInv, Idle, IsDatabase, Upgrading, Seeding, Downgrading
<1>3. CASE StopService
  BY <1>3 DEF StopService, DInv, Idle, IsDatabase, Upgrading, Seeding, Downgrading
<1>4. CASE Writes(rows)
  <2>1. db' = [db EXCEPT !.rows = rows] /\ job = "none" /\ job' = "none"
    BY <1>4 DEF Writes, DInv, Idle
  <2>2. IsDatabase(db') /\ db'.tables = db.tables /\ db'.rows = rows
    BY <2>1 DEF DInv, IsDatabase
  <2>3. Orderly(db')
    BY <2>2 DEF DInv, Orderly
  <2> QED
    BY <1>4, <2>1, <2>2, <2>3 DEF Writes, DInv, Idle, IsDatabase, Upgrading, Seeding, Downgrading
<1> QED
  BY <1>2, <1>3, <1>4

LEMMA NextKeeps == DInv /\ [Next]_dvars => DInv'
<1> SUFFICES ASSUME DInv, [Next]_dvars PROVE DInv'
  OBVIOUS
<1>1. CASE UNCHANGED dvars
  <2>1. /\ db' = db /\ head' = head /\ job' = job /\ work' = work /\ todo' = todo
        /\ goal' = goal /\ up' = up
    BY <1>1 DEF dvars
  <2>2. PICK d, e : d = db /\ e = work
    OBVIOUS
  <2>3. db' = d /\ work' = e /\ (job = "downgrade" => Shrinks(d, e))
    BY <2>1, <2>2 DEF DInv, Downgrading
  <2>4. Downgrading'
    BY <2>1, <2>2, <2>3 DEF DInv, Downgrading, Shrinks, Shrunk, Names, Columns, Without
  <2> QED
    BY <2>1, <2>4 DEF DInv, Idle, IsDatabase, Orderly, Upgrading, Seeding
<1>2. CASE \E email \in {"unset", "lower", "mixed"} : StartJob(email)
  BY <1>2, StartJobKeeps
<1>3. CASE \E to \in 0 .. Latest - 1 : StartDowngrade(to)
  BY <1>3, StartDowngradeKeeps
<1>4. CASE Statement
  BY <1>4, StatementKeeps
<1>5. CASE Commit
  BY <1>5, CommitKeeps
<1>6. CASE Abort \/ StopService
  <2>1. PICK rows : rows = {}
    OBVIOUS
  <2> QED
    BY <1>6, <2>1, OthersKeep
<1>7. ASSUME NEW r, NEW mark, NEW cols, Edit(r, mark, cols) PROVE DInv'
  <2>1. PICK q : q = <<r[1], r[2], mark, r[4] \cup cols>>
    OBVIOUS
  <2>2. PICK rows : rows = (db.rows \ {r}) \cup {q}
    OBVIOUS
  <2>3. Writes(rows) /\ q = <<q[1], q[2], q[3], q[4]>>
    BY <1>7, <2>1, <2>2 DEF Edit
  <2>4. \A x \in rows : x = <<x[1], x[2], x[3], x[4]>>
    BY <2>2, <2>3 DEF DInv, Orderly
  <2> QED
    BY <2>3, <2>4, OthersKeep
<1>8. ASSUME NEW q, q = <<q[1], q[2], q[3], q[4]>>, Writes(db.rows \cup {q}) PROVE DInv'
  <2>1. PICK rows : rows = db.rows \cup {q}
    OBVIOUS
  <2>2. Writes(rows) /\ \A x \in rows : x = <<x[1], x[2], x[3], x[4]>>
    BY <1>8, <2>1 DEF DInv, Orderly
  <2> QED
    BY <2>2, OthersKeep
<1>9. ASSUME NEW k \in Edited, NEW cols \in EditedColumns, EditConfig(k, cols) PROVE DInv'
  BY <1>7, <1>9 DEF EditConfig
<1>10. CASE RenamePlan("Premium")
  BY <1>7, <1>10 DEF RenamePlan
<1>11. CASE CreateLongKey
  <2>1. PICK q : q = <<"app_config", Key("app", FALSE, "long"), "long",
                       ConfigColumns \cup {"key", "value_type", "updated_by"}>>
    OBVIOUS
  <2>2. q = <<q[1], q[2], q[3], q[4]>> /\ Writes(db.rows \cup {q})
    BY <1>11, <2>1 DEF CreateLongKey
  <2> QED
    BY <1>8, <2>2
<1>12. ASSUME NEW x, GiveRole(x) PROVE DInv'
  <2>1. PICK q : q = <<"users", x, "staff", {"role"}>>
    OBVIOUS
  <2>2. q = <<q[1], q[2], q[3], q[4]>> /\ Writes(db.rows \cup {q})
    BY <1>12, <2>1 DEF GiveRole
  <2> QED
    BY <1>8, <2>2
<1> QED
  BY <1>1, <1>2, <1>3, <1>4, <1>5, <1>6, <1>9, <1>10, <1>11, <1>12 DEF Next

\* Wherever a job has got to, what is left of it is of its kinds, and the rows
\* in its transaction are the committed ones as far as it may change them.
THEOREM DeploymentInvariant == Spec => []DInv
  BY DInit, NextKeeps, PTL DEF Spec

\* What a step of a job leaves of the committed rows.
Kept ==
  job # "none" =>
    /\ \A r \in db.rows : r[1] \in Names(db') => Left(r, db') \in db'.rows
    /\ \A q \in db'.rows : (\E r \in db.rows : q = Left(r, db')) \/ NewName(q, db.rows)

LEMMA CommitsKept ==
  ASSUME DInv, Commit
  PROVE  Kept
<1>1. db' = work /\ job \in {"upgrade", "seed", "downgrade"}
  BY DEF Commit, DInv
<1>2. CASE job \in {"upgrade", "seed"}
  <2>1. \A r : Left(r, work) = r
    BY <1>2 DEF Left
  <2>2. /\ \A r \in db.rows : Left(r, work) \in work.rows
        /\ \A q \in work.rows : (\E r \in db.rows : q = Left(r, work)) \/ NewName(q, db.rows)
    BY <1>2, <2>1 DEF DInv, Upgrading, Seeding
  <2> QED
    BY <1>1, <2>2 DEF Kept
<1>3. CASE job = "downgrade"
  <2>1. \A r : Left(r, work) = Shrunk(r, db, work)
    BY <1>3 DEF Left, Shrunk
  <2>2. /\ \A r \in db.rows : r[1] \in Names(work) => Left(r, work) \in work.rows
        /\ \A q \in work.rows : \E r \in db.rows : q = Left(r, work)
    BY <1>3, <2>1 DEF DInv, Downgrading, Shrinks
  <2> QED
    BY <1>1, <2>2 DEF Kept
<1> QED
  BY <1>1, <1>2, <1>3

\* The upgrade and the seed (seed.py, migrations/versions) keep every value
\* that administrators set, and a downgrade every one for which its schema
\* has the column, whatever jobs ran, failed or were cut off before.
THEOREM EditsKept == Spec => EditsSurvive
<1>1. DInv /\ [Next]_dvars => [Kept]_db
  <2> SUFFICES ASSUME DInv, Next, db' # db PROVE Kept
    BY DEF dvars
  <2>1. CASE Commit
    BY <2>1, CommitsKept
  <2>2. CASE Statement \/ Abort
    BY <2>2 DEF Statement, Abort
  <2>3. CASE \/ \E email \in {"unset", "lower", "mixed"} : StartJob(email)
             \/ \E to \in 0 .. Latest - 1 : StartDowngrade(to)
    BY <2>3 DEF StartJob, StartDowngrade, Begin
  <2>4. CASE up
    BY <2>4 DEF DInv, Idle, Kept
  <2> QED
    BY <2>1, <2>2, <2>3, <2>4
      DEF Next, StopService, EditConfig, CreateLongKey, RenamePlan, GiveRole, Edit, Writes
<1>2. Kept => (job # "none" =>
                 /\ \A r \in db.rows : r[1] \in Names(db') => Left(r, db') \in db'.rows
                 /\ \A q \in db'.rows \ {Left(r, db') : r \in db.rows}, r \in db.rows :
                      q[1] = r[1] /\ q[2] = r[2] => r[3] = "renamed" \/ q[1] = "users")
  BY DEF Kept, NewName
<1> QED
  BY <1>1, <1>2, DeploymentInvariant, PTL DEF Spec, EditsSurvive

-----------------------------------------------------------------------------
(***************************************************************************)
(* The second invariant: the committed schema is the one of its revision,  *)
(* and what is left of a job leads to that of the revision it ends at.     *)
(***************************************************************************)
\* Every name that s inserts is there.
Filled(rows, s) == \A n \in s.names : \E r \in rows : r[1] = s.name /\ r[2] = n

Shaped == Like(db, ShapeAt[head])

OnItsWay ==
  /\ job \in {"upgrade", "seed"} => goal = 3
  /\ job \in {"upgrade", "downgrade"} =>
       \E a : Like(work, a) /\ Leads(a, todo, ShapeAt[goal])

\* What the seed has done is in its transaction.
SeedGoesOn ==
  job = "seed" =>
    /\ Like(work, ShapeAt[3])
    /\ IsSeq(todo) /\ Members(todo) \subseteq Members(Seed(spelled))
    /\ \A s \in Members(Seed(spelled)) :
         s.kind = "insert" => s \in Members(todo) \/ Filled(work.rows, s)

Served ==
  up => /\ head = 3
        /\ \A s \in Members(Seed(spelled)) : s.kind = "insert" => Filled(db.rows, s)

RInv == Shaped /\ OnItsWay /\ SeedGoesOn /\ Served

\* The first of a sequence is the one member that its rest may lack.
LEMMA MembersOfRest ==
  ASSUME NEW q, IsSeq(q), q # << >>
  PROVE  /\ IsSeq(Tail(q)) /\ Head(q) \in Members(q) /\ Members(Tail(q)) \subseteq Members(q)
         /\ \A x \in Members(q) : x = Head(q) \/ x \in Members(Tail(q))
<1>1. PICK T : q \in Seq(T)
  BY DEF IsSeq
<1>2. PICK n, t : n = Len(q) /\ t = Tail(q)
  OBVIOUS
<1>3. /\ n \in Nat /\ n >= 1 /\ t \in Seq(T) /\ Len(t) = n - 1 /\ Head(q) = q[1]
      /\ \A i \in 1 .. n - 1 : t[i] = q[i + 1]
  BY <1>1, <1>2
<1>4. Head(q) \in Members(q)
  BY <1>2, <1>3 DEF Members, First
<1>5. ASSUME NEW x \in Members(t) PROVE x \in Members(q)
  <2>1. PICK i \in 1 .. n - 1 : x = t[i]
    BY <1>3, <1>5 DEF Members, First
  <2>2. i + 1 \in 1 .. n /\ x = q[i + 1]
    BY <1>3, <2>1
  <2> QED
    BY <1>2, <2>2 DEF Members, First
<1>6. ASSUME NEW x \in Members(q), x # Head(q) PROVE x \in Members(t)
  <2>1. PICK i \in 1 .. n : x = q[i]
    BY <1>2, <1>6 DEF Members, First
  <2>2. i - 1 \in 1 .. n - 1 /\ i = (i - 1) + 1
    BY <1>3, <1>6, <2>1
  <2>3. x = t[i - 1]
    BY <1>3, <2>1, <2>2
  <2> QED
    BY <1>3, <2>2, <2>3 DEF Members, First
<1> QED
  BY <1>2, <1>3, <1>4, <1>5, <1>6 DEF IsSeq

\* s is a statement of the seed that the latest schema has the table for.
OfSeed(s) == s.kind = "admin" \/ (s.kind = "insert" /\ s.name \in Upto12)

LEMMA SeedTables ==
  ASSUME NEW email
  PROVE  /\ IsSeq(Seed(email)) /\ DOMAIN Seed(email) = 1 .. Len(Seed(email))
         /\ \A s \in Members(Seed(email)) : OfSeed(s)
<1>1. PICK T : T = {Seed(email)[i] : i \in 1 .. 11}
  OBVIOUS
<1>2. Seed(email) \in Seq(T) /\ Len(Seed(email)) = 11
  BY <1>1 DEF Seed
<1>3. {"languages", "religions", "castes", "countries", "states", "education_levels",
       "occupations", "interests", "subscription_plans", "app_config"} \subseteq Upto12
  BY DEF Upto1, Upto2, Upto3, Upto4, Upto5, Upto6, Upto7, Upto8, Upto9, Upto10, Upto11, Upto12
<1>4. /\ \A name, names : name \in Upto12 => OfSeed(InsertMissing(name, names))
      /\ OfSeed(InsertAdmin(email))
  BY DEF OfSeed, InsertMissing, InsertAdmin
<1>5. \A i \in 1 .. 11 : OfSeed(Seed(email)[i])
  <2>1. /\ OfSeed(Seed(email)[1]) /\ OfSeed(Seed(email)[2]) /\ OfSeed(Seed(email)[3])
        /\ OfSeed(Seed(email)[4]) /\ OfSeed(Seed(email)[5]) /\ OfSeed(Seed(email)[6])
        /\ OfSeed(Seed(email)[7]) /\ OfSeed(Seed(email)[8]) /\ OfSeed(Seed(email)[9])
        /\ OfSeed(Seed(email)[10]) /\ OfSeed(Seed(email)[11])
    BY <1>3, <1>4 DEF Seed
  <2>2. \A i \in 1 .. 11 : \/ i = 1 \/ i = 2 \/ i = 3 \/ i = 4 \/ i = 5 \/ i = 6 \/ i = 7
                           \/ i = 8 \/ i = 9 \/ i = 10 \/ i = 11
    OBVIOUS
  <2> QED
    BY <2>1, <2>2
<1> QED
  BY <1>2, <1>5 DEF IsSeq, Members, First

\* A statement of the seed fits the latest schema and leaves it as it is.
LEMMA SeedFits ==
  ASSUME NEW d, IsDatabase(d), Like(d, ShapeAt[3]), NEW s, OfSeed(s)
  PROVE  /\ ~Broken(d, s) /\ Like(Apply(d, s), ShapeAt[3])
         /\ d.rows \subseteq Apply(d, s).rows
         /\ s.kind = "insert" => Filled(Apply(d, s).rows, s)
<1>1. d.tables = ThirdTables
  BY ShapesAre DEF Like, Shape
<1>2. Names(d) = Upto12
  BY <1>1, Alterations DEF Names, NamesOf
<1>3. ~Broken(d, s)
  BY <1>2 DEF Broken, OfSeed
<1>4. CASE s.kind = "admin"
  BY <1>3, <1>4 DEF Apply, IsDatabase, Like
<1>5. CASE s.kind = "insert"
  <2>1. PICK N : N = {<<s.name, n, "seeded", {}>> : n \in Missing(d, s)}
    OBVIOUS
  <2>2. Apply(d, s) = [d EXCEPT !.rows = @ \cup N]
    BY <1>5, <2>1 DEF Apply
  <2>3. /\ Apply(d, s).rows = d.rows \cup N /\ Apply(d, s).tables = d.tables
        /\ Apply(d, s).width = d.width /\ Apply(d, s).check = d.check
    BY <2>2 DEF IsDatabase
  <2>4. ASSUME NEW n \in s.names PROVE \E r \in d.rows \cup N : r[1] = s.name /\ r[2] = n
    <3>1. CASE n \in Missing(d, s)
      <4>1. PICK r \in N : r = <<s.name, n, "seeded", {}>>
        BY <2>1, <3>1
      <4> QED
        BY <4>1
    <3>2. CASE n \notin Missing(d, s)
      BY <3>2 DEF Missing
    <3> QED
      BY <3>1, <3>2
  <2> QED
    BY <1>3, <2>3, <2>4 DEF Like, Filled
<1> QED
  BY <1>4, <1>5 DEF OfSeed

LEMMA RInit == Init => RInv
<1> SUFFICES ASSUME Init PROVE RInv
  OBVIOUS
<1>1. /\ db = EmptyDatabase /\ head = 0 /\ job = "none" /\ up = FALSE
  BY DEF Init
<1>2. Shaped
  BY <1>1, ShapesAre DEF Shaped, Like, Shape, EmptyDatabase
<1> QED
  BY <1>1, <1>2 DEF RInv, OnItsWay, SeedGoesOn, Served

LEMMA StatementFits ==
  ASSUME DInv, RInv, Statement
  PROVE  RInv'
<1>1. PICK s : /\ s = Head(todo) /\ todo # << >>
               /\ work' = Apply(work, s) /\ todo' = Tail(todo)
  BY DEF Statement
<1>2. /\ db' = db /\ head' = head /\ job' = job /\ goal' = goal /\ up' = up
      /\ spelled' = spelled /\ ~up
      /\ IsDatabase(work) /\ job \in {"upgrade", "seed", "downgrade"}
      /\ Shaped /\ OnItsWay /\ SeedGoesOn
  BY <1>1 DEF Statement, DInv, Idle, RInv
<1>3. CASE job \in {"upgrade", "downgrade"}
  <2>1. PICK a : Like(work, a) /\ Leads(a, todo, ShapeAt[goal])
    BY <1>2, <1>3 DEF OnItsWay
  <2>2. PICK c : Steps(a, s, c) /\ Leads(c, todo', ShapeAt[goal])
    BY <1>1, <2>1, LeadsFirst
  <2>3. Like(work', c)
    BY <1>1, <1>2, <2>1, <2>2 DEF Steps
  <2> QED
    BY <1>2, <1>3, <2>2, <2>3 DEF RInv, Shaped, OnItsWay, SeedGoesOn, Served
<1>4. CASE job = "seed"
  <2>1. /\ Like(work, ShapeAt[3]) /\ IsSeq(todo) /\ Members(todo) \subseteq Members(Seed(spelled))
        /\ \A x \in Members(Seed(spelled)) :
             x.kind = "insert" => x \in Members(todo) \/ Filled(work.rows, x)
    BY <1>2, <1>4 DEF SeedGoesOn
  <2>2. /\ IsSeq(todo') /\ s \in Members(todo) /\ Members(todo') \subseteq Members(todo)
        /\ \A x \in Members(todo) : x = s \/ x \in Members(todo')
    BY <1>1, <2>1, MembersOfRest
  <2>3. OfSeed(s)
    BY <2>1, <2>2, SeedTables
  <2>4. /\ Like(work', ShapeAt[3]) /\ work.rows \subseteq work'.rows
        /\ s.kind = "insert" => Filled(work'.rows, s)
    BY <1>1, <1>2, <2>1, <2>3, SeedFits
  <2>5. \A x \in Members(Seed(spelled)) :
          x.kind = "insert" => x \in Members(todo') \/ Filled(work'.rows, x)
    BY <2>1, <2>2, <2>4 DEF Filled
  <2>6. SeedGoesOn'
    BY <1>2, <2>1, <2>2, <2>4, <2>5 DEF SeedGoesOn
  <2> QED
    BY <1>2, <1>4, <2>6 DEF RInv, Shaped, OnItsWay, Served
<1> QED
  BY <1>2, <1>3, <1>4

LEMMA StartJobFits ==
  ASSUME DInv, RInv, NEW email, StartJob(email)
  PROVE  RInv'
<1>1. /\ job' = "upgrade" /\ todo' = Upgrade(head) /\ goal' = 3 /\ work' = db
      /\ db' = db /\ head' = head /\ ~up' /\ head \in 0 .. 3
  BY Revisions DEF StartJob, Begin, DInv
<1>2. Like(work', ShapeAt[head]) /\ Leads(ShapeAt[head], todo', ShapeAt[goal'])
  BY <1>1, UpgradeLeads DEF RInv, Shaped
<1> QED
  BY <1>1, <1>2 DEF RInv, Shaped, OnItsWay, SeedGoesOn, Served

LEMMA StartDowngradeFits ==
  ASSUME DInv, RInv, NEW to \in 0 .. Latest - 1, StartDowngrade(to)
  PROVE  RInv'
<1>1. /\ job' = "downgrade" /\ todo' = Downgrade(head, to) /\ goal' = to /\ work' = db
      /\ db' = db /\ head' = head /\ to < head /\ ~up' /\ head \in 0 .. 3 /\ to \in 0 .. head
  BY Revisions DEF StartDowngrade, Begin, DInv
<1>2. Like(work', ShapeAt[head]) /\ Leads(ShapeAt[head], todo', ShapeAt[goal'])
  BY <1>1, DowngradeLeads DEF RInv, Shaped
<1> QED
  BY <1>1, <1>2 DEF RInv, Shaped, OnItsWay, SeedGoesOn, Served

LEMMA CommitFits ==
  ASSUME DInv, RInv, Commit
  PROVE  RInv'
<1>1. /\ db' = work /\ head' = goal /\ goal' = goal /\ todo = << >> /\ spelled' = spelled /\ ~up
      /\ job \in {"upgrade", "seed", "downgrade"}
      /\ OnItsWay /\ SeedGoesOn
  BY DEF Commit, DInv, Idle, RInv
<1>2. CASE job \in {"upgrade", "downgrade"}
  <2>1. Like(work, ShapeAt[goal])
    <3>1. PICK a : Like(work, a) /\ Leads(a, << >>, ShapeAt[goal])
      BY <1>1, <1>2 DEF OnItsWay
    <3> QED
      BY <3>1, LeadsDone
  <2>2. CASE job = "upgrade"
    <3>1. job' = "seed" /\ todo' = Seed(spelled) /\ work' = work /\ ~up' /\ goal = 3
      BY <1>1, <2>2 DEF Commit, OnItsWay
    <3>2. SeedGoesOn'
      BY <1>1, <2>1, <3>1, SeedTables DEF SeedGoesOn
    <3> QED
      BY <1>1, <2>1, <3>1, <3>2 DEF RInv, Shaped, OnItsWay, Served
  <2>3. CASE job = "downgrade"
    <3>1. job' = "none" /\ ~up'
      BY <1>1, <2>3 DEF Commit
    <3> QED
      BY <1>1, <2>1, <3>1 DEF RInv, Shaped, OnItsWay, SeedGoesOn, Served
  <2> QED
    BY <1>2, <2>2, <2>3
<1>3. CASE job = "seed"
  <2>1. job' = "none" /\ goal = 3
    BY <1>1, <1>3 DEF Commit, OnItsWay
  <2>2. Members(todo) = {}
    BY <1>1 DEF Members, First
  <2>3. /\ Like(work, ShapeAt[3])
        /\ \A s \in Members(Seed(spelled)) : s.kind = "insert" => Filled(work.rows, s)
    BY <1>1, <1>3, <2>2 DEF SeedGoesOn
  <2> QED
    BY <1>1, <2>1, <2>3 DEF RInv, Shaped, OnItsWay, SeedGoesOn, Served
<1> QED
  BY <1>1, <1>2, <1>3

\* What administrators write replaces a row by one of its name at the most.
LEMMA WritesFit ==
  ASSUME DInv, RInv, NEW rows, Writes(rows),
         \A r \in db.rows : \E q \in rows : q[1] = r[1] /\ q[2] = r[2]
  PROVE  RInv'
<1>1. /\ db' = [db EXCEPT !.rows = rows] /\ job = "none" /\ job' = job /\ head' = head
      /\ spelled' = spelled /\ up' = up /\ IsDatabase(db) /\ Shaped /\ Served
  BY DEF Writes, DInv, Idle, RInv
<1>2. /\ db'.tables = db.tables /\ db'.width = db.width /\ db'.check = db.check
      /\ db'.rows = rows
  BY <1>1 DEF IsDatabase
<1>3. Shaped'
  BY <1>1, <1>2 DEF Shaped, Like
<1>4. \A s : Filled(db.rows, s) => Filled(rows, s)
  BY DEF Filled
<1>5. Served'
  BY <1>1, <1>2, <1>4 DEF Served
<1> QED
  BY <1>1, <1>3, <1>5 DEF RInv, OnItsWay, SeedGoesOn

LEMMA OthersFit ==
  ASSUME DInv, RInv, Abort \/ StopService \/ UNCHANGED dvars
  PROVE  RInv'
<1>1. CASE Abort
  BY <1>1 DEF Abort, DInv, Idle, RInv, Shaped, OnItsWay, SeedGoesOn, Served
<1>2. CASE StopService
  BY <1>2 DEF StopService, DInv, Idle, RInv, Shaped, OnItsWay, SeedGoesOn, Served
<1>3. CASE UNCHANGED dvars
  BY <1>3 DEF dvars, RInv, Shaped, OnItsWay, SeedGoesOn, Served
<1> QED
  BY <1>1, <1>2, <1>3

LEMMA NextFits == DInv /\ RInv /\ [Next]_dvars => RInv'
<1> SUFFICES ASSUME DInv, RInv, [Next]_dvars PROVE RInv'
  OBVIOUS
<1>1. CASE \E email \in {"unset", "lower", "mixed"} : StartJob(email)
  BY <1>1, StartJobFits
<1>2. CASE \E to \in 0 .. Latest - 1 : StartDowngrade(to)
  BY <1>2, StartDowngradeFits
<1>3. CASE Statement
  BY <1>3, StatementFits
<1>4. CASE Commit
  BY <1>4, CommitFits
<1>5. CASE Abort \/ StopService \/ UNCHANGED dvars
  BY <1>5, OthersFit
<1>6. ASSUME NEW r, NEW mark, NEW cols, Edit(r, mark, cols) PROVE RInv'
  <2>1. PICK q : q = <<r[1], r[2], mark, r[4] \cup cols>>
    OBVIOUS
  <2>2. PICK rows : rows = (db.rows \ {r}) \cup {q}
    OBVIOUS
  <2>3. Writes(rows) /\ q[1] = r[1] /\ q[2] = r[2]
    BY <1>6, <2>1, <2>2 DEF Edit
  <2>4. \A x \in db.rows : \E y \in rows : y[1] = x[1] /\ y[2] = x[2]
    BY <2>2, <2>3
  <2> QED
    BY <2>3, <2>4, WritesFit
<1>7. CASE CreateLongKey
  <2>1. PICK rows : db.rows \subseteq rows /\ Writes(rows)
    BY <1>7 DEF CreateLongKey
  <2> QED
    BY <2>1, WritesFit
<1>8. ASSUME NEW k \in Edited, NEW cols \in EditedColumns, EditConfig(k, cols) PROVE RInv'
  BY <1>6, <1>8 DEF EditConfig
<1>9. CASE RenamePlan("Premium")
  BY <1>6, <1>9 DEF RenamePlan
<1>10. ASSUME NEW x, GiveRole(x) PROVE RInv'
  <2>1. PICK rows : db.rows \subseteq rows /\ Writes(rows)
    BY <1>10 DEF GiveRole
  <2> QED
    BY <2>1, WritesFit
<1> QED
  BY <1>1, <1>2, <1>3, <1>4, <1>5, <1>7, <1>8, <1>9, <1>10 DEF Next

\* Wherever a job of alembic or the seed (docker-compose.yml) has got to, the
\* schema in its transaction is one from which the statements left to it lead
\* to its revision, and the rows that the seed promises are inserted or still
\* among them.
THEOREM DeploymentOnItsWay == Spec => []RInv
  BY RInit, NextFits, DeploymentInvariant, PTL DEF Spec

\* Upgrades and downgrades (migrations/versions) leave the tables, columns,
\* references and keys of a fresh installation at the same revision, whatever
\* jobs ran, failed or were cut off before.
THEOREM SchemaByRevision == Spec => []RevisionDecidesSchema
<1>1. DInv /\ RInv => RevisionDecidesSchema
  <2> SUFFICES ASSUME DInv, RInv PROVE RevisionDecidesSchema
    OBVIOUS
  <2>1. Like(db, ShapeAt[head]) /\ Like(SchemaAt[head], ShapeAt[head])
    BY SchemaShapes DEF DInv, RInv, Shaped
  <2> QED
    BY <2>1 DEF Like, RevisionDecidesSchema
<1> QED
  BY <1>1, DeploymentInvariant, DeploymentOnItsWay, PTL

\* The API starts (docker-compose.yml) on the tables that the models
\* (db/models) describe, with every role storable and every row of seed.py.
THEOREM ServiceOnItsModel == Spec => []ServiceFindsItsModel
<1>1. RInv => ServiceFindsItsModel
  <2> SUFFICES ASSUME RInv, up PROVE ServiceFindsItsModel
    BY DEF ServiceFindsItsModel
  <2>1. /\ Like(db, Shape(Model, 120, TRUE))
        /\ \A s \in Members(Seed(spelled)) : s.kind = "insert" => Filled(db.rows, s)
    BY ShapesAre, ThirdIsModel DEF RInv, Shaped, Served
  <2>2. db.tables = Model /\ db.check = Role
    BY <2>1 DEF Like, Shape
  <2>3. \A x \in Role : Admits(db, x)
    BY <2>2 DEF Admits
  <2>4. ASSUME NEW i \in DOMAIN Seed(spelled), Seed(spelled)[i].kind = "insert"
        PROVE  Filled(db.rows, Seed(spelled)[i])
    <3>1. Seed(spelled)[i] \in Members(Seed(spelled))
      BY SeedTables DEF Members, First
    <3> QED
      BY <2>1, <2>4, <3>1
  <2> QED
    BY <2>2, <2>3, <2>4 DEF ServiceFindsItsModel, Filled
<1> QED
  BY <1>1, DeploymentOnItsWay, PTL

\* No statement of a migration, a downgrade or the seed meets a schema that it
\* does not fit, so that only stored rows can have it refused.
THEOREM NothingBreaks == Spec => []OnlyDataStopsJobs
<1>1. DInv /\ RInv => OnlyDataStopsJobs
  <2> SUFFICES ASSUME DInv, RInv, todo # << >> PROVE ~Broken(work, Head(todo))
    BY DEF OnlyDataStopsJobs
  <2>1. IsDatabase(work) /\ job \in {"upgrade", "seed", "downgrade"}
    BY DEF DInv
  <2>2. CASE job \in {"upgrade", "downgrade"}
    <3>1. PICK a : Like(work, a) /\ Leads(a, todo, ShapeAt[goal])
      BY <2>2 DEF RInv, OnItsWay
    <3>2. PICK c : Steps(a, Head(todo), c)
      BY <3>1, LeadsFirst
    <3> QED
      BY <2>1, <3>1, <3>2 DEF Steps
  <2>3. CASE job = "seed"
    <3>1. /\ Like(work, ShapeAt[3]) /\ IsSeq(todo)
          /\ Members(todo) \subseteq Members(Seed(spelled))
      BY <2>3 DEF RInv, SeedGoesOn
    <3>2. PICK s : s = Head(todo)
      OBVIOUS
    <3>3. s \in Members(Seed(spelled))
      BY <3>1, <3>2, MembersOfRest
    <3>4. OfSeed(s)
      BY <3>3, SeedTables
    <3> QED
      BY <2>1, <3>1, <3>2, <3>4, SeedFits
  <2> QED
    BY <2>1, <2>2, <2>3
<1> QED
  BY <1>1, DeploymentInvariant, DeploymentOnItsWay, PTL

=============================================================================
