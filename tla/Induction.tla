----------------------------- MODULE Induction ------------------------------
(***************************************************************************)
(* Induction over the naturals without a predicate as a parameter, and the *)
(* recursive functions it gives: over any measure, for read_domain in      *)
(* CdpiDns, prefix sums, for Ends in CdpiSsl, loops, for CdpiBytes and the *)
(* sections of CdpiDns, and FlattenSeq, for the certificates in CdpiSsl,   *)
(* the wire of CdpiHttp and the lists of CdpiByteList.                     *)
(* The proof about Walk of CdpiId rests on it too.                         *)
(***************************************************************************)
EXTENDS Integers, Sequences, SequencesExt, WellFoundedInduction, TLAPS

(* The order of the naturals as a set of pairs.                              *)
LEMMA LessRel == OpToRel(<, Nat) = {p \in Nat \X Nat : p[1] < p[2]}
BY DEF OpToRel

(* A set of naturals that is not empty has a least element.                 *)
LEMMA LeastNatural ==
  ASSUME NEW T \in SUBSET Nat, T # {}
  PROVE  \E m \in T : \A k \in T : m <= k
<1> DEFINE R == {p \in Nat \X Nat : p[1] < p[2]}
<1>1. IsWellFoundedOn(R, Nat)
  BY NatLessThanWellFounded, LessRel, Zenon
<1>2. PICK m \in T : \A k \in T : <<k, m>> \notin R
  <2> HIDE DEF R
  <2> QED
  BY <1>1, WFMin
<1>3. \A k \in T : k \in Nat /\ m \in Nat /\ ~ (k < m)
  <2> SUFFICES ASSUME NEW k \in T, k < m PROVE FALSE
    OBVIOUS
  <2>1. <<k, m>> \in R
    OBVIOUS
  <2> QED
    BY <1>2, <2>1
<1> QED
  BY <1>3

(* Induction, over a set instead of a predicate.                            *)
LEMMA Induct ==
  ASSUME NEW T, 0 \in T, \A n \in Nat : n \in T => n + 1 \in T
  PROVE  Nat \subseteq T
<1> DEFINE F == {n \in Nat : n \notin T}
<1> SUFFICES ASSUME F # {} PROVE FALSE
  OBVIOUS
<1>1. PICK m \in F : \A k \in F : m <= k
  BY LeastNatural
<1>2. m - 1 \in Nat /\ m - 1 \notin F
  BY <1>1
<1> QED
  BY <1>1, <1>2

(* The sums of the first k members of a sequence.                           *)
LEMMA SumExists ==
  ASSUME NEW n \in Nat, NEW size \in [1 .. n -> Nat]
  PROVE  \E f \in [0 .. n -> Nat] : f[0] = 0 /\ \A k \in 1 .. n : f[k] = f[k - 1] + size[k]
<1> DEFINE Sums(f, m) == f[0] = 0 /\ \A k \in 1 .. m : f[k] = f[k - 1] + size[k]
           T == {m \in Nat : m <= n => \E f \in [0 .. n -> Nat] : Sums(f, m)}
<1>1. 0 \in T
  <2>1. [k \in 0 .. n |-> 0] \in [0 .. n -> Nat] /\ Sums([k \in 0 .. n |-> 0], 0)
    OBVIOUS
  <2> QED
    BY <2>1
<1>2. ASSUME NEW m \in Nat, m \in T PROVE m + 1 \in T
  <2> SUFFICES ASSUME m + 1 <= n PROVE \E f \in [0 .. n -> Nat] : Sums(f, m + 1)
    OBVIOUS
  <2>1. PICK f \in [0 .. n -> Nat] : Sums(f, m)
    BY <1>2
  <2> DEFINE g == [f EXCEPT ![m + 1] = f[m] + size[m + 1]]
  <2>2. g \in [0 .. n -> Nat] /\ Sums(g, m + 1)
    BY <2>1
  <2> QED
    BY <2>2
<1>3. n \in T
  <2> HIDE DEF T
  <2> QED
    BY <1>1, <1>2, Induct
<1>4. PICK f \in [0 .. n -> Nat] : Sums(f, n)
  <2>1. n <= n
    OBVIOUS
  <2> QED
    BY <1>3, <2>1
<1> QED
  BY <1>4
-----------------------------------------------------------------------------
LEMMA ConcatIn ==
  ASSUME NEW S, NEW a \in Seq(S), NEW b \in Seq(S)
  PROVE  a \o b \in Seq(S)
OBVIOUS

LEMMA AppendIs ==
  ASSUME NEW S, NEW s \in Seq(S), NEW x \in S
  PROVE  /\ Append(s, x) \in Seq(S)
         /\ Len(s) \in Nat /\ Len(Append(s, x)) = Len(s) + 1
         /\ Append(s, x) # <<>>
         /\ Append(s, x)[Len(s) + 1] = x
         /\ \A i \in 1 .. Len(s) : Append(s, x)[i] = s[i]
OBVIOUS

(* What FlattenSeq computes.                                                *)
Flattens(s, f, m) == f[1] = s[1] /\ \A i \in 2 .. m : f[i] = f[i - 1] \o s[i]

(* There is such a function, by induction on m.                             *)
LEMMA FlattenExists ==
  ASSUME NEW S, NEW s \in Seq(Seq(S)), s # <<>>
  PROVE  \E f \in [1 .. Len(s) -> Seq(S)] : Flattens(s, f, Len(s))
<1> DEFINE n == Len(s)
           F == [1 .. n -> Seq(S)]
           T == {m \in Nat : m + 1 <= n => \E f \in F : Flattens(s, f, m + 1)}
<1>1. n \in Nat \ {0} /\ \A i \in 1 .. n : s[i] \in Seq(S)
  OBVIOUS
<1>2. 0 \in T
  <2> DEFINE f == [i \in 1 .. n |-> s[1]]
  <2>1. f \in F /\ Flattens(s, f, 1)
    BY <1>1 DEF Flattens
  <2>2. 0 + 1 = 1
    OBVIOUS
  <2> HIDE DEF f, F
  <2> QED
    BY <2>1, <2>2
<1>3. ASSUME NEW m \in Nat, m \in T PROVE m + 1 \in T
  <2> SUFFICES ASSUME m + 2 <= n PROVE \E f \in F : Flattens(s, f, m + 2)
    BY <1>1
  <2>1. PICK f \in F : Flattens(s, f, m + 1)
    BY <1>1, <1>3
  <2> DEFINE x == f[m + 1] \o s[m + 2]
             g == [f EXCEPT ![m + 2] = x]
  <2>2. m + 1 \in 1 .. n /\ m + 2 \in 1 .. n
    BY <1>1
  <2>3. x \in Seq(S)
    <3>1. f[m + 1] \in Seq(S) /\ s[m + 2] \in Seq(S)
      BY <1>1, <2>2
    <3> QED
      BY <3>1, ConcatIn
  <2> HIDE DEF x
  <2>4. g \in F
    BY <2>3
  <2>5. \A i \in 1 .. n : g[i] = IF i = m + 2 THEN x ELSE f[i]
    OBVIOUS
  <2>6. Flattens(s, g, m + 2)
    <3> HIDE DEF g
    <3>1. g[1] = s[1]
      BY <1>1, <2>1, <2>5 DEF Flattens
    <3>2. ASSUME NEW i \in 2 .. m + 2, i # m + 2 PROVE g[i] = g[i - 1] \o s[i]
      <4>1. g[i] = f[i] /\ g[i - 1] = f[i - 1]
        <5>1. /\ i \in 1 .. n /\ i - 1 \in 1 .. n
              /\ i # m + 2 /\ i - 1 # m + 2
          <6> HIDE DEF n
          <6> QED
            BY <1>1, <2>2, <3>2
        <5> HIDE DEF n
        <5> QED
          BY <2>5, <5>1
      <4>2. i \in 2 .. m + 1
        BY <3>2
      <4>3. f[i] = f[i - 1] \o s[i]
        BY <2>1, <4>2 DEF Flattens
      <4> QED
        BY <4>1, <4>3
    <3>3. g[m + 2] = g[(m + 2) - 1] \o s[m + 2]
      <4>1. (m + 2) - 1 = m + 1 /\ m + 1 # m + 2
        OBVIOUS
      <4> QED
      BY <2>2, <2>5, <4>1 DEF x
    <3> QED
      BY <3>1, <3>2, <3>3 DEF Flattens
  <2> HIDE DEF g, F
  <2> QED
    BY <2>4, <2>6
<1>4. n - 1 \in T
  <2>1. n - 1 \in Nat
    BY <1>1
  <2> HIDE DEF T
  <2> QED
    BY <1>2, <1>3, <2>1, Induct
<1>5. (n - 1) + 1 = n
  BY <1>1
<1> QED
  BY <1>1, <1>4, <1>5

LEMMA FlattenIs ==
  ASSUME NEW S, NEW s \in Seq(Seq(S)), s # <<>>
  PROVE  \E f \in [1 .. Len(s) -> Seq(S)] : Flattens(s, f, Len(s)) /\ FlattenSeq(s) = f[Len(s)]
<1> DEFINE n == Len(s)
           R(f) == [i \in 1 .. n |-> IF i = 1 THEN s[i] ELSE f[i - 1] \o s[i]]
           W == CHOOSE f : f = R(f)
<1>1. n \in Nat /\ n # 0
  OBVIOUS
<1>2. FlattenSeq(s) = W[n]
  BY <1>1, Zenon DEF FlattenSeq
<1>3. PICK f \in [1 .. n -> Seq(S)] : Flattens(s, f, n)
  BY FlattenExists
<1>4. f = R(f)
  <2>1. \A i \in 1 .. n : f[i] = IF i = 1 THEN s[i] ELSE f[i - 1] \o s[i]
    <3>1. \A i \in 1 .. n : i = 1 \/ i \in 2 .. n
      BY <1>1
    <3> HIDE DEF n
    <3> QED
      BY <1>3, <3>1 DEF Flattens
  <2> HIDE DEF n
  <2> QED
    BY <2>1
<1>5. W = R(W)
  <2> HIDE DEF R
  <2> QED
    BY <1>4, Zenon
<1>6. \A i \in 1 .. n : W[i] = IF i = 1 THEN s[i] ELSE W[i - 1] \o s[i]
  <2> HIDE DEF W, n
  <2> QED
    BY <1>5
<1>7. \A i \in 1 .. n : W[i] = f[i]
  <2> DEFINE T == {m \in Nat : m + 1 <= n => W[m + 1] = f[m + 1]}
  <2> HIDE DEF W
  <2>1. 0 \in T
    BY <1>1, <1>3, <1>6 DEF Flattens
  <2>2. ASSUME NEW m \in Nat, m \in T PROVE m + 1 \in T
    <3>1. (m + 1) + 1 = m + 2 /\ (m + 2) - 1 = m + 1 /\ m + 2 # 1
      OBVIOUS
    <3> SUFFICES ASSUME m + 2 <= n PROVE W[m + 2] = f[m + 2]
      BY <3>1
    <3>2. m + 2 \in 1 .. n /\ m + 2 \in 2 .. n /\ m + 1 <= n
      BY <1>1
    <3>3. W[m + 2] = W[m + 1] \o s[m + 2]
      BY <1>6, <3>1, <3>2
    <3>4. f[m + 2] = f[m + 1] \o s[m + 2]
      BY <1>3, <3>1, <3>2 DEF Flattens
    <3> QED
      BY <2>2, <3>2, <3>3, <3>4
  <2>3. Nat \subseteq T
    <3> HIDE DEF T
    <3> QED
      BY <2>1, <2>2, Induct
  <2> QED
    <3> SUFFICES ASSUME NEW i \in 1 .. n PROVE W[i] = f[i]
      OBVIOUS
    <3>1. i - 1 \in Nat /\ (i - 1) + 1 = i /\ i <= n
      BY <1>1
    <3>2. i - 1 \in T
      BY <2>3, <3>1
    <3> QED
      BY <3>1, <3>2
<1> HIDE DEF W
<1> QED
  BY <1>1, <1>2, <1>3, <1>7, SMTT(40)

LEMMA FlattenEmpty == FlattenSeq(<<>>) = <<>>
BY DEF FlattenSeq

LEMMA FlattenType ==
  ASSUME NEW S, NEW s \in Seq(Seq(S))
  PROVE  FlattenSeq(s) \in Seq(S)
<1>1. CASE s = <<>>
  <2>1. FlattenSeq(s) = <<>>
    BY <1>1, FlattenEmpty
  <2> QED
    BY <2>1
<1>2. CASE s # <<>>
  <2>1. PICK f \in [1 .. Len(s) -> Seq(S)] : FlattenSeq(s) = f[Len(s)]
    BY <1>2, FlattenIs
  <2>2. Len(s) \in 1 .. Len(s)
    BY <1>2
  <2> QED
    BY <2>1, <2>2
<1> QED
  BY <1>1, <1>2

LEMMA EmptyConcat ==
  ASSUME NEW S, NEW x \in Seq(S)
  PROVE  <<>> \o x = x
OBVIOUS

(* FlattenSeq of a sequence that grows.                                     *)
LEMMA FlattenAppend ==
  ASSUME NEW S, NEW s \in Seq(Seq(S)), NEW x \in Seq(S)
  PROVE  FlattenSeq(Append(s, x)) = FlattenSeq(s) \o x
<1> DEFINE n == Len(s)
           t == Append(s, x)
<1>1. /\ n \in Nat /\ t \in Seq(Seq(S)) /\ Len(t) = n + 1 /\ t # <<>>
      /\ t[n + 1] = x
      /\ \A i \in 1 .. n : t[i] = s[i]
  <2> DEFINE Q == Seq(S)
  <2>1. s \in Seq(Q) /\ x \in Q
    OBVIOUS
  <2> HIDE DEF Q
  <2>2. /\ n \in Nat /\ t \in Seq(Q) /\ Len(t) = n + 1 /\ t # <<>>
        /\ t[n + 1] = x
        /\ \A i \in 1 .. n : t[i] = s[i]
    BY <2>1, AppendIs
  <2> QED
    BY <2>2 DEF Q
<1>2. PICK g \in [1 .. n + 1 -> Seq(S)] : Flattens(t, g, n + 1) /\ FlattenSeq(t) = g[n + 1]
  <2> HIDE DEF t, n
  <2> QED
    BY <1>1, FlattenIs
<1>3. CASE s = <<>>
  <2>1. n = 0 /\ FlattenSeq(s) = <<>>
    BY <1>3, FlattenEmpty
  <2>2. g[1] = x
    BY <1>1, <1>2, <2>1 DEF Flattens
  <2>3. n + 1 = 1
    BY <2>1
  <2> HIDE DEF t, n
  <2> QED
    BY <1>2, <2>1, <2>2, <2>3, EmptyConcat DEF t
<1>4. CASE s # <<>>
  <2>1. n # 0
    BY <1>4
  <2>2. PICK f \in [1 .. n -> Seq(S)] : Flattens(s, f, n) /\ FlattenSeq(s) = f[n]
    BY <1>4, FlattenIs
  <2> HIDE DEF t, n
  <2> DEFINE T == {m \in Nat : m + 1 <= n => g[m + 1] = f[m + 1]}
  <2>3. 0 \in T
    BY <1>1, <1>2, <2>1, <2>2 DEF Flattens
  <2>4. ASSUME NEW m \in Nat, m \in T PROVE m + 1 \in T
    <3>1. (m + 1) + 1 = m + 2 /\ (m + 2) - 1 = m + 1
      OBVIOUS
    <3> SUFFICES ASSUME m + 2 <= n PROVE g[m + 2] = f[m + 2]
      BY <3>1
    <3>2. m + 2 \in 1 .. n /\ m + 2 \in 2 .. n /\ m + 2 \in 2 .. n + 1 /\ m + 1 <= n
      BY <1>1
    <3>3. g[m + 2] = g[m + 1] \o t[m + 2]
      BY <1>2, <3>1, <3>2 DEF Flattens
    <3>4. f[m + 2] = f[m + 1] \o s[m + 2]
      BY <2>2, <3>1, <3>2 DEF Flattens
    <3> QED
      BY <1>1, <2>4, <3>2, <3>3, <3>4
  <2>5. n - 1 \in T
    <3>1. n - 1 \in Nat
      BY <1>1, <2>1
    <3> HIDE DEF T
    <3> QED
      BY <2>3, <2>4, <3>1, Induct
  <2>6. (n - 1) + 1 = n /\ (n + 1) - 1 = n /\ n + 1 \in 2 .. n + 1
    BY <1>1, <2>1
  <2>7. g[n] = f[n]
    BY <2>5, <2>6, <1>1
  <2>8. g[n + 1] = g[n] \o t[n + 1]
    BY <1>2, <2>6 DEF Flattens
  <2> QED
    BY <1>1, <1>2, <2>2, <2>7, <2>8 DEF t
<1> QED
  BY <1>3, <1>4
-----------------------------------------------------------------------------
(* Two loops of n rounds that agree.                                        *)
LEMMA SameRounds ==
  ASSUME NEW n \in Nat, NEW f, NEW g, f[0] = g[0],
         \A k \in 1 .. n : f[k - 1] = g[k - 1] => f[k] = g[k]
  PROVE  f[n] = g[n]
<1> DEFINE T == {m \in Nat : m <= n => f[m] = g[m]}
<1>1. 0 \in T
  OBVIOUS
<1>2. ASSUME NEW m \in Nat, m \in T PROVE m + 1 \in T
  <2> SUFFICES ASSUME m + 1 <= n PROVE f[m + 1] = g[m + 1]
    OBVIOUS
  <2>1. m + 1 \in 1 .. n /\ (m + 1) - 1 = m /\ m <= n
    OBVIOUS
  <2> QED
    BY <1>2, <2>1
<1>3. n \in T
  <2> HIDE DEF T
  <2> QED
    BY <1>1, <1>2, Induct
<1> QED
  BY <1>3

(* A loop of n rounds: round k makes G[k][x] of x.                          *)
Loops(n, S, G)       == G \in [1 .. n -> [S -> S]]
Iterated(n, a, G, f) == f[0] = a /\ \A k \in 1 .. n : f[k] = G[k][f[k - 1]]

LEMMA Iterates ==
  ASSUME NEW n \in Nat, NEW S, NEW a \in S, NEW G, Loops(n, S, G)
  PROVE  \E f \in [0 .. n -> S] : Iterated(n, a, G, f)
<1>0. G \in [1 .. n -> [S -> S]]
  BY DEF Loops
<1> DEFINE Rounds(f, m) == f[0] = a /\ \A k \in 1 .. m : f[k] = G[k][f[k - 1]]
           T == {m \in Nat : m <= n => \E f \in [0 .. n -> S] : Rounds(f, m)}
<1>1. 0 \in T
  <2>1. [k \in 0 .. n |-> a] \in [0 .. n -> S] /\ Rounds([k \in 0 .. n |-> a], 0)
    OBVIOUS
  <2> QED
    BY <2>1
<1>2. ASSUME NEW m \in Nat, m \in T PROVE m + 1 \in T
  <2> SUFFICES ASSUME m + 1 <= n PROVE \E f \in [0 .. n -> S] : Rounds(f, m + 1)
    OBVIOUS
  <2>1. PICK f \in [0 .. n -> S] : Rounds(f, m)
    BY <1>2
  <2> DEFINE x == G[m + 1][f[m]]
             g == [f EXCEPT ![m + 1] = x]
  <2>2. x \in S
    BY <1>0, <2>1
  <2> HIDE DEF x
  <2>3. g \in [0 .. n -> S] /\ \A k \in 0 .. n : g[k] = IF k = m + 1 THEN x ELSE f[k]
    BY <2>1, <2>2
  <2> HIDE DEF g
  <2>4. Rounds(g, m + 1)
    <3>1. g[0] = a
      BY <2>1, <2>3
    <3>2. ASSUME NEW k \in 1 .. m + 1 PROVE g[k] = G[k][g[k - 1]]
      <4>1. CASE k = m + 1
        BY <4>1, <2>3 DEF x
      <4>2. CASE k # m + 1
        <5>1. k \in 1 .. m /\ k - 1 \in 0 .. n /\ k \in 0 .. n /\ k - 1 # m + 1
          BY <4>2
        <5> QED
          BY <5>1, <4>2, <2>1, <2>3
      <4> QED
        BY <4>1, <4>2
    <3> QED
      BY <3>1, <3>2
  <2> QED
    BY <2>3, <2>4
<1>3. n \in T
  <2> HIDE DEF T
  <2> QED
    BY <1>1, <1>2, Induct
<1>4. PICK f \in [0 .. n -> S] : Rounds(f, n)
  BY <1>3
<1> QED
  BY <1>4 DEF Iterated
-----------------------------------------------------------------------------
(* A recursive function on D with values in R: F makes of f what the body of*)
(* the definition says, and at x it looks at f only where the rank is lower.*)
Local(D, R, rank, F) ==
  /\ F \in [[D -> R] -> [D -> R]]
  /\ \A f, g \in [D -> R] : \A x \in D :
       (\A y \in D : rank[y] < rank[x] => f[y] = g[y]) => F[f][x] = F[g][x]

(* There is such a function: F applied n + 1 times no longer changes.       *)
LEMMA Recursion ==
  ASSUME NEW D, NEW R, NEW a \in R, NEW n \in Nat, NEW rank \in [D -> 0 .. n],
         NEW F, Local(D, R, rank, F)
  PROVE  \E f \in [D -> R] : f = F[f]
<1> DEFINE S == [D -> R]
           G == [k \in 1 .. n + 2 |-> F]
<1>1. F \in [S -> S]
  BY DEF Local
<1>2. Loops(n + 2, S, G)
  <2> HIDE DEF S
  <2> QED
    BY <1>1 DEF Loops
<1>3. PICK h \in [0 .. n + 2 -> S] : Iterated(n + 2, [x \in D |-> a], G, h)
  <2>1. [x \in D |-> a] \in S /\ n + 2 \in Nat
    OBVIOUS
  <2> HIDE DEF S, G
  <2> QED
    BY <1>2, <2>1, Iterates
<1>4. \A k \in 1 .. n + 2 : h[k] = F[h[k - 1]] /\ h[k] \in S /\ h[k - 1] \in S
  <2> HIDE DEF S
  <2> QED
    BY <1>3 DEF Iterated
<1> DEFINE T == {k \in Nat : k <= n + 1 => \A x \in D : rank[x] < k => h[k + 1][x] = h[k][x]}
<1>5. 0 \in T
  OBVIOUS
<1>6. ASSUME NEW k \in Nat, k \in T PROVE k + 1 \in T
  <2> SUFFICES ASSUME k + 1 <= n + 1, NEW x \in D, rank[x] < k + 1
               PROVE  h[(k + 1) + 1][x] = h[k + 1][x]
    OBVIOUS
  <2>1. /\ k + 1 \in 1 .. n + 2 /\ (k + 1) - 1 = k
        /\ k + 2 \in 1 .. n + 2 /\ (k + 2) - 1 = k + 1 /\ (k + 1) + 1 = k + 2
    OBVIOUS
  <2>2. /\ h[k + 1] = F[h[k]] /\ h[k + 2] = F[h[k + 1]]
        /\ h[k] \in S /\ h[k + 1] \in S
    BY <1>4, <2>1
  <2>3. \A y \in D : rank[y] < rank[x] => h[k + 1][y] = h[k][y]
    BY <1>6
  <2>4. F[h[k + 1]][x] = F[h[k]][x]
    BY <2>2, <2>3, Zenon DEF Local
  <2> QED
    BY <2>1, <2>2, <2>4
<1>7. n + 1 \in T
  <2> HIDE DEF T
  <2> QED
    BY <1>5, <1>6, Induct
<1>8. h[n + 2] = h[n + 1]
  <2>1. \A x \in D : h[n + 2][x] = h[n + 1][x]
    BY <1>7
  <2>2. h[n + 1] \in S /\ h[n + 2] \in S
    BY <1>3
  <2> QED
    BY <2>1, <2>2
<1>9. h[n + 2] = F[h[n + 1]] /\ h[n + 1] \in S
  <2>1. n + 2 \in 1 .. n + 2 /\ (n + 2) - 1 = n + 1
    OBVIOUS
  <2> QED
    BY <1>4, <2>1
<1> QED
  BY <1>8, <1>9

(* What holds at x whenever it holds wherever the rank is lower holds in D. *)
LEMMA RankInduct ==
  ASSUME NEW D, NEW rank \in [D -> Nat], NEW T,
         \A x \in D : (\A y \in D : rank[y] < rank[x] => y \in T) => x \in T
  PROVE  D \subseteq T
<1> DEFINE U == {k \in Nat : \A x \in D : rank[x] < k => x \in T}
<1>1. 0 \in U
  OBVIOUS
<1>2. ASSUME NEW k \in Nat, k \in U PROVE k + 1 \in U
  BY <1>2
<1>3. Nat \subseteq U
  <2> HIDE DEF U
  <2> QED
    BY <1>1, <1>2, Induct
<1> SUFFICES ASSUME NEW x \in D PROVE x \in T
  OBVIOUS
<1>4. rank[x] + 1 \in U
  BY <1>3
<1> QED
  BY <1>4
=============================================================================
