--------------------------- MODULE StringsProofs ----------------------------
(***************************************************************************)
(* Lemmas about strings, for the proofs of both back ends: what splitting  *)
(* and joining do to the number of "EOF"s and of copies of any other line. *)
(***************************************************************************)
EXTENDS Strings, FiniteSetTheorems, TLAPS

NoEof(s)  == \A i \in 1..Len(s) : s[i] # EOF
OneEof(s) == \A i \in 1..(Len(s) - 1) : s[i] # EOF

LEMMA StringType == \A s \in String : s \in Seq(Line) /\ s # <<>> /\ Len(s) \in Nat \ {0} /\ s[1] \in Line
BY DEF String

LEMMA SingletonType == ASSUME NEW l \in Line PROVE <<l>> \in String
BY DEF String

LEMMA AsStringsType ==
  ASSUME NEW lines \in Seq(Line)
  PROVE  AsStrings(lines) \in Seq(String)
<1>1. \A i \in 1..Len(lines) : <<lines[i]>> \in String
  BY SingletonType
<1> QED
  BY <1>1 DEF AsStrings

LEMMA EofLine == EOF \in Line /\ <<EOF>> \in Seq(Line) /\ Len(<<EOF>>) = 1 /\ <<EOF>>[1] = EOF
BY LineAssumption

LEMMA NoEofConcat ==
  ASSUME NEW s \in Seq(Line), NEW t \in Seq(Line), NoEof(s)
  PROVE  /\ NoEof(t) => NoEof(s \o t)
         /\ OneEof(t) => OneEof(s \o t)
<1>1. /\ Len(s \o t) = Len(s) + Len(t)
      /\ \A i \in 1..Len(s \o t) :
           (s \o t)[i] = IF i <= Len(s) THEN s[i] ELSE t[i - Len(s)]
  OBVIOUS
<1> QED
  BY <1>1 DEF NoEof, OneEof

LEMMA NoEofOneEof == ASSUME NEW s \in Seq(Line), NoEof(s) PROVE OneEof(s)
BY DEF NoEof, OneEof

LEMMA AloneEof == OneEof(<<EOF>>) /\ EndsWithEof(<<EOF>>) /\ ~NoEof(<<EOF>>)
BY EofLine DEF OneEof, EndsWithEof, NoEof

(* A stream without "EOF" may take one more. *)
LEMMA LastEof ==
  ASSUME NEW s \in Seq(Line), NoEof(s)
  PROVE  OneEof(s \o <<EOF>>)
BY EofLine, AloneEof, NoEofConcat

(* Of a line that is read, either nothing or all is "EOF". *)
LEMMA SplitPlain ==
  ASSUME NEW lines \in Seq(Line)
  PROVE  \A i \in 1..Len(AsStrings(lines)) :
           AsStrings(lines)[i] = <<EOF>> \/ NoEof(AsStrings(lines)[i])
<1>1. Len(AsStrings(lines)) = Len(lines) /\ \A i \in 1..Len(lines) : AsStrings(lines)[i] = <<lines[i]>>
  BY DEF AsStrings
<1>2. ASSUME NEW i \in 1..Len(lines), lines[i] # EOF PROVE NoEof(<<lines[i]>>)
  BY <1>2 DEF NoEof
<1> QED
  BY <1>1, <1>2

-----------------------------------------------------------------------------
(* "EOF"s. *)

LEMMA EofsInType ==
  ASSUME NEW strs \in Seq(String)
  PROVE  EofsIn(strs) \in Nat
<1>1. IsFiniteSet(1..Len(strs))
  BY FS_Interval
<1>2. IsFiniteSet({i \in DOMAIN strs : strs[i] = <<EOF>>})
  BY <1>1, FS_Subset
<1> QED
  BY <1>2, FS_CardinalityType DEF EofsIn

LEMMA EofsInLines ==
  ASSUME NEW s \in Seq(Line)
  PROVE  /\ IsFiniteSet({i \in 1..Len(s) : s[i] = EOF})
         /\ EofsIn(AsStrings(s)) = Cardinality({i \in 1..Len(s) : s[i] = EOF})
<1>1. Len(s) \in Nat
  OBVIOUS
<1>2. IsFiniteSet(1..Len(s))
  BY <1>1, FS_Interval
<1>3. IsFiniteSet({i \in 1..Len(s) : s[i] = EOF})
  BY <1>2, FS_Subset
<1>4. DOMAIN AsStrings(s) = 1..Len(s) /\ \A i \in 1..Len(s) : AsStrings(s)[i] = <<s[i]>>
  BY DEF AsStrings
<1>5. {i \in DOMAIN AsStrings(s) : AsStrings(s)[i] = <<EOF>>} = {i \in 1..Len(s) : s[i] = EOF}
  BY <1>4
<1> QED
  BY <1>3, <1>5 DEF EofsIn

LEMMA EofsInNothing == EofsIn(AsStrings(<<>>)) = 0
<1>1. <<>> \in Seq(Line) /\ {i \in 1..Len(<<>>) : <<>>[i] = EOF} = {}
  OBVIOUS
<1> QED
  BY <1>1, EofsInLines, FS_EmptySet

(* What is read of one pipe adds one "EOF", the last line of it, or none. *)
LEMMA EofsInMore ==
  ASSUME NEW s \in Seq(Line), NEW t \in Seq(Line)
  PROVE  /\ NoEof(t) => EofsIn(AsStrings(s \o t)) = EofsIn(AsStrings(s))
         /\ EndsWithEof(t) /\ OneEof(t) => EofsIn(AsStrings(s \o t)) = EofsIn(AsStrings(s)) + 1
<1> DEFINE S == {i \in 1..Len(s) : s[i] = EOF}
           T == {i \in 1..Len(s \o t) : (s \o t)[i] = EOF}
<1>1. /\ Len(s) \in Nat /\ Len(t) \in Nat /\ Len(s \o t) = Len(s) + Len(t)
      /\ \A i \in 1..Len(s \o t) :
           (s \o t)[i] = IF i <= Len(s) THEN s[i] ELSE t[i - Len(s)]
  OBVIOUS
<1>2. s \o t \in Seq(Line)
  OBVIOUS
<1>3. EofsIn(AsStrings(s)) = Cardinality(S) /\ EofsIn(AsStrings(s \o t)) = Cardinality(T) /\ IsFiniteSet(S)
  BY <1>2, EofsInLines
<1>4. ASSUME NoEof(t) PROVE T = S
  <2> DEFINE u == s \o t
  <2>1. ASSUME NEW i \in 1..Len(u), u[i] = EOF PROVE i \in 1..Len(s) /\ s[i] = EOF
    <3>1. i > Len(s) => i - Len(s) \in 1..Len(t) /\ u[i] = t[i - Len(s)]
      BY <1>1
    <3>2. i <= Len(s)
      BY <1>1, <1>4, <2>1, <3>1 DEF NoEof
    <3> QED
      BY <1>1, <2>1, <3>2
  <2>2. ASSUME NEW i \in 1..Len(s), s[i] = EOF PROVE i \in 1..Len(u) /\ u[i] = EOF
    BY <1>1, <2>2
  <2> QED
    BY <2>1, <2>2
<1>5. ASSUME EndsWithEof(t), OneEof(t)
      PROVE  T = S \cup {Len(s) + Len(t)} /\ Len(s) + Len(t) \notin S
  <2>1. t # <<>> /\ Len(t) # 0 /\ t[Len(t)] = EOF
    BY <1>5 DEF EndsWithEof
  <2>2. \A i \in 1..Len(t) : t[i] = EOF <=> i = Len(t)
    BY <1>1, <1>5, <2>1 DEF OneEof
  <2> DEFINE k == Len(s)   m == Len(t)   u == s \o t
  <2>3. /\ k \in Nat /\ m \in Nat /\ m # 0 /\ Len(u) = k + m
        /\ \A i \in 1..(k + m) : (i <= k => u[i] = s[i]) /\ (~(i <= k) => u[i] = t[i - k])
        /\ \A i \in 1..m : t[i] = EOF <=> i = m
    BY <1>1, <2>1, <2>2
  <2> HIDE DEF k, m, u
  <2>4. ASSUME NEW i \in 1..(k + m), ~(i <= k) PROVE u[i] = EOF <=> i = k + m
    <3>1. i - k \in 1..m /\ (i - k = m <=> i = k + m)
      BY <2>3, <2>4
    <3>2. u[i] = t[i - k]
      BY <2>3, <2>4
    <3>3. t[i - k] = EOF <=> i - k = m
      BY <2>3, <3>1
    <3> QED
      BY <3>1, <3>2, <3>3
  <2>5. {i \in 1..(k + m) : u[i] = EOF} = {i \in 1..k : s[i] = EOF} \cup {k + m}
    BY <2>3, <2>4
  <2>6. k + m \notin 1..k
    BY <2>3
  <2> QED
    BY <2>3, <2>5, <2>6 DEF k, m, u
<1> HIDE DEF S, T
<1>6. ASSUME NEW x, x \notin S PROVE Cardinality(S \cup {x}) = Cardinality(S) + 1
  BY <1>3, <1>6, FS_AddElement
<1> QED
  BY <1>3, <1>4, <1>5, <1>6

(* What a node has kept adds nothing to what it has read, without "EOF". *)
LEMMA EofsInKept ==
  ASSUME NEW s \in Seq(String), NEW t \in Seq(String),
         \A i \in 1..Len(t) : t[i] # <<EOF>>
  PROVE  EofsIn(s \o t) = EofsIn(s)
<1>1. /\ Len(s \o t) = Len(s) + Len(t) /\ DOMAIN (s \o t) = 1..Len(s \o t) /\ DOMAIN s = 1..Len(s)
      /\ \A i \in 1..Len(s \o t) :
           (s \o t)[i] = IF i <= Len(s) THEN s[i] ELSE t[i - Len(s)]
  OBVIOUS
<1>2. {i \in DOMAIN (s \o t) : (s \o t)[i] = <<EOF>>} = {i \in DOMAIN s : s[i] = <<EOF>>}
  BY <1>1
<1> QED
  BY <1>2 DEF EofsIn

LEMMA NoneCounted ==
  ASSUME NEW s \in Seq(String), EofsIn(s) = 0
  PROVE  \A i \in 1..Len(s) : s[i] # <<EOF>>
<1>1. IsFiniteSet(1..Len(s))
  BY FS_Interval
<1>2. IsFiniteSet({i \in DOMAIN s : s[i] = <<EOF>>})
  BY <1>1, FS_Subset
<1>3. {i \in DOMAIN s : s[i] = <<EOF>>} = {}
  BY <1>2, FS_EmptySet DEF EofsIn
<1> QED
  BY <1>3

-----------------------------------------------------------------------------
(* Counting. *)

LEMMA SameSize ==
  ASSUME NEW S, NEW T, IsFiniteSet(S), NEW f \in [S -> T],
         \A x, y \in S : f[x] = f[y] => x = y, \A t \in T : \E x \in S : f[x] = t
  PROVE  IsFiniteSet(T) /\ Cardinality(T) = Cardinality(S)
<1>1. f \in Bijection(S, T)
  BY DEF Bijection, Injection, Surjection, IsInjective
<1>2. ExistsBijection(S, T)
  BY <1>1 DEF ExistsBijection
<1> QED
  BY <1>2, FS_Bijection

LEMMA DisjointSize ==
  ASSUME NEW S, NEW T, IsFiniteSet(S), IsFiniteSet(T), S \cap T = {}
  PROVE  /\ IsFiniteSet(S \cup T)
         /\ Cardinality(S \cup T) = Cardinality(S) + Cardinality(T)
         /\ Cardinality(S) \in Nat /\ Cardinality(T) \in Nat
<1>1. Cardinality(S) \in Nat /\ Cardinality(T) \in Nat
  BY FS_CardinalityType
<1>2. Cardinality(S \cap T) = 0
  BY FS_EmptySet
<1>3. IsFiniteSet(S \cup T) /\ Cardinality(S \cup T) = Cardinality(S) + Cardinality(T) - Cardinality(S \cap T)
  BY FS_Union
<1> QED
  BY <1>1, <1>2, <1>3

LEMMA CountType ==
  ASSUME NEW l, NEW s \in Seq(Line)
  PROVE  /\ IsFiniteSet({i \in DOMAIN s : s[i] = l})
         /\ Count(l, s) \in Nat
<1>1. Len(s) \in Nat /\ DOMAIN s = 1..Len(s)
  OBVIOUS
<1>2. IsFiniteSet(1..Len(s))
  BY <1>1, FS_Interval
<1>3. IsFiniteSet({i \in DOMAIN s : s[i] = l})
  BY <1>1, <1>2, FS_Subset
<1> QED
  BY <1>3, FS_CardinalityType DEF Count

LEMMA CountEmpty == ASSUME NEW l PROVE Count(l, <<>>) = 0
<1>1. {i \in DOMAIN <<>> : <<>>[i] = l} = {}
  OBVIOUS
<1> QED
  BY <1>1, FS_EmptySet DEF Count

LEMMA CountConcat ==
  ASSUME NEW l, NEW s \in Seq(Line), NEW t \in Seq(Line)
  PROVE  Count(l, s \o t) = Count(l, s) + Count(l, t)
<1> DEFINE S == {i \in DOMAIN s : s[i] = l}
           T == {i \in DOMAIN t : t[i] = l}
           U == {i \in DOMAIN (s \o t) : (s \o t)[i] = l}
           V == U \ S
           f == [i \in T |-> Len(s) + i]
<1>1. /\ Len(s) \in Nat /\ Len(t) \in Nat /\ Len(s \o t) = Len(s) + Len(t)
      /\ DOMAIN s = 1..Len(s) /\ DOMAIN t = 1..Len(t) /\ DOMAIN (s \o t) = 1..Len(s \o t)
      /\ \A i \in 1..Len(s \o t) :
           (s \o t)[i] = IF i <= Len(s) THEN s[i] ELSE t[i - Len(s)]
  OBVIOUS
<1>2. S \subseteq U /\ \A i \in S : i <= Len(s)
  BY <1>1
<1>3. \A i \in V : i - Len(s) \in T
  BY <1>1
<1>4. \A i \in T : Len(s) + i \in V
  BY <1>1
<1>5. T \subseteq Int /\ V \subseteq Int /\ Len(s) \in Int
  BY <1>1
<1>6. IsFiniteSet(S) /\ IsFiniteSet(T)
  BY CountType
<1>7. IsFiniteSet(V) /\ Cardinality(V) = Cardinality(T)
  <2> HIDE DEF S, T, U, V
  <2>1. f \in [T -> V]
    BY <1>4
  <2>2. \A x, y \in T : f[x] = f[y] => x = y
    BY <1>5
  <2>3. ASSUME NEW i \in V PROVE \E x \in T : f[x] = i
    <3>1. i - Len(s) \in T /\ Len(s) + (i - Len(s)) = i
      BY <1>3, <1>5
    <3> QED
      BY <3>1
  <2> HIDE DEF f
  <2> QED
    BY <1>6, <2>1, <2>2, <2>3, SameSize
<1>8. U = S \cup V /\ S \cap V = {}
  BY <1>2
<1> HIDE DEF S, T, U, V
<1>9. Cardinality(U) = Cardinality(S) + Cardinality(T)
  BY <1>6, <1>7, <1>8, DisjointSize
<1> QED
  BY <1>9 DEF Count, S, T, U

(* The places at which l is in the sequences f[x]. *)
Places(l, f) == UNION {{x} \X {i \in DOMAIN f[x] : f[x][i] = l} : x \in DOMAIN f}

LEMMA PlacesOf ==
  ASSUME NEW l, NEW f, NEW p \in Places(l, f)
  PROVE  /\ p = <<p[1], p[2]>>
         /\ p[1] \in DOMAIN f /\ p[2] \in DOMAIN f[p[1]] /\ f[p[1]][p[2]] = l
BY DEF Places

LEMMA PlacesAt ==
  ASSUME NEW l, NEW f, NEW x \in DOMAIN f, NEW i \in DOMAIN f[x], f[x][i] = l
  PROVE  <<x, i>> \in Places(l, f)
BY DEF Places

LEMMA PlacesFinite ==
  ASSUME NEW l, NEW D, IsFiniteSet(D), NEW f \in [D -> Seq(Line)]
  PROVE  IsFiniteSet(Places(l, f)) /\ Copies(l, f) = Cardinality(Places(l, f)) /\ Copies(l, f) \in Nat
<1> DEFINE F(x) == {x} \X {i \in DOMAIN f[x] : f[x][i] = l}
           g    == [x \in D |-> F(x)]
           T    == {F(x) : x \in D}
<1>1. IsFiniteSet(T)
  <2>1. g \in Surjection(D, T)
    BY DEF Surjection
  <2> HIDE DEF g, T
  <2> QED
    BY <2>1, FS_Surjection
<1>2. ASSUME NEW x \in D PROVE IsFiniteSet(F(x))
  <2>1. f[x] \in Seq(Line)
    OBVIOUS
  <2>2. IsFiniteSet({i \in DOMAIN f[x] : f[x][i] = l})
    BY <2>1, CountType
  <2>3. IsFiniteSet({x})
    BY FS_Singleton
  <2> QED
    BY <2>2, <2>3, FS_Product
<1>3. \A S \in T : IsFiniteSet(S)
  BY <1>2
<1>4. IsFiniteSet(UNION T)
  <2> HIDE DEF T
  <2> QED
    BY <1>1, <1>3, FS_UNION
<1>5. Places(l, f) = UNION T
  BY DEF Places
<1>6. Copies(l, f) = Cardinality(Places(l, f))
  BY DEF Copies, Places
<1> QED
  BY <1>4, <1>5, <1>6, FS_CardinalityType

(* Two functions that differ at one place only. *)
SameBut(D, x, f, g) ==
  /\ f \in [D -> Seq(Line)] /\ g \in [D -> Seq(Line)]
  /\ x \in D /\ \A y \in D : y # x => f[y] = g[y]

LEMMA CopiesChange ==
  ASSUME NEW l, NEW D, IsFiniteSet(D), NEW f, NEW g, NEW x, SameBut(D, x, f, g)
  PROVE  Copies(l, f) + Count(l, g[x]) = Copies(l, g) + Count(l, f[x])
<1> USE DEF SameBut
<1> DEFINE S(h) == {i \in DOMAIN h[x] : h[x][i] = l}
           R(h) == {p \in Places(l, h) : p[1] # x}
<1>1. ASSUME NEW h \in [D -> Seq(Line)]
      PROVE  Copies(l, h) = Cardinality(R(h)) + Count(l, h[x]) /\ Cardinality(R(h)) \in Nat
  <2> DEFINE X == {x} \X S(h)
             k == [i \in S(h) |-> <<x, i>>]
  <2>1. IsFiniteSet(S(h)) /\ Cardinality(S(h)) = Count(l, h[x])
    BY CountType DEF Count
  <2>2. IsFiniteSet(X) /\ Cardinality(X) = Cardinality(S(h))
    <3>1. k \in [S(h) -> X]
      OBVIOUS
    <3>2. \A i, j \in S(h) : k[i] = k[j] => i = j
      OBVIOUS
    <3>3. \A p \in X : \E i \in S(h) : k[i] = p
      OBVIOUS
    <3> HIDE DEF X, k, S
    <3> QED
      BY <2>1, <3>1, <3>2, <3>3, SameSize
  <2>3. Places(l, h) = R(h) \cup X
    <3>1. X \subseteq Places(l, h)
      <4>1. ASSUME NEW i \in S(h) PROVE <<x, i>> \in Places(l, h)
        BY PlacesAt
      <4> QED
        BY <4>1
    <3>2. ASSUME NEW p \in Places(l, h), p[1] = x PROVE p \in X
      BY <3>2, PlacesOf
    <3> QED
      BY <3>1, <3>2
  <2>4. R(h) \cap X = {}
    OBVIOUS
  <2>5. IsFiniteSet(R(h))
    <3>1. IsFiniteSet(Places(l, h)) /\ R(h) \in SUBSET Places(l, h)
      BY PlacesFinite
    <3> QED
      BY <3>1, FS_Subset
  <2>6. Copies(l, h) = Cardinality(Places(l, h))
    BY PlacesFinite
  <2> HIDE DEF R, X, S
  <2>7. Cardinality(R(h) \cup X) = Cardinality(R(h)) + Cardinality(X) /\ Cardinality(R(h)) \in Nat
    BY <2>2, <2>4, <2>5, DisjointSize
  <2> QED
    BY <2>1, <2>2, <2>3, <2>6, <2>7
<1>2. R(f) = R(g)
  <2>1. ASSUME NEW h \in [D -> Seq(Line)], NEW k \in [D -> Seq(Line)],
               \A y \in D : y # x => h[y] = k[y], NEW p \in R(h)
        PROVE  p \in R(k)
    <3>1. p[1] \in D /\ p[1] # x /\ h[p[1]] = k[p[1]]
      BY <2>1, PlacesOf
    <3> QED
      BY <3>1, PlacesOf, PlacesAt
  <2>2. \A p \in R(f) : p \in R(g)
    BY <2>1
  <2>3. \A p \in R(g) : p \in R(f)
    BY <2>1
  <2> QED
    BY <2>2, <2>3
<1> HIDE DEF R
<1>3. Count(l, f[x]) \in Nat /\ Count(l, g[x]) \in Nat
  BY CountType
<1>4. /\ Copies(l, f) = Cardinality(R(f)) + Count(l, f[x]) /\ Cardinality(R(f)) \in Nat
      /\ Copies(l, g) = Cardinality(R(g)) + Count(l, g[x])
  BY <1>1
<1> QED
  BY <1>2, <1>3, <1>4

LEMMA StringSeqs ==
  ASSUME NEW s \in Seq(String)
  PROVE  /\ s \in [1..Len(s) -> Seq(Line)] /\ Len(s) \in Nat /\ DOMAIN s = 1..Len(s)
         /\ IsFiniteSet(1..Len(s))
<1>1. Len(s) \in Nat /\ s \in [1..Len(s) -> String]
  OBVIOUS
<1>2. String \subseteq Seq(Line)
  BY DEF String
<1>3. IsFiniteSet(1..Len(s))
  BY <1>1, FS_Interval
<1> QED
  BY <1>1, <1>2, <1>3

LEMMA CopiesType ==
  ASSUME NEW l, NEW s \in Seq(String)
  PROVE  /\ IsFiniteSet(Places(l, s)) /\ Copies(l, s) = Cardinality(Places(l, s)) /\ Copies(l, s) \in Nat
BY StringSeqs, PlacesFinite

LEMMA CopiesConcat ==
  ASSUME NEW l, NEW s \in Seq(String), NEW t \in Seq(String)
  PROVE  Copies(l, s \o t) = Copies(l, s) + Copies(l, t)
<1> DEFINE N == Len(s)
           S == Places(l, s)
           T == Places(l, t)
           U == Places(l, s \o t)
           V == {p \in U : ~(p[1] <= N)}
           f == [p \in T |-> <<N + p[1], p[2]>>]
<1>p. \A q, p : p \in Places(l, q) =>
        /\ p = <<p[1], p[2]>> /\ p[1] \in DOMAIN q /\ p[2] \in DOMAIN q[p[1]] /\ q[p[1]][p[2]] = l
  BY PlacesOf
<1>0. s \o t \in Seq(String)
  OBVIOUS
<1>1. /\ N \in Nat /\ Len(t) \in Nat /\ Len(s \o t) = N + Len(t)
      /\ DOMAIN s = 1..N /\ DOMAIN t = 1..Len(t) /\ DOMAIN (s \o t) = 1..(N + Len(t))
      /\ \A i \in 1..(N + Len(t)) :
           (s \o t)[i] = IF i <= N THEN s[i] ELSE t[i - N]
  OBVIOUS
<1>2. ASSUME NEW p \in S PROVE p \in U /\ p[1] <= N
  <2>1. p = <<p[1], p[2]>> /\ p[1] \in 1..N /\ p[2] \in DOMAIN s[p[1]] /\ s[p[1]][p[2]] = l
    BY <1>1, PlacesOf
  <2>2. p[1] <= N /\ p[1] \in DOMAIN (s \o t) /\ (s \o t)[p[1]] = s[p[1]]
    BY <1>1, <2>1
  <2> QED
    BY <2>1, <2>2, PlacesAt
<1>3. ASSUME NEW p \in U, p[1] <= N PROVE p \in S
  <2>0. /\ p = <<p[1], p[2]>> /\ p[1] \in DOMAIN (s \o t)
        /\ p[2] \in DOMAIN (s \o t)[p[1]] /\ (s \o t)[p[1]][p[2]] = l
    BY <1>p
  <2>1. p[1] \in 1..(N + Len(t))
    BY <1>1, <2>0
  <2>2. p[1] \in DOMAIN s /\ (s \o t)[p[1]] = s[p[1]]
    BY <1>1, <1>3, <2>1
  <2> QED
    BY <2>0, <2>2, PlacesAt
<1>4. ASSUME NEW p \in T PROVE <<N + p[1], p[2]>> \in V /\ p[1] \in Nat /\ p = <<p[1], p[2]>>
  <2>1. p = <<p[1], p[2]>> /\ p[1] \in 1..Len(t) /\ p[2] \in DOMAIN t[p[1]] /\ t[p[1]][p[2]] = l
    BY <1>1, PlacesOf
  <2> DEFINE q == N + p[1]
  <2>2. q \in 1..(N + Len(t)) /\ ~(q <= N) /\ q - N = p[1] /\ p[1] \in Nat
    BY <1>1, <2>1
  <2>3. q \in DOMAIN (s \o t) /\ (s \o t)[q] = t[p[1]]
    BY <1>1, <2>2
  <2> HIDE DEF q
  <2>4. <<q, p[2]>> \in U
    BY <2>1, <2>3, PlacesAt
  <2>5. <<q, p[2]>>[1] = q
    OBVIOUS
  <2> QED
    BY <2>1, <2>2, <2>4, <2>5 DEF q
<1>5. ASSUME NEW p \in V
      PROVE  /\ p = <<p[1], p[2]>> /\ p[1] \in Nat /\ <<p[1] - N, p[2]>> \in T
             /\ N + (p[1] - N) = p[1]
  <2>0. /\ p \in U /\ ~(p[1] <= N)
    OBVIOUS
  <2>5. /\ p = <<p[1], p[2]>> /\ p[1] \in DOMAIN (s \o t)
        /\ p[2] \in DOMAIN (s \o t)[p[1]] /\ (s \o t)[p[1]][p[2]] = l
    BY <1>p, <2>0
  <2>1. /\ p = <<p[1], p[2]>> /\ p[1] \in 1..(N + Len(t)) /\ ~(p[1] <= N)
        /\ p[2] \in DOMAIN (s \o t)[p[1]] /\ (s \o t)[p[1]][p[2]] = l
    BY <1>1, <2>0, <2>5
  <2>2. p[1] - N \in DOMAIN t /\ (s \o t)[p[1]] = t[p[1] - N]
    BY <1>1, <2>1
  <2>3. p[1] \in Nat /\ N + (p[1] - N) = p[1]
    BY <1>1, <2>1
  <2>4. <<p[1] - N, p[2]>> \in T
    BY <2>1, <2>2, PlacesAt
  <2> QED
    BY <2>1, <2>3, <2>4
<1>6. /\ IsFiniteSet(S) /\ IsFiniteSet(T)
      /\ Copies(l, s) = Cardinality(S) /\ Copies(l, t) = Cardinality(T)
      /\ Copies(l, s \o t) = Cardinality(U)
  BY <1>0, CopiesType
<1>7. U = S \cup V /\ S \cap V = {}
  <2> HIDE DEF S, U, N
  <2> QED
    BY <1>2, <1>3
<1>8. IsFiniteSet(V) /\ Cardinality(V) = Cardinality(T)
  <2>0. N \in Nat
    BY <1>1
  <2> HIDE DEF N, S, T, U, V
  <2>1. f \in [T -> V]
    BY <1>4
  <2>2. ASSUME NEW p \in T, NEW q \in T, f[p] = f[q] PROVE p = q
    <3>1. <<N + p[1], p[2]>> = <<N + q[1], q[2]>>
      BY <2>2
    <3>2. N + p[1] = N + q[1] /\ p[2] = q[2]
      BY <3>1
    <3>3. p[1] \in Nat /\ q[1] \in Nat
      BY <1>4
    <3>4. \A a, b \in Nat : N + a = N + b => a = b
      BY <2>0
    <3>5. p[1] = q[1]
      BY <3>2, <3>3, <3>4
    <3>6. p = <<p[1], p[2]>> /\ q = <<q[1], q[2]>>
      BY <1>4
    <3> QED
      BY <3>2, <3>5, <3>6
  <2>3. ASSUME NEW p \in V PROVE \E q \in T : f[q] = p
    <3> DEFINE a == p[1] - N
    <3>1. <<a, p[2]>> \in T /\ N + a = p[1] /\ p = <<p[1], p[2]>>
      BY <1>5
    <3> HIDE DEF a
    <3>2. f[<<a, p[2]>>] = <<N + a, p[2]>>
      BY <3>1
    <3> QED
      BY <3>1, <3>2
  <2> HIDE DEF f
  <2>4. \A p, q \in T : f[p] = f[q] => p = q
    BY <2>2
  <2> QED
    BY <1>6, <2>1, <2>3, <2>4, SameSize
<1> HIDE DEF S, T, U, V
<1>9. Cardinality(U) = Cardinality(S) + Cardinality(V)
  BY <1>6, <1>7, <1>8, DisjointSize
<1> QED
  BY <1>6, <1>8, <1>9

(* A line that is nowhere in the strings. *)
LEMMA CopiesNone ==
  ASSUME NEW l, NEW s \in Seq(String),
         \A i \in 1..Len(s) : \A j \in 1..Len(s[i]) : s[i][j] # l
  PROVE  Copies(l, s) = 0
<1>1. ASSUME NEW p \in Places(l, s) PROVE FALSE
  <2>1. p[1] \in 1..Len(s) /\ p[2] \in DOMAIN s[p[1]] /\ s[p[1]][p[2]] = l
    BY PlacesOf, StringSeqs
  <2>2. s[p[1]] \in Seq(Line)
    BY <2>1, StringSeqs
  <2> QED
    BY <2>1, <2>2
<1>2. Places(l, s) = {}
  BY <1>1
<1> QED
  BY <1>2, CopiesType, FS_EmptySet

(* A string on its own. *)
LEMMA CopiesOne ==
  ASSUME NEW l, NEW x \in String
  PROVE  Copies(l, <<x>>) = Count(l, x)
<1> DEFINE S == {i \in DOMAIN x : x[i] = l}
           T == Places(l, <<x>>)
           f == [i \in S |-> <<1, i>>]
<1>1. x \in Seq(Line) /\ <<x>> \in Seq(String) /\ DOMAIN <<x>> = {1} /\ <<x>>[1] = x
  BY StringType
<1>2. ASSUME NEW i \in S PROVE <<1, i>> \in T
  BY <1>1, PlacesAt
<1>3. ASSUME NEW p \in T PROVE p[2] \in S /\ p = <<1, p[2]>>
  BY <1>1, PlacesOf
<1>4. IsFiniteSet(S) /\ Count(l, x) = Cardinality(S) /\ Copies(l, <<x>>) = Cardinality(T)
  BY <1>1, CountType, CopiesType DEF Count
<1> HIDE DEF S, T
<1>5. f \in [S -> T]
  BY <1>2
<1>6. \A i, j \in S : f[i] = f[j] => i = j
  OBVIOUS
<1>7. \A p \in T : \E i \in S : f[i] = p
  BY <1>3
<1> HIDE DEF f
<1> QED
  BY <1>4, <1>5, <1>6, <1>7, SameSize

(* Lines that are split into strings of their own. *)
LEMMA CopiesAsStrings ==
  ASSUME NEW l, NEW s \in Seq(Line)
  PROVE  Copies(l, AsStrings(s)) = Count(l, s)
<1> DEFINE S == {i \in DOMAIN s : s[i] = l}
           T == Places(l, AsStrings(s))
           f == [i \in S |-> <<i, 1>>]
<1>1. /\ AsStrings(s) \in Seq(String) /\ DOMAIN AsStrings(s) = DOMAIN s
      /\ \A i \in DOMAIN s : AsStrings(s)[i] = <<s[i]>>
  BY AsStringsType DEF AsStrings
<1>2. ASSUME NEW i \in S PROVE <<i, 1>> \in T
  <2>1. i \in DOMAIN AsStrings(s) /\ AsStrings(s)[i] = <<l>>
    BY <1>1
  <2> QED
    BY <2>1, PlacesAt
<1>3. ASSUME NEW p \in T PROVE p[1] \in S /\ p = <<p[1], 1>>
  <2>1. p = <<p[1], p[2]>> /\ p[1] \in DOMAIN s /\ p[2] \in DOMAIN <<s[p[1]]>> /\ <<s[p[1]]>>[p[2]] = l
    BY <1>1, PlacesOf
  <2>2. p[2] = 1
    BY <2>1
  <2> QED
    BY <2>1, <2>2
<1>4. IsFiniteSet(S) /\ Count(l, s) = Cardinality(S) /\ Copies(l, AsStrings(s)) = Cardinality(T)
  BY <1>1, CountType, CopiesType DEF Count
<1> HIDE DEF S, T
<1>5. f \in [S -> T]
  BY <1>2
<1>6. \A i, j \in S : f[i] = f[j] => i = j
  OBVIOUS
<1>7. \A p \in T : \E i \in S : f[i] = p
  BY <1>3
<1> HIDE DEF f
<1> QED
  BY <1>4, <1>5, <1>6, <1>7, SameSize

(* The lines of single strings, each taken once, in whatever order. *)
LEMMA CopiesJoined ==
  ASSUME NEW l \in Line \ {EOF}, NEW s \in Seq(String), \A i \in 1..Len(s) : Len(s[i]) = 1,
         NEW k \in Nat, NEW p \in [1..k -> {i \in DOMAIN s : s[i] # <<EOF>>}],
         \A i \in {i \in DOMAIN s : s[i] # <<EOF>>} : \E j \in 1..k : p[j] = i,
         \A i, j \in 1..k : i # j => p[i] # p[j]
  PROVE  Count(l, [j \in 1..k |-> s[p[j]][1]]) = Copies(l, s)
<1> DEFINE r == [j \in 1..k |-> s[p[j]][1]]
           S == {j \in 1..k : r[j] = l}
           T == Places(l, s)
           f == [j \in S |-> <<p[j], 1>>]
<1>1. DOMAIN s = 1..Len(s) /\ Len(s) \in Nat /\ \A i \in 1..Len(s) : s[i] \in Seq(Line) /\ DOMAIN s[i] = {1}
  <2>1. DOMAIN s = 1..Len(s) /\ Len(s) \in Nat /\ \A i \in 1..Len(s) : s[i] \in Seq(Line)
    BY StringSeqs
  <2>2. ASSUME NEW i \in 1..Len(s) PROVE DOMAIN s[i] = {1}
    BY <2>1
  <2> QED
    BY <2>1, <2>2
<1>2. \A j \in 1..k : p[j] \in DOMAIN s /\ r[j] = s[p[j]][1]
  OBVIOUS
<1>3. ASSUME NEW j \in S PROVE <<p[j], 1>> \in T
  BY <1>1, <1>2, PlacesAt
<1>4. ASSUME NEW q \in T PROVE \E j \in S : <<p[j], 1>> = q
  <2>1. q = <<q[1], q[2]>> /\ q[1] \in DOMAIN s /\ q[2] \in DOMAIN s[q[1]] /\ s[q[1]][q[2]] = l
    BY PlacesOf
  <2>2. q[2] = 1 /\ s[q[1]][1] = l
    BY <1>1, <2>1
  <2>3. s[q[1]] # <<EOF>>
    BY <2>2
  <2>4. PICK j \in 1..k : p[j] = q[1]
    BY <2>1, <2>3
  <2>5. j \in S
    BY <1>2, <2>2, <2>4
  <2> QED
    BY <2>1, <2>2, <2>4, <2>5
<1>5. IsFiniteSet(S)
  <2>1. IsFiniteSet(1..k)
    BY FS_Interval
  <2> QED
    BY <2>1, FS_Subset
<1>6. Count(l, r) = Cardinality(S) /\ Copies(l, s) = Cardinality(T)
  BY CopiesType DEF Count
<1>7. \A i, j \in S : p[i] = p[j] => i = j
  OBVIOUS
<1> HIDE DEF S, T, r
<1>8. f \in [S -> T]
  BY <1>3
<1>9. \A i, j \in S : f[i] = f[j] => i = j
  BY <1>7
<1>10. \A q \in T : \E j \in S : f[j] = q
  BY <1>4
<1> HIDE DEF f
<1>11. Cardinality(T) = Cardinality(S)
  BY <1>5, <1>8, <1>9, <1>10, SameSize
<1> QED
  BY <1>6, <1>11 DEF r

LEMMA EofElsewhere ==
  ASSUME NEW l \in Line \ {EOF}
  PROVE  /\ \A k \in 1..Len(<<EOF>>) : <<EOF>>[k] # l
         /\ Count(l, <<EOF>>) = 0 /\ <<EOF>> \in String
<1>1. {i \in DOMAIN <<EOF>> : <<EOF>>[i] = l} = {}
  OBVIOUS
<1>2. Count(l, <<EOF>>) = 0
  BY <1>1, FS_EmptySet DEF Count
<1> QED
  BY <1>2, LineAssumption, SingletonType

LEMMA CopiesEmpty == ASSUME NEW l PROVE Copies(l, <<>>) = 0
<1>1. Places(l, <<>>) = {} /\ Copies(l, <<>>) = Cardinality(Places(l, <<>>))
  BY DEF Places, Copies
<1> QED
  BY <1>1, FS_EmptySet

(* "EOF"s count for nothing. *)
LEMMA CopiesEofs ==
  ASSUME NEW l \in Line \ {EOF}, NEW s \in Seq(String), \A i \in 1..Len(s) : s[i] = <<EOF>>
  PROVE  Copies(l, s) = 0
<1>1. \A i \in 1..Len(s) : \A j \in 1..Len(s[i]) : s[i][j] # l
  BY EofElsewhere
<1> QED
  BY <1>1, CopiesNone

(* A string is taken out, with the "EOF"s in front of it. *)
LEMMA CopiesTaken ==
  ASSUME NEW l \in Line \ {EOF}, NEW s \in Seq(String), NEW i \in 1..Len(s),
         \A j \in 1..(i - 1) : s[j] = <<EOF>>
  PROVE  /\ SubSeq(s, i + 1, Len(s)) \in Seq(String)
         /\ Copies(l, s) = Count(l, s[i]) + Copies(l, SubSeq(s, i + 1, Len(s)))
<1> DEFINE pre  == SubSeq(s, 1, i - 1)
           rest == SubSeq(s, i + 1, Len(s))
           x    == s[i]
<1>1. /\ pre \in Seq(String) /\ Len(pre) = i - 1 /\ \A j \in 1..(i - 1) : pre[j] = s[j]
      /\ rest \in Seq(String) /\ x \in String /\ <<x>> \in Seq(String)
      /\ Len(rest) = Len(s) - i /\ \A j \in 1..(Len(s) - i) : rest[j] = s[j + i]
  OBVIOUS
<1>2. s = pre \o (<<x>> \o rest)
  <2> DEFINE t == <<x>> \o rest
  <2>1. t \in Seq(String) /\ Len(t) = Len(s) - i + 1 /\ \A j \in 1..Len(t) : t[j] = s[i - 1 + j]
    <3>1. t \in Seq(String) /\ Len(t) = 1 + Len(rest)
      BY <1>1
    <3>2. t[1] = x /\ \A j \in 2..Len(t) : t[j] = rest[j - 1]
      BY <1>1
    <3>3. ASSUME NEW j \in 2..Len(t) PROVE t[j] = s[i - 1 + j]
      <4>1. j - 1 \in 1..(Len(s) - i) /\ (j - 1) + i = i - 1 + j
        BY <1>1, <3>1
      <4> QED
        BY <1>1, <3>2, <4>1
    <3> HIDE DEF t
    <3> QED
      BY <1>1, <3>1, <3>2, <3>3
  <2> HIDE DEF t, pre, rest
  <2>2. pre \o t \in Seq(String) /\ Len(pre \o t) = Len(s)
    <3>0. \A a, b \in Seq(String) : a \o b \in Seq(String) /\ Len(a \o b) = Len(a) + Len(b)
      OBVIOUS
    <3>1. pre \o t \in Seq(String) /\ Len(pre \o t) = Len(pre) + Len(t)
      BY <1>1, <2>1, <3>0
    <3>2. Len(s) \in Nat /\ i \in Nat
      OBVIOUS
    <3> QED
      BY <1>1, <2>1, <3>1, <3>2
  <2>3. ASSUME NEW j \in 1..Len(s) PROVE (pre \o t)[j] = s[j]
    <3>1. CASE j <= i - 1
      BY <1>1, <2>1, <3>1
    <3>2. CASE ~(j <= i - 1)
      <4>1. (pre \o t)[j] = t[j - (i - 1)]
        BY <1>1, <2>1, <3>2
      <4>2. j - (i - 1) \in 1..Len(t) /\ i - 1 + (j - (i - 1)) = j
        BY <2>1, <3>2
      <4> QED
        BY <2>1, <4>1, <4>2
    <3> QED
      BY <3>1, <3>2
  <2>4. pre \o t = s
    <3> DEFINE u == pre \o t
    <3>1. u \in Seq(String) /\ Len(u) = Len(s) /\ \A j \in 1..Len(s) : u[j] = s[j]
      BY <2>2, <2>3
    <3> HIDE DEF u
    <3>2. u = s
      BY <3>1
    <3> QED
      BY <3>2 DEF u
  <2> QED
    BY <2>4 DEF t
<1> HIDE DEF pre, rest, x
<1>3. <<x>> \o rest \in Seq(String)
  BY <1>1
<1>4. Copies(l, s) = Copies(l, pre) + Copies(l, <<x>> \o rest)
  BY <1>1, <1>2, <1>3, CopiesConcat
<1>5. Copies(l, <<x>> \o rest) = Copies(l, <<x>>) + Copies(l, rest)
  BY <1>1, CopiesConcat
<1>6. Copies(l, <<x>>) = Count(l, x)
  BY <1>1, CopiesOne
<1>7. Copies(l, pre) = 0
  BY <1>1, CopiesEofs
<1>8. Copies(l, rest) \in Nat /\ Count(l, x) \in Nat
  BY <1>1, StringType, CopiesType, CountType
<1>9. Copies(l, s) = Count(l, x) + Copies(l, rest)
  <2> DEFINE a == Copies(l, rest)   b == Count(l, x)   c == Copies(l, <<x>> \o rest)
             d == Copies(l, pre)    e == Copies(l, s)  f == Copies(l, <<x>>)
  <2>1. a \in Nat /\ b \in Nat /\ e = d + c /\ c = f + a /\ f = b /\ d = 0
    BY <1>4, <1>5, <1>6, <1>7, <1>8
  <2> HIDE DEF a, b, c, d, e, f
  <2>2. e = b + a
    BY <2>1
  <2> QED
    BY <2>2 DEF a, b, e
<1> QED
  BY <1>1, <1>8, <1>9 DEF x, rest

LEMMA CopiesAppend ==
  ASSUME NEW l, NEW s \in Seq(String), NEW x \in String
  PROVE  Copies(l, Append(s, x)) = Copies(l, s) + Count(l, x)
<1>1. Append(s, x) = s \o <<x>> /\ <<x>> \in Seq(String)
  OBVIOUS
<1>2. Copies(l, s \o <<x>>) = Copies(l, s) + Copies(l, <<x>>)
  BY <1>1, CopiesConcat
<1>3. Copies(l, <<x>>) = Count(l, x)
  BY CopiesOne
<1> QED
  BY <1>1, <1>2, <1>3
=============================================================================
