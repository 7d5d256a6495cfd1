------------------------ MODULE ExtensionObjects_proofs ------------------------
(***************************************************************************)
(* Structured values, for all programs of the PLC: what the server encodes *)
(* is decoded to the value it encoded, and a table is encoded as the       *)
(* server would encode it, for the values Regular names (no optional field *)
(* is omitted, Lua holds the numbers, lua_next goes by index).             *)
(*                                                                         *)
(* The argument follows the code from the inside: octets and numbers, one  *)
(* plain item, the loop over the items of an array, the loop over the      *)
(* fields of a structure, and nested structures by induction on their      *)
(* depth.  A loop is the sequence of its rounds, and what it has read or   *)
(* written after i of them is shown by induction on i.  Both inductions    *)
(* are over a set of numbers (SetInduction, from the least element that    *)
(* a set of numbers has).                                                  *)
(***************************************************************************)
EXTENDS ExtensionObjects, TypeDefinitions_proofs, FiniteSetTheorems, SequenceTheorems,
        WellFoundedInduction, TLAPS

Texts == Seq(Octet)

(* The octets e lie in buf behind the first a. *)
At(buf, a, e) == a + Len(e) <= Len(buf) /\ \A k \in 1..Len(e) : buf[a + k] = e[k]

(* The concatenations of the first 0, 1, ... of some texts. *)
Partials(texts, up) ==
  /\ up \in [0..Len(texts) -> Texts] /\ up[0] = <<>>
  /\ \A i \in 1..Len(texts) : up[i] = up[i - 1] \o texts[i]

-----------------------------------------------------------------------------
(* Induction and loops                                                     *)

(* Induction over the natural numbers, for the set of those that have a property: the
   least number outside of it would have a predecessor outside of it. *)
LEMMA SetInduction ==
  ASSUME NEW S, 0 \in S, \A n \in Nat : n \in S => n + 1 \in S
  PROVE  Nat \subseteq S
<1> SUFFICES ASSUME NEW T, T = Nat \ S, T # {}
             PROVE  FALSE
  OBVIOUS
<1>1. PICK x \in T : \A y \in T : ~(<<y, x>> \in OpToRel(<, Nat))
  BY NatLessThanWellFounded, WFMin
<1>2. x \in Nat /\ x # 0 /\ x \notin S
  OBVIOUS
<1>3. x - 1 \in Nat /\ x - 1 < x
  BY <1>2
<1>4. <<x - 1, x>> \in OpToRel(<, Nat)
  BY <1>2, <1>3 DEF OpToRel
<1>5. x - 1 \in S
  BY <1>1, <1>3, <1>4
<1> QED
  BY <1>2, <1>3, <1>5

(* A loop does what any function says that has the value at its start and agrees with
   every round. *)
LEMMA AfterIs ==
  ASSUME NEW rounds, NEW n \in Nat, Len(rounds) = n, NEW x, NEW h,
         h[0] = x, \A i \in 1..n : h[i] = rounds[i][h[i - 1]]
  PROVE  \A i \in 0..n : After(rounds, x)[i] = h[i]
<1> DEFINE Body(g) == [i \in 0..n |-> IF i = 0 THEN x ELSE rounds[i][g[i - 1]]]
           f == [i \in 0..n |-> h[i]]
           A == After(rounds, x)
<1>1. f = Body(f)
  <2>1. \A i \in 0..n : h[i] = IF i = 0 THEN x ELSE rounds[i][f[i - 1]]
    <3> TAKE i \in 0..n
    <3>1. CASE i = 0
      BY <3>1
    <3>2. CASE i # 0
      <4>1. i \in 1..n /\ i - 1 \in 0..n
        BY <3>2
      <4> QED
        BY <3>2, <4>1
    <3> QED
      BY <3>1, <3>2
  <2> QED
    BY <2>1
<1>2. A = CHOOSE g : g = Body(g)
  BY DEF After
<1>3. A = Body(A)
  <2> HIDE DEF Body, f, A
  <2> QED
    BY <1>1, <1>2
<1> HIDE DEF A
<1>4. \A i \in 0..n : A[i] = IF i = 0 THEN x ELSE rounds[i][A[i - 1]]
  BY <1>3
<1> DEFINE S == {i \in Nat : i <= n => A[i] = h[i]}
<1>5. 0 \in S
  BY <1>4
<1>6. ASSUME NEW i \in Nat, i \in S
      PROVE  i + 1 \in S
  <2> SUFFICES ASSUME i + 1 <= n
               PROVE  A[i + 1] = h[i + 1]
    OBVIOUS
  <2>1. i + 1 \in 1..n /\ i + 1 \in 0..n /\ (i + 1) - 1 = i /\ i <= n
    OBVIOUS
  <2>2. A[i + 1] = rounds[i + 1][A[i]]
    <3>1. A[i + 1] = IF i + 1 = 0 THEN x ELSE rounds[i + 1][A[(i + 1) - 1]]
      BY <1>4, <2>1
    <3> QED
      BY <2>1, <3>1
  <2>3. h[i + 1] = rounds[i + 1][h[i]]
    <3>1. h[i + 1] = rounds[i + 1][h[(i + 1) - 1]]
      BY <2>1
    <3> QED
      BY <2>1, <3>1
  <2>4. A[i] = h[i]
    BY <1>6, <2>1
  <2> QED
    BY <2>2, <2>3, <2>4
<1>7. Nat \subseteq S
  <2> HIDE DEF S
  <2> QED
    BY <1>5, <1>6, SetInduction
<1> QED
  BY <1>7 DEF A

-----------------------------------------------------------------------------
(* Texts                                                                   *)

(* A concatenation has the elements of both. *)
LEMMA Concatenation ==
  ASSUME NEW x \in Texts, NEW y \in Texts
  PROVE  /\ x \o y \in Texts /\ Len(x \o y) = Len(x) + Len(y)
         /\ \A i \in 1..Len(x) : (x \o y)[i] = x[i]
         /\ \A i \in 1..Len(y) : (x \o y)[Len(x) + i] = y[i]
<1>1. Len(x) \in Nat /\ Len(y) \in Nat
  BY DEF Texts
<1> QED
  BY <1>1 DEF Texts

(* Every sequence of texts has its partial concatenations. *)
LEMMA PartialsExist ==
  ASSUME NEW texts \in Seq(Texts)
  PROVE  \E up : Partials(texts, up)
<1> DEFINE N == Len(texts)
           Upto(m) == {f \in [0..m -> Texts] :
                         f[0] = <<>> /\ \A i \in 1..m : f[i] = f[i - 1] \o texts[i]}
           S == {m \in Nat : m <= N => Upto(m) # {}}
<1>0. N \in Nat
  OBVIOUS
<1> HIDE DEF N
<1>1. 0 \in S
  <2>1. <<>> \in Texts
    BY DEF Texts
  <2> DEFINE f == [i \in 0..0 |-> <<>>]
  <2>2. f \in [0..0 -> Texts] /\ f[0] = <<>> /\ 1..0 = {}
    BY <2>1
  <2> HIDE DEF f
  <2>3. f \in Upto(0)
    BY <2>2
  <2> QED
    BY <2>3
<1>2. ASSUME NEW m \in Nat, m \in S
      PROVE  m + 1 \in S
  <2> SUFFICES ASSUME m + 1 <= N
               PROVE  Upto(m + 1) # {}
    <3> HIDE DEF Upto
    <3> QED
      OBVIOUS
  <2>1. N \in Nat /\ m + 1 \in 1..N /\ m <= N
    BY <1>0
  <2>2. PICK f \in Upto(m) : TRUE
    BY <1>2, <2>1
  <2>3. f \in [0..m -> Texts] /\ f[0] = <<>> /\ \A i \in 1..m : f[i] = f[i - 1] \o texts[i]
    BY <2>2
  <2>4. texts[m + 1] \in Texts /\ f[m] \in Texts
    BY <2>1, <2>3 DEF N
  <2> DEFINE whole == f[m] \o texts[m + 1]
             g == [i \in 0..(m + 1) |-> IF i = m + 1 THEN whole ELSE f[i]]
  <2>5. whole \in Texts
    BY <2>4, Concatenation
  <2>6. g[m + 1] = whole /\ \A i \in 0..m : g[i] = f[i]
    BY <1>2
  <2> HIDE DEF whole
  <2>7. g \in [0..(m + 1) -> Texts]
    BY <1>2, <2>3, <2>5
  <2> HIDE DEF g
  <2>8. \A i \in 1..(m + 1) : g[i] = g[i - 1] \o texts[i]
    <3> TAKE i \in 1..(m + 1)
    <3>1. CASE i = m + 1
      <4>1. i - 1 = m /\ m \in 0..m
        BY <3>1
      <4> QED
        BY <2>6, <3>1, <4>1 DEF whole
    <3>2. CASE i # m + 1
      <4>1. i \in 1..m /\ i - 1 \in 0..m /\ i \in 0..m
        BY <3>2
      <4> QED
        BY <2>3, <2>6, <4>1
    <3> QED
      BY <3>1, <3>2
  <2>9. g[0] = <<>>
    BY <2>3, <2>6
  <2>10. g \in Upto(m + 1)
    BY <2>7, <2>8, <2>9
  <2> QED
    BY <2>10
<1>3. Nat \subseteq S
  <2> HIDE DEF S
  <2> QED
    BY <1>1, <1>2, SetInduction
<1>4. N \in S
  <2> HIDE DEF S
  <2> QED
    BY <1>0, <1>3
<1>5. Upto(N) # {}
  <2> HIDE DEF Upto
  <2> QED
    BY <1>0, <1>4
<1>6. PICK f \in Upto(N) : TRUE
  BY <1>5
<1>7. Partials(texts, f)
  BY <1>6 DEF Partials, N
<1> QED
  BY <1>7

(* Concatenating texts is taking the last of their prefixes. *)
LEMMA FlattenIsLast ==
  ASSUME NEW texts \in Seq(Texts), NEW up, Partials(texts, up)
  PROVE  FlattenSeq(texts) = up[Len(texts)]
<1> DEFINE N == Len(texts)
           Body(g) == [i \in 1..N |-> IF i = 1 THEN texts[i] ELSE g[i - 1] \o texts[i]]
           f == [i \in 1..N |-> up[i]]
           F == CHOOSE g : g = Body(g)
<1>1. /\ N \in Nat /\ up \in [0..N -> Texts] /\ up[0] = <<>>
      /\ \A i \in 1..N : up[i] = up[i - 1] \o texts[i] /\ texts[i] \in Texts
  BY DEF Partials
<1>2. CASE N = 0
  <2>1. texts = <<>>
    BY <1>2
  <2> QED
    BY <1>1, <1>2, <2>1 DEF FlattenSeq
<1>3. CASE N # 0
  <2>0. N \in Nat \ {0} /\ N \in 1..N
    BY <1>1, <1>3
  <2>1. \A i \in 1..N : up[i] = IF i = 1 THEN texts[i] ELSE f[i - 1] \o texts[i]
    <3> TAKE i \in 1..N
    <3>1. CASE i = 1
      <4>1. up[1] = <<>> \o texts[1] /\ texts[1] \in Texts
        <5>1. 1 - 1 = 0 /\ 1 \in 1..N
          BY <2>0
        <5> QED
          BY <1>1, <5>1
      <4>2. \A e \in Texts : <<>> \o e = e
        BY DEF Texts
      <4> QED
        BY <3>1, <4>1, <4>2
    <3>2. CASE i # 1
      <4>1. i - 1 \in 1..N
        BY <3>2
      <4> QED
        BY <1>1, <3>2, <4>1
    <3> QED
      BY <3>1, <3>2
  <2>2. f = Body(f)
    BY <2>1
  <2>3. F = Body(F)
    <3> HIDE DEF Body, f
    <3> QED
      BY <2>2
  <2>4. FlattenSeq(texts) = F[N]
    BY <1>3 DEF FlattenSeq
  <2> HIDE DEF F
  <2>5. \A i \in 1..N : F[i] = IF i = 1 THEN texts[i] ELSE F[i - 1] \o texts[i]
    BY <2>3
  <2> DEFINE S == {i \in Nat : i + 1 <= N => F[i + 1] = up[i + 1]}
  <2>6. 0 \in S
    <3>1. 1 \in 1..N /\ 0 + 1 = 1
      BY <2>0
    <3>2. F[1] = texts[1] /\ up[1] = texts[1]
      BY <2>1, <2>5, <3>1
    <3> QED
      BY <3>1, <3>2
  <2>7. ASSUME NEW i \in Nat, i \in S
        PROVE  i + 1 \in S
    <3> SUFFICES ASSUME (i + 1) + 1 <= N
                 PROVE  F[(i + 1) + 1] = up[(i + 1) + 1]
      OBVIOUS
    <3> DEFINE k == (i + 1) + 1
    <3>1. k \in 1..N /\ k # 1 /\ k - 1 = i + 1 /\ i + 1 <= N
      BY <1>1
    <3>2. F[i + 1] = up[i + 1]
      BY <2>7, <3>1
    <3> HIDE DEF k
    <3>3. F[k] = F[k - 1] \o texts[k] /\ up[k] = up[k - 1] \o texts[k]
      BY <1>1, <2>5, <3>1
    <3>4. F[k] = up[k]
      BY <3>1, <3>2, <3>3
    <3> QED
      BY <3>4 DEF k
  <2>8. Nat \subseteq S
    <3> HIDE DEF S
    <3> QED
      BY <2>6, <2>7, SetInduction
  <2>9. N - 1 \in S /\ (N - 1) + 1 = N
    BY <2>0, <2>8
  <2> QED
    BY <2>4, <2>9
<1> QED
  BY <1>2, <1>3

(* A text at an address is what is read from there. *)
LEMMA AtReads ==
  ASSUME NEW buf \in Texts, NEW a \in Nat, NEW e \in Texts, At(buf, a, e)
  PROVE  /\ Bytes(buf, a, Len(e)) = e /\ InBounds(buf, a, Len(e))
         /\ a \in Addresses(buf) /\ a + Len(e) \in Addresses(buf) /\ a + Len(e) # Over
<1> DEFINE k == Len(e)
           b == Bytes(buf, a, k)
<1>1. k \in Nat /\ Len(buf) \in Nat /\ a + k <= Len(buf) /\ \A i \in 1..k : buf[a + i] = e[i]
  BY DEF Texts, At
<1>2. /\ InBounds(buf, a, k) /\ a \in Addresses(buf) /\ a + k \in Addresses(buf)
      /\ a + k # Over
  BY <1>1 DEF InBounds, Addresses, Over
<1>3. Len(b) = k /\ \A i \in 1..k : b[i] = buf[a + i]
  <2> DEFINE m == a + 1
             n == a + k
  <2>1. m \in Int /\ n \in Int /\ \A i \in m..n : buf[i] \in Octet
    <3>1. \A i \in m..n : i \in 1..Len(buf)
      BY <1>1
    <3> QED
      BY <1>1, <3>1 DEF Texts
  <2>2. b = SubSeq(buf, m, n)
    BY DEF Bytes
  <2> HIDE DEF m, n, b
  <2>3. /\ Len(b) = IF m <= n THEN n - m + 1 ELSE 0
        /\ \A i \in 1..(n - m + 1) : b[i] = buf[m + i - 1]
    BY <2>1, <2>2, SubSeqProperties
  <2>4. n - m + 1 = k /\ \A i \in Int : m + i - 1 = a + i
    BY <1>1 DEF m, n
  <2>5. Len(b) = k
    BY <1>1, <2>1, <2>3, <2>4
  <2>6. \A i \in 1..k : b[i] = buf[a + i]
    <3> TAKE i \in 1..k
    <3>1. b[i] = buf[m + i - 1] /\ i \in Int
      BY <2>3, <2>4
    <3> QED
      BY <2>4, <3>1
  <2> QED
    BY <2>5, <2>6
<1>4. b \in Texts
  <2>1. \A i \in (a + 1)..(a + k) : buf[i] \in Octet
    <3>1. \A i \in (a + 1)..(a + k) : i \in 1..Len(buf)
      BY <1>1
    <3> QED
      BY <3>1 DEF Texts
  <2> DEFINE m == a + 1
             n == a + k
  <2>2. m \in Int /\ n \in Int
    BY <1>1
  <2> HIDE DEF m, n
  <2>3. SubSeq(buf, m, n) \in Seq(Octet)
    BY <2>1, <2>2, SubSeqProperties DEF m, n
  <2> QED
    BY <2>3 DEF Bytes, m, n, Texts
<1>5. b = e
  <2>1. b \in Seq(Octet) /\ e \in Seq(Octet) /\ Len(b) = Len(e)
    BY <1>3, <1>4 DEF Texts
  <2>2. \A i \in 1..Len(e) : b[i] = e[i]
    BY <1>1, <1>3
  <2> HIDE DEF b, k
  <2> QED
    BY <2>1, <2>2, SeqEqual
<1> QED
  BY <1>2, <1>5

(* Where a concatenation lies, its parts lie. *)
LEMMA AtParts ==
  ASSUME NEW buf \in Texts, NEW a \in Nat, NEW x \in Texts, NEW y \in Texts,
         At(buf, a, x \o y)
  PROVE  At(buf, a, x) /\ At(buf, a + Len(x), y)
<1>1. Len(x) \in Nat /\ Len(y) \in Nat /\ Len(buf) \in Nat
  BY DEF Texts
<1>2. /\ Len(x \o y) = Len(x) + Len(y)
      /\ \A i \in 1..Len(x) : (x \o y)[i] = x[i]
      /\ \A i \in 1..Len(y) : (x \o y)[Len(x) + i] = y[i]
  BY Concatenation
<1>3. /\ a + (Len(x) + Len(y)) <= Len(buf)
      /\ \A i \in 1..(Len(x) + Len(y)) : buf[a + i] = (x \o y)[i]
  BY <1>2 DEF At
<1>4. At(buf, a, x)
  BY <1>1, <1>2, <1>3 DEF At
<1>5. At(buf, a + Len(x), y)
  <2>1. \A i \in 1..Len(y) : buf[a + Len(x) + i] = y[i]
    <3> TAKE i \in 1..Len(y)
    <3>1. Len(x) + i \in 1..(Len(x) + Len(y)) /\ a + (Len(x) + i) = a + Len(x) + i
      BY <1>1
    <3>2. buf[a + (Len(x) + i)] = (x \o y)[Len(x) + i]
      BY <1>3, <3>1
    <3> QED
      BY <1>2, <3>1, <3>2
  <2>2. a + Len(x) + Len(y) <= Len(buf)
    BY <1>1, <1>3
  <2> QED
    BY <2>1, <2>2 DEF At
<1> QED
  BY <1>4, <1>5

(* Where each of some texts lies whose concatenation lies at a. *)
LEMMA AtEach ==
  ASSUME NEW texts \in Seq(Texts), NEW up, Partials(texts, up),
         NEW buf \in Texts, NEW a \in Nat, At(buf, a, up[Len(texts)])
  PROVE  \A i \in 1..Len(texts) :
           /\ At(buf, a + Len(up[i - 1]), texts[i])
           /\ Len(up[i - 1]) \in Nat /\ Len(up[i]) = Len(up[i - 1]) + Len(texts[i])
<1> DEFINE N == Len(texts)
           S == {m \in Nat : m <= N => At(buf, a, up[N - m])}
<1>1. /\ N \in Nat /\ \A i \in 0..N : up[i] \in Texts
      /\ \A i \in 1..N : up[i] = up[i - 1] \o texts[i] /\ texts[i] \in Texts
  BY DEF Partials
<1> HIDE DEF N
<1>2. ASSUME NEW i \in 1..N
      PROVE  up[i - 1] \in Texts /\ texts[i] \in Texts /\ up[i] = up[i - 1] \o texts[i]
  <2>1. i - 1 \in 0..N
    BY <1>1
  <2> QED
    BY <1>1, <2>1
<1>3. 0 \in S
  <2>1. N - 0 = N
    BY <1>1
  <2> QED
    BY <2>1 DEF N
<1>4. ASSUME NEW m \in Nat, m \in S
      PROVE  m + 1 \in S
  <2> SUFFICES ASSUME m + 1 <= N
               PROVE  At(buf, a, up[N - (m + 1)])
    OBVIOUS
  <2>1. N - m \in 1..N /\ (N - m) - 1 = N - (m + 1) /\ At(buf, a, up[N - m])
    BY <1>1, <1>4
  <2>2. /\ up[N - (m + 1)] \in Texts /\ texts[N - m] \in Texts
        /\ up[N - m] = up[N - (m + 1)] \o texts[N - m]
    BY <1>2, <2>1
  <2> QED
    BY <2>1, <2>2, AtParts
<1>5. Nat \subseteq S
  <2> HIDE DEF S
  <2> QED
    BY <1>3, <1>4, SetInduction
<1>6. \A i \in 0..N : At(buf, a, up[i])
  <2> TAKE i \in 0..N
  <2>1. N - i \in S /\ N - (N - i) = i /\ N - i <= N
    BY <1>1, <1>5
  <2> QED
    BY <2>1
<1>7. ASSUME NEW i \in 1..N
      PROVE  /\ At(buf, a + Len(up[i - 1]), texts[i])
             /\ Len(up[i - 1]) \in Nat /\ Len(up[i]) = Len(up[i - 1]) + Len(texts[i])
  <2> DEFINE x == up[i - 1]
             y == texts[i]
  <2>1. i \in 0..N
    BY <1>1
  <2>2. x \in Texts /\ y \in Texts /\ up[i] = x \o y /\ At(buf, a, up[i])
    BY <1>2, <1>6, <2>1
  <2> HIDE DEF x, y
  <2>3. At(buf, a + Len(x), y) /\ Len(x \o y) = Len(x) + Len(y)
    BY <2>2, AtParts, Concatenation
  <2>4. Len(x) \in Nat
    BY <2>2 DEF Texts
  <2> QED
    BY <2>2, <2>3, <2>4 DEF x, y
<1> QED
  BY <1>7 DEF N

(* Texts of at least an octet each are together at least as long as there are many. *)
LEMMA PartialsGrow ==
  ASSUME NEW texts \in Seq(Texts), NEW up, Partials(texts, up),
         \A i \in 1..Len(texts) : Len(texts[i]) >= 1
  PROVE  Len(up[Len(texts)]) >= Len(texts)
<1> DEFINE N == Len(texts)
           S == {m \in Nat : m <= N => Len(up[m]) >= m}
<1>1. /\ N \in Nat /\ up[0] = <<>> /\ \A i \in 0..N : up[i] \in Texts
      /\ \A i \in 1..N : up[i] = up[i - 1] \o texts[i] /\ texts[i] \in Texts
  BY DEF Partials
<1>2. \A i \in 1..N : Len(texts[i]) >= 1
  OBVIOUS
<1> HIDE DEF N
<1>3. 0 \in S
  BY <1>1
<1>4. ASSUME NEW m \in Nat, m \in S
      PROVE  m + 1 \in S
  <2> SUFFICES ASSUME m + 1 <= N
               PROVE  Len(up[m + 1]) >= m + 1
    OBVIOUS
  <2>1. m + 1 \in 1..N /\ (m + 1) - 1 = m /\ m \in 0..N
    BY <1>1
  <2>2. up[m + 1] = up[m] \o texts[m + 1] /\ up[m] \in Texts /\ texts[m + 1] \in Texts
    <3>1. up[m + 1] = up[(m + 1) - 1] \o texts[m + 1]
      BY <1>1, <2>1
    <3> QED
      BY <1>1, <2>1, <3>1
  <2> DEFINE k == Len(up[m])
             l == Len(texts[m + 1])
  <2>3. Len(up[m + 1]) = k + l /\ k \in Nat /\ l \in Nat
    BY <2>2, Concatenation DEF Texts
  <2>4. k >= m /\ l >= 1
    BY <1>2, <1>4, <2>1
  <2> HIDE DEF k, l
  <2>5. k + l >= m + 1
    BY <2>3, <2>4
  <2> QED
    BY <2>3, <2>5
<1>5. Nat \subseteq S
  <2> HIDE DEF S
  <2> QED
    BY <1>3, <1>4, SetInduction
<1> QED
  BY <1>1, <1>5 DEF N

-----------------------------------------------------------------------------
(* Numbers                                                                 *)

(* The octet of n at a place. *)
Digit(n, m) == (n \div m) % 256

SignOf(m) == IF m >= 128 THEN m - 256 ELSE m

(* An octet is a number, with and without a sign. *)
LEMMA OctetIsNumber ==
  \A x \in Octet : x \in Int /\ SignOf(x) \in Int
BY SMT DEF Octet, SignOf

(* The four octets of a number. *)
LEMMA DigitIsOctet ==
  ASSUME NEW n \in Int
  PROVE  /\ Digit(n, 1) \in Octet /\ Digit(n, 256) \in Octet
         /\ Digit(n, 65536) \in Octet /\ Digit(n, 16777216) \in Octet
BY SMT DEF Digit, Octet

(* k octets. *)
LEMMA OctetsType ==
  ASSUME NEW n \in Int, NEW k \in Nat
  PROVE  Octets(n, k) \in Texts /\ Len(Octets(n, k)) = k
<1>1. \A i \in 1..4 : Place[i] \in {1, 256, 65536, 16777216}
  BY SMT DEF Place
<1>2. \A i \in 1..k : i <= 4 => Digit(n, Place[i]) \in Octet
  BY <1>1, DigitIsOctet, SMT
<1>3. Octets(n, k) = [i \in 1..k |-> IF i <= 4 THEN Digit(n, Place[i]) ELSE IF n < 0 THEN 255 ELSE 0]
  BY SMT DEF Octets, Digit
<1>4. 255 \in Octet /\ 0 \in Octet
  BY SMT DEF Octet
<1>5. Octets(n, k) \in [1..k -> Octet]
  BY <1>2, <1>3, <1>4, SMT
<1> QED
  BY <1>5, SMT DEF Texts

(* Which octets of the number they are. *)
LEMMA OctetsOf ==
  ASSUME NEW n \in Int, NEW k \in {1, 2, 4}
  PROVE  /\ Octets(n, k)[1] = Digit(n, 1)
         /\ k > 1 => Octets(n, k)[2] = Digit(n, 256)
         /\ k = 4 => Octets(n, k)[3] = Digit(n, 65536) /\ Octets(n, k)[4] = Digit(n, 16777216)
<1>1. Place[1] = 1 /\ Place[2] = 256 /\ Place[3] = 65536 /\ Place[4] = 16777216
  BY SMT DEF Place
<1>2. Octets(n, k) = [i \in 1..k |-> IF i <= 4 THEN Digit(n, Place[i]) ELSE IF n < 0 THEN 255 ELSE 0]
  BY SMT DEF Octets, Digit
<1>3. \A i \in 1..k : Octets(n, k)[i] = Digit(n, Place[i])
  BY <1>2, SMT
<1> QED
  BY <1>1, <1>3, SMT

(* Division by the place of an octet is division by 256, time and again. *)
LEMMA Quotients ==
  ASSUME NEW n \in Int
  PROVE  /\ n \div 1 = n
         /\ (n \div 256) \div 256 = n \div 65536
         /\ (n \div 65536) \div 256 = n \div 16777216
         /\ n \div 256 \in Int /\ n \div 65536 \in Int /\ n \div 16777216 \in Int
<1>1. n \div 1 = n
  BY SMT
<1>2. (n \div 256) \div 256 = n \div 65536
  BY SMT
<1>3. (n \div 65536) \div 256 = n \div 16777216
  BY SMT
<1>4. n \div 256 \in Int
  BY SMT
<1>5. n \div 65536 \in Int
  BY SMT
<1>6. n \div 16777216 \in Int
  BY SMT
<1> QED
  BY <1>1, <1>2, <1>3, <1>4, <1>5, <1>6, SMT

(* A number divided by the places of a second, third and fourth octet. *)
LEMMA Division ==
  ASSUME NEW n \in Int
  PROVE  /\ Digit(n, 1) \in Int /\ Digit(n, 256) \in Int /\ Digit(n, 65536) \in Int
         /\ n = 256 * (n \div 256) + Digit(n, 1)
         /\ n = 65536 * (n \div 65536) + 256 * Digit(n, 256) + Digit(n, 1)
         /\ n = 16777216 * (n \div 16777216) + 65536 * Digit(n, 65536)
                  + 256 * Digit(n, 256) + Digit(n, 1)
<1>1. \A m \in Int : m = 256 * (m \div 256) + (m % 256) /\ m % 256 \in Int
  BY SMT
<1> DEFINE a == n \div 256
           b == n \div 65536
           c == n \div 16777216
<1>2. /\ n \div 1 = n /\ a \div 256 = b /\ b \div 256 = c
      /\ a \in Int /\ b \in Int /\ c \in Int
  BY Quotients, SMT
<1>3. Digit(n, 1) = n % 256 /\ Digit(n, 256) = a % 256 /\ Digit(n, 65536) = b % 256
  BY <1>2, SMT DEF Digit
<1>4. a = n \div 256
  BY SMT
<1> HIDE DEF a, b, c
<1>5. /\ n = 256 * a + Digit(n, 1) /\ Digit(n, 1) \in Int
      /\ a = 256 * b + Digit(n, 256) /\ Digit(n, 256) \in Int
      /\ b = 256 * c + Digit(n, 65536) /\ Digit(n, 65536) \in Int
  BY <1>1, <1>2, <1>3, <1>4, SMT
<1>6. /\ n = 65536 * b + 256 * Digit(n, 256) + Digit(n, 1)
      /\ n = 16777216 * c + 65536 * Digit(n, 65536) + 256 * Digit(n, 256) + Digit(n, 1)
  BY <1>2, <1>5, SMT
<1> QED
  BY <1>5, <1>6, SMT DEF a, b, c

(* The last octet of a number that fits is the quotient. *)
LEMMA LastOctet ==
  ASSUME NEW n \in Int, NEW m \in {1, 256, 16777216}
  PROVE  /\ n \div m \in Int
         /\ (n \div m) \in 0..255 => Digit(n, m) = n \div m
         /\ (n \div m) \in -128..127 => SignOf(Digit(n, m)) = n \div m
<1>2. n \div m \in Int
  BY SMT
<1> DEFINE q == n \div m
<1> HIDE DEF q
<1>3. q \in Int /\ Digit(n, m) = q % 256
  BY <1>2, SMT DEF q, Digit
<1>4. /\ q \in 0..255 => Digit(n, m) = q
      /\ q \in -128..127 => SignOf(Digit(n, m)) = q
  <2>1. CASE q \in 0..255
    <3>1. q % 256 = q
      BY <1>3, <2>1, SMT
    <3>2. q \in -128..127 => SignOf(q) = q
      BY <1>3, <2>1, SMT DEF SignOf
    <3> QED
      BY <1>3, <3>1, <3>2, SMT
  <2>2. CASE q \in -128..-1
    <3>1. q % 256 = q + 256
      BY <1>3, <2>2, SMT
    <3>2. SignOf(q + 256) = q
      BY <1>3, <2>2, SMT DEF SignOf
    <3>3. q \notin 0..255
      BY <2>2, SMTT(30)
    <3> QED
      BY <1>3, <3>1, <3>2, <3>3, SMT
  <2>3. CASE q \notin 0..255 /\ q \notin -128..-1
    BY <1>3, <2>3, SMT
  <2> QED
    BY <2>1, <2>2, <2>3, SMT
<1> QED
  BY <1>2, <1>4, SMT DEF q

(* A sum of octets, without their definition. *)
LEMMA SumOf ==
  ASSUME NEW b \in Texts
  PROVE  /\ Len(b) = 1 => Unsigned(b) = b[1]
         /\ Len(b) = 2 => Unsigned(b) = b[1] + b[2] * 256
         /\ Len(b) = 4 => Unsigned(b) = b[1] + b[2] * 256 + b[3] * 65536 + b[4] * 16777216
<1>1. Place[1] = 1 /\ Place[2] = 256 /\ Place[3] = 65536 /\ Place[4] = 16777216
  BY SMT DEF Place
<1>2. \A i \in 1..Len(b) : b[i] \in Int
  <2>1. \A i \in 1..Len(b) : b[i] \in Octet
    BY SMT DEF Texts
  <2> QED
    BY <2>1, OctetIsNumber, SMT
<1>3. CASE Len(b) = 1
  <2>1. b[1] \in Int
    BY <1>2, <1>3, SMT
  <2> QED
    BY <1>1, <1>3, <2>1, SMT DEF Unsigned, Low
<1>4. CASE Len(b) = 2
  <2>1. b[1] \in Int /\ b[2] \in Int
    BY <1>2, <1>4, SMT
  <2> QED
    BY <1>1, <1>4, <2>1, SMT DEF Unsigned, Low
<1>5. CASE Len(b) = 4
  <2>1. b[1] \in Int /\ b[2] \in Int /\ b[3] \in Int /\ b[4] \in Int
    BY <1>2, <1>5, SMT
  <2> QED
    BY <1>1, <1>5, <2>1, SMT DEF Unsigned, Low
<1> QED
  BY <1>3, <1>4, <1>5, SMT

(* The signed value of 1, 2 and 4 octets, as a sum. *)
LEMMA SignedSumOf ==
  ASSUME NEW b \in Texts
  PROVE  /\ Len(b) = 1 => Signed(b) = SignOf(b[1])
         /\ Len(b) = 2 => Signed(b) = b[1] + SignOf(b[2]) * 256
         /\ Len(b) = 4 => Signed(b) = b[1] + b[2] * 256 + b[3] * 65536 + SignOf(b[4]) * 16777216
<1>1. Place[1] = 1 /\ Place[2] = 256 /\ Place[3] = 65536 /\ Place[4] = 16777216
  BY SMT DEF Place
<1>2. \A i \in 1..Len(b) : b[i] \in Int /\ SignOf(b[i]) \in Int
  <2>1. \A i \in 1..Len(b) : b[i] \in Octet
    BY SMT DEF Texts
  <2> QED
    BY <2>1, OctetIsNumber, SMT
<1>3. Signed(b) = SignOf(b[Len(b)]) * Place[Len(b)] + Low(b, Len(b) - 1)
  BY SMT DEF Signed, SignOf
<1>4. CASE Len(b) = 1
  <2>1. b[1] \in Int /\ SignOf(b[1]) \in Int
    BY <1>2, <1>4, SMT
  <2>2. Low(b, 0) = 0
    BY SMT DEF Low
  <2> QED
    BY <1>1, <1>3, <1>4, <2>1, <2>2, SMT
<1>5. CASE Len(b) = 2
  <2>1. b[1] \in Int /\ SignOf(b[2]) \in Int
    BY <1>2, <1>5, SMT
  <2>2. Low(b, 1) = b[1]
    BY <1>1, <2>1, SMT DEF Low
  <2> QED
    BY <1>1, <1>3, <1>5, <2>1, <2>2, SMT
<1>6. CASE Len(b) = 4
  <2>1. b[1] \in Int /\ b[2] \in Int /\ b[3] \in Int /\ SignOf(b[4]) \in Int
    BY <1>2, <1>6, SMT
  <2>2. Low(b, 3) = b[1] + b[2] * 256 + b[3] * 65536
    BY <1>1, <2>1, SMT DEF Low
  <2> QED
    BY <1>1, <1>3, <1>6, <2>1, <2>2, SMT
<1> QED
  BY <1>4, <1>5, <1>6, SMT

(* Unsigned numbers are read back (_ser_uint8, ..., _deser_uint32). *)
LEMMA UnsignedOctets ==
  ASSUME NEW k \in {1, 2, 4}, NEW n \in Int, 0 <= n, n \div Place[k] < 256
  PROVE  Unsigned(Octets(n, k)) = n
<1> DEFINE b == Octets(n, k)
<1>1. Place[1] = 1 /\ Place[2] = 256 /\ Place[4] = 16777216
  BY SMT DEF Place
<1>2. b \in Texts /\ Len(b) = k
  BY OctetsType, SMT
<1>3. /\ b[1] = Digit(n, 1)
      /\ k > 1 => b[2] = Digit(n, 256)
      /\ k = 4 => b[3] = Digit(n, 65536) /\ b[4] = Digit(n, 16777216)
  BY OctetsOf, SMT
<1> HIDE DEF b
<1>4. \A m \in {1, 256, 16777216} : n \div m < 256 => Digit(n, m) = n \div m
  <2> TAKE m \in {1, 256, 16777216}
  <2> HAVE n \div m < 256
  <2>1. n \div m \in 0..255
    BY LastOctet, SMT
  <2> QED
    BY <2>1, LastOctet, SMT
<1>5. CASE k = 1
  <2>1. n \div 1 = n
    BY SMT
  <2>2. Digit(n, 1) = n
    BY <1>1, <1>4, <1>5, <2>1, SMT
  <2> QED
    BY <1>2, <1>3, <1>5, <2>2, SumOf, SMT DEF b
<1>6. CASE k = 2
  <2>1. Digit(n, 256) = n \div 256
    BY <1>1, <1>4, <1>6, SMT
  <2>2. Unsigned(b) = Digit(n, 1) + Digit(n, 256) * 256
    BY <1>2, <1>3, <1>6, SumOf, SMT
  <2> DEFINE q == n \div 256
  <2>5. n = 256 * q + Digit(n, 1) /\ Digit(n, 1) \in Int /\ Digit(n, 256) \in Int
    BY Division, SMT
  <2>6. Digit(n, 256) = q
    BY <2>1
  <2> HIDE DEF q
  <2>3. n = 256 * Digit(n, 256) + Digit(n, 1) /\ Digit(n, 1) \in Int /\ Digit(n, 256) \in Int
    BY <2>5, <2>6
  <2>4. Unsigned(b) = n
    BY <2>2, <2>3, SMT
  <2> QED
    BY <2>4, SMT DEF b
<1>7. CASE k = 4
  <2>1. Digit(n, 16777216) = n \div 16777216 /\ n \div 16777216 \in Int
    BY <1>1, <1>4, <1>7, LastOctet, SMT
  <2>2. Unsigned(b) = Digit(n, 1) + Digit(n, 256) * 256 + Digit(n, 65536) * 65536
                        + Digit(n, 16777216) * 16777216
    BY <1>2, <1>3, <1>7, SumOf, SMT
  <2>3. /\ n = 16777216 * Digit(n, 16777216) + 65536 * Digit(n, 65536) + 256 * Digit(n, 256) + Digit(n, 1)
        /\ Digit(n, 1) \in Int /\ Digit(n, 256) \in Int /\ Digit(n, 65536) \in Int
    <3> DEFINE q == n \div 16777216
    <3>1. /\ n = 16777216 * q + 65536 * Digit(n, 65536) + 256 * Digit(n, 256) + Digit(n, 1)
          /\ Digit(n, 1) \in Int /\ Digit(n, 256) \in Int /\ Digit(n, 65536) \in Int
      BY Division, SMT
    <3>2. Digit(n, 16777216) = q
      BY <2>1, SMT
    <3> HIDE DEF q
    <3> QED
      BY <3>1, <3>2, SMT
  <2>4. Unsigned(b) = n
    BY <2>1, <2>2, <2>3, SMT
  <2> QED
    BY <2>4, SMT DEF b
<1> QED
  BY <1>5, <1>6, <1>7, SMT

(* Signed numbers are read back (_ser_int8, ..., _deser_int32). *)
LEMMA SignedOctets ==
  ASSUME NEW k \in {1, 2, 4}, NEW n \in Int, n \div Place[k] \in -128..127
  PROVE  Signed(Octets(n, k)) = n
<1> DEFINE b == Octets(n, k)
<1>1. Place[1] = 1 /\ Place[2] = 256 /\ Place[4] = 16777216
  BY SMT DEF Place
<1>2. b \in Texts /\ Len(b) = k
  BY OctetsType, SMT
<1>3. /\ b[1] = Digit(n, 1)
      /\ k > 1 => b[2] = Digit(n, 256)
      /\ k = 4 => b[3] = Digit(n, 65536) /\ b[4] = Digit(n, 16777216)
  BY OctetsOf, SMT
<1> HIDE DEF b
<1>4. \A m \in {1, 256, 16777216} : n \div m \in -128..127 => SignOf(Digit(n, m)) = n \div m
  BY LastOctet, SMTT(30)
<1>5. CASE k = 1
  <2>1. n \div 1 = n
    BY SMT
  <2>2. SignOf(Digit(n, 1)) = n
    BY <1>1, <1>4, <1>5, <2>1, SMT
  <2> QED
    BY <1>2, <1>3, <1>5, <2>2, SignedSumOf, SMT DEF b
<1>6. CASE k = 2
  <2> DEFINE q == SignOf(Digit(n, 256))
  <2>1. q = n \div 256
    BY <1>1, <1>4, <1>6, SMT
  <2>2. Signed(b) = Digit(n, 1) + q * 256
    BY <1>2, <1>3, <1>6, SignedSumOf, SMT
  <2> HIDE DEF q
  <2>3. n = 256 * q + Digit(n, 1) /\ Digit(n, 1) \in Int /\ q \in Int
    BY <2>1, Division, LastOctet, SMT
  <2>4. Signed(b) = n
    BY <2>2, <2>3, SMT
  <2> QED
    BY <2>4, SMT DEF b
<1>7. CASE k = 4
  <2> DEFINE q == SignOf(Digit(n, 16777216))
  <2>1. q = n \div 16777216
    BY <1>1, <1>4, <1>7, SMT
  <2>2. Signed(b) = Digit(n, 1) + Digit(n, 256) * 256 + Digit(n, 65536) * 65536 + q * 16777216
    BY <1>2, <1>3, <1>7, SignedSumOf, SMT
  <2> HIDE DEF q
  <2>3. /\ n = 16777216 * q + 65536 * Digit(n, 65536) + 256 * Digit(n, 256) + Digit(n, 1)
           /\ q \in Int
        /\ Digit(n, 1) \in Int /\ Digit(n, 256) \in Int /\ Digit(n, 65536) \in Int
    BY <2>1, Division, LastOctet, SMT
  <2>4. Signed(b) = n
    BY <2>2, <2>3, SMT
  <2> QED
    BY <2>4, SMT DEF b
<1> QED
  BY <1>5, <1>6, <1>7, SMT

-----------------------------------------------------------------------------
(* Plain items                                                             *)

Plain == {type \in DOMAIN PrimType : PrimType[type] \in Serializable}

(* What the server sends for v, from the type the serializer knows it by. *)
ScalarOf(type, v) ==
  CASE type \in TextTypes -> Octets(Len(v.str), 4) \o v.str
    [] type = "Bool8"     -> IF v = Bool(TRUE) THEN <<1>> ELSE <<0>>
    [] type = "Float"     -> Reals32[v.num]
    [] type = "Double"    -> Reals64[v.num]
    [] OTHER              -> Octets(v.num, DataSize[type])

Numbers == {"SInt8", "SInt16", "SInt32", "UInt8", "UInt16", "UInt32"}

(* The types with a serializer, spelled out. *)
LEMMA SerializableIs ==
  /\ Serializable = Numbers \cup {"StringL4", "ByteString", "Bool8", "Float", "Double"}
  /\ TextTypes = {"StringL4", "ByteString"}
  /\ SignedTypes = {"SInt8", "SInt16", "SInt32"}
  /\ UnsignedTypes = {"UInt8", "UInt16", "UInt32"}
BY DEF Serializable, TextTypes, SignedTypes, UnsignedTypes, Numbers

(* The types of fields they serve. *)
LEMMA PlainTypes ==
  Plain = {"Boolean", "SByte", "Byte", "Int16", "UInt16", "Int32", "UInt32",
           "Float", "Double", "String", "ByteString", "BYTE", "WORD", "DWORD", "STRING"}
<1>1. DOMAIN PrimType =
        {"Boolean", "SByte", "Byte", "Int16", "UInt16", "Int32", "UInt32", "Int64", "UInt64",
         "Float", "Double", "String", "DateTime", "Guid", "ByteString", "BYTE", "WORD",
         "DWORD", "LWORD", "STRING"}
  BY DEF PrimType
<1>2. /\ PrimType["Int64"] \notin Serializable /\ PrimType["UInt64"] \notin Serializable
      /\ PrimType["DateTime"] \notin Serializable /\ PrimType["Guid"] \notin Serializable
      /\ PrimType["LWORD"] \notin Serializable
  BY SerializableIs DEF PrimType, Numbers
<1>3. \A type \in {"Boolean", "SByte", "Byte", "Int16", "UInt16", "Int32", "UInt32",
           "Float", "Double", "String", "ByteString", "BYTE", "WORD", "DWORD", "STRING"} :
        PrimType[type] \in Serializable
  BY SerializableIs DEF PrimType, Numbers
<1> QED
  BY <1>1, <1>2, <1>3 DEF Plain

(* Server and serializer agree on the size of a number. *)
LEMMA Widths ==
  ASSUME NEW type \in Plain
  PROVE  /\ type = "Float" <=> PrimType[type] = "Float"
         /\ type = "Double" <=> PrimType[type] = "Double"
         /\ PrimType[type] \in Numbers => Width[type] = DataSize[PrimType[type]]
<1>1. type \in {"Boolean", "SByte", "Byte", "Int16", "UInt16", "Int32", "UInt32",
           "Float", "Double", "String", "ByteString", "BYTE", "WORD", "DWORD", "STRING"}
  BY PlainTypes
<1>2. CASE type \in {"Boolean", "Float", "Double", "String", "ByteString", "STRING"}
  BY <1>2 DEF PrimType, Numbers
<1>3. CASE type \in {"SByte", "Byte", "BYTE"}
  BY <1>3 DEF PrimType, Width, DataSize, Numbers
<1>4. CASE type \in {"Int16", "UInt16", "WORD"}
  BY <1>4 DEF PrimType, Width, DataSize, Numbers
<1>5. CASE type \in {"Int32", "UInt32", "DWORD"}
  BY <1>5 DEF PrimType, Width, DataSize, Numbers
<1> QED
  BY <1>1, <1>2, <1>3, <1>4, <1>5

(* A Lua value has one type. *)
LEMMA Kinds ==
  /\ \A x : Is("str", Str(x)) /\ ~Is("bool", Str(x)) /\ ~Is("num", Str(x)) /\ ~Is("arr", Str(x))
  /\ \A x : Is("bool", Bool(x)) /\ ~Is("str", Bool(x)) /\ ~Is("num", Bool(x)) /\ ~Is("arr", Bool(x))
  /\ \A x : Is("num", Num(x)) /\ ~Is("str", Num(x)) /\ ~Is("bool", Num(x)) /\ ~Is("arr", Num(x))
  /\ \A x : ~Is("str", Arr(x)) /\ ~Is("bool", Arr(x)) /\ ~Is("num", Arr(x)) /\ Is("arr", Arr(x))
  /\ \A x : ~Is("str", Tab(x)) /\ ~Is("bool", Tab(x)) /\ ~Is("num", Tab(x)) /\ ~Is("arr", Tab(x)) /\ Is("tab", Tab(x))
  /\ ~Is("str", Nil) /\ ~Is("bool", Nil) /\ ~Is("num", Nil) /\ ~Is("arr", Nil)
  /\ ~Is("tab", Nil) /\ Is("nil", Nil)
BY DEF Is, Str, Bool, Num, Arr, Tab, Nil

(* The contents of a Lua value. *)
LEMMA Contents ==
  /\ \A x, y : Bool(x) = Bool(y) => x = y
  /\ \A x : Str(x).str = x /\ Bool(x).bool = x /\ Num(x).num = x /\ Tab(x).tab = x
  /\ \A x : Arr(x).arr = x /\ Arr(x).next = x
BY DEF Str, Bool, Num, Arr, Tab

(* The server's encoding of a value, by the type the serializer knows it under. *)
LEMMA RefScalarIs ==
  ASSUME NEW type \in Plain, NEW v, HasType(PrimType[type], v)
  PROVE  RefScalar(type, v) = ScalarOf(PrimType[type], v)
<1> DEFINE P == PrimType[type]
<1>1. P \in Serializable
  BY DEF Plain
<1>2. /\ type = "Float" <=> P = "Float"
      /\ type = "Double" <=> P = "Double"
      /\ P \in Numbers => Width[type] = DataSize[P]
  BY Widths
<1>3. HasType(P, v)
  OBVIOUS
<1> HIDE DEF P
<1>4. CASE P \in TextTypes
  <2>1. v = Str(v.str)
    BY <1>3, <1>4, SerializableIs DEF HasType
  <2>2. Is("str", v)
    BY <2>1, Kinds
  <2>3. RefScalar(type, v) = Octets(Len(v.str), 4) \o v.str
    <3>1. ~Is("bool", v) /\ type # "Float" /\ type # "Double"
      BY <1>2, <1>4, <2>1, Kinds, SerializableIs
    <3> QED
      BY <2>2, <3>1 DEF RefScalar
  <2>4. ScalarOf(P, v) = Octets(Len(v.str), 4) \o v.str
    BY <1>4, SerializableIs DEF ScalarOf
  <2> QED
    BY <2>3, <2>4 DEF P
<1>5. CASE P = "Bool8"
  <2>1. v \in {Bool(TRUE), Bool(FALSE)}
    BY <1>3, <1>5 DEF HasType
  <2>2. ~Is("str", v) /\ Is("bool", v)
    BY <2>1, Kinds
  <2>3. RefScalar(type, v) = IF v.bool THEN <<1>> ELSE <<0>>
    <3>1. type # "Float" /\ type # "Double"
      BY <1>2, <1>5
    <3> QED
      BY <2>2, <3>1 DEF RefScalar
  <2>4. v = Bool(TRUE) <=> v.bool
    BY <2>1, Contents, Zenon
  <2>5. ScalarOf(P, v) = IF v = Bool(TRUE) THEN <<1>> ELSE <<0>>
    BY <1>5, SerializableIs DEF ScalarOf
  <2> QED
    <3>1. RefScalar(type, v) = ScalarOf(P, v)
      <4>1. CASE v.bool
        BY <2>3, <2>4, <2>5, <4>1, Zenon
      <4>2. CASE ~v.bool
        BY <2>3, <2>4, <2>5, <4>2, Zenon
      <4> QED
        BY <4>1, <4>2
    <3> QED
      BY <3>1 DEF P
<1>6. CASE P \in {"Float", "Double"} \cup Numbers
  <2>1. v = Num(v.num)
    BY <1>3, <1>6, SerializableIs DEF HasType, Numbers
  <2>2. ~Is("str", v) /\ ~Is("bool", v)
    BY <2>1, Kinds
  <2>3. RefScalar(type, v) = CASE P = "Float" -> Reals32[v.num]
                               [] P = "Double" -> Reals64[v.num]
                               [] OTHER -> Octets(v.num, Width[type])
    BY <1>2, <2>2 DEF RefScalar
  <2>4. ScalarOf(P, v) = CASE P = "Float" -> Reals32[v.num]
                               [] P = "Double" -> Reals64[v.num]
                               [] OTHER -> Octets(v.num, DataSize[P])
    BY <1>6, SerializableIs DEF ScalarOf, Numbers
  <2>5. P \notin {"Float", "Double"} => Width[type] = DataSize[P]
    BY <1>2, <1>6
  <2> QED
    BY <2>3, <2>4, <2>5 DEF P
<1> QED
  BY <1>1, <1>4, <1>5, <1>6, SerializableIs

(* Floating-point patterns are read back. *)
LEMMA Reals ==
  ASSUME NEW n \in DOMAIN Reals32
  PROVE  /\ Reals32[n] \in Texts /\ Len(Reals32[n]) = 4
         /\ Reals64[n] \in Texts /\ Len(Reals64[n]) = 8
         /\ RealOf(Reals32, Reals32[n]) = n /\ RealOf(Reals64, Reals64[n]) = n
<1>1. DOMAIN Reals32 = {-2, 0, 1} /\ DOMAIN Reals64 = {-2, 0, 1}
  BY DEF Reals32, Reals64
<1>2. /\ Reals32[-2] = <<0, 0, 0, 192>> /\ Reals32[0] = <<0, 0, 0, 0>>
      /\ Reals32[1] = <<0, 0, 128, 63>>
  BY DEF Reals32
<1>3. \A m \in {-2, 0, 1} : Reals32[m] \in Texts /\ Len(Reals32[m]) = 4
  <2>1. 0 \in Octet /\ 192 \in Octet /\ 128 \in Octet /\ 63 \in Octet
    BY DEF Octet
  <2>2. Reals32[-2] \in Texts /\ Len(Reals32[-2]) = 4
    BY <1>2, <2>1 DEF Texts
  <2>3. Reals32[0] \in Texts /\ Len(Reals32[0]) = 4
    BY <1>2, <2>1 DEF Texts
  <2>4. Reals32[1] \in Texts /\ Len(Reals32[1]) = 4
    BY <1>2, <2>1 DEF Texts
  <2> QED
    BY <2>2, <2>3, <2>4
<1>4. \A m, k \in {-2, 0, 1} : Reals32[m] = Reals32[k] => m = k
  <2>1. Reals32[-2][4] = 192 /\ Reals32[0][4] = 0 /\ Reals32[1][4] = 63
    BY <1>2
  <2> QED
    BY <2>1
<1>5. <<0, 0, 0, 0>> \in Texts
  BY DEF Texts, Octet
<1>6. /\ Reals64[-2] = <<0, 0, 0, 0>> \o Reals32[-2] /\ Reals64[0] = <<0, 0, 0, 0>> \o Reals32[0]
      /\ Reals64[1] = <<0, 0, 0, 0, 0, 0, 240, 63>>
  <2>1. -2 # 1 /\ 0 # 1
    OBVIOUS
  <2>2. \A m \in {-2, 0, 1} : Reals64[m] = IF m = 1 THEN <<0, 0, 0, 0, 0, 0, 240, 63>>
                                         ELSE <<0, 0, 0, 0>> \o Reals32[m]
    BY DEF Reals64
  <2> QED
    BY <2>1, <2>2
<1>7. \A m \in {-2, 0} : /\ Reals64[m] \in Texts /\ Len(Reals64[m]) = 8
                          /\ Reals64[m][8] = Reals32[m][4]
  <2> TAKE m \in {-2, 0}
  <2> DEFINE x == <<0, 0, 0, 0>>
             y == Reals32[m]
  <2>1. Reals64[m] = x \o y /\ x \in Texts /\ y \in Texts /\ Len(x) = 4 /\ Len(y) = 4
    BY <1>3, <1>5, <1>6
  <2> HIDE DEF x, y
  <2>2. /\ x \o y \in Texts /\ Len(x \o y) = Len(x) + Len(y)
        /\ \A i \in 1..Len(y) : (x \o y)[Len(x) + i] = y[i]
    BY <2>1, Concatenation
  <2>3. Len(x) + 4 = 8 /\ 4 \in 1..Len(y) /\ Len(x) + Len(y) = 8
    BY <2>1
  <2>4. (x \o y)[Len(x) + 4] = y[4]
    BY <2>2, <2>3
  <2>5. x \o y \in Texts /\ Len(x \o y) = 8 /\ (x \o y)[8] = y[4]
    BY <2>2, <2>3, <2>4
  <2> QED
    BY <2>1, <2>5 DEF y
<1>8. Reals64[1] \in Texts /\ Len(Reals64[1]) = 8 /\ Reals64[1][8] = 63
  BY <1>6 DEF Texts, Octet
<1>9. \A m, k \in {-2, 0, 1} : Reals64[m] = Reals64[k] => m = k
  <2>1. Reals64[-2][8] = 192 /\ Reals64[0][8] = 0 /\ Reals64[1][8] = 63
    BY <1>2, <1>7, <1>8
  <2> QED
    BY <2>1
<1>10. RealOf(Reals32, Reals32[n]) = n
  BY <1>1, <1>4 DEF RealOf
<1>11. RealOf(Reals64, Reals64[n]) = n
  BY <1>1, <1>9 DEF RealOf
<1> QED
  BY <1>1, <1>3, <1>7, <1>8, <1>10, <1>11

(* The sizes of the serializable types. *)
LEMMA Sizes ==
  /\ \A type \in Numbers : DataSize[type] \in {1, 2, 4}
  /\ DataSize["Bool8"] = 1 /\ DataSize["Float"] = 4 /\ DataSize["Double"] = 8
BY DEF Numbers, DataSize

(* A length takes four octets. *)
LEMMA FourOctets ==
  ASSUME NEW n \in Nat
  PROVE  Octets(n, 4) \in Texts /\ Len(Octets(n, 4)) = 4
<1>1. n \in Int /\ 4 \in Nat
  OBVIOUS
<1> QED
  BY <1>1, OctetsType

(* The octets of a value: its encoding is a text of at least one octet, from which the
   same number is read again. *)
LEMMA ScalarIs ==
  ASSUME NEW type \in Serializable, NEW v, HasType(type, v)
  PROVE  /\ ScalarOf(type, v) \in Texts /\ Len(ScalarOf(type, v)) >= 1
         /\ type \notin TextTypes => Len(ScalarOf(type, v)) = DataSize[type]
         /\ type \in SignedTypes => v = Num(Signed(ScalarOf(type, v)))
         /\ type \in UnsignedTypes => v = Num(Unsigned(ScalarOf(type, v)))
<1>1. CASE type \in TextTypes
  <2>1. v.str \in Texts /\ ScalarOf(type, v) = Octets(Len(v.str), 4) \o v.str
    BY <1>1, SerializableIs DEF HasType, ScalarOf, Texts
  <2> DEFINE x == Octets(Len(v.str), 4)
             y == v.str
  <2>2. Len(y) \in Nat
    BY <2>1 DEF Texts
  <2>3. x \in Texts /\ Len(x) = 4
    BY <2>2, FourOctets
  <2> HIDE DEF x, y
  <2>4. x \o y \in Texts /\ Len(x \o y) = Len(x) + Len(y)
    BY <2>1, <2>3, Concatenation DEF y
  <2>5. Len(x \o y) >= 1
    BY <2>2, <2>3, <2>4
  <2>6. type \notin SignedTypes /\ type \notin UnsignedTypes
    BY <1>1, SerializableIs
  <2> QED
    BY <1>1, <2>1, <2>4, <2>5, <2>6 DEF x, y
<1>2. CASE type = "Bool8"
  <2>1. ScalarOf(type, v) = IF v = Bool(TRUE) THEN <<1>> ELSE <<0>>
    BY <1>2, SerializableIs DEF ScalarOf
  <2>2. <<0>> \in Texts /\ <<1>> \in Texts /\ Len(<<0>>) = 1 /\ Len(<<1>>) = 1
    BY DEF Texts, Octet
  <2>3. ScalarOf(type, v) \in Texts /\ Len(ScalarOf(type, v)) = 1
    BY <2>1, <2>2
  <2>4. type \notin TextTypes \cup SignedTypes \cup UnsignedTypes
    BY <1>2, SerializableIs
  <2>5. DataSize[type] = 1
    BY <1>2, Sizes
  <2> HIDE DEF TextTypes
  <2> QED
    BY <2>3, <2>4, <2>5
<1>3. CASE type \in {"Float", "Double"}
  <2>1. v.num \in DOMAIN Reals32
    BY <1>3 DEF HasType
  <2>2. /\ type = "Float" => ScalarOf(type, v) = Reals32[v.num]
        /\ type = "Double" => ScalarOf(type, v) = Reals64[v.num]
    BY <1>3, SerializableIs DEF ScalarOf
  <2>3. ScalarOf(type, v) \in Texts /\ Len(ScalarOf(type, v)) = DataSize[type]
        /\ DataSize[type] >= 1
    <3>1. CASE type = "Float"
      <4>1. ScalarOf(type, v) \in Texts /\ Len(ScalarOf(type, v)) = 4
        BY <2>1, <2>2, <3>1, Reals
      <4> QED
        BY <3>1, <4>1, Sizes
    <3>2. CASE type = "Double"
      <4>1. ScalarOf(type, v) \in Texts /\ Len(ScalarOf(type, v)) = 8
        BY <2>1, <2>2, <3>2, Reals
      <4> QED
        BY <3>2, <4>1, Sizes
    <3> QED
      BY <1>3, <3>1, <3>2
  <2> QED
    BY <1>3, <2>3, SerializableIs
<1>4. CASE type \in Numbers
  <2>1. ScalarOf(type, v) = Octets(v.num, DataSize[type])
    BY <1>4, SerializableIs DEF ScalarOf, Numbers
  <2>2. DataSize[type] \in {1, 2, 4}
    BY <1>4, Sizes
  <2>3. v = Num(v.num) /\ v.num \in Int
    BY <1>4, SerializableIs DEF HasType, Numbers
  <2>4. ScalarOf(type, v) \in Texts /\ Len(ScalarOf(type, v)) = DataSize[type]
    BY <2>1, <2>2, <2>3, OctetsType
  <2>5. ASSUME type \in SignedTypes
        PROVE  Signed(ScalarOf(type, v)) = v.num
    <3>1. v.num \div Place[DataSize[type]] \in -128..127
      BY <2>5 DEF HasType
    <3> QED
      BY <2>1, <2>2, <2>3, <3>1, SignedOctets
  <2>6. ASSUME type \in UnsignedTypes
        PROVE  Unsigned(ScalarOf(type, v)) = v.num
    <3>1. v.num \in Nat /\ v.num \div Place[DataSize[type]] < 256
      BY <2>6 DEF HasType
    <3> QED
      BY <2>1, <2>2, <2>3, <3>1, UnsignedOctets
  <2>7. type \notin TextTypes
    BY <1>4, SerializableIs DEF Numbers
  <2> QED
    BY <2>2, <2>3, <2>4, <2>5, <2>6, <2>7
<1> QED
  BY <1>1, <1>2, <1>3, <1>4, SerializableIs

(* A plain item is read where it lies (the _deser functions). *)
LEMMA ScalarIsRead ==
  ASSUME NEW item, item.type \in Serializable, item.size = DataSize[item.type],
         NEW v, HasType(item.type, v), Keeps(item.type, v),
         NEW buf \in Texts, NEW a \in Nat, At(buf, a, ScalarOf(item.type, v))
  PROVE  DeserPrim(item, buf, a) = Done(a + Len(ScalarOf(item.type, v)), v)
<1> DEFINE type == item.type
           e == ScalarOf(type, v)
<1>1. /\ e \in Texts
      /\ type \notin TextTypes => Len(e) = item.size
      /\ type \in SignedTypes => v = Num(Signed(e))
      /\ type \in UnsignedTypes => v = Num(Unsigned(e))
  BY ScalarIs
<1>2. At(buf, a, e) /\ HasType(type, v) /\ type \in Serializable
  OBVIOUS
<1>3. CASE type \in TextTypes
  <2> DEFINE x == Octets(Len(v.str), 4)
             y == v.str
             k == Len(y)
  <2>1. y \in Texts /\ e = x \o y /\ v = Str(y) /\ k \div Place[4] < 128 /\ k \in Nat
    <3>1. v = Str(v.str) /\ v.str \in Seq(Octet) /\ Len(v.str) \div Place[4] < 128
      BY <1>2, <1>3 DEF HasType
    <3>2. e = x \o y
      BY <1>3, SerializableIs DEF ScalarOf
    <3>3. Len(v.str) \in Nat
      BY <3>1
    <3> QED
      BY <3>1, <3>2, <3>3 DEF Texts
  <2>2. x \in Texts /\ Len(x) = 4
    BY <2>1, FourOctets
  <2>3. Signed(x) = k
    <3>1. Place[4] = 16777216
      BY SMT DEF Place
    <3>2. k \div Place[4] \in -128..127
      <4> HIDE DEF k
      <4> QED
        BY <2>1, <3>1, SMT
    <3>3. \A m \in Int : m \div Place[4] \in -128..127 => Signed(Octets(m, 4)) = m
      BY SignedOctets
    <3>4. x = Octets(k, 4)
      OBVIOUS
    <3> HIDE DEF x, y, k
    <3> QED
      BY <2>1, <3>2, <3>3, <3>4
  <2> HIDE DEF x, y, e, k
  <2>4. At(buf, a, x) /\ At(buf, a + 4, y) /\ Len(e) = 4 + k
    <3>1. At(buf, a, x) /\ At(buf, a + Len(x), y)
      BY <1>2, <2>1, <2>2, AtParts
    <3>2. Len(e) = Len(x) + Len(y)
      BY <2>1, <2>2, Concatenation
    <3> QED
      BY <2>2, <3>1, <3>2 DEF k
  <2>5. Bytes(buf, a, 4) = x /\ InBounds(buf, a, 4)
    <3>1. Bytes(buf, a, Len(x)) = x /\ InBounds(buf, a, Len(x))
      BY <2>2, <2>4, AtReads
    <3> QED
      BY <2>2, <3>1
  <2>6. Bytes(buf, a + 4, k) = y /\ InBounds(buf, a + 4, k)
    <3> DEFINE b == a + 4
    <3>1. b \in Nat /\ At(buf, b, y) /\ y \in Texts
      BY <2>1, <2>4
    <3> HIDE DEF b
    <3>2. Bytes(buf, b, Len(y)) = y /\ InBounds(buf, b, Len(y))
      BY <3>1, AtReads
    <3> QED
      BY <3>2 DEF k, b
  <2>7. DeserPrim(item, buf, a) = Done(a + 4 + k, Str(y))
    BY <1>2, <1>3, <2>3, <2>5, <2>6 DEF DeserPrim
  <2>8. a + 4 + k = a + Len(e)
    BY <2>1, <2>4
  <2> QED
    BY <2>1, <2>7, <2>8 DEF e
<1>4. CASE type \notin TextTypes
  <2>1. Bytes(buf, a, item.size) = e /\ InBounds(buf, a, item.size) /\ Len(e) = item.size
    BY <1>1, <1>2, <1>4, AtReads
  <2> DEFINE r == CASE type = "Bool8"       -> Bool(e[1] # 0)
                    [] type \in SignedTypes -> Num(Signed(e))
                    [] type = "Float"       -> Num(RealOf(Reals32, e))
                    [] type = "Double"      -> Num(RealOf(Reals64, e))
                    [] type = "UInt32"      -> Num(Pushed(Unsigned(e)))
                    [] OTHER                -> Num(Unsigned(e))
  <2>2. DeserPrim(item, buf, a) = Done(a + item.size, r)
    <3> HIDE DEF e
    <3> QED
      BY <1>2, <1>4, <2>1 DEF DeserPrim
  <2>3. r = v
    <3>1. CASE type \in SignedTypes
      <4>1. r = Num(Signed(e))
        <5> HIDE DEF e
        <5> QED
          BY <3>1, SerializableIs
      <4> QED
        BY <1>1, <3>1, <4>1
    <3>2. CASE type \in UnsignedTypes
      <4>1. r = IF type = "UInt32" THEN Num(Pushed(Unsigned(e))) ELSE Num(Unsigned(e))
        <5> HIDE DEF e
        <5> QED
          BY <3>2, SerializableIs
      <4>2. type = "UInt32" => Pushed(Unsigned(e)) = Unsigned(e)
        <5>1. v = Num(Unsigned(e))
          BY <1>1, <3>2
        <5>2. v.num = Unsigned(e)
          BY <5>1, Contents
        <5>3. type = "UInt32" => Pushed(v.num) = v.num
          BY DEF Keeps
        <5> QED
          BY <5>2, <5>3
      <4> QED
        BY <1>1, <3>2, <4>1, <4>2
    <3>3. CASE type = "Bool8"
      <4>1. r = Bool(e[1] # 0)
        <5> HIDE DEF e
        <5> QED
          BY <3>3, SerializableIs
      <4>2. v \in {Bool(TRUE), Bool(FALSE)}
        BY <3>3 DEF HasType
      <4>3. e = IF v = Bool(TRUE) THEN <<1>> ELSE <<0>>
        BY <3>3, SerializableIs DEF ScalarOf
      <4>4. CASE v = Bool(TRUE)
        <5>1. (e[1] # 0) = TRUE
          BY <4>3, <4>4
        <5> QED
          BY <4>1, <4>4, <5>1
      <4>5. CASE v # Bool(TRUE)
        <5>1. (e[1] # 0) = FALSE
          BY <4>3, <4>5
        <5> QED
          BY <4>1, <4>2, <4>5, <5>1
      <4> QED
        BY <4>4, <4>5
    <3>4. CASE type \in {"Float", "Double"}
      <4>1. v = Num(v.num) /\ v.num \in DOMAIN Reals32
        BY <3>4 DEF HasType
      <4>2. CASE type = "Float"
        <5>1. r = Num(RealOf(Reals32, e))
          <6> HIDE DEF e
          <6> QED
            BY <4>2, SerializableIs
        <5>2. e = Reals32[v.num]
          BY <4>2, SerializableIs DEF ScalarOf
        <5> QED
          BY <4>1, <5>1, <5>2, Reals
      <4>3. CASE type = "Double"
        <5>1. r = Num(RealOf(Reals64, e))
          <6> HIDE DEF e
          <6> QED
            BY <4>3, SerializableIs
        <5>2. e = Reals64[v.num]
          BY <4>3, SerializableIs DEF ScalarOf
        <5> QED
          BY <4>1, <5>1, <5>2, Reals
      <4> QED
        BY <3>4, <4>2, <4>3
    <3> QED
      BY <1>2, <1>4, <3>1, <3>2, <3>3, <3>4, SerializableIs DEF Numbers
  <2> QED
    BY <2>1, <2>2, <2>3
<1> QED
  BY <1>3, <1>4

-----------------------------------------------------------------------------
(* The Lua stack                                                           *)

Stacks == Seq(LuaValues)

(* Pushing, popping and writing. *)
LEMMA StackOps ==
  ASSUME NEW l \in Stacks, NEW v \in LuaValues, NEW o \in Texts, NEW x \in Texts
  PROVE  /\ State(l, o) \in States /\ ~State(l, o).raised
         /\ Append(l, v) \in Stacks
         /\ TopOf(State(Append(l, v), o)) = v
         /\ Push(State(l, o), v) = State(Append(l, v), o)
         /\ Pop(State(Append(l, v), o)) = State(l, o)
         /\ Write(State(l, o), x) = State(l, o \o x)
         /\ Raise(State(l, o)) \in States /\ Raise(State(l, o)).raised
<1>1. State(l, o) \in States /\ ~State(l, o).raised
  BY DEF State, States, Stacks, Texts
<1>2. Append(l, v) \in Stacks
  BY DEF Stacks
<1>3. TopOf(State(Append(l, v), o)) = v
  BY DEF TopOf, State, Stacks
<1> DEFINE f == FALSE
<1>4. \A y, z : State(y, z) = [lua |-> y, out |-> z, raised |-> f]
  BY DEF State
<1> HIDE DEF f
<1>5. Push(State(l, o), v) = State(Append(l, v), o)
  <2>1. Push(State(l, o), v) = [lua |-> Append(l, v), out |-> o, raised |-> f]
    BY <1>4 DEF Push
  <2> QED
    BY <1>4, <2>1
<1>6. Pop(State(Append(l, v), o)) = State(l, o)
  <2> DEFINE m == Append(l, v)
  <2>1. SubSeq(m, 1, Len(m) - 1) = l
    BY AppendProperties DEF Stacks
  <2> HIDE DEF m
  <2>2. Pop(State(m, o)) = [lua |-> SubSeq(m, 1, Len(m) - 1), out |-> o, raised |-> f]
    BY <1>4 DEF Pop
  <2> QED
    BY <1>4, <2>1, <2>2 DEF m
<1>7. Write(State(l, o), x) = State(l, o \o x)
  <2>1. Write(State(l, o), x) = [lua |-> l, out |-> o \o x, raised |-> f]
    <3>1. \A y : /\ [[lua |-> l, out |-> o, raised |-> f] EXCEPT !.out = y]
                      = [lua |-> l, out |-> y, raised |-> f]
                 /\ [lua |-> l, out |-> o, raised |-> f].out = o
      OBVIOUS
    <3> QED
      BY <1>4, <3>1, Zenon DEF Write
  <2> QED
    BY <1>4, <2>1
<1>8. Raise(State(l, o)) \in States /\ Raise(State(l, o)).raised
  BY DEF Raise, State, States, Stacks, Texts
<1> QED
  BY <1>1, <1>2, <1>3, <1>5, <1>6, <1>7, <1>8

(* A value of the type of a plain item is written as the server would. *)
LEMMA ScalarIsWritten ==
  ASSUME NEW item, item.type \in Serializable, item.size = DataSize[item.type],
         NEW s, ~s.raised, HasType(item.type, TopOf(s))
  PROVE  SerPrim(item, s) = Write(s, ScalarOf(item.type, TopOf(s)))
<1> DEFINE type == item.type
           v == TopOf(s)
<1>1. type \in Serializable /\ HasType(type, v)
  OBVIOUS
<1>2. CASE type \in TextTypes
  <2>1. TextGiven(v) = v.str
    BY <1>1, <1>2, Kinds DEF HasType, TextGiven
  <2>2. SerPrim(item, s) = Write(s, Octets(Len(v.str), 4) \o v.str)
    BY <1>2, <2>1, SerializableIs DEF SerPrim
  <2>3. ScalarOf(type, v) = Octets(Len(v.str), 4) \o v.str
    BY <1>2, SerializableIs DEF ScalarOf
  <2> QED
    BY <2>2, <2>3
<1>3. CASE type = "Bool8"
  <2>1. SerPrim(item, s) = Write(s, IF v = Bool(TRUE) THEN <<1>> ELSE <<0>>)
    <3>1. v = Bool(TRUE) \/ v = Bool(FALSE)
      BY <1>1, <1>3 DEF HasType
    <3> QED
      BY <1>3, <3>1, Kinds, SerializableIs DEF SerPrim
  <2>2. ScalarOf(type, v) = IF v = Bool(TRUE) THEN <<1>> ELSE <<0>>
    BY <1>3, SerializableIs DEF ScalarOf
  <2> QED
    BY <2>1, <2>2
<1>4. CASE type \in {"Float", "Double"} \cup Numbers
  <2>1. v = Num(v.num)
    BY <1>1, <1>4, SerializableIs DEF HasType, Numbers
  <2>2. IsNumeric(v) /\ OptNumber(v) = v.num
    BY <2>1, Kinds DEF IsNumeric, OptNumber
  <2>3. CASE type = "Float"
    <3>1. SerPrim(item, s) = Write(s, Reals32[v.num])
      BY <2>2, <2>3, SerializableIs DEF SerPrim
    <3>2. ScalarOf(type, v) = Reals32[v.num]
      BY <2>3, SerializableIs DEF ScalarOf
    <3> QED
      BY <3>1, <3>2
  <2>4. CASE type = "Double"
    <3>1. SerPrim(item, s) = Write(s, Reals64[v.num])
      BY <2>2, <2>4, SerializableIs DEF SerPrim
    <3>2. ScalarOf(type, v) = Reals64[v.num]
      BY <2>4, SerializableIs DEF ScalarOf
    <3> QED
      BY <3>1, <3>2
  <2>5. CASE type \in Numbers
    <3>1. SerPrim(item, s) = Write(s, Octets(v.num, item.size))
      BY <2>2, <2>5, SerializableIs DEF SerPrim, Numbers
    <3>2. ScalarOf(type, v) = Octets(v.num, item.size)
      BY <2>5, SerializableIs DEF ScalarOf, Numbers
    <3> QED
      BY <3>1, <3>2
  <2> QED
    BY <1>4, <2>3, <2>4, <2>5
<1> QED
  BY <1>1, <1>2, <1>3, <1>4, SerializableIs

(* A field that is not there is written as its default. *)
DefaultOf(type) ==
  CASE type = "Bool8"      -> Bool(FALSE)
    [] type \in TextTypes  -> Str(<<>>)
    [] OTHER               -> Num(0)

(* The default of a type is of that type. *)
LEMMA DefaultHasType ==
  ASSUME NEW type \in Serializable
  PROVE  HasType(type, DefaultOf(type))
<1>1. CASE type \in TextTypes
  <2>1. DefaultOf(type) = Str(<<>>)
    BY <1>1, SerializableIs DEF DefaultOf
  <2>2. Len(<<>>) \div Place[4] = 0
    <3>1. Place[4] = 16777216 /\ Len(<<>>) = 0
      BY SMT DEF Place
    <3> QED
      BY <3>1, SMT
  <2>3. <<>> \in Seq(Octet)
    OBVIOUS
  <2> DEFINE z == <<>>
  <2>4. DefaultOf(type).str = z /\ DefaultOf(type) = Str(z) /\ z \in Seq(Octet)
        /\ Len(z) \div Place[4] < 128
    BY <2>1, <2>2, <2>3, Contents
  <2>5. type \notin {"Bool8", "Float", "Double"} \cup SignedTypes \cup UnsignedTypes
    BY <1>1, SerializableIs
  <2> HIDE DEF z
  <2> QED
    BY <1>1, <2>4, <2>5 DEF HasType
<1>2. CASE type = "Bool8"
  BY <1>2, SerializableIs DEF DefaultOf, HasType
<1>3. CASE type \notin TextTypes \cup {"Bool8"}
  <2>1. DefaultOf(type) = Num(0) /\ Num(0).num = 0
    BY <1>3, Contents DEF DefaultOf
  <2>2. 0 \in DOMAIN Reals32
    BY DEF Reals32
  <2>3. type \in Numbers => 0 \div Place[DataSize[type]] = 0
    <3>1. type \in Numbers => DataSize[type] \in {1, 2, 4}
      BY Sizes
    <3>2. Place[1] = 1 /\ Place[2] = 256 /\ Place[4] = 16777216
      BY SMT DEF Place
    <3> QED
      BY <3>1, <3>2, SMT
  <2>4. SignedTypes \subseteq Numbers /\ UnsignedTypes \subseteq Numbers
    BY SerializableIs DEF Numbers
  <2> DEFINE w == Num(0)
  <2>5. w.num = 0 /\ w = Num(0) /\ DefaultOf(type) = w
    BY <2>1
  <2> HIDE DEF w
  <2> QED
    BY <1>3, <2>2, <2>3, <2>4, <2>5 DEF HasType
<1> QED
  BY <1>1, <1>2, <1>3

(* A field that is not there is written as its default (luaL_optinteger, luaL_optnumber). *)
LEMMA MissingIsWritten ==
  ASSUME NEW item, item.type \in Serializable, item.size = DataSize[item.type],
         NEW s, ~s.raised, TopOf(s) = Nil
  PROVE  SerPrim(item, s) = Write(s, ScalarOf(item.type, DefaultOf(item.type)))
<1> DEFINE type == item.type
           w == DefaultOf(type)
<1>1. type \in Serializable
  OBVIOUS
<1>2. IsNumeric(Nil) /\ OptNumber(Nil) = 0 /\ TextGiven(Nil) = <<>> /\ Nil # Bool(TRUE)
  <2>1. Is("bool", Bool(TRUE)) /\ ~Is("bool", Nil)
    BY Kinds
  <2> QED
    BY <2>1, Kinds DEF IsNumeric, OptNumber, TextGiven
<1>3. CASE type \in TextTypes
  <2>1. SerPrim(item, s) = Write(s, Octets(0, 4) \o <<>>)
    <3>1. Len(<<>>) = 0
      OBVIOUS
    <3> QED
      BY <1>2, <1>3, <3>1, SerializableIs DEF SerPrim
  <2>2. ScalarOf(type, w) = Octets(Len(w.str), 4) \o w.str
    BY <1>3, SerializableIs DEF ScalarOf
  <2>3. w.str = <<>> /\ Len(<<>>) = 0
    BY <1>3, SerializableIs, Contents DEF DefaultOf
  <2>4. Octets(0, 4) \o <<>> = Octets(0, 4)
    <3>1. Octets(0, 4) \in Texts
      BY FourOctets
    <3> HIDE DEF Octets
    <3> QED
      BY <3>1 DEF Texts
  <2>5. ScalarOf(type, w) = Octets(0, 4)
    BY <2>2, <2>3, <2>4
  <2> QED
    BY <2>1, <2>4, <2>5
<1>4. CASE type = "Bool8"
  <2>1. SerPrim(item, s) = Write(s, <<0>>)
    BY <1>2, <1>4, SerializableIs DEF SerPrim
  <2>2. w = Bool(FALSE)
    BY <1>4, SerializableIs DEF DefaultOf
  <2>3. Bool(FALSE) # Bool(TRUE)
    BY DEF Bool
  <2>4. ScalarOf(type, w) = <<0>>
    BY <1>4, <2>2, <2>3, SerializableIs DEF ScalarOf
  <2> QED
    BY <2>1, <2>4
<1>5. CASE type \in {"Float", "Double"} \cup Numbers
  <2>1. w.num = 0
    BY <1>5, SerializableIs, Contents DEF DefaultOf, Numbers
  <2>2. CASE type = "Float"
    <3>1. SerPrim(item, s) = Write(s, Reals32[0])
      BY <1>2, <2>2, SerializableIs DEF SerPrim
    <3>2. ScalarOf(type, w) = Reals32[0]
      BY <2>1, <2>2, SerializableIs DEF ScalarOf
    <3> QED
      BY <3>1, <3>2
  <2>3. CASE type = "Double"
    <3>1. SerPrim(item, s) = Write(s, Reals64[0])
      BY <1>2, <2>3, SerializableIs DEF SerPrim
    <3>2. ScalarOf(type, w) = Reals64[0]
      BY <2>1, <2>3, SerializableIs DEF ScalarOf
    <3> QED
      BY <3>1, <3>2
  <2>4. CASE type \in Numbers
    <3>1. SerPrim(item, s) = Write(s, Octets(0, item.size))
      BY <1>2, <2>4, SerializableIs DEF SerPrim, Numbers
    <3>2. ScalarOf(type, w) = Octets(0, item.size)
      BY <2>1, <2>4, SerializableIs DEF ScalarOf, Numbers
    <3> QED
      BY <3>1, <3>2
  <2> QED
    BY <1>5, <2>2, <2>3, <2>4
<1> QED
  BY <1>1, <1>3, <1>4, <1>5, SerializableIs

-----------------------------------------------------------------------------
(* Arrays                                                                  *)

(* Each reader finds its value where its text lies. *)
Reads(readers, texts, vals, buf) ==
  /\ DOMAIN readers = 1..Len(texts)
  /\ \A i \in 1..Len(texts) : \A b \in Nat :
       At(buf, b, texts[i]) => readers[i][b] = Done(b + Len(texts[i]), vals[i])

(* A loop whose readers find the items that lie one behind the other. *)
LEMMA ItemsAreRead ==
  ASSUME NEW buf \in Texts, NEW a \in Nat, NEW texts \in Seq(Texts), NEW up, Partials(texts, up),
         At(buf, a, up[Len(texts)]),
         NEW readers, NEW vals, Reads(readers, texts, vals, buf)
  PROVE  /\ Stations(buf, readers, a)[Len(texts)] = a + Len(up[Len(texts)])
         /\ \A i \in 1..Len(texts) : readers[i][Stations(buf, readers, a)[i - 1]].val = vals[i]
<1> DEFINE n == Len(texts)
           h == [i \in 0..n |-> a + Len(up[i])]
           rounds == [i \in DOMAIN readers |-> [b \in Addresses(buf) |-> readers[i][b].addr]]
<1>1. n \in Nat /\ up[0] = <<>> /\ texts \in Seq(Texts)
  BY DEF Partials
<1>0. /\ DOMAIN readers = 1..n
      /\ \A i \in 1..n : \A b \in Nat :
           At(buf, b, texts[i]) => readers[i][b] = Done(b + Len(texts[i]), vals[i])
  BY DEF Reads
<1>2. Len(rounds) = n
  BY <1>0, <1>1
<1>3. ASSUME NEW i \in 1..n
      PROVE  /\ h[i] = h[i - 1] + Len(texts[i]) /\ h[i - 1] \in Nat
             /\ At(buf, h[i - 1], texts[i]) /\ h[i - 1] \in Addresses(buf)
             /\ readers[i][h[i - 1]] = Done(h[i], vals[i])
  <2>1. i - 1 \in 0..n /\ i \in 0..n
    BY <1>1
  <2>2. h[i - 1] = a + Len(up[i - 1]) /\ h[i] = a + Len(up[i])
    BY <2>1
  <2>3. /\ At(buf, a + Len(up[i - 1]), texts[i]) /\ Len(up[i - 1]) \in Nat
        /\ Len(up[i]) = Len(up[i - 1]) + Len(texts[i])
    BY AtEach
  <2>4. texts[i] \in Texts /\ Len(texts[i]) \in Nat
    BY <1>1 DEF Texts
  <2>5. h[i - 1] \in Nat /\ At(buf, h[i - 1], texts[i])
    BY <2>2, <2>3
  <2>6. h[i] = h[i - 1] + Len(texts[i])
    <3> DEFINE k == Len(up[i - 1])
               m == Len(texts[i])
    <3>1. h[i] = a + (k + m) /\ h[i - 1] = a + k /\ k \in Nat /\ m \in Nat
      BY <2>2, <2>3, <2>4
    <3> HIDE DEF k, m, h
    <3>2. h[i] = h[i - 1] + m
      BY <3>1
    <3> QED
      BY <3>2 DEF m
  <2>7. h[i - 1] \in Addresses(buf)
    BY <2>4, <2>5, AtReads
  <2> HIDE DEF h
  <2>8. readers[i][h[i - 1]] = Done(h[i - 1] + Len(texts[i]), vals[i])
    BY <1>0, <2>5
  <2> QED
    BY <2>5, <2>6, <2>7, <2>8
<1>4. h[0] = a
  BY <1>1
<1>5. \A i \in 1..n : h[i] = rounds[i][h[i - 1]]
  <2> TAKE i \in 1..n
  <2>1. h[i - 1] \in Addresses(buf) /\ readers[i][h[i - 1]] = Done(h[i], vals[i])
    BY <1>3
  <2>2. Done(h[i], vals[i]).addr = h[i]
    <3> HIDE DEF h
    <3> QED
      BY DEF Done
  <2> HIDE DEF h
  <2>3. rounds[i][h[i - 1]] = readers[i][h[i - 1]].addr
    BY <1>0, <2>1
  <2> QED
    BY <2>1, <2>2, <2>3
<1>6. Stations(buf, readers, a) = After(rounds, a)
  BY DEF Stations
<1>7. \A i \in 0..n : Stations(buf, readers, a)[i] = h[i]
  <2> HIDE DEF h, rounds, n
  <2>1. n \in Nat
    BY <1>1
  <2> DEFINE x == a
  <2>2. h[0] = x /\ Stations(buf, readers, a) = After(rounds, x)
    BY <1>4, <1>6
  <2> HIDE DEF x
  <2>3. \A i \in 0..n : After(rounds, x)[i] = h[i]
    BY <1>2, <1>5, <2>1, <2>2, AfterIs
  <2> QED
    BY <2>2, <2>3
<1>8. \A i \in 1..n : readers[i][Stations(buf, readers, a)[i - 1]].val = vals[i]
  <2> TAKE i \in 1..n
  <2>1. readers[i][h[i - 1]] = Done(h[i], vals[i])
    BY <1>3
  <2>2. Done(h[i], vals[i]).val = vals[i]
    <3> HIDE DEF h
    <3> QED
      BY DEF Done
  <2>3. Stations(buf, readers, a)[i - 1] = h[i - 1]
    <3>1. i - 1 \in 0..n
      BY <1>1
    <3> HIDE DEF h
    <3> QED
      BY <1>7, <3>1
  <2> HIDE DEF h
  <2> QED
    BY <2>1, <2>2, <2>3
<1>9. Stations(buf, readers, a)[n] = a + Len(up[n])
  <2>1. n \in 0..n
    BY <1>1
  <2> QED
    BY <1>7, <2>1
<1> QED
  BY <1>8, <1>9

(* The encodings of the elements of an array, and of the array. *)
ElementsOf(type, elems, count) == [j \in 1..count |-> ScalarOf(type, elems[j])]

AllHave(type, elems) == \A j \in 1..Len(elems) : HasType(type, elems[j])
AllKept(type, elems) == \A j \in 1..Len(elems) : Keeps(type, elems[j])

(* The texts of the elements of an array. *)
LEMMA ElementsAre ==
  ASSUME NEW type \in Serializable, NEW elems \in Seq(LuaValues), NEW count \in 0..Len(elems),
         AllHave(type, elems)
  PROVE  /\ ElementsOf(type, elems, count) \in Seq(Texts)
         /\ Len(ElementsOf(type, elems, count)) = count
         /\ \A j \in 1..count : /\ ElementsOf(type, elems, count)[j] = ScalarOf(type, elems[j])
                                /\ ElementsOf(type, elems, count)[j] \in Texts
                                /\ Len(ElementsOf(type, elems, count)[j]) >= 1
<1>1. count \in Nat /\ 1..count \subseteq 1..Len(elems)
  OBVIOUS
<1>2. \A j \in 1..count : ScalarOf(type, elems[j]) \in Texts /\ Len(ScalarOf(type, elems[j])) >= 1
  <2> TAKE j \in 1..count
  <2>1. HasType(type, elems[j])
    BY <1>1 DEF AllHave
  <2> QED
    BY <2>1, ScalarIs
<1> QED
  BY <1>1, <1>2 DEF ElementsOf

(* An array is read where it lies, its length first (deserialize, the loop over iSeq). *)
LEMMA ArrayIsRead ==
  ASSUME NEW item, item.type \in Serializable, item.size = DataSize[item.type],
         NEW elems \in Seq(LuaValues), Len(elems) \div Place[4] < 128,
         AllHave(item.type, elems), AllKept(item.type, elems),
         NEW up, Partials(ElementsOf(item.type, elems, Len(elems)), up),
         NEW buf \in Texts, NEW a \in Nat, At(buf, a, Octets(Len(elems), 4) \o up[Len(elems)])
  PROVE  DeserArray(item, buf, a)
           = Done(a + Len(Octets(Len(elems), 4) \o up[Len(elems)]), Arr(elems))
<1> DEFINE n == Len(elems)
           type == item.type
           texts == ElementsOf(type, elems, n)
           head == Octets(n, 4)
           readers == [j \in 1..n |-> [b \in Addresses(buf) |-> DeserPrim(item, buf, b)]]
           at == Stations(buf, readers, a + 4)
<1>1. n \in Nat /\ n \in 0..n
  OBVIOUS
<1>2. /\ texts \in Seq(Texts) /\ Len(texts) = n
      /\ \A j \in 1..n : texts[j] = ScalarOf(type, elems[j]) /\ texts[j] \in Texts /\ Len(texts[j]) >= 1
  BY <1>1, ElementsAre
<1>3. head \in Texts /\ Len(head) = 4
  BY <1>1, FourOctets
<1>4. Signed(head) = n
  <2>1. Place[4] = 16777216
    BY SMT DEF Place
  <2>2. n \div Place[4] \in -128..127
    <3>1. n \div Place[4] < 128
      OBVIOUS
    <3> HIDE DEF n
    <3> QED
      BY <1>1, <2>1, <3>1, SMT
  <2> QED
    BY <1>1, <2>2, SignedOctets
<1>5. up[n] \in Texts /\ Partials(texts, up)
  BY <1>1, <1>2 DEF Partials
<1>6. At(buf, a, head \o up[n])
  OBVIOUS
<1>7. At(buf, a, head) /\ At(buf, a + 4, up[n]) /\ Len(head \o up[n]) = 4 + Len(up[n])
  <2> HIDE DEF head, n
  <2>1. At(buf, a, head) /\ At(buf, a + Len(head), up[n])
        /\ Len(head \o up[n]) = Len(head) + Len(up[n])
    BY <1>3, <1>5, <1>6, AtParts, Concatenation
  <2> QED
    BY <1>3, <2>1
<1>8. Bytes(buf, a, 4) = head /\ InBounds(buf, a, 4)
  <2> HIDE DEF head
  <2>1. Bytes(buf, a, Len(head)) = head /\ InBounds(buf, a, Len(head))
    BY <1>3, <1>7, AtReads
  <2> QED
    BY <1>3, <2>1
<1>9. n <= Len(buf)
  <2>1. Len(up[n]) >= n
    <3> HIDE DEF texts, n
    <3> QED
      BY <1>2, <1>5, PartialsGrow
  <2>2. a + 4 + Len(up[n]) <= Len(buf)
    BY <1>7 DEF At
  <2>3. Len(up[n]) \in Nat /\ Len(buf) \in Nat
    BY <1>5 DEF Texts
  <2> DEFINE k == Len(up[n])
             m == Len(buf)
  <2>4. k >= n /\ a + 4 + k <= m /\ k \in Nat /\ m \in Nat
    BY <2>1, <2>2, <2>3
  <2> HIDE DEF k, m, n
  <2>5. n <= m
    BY <1>1, <2>4
  <2> QED
    BY <2>5 DEF m
<1>10. ASSUME NEW i \in 1..n, NEW b \in Nat, At(buf, b, texts[i])
       PROVE  readers[i][b] = Done(b + Len(texts[i]), elems[i])
  <2>1. texts[i] = ScalarOf(type, elems[i]) /\ texts[i] \in Texts /\ HasType(type, elems[i])
    BY <1>2 DEF AllHave
  <2> HIDE DEF texts, n
  <2>2. b \in Addresses(buf)
    BY <1>10, <2>1, AtReads
  <2>3. readers[i][b] = DeserPrim(item, buf, b)
    BY <2>2
  <2> QED
    <3>1. At(buf, b, ScalarOf(item.type, elems[i])) /\ HasType(item.type, elems[i])
          /\ Keeps(item.type, elems[i])
      BY <1>10, <2>1 DEF AllKept, n
    <3>2. DeserPrim(item, buf, b) = Done(b + Len(ScalarOf(item.type, elems[i])), elems[i])
      BY <3>1, ScalarIsRead
    <3> QED
      BY <2>1, <2>3, <3>2
<1>11. /\ at[n] = a + 4 + Len(up[n])
       /\ \A i \in 1..n : readers[i][at[i - 1]].val = elems[i]
  <2>1. DOMAIN readers = 1..n /\ a + 4 \in Nat
    OBVIOUS
  <2> HIDE DEF readers, texts, n
  <2> DEFINE c == a + 4
  <2>2. At(buf, c, up[Len(texts)]) /\ Reads(readers, texts, elems, buf)
    BY <1>2, <1>7, <1>10, <2>1 DEF Reads
  <2>3. at = Stations(buf, readers, c) /\ c \in Nat
    BY <2>1
  <2> HIDE DEF c, at
  <2>4. texts \in Seq(Texts) /\ Partials(texts, up)
    BY <1>2, <1>5
  <2>5. /\ Stations(buf, readers, c)[Len(texts)] = c + Len(up[Len(texts)])
        /\ \A i \in 1..Len(texts) : readers[i][Stations(buf, readers, c)[i - 1]].val = elems[i]
    BY <2>2, <2>3, <2>4, ItemsAreRead, SMTT(30)
  <2> QED
    BY <1>2, <2>3, <2>5 DEF c
<1>12. at[n] # Over
  <2>1. Len(up[n]) \in Nat
    BY <1>5 DEF Texts
  <2> DEFINE k == Len(up[n])
             e == at[n]
  <2>2. e = a + 4 + k /\ k \in Nat
    BY <1>11, <2>1
  <2> HIDE DEF k, e
  <2>3. e # Over
    BY <2>2 DEF Over
  <2> QED
    BY <2>3 DEF e
<1>13. DeserArray(item, buf, a) = Done(at[n], Arr([j \in 1..n |-> readers[j][at[j - 1]].val]))
  <2>1. Len(readers) = n /\ DOMAIN readers = 1..n
    BY <1>1
  <2>2. Signed(Bytes(buf, a, 4)) = n
    BY <1>4, <1>8
  <2> HIDE DEF n, head
  <2> DEFINE Result_(c) ==
               LET rs == [j \in 1..c |-> [b \in Addresses(buf) |-> DeserPrim(item, buf, b)]]
                   as == Stations(buf, rs, a + 4)
               IN IF \/ ~InBounds(buf, a, 4)
                     \/ item.type \in Serializable /\ c > Len(buf)
                     \/ as[Len(rs)] = Over
                  THEN Overread
                  ELSE Done(as[Len(rs)], Arr([j \in DOMAIN rs |-> rs[j][as[j - 1]].val]))
  <2>5. DeserArray(item, buf, a) = Result_(Signed(Bytes(buf, a, 4)))
    BY DEF DeserArray
  <2>6. Result_(n) =
          IF \/ ~InBounds(buf, a, 4)
             \/ item.type \in Serializable /\ n > Len(buf)
             \/ at[Len(readers)] = Over
          THEN Overread
          ELSE Done(at[Len(readers)], Arr([j \in DOMAIN readers |-> readers[j][at[j - 1]].val]))
    OBVIOUS
  <2> HIDE DEF Result_
  <2>3. DeserArray(item, buf, a) =
          IF \/ ~InBounds(buf, a, 4)
             \/ item.type \in Serializable /\ n > Len(buf)
             \/ at[Len(readers)] = Over
          THEN Overread
          ELSE Done(at[Len(readers)], Arr([j \in DOMAIN readers |-> readers[j][at[j - 1]].val]))
    BY <2>2, <2>5, <2>6
  <2>4. ~(n > Len(buf))
    <3>1. Len(buf) \in Nat
      BY DEF Texts
    <3> QED
      BY <1>1, <1>9, <3>1
  <2> HIDE DEF readers, at
  <2> QED
    BY <1>8, <1>12, <2>1, <2>3, <2>4
<1>14. [j \in 1..n |-> readers[j][at[j - 1]].val] = elems
  <2>1. elems = [j \in 1..n |-> elems[j]]
    OBVIOUS
  <2> HIDE DEF readers, at, n
  <2> QED
    BY <1>11, <2>1
<1>15. at[n] = a + Len(head \o up[n])
  <2>1. Len(up[n]) \in Nat
    BY <1>5 DEF Texts
  <2> DEFINE k == Len(up[n])
             m == Len(head \o up[n])
             e == at[n]
  <2>2. e = a + 4 + k /\ k \in Nat /\ m = 4 + k
    BY <1>7, <1>11, <2>1
  <2> HIDE DEF k, e, m
  <2>3. e = a + m
    BY <2>2
  <2> QED
    BY <2>3 DEF e, m
<1> DEFINE vals == [j \in 1..n |-> readers[j][at[j - 1]].val]
           end == at[n]
           text == head \o up[n]
<1>16. DeserArray(item, buf, a) = Done(end, Arr(vals)) /\ vals = elems /\ end = a + Len(text)
  BY <1>13, <1>14, <1>15
<1> HIDE DEF vals, end, at, readers, text
<1>17. DeserArray(item, buf, a) = Done(a + Len(text), Arr(elems))
  BY <1>16
<1> QED
  BY <1>17 DEF text

(* Concatenation is associative. *)
LEMMA Together ==
  ASSUME NEW x \in Texts, NEW y \in Texts, NEW z \in Texts
  PROVE  /\ (x \o y) \o z = x \o (y \o z)
         /\ x \o y \in Texts /\ y \o z \in Texts /\ (x \o y) \o z \in Texts
<1>1. (x \o y) \o z = x \o (y \o z)
  <2>1. x \in Seq(Octet) /\ y \in Seq(Octet) /\ z \in Seq(Octet)
    BY DEF Texts
  <2>2. \A r, s, t \in Seq(Octet) : (r \o s) \o t = r \o (s \o t)
    BY ConcatAssociative
  <2> QED
    BY <2>1, <2>2, Zenon
<1>2. x \o y \in Texts /\ y \o z \in Texts
  BY Concatenation, Zenon
<1>3. (x \o y) \o z \in Texts
  BY <1>2, Concatenation, Zenon
<1> QED
  BY <1>1, <1>2, <1>3

(* The empty text. *)
LEMMA NoText ==
  ASSUME NEW x \in Texts
  PROVE  x \o <<>> = x /\ <<>> \in Texts
  BY ConcatEmptySeq DEF Texts

(* Rounds that write one text each behind what is there. *)
Writes(rounds, texts, l) ==
  /\ Len(rounds) = Len(texts)
  /\ \A i \in 1..Len(texts) : \A o \in Texts : rounds[i][State(l, o)] = State(l, o \o texts[i])

(* A loop whose rounds write one text each writes all of them. *)
LEMMA TextsAreWritten ==
  ASSUME NEW texts \in Seq(Texts), NEW up, Partials(texts, up),
         NEW rounds, NEW l, NEW o \in Texts, Writes(rounds, texts, l)
  PROVE  \A i \in 0..Len(texts) : After(rounds, State(l, o))[i] = State(l, o \o up[i])
<1> DEFINE n == Len(texts)
           h == [i \in 0..n |-> State(l, o \o up[i])]
           x == State(l, o)
<1>1. n \in Nat /\ up[0] = <<>> /\ \A i \in 0..n : up[i] \in Texts
  BY DEF Partials
<1>2. h[0] = x
  <2>1. o \o up[0] = o /\ 0 \in 0..n
    BY <1>1, NoText
  <2> QED
    BY <2>1
<1>3. \A i \in 1..n : h[i] = rounds[i][h[i - 1]]
  <2> TAKE i \in 1..n
  <2>1. i - 1 \in 0..n /\ i \in 0..n
    BY <1>1
  <2>2. up[i] = up[i - 1] \o texts[i] /\ texts[i] \in Texts /\ up[i - 1] \in Texts
    BY <1>1, <2>1 DEF Partials
  <2> DEFINE y == o \o up[i - 1]
  <2>3. y \in Texts /\ y \o texts[i] = o \o up[i]
    <3> DEFINE b == up[i - 1]
               e == texts[i]
    <3>1. b \in Texts /\ e \in Texts /\ up[i] = b \o e
      BY <2>2
    <3> HIDE DEF b, e
    <3>2. (o \o b) \o e = o \o (b \o e) /\ o \o b \in Texts
      BY <3>1, Together
    <3> QED
      BY <3>1, <3>2 DEF b, e
  <2>4. h[i - 1] = State(l, y) /\ h[i] = State(l, o \o up[i])
    BY <2>1
  <2> HIDE DEF y, h
  <2>5. rounds[i][State(l, y)] = State(l, y \o texts[i])
    BY <2>3 DEF Writes
  <2> QED
    BY <2>3, <2>4, <2>5
<1>4. Len(rounds) = n
  BY DEF Writes
<1>5. \A i \in 0..n : After(rounds, x)[i] = h[i]
  <2> HIDE DEF n, h, x
  <2> QED
    BY <1>1, <1>2, <1>3, <1>4, AfterIs
<1> QED
  BY <1>5

ElementsIn(v) == IF Is("arr", v) THEN v.next ELSE <<>>
Cut(n, d) == IF n < d THEN n ELSE d

(* The elements of an array are written behind their number. *)
LEMMA ArrayIsWritten ==
  ASSUME NEW item, item.type \in Serializable, item.size = DataSize[item.type],
         NEW d \in Nat, d = item.dims[1],
         NEW l \in Stacks, NEW v \in LuaValues, NEW o \in Texts,
         NEW elems \in Seq(LuaValues), elems = ElementsIn(v),
         AllHave(item.type, elems), NEW count, count = Cut(Len(elems), d),
         NEW up, Partials(ElementsOf(item.type, elems, count), up)
  PROVE  SerArray(item, State(Append(l, v), o))
           = State(Append(l, v), o \o (Octets(count, 4) \o up[count]))
<1> DEFINE type == item.type
           texts == ElementsOf(type, elems, count)
           head == Octets(count, 4)
           m == Append(l, v)
           rounds == [j \in 1..count |-> [t \in States |-> Pop(SerPrim(item, Push(t, elems[j])))]]
<1>1. count \in Nat /\ count \in 0..Len(elems) /\ 1..count \subseteq 1..Len(elems)
  <2>1. count \in Nat /\ count <= Len(elems)
    BY DEF Cut
  <2> QED
    BY <2>1
<1>2. /\ texts \in Seq(Texts) /\ Len(texts) = count
      /\ \A j \in 1..count : texts[j] = ScalarOf(type, elems[j]) /\ texts[j] \in Texts
  <2>1. AllHave(type, elems)
    OBVIOUS
  <2>2. type \in Serializable
    OBVIOUS
  <2>3. count \in 0..Len(elems) /\ texts = ElementsOf(type, elems, count)
    BY <1>1
  <2> HIDE DEF type, texts
  <2>4. /\ ElementsOf(type, elems, count) \in Seq(Texts)
           /\ Len(ElementsOf(type, elems, count)) = count
        /\ \A j \in 1..count : /\ ElementsOf(type, elems, count)[j] = ScalarOf(type, elems[j])
                               /\ ElementsOf(type, elems, count)[j] \in Texts
    BY <2>1, <2>2, <2>3, ElementsAre
  <2> QED
    BY <2>3, <2>4
<1>3. head \in Texts
  BY <1>1, FourOctets
<1>4. m \in Stacks /\ TopOf(State(m, o)) = v /\ ~State(m, o).raised
      /\ Write(State(m, o), head) = State(m, o \o head) /\ o \o head \in Texts
  <2> HIDE DEF head
  <2>1. m \in Stacks /\ TopOf(State(m, o)) = v
    BY StackOps
  <2> HIDE DEF m
  <2>2. ~State(m, o).raised /\ Write(State(m, o), head) = State(m, o \o head)
    BY <1>3, <2>1, StackOps
  <2> QED
    BY <1>3, <2>1, <2>2, Concatenation
<1>5. ASSUME NEW j \in 1..count, NEW x \in Texts
      PROVE  rounds[j][State(m, x)] = State(m, x \o texts[j])
  <2>1. texts[j] = ScalarOf(type, elems[j]) /\ texts[j] \in Texts /\ HasType(type, elems[j])
    BY <1>1, <1>2 DEF AllHave
  <2> DEFINE e == elems[j]
             y == texts[j]
             s == State(Append(m, e), x)
  <2>2. e \in LuaValues
    BY <1>1
  <2> HIDE DEF m, e, y
  <2>3. /\ State(m, x) \in States /\ Push(State(m, x), e) = s
        /\ Append(m, e) \in Stacks /\ TopOf(s) = e
        /\ Pop(State(Append(m, e), x \o y)) = State(m, x \o y)
    <3>1. x \o y \in Texts
      BY <2>1, Concatenation DEF y
    <3> QED
      BY <1>4, <2>2, <3>1, StackOps
  <2>4. ~s.raised /\ Write(s, y) = State(Append(m, e), x \o y)
    <3> DEFINE k == Append(m, e)
    <3>1. k \in Stacks /\ y \in Texts
      BY <2>1, <2>3 DEF y
    <3> HIDE DEF k
    <3>2. ~State(k, x).raised /\ Write(State(k, x), y) = State(k, x \o y)
      BY <2>2, <3>1, StackOps
    <3> QED
      BY <3>2 DEF k
  <2>5. rounds[j][State(m, x)] = Pop(SerPrim(item, Push(State(m, x), e)))
    BY <2>3 DEF e
  <2> HIDE DEF s, rounds
  <2>6. HasType(item.type, TopOf(s))
    BY <2>1, <2>3 DEF e
  <2>7. SerPrim(item, s) = Write(s, ScalarOf(item.type, TopOf(s)))
    BY <2>4, <2>6, ScalarIsWritten
  <2>8. ScalarOf(item.type, TopOf(s)) = y
    BY <2>1, <2>3 DEF e, y
  <2>9. Pop(SerPrim(item, Push(State(m, x), e))) = State(m, x \o y)
    BY <2>3, <2>4, <2>7, <2>8
  <2> QED
    BY <2>5, <2>9 DEF y
<1>6. Writes(rounds, texts, m)
  <2>1. Len(rounds) = count
    BY <1>1
  <2> HIDE DEF rounds, texts, m
  <2> QED
    BY <1>2, <1>5, <2>1 DEF Writes
<1>7. After(rounds, State(m, o \o head))[count] = State(m, (o \o head) \o up[count])
  <2> DEFINE y == o \o head
  <2>1. y \in Texts
    BY <1>4
  <2> HIDE DEF y, rounds, texts, m
  <2>2. \A i \in 0..Len(texts) : After(rounds, State(m, y))[i] = State(m, y \o up[i])
    BY <1>2, <1>6, <2>1, TextsAreWritten DEF texts
  <2>3. count \in 0..Len(texts)
    BY <1>1, <1>2
  <2> QED
    BY <2>2, <2>3 DEF y
<1>8. (o \o head) \o up[count] = o \o (head \o up[count])
  <2>1. up[count] \in Texts
    BY <1>1, <1>2 DEF Partials
  <2> DEFINE z == up[count]
  <2>3. z \in Texts
    BY <2>1
  <2> HIDE DEF head, z
  <2>2. (o \o head) \o z = o \o (head \o z)
    <3>1. o \in Texts /\ head \in Texts
      BY <1>3
    <3> QED
      BY <2>3, <3>1, Together
  <2> QED
    BY <2>2 DEF z
<1>9. SerArray(item, State(m, o)) = After(rounds, State(m, o \o head))[count]
  <2> DEFINE c(es) == IF Len(es) < item.dims[1] THEN Len(es) ELSE item.dims[1]
             R(s, es) == [j \in 1..c(es) |-> [t \in States |-> Pop(SerPrim(item, Push(t, es[j])))]]
             Whole(s, es) == IF s.raised THEN s ELSE After(R(s, es), Write(s, Octets(c(es), 4)))[c(es)]
             s == State(m, o)
  <2>1. SerArray(item, s) = Whole(s, IF Is("arr", TopOf(s)) THEN TopOf(s).next ELSE <<>>)
    BY DEF SerArray
  <2>2. elems = IF Is("arr", TopOf(s)) THEN TopOf(s).next ELSE <<>>
    BY <1>4 DEF ElementsIn
  <2>3. c(elems) = count /\ R(s, elems) = rounds
    BY DEF Cut
  <2>4. Whole(s, elems) = After(rounds, Write(s, head))[count]
    <3> HIDE DEF R, c, s, rounds
    <3> QED
      BY <1>4, <2>3 DEF s
  <2> HIDE DEF Whole, R, c, rounds, s, head
  <2>5. SerArray(item, s) = Whole(s, elems)
    BY <2>1, <2>2
  <2> QED
    BY <1>4, <2>4, <2>5 DEF s
<1> QED
  BY <1>7, <1>8, <1>9

-----------------------------------------------------------------------------
(* The walks are defined for all trees                                     *)

NestsBelow(p, depth) ==
  \A t \in TypeIds : \A i \in DOMAIN Fields(p, t) :
    Fields(p, t)[i].type \in TypeIds => depth[Fields(p, t)[i].type] < depth[t]

(* How deep structures are nested in the types of a program. *)
Depth(p) == CHOOSE depth \in [TypeIds -> 0..Cardinality(TypeIds)] : NestsBelow(p, depth)

(* Every program has a depth for its types. *)
LEMMA DepthFacts ==
  ASSUME NEW p \in Programs
  PROVE  Depth(p) \in [TypeIds -> 0..Cardinality(TypeIds)] /\ NestsBelow(p, Depth(p))
<1>1. \E depth \in [TypeIds -> 0..Cardinality(TypeIds)] : NestsBelow(p, depth)
  BY NestingAssumption DEF NestsBelow
<1> HIDE DEF NestsBelow
<1> QED
  BY <1>1 DEF Depth

(* The trees of structures nested less than d deep. *)
Upto(d) ==
  {node \in Trees : \/ node = Unnamed(NeverAssigned)
                    \/ \E p \in Programs, t \in TypeIds :
                         Depth(p)[t] < d /\ node = Unnamed(Expansion[p][t])}

(* The tree of a type without its name. *)
LEMMA UnnamedTree ==
  ASSUME NEW p \in Programs, NEW t \in TypeIds, NEW name
  PROVE  /\ Unnamed(Expansion[p][t]) = Node(StructInfo(Definition[p][t], ""), Children(p, t))
         /\ Unnamed(Called(Expansion[p][t], name)) = Unnamed(Expansion[p][t])
         /\ Unnamed(Expansion[p][t]).children = Children(p, t)
         /\ Unnamed(Expansion[p][t]).item = StructInfo(Definition[p][t], "")
<1> DEFINE d == Definition[p][t]
           c == Children(p, t)
           e == Expansion[p][t]
<1>1. e = Node(StructInfo(d, t), c)
  BY TreeOf
<1> HIDE DEF d, c, e
<1>2. /\ Called(Node(StructInfo(d, t), c), "") = Node(StructInfo(d, ""), c)
      /\ Called(Node(StructInfo(d, t), c), name) = Node(StructInfo(d, name), c)
      /\ Called(Node(StructInfo(d, name), c), "") = Node(StructInfo(d, ""), c)
  <2> DEFINE blank == ""
  <2> HIDE DEF blank
  <2>1. Called(Node(StructInfo(d, t), c), blank) = Node(StructInfo(d, blank), c)
    BY CalledNode
  <2>2. Called(Node(StructInfo(d, t), c), name) = Node(StructInfo(d, name), c)
    BY CalledNode
  <2>3. Called(Node(StructInfo(d, name), c), blank) = Node(StructInfo(d, blank), c)
    BY CalledNode
  <2> QED
    BY <2>1, <2>2, <2>3 DEF blank
<1>3. Unnamed(e) = Node(StructInfo(d, ""), c)
      /\ Unnamed(Called(e, name)) = Node(StructInfo(d, ""), c)
  BY <1>1, <1>2 DEF Unnamed
<1>4. /\ Node(StructInfo(d, ""), c).children = c
      /\ Node(StructInfo(d, ""), c).item = StructInfo(d, "")
  BY DEF Node
<1> QED
  BY <1>3, <1>4 DEF d, c, e

(* The default TypeNode has no children. *)
LEMMA NeverAssignedIsBare ==
  Unnamed(NeverAssigned).children = <<>>
<1> DEFINE info == FieldInfo([name |-> "", rank |-> 0, dims |-> <<>>])
           none == <<>>
<1>1. NeverAssigned = Node(info, none)
  BY DEF NeverAssigned
<1> HIDE DEF info, none
<1>2. Called(Node(info, none), "") = Node(Rename(info, ""), none)
  BY CalledIsRenamed
<1>3. Node(Rename(info, ""), none).children = none
  BY DEF Node
<1> QED
  BY <1>1, <1>2, <1>3 DEF Unnamed, none

(* The structures nested in a tree lie a level below it. *)
LEMMA NestedBelow ==
  ASSUME NEW d \in Nat, NEW node \in Upto(d + 1), NEW i \in DOMAIN node.children,
         node.children[i].item.isStruct
  PROVE  Unnamed(node.children[i]) \in Upto(d)
<1>1. node # Unnamed(NeverAssigned)
  <2>1. i \notin DOMAIN <<>>
    OBVIOUS
  <2> QED
    BY <2>1, NeverAssignedIsBare
<1>2. PICK p \in Programs, t \in TypeIds : Depth(p)[t] < d + 1 /\ node = Unnamed(Expansion[p][t])
  BY <1>1 DEF Upto
<1>3. node.children = Children(p, t) /\ i \in DOMAIN Fields(p, t)
  BY <1>2, UnnamedTree DEF Children
<1> DEFINE f == Fields(p, t)[i]
<1>4. node.children[i] = ChildTree(p, f)
  BY <1>3 DEF Children
<1>5. f.type \in TypeIds
  <2> SUFFICES ASSUME f.type \notin TypeIds
               PROVE  FALSE
    OBVIOUS
  <2>1. ChildTree(p, f) = Node(PrimInfo(f), <<>>)
    BY DEF ChildTree
  <2>2. Node(PrimInfo(f), <<>>).item = PrimInfo(f)
    BY DEF Node
  <2>3. PrimInfo(f).isStruct = FALSE
    <3> HIDE DEF f
    <3> QED
      BY DEF PrimInfo, FieldInfo
  <2> HIDE DEF f
  <2> QED
    BY <1>4, <2>1, <2>2, <2>3
<1>6. Unnamed(node.children[i]) = Unnamed(Expansion[p][f.type])
  <2> HIDE DEF f
  <2>1. ChildTree(p, f) = Called(Expansion[p][f.type], f.name)
    BY <1>5 DEF ChildTree
  <2> DEFINE u == f.type
             name == f.name
  <2>2. u \in TypeIds
    BY <1>5
  <2> HIDE DEF u, name
  <2>3. Unnamed(Called(Expansion[p][u], name)) = Unnamed(Expansion[p][u])
    BY <2>2, UnnamedTree
  <2> QED
    BY <1>4, <2>1, <2>3 DEF u, name
<1>7. Depth(p)[f.type] < d
  <2>1. Depth(p)[f.type] < Depth(p)[t]
    BY <1>3, <1>5, DepthFacts DEF NestsBelow
  <2> DEFINE x == Depth(p)[f.type]
             y == Depth(p)[t]
  <2>2. x \in Int /\ y \in Int /\ x < y /\ y < d + 1
    <3>1. Depth(p) \in [TypeIds -> 0..Cardinality(TypeIds)]
      BY DepthFacts
    <3>2. Depth(p)[f.type] \in 0..Cardinality(TypeIds) /\ Depth(p)[t] \in 0..Cardinality(TypeIds)
      BY <1>5, <3>1
    <3> QED
      BY <1>2, <2>1, <3>2
  <2> HIDE DEF x, y
  <2>3. x < d
    BY <2>2
  <2> QED
    BY <2>3 DEF x
<1>8. Unnamed(Expansion[p][f.type]) \in Trees
  BY <1>5, TreesAssumption
<1> QED
  BY <1>5, <1>6, <1>7, <1>8 DEF Upto

(* The levels grow to all trees, and the lowest nests nothing. *)
LEMMA UptoGrows ==
  /\ \A d \in Nat : Upto(d) \subseteq Upto(d + 1) /\ Upto(d) \subseteq Trees
  /\ \A node \in Upto(0) : node.children = <<>>
  /\ Cardinality(TypeIds) + 1 \in Nat /\ Upto(Cardinality(TypeIds) + 1) = Trees
<1> DEFINE n == Cardinality(TypeIds)
<1>1. n \in Nat
  BY NestingAssumption, FS_CardinalityType
<1> HIDE DEF n
<1>2. \A p \in Programs, t \in TypeIds : Depth(p)[t] \in 0..n
  BY DepthFacts DEF n
<1>3. ASSUME NEW d \in Nat
      PROVE  Upto(d) \subseteq Upto(d + 1) /\ Upto(d) \subseteq Trees
  <2>1. \A p \in Programs, t \in TypeIds : Depth(p)[t] < d => Depth(p)[t] < d + 1
    <3> TAKE p \in Programs, t \in TypeIds
    <3> DEFINE x == Depth(p)[t]
    <3>1. x \in Int
      BY <1>1, <1>2
    <3> HIDE DEF x
    <3>2. x < d => x < d + 1
      BY <3>1
    <3> QED
      BY <3>2 DEF x
  <2> QED
    BY <2>1 DEF Upto
<1>4. \A node \in Upto(0) : node.children = <<>>
  <2>1. \A p \in Programs, t \in TypeIds : ~(Depth(p)[t] < 0)
    <3> TAKE p \in Programs, t \in TypeIds
    <3> DEFINE x == Depth(p)[t]
    <3>1. x \in 0..n
      BY <1>2
    <3> HIDE DEF x
    <3>2. ~(x < 0)
      BY <1>1, <3>1
    <3> QED
      BY <3>2 DEF x
  <2> QED
    BY <2>1, NeverAssignedIsBare DEF Upto
<1>5. Upto(n + 1) = Trees
  <2>1. \A p \in Programs, t \in TypeIds : Depth(p)[t] < n + 1
    <3> TAKE p \in Programs, t \in TypeIds
    <3> DEFINE x == Depth(p)[t]
    <3>1. x \in 0..n
      BY <1>2
    <3> HIDE DEF x
    <3>2. x < n + 1
      BY <1>1, <3>1
    <3> QED
      BY <3>2 DEF x
  <2> QED
    BY <2>1, TreesAssumption DEF Upto
<1> QED
  BY <1>1, <1>3, <1>4, <1>5 DEF n

(* A walk that is right for the trees D. *)
DeserSolves(walk, buf, D) ==
  walk = [node \in D |-> [addr \in Addresses(buf) |-> DeserStruct(walk, node, buf, addr)]]

(* Two walks that agree on the structures nested in a node do the same with it. *)
LEMMA DeserDepends ==
  ASSUME NEW f, NEW g, NEW node, NEW buf, NEW addr,
         \A i \in DOMAIN node.children :
           node.children[i].item.isStruct =>
             f[Unnamed(node.children[i])] = g[Unnamed(node.children[i])]
  PROVE  DeserStruct(f, node, buf, addr) = DeserStruct(g, node, buf, addr)
<1>1. \A i \in DOMAIN node.children : \A a :
        DeserChild(f, node.children[i], buf, a) = DeserChild(g, node.children[i], buf, a)
  BY DEF DeserChild
<1> DEFINE readers(walk) == [i \in DOMAIN node.children |->
                              [a \in Addresses(buf) |-> DeserChild(walk, node.children[i], buf, a)]]
<1>2. readers(f) = readers(g)
  BY <1>1
<1> DEFINE Whole(rs) ==
             LET children == node.children
                 at == Stations(buf, rs, SkipHeader(node, buf, addr))
                 end == at[Len(children)]
                 Named(n) == CHOOSE i \in DOMAIN children : children[i].item.name = n
                 Value(i) == rs[i][at[i - 1]].val
             IN IF end = Over THEN Overread
                ELSE Done(end, Tab([n \in {children[i].item.name : i \in DOMAIN children} |->
                                      Value(Named(n))]))
<1>3. \A walk : DeserStruct(walk, node, buf, addr) = Whole(readers(walk))
  BY DEF DeserStruct
<1> HIDE DEF Whole, readers
<1> QED
  BY <1>2, <1>3

(* There is a walk over all trees, built level by level. *)
LEMMA DeserExists ==
  ASSUME NEW buf
  PROVE  \E walk : DeserSolves(walk, buf, Trees)
<1> DEFINE S == {d \in Nat : \E walk : DeserSolves(walk, buf, Upto(d))}
           New(walk, D) == [node \in D |-> [addr \in Addresses(buf) |-> DeserStruct(walk, node, buf, addr)]]
<1>1. 0 \in S
  <2> DEFINE g == New(0, Upto(0))
  <2>1. ASSUME NEW node \in Upto(0), NEW addr
        PROVE  DeserStruct(0, node, buf, addr) = DeserStruct(g, node, buf, addr)
    <3>1. \A i \in DOMAIN node.children : FALSE
      BY UptoGrows
    <3> HIDE DEF g
    <3> QED
      BY <3>1, DeserDepends
  <2>2. g = New(g, Upto(0))
    <3>1. g = [node \in Upto(0) |-> [addr \in Addresses(buf) |-> DeserStruct(0, node, buf, addr)]]
      OBVIOUS
    <3>2. [node \in Upto(0) |-> [addr \in Addresses(buf) |-> DeserStruct(0, node, buf, addr)]]
            = [node \in Upto(0) |-> [addr \in Addresses(buf) |-> DeserStruct(g, node, buf, addr)]]
      <4> HIDE DEF g
      <4> QED
        BY <2>1
    <3> HIDE DEF g
    <3> QED
      BY <3>1, <3>2
  <2> HIDE DEF g
  <2>3. DeserSolves(g, buf, Upto(0))
    BY <2>2 DEF DeserSolves
  <2> QED
    BY <2>3
<1>2. ASSUME NEW d \in Nat, d \in S
      PROVE  d + 1 \in S
  <2>1. PICK f : DeserSolves(f, buf, Upto(d))
    BY <1>2
  <2> DEFINE g == New(f, Upto(d + 1))
  <2>2. \A node \in Upto(d) : g[node] = f[node]
    <3> TAKE node \in Upto(d)
    <3>1. node \in Upto(d + 1)
      BY UptoGrows
    <3>2. g[node] = [addr \in Addresses(buf) |-> DeserStruct(f, node, buf, addr)]
      BY <3>1
    <3>3. f[node] = [addr \in Addresses(buf) |-> DeserStruct(f, node, buf, addr)]
      <4> DEFINE w == New(f, Upto(d))
      <4>1. f = w
        BY <2>1 DEF DeserSolves
      <4>2. w[node] = [addr \in Addresses(buf) |-> DeserStruct(f, node, buf, addr)]
        OBVIOUS
      <4> HIDE DEF w
      <4> QED
        BY <4>1, <4>2
    <3> QED
      BY <3>2, <3>3
  <2>3. ASSUME NEW node \in Upto(d + 1), NEW addr
        PROVE  DeserStruct(f, node, buf, addr) = DeserStruct(g, node, buf, addr)
    <3>1. \A i \in DOMAIN node.children : node.children[i].item.isStruct =>
            f[Unnamed(node.children[i])] = g[Unnamed(node.children[i])]
      BY <2>2, NestedBelow
    <3> HIDE DEF g
    <3> QED
      BY <3>1, DeserDepends
  <2>4. g = New(g, Upto(d + 1))
    <3>1. g = [node \in Upto(d + 1) |-> [addr \in Addresses(buf) |-> DeserStruct(f, node, buf, addr)]]
      OBVIOUS
    <3>2. [node \in Upto(d + 1) |-> [addr \in Addresses(buf) |-> DeserStruct(f, node, buf, addr)]]
            = [node \in Upto(d + 1) |-> [addr \in Addresses(buf) |-> DeserStruct(g, node, buf, addr)]]
      <4> HIDE DEF g
      <4> QED
        BY <2>3
    <3> HIDE DEF g
    <3> QED
      BY <3>1, <3>2
  <2> HIDE DEF g
  <2>5. DeserSolves(g, buf, Upto(d + 1))
    BY <2>4 DEF DeserSolves
  <2> QED
    BY <2>5
<1>3. Cardinality(TypeIds) + 1 \in S
  <2> HIDE DEF S
  <2> QED
    BY <1>1, <1>2, SetInduction, UptoGrows
<1> QED
  BY <1>3, UptoGrows

(* The walk of the model is right for all trees. *)
LEMMA DeserWalkIs ==
  ASSUME NEW buf, NEW node \in Trees, NEW addr \in Addresses(buf)
  PROVE  DeserWalk(buf)[node][addr] = DeserStruct(DeserWalk(buf), node, buf, addr)
<1> DEFINE w == DeserWalk(buf)
<1>1. w = CHOOSE walk : DeserSolves(walk, buf, Trees)
  BY DEF DeserWalk, DeserSolves
<1> HIDE DEF w
<1>2. DeserSolves(w, buf, Trees)
  BY <1>1, DeserExists
<1> DEFINE v == [n \in Trees |-> [a \in Addresses(buf) |-> DeserStruct(w, n, buf, a)]]
<1>3. w = v
  BY <1>2 DEF DeserSolves
<1>4. v[node][addr] = DeserStruct(w, node, buf, addr)
  OBVIOUS
<1> HIDE DEF v
<1> QED
  BY <1>3, <1>4 DEF w

SerSolves(walk, D) ==
  walk = [node \in D |-> [s \in States |-> SerStruct(walk, node, s)]]

(* Two walks that agree on the structures nested in a node do the same with it. *)
LEMMA SerDepends ==
  ASSUME NEW f, NEW g, NEW node, NEW s,
         \A i \in DOMAIN node.children :
           node.children[i].item.isStruct =>
             f[Unnamed(node.children[i])] = g[Unnamed(node.children[i])]
  PROVE  SerStruct(f, node, s) = SerStruct(g, node, s)
<1>1. \A i \in DOMAIN node.children : \A t :
        SerChild(f, node.children[i], t) = SerChild(g, node.children[i], t)
  BY DEF SerChild
<1> DEFINE rounds(walk) == [i \in DOMAIN node.children |->
                             [t \in States |-> SerChild(walk, node.children[i], t)]]
           Whole(rs) == After(rs, WriteHeader(node, s))[Len(rs)]
<1>2. rounds(f) = rounds(g)
  BY <1>1
<1>3. \A walk : SerStruct(walk, node, s) = Whole(rounds(walk))
  BY DEF SerStruct
<1> HIDE DEF Whole, rounds
<1> QED
  BY <1>2, <1>3

(* There is a walk over all trees, built level by level. *)
LEMMA SerExists ==
  \E walk : SerSolves(walk, Trees)
<1> DEFINE S == {d \in Nat : \E walk : SerSolves(walk, Upto(d))}
           New(walk, D) == [node \in D |-> [s \in States |-> SerStruct(walk, node, s)]]
<1>1. 0 \in S
  <2> DEFINE g == New(0, Upto(0))
  <2>1. ASSUME NEW node \in Upto(0), NEW s
        PROVE  SerStruct(0, node, s) = SerStruct(g, node, s)
    <3>1. \A i \in DOMAIN node.children : FALSE
      BY UptoGrows
    <3> HIDE DEF g
    <3> QED
      BY <3>1, SerDepends
  <2>2. g = New(g, Upto(0))
    <3>1. g = [node \in Upto(0) |-> [s \in States |-> SerStruct(0, node, s)]]
      OBVIOUS
    <3>2. [node \in Upto(0) |-> [s \in States |-> SerStruct(0, node, s)]]
            = [node \in Upto(0) |-> [s \in States |-> SerStruct(g, node, s)]]
      <4> HIDE DEF g
      <4> QED
        BY <2>1
    <3> HIDE DEF g
    <3> QED
      BY <3>1, <3>2
  <2> HIDE DEF g
  <2>3. SerSolves(g, Upto(0))
    BY <2>2 DEF SerSolves
  <2> QED
    BY <2>3
<1>2. ASSUME NEW d \in Nat, d \in S
      PROVE  d + 1 \in S
  <2>1. PICK f : SerSolves(f, Upto(d))
    BY <1>2
  <2> DEFINE g == New(f, Upto(d + 1))
  <2>2. \A node \in Upto(d) : g[node] = f[node]
    <3> TAKE node \in Upto(d)
    <3>1. node \in Upto(d + 1)
      BY UptoGrows
    <3>2. g[node] = [s \in States |-> SerStruct(f, node, s)]
      BY <3>1
    <3>3. f[node] = [s \in States |-> SerStruct(f, node, s)]
      <4> DEFINE w == New(f, Upto(d))
      <4>1. f = w
        BY <2>1 DEF SerSolves
      <4>2. w[node] = [s \in States |-> SerStruct(f, node, s)]
        OBVIOUS
      <4> HIDE DEF w
      <4> QED
        BY <4>1, <4>2
    <3> QED
      BY <3>2, <3>3
  <2>3. ASSUME NEW node \in Upto(d + 1), NEW s
        PROVE  SerStruct(f, node, s) = SerStruct(g, node, s)
    <3>1. \A i \in DOMAIN node.children : node.children[i].item.isStruct =>
            f[Unnamed(node.children[i])] = g[Unnamed(node.children[i])]
      BY <2>2, NestedBelow
    <3> HIDE DEF g
    <3> QED
      BY <3>1, SerDepends
  <2>4. g = New(g, Upto(d + 1))
    <3>1. g = [node \in Upto(d + 1) |-> [s \in States |-> SerStruct(f, node, s)]]
      OBVIOUS
    <3>2. [node \in Upto(d + 1) |-> [s \in States |-> SerStruct(f, node, s)]]
            = [node \in Upto(d + 1) |-> [s \in States |-> SerStruct(g, node, s)]]
      <4> HIDE DEF g
      <4> QED
        BY <2>3
    <3> HIDE DEF g
    <3> QED
      BY <3>1, <3>2
  <2> HIDE DEF g
  <2>5. SerSolves(g, Upto(d + 1))
    BY <2>4 DEF SerSolves
  <2> QED
    BY <2>5
<1>3. Cardinality(TypeIds) + 1 \in S
  <2> HIDE DEF S
  <2> QED
    BY <1>1, <1>2, SetInduction, UptoGrows
<1> QED
  BY <1>3, UptoGrows

(* The walk of the model is right for all trees. *)
LEMMA SerWalkIs ==
  ASSUME NEW node \in Trees, NEW s \in States
  PROVE  SerWalk[node][s] = SerStruct(SerWalk, node, s)
<1> DEFINE w == SerWalk
<1>1. w = CHOOSE walk : SerSolves(walk, Trees)
  BY DEF SerWalk, SerSolves
<1> HIDE DEF w
<1>2. SerSolves(w, Trees)
  BY <1>1, SerExists
<1> DEFINE v == [n \in Trees |-> [x \in States |-> SerStruct(w, n, x)]]
<1>3. w = v
  BY <1>2 DEF SerSolves
<1>4. v[node][s] = SerStruct(w, node, s)
  OBVIOUS
<1> HIDE DEF v
<1> QED
  BY <1>3, <1>4 DEF w

-----------------------------------------------------------------------------
(* The fields of supported structures                                      *)

Handled(p, all) == all \subseteq TypeIds /\ \A u \in all : Handles(p, u, all)

(* The TypeInfo of a structure. *)
LEMMA StructItem ==
  ASSUME NEW d, NEW name
  PROVE  /\ StructInfo(d, name).name = name
         /\ ~StructInfo(d, name).isArray
         /\ StructInfo(d, name).isStruct <=> d.kind # "union"
         /\ StructInfo(d, name).offset = IF d.kind = "optional" THEN 4 ELSE 0
<1>1. StructInfo(d, name) = Info(name, NoArray, <<>>, Filled(d), StructType(d), 0, StructOffset(d))
  BY DEF StructInfo, Info, NoArray, Filled, StructType, StructOffset
<1>2. \A a, b, c, k, e, f, g : /\ Info(a, b, c, k, e, f, g).name = a
                              /\ Info(a, b, c, k, e, f, g).isArray = b
                              /\ Info(a, b, c, k, e, f, g).isStruct = k
                              /\ Info(a, b, c, k, e, f, g).offset = g
  BY DEF Info
<1>3. /\ StructInfo(d, name).name = name /\ StructInfo(d, name).isArray = NoArray
      /\ StructInfo(d, name).isStruct = Filled(d) /\ StructInfo(d, name).offset = StructOffset(d)
  BY <1>1, <1>2
<1> HIDE DEF StructInfo
<1> QED
  BY <1>3, Zenon DEF NoArray, Filled, StructOffset

(* The TypeInfo of a field of a serializable type. *)
LEMMA PlainItem ==
  ASSUME NEW f, f.type \in Plain
  PROVE  /\ PrimInfo(f).name = f.name
         /\ PrimInfo(f).isArray <=> f.rank > 0
         /\ f.rank > 0 => PrimInfo(f).dims = f.dims
         /\ ~PrimInfo(f).isStruct
         /\ PrimInfo(f).type = PrimType[f.type]
         /\ PrimInfo(f).size = DataSize[PrimType[f.type]]
<1> DEFINE a == f.rank > 0
           ds == IF f.rank > 0 THEN f.dims ELSE <<>>
           type == IF f.type \in DOMAIN PrimType THEN PrimType[f.type] ELSE "Undefined"
           size == DataSize[type]
           zero == 0
           unknown == "Undefined"
           before == Info(f.name, a, ds, NoArray, unknown, zero, zero)
<1>1. FieldInfo(f) = before
  BY DEF FieldInfo, Info, NoArray
<1>2. type = PrimType[f.type]
  BY DEF Plain
<1>3. PrimInfo(f) = [before EXCEPT !.type = type, !.size = size]
  BY <1>1 DEF PrimInfo
<1> HIDE DEF a, ds, type, zero, unknown, size
<1>4. [before EXCEPT !.type = type, !.size = size].name = f.name
  BY DEF Info
<1>5. [before EXCEPT !.type = type, !.size = size].isArray = a
  BY DEF Info
<1>6. [before EXCEPT !.type = type, !.size = size].dims = ds
  BY DEF Info
<1>7. [before EXCEPT !.type = type, !.size = size].isStruct = NoArray
  BY DEF Info
<1>8. [before EXCEPT !.type = type, !.size = size].type = type
  BY DEF Info
<1>9. [before EXCEPT !.type = type, !.size = size].size = size
  BY DEF Info
<1> HIDE DEF before
<1>10. /\ PrimInfo(f).name = f.name /\ PrimInfo(f).isArray = a /\ PrimInfo(f).dims = ds
       /\ PrimInfo(f).isStruct = NoArray /\ PrimInfo(f).type = type /\ PrimInfo(f).size = size
  BY <1>3, <1>4, <1>5, <1>6, <1>7, <1>8, <1>9
<1> QED
  BY <1>2, <1>10, Zenon DEF a, ds, size, NoArray

(* What a supported structure is. *)
LEMMA HandledFacts ==
  ASSUME NEW p \in Programs, NEW all, Handled(p, all), NEW t \in all
  PROVE  /\ t \in TypeIds
         /\ Definition[p][t].kind = "structure" \/ Definition[p][t].kind = "optional"
         /\ Fields(p, t) \in Seq(FieldSet) /\ Len(Fields(p, t)) \in Nat /\ Len(Fields(p, t)) >= 1
         /\ DOMAIN Fields(p, t) = 1..Len(Fields(p, t))
         /\ Definition[p][t].kind = "optional" => Len(Fields(p, t)) <= 30
<1>1. t \in TypeIds /\ Handles(p, t, all)
  BY DEF Handled
<1>2. Fields(p, t) \in Seq(FieldSet) /\ Len(Fields(p, t)) \in Nat
      /\ DOMAIN Fields(p, t) = 1..Len(Fields(p, t))
  BY <1>1, TreeOf
<1>3. /\ Definition[p][t].kind \in {"structure", "optional"}
      /\ Fields(p, t) # <<>>
      /\ Definition[p][t].kind = "optional" => Len(Fields(p, t)) <= 30
  BY <1>1 DEF Handles, Fields
<1>4. Len(Fields(p, t)) >= 1
  <2> DEFINE s == Fields(p, t)
  <2>1. s \in Seq(FieldSet) /\ s # <<>>
    BY <1>2, <1>3
  <2> HIDE DEF s
  <2>2. Len(s) >= 1
    BY <2>1
  <2> QED
    BY <2>2 DEF s
<1> QED
  BY <1>1, <1>2, <1>3, <1>4

(* What its fields are. *)
LEMMA SupportedField ==
  ASSUME NEW p \in Programs, NEW all, Handled(p, all), NEW t \in all, NEW i \in DOMAIN Fields(p, t)
  PROVE  /\ Fields(p, t)[i] \in FieldSet
         /\ Definition[p][t].kind = "optional" => Fields(p, t)[i].optional
         /\ Definition[p][t].kind # "optional" => ~Fields(p, t)[i].optional
         /\ Fields(p, t)[i].type \in TypeIds =>
              /\ Fields(p, t)[i].type \in all /\ Fields(p, t)[i].rank <= 0
              /\ Definition[p][Fields(p, t)[i].type].kind # "union"
         /\ Fields(p, t)[i].type \notin TypeIds =>
              /\ Fields(p, t)[i].type \in Plain
              /\ Fields(p, t)[i].rank > 0 =>
                   Fields(p, t)[i].dims[1] \in Nat /\ Fields(p, t)[i].dims[1] > 0
<1>1. t \in TypeIds /\ Handles(p, t, all)
  BY DEF Handled
<1> DEFINE f == Fields(p, t)[i]
<1>2. f \in FieldSet
  BY HandledFacts
<1>3. /\ f.type \in TypeIds => f.rank = -1 /\ f.type \in all
      /\ f.type \notin TypeIds => /\ f.type \in DOMAIN PrimType /\ PrimType[f.type] \in Serializable
                                  /\ f.rank \in {-1, 1}
                                  /\ f.rank = 1 => f.dims # <<>> /\ f.dims[1] > 0
  BY <1>1 DEF Handles, Fields
<1>0. f.optional <=> Definition[p][t].kind = "optional"
  BY <1>1 DEF Handles, Fields
<1>4. f.dims # <<>> => f.dims[1] \in Nat
  <2>1. f.dims \in Seq(Nat)
    BY <1>2 DEF FieldSet
  <2> DEFINE s == f.dims
  <2>2. s \in Seq(Nat)
    BY <2>1
  <2> HIDE DEF s
  <2>3. s # <<>> => s[1] \in Nat
    BY <2>2
  <2> QED
    BY <2>3 DEF s
<1>5. f.type \in all => Definition[p][f.type].kind # "union"
  <2> HIDE DEF f
  <2> SUFFICES ASSUME f.type \in all
               PROVE  Definition[p][f.type].kind # "union"
    OBVIOUS
  <2>1. Definition[p][f.type].kind = "structure" \/ Definition[p][f.type].kind = "optional"
    BY HandledFacts
  <2> QED
    BY <2>1
<1> HIDE DEF f
<1>6. f.type \notin TypeIds => f.type \in Plain
  BY <1>3 DEF Plain
<1>8. /\ f.type \in TypeIds => f.rank <= 0
      /\ f.type \notin TypeIds /\ f.rank > 0 => f.rank = 1
  BY <1>3
<1>7. /\ f.type \in TypeIds => f.type \in all /\ f.rank <= 0 /\ Definition[p][f.type].kind # "union"
      /\ f.type \notin TypeIds =>
           f.type \in Plain /\ (f.rank > 0 => f.dims[1] \in Nat /\ f.dims[1] > 0)
  BY <1>3, <1>4, <1>5, <1>6, <1>8
<1> QED
  BY <1>0, <1>2, <1>7, Zenon DEF f

(* The child for a field that is a structure. *)
LEMMA NestedChild ==
  ASSUME NEW p \in Programs, NEW f, f.type \in TypeIds, Definition[p][f.type].kind # "union"
  PROVE  /\ ChildTree(p, f).item.name = f.name
         /\ ~ChildTree(p, f).item.isArray /\ ChildTree(p, f).item.isStruct
         /\ Unnamed(ChildTree(p, f)) = Unnamed(Expansion[p][f.type])
<1> DEFINE child == ChildTree(p, f)
           d == Definition[p][f.type]
           t == f.type
           name == f.name
<1>1. child = Called(Expansion[p][t], name)
  BY DEF ChildTree
<1>2. t \in TypeIds /\ d.kind # "union" /\ d = Definition[p][t]
  OBVIOUS
<1> HIDE DEF child, t, name, d
<1>3. Expansion[p][t] = Node(StructInfo(d, t), Children(p, t))
  BY <1>2, TreeOf
<1>4. Called(Expansion[p][t], name) = Node(StructInfo(d, name), Children(p, t))
  BY <1>3, CalledNode
<1>5. Node(StructInfo(d, name), Children(p, t)).item = StructInfo(d, name)
  BY DEF Node
<1>6. child.item = StructInfo(d, name)
  BY <1>1, <1>4, <1>5
<1>7. Unnamed(Called(Expansion[p][t], name)) = Unnamed(Expansion[p][t])
  BY <1>2, UnnamedTree
<1>8. StructInfo(d, name).name = name /\ ~StructInfo(d, name).isArray
      /\ StructInfo(d, name).isStruct
  BY <1>2, StructItem
<1>9. /\ child.item.name = name /\ ~child.item.isArray /\ child.item.isStruct
      /\ Unnamed(child) = Unnamed(Expansion[p][t])
  BY <1>1, <1>6, <1>7, <1>8
<1> QED
  BY <1>9 DEF child, t, name

(* The child for a field that is a plain item, or an array of such. *)
LEMMA PlainChild ==
  ASSUME NEW p \in Programs, NEW f, f.type \in Plain
  PROVE  /\ ChildTree(p, f).item.name = f.name
         /\ ChildTree(p, f).item.isArray <=> f.rank > 0
         /\ f.rank > 0 => ChildTree(p, f).item.dims = f.dims
         /\ ~ChildTree(p, f).item.isStruct
         /\ ChildTree(p, f).item.type = PrimType[f.type] /\ PrimType[f.type] \in Serializable
         /\ ChildTree(p, f).item.size = DataSize[PrimType[f.type]]
<1>1. f.type \in DOMAIN PrimType /\ PrimType[f.type] \in Serializable
  BY DEF Plain
<1>2. f.type \notin TypeIds
  BY <1>1, DefinitionsAssumption
<1>3. ChildTree(p, f) = Node(PrimInfo(f), <<>>)
  BY <1>2 DEF ChildTree
<1>4. Node(PrimInfo(f), <<>>).item = PrimInfo(f)
  BY DEF Node
<1>5. ChildTree(p, f).item = PrimInfo(f)
  BY <1>3, <1>4
<1> QED
  BY <1>1, <1>5, PlainItem

-----------------------------------------------------------------------------
(* What the server sends for a field                                       *)

(* What table v says of field f has the type of the field. *)
Tells(v, f) == f.name \in DOMAIN v.tab => FieldFits(f, v.tab[f.name])

(* The plain item written for f, and the elements of the array it is. *)
ItemOf(v, f) == IF f.name \in DOMAIN v.tab THEN v.tab[f.name] ELSE DefaultOf(PrimType[f.type])
ListOf(v, f) == IF f.name \in DOMAIN v.tab THEN v.tab[f.name].next ELSE <<>>
CountOf(v, f) == Cut(Len(ListOf(v, f)), f.dims[1])

(* A value of a serializable type is no array. *)
LEMMA ScalarIsNoArray ==
  ASSUME NEW type \in Serializable, NEW v, HasType(type, v)
  PROVE  ~Is("arr", v)
<1>1. CASE type \in TextTypes
  BY <1>1, Kinds DEF HasType
<1>2. CASE type = "Bool8"
  BY <1>2, Kinds DEF HasType
<1>3. CASE type \in {"Float", "Double"}
  BY <1>3, Kinds DEF HasType
<1>4. CASE type \in SignedTypes
  BY <1>4, Kinds DEF HasType
<1>5. CASE type \in UnsignedTypes
  BY <1>5, Kinds DEF HasType
<1> QED
  BY <1>1, <1>2, <1>3, <1>4, <1>5 DEF Serializable

(* The server's default for a field is that of its type. *)
LEMMA DefaultIs ==
  ASSUME NEW f, f.type \in Plain, f.rank <= 0, f.rank \in Int
  PROVE  Default(f) = DefaultOf(PrimType[f.type])
<1> DEFINE type == f.type
<1>1. Default(f) = CASE type = "Boolean" -> Bool(FALSE)
                     [] type \in {"String", "ByteString", "STRING"} -> Str(<<>>)
                     [] OTHER -> Num(0)
  <2>1. ~(f.rank > 0)
    OBVIOUS
  <2> QED
    BY <2>1, Zenon DEF Default
<1>2. type \in Plain
  OBVIOUS
<1> HIDE DEF type
<1> DEFINE b == Bool(FALSE)
           t == Str(<<>>)
           n == Num(0)
<1>3. Default(f) = CASE type = "Boolean" -> b [] type \in {"String", "ByteString", "STRING"} -> t [] OTHER -> n
  BY <1>1
<1>4. DefaultOf(PrimType[type]) =
        CASE PrimType[type] = "Bool8" -> b [] PrimType[type] \in TextTypes -> t [] OTHER -> n
  BY DEF DefaultOf
<1> HIDE DEF b, t, n
<1>5. CASE type \in {"Boolean"}
  <2>1. PrimType[type] = "Bool8" /\ PrimType[type] \notin TextTypes
    BY <1>5, SerializableIs DEF PrimType
  <2> QED
    BY <1>3, <1>4, <1>5, <2>1 DEF type
<1>6. CASE type \in {"String", "ByteString", "STRING"}
  <2>1. PrimType[type] # "Bool8" /\ PrimType[type] \in TextTypes
    BY <1>6, SerializableIs DEF PrimType
  <2> QED
    BY <1>3, <1>4, <1>6, <2>1 DEF type
<1>7. CASE type \in {"SByte", "Byte", "Int16", "UInt16", "Int32", "UInt32",
                     "Float", "Double", "BYTE", "WORD", "DWORD"}
  <2>1. PrimType[type] # "Bool8" /\ PrimType[type] \notin TextTypes
    BY <1>7, SerializableIs DEF PrimType
  <2> QED
    BY <1>3, <1>4, <1>7, <2>1 DEF type
<1> QED
  BY <1>2, <1>5, <1>6, <1>7, PlainTypes

(* What the server sends for a plain field. *)
LEMMA PlainText ==
  ASSUME NEW f, f.type \in Plain, f.rank <= 0, f.rank \in Int, NEW v, Tells(v, f), NEW nested
  PROVE  /\ HasType(PrimType[f.type], ItemOf(v, f))
         /\ RefField(nested, f, Given(v, f)) = ScalarOf(PrimType[f.type], ItemOf(v, f))
<1> DEFINE P == PrimType[f.type]
           x == ItemOf(v, f)
<1>1. f.type \in DOMAIN PrimType /\ P \in Serializable /\ f.type \notin TypeIds
  BY DefinitionsAssumption DEF Plain
<1>2. HasType(P, x)
  <2>1. CASE f.name \in DOMAIN v.tab
    <3>1. FieldFits(f, v.tab[f.name])
      BY <2>1 DEF Tells
    <3>2. HasType(P, v.tab[f.name])
      BY <1>1, <3>1 DEF FieldFits
    <3> QED
      BY <2>1, <3>2 DEF ItemOf
  <2>2. CASE f.name \notin DOMAIN v.tab
    <3>1. HasType(P, DefaultOf(P))
      <4> HIDE DEF P
      <4> QED
        BY <1>1, DefaultHasType
    <3> QED
      BY <2>2, <3>1 DEF ItemOf
  <2> QED
    BY <2>1, <2>2
<1>3. ~Is("arr", x)
  <2> HIDE DEF P, x
  <2> QED
    BY <1>1, <1>2, ScalarIsNoArray
<1>4. Given(v, f) = x
  <2>1. Default(f) = DefaultOf(P)
    BY DefaultIs
  <2> HIDE DEF P
  <2>2. x = IF f.name \in DOMAIN v.tab THEN v.tab[f.name] ELSE Default(f)
    BY <2>1 DEF ItemOf, P
  <2> HIDE DEF x
  <2> QED
    BY <1>3, <2>2 DEF Given
<1>5. RefScalar(f.type, x) = ScalarOf(P, x)
  <2> DEFINE t == f.type
  <2>1. t \in Plain /\ HasType(PrimType[t], x)
    BY <1>2
  <2> HIDE DEF t, x
  <2>2. RefScalar(t, x) = ScalarOf(PrimType[t], x)
    BY <2>1, RefScalarIs
  <2> QED
    BY <2>2 DEF t
<1>6. RefField(nested, f, x) = RefScalar(f.type, x)
  <2> HIDE DEF x, P
  <2> QED
    BY <1>1 DEF RefField
<1> QED
  BY <1>2, <1>4, <1>5, <1>6

(* For a nested structure. *)
LEMMA NestedText ==
  ASSUME NEW f, f.type \in TypeIds, f.rank <= 0, f.rank \in Int, NEW v, f.name \in DOMAIN v.tab,
         NEW nested, NEW w, v.tab[f.name] = Tab(w)
  PROVE  RefField(nested, f, Given(v, f)) = nested[f.type][v.tab[f.name]]
<1> DEFINE x == v.tab[f.name]
<1>1. ~Is("arr", x)
  BY Kinds
<1> HIDE DEF x
<1>2. Given(v, f) = x
  BY <1>1 DEF Given, x
<1>3. RefField(nested, f, x) = nested[f.type][x]
  BY DEF RefField
<1> QED
  BY <1>2, <1>3 DEF x

(* A list cut to a length. *)
LEMMA CutSeq ==
  ASSUME NEW S, NEW list \in Seq(S), NEW d \in Nat, NEW cut,
         cut = IF Len(list) > d THEN SubSeq(list, 1, d) ELSE list
  PROVE  /\ cut \in Seq(S) /\ Len(cut) = Cut(Len(list), d) /\ Cut(Len(list), d) \in 0..Len(list)
         /\ \A j \in 1..Cut(Len(list), d) : cut[j] = list[j]
<1> DEFINE n == Len(list)
<1>1. n \in Nat
  OBVIOUS
<1>2. CASE n > d
  <2>1. cut = SubSeq(list, 1, d) /\ Cut(n, d) = d
    BY <1>1, <1>2 DEF Cut
  <2>2. \A i \in 1..d : list[i] \in S
    BY <1>1, <1>2
  <2>3. /\ SubSeq(list, 1, d) \in Seq(S)
        /\ Len(SubSeq(list, 1, d)) = IF 1 <= d THEN d - 1 + 1 ELSE 0
        /\ \A i \in 1..(d - 1 + 1) : SubSeq(list, 1, d)[i] = list[1 + i - 1]
    <3> DEFINE one == 1
    <3>1. \A i \in one..d : list[i] \in S
      BY <2>2
    <3>2. one \in Int /\ d \in Int
      OBVIOUS
    <3> HIDE DEF one
    <3>3. /\ SubSeq(list, one, d) \in Seq(S)
          /\ Len(SubSeq(list, one, d)) = IF one <= d THEN d - one + 1 ELSE 0
          /\ \A i \in 1..(d - one + 1) : SubSeq(list, one, d)[i] = list[one + i - 1]
      BY <3>1, <3>2, SubSeqProperties
    <3> QED
      BY <3>3 DEF one
  <2>4. Len(SubSeq(list, 1, d)) = d /\ \A i \in 1..d : SubSeq(list, 1, d)[i] = list[i]
    BY <2>3
  <2> QED
    BY <1>1, <1>2, <2>1, <2>3, <2>4
<1>3. CASE ~(n > d)
  BY <1>1, <1>3 DEF Cut
<1> QED
  BY <1>2, <1>3

(* The list lua_next goes through. *)
LEMMA ListFacts ==
  ASSUME NEW f, f.type \in Plain, f.rank > 0, f.rank \in Int, f.dims[1] \in Nat,
         NEW v, Tells(v, f)
  PROVE  /\ ListOf(v, f) \in Seq(LuaValues) /\ Len(ListOf(v, f)) \div Place[4] < 128
         /\ AllHave(PrimType[f.type], ListOf(v, f))
         /\ f.name \in DOMAIN v.tab =>
              v.tab[f.name] = [arr |-> v.tab[f.name].arr, next |-> ListOf(v, f)]
         /\ CountOf(v, f) \in 0..Len(ListOf(v, f))
<1> DEFINE P == PrimType[f.type]
           list == ListOf(v, f)
           d == f.dims[1]
<1>1. f.type \in DOMAIN PrimType /\ P \in Serializable
  BY DEF Plain
<1>2. /\ list \in Seq(LuaValues) /\ Len(list) \div Place[4] < 128
      /\ \A j \in 1..Len(list) : HasType(P, list[j])
      /\ f.name \in DOMAIN v.tab => v.tab[f.name] = [arr |-> v.tab[f.name].arr, next |-> list]
  <2>1. CASE f.name \in DOMAIN v.tab
    <3> DEFINE x == v.tab[f.name]
    <3>1. FieldFits(f, x)
      BY <2>1 DEF Tells
    <3> HIDE DEF x
    <3>2. /\ x = [arr |-> x.arr, next |-> x.next] /\ x.next \in Seq(LuaValues)
          /\ x.arr \in Seq(LuaValues)
          /\ Len(x.next) = Len(x.arr) /\ Len(x.arr) \div Place[4] < 128
          /\ \A j \in DOMAIN x.arr : HasType(P, x.next[j])
      BY <1>1, <3>1 DEF FieldFits
    <3>3. list = x.next
      BY <2>1 DEF ListOf, x
    <3>4. DOMAIN x.arr = 1..Len(x.next)
      BY <3>2
    <3>5. Len(list) \div Place[4] < 128
      BY <3>2, <3>3
    <3>6. \A j \in 1..Len(list) : HasType(P, list[j])
      BY <3>2, <3>3, <3>4
    <3> QED
      BY <3>2, <3>3, <3>5, <3>6 DEF x
  <2>2. CASE f.name \notin DOMAIN v.tab
    <3>1. list = <<>>
      BY <2>2 DEF ListOf
    <3> HIDE DEF list
    <3>2. Len(list) = 0 /\ list \in Seq(LuaValues)
      BY <3>1
    <3>3. Len(list) \div Place[4] = 0
      BY <3>2, SMT DEF Place
    <3>4. 1..Len(list) = {}
      BY <3>2
    <3> QED
      BY <2>2, <3>2, <3>3, <3>4
  <2> QED
    BY <2>1, <2>2
<1>3. AllHave(P, list)
  <2> HIDE DEF P, list
  <2> QED
    BY <1>2 DEF AllHave
<1>4. CountOf(v, f) = Cut(Len(list), d) /\ d \in Nat
  BY DEF CountOf
<1>5. Cut(Len(list), d) \in 0..Len(list)
  <2> HIDE DEF list, d
  <2>1. Len(list) \in Nat
    BY <1>2
  <2> QED
    BY <1>4, <2>1 DEF Cut
<1> HIDE DEF list
<1> QED
  BY <1>2, <1>3, <1>4, <1>5 DEF list

(* lua_next goes through the array of the table by index. *)
Straight(v, f) == f.rank > 0 /\ f.name \in DOMAIN v.tab => v.tab[f.name].next = v.tab[f.name].arr

(* For an array, cut to its dimension. *)
LEMMA ArrayText ==
  ASSUME NEW f, f.type \in Plain, f.rank > 0, f.rank \in Int, f.dims[1] \in Nat,
         NEW v, Tells(v, f), Straight(v, f), NEW nested
  PROVE  RefField(nested, f, Given(v, f)) =
           Octets(CountOf(v, f), 4)
             \o FlattenSeq(ElementsOf(PrimType[f.type], ListOf(v, f), CountOf(v, f)))
<1> DEFINE type == f.type
           P == PrimType[type]
           list == ListOf(v, f)
           d == f.dims[1]
           cut == IF Len(list) > d THEN SubSeq(list, 1, d) ELSE list
           count == CountOf(v, f)
<1>1. type \in DOMAIN PrimType /\ P \in Serializable /\ type \notin TypeIds /\ type \in Plain
  BY DefinitionsAssumption DEF Plain
<1>0. /\ list \in Seq(LuaValues) /\ AllHave(P, list)
      /\ f.name \in DOMAIN v.tab => v.tab[f.name] = [arr |-> v.tab[f.name].arr, next |-> list]
  BY ListFacts
<1>2. /\ list \in Seq(LuaValues) /\ \A j \in 1..Len(list) : HasType(P, list[j])
      /\ f.name \in DOMAIN v.tab => v.tab[f.name] = Arr(list)
  <2>1. list \in Seq(LuaValues) /\ \A j \in 1..Len(list) : HasType(P, list[j])
    BY <1>0 DEF AllHave
  <2>2. ASSUME f.name \in DOMAIN v.tab
        PROVE  v.tab[f.name] = Arr(list)
    <3> DEFINE x == v.tab[f.name]
    <3>1. x.next = x.arr
      BY <2>2 DEF Straight
    <3>2. x = [arr |-> x.arr, next |-> list]
      BY <1>0, <2>2
    <3> HIDE DEF x, list
    <3>3. x.next = list
      BY <3>2
    <3>4. x = Arr(list)
      BY <3>1, <3>2, <3>3 DEF Arr
    <3> QED
      BY <3>4 DEF x
  <2> HIDE DEF list, P
  <2> QED
    BY <2>1, <2>2
<1>4. count = Cut(Len(list), d) /\ d \in Nat
  BY DEF CountOf
<1> HIDE DEF count
<1>5. /\ cut \in Seq(LuaValues) /\ Len(cut) = count /\ count \in 0..Len(list)
      /\ \A j \in 1..count : cut[j] = list[j]
  <2> HIDE DEF list, d
  <2> DEFINE c == cut
  <2>1. c = IF Len(list) > d THEN SubSeq(list, 1, d) ELSE list
    OBVIOUS
  <2> HIDE DEF c
  <2>2. /\ c \in Seq(LuaValues) /\ Len(c) = Cut(Len(list), d) /\ Cut(Len(list), d) \in 0..Len(list)
        /\ \A j \in 1..Cut(Len(list), d) : c[j] = list[j]
    BY <1>2, <1>4, <2>1, CutSeq
  <2> QED
    BY <1>4, <2>2 DEF c
<1>6. Given(v, f) = Arr(cut)
  <2> DEFINE g == IF f.name \in DOMAIN v.tab THEN v.tab[f.name] ELSE Default(f)
  <2>1. g = Arr(list)
    <3>1. f.name \notin DOMAIN v.tab => Default(f) = Arr(<<>>) /\ list = <<>>
      BY DEF Default, ListOf
    <3> HIDE DEF list
    <3> QED
      BY <1>2, <3>1
  <2> HIDE DEF g, list
  <2>2. Is("arr", g) /\ g.arr = list
    BY <2>1, Kinds, Contents
  <2>3. Given(v, f) = IF Is("arr", g) /\ Len(g.arr) > d THEN Arr(SubSeq(g.arr, 1, d)) ELSE g
    BY DEF Given, g
  <2> HIDE DEF d
  <2> QED
    BY <2>1, <2>2, <2>3
<1> HIDE DEF cut
<1> DEFINE One(e) == IF type \in TypeIds THEN nested[type][e] ELSE RefScalar(type, e)
<1>7. RefField(nested, f, Arr(cut)) = Octets(Len(cut), 4) \o FlattenSeq([i \in DOMAIN cut |-> One(cut[i])])
  <2>1. ~(f.rank <= 0)
    OBVIOUS
  <2> DEFINE w == Arr(cut)
  <2>2. w.arr = cut
    BY Contents
  <2> HIDE DEF w
  <2>3. RefField(nested, f, w) = Octets(Len(w.arr), 4) \o FlattenSeq([i \in DOMAIN w.arr |-> One(w.arr[i])])
    BY <2>1 DEF RefField
  <2> QED
    BY <2>2, <2>3 DEF w
<1>8. [i \in DOMAIN cut |-> One(cut[i])] = ElementsOf(P, list, count)
  <2>1. DOMAIN cut = 1..count
    BY <1>5
  <2>2. ASSUME NEW j \in 1..count
        PROVE  One(cut[j]) = ScalarOf(P, list[j])
    <3> DEFINE e == list[j]
    <3>1. cut[j] = e /\ HasType(P, e)
      <4>1. j \in 1..Len(list)
        BY <1>2, <1>5
      <4> QED
        BY <1>2, <1>5, <4>1
    <3>2. type \in Plain /\ HasType(PrimType[type], e)
      BY <1>1, <3>1
    <3> HIDE DEF type, e
    <3>3. RefScalar(type, e) = ScalarOf(PrimType[type], e)
      BY <3>2, RefScalarIs
    <3> QED
      BY <1>1, <3>1, <3>3 DEF e
  <2> HIDE DEF P, list, One
  <2> QED
    BY <2>1, <2>2 DEF ElementsOf
<1> HIDE DEF list, One
<1>9. RefField(nested, f, Given(v, f)) = Octets(count, 4) \o FlattenSeq(ElementsOf(P, list, count))
  BY <1>5, <1>6, <1>7, <1>8
<1> QED
  BY <1>9 DEF list, count

(* What serialize writes for a field, with nested structures as they are written. *)
CodeText(nested, f, v) ==
  IF f.type \in TypeIds THEN nested[f.type][v.tab[f.name]]
  ELSE IF f.rank <= 0 THEN ScalarOf(PrimType[f.type], ItemOf(v, f))
  ELSE Octets(CountOf(v, f), 4)
         \o FlattenSeq(ElementsOf(PrimType[f.type], ListOf(v, f), CountOf(v, f)))

(* It is what the server sends for a field that is there, if the nested structures are,
   and arrays are gone through by index. *)
LEMMA RefIsCode ==
  ASSUME NEW f, NEW v, f.rank \in Int,
         f.type \in TypeIds => /\ f.rank <= 0 /\ f.name \in DOMAIN v.tab
                               /\ v.tab[f.name] = Tab(v.tab[f.name].tab),
         f.type \notin TypeIds => f.type \in Plain /\ (f.rank > 0 => f.dims[1] \in Nat),
         Tells(v, f), Straight(v, f), NEW nested
  PROVE  RefField(nested, f, Given(v, f)) = CodeText(nested, f, v)
<1>1. CASE f.type \in TypeIds
  <2> DEFINE w == v.tab[f.name].tab
  <2>1. v.tab[f.name] = Tab(w) /\ f.rank <= 0 /\ f.name \in DOMAIN v.tab
    BY <1>1
  <2> HIDE DEF w
  <2>2. RefField(nested, f, Given(v, f)) = nested[f.type][v.tab[f.name]]
    BY <1>1, <2>1, NestedText
  <2> QED
    BY <1>1, <2>2 DEF CodeText
<1>2. CASE f.type \notin TypeIds /\ f.rank <= 0
  BY <1>2, PlainText DEF CodeText
<1>3. CASE f.type \notin TypeIds /\ f.rank > 0
  <2>1. ~(f.rank <= 0)
    BY <1>3
  <2> QED
    BY <1>3, <2>1, ArrayText DEF CodeText
<1> QED
  BY <1>1, <1>2, <1>3

-----------------------------------------------------------------------------
(* What is written and sent for a structure                                *)

IsText(e) == e \in Texts /\ Len(e) >= 1

(* With what is written, or sent, for the nested structures. *)
FieldText(nested, p, t, v, i) == CodeText(nested, Fields(p, t)[i], v)
FieldTexts(nested, p, t, v) == [i \in DOMAIN Fields(p, t) |-> FieldText(nested, p, t, v, i)]

Header(p, t) == IF Definition[p][t].kind = "optional" THEN GetBits(Len(Fields(p, t))) ELSE <<>>

(* The table has the structure that field f is. *)
HasNested(p, f, v) == f.name \in DOMAIN v.tab /\ v.tab[f.name] \in Structured[p][f.type]

Complete(p, t, v, i) == Fields(p, t)[i].type \in TypeIds => HasNested(p, Fields(p, t)[i], v)

(* What a table holds for a field. *)
LEMMA TableFacts ==
  ASSUME NEW p \in Programs, NEW t \in TypeIds, NEW v \in Tables[p][t],
         NEW i \in DOMAIN Fields(p, t)
  PROVE  /\ v = Tab(v.tab) /\ v \in LuaValues
         /\ Tells(v, Fields(p, t)[i])
         /\ Fields(p, t)[i].name \in DOMAIN v.tab => v.tab[Fields(p, t)[i].name] \in LuaValues
         /\ Fields(p, t)[i].type \in TypeIds /\ Fields(p, t)[i].rank <= 0
            /\ Fields(p, t)[i].name \in DOMAIN v.tab
              => v.tab[Fields(p, t)[i].name] \in Tables[p][Fields(p, t)[i].type]
<1>1. /\ Tables[p][t] \subseteq LuaValues
      /\ v = Tab(v.tab) /\ v.tab \in [DOMAIN v.tab -> LuaValues]
      /\ \A j \in DOMAIN Fields(p, t) :
           Fields(p, t)[j].name \in DOMAIN v.tab =>
             /\ FieldFits(Fields(p, t)[j], v.tab[Fields(p, t)[j].name])
             /\ Fields(p, t)[j].type \in TypeIds /\ Fields(p, t)[j].rank <= 0
                  => v.tab[Fields(p, t)[j].name] \in Tables[p][Fields(p, t)[j].type]
  BY ValuesAssumption
<1> QED
  BY <1>1 DEF Tells

(* The tables in which no structure is missing, and those both sides agree on. *)
LEMMA StructuredIs ==
  ASSUME NEW p \in Programs, NEW t \in TypeIds
  PROVE  /\ \A v : v \in Structured[p][t] <=> v \in Tables[p][t] /\ HasStructures(p, t, v)
         /\ \A v : v \in Regular["encode"][p][t] <=>
                     v \in Structured[p][t] /\ IsRegular("encode", p, t, v)
         /\ \A v : v \in Regular["decode"][p][t] <=>
                     v \in Structured[p][t] /\ IsRegular("decode", p, t, v)
BY RegularAssumption

(* A table has its structures if each of its fields has. *)
LEMMA CompleteFields ==
  ASSUME NEW p \in Programs, NEW all, Handled(p, all), NEW t \in all, NEW v
  PROVE  HasStructures(p, t, v) <=> \A i \in DOMAIN Fields(p, t) : Complete(p, t, v, i)
<1>1. ASSUME NEW i \in DOMAIN Fields(p, t), Fields(p, t)[i].type \in TypeIds
      PROVE  Fields(p, t)[i].rank <= 0
  BY <1>1, SupportedField
<1> QED
  BY <1>1 DEF HasStructures, Complete, HasNested

(* They are tables. *)
LEMMA StructuredIsTable ==
  ASSUME NEW p \in Programs, NEW t \in TypeIds, NEW v \in Structured[p][t]
  PROVE  v = Tab(v.tab) /\ v \in LuaValues /\ v \in Tables[p][t]
<1>1. v \in Tables[p][t]
  BY StructuredIs
<1> QED
  BY <1>1, ValuesAssumption

(* What both sides agree on in a field. *)
LEMMA RegularField ==
  ASSUME NEW p \in Programs, NEW all, Handled(p, all), NEW t \in all,
         NEW v \in Regular["encode"][p][t], NEW i \in DOMAIN Fields(p, t)
  PROVE  /\ Fields(p, t)[i].optional => Fields(p, t)[i].name \in DOMAIN v.tab
         /\ Fields(p, t)[i].type \in TypeIds =>
              /\ Fields(p, t)[i].name \in DOMAIN v.tab
              /\ v.tab[Fields(p, t)[i].name] \in Regular["encode"][p][Fields(p, t)[i].type]
              /\ v.tab[Fields(p, t)[i].name] = Tab(v.tab[Fields(p, t)[i].name].tab)
         /\ Straight(v, Fields(p, t)[i])
<1> DEFINE f == Fields(p, t)[i]
<1>1. /\ f \in FieldSet
      /\ f.type \in TypeIds => f.rank <= 0
      /\ f.type \notin TypeIds => f.type \in Plain
  BY SupportedField
<1>2. t \in TypeIds
  BY HandledFacts
<1>3. v \in Structured[p][t] /\ HasStructures(p, t, v) /\ IsRegular("encode", p, t, v)
  BY <1>2, StructuredIs
<1>4. /\ f.optional => f.name \in DOMAIN v.tab
      /\ f.type \in TypeIds /\ f.rank <= 0 => v.tab[f.name] \in Regular["encode"][p][f.type]
      /\ f.type \in DOMAIN PrimType /\ f.name \in DOMAIN v.tab /\ f.rank > 0 =>
           v.tab[f.name].next = v.tab[f.name].arr
  BY <1>3 DEF IsRegular
<1>5. f.type \in TypeIds => f.name \in DOMAIN v.tab
  BY <1>3 DEF HasStructures
<1> HIDE DEF f
<1>6. f.rank \in Int
  BY <1>1 DEF FieldSet
<1>7. Straight(v, f)
  <2> SUFFICES ASSUME f.rank > 0, f.name \in DOMAIN v.tab
               PROVE  v.tab[f.name].next = v.tab[f.name].arr
    BY DEF Straight
  <2>1. f.type \in Plain
    BY <1>1, <1>6
  <2> QED
    BY <1>4, <2>1 DEF Plain
<1>8. ASSUME f.type \in TypeIds
      PROVE  v.tab[f.name] = Tab(v.tab[f.name].tab)
  <2> DEFINE u == f.type
             w == v.tab[f.name]
  <2>1. u \in TypeIds /\ w \in Regular["encode"][p][u]
    BY <1>1, <1>4, <1>8
  <2> HIDE DEF u, w
  <2>2. w = Tab(w.tab)
    BY <2>1, StructuredIs, StructuredIsTable
  <2> QED
    BY <2>2 DEF w
<1>9. /\ f.optional => f.name \in DOMAIN v.tab
      /\ f.type \in TypeIds => /\ f.name \in DOMAIN v.tab
                               /\ v.tab[f.name] \in Regular["encode"][p][f.type]
                               /\ v.tab[f.name] = Tab(v.tab[f.name].tab)
      /\ Straight(v, f)
  BY <1>1, <1>4, <1>5, <1>7, <1>8
<1> QED
  BY <1>9 DEF f

(* The text of a field, of its three sorts. *)
LEMMA FieldTextIsText ==
  ASSUME NEW p \in Programs, NEW all, Handled(p, all), NEW t \in all, NEW v \in Tables[p][t],
         NEW i \in DOMAIN Fields(p, t), NEW nested,
         Fields(p, t)[i].type \in TypeIds =>
           IsText(nested[Fields(p, t)[i].type][v.tab[Fields(p, t)[i].name]])
  PROVE  IsText(FieldText(nested, p, t, v, i))
<1> DEFINE f == Fields(p, t)[i]
<1>1. /\ f \in FieldSet
      /\ f.type \notin TypeIds => f.type \in Plain
      /\ f.type \notin TypeIds /\ f.rank > 0 => f.dims[1] \in Nat
  BY SupportedField
<1>2. t \in TypeIds
  BY HandledFacts
<1>3. Tells(v, f)
  BY <1>2, TableFacts
<1>4. f.type \in TypeIds => IsText(nested[f.type][v.tab[f.name]])
  OBVIOUS
<1>6. FieldText(nested, p, t, v, i) = CodeText(nested, f, v)
  BY DEF FieldText
<1> HIDE DEF f
<1>7. f.rank \in Int
  BY <1>1 DEF FieldSet
<1>8. CASE f.type \in TypeIds
  BY <1>4, <1>6, <1>8 DEF CodeText
<1>9. CASE f.type \notin TypeIds /\ f.rank <= 0
  <2> DEFINE P == PrimType[f.type]
             x == ItemOf(v, f)
  <2>1. HasType(P, x)
    BY <1>1, <1>3, <1>7, <1>9, PlainText
  <2>2. P \in Serializable
    BY <1>1, <1>9 DEF Plain
  <2>4. CodeText(nested, f, v) = ScalarOf(P, x)
    BY <1>9 DEF CodeText
  <2> HIDE DEF P, x
  <2>3. ScalarOf(P, x) \in Texts /\ Len(ScalarOf(P, x)) >= 1
    BY <2>1, <2>2, ScalarIs
  <2> QED
    BY <1>6, <2>3, <2>4 DEF IsText
<1>10. CASE f.type \notin TypeIds /\ f.rank > 0
  <2> DEFINE P == PrimType[f.type]
             list == ListOf(v, f)
             count == CountOf(v, f)
  <2>1. list \in Seq(LuaValues) /\ AllHave(P, list) /\ count \in 0..Len(list)
    BY <1>1, <1>3, <1>7, <1>10, ListFacts
  <2>2. P \in Serializable
    BY <1>1, <1>10 DEF Plain
  <2>11. CodeText(nested, f, v) = Octets(count, 4) \o FlattenSeq(ElementsOf(P, list, count))
    <3>1. ~(f.rank <= 0)
      BY <1>7, <1>10
    <3> QED
      BY <1>10, <3>1 DEF CodeText
  <2> HIDE DEF P, list, count
  <2> DEFINE texts == ElementsOf(P, list, count)
  <2>3. texts \in Seq(Texts) /\ Len(texts) = count
    BY <2>1, <2>2, ElementsAre
  <2> HIDE DEF texts
  <2>4. PICK up : Partials(texts, up)
    BY <2>3, PartialsExist
  <2>5. FlattenSeq(texts) = up[count] /\ up[count] \in Texts
    <3>1. FlattenSeq(texts) = up[Len(texts)]
      BY <2>3, <2>4, FlattenIsLast
    <3> QED
      BY <2>1, <2>3, <2>4, <3>1 DEF Partials
  <2>6. count \in Nat
    BY <2>1
  <2>7. Octets(count, 4) \in Texts /\ Len(Octets(count, 4)) = 4
    BY <2>6, FourOctets
  <2> DEFINE head == Octets(count, 4)
             rest == up[count]
  <2>8. /\ head \in Texts /\ rest \in Texts /\ Len(head) = 4
        /\ FieldText(nested, p, t, v, i) = head \o rest
    BY <1>6, <2>5, <2>7, <2>11 DEF texts
  <2> HIDE DEF head, rest
  <2>9. head \o rest \in Texts /\ Len(head \o rest) = Len(head) + Len(rest)
    BY <2>8, Concatenation
  <2>10. Len(rest) \in Nat
    BY <2>8 DEF Texts
  <2> QED
    BY <2>8, <2>9, <2>10 DEF IsText
<1> QED
  BY <1>7, <1>8, <1>9, <1>10

(* The header is as long as the offset of the structure (StructOptFld). *)
LEMMA HeaderIs ==
  ASSUME NEW p \in Programs, NEW all, Handled(p, all), NEW t \in all
  PROVE  /\ Header(p, t) \in Texts
         /\ Definition[p][t].kind = "optional" =>
              /\ Len(Header(p, t)) = 4
              /\ Header(p, t) = MaskOf(0..(Len(Fields(p, t)) - 1))
         /\ Definition[p][t].kind # "optional" => Header(p, t) = <<>>
<1> DEFINE n == Len(Fields(p, t))
<1>1. n \in Nat /\ (Definition[p][t].kind = "optional" => n <= 30)
  BY HandledFacts
<1>2. CASE Definition[p][t].kind = "optional"
  <2>2. Header(p, t) = GetBits(n)
    BY <1>2 DEF Header
  <2> HIDE DEF n
  <2>0. n \in Nat /\ n <= 30
    BY <1>1, <1>2
  <2>1. n \in 0..30
    BY <2>0
  <2>3. GetBits(n) \in [1..4 -> Octet] /\ GetBits(n) = MaskOf(0..(n - 1))
    BY <2>1, MaskAssumption
  <2> DEFINE m == GetBits(n)
             k == 4
  <2>5. m \in [1..k -> Octet] /\ k \in Nat
    BY <2>3
  <2> HIDE DEF m, k
  <2>6. m \in Seq(Octet) /\ Len(m) = k
    BY <2>5
  <2>4. m \in Seq(Octet) /\ Len(m) = 4
    BY <2>6 DEF k
  <2>7. Header(p, t) \in Texts /\ Len(Header(p, t)) = 4
    BY <2>2, <2>4 DEF m, Texts
  <2>8. Header(p, t) = MaskOf(0..(Len(Fields(p, t)) - 1))
    BY <2>2, <2>3 DEF n
  <2> QED
    BY <1>2, <2>7, <2>8
<1>3. CASE Definition[p][t].kind # "optional"
  BY <1>3 DEF Header, Texts
<1> QED
  BY <1>2, <1>3

(* The texts of the fields, one behind the other, behind the header. *)
LEMMA FieldTextsAre ==
  ASSUME NEW p \in Programs, NEW all, Handled(p, all), NEW t \in all, NEW v, NEW nested,
         \A i \in DOMAIN Fields(p, t) : IsText(FieldText(nested, p, t, v, i))
  PROVE  /\ FieldTexts(nested, p, t, v) \in Seq(Texts)
         /\ Len(FieldTexts(nested, p, t, v)) = Len(Fields(p, t))
         /\ \A i \in DOMAIN Fields(p, t) :
              FieldTexts(nested, p, t, v)[i] = FieldText(nested, p, t, v, i)
         /\ \E up : /\ Partials(FieldTexts(nested, p, t, v), up)
                    /\ FlattenSeq(FieldTexts(nested, p, t, v)) = up[Len(Fields(p, t))]
                    /\ up[Len(Fields(p, t))] \in Texts
                    /\ IsText(Header(p, t) \o up[Len(Fields(p, t))])
<1> DEFINE texts == FieldTexts(nested, p, t, v)
           n == Len(Fields(p, t))
<1>1. n \in Nat /\ n >= 1 /\ DOMAIN Fields(p, t) = 1..n
  BY HandledFacts
<1>2. texts \in Seq(Texts) /\ Len(texts) = n /\ \A i \in 1..n : Len(texts[i]) >= 1
  BY <1>1 DEF FieldTexts, IsText
<1>12. \A i \in DOMAIN Fields(p, t) : texts[i] = FieldText(nested, p, t, v, i)
  BY DEF FieldTexts
<1> HIDE DEF texts
<1>3. PICK up : Partials(texts, up)
  BY <1>2, PartialsExist
<1>4. FlattenSeq(texts) = up[n]
  <2>1. FlattenSeq(texts) = up[Len(texts)]
    BY <1>2, <1>3, FlattenIsLast
  <2> QED
    BY <1>2, <2>1
<1>5. Header(p, t) \in Texts
  BY HeaderIs
<1>6. Len(up[n]) >= n /\ up[n] \in Texts
  <2>1. \A i \in 1..Len(texts) : Len(texts[i]) >= 1
    BY <1>2
  <2>2. Len(up[Len(texts)]) >= Len(texts)
    BY <1>2, <1>3, <2>1, PartialsGrow
  <2> QED
    BY <1>1, <1>2, <1>3, <2>2 DEF Partials
<1> DEFINE head == Header(p, t)
           body == up[n]
<1>7. head \in Texts /\ body \in Texts /\ Len(body) >= n
  BY <1>5, <1>6
<1> HIDE DEF head, body, n
<1>8. head \o body \in Texts /\ Len(head \o body) = Len(head) + Len(body)
  BY <1>7, Concatenation
<1>9. Len(head) \in Nat /\ Len(body) \in Nat
  BY <1>7 DEF Texts
<1>10. Len(head \o body) >= 1
  BY <1>1, <1>7, <1>8, <1>9
<1>11. IsText(head \o body)
  BY <1>8, <1>10 DEF IsText
<1>13. Partials(texts, up) /\ FlattenSeq(texts) = up[n] /\ up[n] \in Texts
       /\ IsText(Header(p, t) \o up[n])
  BY <1>3, <1>4, <1>6, <1>11 DEF head, body
<1> QED
  BY <1>2, <1>12, <1>13 DEF texts, n

(* Every optional field is there: the bits of the mask are the lowest ones. *)
LEMMA BitsAre ==
  ASSUME NEW p \in Programs, NEW all, Handled(p, all), NEW t \in all,
         Definition[p][t].kind = "optional"
  PROVE  {BitOf(Definition[p][t], i) : i \in DOMAIN Fields(p, t)} = 0..(Len(Fields(p, t)) - 1)
<1> DEFINE n == Len(Fields(p, t))
           d == Definition[p][t]
<1>1. n \in Nat /\ DOMAIN Fields(p, t) = 1..n /\ d.fields = Fields(p, t)
  BY HandledFacts DEF Fields
<1>2. \A j \in 1..n : d.fields[j].optional
  BY <1>1, SupportedField
<1> HIDE DEF n, d
<1>3. ASSUME NEW i \in 1..n
      PROVE  BitOf(d, i) = i - 1
  <2>1. \A j \in 1..(i - 1) : j \in 1..n
    BY <1>1
  <2>2. {j \in 1..(i - 1) : d.fields[j].optional} = 1..(i - 1)
    BY <1>2, <2>1
  <2>3. Cardinality(1..(i - 1)) = i - 1
    <3> DEFINE k == i - 1
               one == 1
    <3>1. k \in Int /\ one \in Int /\ k >= 0
      BY <1>1
    <3> HIDE DEF k, one
    <3>2. Cardinality(one..k) = IF one > k THEN 0 ELSE k - one + 1
      BY <3>1, FS_Interval
    <3>3. k - 1 + 1 = k
      BY <3>1
    <3>4. Cardinality(one..k) = k
      BY <3>1, <3>2, <3>3 DEF one
    <3> QED
      BY <3>4 DEF k, one
  <2> QED
    BY <2>2, <2>3 DEF BitOf
<1>4. {BitOf(d, i) : i \in 1..n} = {i - 1 : i \in 1..n}
  BY <1>3
<1>5. {i - 1 : i \in 1..n} = 0..(n - 1)
  <2>1. ASSUME NEW k \in 0..(n - 1)
        PROVE  k \in {i - 1 : i \in 1..n}
    <3>1. k + 1 \in 1..n /\ (k + 1) - 1 = k
      BY <1>1
    <3> QED
      BY <3>1
  <2>2. ASSUME NEW i \in 1..n
        PROVE  i - 1 \in 0..(n - 1)
    BY <1>1
  <2> QED
    BY <2>1, <2>2
<1> QED
  BY <1>1, <1>4, <1>5 DEF n, d

(* A body is the header and the texts of the fields, when both sides agree on the table. *)
LEMMA EncodingIs ==
  ASSUME NEW p \in Programs, NEW all, Handled(p, all), NEW t \in all,
         NEW v \in Regular["encode"][p][t],
         FlattenSeq(FieldTexts(Encoding[p], p, t, v)) \in Texts
  PROVE  Encoding[p][t][v] = Header(p, t) \o FlattenSeq(FieldTexts(Encoding[p], p, t, v))
<1> DEFINE d == Definition[p][t]
           nested == Encoding[p]
           texts == FieldTexts(nested, p, t, v)
           Absent(f) == f.name \notin DOMAIN v.tab /\ (f.optional \/ f.type \in TypeIds)
           sent == {BitOf(d, i) : i \in {i \in DOMAIN d.fields :
                                           d.fields[i].optional /\ ~Absent(d.fields[i])}}
           body == [i \in DOMAIN d.fields |->
                      IF Absent(d.fields[i]) THEN <<>>
                      ELSE RefField(nested, d.fields[i], Given(v, d.fields[i]))]
<1>1. /\ t \in TypeIds /\ (d.kind = "structure" \/ d.kind = "optional") /\ d.fields = Fields(p, t)
      /\ v \in Tables[p][t]
  BY HandledFacts, StructuredIs, StructuredIsTable DEF Fields
<1>2. Encoding[p][t][v] = RefBody(nested, d, v)
  BY <1>1, EncodingAssumption
<1>3. ASSUME NEW i \in DOMAIN Fields(p, t)
      PROVE  ~Absent(Fields(p, t)[i])
  BY RegularField
<1>4. ASSUME NEW i \in DOMAIN Fields(p, t)
      PROVE  RefField(nested, Fields(p, t)[i], Given(v, Fields(p, t)[i])) = texts[i]
  <2> DEFINE f == Fields(p, t)[i]
  <2>1. /\ f \in FieldSet
        /\ f.type \in TypeIds => f.rank <= 0
        /\ f.type \notin TypeIds => f.type \in Plain /\ (f.rank > 0 => f.dims[1] \in Nat)
    BY SupportedField
  <2>2. Tells(v, f)
    BY <1>1, TableFacts
  <2>3. /\ f.type \in TypeIds => /\ f.name \in DOMAIN v.tab
                                 /\ v.tab[f.name] = Tab(v.tab[f.name].tab)
        /\ Straight(v, f)
    BY RegularField
  <2>4. texts[i] = CodeText(nested, f, v)
    BY DEF FieldTexts, FieldText
  <2> HIDE DEF f, texts, nested
  <2>5. f.rank \in Int
    BY <2>1 DEF FieldSet
  <2>6. RefField(nested, f, Given(v, f)) = CodeText(nested, f, v)
    BY <2>1, <2>2, <2>3, <2>5, RefIsCode
  <2> QED
    BY <2>4, <2>6 DEF f
<1>5. body = texts
  <2>1. DOMAIN texts = DOMAIN Fields(p, t) /\ texts = [i \in DOMAIN Fields(p, t) |-> texts[i]]
    BY DEF FieldTexts
  <2>2. body = [i \in DOMAIN Fields(p, t) |->
                  IF Absent(Fields(p, t)[i]) THEN <<>>
                  ELSE RefField(nested, Fields(p, t)[i], Given(v, Fields(p, t)[i]))]
    BY <1>1
  <2> HIDE DEF Absent, texts, body, nested
  <2> QED
    BY <1>3, <1>4, <2>1, <2>2
<1>6. RefBody(nested, d, v) =
        CASE d.kind = "structure" -> FlattenSeq(body)
          [] d.kind = "optional"  -> MaskOf(sent) \o FlattenSeq(body)
          [] OTHER                -> Octets(1, 4) \o body[1]
  BY DEF RefBody
<1>7. CASE d.kind = "structure"
  <2>1. Header(p, t) = <<>>
    BY <1>7, HeaderIs
  <2>2. FlattenSeq(texts) \in Texts
    OBVIOUS
  <2>3. \A e \in Texts : <<>> \o e = e
    BY DEF Texts
  <2> QED
    BY <1>2, <1>5, <1>6, <1>7, <2>1, <2>2, <2>3
<1>8. CASE d.kind = "optional"
  <2>1. sent = {BitOf(d, i) : i \in DOMAIN Fields(p, t)}
    <3>1. \A i \in DOMAIN Fields(p, t) : Fields(p, t)[i].optional /\ ~Absent(Fields(p, t)[i])
      BY <1>3, <1>8, SupportedField
    <3> HIDE DEF Absent
    <3>2. {i \in DOMAIN d.fields : d.fields[i].optional /\ ~Absent(d.fields[i])} = DOMAIN Fields(p, t)
      BY <1>1, <3>1
    <3> QED
      BY <3>2
  <2>2. sent = 0..(Len(Fields(p, t)) - 1)
    BY <1>8, <2>1, BitsAre
  <2>3. Header(p, t) = MaskOf(sent)
    BY <1>8, <2>2, HeaderIs
  <2> HIDE DEF sent, body, texts
  <2>4. RefBody(nested, d, v) = MaskOf(sent) \o FlattenSeq(body)
    <3>1. d.kind # "structure"
      BY <1>8
    <3> QED
      BY <1>6, <1>8, <3>1
  <2>5. Encoding[p][t][v] = Header(p, t) \o FlattenSeq(texts)
    BY <1>2, <1>5, <2>3, <2>4
  <2> QED
    BY <2>5 DEF texts
<1> HIDE DEF d
<1> QED
  BY <1>1, <1>7, <1>8

(* Induction over the nesting of structures. *)
LEMMA DepthInduction ==
  ASSUME NEW p \in Programs, NEW all, all \subseteq TypeIds, NEW G,
         \A t \in all : (\A u \in all : Depth(p)[u] < Depth(p)[t] => u \in G) => t \in G
  PROVE  all \subseteq G
<1> DEFINE S == {d \in Nat : \A u \in all : Depth(p)[u] < d => u \in G}
<1>1. \A u \in all : Depth(p)[u] \in Nat
  <2>1. Depth(p) \in [TypeIds -> 0..Cardinality(TypeIds)]
    BY DepthFacts
  <2> QED
    BY <2>1
<1>2. 0 \in S
  BY <1>1
<1>3. ASSUME NEW d \in Nat, d \in S
      PROVE  d + 1 \in S
  <2> SUFFICES ASSUME NEW u \in all, Depth(p)[u] < d + 1
               PROVE  u \in G
    OBVIOUS
  <2>1. ASSUME NEW x \in all, Depth(p)[x] < Depth(p)[u]
        PROVE  x \in G
    <3> DEFINE a == Depth(p)[x]
               b == Depth(p)[u]
    <3>1. a \in Nat /\ b \in Nat /\ a < b /\ b < d + 1
      BY <1>1, <2>1
    <3> HIDE DEF a, b
    <3>2. a < d
      BY <3>1
    <3>3. Depth(p)[x] < d
      BY <3>2 DEF a
    <3> QED
      BY <1>3, <3>3
  <2> QED
    BY <2>1
<1>4. Nat \subseteq S
  <2> HIDE DEF S
  <2> QED
    BY <1>2, <1>3, SetInduction
<1> SUFFICES ASSUME NEW t \in all
             PROVE  t \in G
  OBVIOUS
<1> DEFINE d == Depth(p)[t]
<1>5. d \in Nat
  BY <1>1
<1> HIDE DEF d
<1>6. d + 1 \in S /\ d < d + 1
  BY <1>4, <1>5
<1> QED
  BY <1>6 DEF d

(* Every encoding is a text, by induction on the nesting. *)
LEMMA EncodingIsText ==
  ASSUME NEW p \in Programs, NEW all, Handled(p, all)
  PROVE  \A t \in all : \A v \in Regular["encode"][p][t] : IsText(Encoding[p][t][v])
<1> DEFINE G == {t \in all : \A v \in Regular["encode"][p][t] : IsText(Encoding[p][t][v])}
<1>1. ASSUME NEW t \in all, \A u \in all : Depth(p)[u] < Depth(p)[t] => u \in G
      PROVE  t \in G
  <2> SUFFICES ASSUME NEW v \in Regular["encode"][p][t]
               PROVE  IsText(Encoding[p][t][v])
    OBVIOUS
  <2>1. \A u \in all : Depth(p)[u] < Depth(p)[t] =>
          \A w \in Regular["encode"][p][u] : IsText(Encoding[p][u][w])
    BY <1>1
  <2>2. t \in TypeIds /\ v \in Tables[p][t]
    BY HandledFacts, StructuredIs
  <2>3. ASSUME NEW i \in DOMAIN Fields(p, t)
        PROVE  IsText(FieldText(Encoding[p], p, t, v, i))
    <3> DEFINE u == Fields(p, t)[i].type
               w == v.tab[Fields(p, t)[i].name]
    <3>1. u \in TypeIds => /\ u \in all /\ w \in Regular["encode"][p][u]
                           /\ Depth(p)[u] < Depth(p)[t]
      BY <2>2, RegularField, SupportedField, DepthFacts DEF NestsBelow
    <3>2. u \in TypeIds => IsText(Encoding[p][u][w])
      <4> HIDE DEF u, w
      <4> QED
        BY <2>1, <3>1
    <3> QED
      BY <2>2, <3>2, FieldTextIsText
  <2>4. PICK up : /\ FlattenSeq(FieldTexts(Encoding[p], p, t, v)) = up[Len(Fields(p, t))]
                  /\ up[Len(Fields(p, t))] \in Texts
                  /\ IsText(Header(p, t) \o up[Len(Fields(p, t))])
    BY <2>3, FieldTextsAre
  <2>5. Encoding[p][t][v] = Header(p, t) \o FlattenSeq(FieldTexts(Encoding[p], p, t, v))
    BY <2>4, EncodingIs
  <2> QED
    BY <2>4, <2>5
<1>2. all \subseteq TypeIds
  BY DEF Handled
<1>3. all \subseteq G
  <2> HIDE DEF G
  <2> QED
    BY <1>1, <1>2, DepthInduction
<1> QED
  BY <1>3

(* The texts of the fields of a body. *)
LEMMA BodyIs ==
  ASSUME NEW p \in Programs, NEW all, Handled(p, all), NEW t \in all,
         NEW v \in Regular["encode"][p][t]
  PROVE  /\ FieldTexts(Encoding[p], p, t, v) \in Seq(Texts)
         /\ Len(FieldTexts(Encoding[p], p, t, v)) = Len(Fields(p, t))
         /\ \A i \in DOMAIN Fields(p, t) :
              FieldTexts(Encoding[p], p, t, v)[i] = FieldText(Encoding[p], p, t, v, i)
         /\ \E up : /\ Partials(FieldTexts(Encoding[p], p, t, v), up)
                    /\ Encoding[p][t][v] = Header(p, t) \o up[Len(Fields(p, t))]
<1>1. \A u \in all : \A w \in Regular["encode"][p][u] : IsText(Encoding[p][u][w])
  BY EncodingIsText
<1>2. t \in TypeIds /\ v \in Tables[p][t]
  BY HandledFacts, StructuredIs
<1>3. ASSUME NEW i \in DOMAIN Fields(p, t)
      PROVE  IsText(FieldText(Encoding[p], p, t, v, i))
  <2> DEFINE u == Fields(p, t)[i].type
             w == v.tab[Fields(p, t)[i].name]
  <2>1. u \in TypeIds => u \in all /\ w \in Regular["encode"][p][u]
    BY RegularField, SupportedField
  <2>2. u \in TypeIds => IsText(Encoding[p][u][w])
    <3> HIDE DEF u, w
    <3> QED
      BY <1>1, <2>1
  <2> QED
    BY <1>2, <2>2, FieldTextIsText
<1> DEFINE texts == FieldTexts(Encoding[p], p, t, v)
           n == Len(Fields(p, t))
<1>4. /\ texts \in Seq(Texts) /\ Len(texts) = n
      /\ \A i \in DOMAIN Fields(p, t) : texts[i] = FieldText(Encoding[p], p, t, v, i)
      /\ \E up : Partials(texts, up) /\ FlattenSeq(texts) = up[n] /\ up[n] \in Texts
  BY <1>3, FieldTextsAre
<1>5. PICK up : Partials(texts, up) /\ FlattenSeq(texts) = up[n] /\ up[n] \in Texts
  BY <1>4
<1>6. Encoding[p][t][v] = Header(p, t) \o FlattenSeq(texts)
  BY <1>5, EncodingIs
<1> HIDE DEF texts, n
<1>7. Partials(texts, up) /\ Encoding[p][t][v] = Header(p, t) \o up[n]
  BY <1>5, <1>6
<1> QED
  BY <1>4, <1>7 DEF texts, n

-----------------------------------------------------------------------------
(* Decoding                                                                *)

(* The values the server may have that are read back. *)
Received(p, t) == Sample[p][t] \cap Regular["decode"][p][t]

(* They have all fields, and Lua keeps their numbers. *)
LEMMA WholeFacts ==
  ASSUME NEW p \in Programs, NEW all, Handled(p, all), NEW t \in all, NEW v \in Received(p, t)
  PROVE  /\ v \in Tables[p][t] /\ v \in Structured[p][t]
         /\ DOMAIN v.tab = {Fields(p, t)[i].name : i \in DOMAIN Fields(p, t)}
         /\ v = Tab(v.tab) /\ v.tab \in [DOMAIN v.tab -> LuaValues]
         /\ \A i \in DOMAIN Fields(p, t) :
              /\ Fields(p, t)[i].name \in DOMAIN v.tab
              /\ Fields(p, t)[i].rank > 0 =>
                   /\ v.tab[Fields(p, t)[i].name] = Arr(v.tab[Fields(p, t)[i].name].arr)
                   /\ Len(v.tab[Fields(p, t)[i].name].arr) <= Fields(p, t)[i].dims[1]
              /\ ~(Fields(p, t)[i].rank > 0) /\ Fields(p, t)[i].type \in TypeIds =>
                   v.tab[Fields(p, t)[i].name] \in Received(p, Fields(p, t)[i].type)
              /\ ~(Fields(p, t)[i].rank > 0) /\ Fields(p, t)[i].type \in Plain =>
                   Keeps(PrimType[Fields(p, t)[i].type], v.tab[Fields(p, t)[i].name])
              /\ Fields(p, t)[i].rank > 0 /\ Fields(p, t)[i].type \in Plain =>
                   \A j \in DOMAIN v.tab[Fields(p, t)[i].name].arr :
                     Keeps(PrimType[Fields(p, t)[i].type], v.tab[Fields(p, t)[i].name].arr[j])
<1>1. t \in TypeIds /\ Definition[p][t].kind # "union"
  <2>1. t \in TypeIds /\ (Definition[p][t].kind = "structure" \/ Definition[p][t].kind = "optional")
    BY HandledFacts
  <2> QED
    BY <2>1
<1>2. v \in Sample[p][t] /\ v \in Structured[p][t] /\ IsRegular("decode", p, t, v)
  BY <1>1, StructuredIs DEF Received
<1>3. v \in Tables[p][t] /\ IsWhole(p, t, v)
  BY <1>1, <1>2, ValuesAssumption
<1>4. v = Tab(v.tab) /\ v.tab \in [DOMAIN v.tab -> LuaValues]
  BY <1>1, <1>3, ValuesAssumption
<1>5. ASSUME NEW i \in DOMAIN Fields(p, t)
      PROVE  /\ Fields(p, t)[i].name \in DOMAIN v.tab
             /\ Fields(p, t)[i].rank > 0 =>
                  /\ v.tab[Fields(p, t)[i].name] = Arr(v.tab[Fields(p, t)[i].name].arr)
                  /\ Len(v.tab[Fields(p, t)[i].name].arr) <= Fields(p, t)[i].dims[1]
             /\ ~(Fields(p, t)[i].rank > 0) /\ Fields(p, t)[i].type \in TypeIds =>
                  v.tab[Fields(p, t)[i].name] \in Received(p, Fields(p, t)[i].type)
             /\ ~(Fields(p, t)[i].rank > 0) /\ Fields(p, t)[i].type \in Plain =>
                  Keeps(PrimType[Fields(p, t)[i].type], v.tab[Fields(p, t)[i].name])
             /\ Fields(p, t)[i].rank > 0 /\ Fields(p, t)[i].type \in Plain =>
                  \A j \in DOMAIN v.tab[Fields(p, t)[i].name].arr :
                    Keeps(PrimType[Fields(p, t)[i].type], v.tab[Fields(p, t)[i].name].arr[j])
  <2> DEFINE f == Fields(p, t)[i]
             g == v.tab[f.name]
  <2>1. IF f.name \notin DOMAIN v.tab THEN f.optional
        ELSE IF f.rank > 0 THEN g = Arr(g.arr) /\ Len(g.arr) <= f.dims[1]
        ELSE f.type \in TypeIds => g \in Sample[p][f.type]
    BY <1>3 DEF IsWhole
  <2>2. /\ f.optional => f.name \in DOMAIN v.tab
        /\ f.type \in TypeIds /\ f.rank <= 0 => g \in Regular["decode"][p][f.type]
        /\ f.type \in DOMAIN PrimType /\ f.name \in DOMAIN v.tab =>
             IF f.rank > 0 THEN \A j \in DOMAIN g.arr : Keeps(PrimType[f.type], g.arr[j])
             ELSE Keeps(PrimType[f.type], g)
    BY <1>2 DEF IsRegular
  <2>3. f \in FieldSet
    BY SupportedField
  <2> HIDE DEF f, g
  <2>4. ~(f.rank > 0) => f.rank <= 0
    BY <2>3 DEF FieldSet
  <2>5. f.name \in DOMAIN v.tab
    BY <2>1, <2>2
  <2>6. /\ f.rank > 0 => g = Arr(g.arr) /\ Len(g.arr) <= f.dims[1]
        /\ ~(f.rank > 0) /\ f.type \in TypeIds => g \in Received(p, f.type)
    BY <2>1, <2>2, <2>4, <2>5 DEF Received
  <2>7. /\ ~(f.rank > 0) /\ f.type \in Plain => Keeps(PrimType[f.type], g)
        /\ f.rank > 0 /\ f.type \in Plain => \A j \in DOMAIN g.arr : Keeps(PrimType[f.type], g.arr[j])
    BY <2>2, <2>5 DEF Plain
  <2> QED
    BY <2>5, <2>6, <2>7 DEF f, g
<1>6. DOMAIN v.tab = {Fields(p, t)[i].name : i \in DOMAIN Fields(p, t)}
  <2>1. DOMAIN v.tab \subseteq {Fields(p, t)[i].name : i \in DOMAIN Fields(p, t)}
    BY <1>3 DEF IsWhole
  <2>2. {Fields(p, t)[i].name : i \in DOMAIN Fields(p, t)} \subseteq DOMAIN v.tab
    BY <1>5
  <2> QED
    BY <2>1, <2>2
<1> QED
  BY <1>2, <1>3, <1>4, <1>5, <1>6

(* They are among the tables both sides agree on. *)
LEMMA ReceivedIsRegular ==
  ASSUME NEW p \in Programs, NEW all, Handled(p, all)
  PROVE  \A t \in all : Received(p, t) \subseteq Regular["encode"][p][t]
<1> DEFINE G == {t \in all : Received(p, t) \subseteq Regular["encode"][p][t]}
<1>1. ASSUME NEW t \in all, \A u \in all : Depth(p)[u] < Depth(p)[t] => u \in G
      PROVE  t \in G
  <2> SUFFICES ASSUME NEW v \in Received(p, t)
               PROVE  v \in Regular["encode"][p][t]
    OBVIOUS
  <2>1. t \in TypeIds /\ v \in Structured[p][t]
    BY HandledFacts, WholeFacts
  <2>2. ASSUME NEW i \in DOMAIN Fields(p, t)
        PROVE  /\ Fields(p, t)[i].name \in DOMAIN v.tab
               /\ Fields(p, t)[i].type \in TypeIds =>
                    v.tab[Fields(p, t)[i].name] \in Regular["encode"][p][Fields(p, t)[i].type]
               /\ Fields(p, t)[i].rank > 0 =>
                    v.tab[Fields(p, t)[i].name].next = v.tab[Fields(p, t)[i].name].arr
    <3> DEFINE f == Fields(p, t)[i]
               g == v.tab[f.name]
    <3>1. /\ f \in FieldSet
          /\ f.type \in TypeIds => f.type \in all /\ f.rank <= 0
      BY SupportedField
    <3>2. /\ f.name \in DOMAIN v.tab
          /\ f.rank > 0 => g = Arr(g.arr)
          /\ ~(f.rank > 0) /\ f.type \in TypeIds => g \in Received(p, f.type)
      BY WholeFacts
    <3>3. f.type \in TypeIds => Depth(p)[f.type] < Depth(p)[t]
      BY <2>1, DepthFacts DEF NestsBelow
    <3> HIDE DEF f, g
    <3>4. f.type \in TypeIds => ~(f.rank > 0)
      BY <3>1 DEF FieldSet
    <3>5. f.type \in TypeIds => g \in Regular["encode"][p][f.type]
      BY <1>1, <3>1, <3>2, <3>3, <3>4
    <3>6. ASSUME f.rank > 0
          PROVE  g.next = g.arr
      <4> DEFINE s == g.arr
      <4>1. g = Arr(s)
        BY <3>2, <3>6
      <4> HIDE DEF s
      <4>2. g.next = s /\ g.arr = s
        BY <4>1, Contents
      <4> QED
        BY <4>2
    <3> QED
      BY <3>2, <3>5, <3>6 DEF f, g
  <2>3. IsRegular("encode", p, t, v)
    BY <2>2 DEF IsRegular
  <2> QED
    BY <2>1, <2>3, StructuredIs
<1>2. all \subseteq TypeIds
  BY DEF Handled
<1>3. all \subseteq G
  <2> HIDE DEF G
  <2> QED
    BY <1>1, <1>2, DepthInduction
<1> QED
  BY <1>3

(* The walk finds every value of type u where its body lies. *)
Decoded(p, u, buf) ==
  \A w \in Received(p, u), a \in Nat :
    At(buf, a, Encoding[p][u][w]) =>
      DeserWalk(buf)[Unnamed(Expansion[p][u])][a] = Done(a + Len(Encoding[p][u][w]), w)

(* A field is read where it lies, if nested structures are. *)
LEMMA ChildIsRead ==
  ASSUME NEW p \in Programs, NEW all, Handled(p, all), NEW t \in all, NEW v \in Received(p, t),
         NEW i \in DOMAIN Fields(p, t), NEW buf \in Texts, NEW a \in Nat,
         At(buf, a, FieldText(Encoding[p], p, t, v, i)),
         \A u \in all : Depth(p)[u] < Depth(p)[t] => Decoded(p, u, buf)
  PROVE  DeserChild(DeserWalk(buf), ChildTree(p, Fields(p, t)[i]), buf, a)
           = Done(a + Len(FieldText(Encoding[p], p, t, v, i)), v.tab[Fields(p, t)[i].name])
<1> DEFINE f == Fields(p, t)[i]
           e == FieldText(Encoding[p], p, t, v, i)
           x == v.tab[f.name]
           walk == DeserWalk(buf)
<1>1. /\ f \in FieldSet
      /\ f.type \in TypeIds =>
           f.type \in all /\ f.rank <= 0 /\ Definition[p][f.type].kind # "union"
      /\ f.type \notin TypeIds => f.type \in Plain
      /\ f.type \notin TypeIds /\ f.rank > 0 => f.dims[1] \in Nat
  BY SupportedField
<1>2. t \in TypeIds /\ v \in Tables[p][t]
  BY HandledFacts, WholeFacts
<1>3. Tells(v, f)
  BY <1>2, TableFacts
<1>4. /\ f.name \in DOMAIN v.tab
      /\ f.rank > 0 => x = Arr(x.arr) /\ Len(x.arr) <= f.dims[1]
      /\ ~(f.rank > 0) /\ f.type \in TypeIds => x \in Received(p, f.type)
      /\ ~(f.rank > 0) /\ f.type \in Plain => Keeps(PrimType[f.type], x)
      /\ f.rank > 0 /\ f.type \in Plain => \A j \in DOMAIN x.arr : Keeps(PrimType[f.type], x.arr[j])
  BY WholeFacts
<1>5. f.type \in TypeIds => Depth(p)[f.type] < Depth(p)[t]
  BY <1>2, DepthFacts DEF NestsBelow
<1>6. e = CodeText(Encoding[p], f, v) /\ At(buf, a, e)
  BY DEF FieldText
<1> DEFINE item == ChildTree(p, f).item
<1> HIDE DEF f, e, walk
<1>7. f.rank \in Int
  BY <1>1 DEF FieldSet
<1>8. CASE f.type \in TypeIds
  <2> DEFINE u == f.type
  <2>1. x \in Received(p, u) /\ u \in all /\ u \in TypeIds
    BY <1>1, <1>4, <1>7, <1>8
  <2>2. Decoded(p, u, buf)
    BY <1>1, <1>5, <1>8
  <2>4. e = Encoding[p][u][x]
    BY <1>6, <1>8 DEF CodeText
  <2>5. /\ ~item.isArray /\ item.isStruct
        /\ Unnamed(ChildTree(p, f)) = Unnamed(Expansion[p][u])
    BY <1>1, <1>8, NestedChild
  <2>6. DeserChild(walk, ChildTree(p, f), buf, a) = walk[Unnamed(Expansion[p][u])][a]
    <3> HIDE DEF u
    <3> QED
      BY <2>5 DEF DeserChild
  <2>7. walk[Unnamed(Expansion[p][u])][a] = Done(a + Len(e), x)
    <3> HIDE DEF u, x
    <3> QED
      BY <1>6, <2>1, <2>2, <2>4 DEF Decoded, walk
  <2> QED
    BY <2>6, <2>7 DEF f, e, walk
<1>9. CASE f.type \notin TypeIds /\ ~(f.rank > 0)
  <2> DEFINE P == PrimType[f.type]
  <2>1. f.rank <= 0 /\ f.type \in Plain
    BY <1>1, <1>7, <1>9
  <2>2. HasType(P, ItemOf(v, f)) /\ e = ScalarOf(P, ItemOf(v, f)) /\ Keeps(P, x)
    BY <1>3, <1>4, <1>6, <1>7, <1>9, <2>1, PlainText DEF CodeText
  <2>3. ItemOf(v, f) = x
    BY <1>4 DEF ItemOf
  <2>4. ~item.isArray /\ ~item.isStruct /\ item.type = P /\ P \in Serializable
        /\ item.size = DataSize[P]
    BY <1>9, <2>1, PlainChild
  <2>5. DeserChild(walk, ChildTree(p, f), buf, a) = DeserPrim(item, buf, a)
    <3> HIDE DEF P
    <3> QED
      BY <2>4 DEF DeserChild
  <2>6. DeserPrim(item, buf, a) = Done(a + Len(e), x)
    <3> HIDE DEF x, item, P
    <3>1. item.type \in Serializable /\ item.size = DataSize[item.type] /\ HasType(item.type, x)
          /\ Keeps(item.type, x) /\ e = ScalarOf(item.type, x)
      BY <2>2, <2>3, <2>4
    <3>2. DeserPrim(item, buf, a) = Done(a + Len(ScalarOf(item.type, x)), x)
      BY <1>6, <3>1, ScalarIsRead
    <3> QED
      BY <3>1, <3>2
  <2> QED
    BY <2>5, <2>6 DEF f, e, walk
<1>10. CASE f.type \notin TypeIds /\ f.rank > 0
  <2> DEFINE P == PrimType[f.type]
             list == ListOf(v, f)
             d == f.dims[1]
  <2>1. /\ list \in Seq(LuaValues) /\ Len(list) \div Place[4] < 128 /\ AllHave(P, list)
        /\ x = Arr(list) /\ CountOf(v, f) \in 0..Len(list)
        /\ e = Octets(CountOf(v, f), 4) \o FlattenSeq(ElementsOf(P, list, CountOf(v, f)))
    <3>1. /\ list \in Seq(LuaValues) /\ Len(list) \div Place[4] < 128 /\ AllHave(P, list)
          /\ x = [arr |-> x.arr, next |-> list] /\ CountOf(v, f) \in 0..Len(list)
      BY <1>1, <1>3, <1>4, <1>7, <1>10, ListFacts
    <3>2. ~(f.rank <= 0)
      BY <1>7, <1>10
    <3>3. e = Octets(CountOf(v, f), 4) \o FlattenSeq(ElementsOf(P, list, CountOf(v, f)))
      BY <1>6, <1>10, <3>2 DEF CodeText
    <3> HIDE DEF list, x
    <3>4. x = Arr(list)
      <4> DEFINE s == x.arr
      <4>1. x = Arr(s) /\ x = [arr |-> s, next |-> list]
        BY <1>4, <1>10, <3>1
      <4> HIDE DEF s
      <4>2. x.next = s /\ x.next = list
        <5>1. x = Arr(s)
          BY <4>1
        <5>2. x = [arr |-> s, next |-> list]
          BY <4>1
        <5>3. x.next = s
          BY <5>1, Contents
        <5>4. x.next = list
          BY <5>2
        <5> QED
          BY <5>3, <5>4
      <4> QED
        BY <4>1, <4>2
    <3> QED
      BY <3>1, <3>3, <3>4
  <2>12. AllKept(P, list)
    <3>1. list = x.arr
      <4> HIDE DEF list
      <4>1. x = Arr(list)
        BY <2>1
      <4> HIDE DEF x
      <4> QED
        BY <4>1, Contents
    <3>2. \A j \in DOMAIN x.arr : Keeps(P, x.arr[j])
      BY <1>1, <1>4, <1>10
    <3> HIDE DEF list, x, P
    <3> QED
      BY <2>1, <3>1, <3>2 DEF AllKept
  <2>2. item.isArray /\ item.type = P /\ P \in Serializable /\ item.size = DataSize[P]
    BY <1>1, <1>10, PlainChild
  <2>3. CountOf(v, f) = Len(list)
    <3>1. list = x.arr
      <4> HIDE DEF list
      <4>1. x = Arr(list)
        BY <2>1
      <4> HIDE DEF x
      <4> QED
        BY <4>1, Contents
    <3>2. CountOf(v, f) = Cut(Len(list), d) /\ Len(list) <= d /\ d \in Nat
      BY <1>1, <1>4, <1>10, <3>1 DEF CountOf
    <3> HIDE DEF list, d
    <3>3. Len(list) \in Nat
      BY <2>1
    <3> QED
      BY <3>2, <3>3 DEF Cut
  <2>4. DeserChild(walk, ChildTree(p, f), buf, a) = DeserArray(item, buf, a)
    <3> HIDE DEF P
    <3> QED
      BY <2>2 DEF DeserChild
  <2> HIDE DEF x, item, P, list
  <2> DEFINE n == Len(list)
             texts == ElementsOf(P, list, n)
  <2>5. n \in 0..Len(list) /\ n \in Nat
    BY <2>1
  <2>6. texts \in Seq(Texts) /\ Len(texts) = n
    <3> HIDE DEF n
    <3> QED
      BY <2>1, <2>2, <2>5, ElementsAre
  <2>7. PICK up : Partials(texts, up)
    <3> HIDE DEF texts
    <3> QED
      BY <2>6, PartialsExist
  <2>8. FlattenSeq(texts) = up[n]
    <3> HIDE DEF texts
    <3>1. FlattenSeq(texts) = up[Len(texts)]
      BY <2>6, <2>7, FlattenIsLast
    <3> QED
      BY <2>6, <3>1
  <2>9. e = Octets(n, 4) \o up[n]
    BY <2>1, <2>3, <2>8
  <2>10. DeserArray(item, buf, a) = Done(a + Len(Octets(Len(list), 4) \o up[Len(list)]), Arr(list))
    <3>1. item.type \in Serializable /\ item.size = DataSize[item.type] /\ AllHave(item.type, list)
          /\ AllKept(item.type, list) /\ Partials(ElementsOf(item.type, list, Len(list)), up)
      BY <2>1, <2>2, <2>7, <2>12
    <3>2. At(buf, a, Octets(Len(list), 4) \o up[Len(list)])
      BY <1>6, <2>9
    <3> QED
      BY <2>1, <3>1, <3>2, ArrayIsRead
  <2>11. DeserArray(item, buf, a) = Done(a + Len(e), x)
    BY <2>1, <2>9, <2>10
  <2> QED
    BY <2>4, <2>11 DEF f, e, walk, x
<1> QED
  BY <1>8, <1>9, <1>10

-----------------------------------------------------------------------------

NameOf(p, t, i) == Fields(p, t)[i].name
ValuesOf(p, t, v) == [i \in DOMAIN Fields(p, t) |-> v.tab[NameOf(p, t, i)]]

ReadersOf(p, t, walk, buf) ==
  [i \in DOMAIN Fields(p, t) |->
     [a \in Addresses(buf) |-> DeserChild(walk, ChildTree(p, Fields(p, t)[i]), buf, a)]]

(* The children of a node have the names of the fields. *)
LEMMA ChildNames ==
  ASSUME NEW p \in Programs, NEW all, Handled(p, all), NEW t \in all
  PROVE  /\ DOMAIN Children(p, t) = DOMAIN Fields(p, t) /\ Len(Children(p, t)) = Len(Fields(p, t))
         /\ \A i \in DOMAIN Fields(p, t) :
              /\ Children(p, t)[i] = ChildTree(p, Fields(p, t)[i])
              /\ Children(p, t)[i].item.name = NameOf(p, t, i)
         /\ \A i, j \in DOMAIN Fields(p, t) : NameOf(p, t, i) = NameOf(p, t, j) => i = j
<1>1. DOMAIN Fields(p, t) = 1..Len(Fields(p, t)) /\ Len(Fields(p, t)) \in Nat /\ t \in TypeIds
  BY HandledFacts
<1>2. DOMAIN Children(p, t) = DOMAIN Fields(p, t) /\ Len(Children(p, t)) = Len(Fields(p, t))
  BY <1>1 DEF Children
<1>3. ASSUME NEW i \in DOMAIN Fields(p, t)
      PROVE  ChildTree(p, Fields(p, t)[i]).item.name = NameOf(p, t, i)
  <2> DEFINE f == Fields(p, t)[i]
  <2>1. /\ f.type \in TypeIds => Definition[p][f.type].kind # "union"
        /\ f.type \notin TypeIds => f.type \in Plain
    BY SupportedField
  <2> HIDE DEF f
  <2>2. ChildTree(p, f).item.name = f.name
    BY <2>1, NestedChild, PlainChild
  <2> QED
    BY <2>2 DEF f, NameOf
<1>4. \A i, j \in DOMAIN Fields(p, t) : NameOf(p, t, i) = NameOf(p, t, j) => i = j
  BY <1>1, DefinitionsAssumption DEF NameOf
<1> QED
  BY <1>2, <1>3, <1>4 DEF Children

(* The tree of a type, as the walks see it. *)
LEMMA NodeFacts ==
  ASSUME NEW p \in Programs, NEW all, Handled(p, all), NEW t \in all
  PROVE  /\ Unnamed(Expansion[p][t]).children = Children(p, t)
         /\ Unnamed(Expansion[p][t]).item.offset = Len(Header(p, t))
         /\ Len(Header(p, t)) \in Nat
         /\ Unnamed(Expansion[p][t]) \in Trees
<1> DEFINE d == Definition[p][t]
           name == ""
<1>1. t \in TypeIds
  BY HandledFacts
<1> HIDE DEF d
<1>2. StructInfo(d, name).offset = IF d.kind = "optional" THEN 4 ELSE 0
  <2> HIDE DEF name
  <2> QED
    BY StructItem
<1>3. /\ Unnamed(Expansion[p][t]).children = Children(p, t)
      /\ Unnamed(Expansion[p][t]).item = StructInfo(d, name)
  BY <1>1, UnnamedTree DEF d
<1>4. Len(Header(p, t)) = IF d.kind = "optional" THEN 4 ELSE 0
  <2>1. CASE d.kind = "optional"
    BY <2>1, HeaderIs DEF d
  <2>2. CASE d.kind # "optional"
    <3>1. Header(p, t) = <<>>
      BY <2>2, HeaderIs DEF d
    <3> QED
      BY <2>2, <3>1
  <2> QED
    BY <2>1, <2>2
<1>5. Len(Header(p, t)) \in Nat
  BY <1>4
<1>6. Unnamed(Expansion[p][t]) \in Trees
  BY <1>1, TreesAssumption
<1> QED
  BY <1>2, <1>3, <1>4, <1>5, <1>6

(* So are all fields. *)
LEMMA FieldsAreRead ==
  ASSUME NEW p \in Programs, NEW all, Handled(p, all), NEW t \in all, NEW v \in Received(p, t),
         NEW buf \in Texts, \A u \in all : Depth(p)[u] < Depth(p)[t] => Decoded(p, u, buf)
  PROVE  Reads(ReadersOf(p, t, DeserWalk(buf), buf), FieldTexts(Encoding[p], p, t, v), ValuesOf(p, t, v), buf)
<1> DEFINE texts == FieldTexts(Encoding[p], p, t, v)
           walk == DeserWalk(buf)
           readers == ReadersOf(p, t, walk, buf)
<1>1. v \in Regular["encode"][p][t]
  BY ReceivedIsRegular
<1>2. /\ texts \in Seq(Texts) /\ Len(texts) = Len(Fields(p, t))
      /\ \A i \in DOMAIN Fields(p, t) : texts[i] = FieldText(Encoding[p], p, t, v, i)
  BY <1>1, BodyIs
<1>3. DOMAIN Fields(p, t) = 1..Len(Fields(p, t)) /\ Len(Fields(p, t)) \in Nat
  BY HandledFacts
<1>4. DOMAIN readers = 1..Len(texts)
  BY <1>2, <1>3 DEF ReadersOf
<1>5. ASSUME NEW i \in DOMAIN Fields(p, t), NEW b \in Nat, At(buf, b, texts[i])
      PROVE  readers[i][b] = Done(b + Len(texts[i]), ValuesOf(p, t, v)[i])
  <2>1. texts[i] \in Texts /\ texts[i] = FieldText(Encoding[p], p, t, v, i)
    BY <1>2, <1>3
  <2> HIDE DEF texts, walk
  <2>2. b \in Addresses(buf)
    BY <1>5, <2>1, AtReads
  <2>3. readers[i][b] = DeserChild(walk, ChildTree(p, Fields(p, t)[i]), buf, b)
    BY <2>2 DEF ReadersOf
  <2>4. At(buf, b, FieldText(Encoding[p], p, t, v, i))
    BY <1>5, <2>1
  <2>5. DeserChild(walk, ChildTree(p, Fields(p, t)[i]), buf, b)
          = Done(b + Len(FieldText(Encoding[p], p, t, v, i)), v.tab[Fields(p, t)[i].name])
    BY <2>4, ChildIsRead DEF walk
  <2>6. ValuesOf(p, t, v)[i] = v.tab[Fields(p, t)[i].name]
    BY DEF ValuesOf, NameOf
  <2> QED
    BY <2>1, <2>3, <2>5, <2>6
<1> HIDE DEF readers, texts
<1>6. \A i \in 1..Len(texts) : \A b \in Nat :
        At(buf, b, texts[i]) => readers[i][b] = Done(b + Len(texts[i]), ValuesOf(p, t, v)[i])
  BY <1>2, <1>3, <1>5
<1>7. Reads(readers, texts, ValuesOf(p, t, v), buf)
  BY <1>4, <1>6 DEF Reads
<1> QED
  BY <1>7 DEF readers, texts, walk

(* A structure is read where it lies, if those nested in it are (deserialize). *)
LEMMA StructIsRead ==
  ASSUME NEW p \in Programs, NEW all, Handled(p, all), NEW t \in all, NEW v \in Received(p, t),
         NEW buf \in Texts, NEW a \in Nat, At(buf, a, Encoding[p][t][v]),
         \A u \in all : Depth(p)[u] < Depth(p)[t] => Decoded(p, u, buf)
  PROVE  DeserStruct(DeserWalk(buf), Unnamed(Expansion[p][t]), buf, a)
           = Done(a + Len(Encoding[p][t][v]), v)
<1> DEFINE texts == FieldTexts(Encoding[p], p, t, v)
           walk == DeserWalk(buf)
           readers == ReadersOf(p, t, walk, buf)
           node == Unnamed(Expansion[p][t])
           head == Header(p, t)
           n == Len(Fields(p, t))
           e == Encoding[p][t][v]
<1>1. v \in Regular["encode"][p][t] /\ v.tab \in [DOMAIN v.tab -> LuaValues] /\ v = Tab(v.tab)
      /\ DOMAIN v.tab = {Fields(p, t)[i].name : i \in DOMAIN Fields(p, t)}
  BY ReceivedIsRegular, WholeFacts
<1>2. /\ texts \in Seq(Texts) /\ Len(texts) = n
      /\ \E up : Partials(texts, up) /\ e = head \o up[n]
  BY <1>1, BodyIs
<1>3. PICK up : Partials(texts, up) /\ e = head \o up[n]
  BY <1>2
<1>4. n \in Nat /\ DOMAIN Fields(p, t) = 1..n /\ n >= 1
  BY HandledFacts
<1>5. Reads(readers, texts, ValuesOf(p, t, v), buf)
  BY FieldsAreRead
<1>6. head \in Texts /\ node.children = Children(p, t) /\ node.item.offset = Len(head)
  BY HeaderIs, NodeFacts
<1>7. /\ DOMAIN node.children = DOMAIN Fields(p, t) /\ Len(node.children) = n
      /\ \A i \in DOMAIN Fields(p, t) : /\ node.children[i] = ChildTree(p, Fields(p, t)[i])
                                        /\ node.children[i].item.name = NameOf(p, t, i)
      /\ \A i, j \in DOMAIN Fields(p, t) : NameOf(p, t, i) = NameOf(p, t, j) => i = j
  BY <1>6, ChildNames
<1> HIDE DEF texts, walk, node, head, e
<1>8. up[n] \in Texts
  BY <1>2, <1>3, <1>4 DEF Partials
<1>9. At(buf, a, head) /\ At(buf, a + Len(head), up[n])
  BY <1>3, <1>6, <1>8, AtParts DEF e
<1> DEFINE b == a + Len(head)
<1>10. Len(head) \in Nat /\ Len(up[n]) \in Nat /\ b \in Nat
  BY <1>6, <1>8 DEF Texts
<1>11. SkipHeader(node, buf, a) = b
  <2>1. InBounds(buf, a, Len(head))
    BY <1>6, <1>9, AtReads
  <2> QED
    BY <1>6, <2>1 DEF SkipHeader
<1>12. a + Len(e) = b + Len(up[n])
  <2> DEFINE y == up[n]
  <2>1. y \in Texts /\ e = head \o y
    BY <1>3, <1>8
  <2> HIDE DEF y, b
  <2>2. Len(e) = Len(head) + Len(y)
    BY <1>6, <2>1, Concatenation
  <2>3. Len(head) \in Nat /\ Len(y) \in Nat
    BY <1>10 DEF y
  <2>4. a + Len(e) = (a + Len(head)) + Len(y)
    BY <2>2, <2>3
  <2> QED
    BY <2>4 DEF b, y
<1> DEFINE at == Stations(buf, readers, b)
<1>13. at[n] = b + Len(up[n]) /\ \A i \in 1..n : readers[i][at[i - 1]].val = ValuesOf(p, t, v)[i]
  <2> DEFINE vals == ValuesOf(p, t, v)
  <2> HIDE DEF b, readers, n, vals
  <2>1. At(buf, b, up[Len(texts)])
    BY <1>2, <1>9 DEF b
  <2>3. b \in Nat /\ texts \in Seq(Texts) /\ Partials(texts, up) /\ Reads(readers, texts, vals, buf)
    BY <1>2, <1>3, <1>5, <1>10 DEF vals
  <2>2. /\ Stations(buf, readers, b)[Len(texts)] = b + Len(up[Len(texts)])
        /\ \A i \in 1..Len(texts) : readers[i][Stations(buf, readers, b)[i - 1]].val = vals[i]
    BY <2>1, <2>3, ItemsAreRead
  <2> QED
    BY <1>2, <2>2 DEF vals
<1> DEFINE names == {node.children[i].item.name : i \in DOMAIN node.children}
           Named(x) == CHOOSE i \in DOMAIN node.children : node.children[i].item.name = x
           table == [x \in names |-> readers[Named(x)][at[Named(x) - 1]].val]
<1>14. DeserStruct(walk, node, buf, a) = IF at[n] = Over THEN Overread ELSE Done(at[n], Tab(table))
  <2> DEFINE Whole(rs, c) ==
               LET children == node.children
                   at1 == Stations(buf, rs, c)
                   end == at1[Len(children)]
                   Named1(x) == CHOOSE i \in DOMAIN children : children[i].item.name = x
                   Value(i) == rs[i][at1[i - 1]].val
               IN IF end = Over THEN Overread
                  ELSE Done(end, Tab([x \in {children[i].item.name : i \in DOMAIN children} |->
                                        Value(Named1(x))]))
             rs1 == [i \in DOMAIN node.children |->
                      [c \in Addresses(buf) |-> DeserChild(walk, node.children[i], buf, c)]]
  <2>1. DeserStruct(walk, node, buf, a) = Whole(rs1, SkipHeader(node, buf, a))
    BY DEF DeserStruct
  <2>2. rs1 = readers
    <3>1. \A i \in DOMAIN Fields(p, t) : node.children[i] = ChildTree(p, Fields(p, t)[i])
      BY <1>7
    <3>2. DOMAIN node.children = DOMAIN Fields(p, t)
      BY <1>7
    <3> HIDE DEF n
    <3> QED
      BY <3>1, <3>2 DEF ReadersOf
  <2> HIDE DEF rs1, b, readers, n
  <2>3. Whole(readers, b) = IF at[n] = Over THEN Overread ELSE Done(at[n], Tab(table))
    BY <1>7
  <2> HIDE DEF Whole
  <2> QED
    BY <1>11, <2>1, <2>2, <2>3
<1>15. names = DOMAIN v.tab
  <2> HIDE DEF n
  <2> QED
    BY <1>1, <1>7 DEF NameOf
<1>16. ASSUME NEW x \in names
       PROVE  readers[Named(x)][at[Named(x) - 1]].val = v.tab[x]
  <2> DEFINE j == Named(x)
  <2>1. j \in DOMAIN Fields(p, t) /\ NameOf(p, t, j) = x
    <3>1. \E i \in DOMAIN node.children : node.children[i].item.name = x
      OBVIOUS
    <3>2. j \in DOMAIN node.children /\ node.children[j].item.name = x
      BY <3>1
    <3> HIDE DEF j
    <3> QED
      BY <1>7, <3>2
  <2> HIDE DEF j, at, readers, n
  <2>2. readers[j][at[j - 1]].val = ValuesOf(p, t, v)[j]
    BY <1>4, <1>13, <2>1
  <2>3. ValuesOf(p, t, v)[j] = v.tab[x]
    BY <2>1 DEF ValuesOf
  <2> QED
    BY <2>2, <2>3 DEF j
<1>17. table = v.tab
  <2> HIDE DEF names, Named, at, readers
  <2>1. table = [x \in names |-> v.tab[x]]
    BY <1>16
  <2>2. v.tab = [x \in DOMAIN v.tab |-> v.tab[x]]
    BY <1>1
  <2> QED
    BY <1>15, <2>1, <2>2
<1>18. at[n] # Over
  <2> DEFINE m == at[n]
             k == Len(up[n])
  <2>1. m = b + k /\ b \in Nat /\ k \in Nat
    BY <1>10, <1>13
  <2> HIDE DEF m, b, k
  <2>2. m >= 0
    BY <2>1
  <2>3. m # Over
    BY <2>2 DEF Over
  <2> QED
    BY <2>3 DEF m
<1> HIDE DEF table, at, b
<1>19. DeserStruct(walk, node, buf, a) = Done(a + Len(e), v)
  BY <1>1, <1>12, <1>13, <1>14, <1>17, <1>18
<1> QED
  BY <1>19 DEF walk, node, e

(* Decoding: the walk finds a value wherever its body lies. *)
LEMMA Decodes ==
  ASSUME NEW p \in Programs, NEW all, Handled(p, all), NEW buf \in Texts
  PROVE  \A t \in all : Decoded(p, t, buf)
<1> DEFINE G == {t \in all : Decoded(p, t, buf)}
<1>1. ASSUME NEW t \in all, \A u \in all : Depth(p)[u] < Depth(p)[t] => u \in G
      PROVE  t \in G
  <2> SUFFICES ASSUME NEW v \in Received(p, t), NEW a \in Nat, At(buf, a, Encoding[p][t][v])
               PROVE  DeserWalk(buf)[Unnamed(Expansion[p][t])][a] = Done(a + Len(Encoding[p][t][v]), v)
    BY DEF Decoded
  <2>1. \A u \in all : Depth(p)[u] < Depth(p)[t] => Decoded(p, u, buf)
    BY <1>1
  <2>2. DeserStruct(DeserWalk(buf), Unnamed(Expansion[p][t]), buf, a)
          = Done(a + Len(Encoding[p][t][v]), v)
    BY <2>1, StructIsRead
  <2>3. Unnamed(Expansion[p][t]) \in Trees
    BY NodeFacts
  <2>4. a \in Addresses(buf)
    <3>1. v \in Regular["encode"][p][t]
      BY ReceivedIsRegular
    <3>2. Encoding[p][t][v] \in Texts
      BY <3>1, EncodingIsText DEF IsText
    <3> DEFINE e == Encoding[p][t][v]
    <3>3. At(buf, a, e) /\ e \in Texts
      BY <3>2
    <3> HIDE DEF e
    <3> QED
      BY <3>3, AtReads
  <2> DEFINE node == Unnamed(Expansion[p][t])
  <2> HIDE DEF node
  <2>5. DeserWalk(buf)[node][a] = DeserStruct(DeserWalk(buf), node, buf, a)
    BY <2>3, <2>4, DeserWalkIs DEF node
  <2> QED
    BY <2>2, <2>5 DEF node
<1>2. all \subseteq TypeIds
  BY DEF Handled
<1>3. all \subseteq G
  <2> HIDE DEF G
  <2> QED
    BY <1>1, <1>2, DepthInduction
<1> QED
  BY <1>3
-----------------------------------------------------------------------------
(* Encoding                                                                *)

(* Lua has raised an error. *)
Failed(s) == s \in States /\ s.raised

(* What is written for a child whose field is on top of the stack. *)
Written(walk, tn, s) ==
  IF tn.item.isArray THEN SerArray(tn.item, s)
  ELSE IF tn.item.isStruct THEN walk[Unnamed(tn)][s]
  ELSE SerPrim(tn.item, s)

(* What lua_getfield finds in a table. *)
Found(v, name) == IF name \in DOMAIN v.tab THEN v.tab[name] ELSE Nil

(* lua_getfield on a table. *)
LEMMA FieldIsFound ==
  ASSUME NEW l \in Stacks, NEW v \in LuaValues, v = Tab(v.tab), NEW o \in Texts, NEW name
  PROVE  GetField(State(Append(l, v), o), name) = Push(State(Append(l, v), o), Found(v, name))
<1> DEFINE s == State(Append(l, v), o)
<1>1. TopOf(s) = v
  BY StackOps
<1>2. ~s.raised
  <2>1. Append(l, v) \in Stacks
    BY StackOps
  <2> QED
    BY <2>1, StackOps
<1>3. Is("tab", v)
  <2> DEFINE w == v.tab
  <2>1. v = Tab(w)
    OBVIOUS
  <2> HIDE DEF w
  <2> QED
    BY <2>1, Kinds
<1>4. ~Is("arr", v) /\ ~Is("str", v)
  <2> DEFINE w == v.tab
  <2>1. v = Tab(w)
    OBVIOUS
  <2> HIDE DEF w
  <2> QED
    BY <2>1, Kinds
<1> HIDE DEF s
<1>5. GetField(s, name) = Push(s, IF name \in DOMAIN TopOf(s).tab THEN TopOf(s).tab[name] ELSE Nil)
  BY <1>1, <1>2, <1>3, <1>4 DEF GetField
<1> QED
  BY <1>1, <1>5 DEF s, Found

(* lua_getfield on nil raises an error. *)
LEMMA NilHasNoFields ==
  ASSUME NEW l \in Stacks, NEW o \in Texts, NEW name
  PROVE  Failed(GetField(State(Append(l, Nil), o), name))
<1> DEFINE s == State(Append(l, Nil), o)
<1>0. Nil \in LuaValues
  BY ValuesAssumption
<1>1. TopOf(s) = Nil /\ Append(l, Nil) \in Stacks
  BY <1>0, StackOps
<1>2. ~s.raised /\ Raise(s) \in States /\ Raise(s).raised
  BY <1>0, <1>1, StackOps
<1>3. ~Is("tab", Nil) /\ ~Is("arr", Nil) /\ ~Is("str", Nil)
  BY Kinds
<1> HIDE DEF s
<1>4. GetField(s, name) = Raise(s)
  BY <1>1, <1>2, <1>3 DEF GetField
<1> QED
  BY <1>2, <1>4 DEF s, Failed

(* After an error nothing more is done. *)
LEMMA FailedStays ==
  ASSUME NEW walk, NEW tn, NEW s, Failed(s)
  PROVE  SerChild(walk, tn, s) = s
<1>1. s.raised
  BY DEF Failed
<1>2. GetField(s, tn.item.name) = s
  BY <1>1 DEF GetField
<1> QED
  BY <1>1, <1>2 DEF SerChild

(* A field that is found and written is popped again. *)
LEMMA ChildReturns ==
  ASSUME NEW m \in Stacks, NEW w \in LuaValues, NEW o \in Texts, NEW x \in Texts, NEW walk, NEW tn,
         GetField(State(m, o), tn.item.name) = State(Append(m, w), o),
         Written(walk, tn, State(Append(m, w), o)) = State(Append(m, w), x)
  PROVE  SerChild(walk, tn, State(m, o)) = State(m, x)
<1> DEFINE s == State(m, o)
           found == State(Append(m, w), o)
           after == State(Append(m, w), x)
<1>1. Append(m, w) \in Stacks
  BY StackOps
<1>2. ~found.raised /\ ~after.raised /\ Pop(after) = State(m, x)
  BY <1>1, StackOps
<1> HIDE DEF found, after, s
<1>3. GetField(s, tn.item.name) = found /\ Written(walk, tn, found) = after
  BY DEF found, after, s
<1>4. SerChild(walk, tn, s) = IF found.raised THEN found
                              ELSE IF Written(walk, tn, found).raised THEN Written(walk, tn, found)
                              ELSE Pop(Written(walk, tn, found))
  BY <1>3 DEF SerChild, Written
<1> QED
  BY <1>2, <1>3, <1>4 DEF s

(* A field fails when it cannot be looked for or not be written. *)
LEMMA ChildFails ==
  ASSUME NEW s, NEW walk, NEW tn, NEW found, found = GetField(s, tn.item.name),
         Failed(found) \/ (~found.raised /\ Failed(Written(walk, tn, found)))
  PROVE  Failed(SerChild(walk, tn, s))
<1>1. SerChild(walk, tn, s) = IF found.raised THEN found
                              ELSE IF Written(walk, tn, found).raised THEN Written(walk, tn, found)
                              ELSE Pop(Written(walk, tn, found))
  BY DEF SerChild, Written
<1> QED
  BY <1>1 DEF Failed

(* What the walks write for the tables in which no structure is missing. *)
Bodies(p) ==
  [u \in TypeIds |-> [v \in Structured[p][u] |->
                        SerWalk[Unnamed(Expansion[p][u])][State(<<v>>, <<>>)].out]]

(* The walk appends it to what was written before, and raises an error for any other
   table and for nil. *)
Encoded(p, u) ==
  /\ \A v \in Structured[p][u] : IsText(Bodies(p)[u][v])
  /\ \A l \in Stacks, o \in Texts :
       /\ \A v \in Structured[p][u] :
            SerWalk[Unnamed(Expansion[p][u])][State(Append(l, v), o)]
              = State(Append(l, v), o \o Bodies(p)[u][v])
       /\ \A v \in Tables[p][u] :
            v \notin Structured[p][u] => Failed(SerWalk[Unnamed(Expansion[p][u])][State(Append(l, v), o)])
       /\ Failed(SerWalk[Unnamed(Expansion[p][u])][State(Append(l, Nil), o)])

(* What is written for a field is a text. *)
LEMMA NestedIsText ==
  ASSUME NEW p \in Programs, NEW all, Handled(p, all), NEW t \in all, NEW v \in Tables[p][t],
         NEW i \in DOMAIN Fields(p, t), Complete(p, t, v, i),
         \A u \in all : Depth(p)[u] < Depth(p)[t] => Encoded(p, u)
  PROVE  IsText(FieldText(Bodies(p), p, t, v, i))
<1> DEFINE u == Fields(p, t)[i].type
           w == v.tab[Fields(p, t)[i].name]
<1>1. t \in TypeIds
  BY HandledFacts
<1>2. u \in TypeIds => u \in all /\ Depth(p)[u] < Depth(p)[t] /\ w \in Structured[p][u]
  BY <1>1, SupportedField, DepthFacts DEF NestsBelow, Complete, HasNested
<1>3. u \in TypeIds => IsText(Bodies(p)[u][w])
  <2> HIDE DEF u, w
  <2> QED
    BY <1>2 DEF Encoded
<1> QED
  BY <1>3, FieldTextIsText

(* The text of a field that is not a structure, and what is found for it. *)
TextOf(e, f, v) ==
  e = IF f.rank <= 0 THEN ScalarOf(PrimType[f.type], ItemOf(v, f))
      ELSE Octets(CountOf(v, f), 4) \o FlattenSeq(ElementsOf(PrimType[f.type], ListOf(v, f), CountOf(v, f)))
Finds(w, f, v) == w = Found(v, f.name)

(* A plain field is written, or its default. *)
LEMMA PlainIsWritten ==
  ASSUME NEW f, f.type \in Plain, f.rank <= 0, f.rank \in Int, NEW p \in Programs,
         NEW v, Tells(v, f), NEW e, TextOf(e, f, v),
         NEW m \in Stacks, NEW w \in LuaValues, Finds(w, f, v), NEW o \in Texts, NEW walk
  PROVE  Written(walk, ChildTree(p, f), State(Append(m, w), o)) = State(Append(m, w), o \o e)
<1> DEFINE P == PrimType[f.type]
           item == ChildTree(p, f).item
           s == State(Append(m, w), o)
           none == <<>>
<1>1. HasType(P, ItemOf(v, f)) /\ e = ScalarOf(P, ItemOf(v, f))
  <2>1. HasType(P, ItemOf(v, f)) /\ RefField(none, f, Given(v, f)) = ScalarOf(P, ItemOf(v, f))
    <3> HIDE DEF none
    <3> QED
      BY PlainText
  <2> QED
    BY <2>1 DEF TextOf
<1>0. w = Found(v, f.name)
  BY DEF Finds
<1>2. ~item.isArray /\ ~item.isStruct /\ item.type = P /\ P \in Serializable
      /\ item.size = DataSize[P]
  BY PlainChild
<1>3. e \in Texts
  <2> HIDE DEF P
  <2> QED
    BY <1>1, <1>2, ScalarIs
<1>4. Append(m, w) \in Stacks /\ TopOf(s) = w
  BY StackOps
<1>5. ~s.raised /\ Write(s, e) = State(Append(m, w), o \o e)
  BY <1>3, <1>4, StackOps
<1> HIDE DEF item, s
<1>6. Written(walk, ChildTree(p, f), s) = SerPrim(item, s)
  BY <1>2 DEF Written, item
<1>7. SerPrim(item, s) = Write(s, e)
  <2>1. CASE f.name \in DOMAIN v.tab
    <3>1. w = ItemOf(v, f)
      BY <1>0, <2>1 DEF Found, ItemOf
    <3> HIDE DEF P
    <3>2. item.type \in Serializable /\ item.size = DataSize[item.type]
          /\ HasType(item.type, TopOf(s))
      BY <1>1, <1>2, <1>4, <3>1
    <3>3. SerPrim(item, s) = Write(s, ScalarOf(item.type, TopOf(s)))
      BY <1>5, <3>2, ScalarIsWritten
    <3> QED
      BY <1>1, <1>2, <1>4, <3>1, <3>3
  <2>2. CASE f.name \notin DOMAIN v.tab
    <3>1. w = Nil /\ ItemOf(v, f) = DefaultOf(P)
      BY <1>0, <2>2 DEF Found, ItemOf
    <3> HIDE DEF P
    <3>2. item.type \in Serializable /\ item.size = DataSize[item.type] /\ TopOf(s) = Nil
      BY <1>2, <1>4, <3>1
    <3>3. SerPrim(item, s) = Write(s, ScalarOf(item.type, DefaultOf(item.type)))
      BY <1>5, <3>2, MissingIsWritten
    <3> QED
      BY <1>1, <1>2, <3>1, <3>3
  <2> QED
    BY <2>1, <2>2
<1> QED
  BY <1>5, <1>6, <1>7 DEF s

(* An array is written, cut to its dimension. *)
LEMMA ListIsWritten ==
  ASSUME NEW f, f.type \in Plain, f.rank > 0, f.rank \in Int, f.dims[1] \in Nat, NEW p \in Programs,
         NEW v, Tells(v, f), NEW e, TextOf(e, f, v),
         NEW m \in Stacks, NEW w \in LuaValues, Finds(w, f, v), NEW o \in Texts, NEW walk
  PROVE  Written(walk, ChildTree(p, f), State(Append(m, w), o)) = State(Append(m, w), o \o e)
<1> DEFINE P == PrimType[f.type]
           item == ChildTree(p, f).item
           s == State(Append(m, w), o)
           list == ListOf(v, f)
           count == CountOf(v, f)
           d == f.dims[1]
           texts == ElementsOf(P, list, count)
<1>1. /\ list \in Seq(LuaValues) /\ AllHave(P, list) /\ count \in 0..Len(list)
      /\ f.name \in DOMAIN v.tab => v.tab[f.name] = [arr |-> v.tab[f.name].arr, next |-> list]
  BY ListFacts
<1>0. w = Found(v, f.name)
  BY DEF Finds
<1>2. item.isArray /\ item.type = P /\ P \in Serializable /\ item.size = DataSize[P]
      /\ item.dims[1] = d
  BY PlainChild
<1>3. list = ElementsIn(w)
  <2>1. CASE f.name \in DOMAIN v.tab
    <3> DEFINE a == v.tab[f.name].arr
    <3>1. w = [arr |-> a, next |-> list]
      BY <1>0, <1>1, <2>1 DEF Found
    <3> HIDE DEF list, a
    <3>2. Is("arr", w) /\ w.next = list
      BY <3>1 DEF Is
    <3> QED
      BY <3>2 DEF ElementsIn
  <2>2. CASE f.name \notin DOMAIN v.tab
    <3>1. w = Nil /\ list = <<>>
      BY <1>0, <2>2 DEF Found, ListOf
    <3>2. ~Is("arr", w)
      BY <3>1, Kinds
    <3> QED
      BY <3>1, <3>2 DEF ElementsIn
  <2> QED
    BY <2>1, <2>2
<1>4. count = Cut(Len(list), d)
  BY DEF CountOf
<1> HIDE DEF P, list, count, d
<1>5. texts \in Seq(Texts) /\ Len(texts) = count
  BY <1>1, <1>2, ElementsAre
<1> HIDE DEF texts
<1>6. PICK up : Partials(texts, up)
  BY <1>5, PartialsExist
<1>7. FlattenSeq(texts) = up[count]
  <2>1. FlattenSeq(texts) = up[Len(texts)]
    BY <1>5, <1>6, FlattenIsLast
  <2> QED
    BY <1>5, <2>1
<1>8. e = Octets(count, 4) \o up[count]
  <2>1. ~(f.rank <= 0)
    OBVIOUS
  <2>2. e = Octets(count, 4) \o FlattenSeq(texts)
    BY <2>1 DEF TextOf, count, list, P, texts
  <2> QED
    BY <1>7, <2>2
<1>9. Written(walk, ChildTree(p, f), s) = SerArray(item, s)
  <2> HIDE DEF s
  <2> QED
    BY <1>2 DEF Written
<1> HIDE DEF item
<1>10. /\ item.type \in Serializable /\ item.size = DataSize[item.type] /\ d \in Nat
          /\ d = item.dims[1]
       /\ AllHave(item.type, list) /\ Partials(ElementsOf(item.type, list, count), up)
  BY <1>1, <1>2, <1>6 DEF d, texts
<1>11. SerArray(item, s) = State(Append(m, w), o \o (Octets(count, 4) \o up[count]))
  BY <1>1, <1>3, <1>4, <1>10, ArrayIsWritten
<1> QED
  BY <1>8, <1>9, <1>11

(* A field of a complete table is written, if nested structures are. *)
LEMMA ChildIsWritten ==
  ASSUME NEW p \in Programs, NEW all, Handled(p, all), NEW t \in all, NEW v \in Tables[p][t],
         NEW i \in DOMAIN Fields(p, t), Complete(p, t, v, i),
         NEW l \in Stacks, NEW o \in Texts,
         \A u \in all : Depth(p)[u] < Depth(p)[t] => Encoded(p, u)
  PROVE  SerChild(SerWalk, ChildTree(p, Fields(p, t)[i]), State(Append(l, v), o))
           = State(Append(l, v), o \o FieldText(Bodies(p), p, t, v, i))
<1> DEFINE f == Fields(p, t)[i]
           e == FieldText(Bodies(p), p, t, v, i)
           m == Append(l, v)
           w == Found(v, f.name)
<1>1. /\ f \in FieldSet
      /\ f.type \in TypeIds =>
           f.type \in all /\ f.rank <= 0 /\ Definition[p][f.type].kind # "union"
      /\ f.type \notin TypeIds => f.type \in Plain
      /\ f.type \notin TypeIds /\ f.rank > 0 => f.dims[1] \in Nat
  BY SupportedField
<1>2. t \in TypeIds
  BY HandledFacts
<1>3. /\ v = Tab(v.tab) /\ v \in LuaValues /\ Tells(v, f)
      /\ f.name \in DOMAIN v.tab => v.tab[f.name] \in LuaValues
  BY <1>2, TableFacts
<1>4. f.type \in TypeIds => HasNested(p, f, v)
  BY DEF Complete
<1>5. f.type \in TypeIds => Depth(p)[f.type] < Depth(p)[t]
  BY <1>2, DepthFacts DEF NestsBelow
<1>6. e = CodeText(Bodies(p), f, v)
  BY DEF FieldText
<1>7. e \in Texts
  BY NestedIsText DEF IsText
<1>8. ChildTree(p, f).item.name = f.name
  BY ChildNames DEF NameOf
<1> HIDE DEF f, e
<1>9. w \in LuaValues
  BY <1>3, ValuesAssumption DEF Found
<1>10. m \in Stacks
  BY <1>3, StackOps
<1>11. GetField(State(m, o), ChildTree(p, f).item.name) = State(Append(m, w), o)
  <2>1. GetField(State(m, o), f.name) = Push(State(m, o), w)
    BY <1>3, FieldIsFound
  <2> HIDE DEF m, w
  <2>2. Push(State(m, o), w) = State(Append(m, w), o)
    BY <1>9, <1>10, StackOps
  <2> QED
    BY <1>8, <2>1, <2>2
<1>12. f.rank \in Int
  BY <1>1 DEF FieldSet
<1> HIDE DEF m
<1>13. Written(SerWalk, ChildTree(p, f), State(Append(m, w), o)) = State(Append(m, w), o \o e)
  <2>1. CASE f.type \in TypeIds
    <3> DEFINE u == f.type
    <3>1. f.name \in DOMAIN v.tab /\ w \in Structured[p][u] /\ w = v.tab[f.name]
      BY <1>4, <2>1 DEF HasNested, Found
    <3> HIDE DEF w
    <3>3. e = Bodies(p)[u][w]
      BY <1>6, <2>1, <3>1 DEF CodeText
    <3>4. /\ ~ChildTree(p, f).item.isArray /\ ChildTree(p, f).item.isStruct
          /\ Unnamed(ChildTree(p, f)) = Unnamed(Expansion[p][u])
      BY <1>1, <2>1, NestedChild
    <3>5. Encoded(p, u)
      BY <1>1, <1>5, <2>1
    <3> HIDE DEF u
    <3>6. SerWalk[Unnamed(Expansion[p][u])][State(Append(m, w), o)]
            = State(Append(m, w), o \o Bodies(p)[u][w])
      BY <1>10, <3>1, <3>5 DEF Encoded
    <3> QED
      BY <3>3, <3>4, <3>6 DEF Written
  <2>2. CASE f.type \notin TypeIds /\ ~(f.rank > 0)
    <3>1. f.type \in Plain /\ f.rank <= 0
      BY <1>1, <1>12, <2>2
    <3>3. TextOf(e, f, v)
      BY <1>6, <2>2, <3>1 DEF TextOf, CodeText
    <3> HIDE DEF w
    <3>4. Finds(w, f, v)
      BY DEF w, Finds
    <3> QED
      BY <1>3, <1>9, <1>10, <1>12, <3>1, <3>3, <3>4, PlainIsWritten
  <2>3. CASE f.type \notin TypeIds /\ f.rank > 0
    <3>1. f.type \in Plain /\ f.dims[1] \in Nat
      BY <1>1, <2>3
    <3>3. TextOf(e, f, v)
      <4>1. ~(f.rank <= 0)
        BY <1>12, <2>3
      <4> QED
        BY <1>6, <2>3, <4>1 DEF TextOf, CodeText
    <3> HIDE DEF w
    <3>4. Finds(w, f, v)
      BY DEF w, Finds
    <3> QED
      BY <1>3, <1>9, <1>10, <1>12, <2>3, <3>1, <3>3, <3>4, ListIsWritten
  <2> QED
    BY <2>1, <2>2, <2>3
<1> HIDE DEF w
<1>14. SerChild(SerWalk, ChildTree(p, f), State(m, o)) = State(m, o \o e)
  <2> DEFINE x == o \o e
  <2>1. x \in Texts
    BY <1>7, Concatenation
  <2>2. Written(SerWalk, ChildTree(p, f), State(Append(m, w), o)) = State(Append(m, w), x)
    BY <1>13
  <2> HIDE DEF x
  <2>3. SerChild(SerWalk, ChildTree(p, f), State(m, o)) = State(m, x)
    BY <1>9, <1>10, <1>11, <2>1, <2>2, ChildReturns
  <2> QED
    BY <2>3 DEF x
<1> QED
  BY <1>14 DEF m, f, e

-----------------------------------------------------------------------------

(* Rounds that write one text each, up to round k, which fails. *)
FailsAt(rounds, texts, l, k) ==
  /\ Len(rounds) = Len(texts)
  /\ \A i \in 1..Len(texts) : \A x \in Texts :
       i < k => rounds[i][State(l, x)] = State(l, x \o texts[i])
  /\ \A x \in Texts : Failed(rounds[k][State(l, x)])
  /\ \A i \in 1..Len(texts) : \A s : Failed(s) => rounds[i][s] = s

(* A loop with a round that fails has failed. *)
LEMMA LoopFails ==
  ASSUME NEW texts \in Seq(Texts), NEW rounds, NEW l, NEW o \in Texts,
         NEW k \in 1..Len(texts), FailsAt(rounds, texts, l, k)
  PROVE  Failed(After(rounds, State(l, o))[Len(texts)])
<1>1. PICK up : Partials(texts, up)
  BY PartialsExist
<1> DEFINE n == Len(texts)
           y == o \o up[k - 1]
           r == rounds[k][State(l, y)]
           h == [i \in 0..n |-> IF i < k THEN State(l, o \o up[i]) ELSE r]
           x == State(l, o)
<1>2. n \in Nat /\ k \in 1..n /\ up[0] = <<>> /\ \A i \in 0..n : up[i] \in Texts
  BY <1>1 DEF Partials
<1>3. y \in Texts
  <2> DEFINE b == up[k - 1]
  <2>1. b \in Texts
    BY <1>2
  <2> HIDE DEF b
  <2>2. o \o b \in Texts
    BY <2>1, Concatenation
  <2> QED
    BY <2>2 DEF b
<1> HIDE DEF y
<1>4. Failed(r)
  BY <1>3 DEF FailsAt
<1> HIDE DEF r
<1>5. h[0] = x
  <2>1. o \o up[0] = o /\ 0 \in 0..n /\ 0 < k
    BY <1>2, NoText
  <2> QED
    BY <2>1
<1>6. \A i \in 1..n : h[i] = rounds[i][h[i - 1]]
  <2> TAKE i \in 1..n
  <2>1. i - 1 \in 0..n /\ i \in 0..n /\ i \in Int /\ k \in Int
    BY <1>2
  <2>2. CASE i < k
    <3>1. up[i] = up[i - 1] \o texts[i] /\ texts[i] \in Texts /\ up[i - 1] \in Texts
      BY <1>1, <1>2, <2>1 DEF Partials
    <3> DEFINE z == o \o up[i - 1]
    <3>2. z \in Texts /\ z \o texts[i] = o \o up[i]
      <4> DEFINE b == up[i - 1]
                 e == texts[i]
      <4>1. b \in Texts /\ e \in Texts /\ up[i] = b \o e
        BY <3>1
      <4> HIDE DEF b, e
      <4>2. (o \o b) \o e = o \o (b \o e) /\ o \o b \in Texts
        BY <4>1, Together
      <4> QED
        BY <4>1, <4>2 DEF b, e
    <3>3. i - 1 < k
      BY <2>1, <2>2
    <3>4. h[i - 1] = State(l, z) /\ h[i] = State(l, o \o up[i])
      BY <2>1, <2>2, <3>3
    <3> HIDE DEF z, h
    <3>5. rounds[i][State(l, z)] = State(l, z \o texts[i])
      BY <2>2, <3>2 DEF FailsAt
    <3> QED
      BY <3>2, <3>4, <3>5
  <2>3. CASE i = k
    <3>1. i - 1 < k /\ ~(i < k)
      BY <2>1, <2>3
    <3>2. h[i - 1] = State(l, y) /\ h[i] = r
      BY <2>1, <2>3, <3>1 DEF y
    <3> HIDE DEF h
    <3> QED
      BY <2>3, <3>2 DEF r
  <2>4. CASE i > k
    <3>1. ~(i - 1 < k) /\ ~(i < k)
      BY <2>1, <2>4
    <3>2. h[i - 1] = r /\ h[i] = r
      BY <2>1, <3>1
    <3> HIDE DEF h
    <3>3. rounds[i][r] = r
      BY <1>4 DEF FailsAt
    <3> QED
      BY <3>2, <3>3
  <2> QED
    BY <2>1, <2>2, <2>3, <2>4
<1>7. Len(rounds) = n
  BY DEF FailsAt
<1>8. h[n] = r
  <2>1. n \in 0..n /\ ~(n < k)
    BY <1>2
  <2> QED
    BY <2>1
<1>9. \A i \in 0..n : After(rounds, x)[i] = h[i]
  <2> HIDE DEF n, h, x
  <2>1. n \in Nat
    BY <1>2
  <2> QED
    BY <2>1, <1>5, <1>6, <1>7, AfterIs
<1>10. n \in 0..n
  BY <1>2
<1> HIDE DEF h
<1> QED
  BY <1>4, <1>8, <1>9, <1>10

(* A table without the structure for a field, and nil, end in an error. *)
LEMMA ChildIsMissing ==
  ASSUME NEW p \in Programs, NEW all, Handled(p, all), NEW t \in all, NEW v \in Tables[p][t],
         NEW i \in DOMAIN Fields(p, t), ~Complete(p, t, v, i),
         NEW l \in Stacks, NEW o \in Texts,
         \A u \in all : Depth(p)[u] < Depth(p)[t] => Encoded(p, u)
  PROVE  Failed(SerChild(SerWalk, ChildTree(p, Fields(p, t)[i]), State(Append(l, v), o)))
<1> DEFINE f == Fields(p, t)[i]
           m == Append(l, v)
           w == Found(v, f.name)
           found == State(Append(m, w), o)
           tn == ChildTree(p, f)
<1>1. f.type \in TypeIds /\ f.type \in all /\ f.rank <= 0 /\ Definition[p][f.type].kind # "union"
  BY SupportedField DEF Complete
<1>2. t \in TypeIds
  BY HandledFacts
<1>3. /\ v = Tab(v.tab) /\ v \in LuaValues
      /\ f.name \in DOMAIN v.tab => v.tab[f.name] \in LuaValues /\ v.tab[f.name] \in Tables[p][f.type]
  BY <1>1, <1>2, TableFacts
<1>4. f.name \in DOMAIN v.tab => v.tab[f.name] \notin Structured[p][f.type]
  BY DEF Complete, HasNested
<1>5. Depth(p)[f.type] < Depth(p)[t]
  BY <1>1, <1>2, DepthFacts DEF NestsBelow
<1> HIDE DEF f
<1>6. w \in LuaValues
  BY <1>3, ValuesAssumption DEF Found
<1>7. m \in Stacks
  BY <1>3, StackOps
<1>8. tn.item.name = f.name /\ ~tn.item.isArray /\ tn.item.isStruct
      /\ Unnamed(tn) = Unnamed(Expansion[p][f.type])
  BY <1>1, NestedChild
<1>9. found = GetField(State(m, o), tn.item.name)
  <2>1. GetField(State(m, o), f.name) = Push(State(m, o), w)
    BY <1>3, FieldIsFound
  <2> HIDE DEF m, w
  <2>2. Push(State(m, o), w) = State(Append(m, w), o)
    BY <1>6, <1>7, StackOps
  <2> QED
    BY <1>8, <2>1, <2>2
<1>10. ~found.raised
  <2> DEFINE k == Append(m, w)
  <2> HIDE DEF m, w
  <2>1. k \in Stacks
    BY <1>6, <1>7, StackOps
  <2> HIDE DEF k
  <2>2. ~State(k, o).raised
    BY <1>6, <2>1, StackOps
  <2> QED
    BY <2>2 DEF k
<1>11. Failed(SerWalk[Unnamed(Expansion[p][f.type])][found])
  <2> DEFINE u == f.type
  <2>1. Encoded(p, u)
    BY <1>1, <1>5
  <2>2. CASE f.name \in DOMAIN v.tab
    <3>1. w \in Tables[p][u] /\ w \notin Structured[p][u]
      BY <1>3, <1>4, <2>2 DEF Found
    <3> HIDE DEF m, w, u
    <3>2. Failed(SerWalk[Unnamed(Expansion[p][u])][State(Append(m, w), o)])
      BY <1>7, <2>1, <3>1 DEF Encoded
    <3> QED
      BY <3>2 DEF u
  <2>3. CASE f.name \notin DOMAIN v.tab
    <3>1. w = Nil
      BY <2>3 DEF Found
    <3> HIDE DEF m, w, u
    <3>2. Failed(SerWalk[Unnamed(Expansion[p][u])][State(Append(m, Nil), o)])
      BY <1>7, <2>1 DEF Encoded
    <3> QED
      BY <3>1, <3>2 DEF u
  <2> QED
    BY <2>2, <2>3
<1> HIDE DEF found, tn, m, w
<1>12. Written(SerWalk, tn, found) = SerWalk[Unnamed(Expansion[p][f.type])][found]
  BY <1>8 DEF Written
<1>13. Failed(SerChild(SerWalk, tn, State(m, o)))
  <2> DEFINE s == State(m, o)
             walk == SerWalk
  <2>1. found = GetField(s, tn.item.name) /\ ~found.raised /\ Failed(Written(walk, tn, found))
    BY <1>9, <1>10, <1>11, <1>12
  <2> HIDE DEF s, walk
  <2>2. Failed(SerChild(walk, tn, s))
    BY <2>1, ChildFails
  <2> QED
    BY <2>2 DEF s, walk
<1> QED
  BY <1>13 DEF m, f, tn

(* No field can be written of nil. *)
LEMMA NilChildFails ==
  ASSUME NEW walk, NEW tn, NEW l \in Stacks, NEW o \in Texts
  PROVE  Failed(SerChild(walk, tn, State(Append(l, Nil), o)))
<1> DEFINE s == State(Append(l, Nil), o)
           found == GetField(s, tn.item.name)
<1>1. Failed(found)
  BY NilHasNoFields
<1> HIDE DEF s, found
<1>2. found = GetField(s, tn.item.name)
  BY DEF found
<1>3. Failed(SerChild(walk, tn, s))
  BY <1>1, <1>2, ChildFails
<1> QED
  BY <1>3 DEF s

-----------------------------------------------------------------------------

RoundsOf(p, t) ==
  [i \in DOMAIN Fields(p, t) |->
     [s \in States |-> SerChild(SerWalk, ChildTree(p, Fields(p, t)[i]), s)]]

(* A walk over a structure writes the header, and then goes over the fields. *)
LEMMA SerStructIs ==
  ASSUME NEW p \in Programs, NEW all, Handled(p, all), NEW t \in all,
         NEW l \in Stacks, NEW o \in Texts
  PROVE  SerWalk[Unnamed(Expansion[p][t])][State(l, o)]
           = After(RoundsOf(p, t), State(l, o \o Header(p, t)))[Len(Fields(p, t))]
<1> DEFINE node == Unnamed(Expansion[p][t])
           head == Header(p, t)
           n == Len(Fields(p, t))
           s == State(l, o)
           k == Definition[p][t].kind
<1>1. node \in Trees /\ node.children = Children(p, t) /\ node.item.offset = Len(head)
  BY NodeFacts
<1>2. head \in Texts /\ n \in Nat /\ (k = "optional" => n <= 30 /\ Len(head) = 4)
      /\ (k # "optional" => head = <<>>)
  BY HeaderIs, HandledFacts
<1>3. DOMAIN node.children = DOMAIN Fields(p, t) /\ Len(node.children) = n
      /\ \A i \in DOMAIN Fields(p, t) : node.children[i] = ChildTree(p, Fields(p, t)[i])
  BY <1>1, ChildNames
<1>4. s \in States /\ Write(s, head) = State(l, o \o head)
  <2> HIDE DEF head
  <2>1. Nil \in LuaValues
    BY ValuesAssumption
  <2> QED
    BY <1>2, <2>1, StackOps
<1> HIDE DEF node, s
<1>5. WriteHeader(node, s) = State(l, o \o head)
  <2>1. CASE k = "optional"
    <3>3. GetBits(n) = head
      BY <2>1 DEF Header
    <3>4. node.item.offset # 0
      <4> HIDE DEF k, head, n
      <4> DEFINE a == node.item.offset
      <4>1. a = 4
        BY <1>1, <1>2, <2>1
      <4> HIDE DEF a
      <4>2. a # 0
        BY <4>1
      <4> QED
        BY <4>2 DEF a
    <3> HIDE DEF head
    <3> QED
      BY <1>3, <1>4, <3>3, <3>4 DEF WriteHeader
  <2>2. CASE k # "optional"
    <3> HIDE DEF n, k, head
    <3>1. head = <<>>
      BY <1>2, <2>2
    <3>2. node.item.offset = 0
      BY <1>1, <3>1
    <3>3. o \o head = o
      BY <3>1, NoText
    <3> QED
      BY <3>2, <3>3 DEF WriteHeader, s
  <2> QED
    BY <2>1, <2>2
<1>6. SerWalk[node][s] = SerStruct(SerWalk, node, s)
  <2> HIDE DEF n, head, k
  <2> QED
    BY <1>1, <1>4, SerWalkIs
<1> HIDE DEF head, k
<1>7. SerStruct(SerWalk, node, s) = After(RoundsOf(p, t), State(l, o \o head))[n]
  <2> DEFINE rounds == [i \in DOMAIN node.children |->
                          [x \in States |-> SerChild(SerWalk, node.children[i], x)]]
             Whole(rs) == After(rs, WriteHeader(node, s))[Len(rs)]
  <2>1. SerStruct(SerWalk, node, s) = Whole(rounds)
    BY DEF SerStruct
  <2>2. rounds = RoundsOf(p, t)
    <3> HIDE DEF n
    <3> QED
      BY <1>3 DEF RoundsOf
  <2>3. Len(RoundsOf(p, t)) = n
    <3>1. DOMAIN Fields(p, t) = 1..n /\ n \in Nat
      BY HandledFacts
    <3> HIDE DEF n
    <3> QED
      BY <3>1 DEF RoundsOf
  <2> HIDE DEF rounds, n
  <2> QED
    BY <1>5, <2>1, <2>2, <2>3
<1> QED
  BY <1>6, <1>7 DEF node, s, head

(* What is written for a structure. *)
Code(p, t, v) == Header(p, t) \o FlattenSeq(FieldTexts(Bodies(p), p, t, v))

(* A complete table is written, if those nested in it are (serialize). *)
LEMMA StructIsWalked ==
  ASSUME NEW p \in Programs, NEW all, Handled(p, all), NEW t \in all,
         NEW v \in Structured[p][t],
         NEW l \in Stacks, NEW o \in Texts,
         \A u \in all : Depth(p)[u] < Depth(p)[t] => Encoded(p, u)
  PROVE  /\ IsText(Code(p, t, v)) /\ FlattenSeq(FieldTexts(Bodies(p), p, t, v)) \in Texts
         /\ SerWalk[Unnamed(Expansion[p][t])][State(Append(l, v), o)]
              = State(Append(l, v), o \o Code(p, t, v))
<1> DEFINE texts == FieldTexts(Bodies(p), p, t, v)
           rounds == RoundsOf(p, t)
           head == Header(p, t)
           n == Len(Fields(p, t))
           m == Append(l, v)
           e == Code(p, t, v)
<1>1. t \in TypeIds /\ v \in Tables[p][t] /\ v \in LuaValues
      /\ \A i \in DOMAIN Fields(p, t) : Complete(p, t, v, i)
  <2>1. t \in TypeIds
    BY HandledFacts
  <2>2. v \in Tables[p][t] /\ v \in LuaValues /\ HasStructures(p, t, v)
    BY <2>1, StructuredIs, StructuredIsTable
  <2> QED
    BY <2>1, <2>2, CompleteFields
<1>2. /\ texts \in Seq(Texts) /\ Len(texts) = n
      /\ \A i \in DOMAIN Fields(p, t) : texts[i] = FieldText(Bodies(p), p, t, v, i)
      /\ \E up : /\ Partials(texts, up) /\ FlattenSeq(texts) = up[n] /\ up[n] \in Texts
                 /\ IsText(head \o up[n])
  <2> DEFINE nested == Bodies(p)
  <2>1. \A i \in DOMAIN Fields(p, t) : IsText(FieldText(nested, p, t, v, i))
    BY <1>1, NestedIsText
  <2>2. texts = FieldTexts(nested, p, t, v)
    OBVIOUS
  <2> HIDE DEF nested, texts
  <2> QED
    BY <2>1, <2>2, FieldTextsAre DEF nested
<1>3. PICK up : /\ Partials(texts, up) /\ FlattenSeq(texts) = up[n] /\ up[n] \in Texts
                /\ IsText(head \o up[n])
  BY <1>2
<1>4. n \in Nat /\ DOMAIN Fields(p, t) = 1..n
  BY HandledFacts
<1>5. head \in Texts
  BY HeaderIs
<1>6. m \in Stacks
  BY <1>1, StackOps
<1>12. e = head \o up[n]
  BY <1>3 DEF Code
<1> HIDE DEF texts, head, e
<1>7. Writes(rounds, texts, m)
  <2>1. Len(rounds) = n
    <3> HIDE DEF n
    <3> QED
      BY <1>4 DEF RoundsOf
  <2>2. ASSUME NEW i \in 1..n, NEW x \in Texts
        PROVE  rounds[i][State(m, x)] = State(m, x \o texts[i])
    <3>1. i \in DOMAIN Fields(p, t) /\ texts[i] = FieldText(Bodies(p), p, t, v, i)
      BY <1>2, <1>4
    <3>2. State(m, x) \in States
      <4> HIDE DEF m
      <4> QED
        BY <1>1, <1>6, StackOps
    <3>3. rounds[i][State(m, x)] = SerChild(SerWalk, ChildTree(p, Fields(p, t)[i]), State(m, x))
      <4> HIDE DEF m, n
      <4> QED
        BY <3>1, <3>2 DEF RoundsOf
    <3>4. Complete(p, t, v, i) /\ v \in Tables[p][t]
      BY <1>1, <3>1
    <3>5. SerChild(SerWalk, ChildTree(p, Fields(p, t)[i]), State(Append(l, v), x))
            = State(Append(l, v), x \o FieldText(Bodies(p), p, t, v, i))
      BY <3>1, <3>4, ChildIsWritten
    <3> QED
      BY <3>1, <3>3, <3>5
  <2> HIDE DEF rounds, m, n
  <2> QED
    BY <1>2, <2>1, <2>2 DEF Writes
<1>8. After(rounds, State(m, o \o head))[n] = State(m, (o \o head) \o up[n])
  <2> DEFINE y == o \o head
  <2>1. y \in Texts
    BY <1>5, Concatenation
  <2> HIDE DEF y, rounds, m, n
  <2>2. \A i \in 0..Len(texts) : After(rounds, State(m, y))[i] = State(m, y \o up[i])
    BY <1>2, <1>3, <1>7, <2>1, TextsAreWritten
  <2>3. n \in 0..Len(texts)
    BY <1>2, <1>4
  <2> QED
    BY <2>2, <2>3 DEF y
<1>9. (o \o head) \o up[n] = o \o e
  <2> DEFINE z == up[n]
  <2>1. z \in Texts
    BY <1>2, <1>3, <1>4 DEF Partials
  <2> HIDE DEF z
  <2>2. (o \o head) \o z = o \o (head \o z)
    <3>1. o \in Texts /\ head \in Texts
      BY <1>5
    <3> HIDE DEF head
    <3> QED
      BY <2>1, <3>1, Together
  <2> QED
    BY <1>12, <2>2 DEF z
<1>10. SerWalk[Unnamed(Expansion[p][t])][State(m, o)] = After(rounds, State(m, o \o head))[n]
  <2> HIDE DEF m
  <2> QED
    BY <1>6, SerStructIs DEF head
<1>11. IsText(e) /\ FlattenSeq(texts) \in Texts
  BY <1>3, <1>12
<1> QED
  BY <1>8, <1>9, <1>10, <1>11 DEF e, texts

(* So is what is written for it on its own. *)
LEMMA StructIsWritten ==
  ASSUME NEW p \in Programs, NEW all, Handled(p, all), NEW t \in all,
         NEW v \in Structured[p][t],
         \A u \in all : Depth(p)[u] < Depth(p)[t] => Encoded(p, u)
  PROVE  IsText(Bodies(p)[t][v]) /\ Bodies(p)[t][v] = Code(p, t, v)
<1> DEFINE l == <<>>
           e == Code(p, t, v)
<1>1. l \in Stacks /\ Append(l, v) = <<v>>
  BY DEF Stacks
<1>2. l \in Texts
  BY DEF Texts
<1> HIDE DEF l
<1>3. IsText(e) /\ SerWalk[Unnamed(Expansion[p][t])][State(Append(l, v), l)]
                     = State(Append(l, v), l \o e)
  BY <1>1, <1>2, StructIsWalked
<1>4. Bodies(p)[t][v] = SerWalk[Unnamed(Expansion[p][t])][State(Append(l, v), l)].out
  <2>1. t \in TypeIds
    BY HandledFacts
  <2> QED
    BY <1>1, <2>1 DEF Bodies, l
<1> HIDE DEF e
<1>5. State(Append(l, v), l \o e).out = l \o e
  BY DEF State
<1>6. l \o e = e
  <2>1. e \in Texts
    BY <1>3 DEF IsText
  <2> QED
    BY <2>1 DEF l, Texts
<1>7. Bodies(p)[t][v] = e /\ IsText(e)
  BY <1>3, <1>4, <1>5, <1>6
<1> QED
  BY <1>7 DEF e

(* A table that is not complete ends in an error. *)
LEMMA StructFails ==
  ASSUME NEW p \in Programs, NEW all, Handled(p, all), NEW t \in all, NEW v \in Tables[p][t],
         v \notin Structured[p][t], NEW l \in Stacks, NEW o \in Texts,
         \A u \in all : Depth(p)[u] < Depth(p)[t] => Encoded(p, u)
  PROVE  Failed(SerWalk[Unnamed(Expansion[p][t])][State(Append(l, v), o)])
<1> DEFINE n == Len(Fields(p, t))
           texts == [i \in 1..n |-> IF Complete(p, t, v, i) THEN FieldText(Bodies(p), p, t, v, i) ELSE <<>>]
           rounds == RoundsOf(p, t)
           head == Header(p, t)
           m == Append(l, v)
           y == o \o head
<1>1. t \in TypeIds /\ n \in Nat /\ DOMAIN Fields(p, t) = 1..n
  BY HandledFacts
<1>2. v \in LuaValues /\ m \in Stacks
  <2>1. v \in LuaValues
    BY <1>1, ValuesAssumption
  <2> QED
    BY <2>1, StackOps
<1>3. head \in Texts
  BY HeaderIs
<1>4. y \in Texts
  <2> HIDE DEF head
  <2> QED
    BY <1>3, Concatenation
<1>5. \E i \in 1..n : ~Complete(p, t, v, i)
  <2>1. ~HasStructures(p, t, v)
    BY <1>1, StructuredIs
  <2> QED
    BY <1>1, <2>1, CompleteFields
<1>6. PICK k \in 1..n : ~Complete(p, t, v, k) /\ \A i \in 1..n : i < k => Complete(p, t, v, i)
  <2> DEFINE T == {i \in 1..n : ~Complete(p, t, v, i)}
  <2>1. T # {} /\ T \subseteq Nat
    BY <1>1, <1>5
  <2> HIDE DEF T
  <2>2. PICK k \in T : \A j \in T : ~(<<j, k>> \in OpToRel(<, Nat))
    BY <2>1, NatLessThanWellFounded, WFMin
  <2>3. \A j \in T : ~(j < k)
    BY <2>1, <2>2 DEF OpToRel
  <2> QED
    BY <2>2, <2>3 DEF T
<1>7. texts \in Seq(Texts) /\ Len(texts) = n
  <2>1. ASSUME NEW i \in 1..n, Complete(p, t, v, i)
        PROVE  FieldText(Bodies(p), p, t, v, i) \in Texts
    BY <1>1, <2>1, NestedIsText DEF IsText
  <2>2. <<>> \in Texts
    BY NoText, <1>3
  <2>3. \A i \in 1..n : texts[i] \in Texts
    BY <2>1, <2>2
  <2> HIDE DEF n
  <2> QED
    BY <1>1, <2>3
<1>8. ASSUME NEW i \in 1..n, NEW s \in States
      PROVE  rounds[i][s] = SerChild(SerWalk, ChildTree(p, Fields(p, t)[i]), s)
  <2> HIDE DEF n
  <2> QED
    BY <1>1 DEF RoundsOf
<1>9. ASSUME NEW x \in Texts
      PROVE  State(m, x) \in States
  <2> HIDE DEF m
  <2> QED
    BY <1>2, StackOps
<1>10. FailsAt(rounds, texts, m, k)
  <2>1. Len(rounds) = n
    <3> HIDE DEF n
    <3> QED
      BY <1>1 DEF RoundsOf
  <2>2. ASSUME NEW i \in 1..n, NEW x \in Texts, i < k
        PROVE  rounds[i][State(m, x)] = State(m, x \o texts[i])
    <3>1. Complete(p, t, v, i) /\ texts[i] = FieldText(Bodies(p), p, t, v, i) /\ i \in DOMAIN Fields(p, t)
      BY <1>1, <1>6, <2>2
    <3>2. SerChild(SerWalk, ChildTree(p, Fields(p, t)[i]), State(Append(l, v), x))
            = State(Append(l, v), x \o FieldText(Bodies(p), p, t, v, i))
      BY <3>1, ChildIsWritten
    <3> HIDE DEF rounds, texts, n
    <3> QED
      BY <1>8, <1>9, <3>1, <3>2
  <2>3. ASSUME NEW x \in Texts
        PROVE  Failed(rounds[k][State(m, x)])
    <3>1. k \in DOMAIN Fields(p, t)
      BY <1>1
    <3>2. Failed(SerChild(SerWalk, ChildTree(p, Fields(p, t)[k]), State(Append(l, v), x)))
      BY <1>6, <3>1, ChildIsMissing
    <3> HIDE DEF rounds, texts, n
    <3> QED
      BY <1>8, <1>9, <3>2
  <2>4. ASSUME NEW i \in 1..n, NEW s, Failed(s)
        PROVE  rounds[i][s] = s
    <3>1. s \in States
      BY <2>4 DEF Failed
    <3> DEFINE tn == ChildTree(p, Fields(p, t)[i])
               walk == SerWalk
    <3>2. rounds[i][s] = SerChild(walk, tn, s)
      BY <1>8, <3>1
    <3> HIDE DEF rounds, texts, n, tn, walk
    <3> QED
      BY <2>4, <3>2, FailedStays
  <2> HIDE DEF rounds, texts, n, m
  <2> QED
    BY <1>7, <2>1, <2>2, <2>3, <2>4 DEF FailsAt
<1>11. Failed(After(rounds, State(m, y))[n])
  <2> HIDE DEF rounds, texts, n, m, y
  <2>1. k \in 1..Len(texts)
    BY <1>7
  <2>2. Failed(After(rounds, State(m, y))[Len(texts)])
    BY <1>4, <1>7, <1>10, <2>1, LoopFails
  <2> QED
    BY <1>7, <2>2
<1>12. SerWalk[Unnamed(Expansion[p][t])][State(m, o)] = After(rounds, State(m, y))[n]
  <2> HIDE DEF m
  <2> QED
    BY <1>2, SerStructIs
<1> QED
  BY <1>11, <1>12

(* So does nil: a supported structure has a field to look for. *)
LEMMA NilFails ==
  ASSUME NEW p \in Programs, NEW all, Handled(p, all), NEW t \in all, NEW l \in Stacks,
         NEW o \in Texts
  PROVE  Failed(SerWalk[Unnamed(Expansion[p][t])][State(Append(l, Nil), o)])
<1> DEFINE n == Len(Fields(p, t))
           none == <<>>
           texts == [i \in 1..n |-> none]
           rounds == RoundsOf(p, t)
           head == Header(p, t)
           m == Append(l, Nil)
           y == o \o head
<1>1. t \in TypeIds /\ n \in Nat /\ n >= 1 /\ DOMAIN Fields(p, t) = 1..n
  BY HandledFacts
<1>2. Nil \in LuaValues /\ m \in Stacks
  <2>1. Nil \in LuaValues
    BY ValuesAssumption
  <2> QED
    BY <2>1, StackOps
<1>3. head \in Texts
  BY HeaderIs
<1>4. y \in Texts
  <2> HIDE DEF head
  <2> QED
    BY <1>3, Concatenation
<1>5. texts \in Seq(Texts) /\ Len(texts) = n
  <2>1. none \in Texts
    BY NoText, <1>3
  <2> HIDE DEF n, none
  <2> QED
    BY <1>1, <2>1
<1>6. ASSUME NEW i \in 1..n, NEW s \in States
      PROVE  rounds[i][s] = SerChild(SerWalk, ChildTree(p, Fields(p, t)[i]), s)
  <2> HIDE DEF n
  <2> QED
    BY <1>1 DEF RoundsOf
<1> DEFINE one == 1
<1>7. one \in 1..n /\ \A i \in 1..n : ~(i < one)
  BY <1>1
<1> HIDE DEF one, texts
<1>8. FailsAt(rounds, texts, m, one)
  <2>1. Len(rounds) = n
    <3> HIDE DEF n
    <3> QED
      BY <1>1 DEF RoundsOf
  <2>2. ASSUME NEW x \in Texts
        PROVE  Failed(rounds[one][State(m, x)])
    <3> DEFINE tn == ChildTree(p, Fields(p, t)[one])
               walk == SerWalk
    <3>1. State(m, x) \in States
      <4> HIDE DEF m
      <4> QED
        BY <1>2, StackOps
    <3>2. rounds[one][State(m, x)] = SerChild(walk, tn, State(m, x))
      <4> HIDE DEF m, rounds, n
      <4> QED
        BY <1>6, <1>7, <3>1
    <3> HIDE DEF rounds, n, tn, walk
    <3>3. Failed(SerChild(walk, tn, State(Append(l, Nil), x)))
      BY NilChildFails
    <3> QED
      BY <3>2, <3>3
  <2>3. ASSUME NEW i \in 1..n, NEW s, Failed(s)
        PROVE  rounds[i][s] = s
    <3>1. s \in States
      BY <2>3 DEF Failed
    <3> DEFINE tn == ChildTree(p, Fields(p, t)[i])
               walk == SerWalk
    <3>2. rounds[i][s] = SerChild(walk, tn, s)
      BY <1>6, <3>1
    <3> HIDE DEF rounds, n, tn, walk
    <3> QED
      BY <2>3, <3>2, FailedStays
  <2> HIDE DEF rounds, n, m
  <2> QED
    BY <1>5, <1>7, <2>1, <2>2, <2>3 DEF FailsAt
<1>9. Failed(After(rounds, State(m, y))[n])
  <2> HIDE DEF rounds, n, m, y
  <2>1. one \in 1..Len(texts)
    BY <1>5, <1>7
  <2>2. Failed(After(rounds, State(m, y))[Len(texts)])
    BY <1>4, <1>5, <1>8, <2>1, LoopFails
  <2> QED
    BY <1>5, <2>2
<1>10. SerWalk[Unnamed(Expansion[p][t])][State(m, o)] = After(rounds, State(m, y))[n]
  <2> HIDE DEF m
  <2> QED
    BY <1>2, SerStructIs
<1> QED
  BY <1>9, <1>10

(* Encoding: the walk writes a body for every table without missing structures, or ends
   in an error. *)
LEMMA Encodes ==
  ASSUME NEW p \in Programs, NEW all, Handled(p, all)
  PROVE  \A t \in all : Encoded(p, t)
<1> DEFINE G == {t \in all : Encoded(p, t)}
<1>1. ASSUME NEW t \in all, \A u \in all : Depth(p)[u] < Depth(p)[t] => u \in G
      PROVE  t \in G
  <2>1. \A u \in all : Depth(p)[u] < Depth(p)[t] => Encoded(p, u)
    BY <1>1
  <2>2. ASSUME NEW v \in Structured[p][t]
        PROVE  IsText(Bodies(p)[t][v]) /\ Bodies(p)[t][v] = Code(p, t, v)
    BY <2>1, StructIsWritten
  <2>3. ASSUME NEW l \in Stacks, NEW o \in Texts
        PROVE  /\ \A v \in Structured[p][t] :
                    SerWalk[Unnamed(Expansion[p][t])][State(Append(l, v), o)]
                      = State(Append(l, v), o \o Bodies(p)[t][v])
               /\ \A v \in Tables[p][t] :
                    v \notin Structured[p][t] =>
                      Failed(SerWalk[Unnamed(Expansion[p][t])][State(Append(l, v), o)])
               /\ Failed(SerWalk[Unnamed(Expansion[p][t])][State(Append(l, Nil), o)])
    <3>1. ASSUME NEW v \in Structured[p][t]
          PROVE  SerWalk[Unnamed(Expansion[p][t])][State(Append(l, v), o)]
                   = State(Append(l, v), o \o Bodies(p)[t][v])
      <4>1. SerWalk[Unnamed(Expansion[p][t])][State(Append(l, v), o)]
              = State(Append(l, v), o \o Code(p, t, v))
        BY <2>1, StructIsWalked
      <4> QED
        BY <2>2, <4>1
    <3>2. ASSUME NEW v \in Tables[p][t], v \notin Structured[p][t]
          PROVE  Failed(SerWalk[Unnamed(Expansion[p][t])][State(Append(l, v), o)])
      BY <2>1, <3>2, StructFails
    <3> QED
      BY <3>1, <3>2, NilFails
  <2> QED
    BY <2>2, <2>3 DEF Encoded
<1>2. all \subseteq TypeIds
  BY DEF Handled
<1>3. all \subseteq G
  <2> HIDE DEF G
  <2> QED
    BY <1>1, <1>2, DepthInduction
<1> QED
  BY <1>3

(* It is the body the server sends, if both sides agree on the table. *)
LEMMA RegularIsReference ==
  ASSUME NEW p \in Programs, NEW all, Handled(p, all)
  PROVE  \A t \in all : \A v \in Regular["encode"][p][t] : Bodies(p)[t][v] = Encoding[p][t][v]
<1> DEFINE G == {t \in all : \A v \in Regular["encode"][p][t] : Bodies(p)[t][v] = Encoding[p][t][v]}
<1>1. ASSUME NEW t \in all, \A u \in all : Depth(p)[u] < Depth(p)[t] => u \in G
      PROVE  t \in G
  <2> SUFFICES ASSUME NEW v \in Regular["encode"][p][t]
               PROVE  Bodies(p)[t][v] = Encoding[p][t][v]
    OBVIOUS
  <2> DEFINE ours == FieldTexts(Bodies(p), p, t, v)
             theirs == FieldTexts(Encoding[p], p, t, v)
             none == <<>>
  <2>1. t \in TypeIds /\ v \in Structured[p][t]
    BY HandledFacts, StructuredIs
  <2>2. \A u \in all : Encoded(p, u)
    BY Encodes
  <2>3. Bodies(p)[t][v] = Header(p, t) \o FlattenSeq(ours)
    BY <2>1, <2>2, StructIsWritten DEF Code
  <2>4. FlattenSeq(ours) \in Texts
    <3>1. none \in Stacks /\ none \in Texts
      BY DEF Stacks, Texts
    <3> HIDE DEF none
    <3> QED
      BY <2>1, <2>2, <3>1, StructIsWalked
  <2>5. ours = theirs
    <3>1. ASSUME NEW i \in DOMAIN Fields(p, t)
          PROVE  FieldText(Bodies(p), p, t, v, i) = FieldText(Encoding[p], p, t, v, i)
      <4> DEFINE f == Fields(p, t)[i]
                 u == f.type
                 w == v.tab[f.name]
      <4>1. u \in TypeIds => /\ u \in all /\ w \in Regular["encode"][p][u]
                             /\ Depth(p)[u] < Depth(p)[t]
        BY <2>1, RegularField, SupportedField, DepthFacts DEF NestsBelow
      <4>2. u \in TypeIds => Bodies(p)[u][w] = Encoding[p][u][w]
        <5> HIDE DEF u, w
        <5> QED
          BY <1>1, <4>1
      <4> HIDE DEF f
      <4>3. CodeText(Bodies(p), f, v) = CodeText(Encoding[p], f, v)
        BY <4>2 DEF CodeText
      <4> QED
        BY <4>3 DEF FieldText, f
    <3> QED
      BY <3>1 DEF FieldTexts
  <2>6. Encoding[p][t][v] = Header(p, t) \o FlattenSeq(theirs)
    BY <2>4, <2>5, EncodingIs
  <2> QED
    BY <2>3, <2>5, <2>6
<1>2. all \subseteq TypeIds
  BY DEF Handled
<1>3. all \subseteq G
  <2> HIDE DEF G
  <2> QED
    BY <1>1, <1>2, DepthInduction
<1> QED
  BY <1>3

-----------------------------------------------------------------------------
(* The results Lua gets                                                    *)

(* The properties, of one result. *)
SentOK(r) ==
  (r.op = "decode" /\ r.fits /\ Supported(r.prog, VarType[r.prog])
   /\ r.in \in Regular["decode"][r.prog][VarType[r.prog]]) => r.ret = "ok" /\ r.out = r.in

ReferenceOK(r) ==
  (r.op = "encode" /\ r.fits /\ Supported(r.prog, VarType[r.prog])
   /\ r.in \in Regular["encode"][r.prog][VarType[r.prog]]) =>
    /\ r.ret = "ok" /\ r.out.body = Encoding[r.prog][VarType[r.prog]][r.in] /\ r.out.left = <<>>

MissingOK(r) ==
  (r.op = "encode" /\ r.fits /\ Supported(r.prog, VarType[r.prog])
   /\ r.in \notin Structured[r.prog][VarType[r.prog]]) => r.ret = "raised"

ResultOK(r) ==
  /\ r.op \in {"none", "decode", "encode"} /\ r.fits \in BOOLEAN
  /\ SentOK(r) /\ ReferenceOK(r) /\ MissingOK(r)

(* The parts of a result. *)
LEMMA ResultIs ==
  ASSUME NEW op, NEW ret, NEW p, NEW fits, NEW in, NEW out
  PROVE  /\ Result(op, ret, p, fits, in, out).op = op /\ Result(op, ret, p, fits, in, out).ret = ret
         /\ Result(op, ret, p, fits, in, out).prog = p
         /\ Result(op, ret, p, fits, in, out).fits = fits
         /\ Result(op, ret, p, fits, in, out).in = in /\ Result(op, ret, p, fits, in, out).out = out
BY DEF Result

(* Nothing is claimed of a result without a tree that fits. *)
LEMMA NoFitIsOK ==
  ASSUME NEW op \in {"none", "decode", "encode"}, NEW ret, NEW p, NEW in, NEW out
  PROVE  ResultOK(Result(op, ret, p, FALSE, in, out))
<1> DEFINE no == FALSE
           r == Result(op, ret, p, no, in, out)
<1> HIDE DEF no
<1>1. r.op = op /\ r.fits = no
  BY ResultIs
<1> HIDE DEF r
<1>2. ~r.fits /\ r.fits \in BOOLEAN
  BY <1>1 DEF no
<1>3. ResultOK(r)
  BY <1>1, <1>2 DEF ResultOK, SentOK, ReferenceOK, MissingOK
<1> QED
  BY <1>3 DEF r, no

(* A supported type is one of a set closed under nesting. *)
LEMMA SupportedIsHandled ==
  ASSUME NEW p \in Programs, NEW t, Supported(p, t)
  PROVE  \E all : Handled(p, all) /\ t \in all
BY DEF Supported, Handled

(* A tree that fits is the one of the variable. *)
LEMMA FitsIs ==
  ASSUME NEW p \in Programs, NEW tree, Fits(tree, p)
  PROVE  VarType[p] \in TypeIds /\ Unnamed(tree) = Unnamed(Expansion[p][VarType[p]])
<1> DEFINE t == VarType[p]
           name == tree.item.name
<1>1. t \in TypeIds
  BY DefinitionsAssumption
<1>2. tree = Called(Expansion[p][t], name)
  BY DEF Fits
<1> HIDE DEF t, name
<1>3. Unnamed(Called(Expansion[p][t], name)) = Unnamed(Expansion[p][t])
  BY <1>1, UnnamedTree
<1> QED
  BY <1>1, <1>2, <1>3 DEF t

(* A body is decoded to its value. *)
LEMMA BodyIsDecoded ==
  ASSUME NEW p \in Programs, NEW tree, Fits(tree, p), Supported(p, VarType[p]),
         NEW v \in Received(p, VarType[p])
  PROVE  /\ Deserialize(tree, Encoding[p][VarType[p]][v], 0).addr # Over
         /\ Deserialize(tree, Encoding[p][VarType[p]][v], 0).val = v
<1> DEFINE t == VarType[p]
           buf == Encoding[p][t][v]
           a == 0
           n == Len(buf)
<1>1. PICK all : Handled(p, all) /\ t \in all
  BY SupportedIsHandled
<1>2. t \in TypeIds /\ Unnamed(tree) = Unnamed(Expansion[p][t]) /\ v \in Received(p, t)
  BY FitsIs
<1> HIDE DEF t
<1>3. v \in Regular["encode"][p][t]
  BY <1>1, <1>2, ReceivedIsRegular
<1>4. buf \in Texts
  BY <1>1, <1>3, EncodingIsText DEF IsText
<1>5. a \in Nat /\ n \in Nat /\ a + n = n
  BY <1>4 DEF Texts
<1>6. At(buf, a, Encoding[p][t][v])
  <2>1. \A k \in 1..n : a + k = k
    BY <1>5
  <2> HIDE DEF a
  <2> QED
    BY <1>5, <2>1 DEF At
<1> HIDE DEF a, n
<1>7. DeserWalk(buf)[Unnamed(Expansion[p][t])][a] = Done(a + n, v)
  <2>1. Decoded(p, t, buf)
    <3> HIDE DEF buf
    <3> QED
      BY <1>1, <1>4, Decodes
  <2> DEFINE b == buf
  <2>2. b = Encoding[p][t][v] /\ Decoded(p, t, b) /\ At(b, a, Encoding[p][t][v])
    BY <1>6, <2>1
  <2> HIDE DEF b
  <2>3. DeserWalk(b)[Unnamed(Expansion[p][t])][a] = Done(a + Len(Encoding[p][t][v]), v)
    BY <1>2, <1>5, <2>2 DEF Decoded
  <2> QED
    BY <2>3 DEF b, n
<1>8. Deserialize(tree, buf, a) = Done(n, v)
  BY <1>2, <1>5, <1>7 DEF Deserialize
<1>9. Done(n, v).addr = n /\ Done(n, v).val = v
  BY DEF Done
<1>10. n # Over
  BY <1>5 DEF Over
<1> QED
  BY <1>8, <1>9, <1>10 DEF t, a

(* Decoding with any tree. *)
LEMMA DecodeStep ==
  ASSUME NEW p \in Programs, NEW tree, NEW v \in Sample[p][VarType[p]], DecodeWith(tree, p, v)
  PROVE  ResultOK(last')
<1> DEFINE d == Deserialize(tree, Encoding[p][VarType[p]][v], 0)
           ret == IF d.addr # Over THEN "ok" ELSE "undefined"
           fits == Fits(tree, p)
           out == d.val
           op == "decode"
<1>1. last' = Result(op, ret, p, fits, v, out)
  BY DEF DecodeWith
<1>2. fits \in BOOLEAN
  BY DEF Fits
<1>3. (fits /\ Supported(p, VarType[p]) /\ v \in Regular["decode"][p][VarType[p]]) =>
        ret = "ok" /\ out = v
  <2> SUFFICES ASSUME Fits(tree, p), Supported(p, VarType[p]),
                      v \in Regular["decode"][p][VarType[p]]
               PROVE  ret = "ok" /\ out = v
    OBVIOUS
  <2>0. v \in Received(p, VarType[p])
    BY DEF Received
  <2>1. d.addr # Over /\ d.val = v
    BY <2>0, BodyIsDecoded
  <2> HIDE DEF d
  <2> QED
    BY <2>1
<1> HIDE DEF ret, fits, out, op
<1>4. /\ last'.op = op /\ last'.ret = ret /\ last'.prog = p
      /\ last'.fits = fits /\ last'.in = v /\ last'.out = out
  BY <1>1, ResultIs
<1>5. op = "decode" /\ op # "encode" /\ op \in {"none", "decode", "encode"}
  BY DEF op
<1>6. SentOK(last')
  BY <1>3, <1>4 DEF SentOK
<1>7. ReferenceOK(last') /\ MissingOK(last')
  BY <1>4, <1>5 DEF ReferenceOK, MissingOK
<1> QED
  BY <1>2, <1>4, <1>5, <1>6, <1>7 DEF ResultOK

(* A table is encoded, or refused. *)
LEMMA TableIsEncoded ==
  ASSUME NEW p \in Programs, NEW tree, Fits(tree, p), Supported(p, VarType[p]),
         NEW v \in Tables[p][VarType[p]], NEW s, s = Serialize(tree, State(<<v>>, <<>>))
  PROVE  /\ v \in Regular["encode"][p][VarType[p]] =>
              /\ ~s.raised /\ s.out = Encoding[p][VarType[p]][v] /\ s.out # <<>>
              /\ Pop(s).lua = <<>>
         /\ v \notin Structured[p][VarType[p]] => s.raised
<1> DEFINE t == VarType[p]
           l == <<>>
           o == <<>>
           node == Unnamed(Expansion[p][t])
<1>1. PICK all : Handled(p, all) /\ t \in all
  BY SupportedIsHandled
<1>2. t \in TypeIds /\ Unnamed(tree) = node /\ v \in Tables[p][t]
  BY FitsIs
<1>3. v \in Regular["encode"][p][t] => v \in Structured[p][t] /\ Bodies(p)[t][v] = Encoding[p][t][v]
  <2> HIDE DEF t
  <2>1. v \in Regular["encode"][p][t] => v \in Structured[p][t]
    BY <1>2, StructuredIs
  <2>2. v \in Regular["encode"][p][t] => Bodies(p)[t][v] = Encoding[p][t][v]
    BY <1>1, RegularIsReference
  <2> QED
    BY <2>1, <2>2
<1>4. v \in LuaValues
  <2> HIDE DEF t
  <2> QED
    BY <1>2, ValuesAssumption
<1>5. l \in Stacks /\ o \in Texts /\ <<v>> = Append(l, v)
  BY <1>4 DEF Stacks, Texts
<1>6. s = SerWalk[node][State(Append(l, v), o)]
  BY <1>2, <1>5 DEF Serialize
<1> HIDE DEF t, node, l, o
<1>7. Encoded(p, t)
  BY <1>1, Encodes
<1>8. ASSUME v \in Structured[p][t]
      PROVE  ~s.raised /\ s.out = Bodies(p)[t][v] /\ s.out # <<>> /\ Pop(s).lua = <<>>
  <2> DEFINE e == Bodies(p)[t][v]
  <2>1. SerWalk[node][State(Append(l, v), o)] = State(Append(l, v), o \o e)
    BY <1>5, <1>7, <1>8 DEF Encoded, node
  <2>2. e \in Texts /\ Len(e) >= 1
    BY <1>7, <1>8 DEF Encoded, IsText
  <2> HIDE DEF e
  <2>3. o \o e = e
    <3>1. \A x \in Texts : <<>> \o x = x
      BY DEF Texts
    <3> QED
      BY <2>2, <3>1 DEF o
  <2>4. s = State(Append(l, v), e)
    BY <1>6, <2>1, <2>3
  <2>5. Append(l, v) \in Stacks /\ Pop(State(Append(l, v), e)) = State(l, e)
    BY <1>4, <1>5, <2>2, StackOps
  <2>6. State(l, e).lua = l /\ State(Append(l, v), e).out = e
    BY DEF State
  <2>7. ~s.raised
    <3> DEFINE m == Append(l, v)
    <3>1. m \in Stacks /\ s = State(m, e)
      BY <2>4, <2>5
    <3> HIDE DEF m
    <3> QED
      BY <1>4, <2>2, <3>1, StackOps
  <2>8. e # <<>>
    BY <2>2
  <2> QED
    BY <2>4, <2>5, <2>6, <2>7, <2>8 DEF e, l
<1>9. ASSUME v \notin Structured[p][t]
      PROVE  s.raised
  <2>1. Failed(SerWalk[node][State(Append(l, v), o)])
    BY <1>2, <1>5, <1>7, <1>9 DEF Encoded, node
  <2> QED
    BY <1>6, <2>1 DEF Failed
<1> QED
  BY <1>3, <1>8, <1>9 DEF t

(* Encoding with any tree. *)
LEMMA EncodeStep ==
  ASSUME prog \in Programs, NEW tree, NEW v \in Tables[prog][VarType[prog]], EncodeWith(tree, v)
  PROVE  ResultOK(last')
<1> DEFINE p == prog
           t == VarType[p]
           s == Serialize(tree, State(<<v>>, <<>>))
           ret == IF s.raised THEN "raised" ELSE IF s.out = <<>> THEN "empty" ELSE "ok"
           body == s.out
           left == IF s.raised THEN <<>> ELSE Pop(s).lua
           out == [body |-> body, left |-> left]
           fits == Fits(tree, p)
           op == "encode"
<1>1. last' = Result(op, ret, p, fits, v, out)
  BY DEF EncodeWith
<1>2. fits \in BOOLEAN
  BY DEF Fits
<1>3. ASSUME fits, Supported(p, t)
      PROVE  /\ v \in Regular["encode"][p][t] =>
                  ret = "ok" /\ body = Encoding[p][t][v] /\ left = <<>>
             /\ v \notin Structured[p][t] => ret = "raised"
  <2> DEFINE x == s
  <2>1. x = Serialize(tree, State(<<v>>, <<>>)) /\ Fits(tree, p) /\ v \in Tables[p][t]
        /\ p \in Programs
    BY <1>3
  <2> HIDE DEF x, p
  <2>2. /\ v \in Regular["encode"][p][VarType[p]] =>
              /\ ~x.raised /\ x.out = Encoding[p][VarType[p]][v] /\ x.out # <<>>
              /\ Pop(x).lua = <<>>
        /\ v \notin Structured[p][VarType[p]] => x.raised
    BY <1>3, <2>1, TableIsEncoded
  <2>3. /\ v \in Regular["encode"][p][t] =>
              /\ ~s.raised /\ s.out = Encoding[p][t][v] /\ s.out # <<>> /\ Pop(s).lua = <<>>
        /\ v \notin Structured[p][t] => s.raised
    BY <2>2 DEF x
  <2> HIDE DEF s
  <2>4. CASE s.raised
    BY <2>3, <2>4
  <2>5. CASE ~s.raised
    BY <2>3, <2>5
  <2> QED
    BY <2>4, <2>5
<1>4. out.body = body /\ out.left = left
  <2> HIDE DEF body, left
  <2> QED
    OBVIOUS
<1> HIDE DEF ret, fits, out, op, body, left, s, p
<1>5. /\ last'.op = op /\ last'.ret = ret /\ last'.prog = p
      /\ last'.fits = fits /\ last'.in = v /\ last'.out = out
  BY <1>1, ResultIs
<1>6. op # "decode" /\ op = "encode" /\ op \in {"none", "decode", "encode"}
  BY DEF op
<1>7. SentOK(last')
  BY <1>5, <1>6 DEF SentOK
<1>8. ReferenceOK(last') /\ MissingOK(last')
  BY <1>3, <1>4, <1>5 DEF ReferenceOK, MissingOK
<1> QED
  BY <1>2, <1>5, <1>6, <1>7, <1>8 DEF ResultOK

(* A call that is refused. *)
LEMMA RefuseStep ==
  ASSUME NEW op \in {"decode", "encode"}, NEW why, Refuse(op, why)
  PROVE  ResultOK(last')
<1> DEFINE none == "none"
<1>1. last' = Result(op, why, none, FALSE, Nil, Nil)
  BY DEF Refuse
<1>2. op \in {"none", "decode", "encode"}
  OBVIOUS
<1> HIDE DEF none
<1> QED
  BY <1>1, <1>2, NoFitIsOK

-----------------------------------------------------------------------------
(* The steps of the specification                                          *)

Origins == Programs \cup {NoOrigin}

Typed == conn \in BOOLEAN /\ running \in BOOLEAN /\ origin \in [TypeIds -> Origins]

XInv == IInv /\ Typed /\ ResultOK(last)

(* conn, running and origin keep their types. *)
LEMMA TypedInit ==
  ASSUME TypesInit
  PROVE  Typed
<1>1. conn \in BOOLEAN /\ running \in BOOLEAN
  BY DEF TypesInit
<1>2. origin = [t \in TypeIds |-> NoOrigin] /\ NoOrigin \in Origins
  BY DEF TypesInit, Origins
<1> HIDE DEF Origins
<1> QED
  BY <1>1, <1>2 DEF Typed

(* conn, running and origin keep their types, action by action. *)
LEMMA TypedStep ==
  ASSUME IInv, Typed, TypesNext
  PROVE  Typed'
<1>1. source \in Origins /\ NoOrigin \in Origins
  BY DEF IInv, Static, Origins
<1>2. CASE UNCHANGED <<conn, running, origin>>
  BY <1>2 DEF Typed
<1>3. CASE (Connect \/ LoseConnection) /\ UNCHANGED <<running, origin>>
  <2>1. conn' \in BOOLEAN
    BY <1>3, Zenon DEF Connect, LoseConnection
  <2> QED
    BY <1>3, <2>1 DEF Typed
<1>4. CASE (EnterCyclic \/ LeaveCyclic) /\ UNCHANGED <<conn, origin>>
  <2>1. running' \in BOOLEAN
    BY <1>4, Zenon DEF EnterCyclic, LeaveCyclic
  <2> QED
    BY <1>4, <2>1 DEF Typed
<1>5. CASE Add
  <2>1. origin' = [origin EXCEPT ![Top.type] = source] /\ UNCHANGED <<conn, running>>
    BY <1>5 DEF Add
  <2> QED
    BY <1>1, <2>1 DEF Typed
<1>6. CASE AssignSymbolDef
  <2> DEFINE new == [t \in TypeIds |-> IF t = Top.type THEN source ELSE NoOrigin]
  <2>1. (origin' = new \/ origin' = origin) /\ UNCHANGED <<conn, running>>
    BY <1>6 DEF AssignSymbolDef
  <2>2. new \in [TypeIds -> Origins]
    BY <1>1
  <2> HIDE DEF new
  <2> QED
    BY <2>1, <2>2 DEF Typed
<1>7. ASSUME NEW p \in Programs, PlcDownload(p)
      PROVE  UNCHANGED <<conn, running, origin>>
  BY <1>7 DEF PlcDownload
<1>8. ASSUME NEW t \in TypeIds, Resolve(t)
      PROVE  UNCHANGED <<conn, running, origin>>
  BY <1>8 DEF Resolve
<1>9. Connect \/ LoseConnection => UNCHANGED <<running, origin>>
  BY DEF Connect, LoseConnection
<1>10. EnterCyclic \/ LeaveCyclic => UNCHANGED <<conn, origin>>
  BY DEF EnterCyclic, LeaveCyclic
<1>11. InitCyclic \/ FindKnown \/ ReadDefinition \/ AddChild \/ Recurse \/ RejectField =>
         UNCHANGED <<conn, running, origin>>
  BY DEF InitCyclic, FindKnown, ReadDefinition, AddChild, Recurse, RejectField
<1> QED
  BY <1>2, <1>3, <1>4, <1>5, <1>6, <1>7, <1>8, <1>9, <1>10, <1>11 DEF TypesNext, ReadStep

(* Nothing has been decoded yet. *)
LEMMA NoResultIsOK == ResultOK(NoResult)
<1> DEFINE none == "none"
<1>1. NoResult = Result(none, none, none, FALSE, Nil, Nil) /\ none \in {"none", "decode", "encode"}
  BY DEF NoResult
<1> HIDE DEF none
<1> QED
  BY <1>1, NoFitIsOK

(* Whatever Lua decodes or encodes, with whatever the cache or SymbolDef holds. *)
LEMMA LuaStepIsOK ==
  ASSUME IInv, LuaStep
  PROVE  ResultOK(last')
<1>1. prog \in Programs /\ source \in Programs
  BY DEF IInv, Static
<1>2. "decode" \in {"decode", "encode"} /\ "encode" \in {"decode", "encode"}
  OBVIOUS
<1>3. ASSUME NEW t \in TypeIds, NEW p \in {prog, origin[t]} \cap Programs,
             NEW v \in Sample[p][VarType[p]], DecodeExtensionObject(t, p, v)
      PROVE  ResultOK(last')
  <2>1. p \in Programs
    OBVIOUS
  <2>2. DecodeWith(types[t], p, v) \/ Refuse("decode", "type not found")
    BY <1>3, Zenon DEF DecodeExtensionObject
  <2> QED
    BY <1>2, <2>1, <2>2, DecodeStep, RefuseStep
<1>4. ASSUME NEW t \in TypeIds, NEW v \in Tables[prog][VarType[prog]], EncodeExtensionObject(t, v)
      PROVE  ResultOK(last')
  <2>1. \/ EncodeWith(types[t], v)
        \/ Refuse("encode", "type not found") \/ Refuse("encode", "not valid")
    BY <1>4, Zenon DEF EncodeExtensionObject
  <2> QED
    BY <1>1, <1>2, <2>1, EncodeStep, RefuseStep
<1>5. ASSUME NEW v \in Sample[source][VarType[source]], GetInputs(v)
      PROVE  ResultOK(last')
  <2>1. DecodeWith(SymDef, source, v) \/ Refuse("decode", "not running")
    BY <1>5, Zenon DEF GetInputs
  <2> QED
    BY <1>1, <1>2, <2>1, DecodeStep, RefuseStep
<1>6. ASSUME NEW v \in Tables[prog][VarType[prog]], SetOutputs(v)
      PROVE  ResultOK(last')
  <2>1. EncodeWith(SymDef, v) \/ Refuse("encode", "not valid")
    BY <1>6, Zenon DEF SetOutputs
  <2> QED
    BY <1>1, <1>2, <2>1, EncodeStep, RefuseStep
<1> QED
  BY <1>3, <1>4, <1>5, <1>6 DEF LuaStep

(* The invariant holds initially. *)
LEMMA XInitStep ==
  ASSUME Init
  PROVE  XInv
BY InitStep, TypedInit, NoResultIsOK DEF Init, XInv

(* Every step keeps it. *)
LEMMA XStep ==
  ASSUME XInv, [Next]_vars
  PROVE  XInv'
<1>1. IInv /\ Typed /\ ResultOK(last)
  BY DEF XInv
<1>2. CASE TypesStep
  <2>1. TypesNext /\ last' = NoResult
    BY <1>2 DEF TypesStep
  <2>2. IInv'
    BY <1>1, <2>1, TypesStepKeeps
  <2>3. Typed'
    BY <1>1, <2>1, TypedStep
  <2>4. ResultOK(last')
    BY <2>1, NoResultIsOK
  <2> QED
    BY <2>2, <2>3, <2>4 DEF XInv
<1>3. ASSUME UNCHANGED typeVars
      PROVE  IInv' /\ Typed'
  <2>1. IInv'
    BY <1>1, <1>3, TypesStepKeeps
  <2>2. Typed'
    BY <1>1, <1>3 DEF typeVars, Typed
  <2> QED
    BY <2>1, <2>2
<1>4. CASE LuaStep
  <2>1. UNCHANGED typeVars
    BY <1>4 DEF LuaStep
  <2>2. ResultOK(last')
    BY <1>1, <1>4, LuaStepIsOK
  <2> QED
    BY <1>3, <2>1, <2>2 DEF XInv
<1>5. CASE TakeResult
  <2>1. last' = NoResult /\ UNCHANGED typeVars
    BY <1>5 DEF TakeResult
  <2> QED
    BY <1>3, <2>1, NoResultIsOK DEF XInv
<1>6. CASE UNCHANGED vars
  <2>1. UNCHANGED typeVars /\ last' = last
    BY <1>6 DEF vars
  <2> QED
    BY <1>1, <1>3, <2>1 DEF XInv
<1> QED
  BY <1>2, <1>4, <1>5, <1>6 DEF Next

-----------------------------------------------------------------------------
(* The theorems                                                            *)

(* deserialize gives back a value of a supported type, wherever in a buffer the server's
   encoding of it lies and whatever follows, and stops at the end of the encoding.  Left
   out are the values that omit an optional field, at any depth, since the mask that says
   so is skipped, and those with a UInt32 that a lua_Integer does not hold. *)
THEOREM DecodesAnywhere ==
  ASSUME NEW p \in Programs, NEW t, Supported(p, t),
         NEW v \in Sample[p][t] \cap Regular["decode"][p][t],
         NEW buf \in Texts, NEW a \in Nat, At(buf, a, Encoding[p][t][v])
  PROVE  DeserWalk(buf)[Unnamed(Expansion[p][t])][a] = Done(a + Len(Encoding[p][t][v]), v)
<1>1. PICK all : Handled(p, all) /\ t \in all
  BY SupportedIsHandled
<1>2. Decoded(p, t, buf)
  BY <1>1, Decodes
<1>3. v \in Received(p, t)
  BY DEF Received
<1> QED
  BY <1>2, <1>3 DEF Decoded

(* serialize appends to what was written before and leaves the stack as it was, or ends in
   a Lua error if the table lacks a nested structure, at any depth.  What it appends is
   the server's encoding of the table, unless the table omits an optional field, which is
   written and announced in the mask all the same, or has an array that lua_next does not
   go through by index. *)
THEOREM EncodesAnywhere ==
  ASSUME NEW p \in Programs, NEW t \in TypeIds, Supported(p, t), NEW v \in Tables[p][t],
         NEW l \in Stacks, NEW o \in Texts
  PROVE  LET s == SerWalk[Unnamed(Expansion[p][t])][State(Append(l, v), o)]
         IN /\ v \in Regular["encode"][p][t] => s = State(Append(l, v), o \o Encoding[p][t][v])
            /\ v \in Structured[p][t] => \E e \in Texts : s = State(Append(l, v), o \o e)
            /\ v \notin Structured[p][t] => s.raised
<1> DEFINE s == SerWalk[Unnamed(Expansion[p][t])][State(Append(l, v), o)]
           body == Bodies(p)[t][v]
<1>1. PICK all : Handled(p, all) /\ t \in all
  BY SupportedIsHandled
<1>2. Encoded(p, t)
  BY <1>1, Encodes
<1>3. v \in Structured[p][t] => s = State(Append(l, v), o \o body) /\ body \in Texts
  BY <1>2 DEF Encoded, IsText
<1>4. v \notin Structured[p][t] => s.raised
  BY <1>2 DEF Encoded, Failed
<1>5. v \in Regular["encode"][p][t] => v \in Structured[p][t] /\ body = Encoding[p][t][v]
  BY <1>1, StructuredIs, RegularIsReference
<1> HIDE DEF s, body
<1>6. v \in Regular["encode"][p][t] => s = State(Append(l, v), o \o Encoding[p][t][v])
  BY <1>3, <1>5
<1> QED
  BY <1>3, <1>4, <1>6 DEF s

(* What serialize writes for a value of the variable, deserialize reads back, if the value
   has all optional fields and only numbers that a lua_Integer holds. *)
THEOREM RoundTrip ==
  ASSUME NEW p \in Programs, NEW tree, Fits(tree, p), Supported(p, VarType[p]),
         NEW v \in Sample[p][VarType[p]] \cap Regular["decode"][p][VarType[p]]
  PROVE  Deserialize(tree, Serialize(tree, State(<<v>>, <<>>)).out, 0).val = v
<1> DEFINE t == VarType[p]
           s == Serialize(tree, State(<<v>>, <<>>))
<1>1. PICK all : Handled(p, all) /\ t \in all
  BY SupportedIsHandled
<1>2. t \in TypeIds /\ v \in Received(p, t)
  BY FitsIs DEF Received
<1>3. v \in Regular["encode"][p][t]
  <2> HIDE DEF t
  <2> QED
    BY <1>1, <1>2, ReceivedIsRegular
<1>4. v \in Tables[p][t]
  <2> HIDE DEF t
  <2> QED
    BY <1>2, <1>3, StructuredIs
<1>5. s.out = Encoding[p][t][v]
  BY <1>3, <1>4, TableIsEncoded
<1>6. Deserialize(tree, Encoding[p][t][v], 0).val = v
  BY <1>2, BodyIsDecoded
<1> QED
  BY <1>5, <1>6

(* What is read of the types does not depend on what Lua decodes and encodes: the two
   readers behave as TypeDefinitions says. *)
THEOREM TypesUndisturbed == Spec => TypesSpec
<1>1. Init => TypesInit
  BY DEF Init
<1>2. [Next]_vars => [TypesNext]_typeVars
  BY DEF Next, TypesStep, LuaStep, TakeResult, vars
<1> QED
  BY <1>1, <1>2, PTL DEF Spec, TypesSpec

(* The inductive invariant: that of the types, and of the result Lua has got all that is
   claimed of it. *)
THEOREM ResultsInvariance == Spec => []XInv
<1>1. Init => XInv
  BY XInitStep
<1>2. XInv /\ [Next]_vars => XInv'
  BY XStep
<1> QED
  BY <1>1, <1>2, PTL DEF Spec

(* All variables stay in their types, and a call is busy exactly while it has frames
   (TypeOK). *)
THEOREM ResultsTyped == Spec => []TypeOK
<1>1. XInv => TypeOK
  <2> SUFFICES ASSUME XInv PROVE TypeOK
    OBVIOUS
  <2>1. Static /\ Typed /\ ResultOK(last)
    BY DEF XInv, IInv
  <2>2. /\ prog \in Programs /\ source \in Programs /\ reader \in {"manager", "cyclic"}
        /\ Reading <=> call.ret = "busy"
    BY <2>1 DEF Static
  <2>3. call.type \in TypeIds /\ call.ret \in {"none", "busy", "good", "bad"}
    BY <2>1 DEF Static
  <2>4. conn \in BOOLEAN /\ running \in BOOLEAN /\ origin \in [TypeIds -> Programs \cup {NoOrigin}]
    BY <2>1 DEF Typed, Origins
  <2>5. last.op \in {"none", "decode", "encode"} /\ last.fits \in BOOLEAN
    BY <2>1 DEF ResultOK
  <2> QED
    BY <2>2, <2>3, <2>4, <2>5, Zenon DEF TypeOK
<1> QED
  BY <1>1, ResultsInvariance, PTL

(* Lua gets the value the server sent, whatever was downloaded, read or lost before, if
   the tree fits the type, no optional field is omitted and a lua_Integer holds every
   number (DecodedIsSent, over Regular). *)
THEOREM DecodesWhatWasSent == Spec => []DecodedIsSent
<1>1. XInv => DecodedIsSent
  BY DEF XInv, ResultOK, SentOK, DecodedIsSent
<1> QED
  BY <1>1, ResultsInvariance, PTL

(* A table with all optional fields, whose arrays lua_next goes through by index, is
   encoded as the server would encode it (EncodedIsReference, over Regular). *)
THEOREM EncodesTheReference == Spec => []EncodedIsReference
<1>1. XInv => EncodedIsReference
  BY DEF XInv, ResultOK, ReferenceOK, EncodedIsReference
<1> QED
  BY <1>1, ResultsInvariance, PTL

(* A table without a nested structure is refused (NoBodyWithoutStructures). *)
THEOREM RefusesMissingStructures == Spec => []NoBodyWithoutStructures
<1>1. XInv => NoBodyWithoutStructures
  BY DEF XInv, ResultOK, MissingOK, NoBodyWithoutStructures
<1> QED
  BY <1>1, ResultsInvariance, PTL

(* The cache holds whole trees, in the composition too (CachedTypesAreWhole). *)
THEOREM ResultsCacheWhole == Spec => []CachedTypesAreWhole
BY TypesUndisturbed, CacheWhole, PTL

(* SymbolDef is whole and the one of the variable exchanged (SymbolDefIsWhole,
   SymbolDefIsCurrent). *)
THEOREM ResultsSymbolWhole == Spec => [](SymbolDefIsWhole /\ SymbolDefIsCurrent)
BY TypesUndisturbed, SymbolWhole, SymbolCurrent, PTL

(* A resolve that returned GOOD left a type to decode with (ResolvedIsKnown). *)
THEOREM ResultsResolvedKnown == Spec => []ResolvedIsKnown
BY TypesUndisturbed, ResolvedKnown, PTL
=============================================================================
