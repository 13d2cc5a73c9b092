---------------------------- MODULE PacketProofs ----------------------------
(***************************************************************************)
(* Proofs about packets: the walkers and PacketCodec, for every program,   *)
(* every value and every sequence of bytes, and PacketDispatch, for every  *)
(* set of schemas.  A law says what the walker of one type does with any   *)
(* bytes; each walker keeps the laws that those it is made of obey, and    *)
(* types are declared after those they are made of.                        *)
(***************************************************************************)
EXTENDS PacketCodec, PacketDispatch, SequenceTheorems, WellFoundedInduction, TLAPS

-----------------------------------------------------------------------------
(***************************************************************************)
(* Induction, by the least number for which a claim would fail, and what   *)
(* follows: recursive functions are what their equations say.              *)
(***************************************************************************)

(* Every set of numbers has a least one. *)
LEMMA LeastNumber ==
    ASSUME NEW T \in SUBSET Nat, T # {}
    PROVE  \E m \in T : \A k \in T : m <= k
<1> DEFINE R == OpToRel(<, Nat)
<1>1. IsWellFoundedOn(R, Nat)
  BY NatLessThanWellFounded
<1>2. \A j, k \in Nat : j < k => <<j, k>> \in R
  BY DEF OpToRel
<1> HIDE DEF R
<1>3. PICK m \in T : \A k \in T : ~ (<<k, m>> \in R)
  BY <1>1, WFMin
<1>4. ASSUME NEW k \in T PROVE m <= k
  <2>1. k \in Nat /\ m \in Nat /\ ~ (<<k, m>> \in R)
    BY <1>3
  <2>2. ~ (k < m)
    BY <1>2, <2>1
  <2> QED BY <2>1, <2>2
<1> QED BY <1>4

(* A set of numbers that goes on from 0 to n holds all of them. *)
LEMMA CountingUp ==
    ASSUME NEW n \in Nat, NEW T, 0 \in T,
           \A i \in 1 .. n : i - 1 \in T => i \in T
    PROVE  \A i \in 0 .. n : i \in T
<1> DEFINE U == {i \in 0 .. n : i \notin T}
<1> SUFFICES ASSUME U # {} PROVE FALSE
  OBVIOUS
<1>1. U \in SUBSET Nat
  OBVIOUS
<1>2. PICK m \in U : \A k \in U : m <= k
  BY <1>1, LeastNumber
<1>3. m \in 1 .. n /\ m - 1 \in 0 .. n
  BY <1>2
<1>4. m - 1 \notin U
  BY <1>2, <1>3
<1> QED BY <1>2, <1>3, <1>4

(* A set of numbers that holds each that all before it are in. *)
LEMMA OneAfterTheOther ==
    ASSUME NEW n \in Nat, NEW T,
           \A t \in 1 .. n : (\A u \in 1 .. t - 1 : u \in T) => t \in T
    PROVE  \A t \in 1 .. n : t \in T
<1> DEFINE U == {i \in 1 .. n : i \notin T}
<1> SUFFICES ASSUME U # {} PROVE FALSE
  OBVIOUS
<1>1. U \in SUBSET Nat
  OBVIOUS
<1>2. PICK m \in U : \A k \in U : m <= k
  BY <1>1, LeastNumber
<1>3. ASSUME NEW u \in 1 .. m - 1 PROVE u \in T
  <2>1. u \in 1 .. n /\ u \notin U
    BY <1>2
  <2> QED BY <2>1
<1> QED BY <1>2, <1>3

(* A loop of n steps over values of S, and its outcomes after each step. *)
IsLoop(n, S, base, step) == n \in Nat /\ base \in S /\ step \in [1 .. n -> [S -> S]]

Outcomes(f, n, S, base, step) ==
    /\ f \in [0 .. n -> S]
    /\ f[0] = base
    /\ \A i \in 1 .. n : f[i] = step[i][f[i - 1]]

LEMMA LoopExists ==
    ASSUME NEW n, NEW S, NEW base, NEW step, IsLoop(n, S, base, step)
    PROVE  \E f : Outcomes(f, n, S, base, step)
<1> USE DEF IsLoop
<1> DEFINE Solves(f, k) == f[0] = base /\ \A i \in 1 .. k : f[i] = step[i][f[i - 1]]
    T == {k \in 0 .. n : \E f \in [0 .. n -> S] : Solves(f, k)}
<1>1. 0 \in T
  <2> DEFINE f == [i \in 0 .. n |-> base]
  <2>1. f \in [0 .. n -> S] /\ Solves(f, 0)
    OBVIOUS
  <2> HIDE DEF f, Solves
  <2> QED BY <2>1
<1>2. ASSUME NEW k \in 1 .. n, k - 1 \in T PROVE k \in T
  <2>1. PICK f \in [0 .. n -> S] : Solves(f, k - 1)
    BY <1>2
  <2> DEFINE g == [f EXCEPT ![k] = step[k][f[k - 1]]]
  <2>2. step[k][f[k - 1]] \in S
    <3>1. f[k - 1] \in S /\ step[k] \in [S -> S]
      OBVIOUS
    <3> QED BY <3>1
  <2>3. g \in [0 .. n -> S] /\ g[0] = base
    BY <2>1, <2>2
  <2>4. ASSUME NEW i \in 1 .. k PROVE g[i] = step[i][g[i - 1]]
    <3>1. g[i - 1] = f[i - 1]
      OBVIOUS
    <3>2. CASE i = k
      BY <3>1, <3>2
    <3>3. CASE i # k
      BY <2>1, <3>1, <3>3
    <3> QED BY <3>2, <3>3
  <2>5. Solves(g, k)
    BY <2>3, <2>4
  <2> HIDE DEF g, Solves
  <2> QED BY <2>3, <2>5
<1>3. n \in T
  <2> HIDE DEF T
  <2>1. \A i \in 0 .. n : i \in T
    BY <1>1, <1>2, CountingUp
  <2> QED BY <2>1
<1> QED BY <1>3 DEF Outcomes

-----------------------------------------------------------------------------
(***************************************************************************)
(* Declared types                                                          *)
(***************************************************************************)

(* The types are the numbers of their declarations.                        *)
LEMMA DeclaredType ==
    /\ Len(Declared) \in Nat
    /\ Type = 1 .. Len(Declared)
    /\ \A t \in Type : Declared[t] \in MadeOf(1 .. t - 1)
BY WalkersAssumption DEF Type

(* The types a type is made of are declared before it. *)
LEMMA PartsComeBefore ==
    ASSUME NEW t \in Type
    PROVE  /\ Declared[t].kind \in
                {"num", "empty", "string", "spstring", "end", "array", "sp",
                 "optional", "constrained", "object"}
           /\ Declared[t].kind = "num" => Declared[t].width \in Words \ {0}
           /\ Declared[t].kind = "array" => Declared[t].size \in Nat
           /\ Declared[t].kind = "constrained" =>
                 Declared[t].least \in Nat /\ Declared[t].most \in Nat
           /\ Declared[t].kind \in {"array", "sp", "optional", "constrained"} =>
                 Declared[t].of \in 1 .. t - 1
           /\ Declared[t].kind = "object" =>
                 Declared[t].first \in 1 .. t - 1 /\ Declared[t].rest \in 1 .. t - 1
BY DeclaredType DEF MadeOf, Empty, String, SpString, End

(* A walker needs no other walkers than those of its parts. *)
LEMMA WalkerOfParts ==
    ASSUME NEW t \in Type, NEW f, NEW g, \A u \in 1 .. t - 1 : f[u] = g[u]
    PROVE  WalkerOf(Declared[t], f) = WalkerOf(Declared[t], g)
BY PartsComeBefore DEF WalkerOf

(* The format of a type depends on those of the types before it only.      *)
LEMMA FormatOfParts ==
    ASSUME NEW t \in Type, NEW V, NEW f, NEW g, \A u \in 1 .. t - 1 : f[u] = g[u]
    PROVE  FormatOf(Declared[t], V, f) = FormatOf(Declared[t], V, g)
<1>1. Portable(Declared[t], V, f) = Portable(Declared[t], V, g)
  BY PartsComeBefore DEF Portable
<1>2. Missing(Declared[t], V, f) = Missing(Declared[t], V, g)
  BY PartsComeBefore DEF Missing
<1>3. Exact(Declared[t], f) = Exact(Declared[t], g)
  BY PartsComeBefore DEF Exact
<1>4. \A v, w : EndsIn(Declared[t], v, w, f) = EndsIn(Declared[t], v, w, g)
  BY PartsComeBefore DEF EndsIn
<1> QED BY <1>1, <1>2, <1>3, <1>4 DEF FormatOf

(* Walker and Format are what their equations say. *)
LEMMA WalkerEquation == \A t \in Type : Walker[t] = WalkerOf(Declared[t], Walker)
<1> DEFINE n == Len(Declared)
    Solves(f, k) == \A t \in 1 .. k : f[t] = WalkerOf(Declared[t], f)
    T == {k \in 0 .. n : \E f : Solves(f, k)}
<1>1. n \in Nat /\ Type = 1 .. n
  BY DeclaredType
<1> HIDE DEF n
<1>2. 0 \in T
  <2>1. Solves(Declared, 0)
    OBVIOUS
  <2> HIDE DEF Solves
  <2> QED BY <1>1, <2>1
<1>3. ASSUME NEW k \in 1 .. n, k - 1 \in T PROVE k \in T
  <2>1. PICK f : Solves(f, k - 1)
    BY <1>3
  <2> DEFINE g == [t \in Type |-> IF t = k THEN WalkerOf(Declared[k], f) ELSE f[t]]
  <2>2. ASSUME NEW t \in 1 .. k PROVE g[t] = WalkerOf(Declared[t], g)
    <3>1. t \in Type /\ \A u \in 1 .. t - 1 : g[u] = f[u]
      BY <1>1
    <3>2. WalkerOf(Declared[t], g) = WalkerOf(Declared[t], f)
      <4> HIDE DEF g
      <4> QED BY <3>1, WalkerOfParts
    <3>3. CASE t = k
      BY <3>1, <3>2, <3>3
    <3>4. CASE t # k
      BY <2>1, <3>1, <3>2, <3>4
    <3> QED BY <3>3, <3>4
  <2>3. Solves(g, k)
    BY <2>2
  <2> HIDE DEF g, Solves
  <2> QED BY <2>3
<1>4. n \in T
  <2> HIDE DEF T
  <2>1. \A i \in 0 .. n : i \in T
    BY <1>1, <1>2, <1>3, CountingUp
  <2> QED BY <1>1, <2>1
<1>5. PICK f : Solves(f, n)
  BY <1>4
<1> DEFINE g == [t \in Type |-> f[t]]
<1>6. ASSUME NEW t \in Type PROVE g[t] = WalkerOf(Declared[t], g)
  <2>1. \A u \in 1 .. t - 1 : g[u] = f[u]
    BY <1>1
  <2>2. WalkerOf(Declared[t], g) = WalkerOf(Declared[t], f)
    <3> HIDE DEF g
    <3> QED BY <2>1, WalkerOfParts
  <2> QED BY <1>1, <1>5, <2>2
<1>7. g = [t \in Type |-> WalkerOf(Declared[t], g)]
  BY <1>6
<1> HIDE DEF g
<1>8. Walker = [t \in Type |-> WalkerOf(Declared[t], Walker)]
  BY <1>7 DEF Walker
<1> QED BY <1>8

(* The recursive function Format exists.                                   *)
LEMMA FormatEquation ==
    \A t \in Type : Format[t] = FormatOf(Declared[t], Values(Walker[t]), Format)
<1> DEFINE n == Len(Declared)
    V(t) == Values(Walker[t])
    Solves(f, k) == \A t \in 1 .. k : f[t] = FormatOf(Declared[t], V(t), f)
    T == {k \in 0 .. n : \E f : Solves(f, k)}
<1>1. n \in Nat /\ Type = 1 .. n
  BY DeclaredType
<1> HIDE DEF n, V
<1>2. 0 \in T
  <2>1. Solves(Declared, 0)
    OBVIOUS
  <2> HIDE DEF Solves
  <2> QED BY <1>1, <2>1
<1>3. ASSUME NEW k \in 1 .. n, k - 1 \in T PROVE k \in T
  <2>1. PICK f : Solves(f, k - 1)
    BY <1>3
  <2> DEFINE g == [t \in Type |-> IF t = k THEN FormatOf(Declared[k], V(k), f) ELSE f[t]]
  <2>2. ASSUME NEW t \in 1 .. k PROVE g[t] = FormatOf(Declared[t], V(t), g)
    <3>1. t \in Type /\ \A u \in 1 .. t - 1 : g[u] = f[u]
      BY <1>1
    <3>2. FormatOf(Declared[t], V(t), g) = FormatOf(Declared[t], V(t), f)
      <4> HIDE DEF g
      <4> QED BY <3>1, FormatOfParts
    <3>3. CASE t = k
      BY <3>1, <3>2, <3>3
    <3>4. CASE t # k
      BY <2>1, <3>1, <3>2, <3>4
    <3> QED BY <3>3, <3>4
  <2>3. Solves(g, k)
    BY <2>2
  <2> HIDE DEF g, Solves
  <2> QED BY <2>3
<1>4. n \in T
  <2> HIDE DEF T
  <2>1. \A i \in 0 .. n : i \in T
    BY <1>1, <1>2, <1>3, CountingUp
  <2> QED BY <1>1, <2>1
<1>5. PICK f : Solves(f, n)
  BY <1>4
<1> DEFINE g == [t \in Type |-> f[t]]
<1>6. ASSUME NEW t \in Type PROVE g[t] = FormatOf(Declared[t], V(t), g)
  <2>1. \A u \in 1 .. t - 1 : g[u] = f[u]
    BY <1>1
  <2>2. FormatOf(Declared[t], V(t), g) = FormatOf(Declared[t], V(t), f)
    <3> HIDE DEF g
    <3> QED BY <2>1, FormatOfParts
  <2> QED BY <1>1, <1>5, <2>2
<1>7. g = [t \in Type |-> FormatOf(Declared[t], V(t), g)]
  BY <1>6
<1> HIDE DEF g
<1>8. Format = [t \in Type |-> FormatOf(Declared[t], V(t), Format)]
  BY <1>7 DEF Format, V
<1> QED BY <1>8 DEF V

-----------------------------------------------------------------------------
(***************************************************************************)
(* Sizes                                                                   *)
(***************************************************************************)

(* A number is its last digit and what is above it. *)
LEMMA Digits ==
    /\ \A x \in Nat : /\ x \div Base \in Nat
                      /\ x % Base \in Byte
                      /\ x = (x \div Base) * Base + (x % Base)
    /\ \A x, y \in Nat : x <= y => x \div Base <= y \div Base
    /\ \A x \in Nat, d \in Byte : /\ x * Base + d \in Nat
                                  /\ (x * Base + d) \div Base = x
                                  /\ (x * Base + d) % Base = d
<1>1. Base \in Nat /\ Base > 0
  BY WalkersAssumption
<1>2. ASSUME NEW x \in Nat
      PROVE  /\ x \div Base \in Nat
             /\ x % Base \in Byte
             /\ x = (x \div Base) * Base + (x % Base)
  <2>1. x \div Base \in Nat
    BY <1>1
  <2>2. x % Base \in Byte
    BY <1>1 DEF Byte
  <2>3. x = Base * (x \div Base) + (x % Base)
    BY <1>1
  <2>4. (x \div Base) * Base = Base * (x \div Base)
    BY <1>1, <2>1
  <2> QED BY <2>1, <2>2, <2>3, <2>4
<1>3. ASSUME NEW x \in Nat, NEW y \in Nat, x <= y
      PROVE  x \div Base <= y \div Base
  BY <1>1, <1>3
<1>4. ASSUME NEW x \in Nat, NEW d \in Byte
      PROVE  /\ x * Base + d \in Nat
             /\ (x * Base + d) \div Base = x
             /\ (x * Base + d) % Base = d
  BY <1>1, <1>4 DEF Byte
<1> QED BY <1>2, <1>3, <1>4

LEMMA WidthIsNat == SizeWidth \in Nat \ {0} /\ Base \in Nat \ {0, 1}
BY WalkersAssumption, WordAssumption DEF Words

(* The recursive function Above exists.                                    *)
LEMMA AboveEquation ==
    ASSUME NEW n \in Nat
    PROVE  /\ Above(n) \in [0 .. SizeWidth -> Nat]
           /\ Above(n)[0] = n
           /\ \A i \in 1 .. SizeWidth : Above(n)[i] = Above(n)[i - 1] \div Base
<1> DEFINE step == [i \in 1 .. SizeWidth |-> [x \in Nat |-> x \div Base]]
<1>1. step \in [1 .. SizeWidth -> [Nat -> Nat]]
  BY Digits
<1> HIDE DEF step
<1>2. PICK f : Outcomes(f, SizeWidth, Nat, n, step)
  <2>1. IsLoop(SizeWidth, Nat, n, step)
    BY <1>1, WidthIsNat DEF IsLoop
  <2> QED BY <2>1, LoopExists
<1>3. f = [i \in 0 .. SizeWidth |-> IF i = 0 THEN n ELSE f[i - 1] \div Base]
  <2>1. ASSUME NEW i \in 0 .. SizeWidth, i # 0
        PROVE  step[i][f[i - 1]] = f[i - 1] \div Base
    BY <1>2, <2>1, WidthIsNat DEF step, Outcomes
  <2> QED BY <1>2, <2>1 DEF Outcomes
<1>4. Above(n) = [i \in 0 .. SizeWidth |-> IF i = 0 THEN n ELSE Above(n)[i - 1] \div Base]
  BY <1>3 DEF Above
<1>5. ASSUME NEW i \in 0 .. SizeWidth PROVE Above(n)[i] \in Nat
  <2> DEFINE T == {j \in 0 .. SizeWidth : Above(n)[j] \in Nat}
  <2>1. 0 \in T
    BY <1>4, WidthIsNat
  <2>2. ASSUME NEW j \in 1 .. SizeWidth, j - 1 \in T PROVE j \in T
    <3>1. j \in 0 .. SizeWidth /\ j # 0
      BY WidthIsNat
    <3>2. Above(n)[j] = Above(n)[j - 1] \div Base
      BY <1>4, <3>1
    <3>3. Above(n)[j - 1] \in Nat
      BY <2>2
    <3> QED BY <3>1, <3>2, <3>3, Digits
  <2> HIDE DEF T
  <2>3. \A j \in 0 .. SizeWidth : j \in T
    BY <2>1, <2>2, CountingUp, WidthIsNat
  <2> QED BY <2>3 DEF T
<1> QED BY <1>4, <1>5, WidthIsNat

(* The recursive function Sum exists.                                      *)
LEMMA SumEquation ==
    ASSUME NEW b \in [1 .. SizeWidth -> Byte]
    PROVE  /\ Sum(b) \in [0 .. SizeWidth -> Nat]
           /\ Sum(b)[0] = 0
           /\ \A i \in 1 .. SizeWidth :
                 Sum(b)[i] = Sum(b)[i - 1] * Base + b[SizeWidth - i + 1]
<1> DEFINE d(i) == b[SizeWidth - i + 1]
    step == [i \in 1 .. SizeWidth |-> [x \in Nat |-> x * Base + d(i)]]
<1>1. \A i \in 1 .. SizeWidth : d(i) \in Byte
  BY WidthIsNat
<1> HIDE DEF d
<1>2. step \in [1 .. SizeWidth -> [Nat -> Nat]]
  BY <1>1, Digits
<1> HIDE DEF step
<1>3. PICK f : Outcomes(f, SizeWidth, Nat, 0, step)
  <2>1. IsLoop(SizeWidth, Nat, 0, step)
    BY <1>2, WidthIsNat DEF IsLoop
  <2> QED BY <2>1, LoopExists
<1>4. f = [i \in 0 .. SizeWidth |-> IF i = 0 THEN 0 ELSE f[i - 1] * Base + d(i)]
  <2>1. ASSUME NEW i \in 0 .. SizeWidth, i # 0
        PROVE  step[i][f[i - 1]] = f[i - 1] * Base + d(i)
    BY <1>3, <2>1, WidthIsNat DEF step, Outcomes
  <2> QED BY <1>3, <2>1 DEF Outcomes
<1>5. Sum(b) = [i \in 0 .. SizeWidth |-> IF i = 0 THEN 0 ELSE Sum(b)[i - 1] * Base + d(i)]
  BY <1>4 DEF Sum, d
<1>6. ASSUME NEW i \in 0 .. SizeWidth PROVE Sum(b)[i] \in Nat
  <2> DEFINE T == {j \in 0 .. SizeWidth : Sum(b)[j] \in Nat}
  <2>1. 0 \in T
    BY <1>5, WidthIsNat
  <2>2. ASSUME NEW j \in 1 .. SizeWidth, j - 1 \in T PROVE j \in T
    <3>1. j \in 0 .. SizeWidth /\ j # 0
      BY WidthIsNat
    <3>2. Sum(b)[j] = Sum(b)[j - 1] * Base + d(j)
      BY <1>5, <3>1
    <3>3. Sum(b)[j - 1] \in Nat
      BY <2>2
    <3> QED BY <1>1, <3>1, <3>2, <3>3, Digits
  <2> HIDE DEF T
  <2>3. \A j \in 0 .. SizeWidth : j \in T
    BY <2>1, <2>2, CountingUp, WidthIsNat
  <2> QED BY <2>3 DEF T
<1> QED BY <1>5, <1>6, WidthIsNat DEF d

(* Reading back the bytes of a size, and writing a size that was read. *)
LEMMA SizeWritten ==
    ASSUME NEW n \in Nat, Above(n)[SizeWidth] = 0
    PROVE  SizeBytes(n) \in [1 .. SizeWidth -> Byte] /\ SizeOf(SizeBytes(n)) = n
<1> DEFINE b == SizeBytes(n)
    T == {i \in 0 .. SizeWidth : Sum(b)[i] = Above(n)[SizeWidth - i]}
<1>1. \A i \in 1 .. SizeWidth : i - 1 \in 0 .. SizeWidth /\ Above(n)[i - 1] \in Nat
  BY AboveEquation, WidthIsNat
<1>2. b \in [1 .. SizeWidth -> Byte]
  BY <1>1, Digits DEF SizeBytes
<1>3. 0 \in T
  <2>1. Sum(b)[0] = 0 /\ SizeWidth - 0 = SizeWidth /\ 0 \in 0 .. SizeWidth
    BY <1>2, SumEquation, WidthIsNat
  <2> QED BY <2>1
<1>4. ASSUME NEW i \in 1 .. SizeWidth, i - 1 \in T PROVE i \in T
  <2> DEFINE k == SizeWidth - i + 1
  <2>1. k \in 1 .. SizeWidth /\ k - 1 = SizeWidth - i /\ SizeWidth - (i - 1) = k
    BY WidthIsNat
  <2>2. b[k] = Above(n)[k - 1] % Base /\ Above(n)[k] = Above(n)[k - 1] \div Base
    BY <2>1, AboveEquation DEF SizeBytes
  <2>3. Sum(b)[i] = Sum(b)[i - 1] * Base + b[k] /\ Sum(b)[i - 1] = Above(n)[k]
    BY <1>2, <1>4, <2>1, SumEquation
  <2>4. Sum(b)[i] = Above(n)[k - 1]
    <3>1. Above(n)[k - 1] \in Nat
      BY <1>1, <2>1
    <3>2. Above(n)[k - 1] = (Above(n)[k - 1] \div Base) * Base + (Above(n)[k - 1] % Base)
      BY <3>1, Digits, Zenon
    <3> HIDE DEF k, b
    <3> QED BY <2>2, <2>3, <3>2, Zenon
  <2> QED BY <2>1, <2>4
<1>5. SizeWidth \in T
  <2> HIDE DEF T
  <2>1. \A i \in 0 .. SizeWidth : i \in T
    BY <1>3, <1>4, CountingUp, WidthIsNat
  <2> QED BY <2>1, WidthIsNat
<1>6. SizeWidth - SizeWidth = 0 /\ Above(n)[0] = n
  BY AboveEquation, WidthIsNat
<1>7. SizeOf(b) = n
  BY <1>5, <1>6 DEF SizeOf
<1> QED BY <1>2, <1>7

(* Any bytes of a size are those of the size they stand for.               *)
LEMMA SizeRead ==
    ASSUME NEW b \in [1 .. SizeWidth -> Byte]
    PROVE  SizeOf(b) \in Nat /\ SizeBytes(SizeOf(b)) = b
<1> DEFINE n == SizeOf(b)
    T == {i \in 0 .. SizeWidth : Above(n)[i] = Sum(b)[SizeWidth - i]}
<1>1. n \in Nat
  BY SumEquation, WidthIsNat DEF SizeOf
<1>2. 0 \in T
  <2> HIDE DEF n
  <2>1. Above(n)[0] = n /\ SizeWidth - 0 = SizeWidth /\ 0 \in 0 .. SizeWidth
    BY <1>1, AboveEquation, WidthIsNat
  <2> USE DEF n
  <2> QED BY <2>1 DEF SizeOf
<1>3. ASSUME NEW i \in 1 .. SizeWidth
      PROVE  /\ SizeWidth - i \in 0 .. SizeWidth
             /\ Sum(b)[SizeWidth - i] \in Nat
             /\ Sum(b)[SizeWidth - (i - 1)] = Sum(b)[SizeWidth - i] * Base + b[i]
  <2> DEFINE j == SizeWidth - i + 1
  <2>1. j \in 1 .. SizeWidth /\ j - 1 = SizeWidth - i /\ SizeWidth - j + 1 = i
        /\ SizeWidth - (i - 1) = j
    BY WidthIsNat
  <2>2. j - 1 \in 0 .. SizeWidth
    BY <2>1, WidthIsNat
  <2>3. Sum(b)[j] = Sum(b)[j - 1] * Base + b[SizeWidth - j + 1] /\ Sum(b)[j - 1] \in Nat
    BY <2>1, <2>2, SumEquation
  <2> QED BY <2>1, <2>2, <2>3
<1>4. ASSUME NEW i \in 1 .. SizeWidth, i - 1 \in T PROVE i \in T
  <2>1. Above(n)[i] = Above(n)[i - 1] \div Base
    BY <1>1, AboveEquation
  <2>2. Above(n)[i - 1] = Sum(b)[SizeWidth - i] * Base + b[i] /\ b[i] \in Byte
    BY <1>3, <1>4
  <2>3. Above(n)[i] = Sum(b)[SizeWidth - i]
    BY <1>3, <2>1, <2>2, Digits
  <2>4. i \in 0 .. SizeWidth
    BY WidthIsNat
  <2> QED BY <2>3, <2>4
<1>5. ASSUME NEW i \in 1 .. SizeWidth PROVE Above(n)[i - 1] % Base = b[i]
  <2>1. i - 1 \in T
    <3> HIDE DEF T
    <3>1. \A k \in 0 .. SizeWidth : k \in T
      BY <1>2, <1>4, CountingUp, WidthIsNat
    <3> QED BY <3>1, WidthIsNat
  <2>2. Above(n)[i - 1] = Sum(b)[SizeWidth - i] * Base + b[i] /\ b[i] \in Byte
    BY <1>3, <2>1
  <2> QED BY <1>3, <2>2, Digits
<1> QED BY <1>1, <1>5 DEF SizeBytes

(* The size of no container that may be read is cut. *)
LEMMA LimitFits ==
    ASSUME NEW n \in Nat, n <= SpLimit
    PROVE  Above(n)[SizeWidth] = 0
<1> DEFINE T == {i \in 0 .. SizeWidth : Above(n)[i] <= Above(SpLimit)[i]}
<1>1. SpLimit \in Nat /\ Above(SpLimit)[SizeWidth] = 0
  BY WalkersAssumption
<1>2. 0 \in T
  <2>1. Above(n)[0] = n /\ Above(SpLimit)[0] = SpLimit /\ 0 \in 0 .. SizeWidth
    BY <1>1, AboveEquation, WidthIsNat
  <2> QED BY <2>1
<1>3. ASSUME NEW i \in 1 .. SizeWidth, i - 1 \in T PROVE i \in T
  <2>1. /\ i \in 0 .. SizeWidth /\ i - 1 \in 0 .. SizeWidth
        /\ Above(n)[i - 1] <= Above(SpLimit)[i - 1]
    BY <1>3, WidthIsNat
  <2>2. /\ Above(n)[i] = Above(n)[i - 1] \div Base
        /\ Above(SpLimit)[i] = Above(SpLimit)[i - 1] \div Base
        /\ Above(n)[i - 1] \in Nat /\ Above(SpLimit)[i - 1] \in Nat
    BY <1>1, <2>1, AboveEquation
  <2>3. Above(n)[i] <= Above(SpLimit)[i]
    <3>1. Above(n)[i - 1] \div Base <= Above(SpLimit)[i - 1] \div Base
      BY <2>1, <2>2, Digits, Zenon
    <3> QED BY <2>2, <3>1, Zenon
  <2> QED BY <2>1, <2>3
<1>4. SizeWidth \in T
  <2> HIDE DEF T
  <2>1. \A i \in 0 .. SizeWidth : i \in T
    BY <1>2, <1>3, CountingUp, WidthIsNat
  <2> QED BY <2>1, WidthIsNat
<1>5. Above(n)[SizeWidth] \in Nat
  BY AboveEquation, WidthIsNat
<1> QED BY <1>1, <1>4, <1>5

-----------------------------------------------------------------------------
(***************************************************************************)
(* Bytes at a position                                                     *)
(***************************************************************************)

(* An array is a sequence of its size.                                     *)
LEMMA FunctionIsSeq ==
    ASSUME NEW S, NEW n \in Nat, NEW v \in [1 .. n -> S]
    PROVE  v \in Seq(S) /\ Len(v) = n /\ DOMAIN v = 1 .. n
<1>1. v \in Seq(S)
  BY SeqDef
<1>2. DOMAIN v = 1 .. n /\ DOMAIN v = 1 .. Len(v) /\ Len(v) \in Nat
  BY <1>1, LenProperties
<1> QED BY <1>1, <1>2

(* A sequence is an array of its length.                                   *)
LEMMA SeqIsFunction ==
    ASSUME NEW S, NEW v \in Seq(S)
    PROVE  Len(v) \in Nat /\ v \in [1 .. Len(v) -> S] /\ DOMAIN v = 1 .. Len(v)
BY LenProperties

LEMMA Slice ==
    ASSUME NEW S, NEW s \in Seq(S), NEW m \in Nat, NEW n \in Nat, m + n <= Len(s)
    PROVE  /\ SubSeq(s, m + 1, m + n) \in Seq(S)
           /\ Len(SubSeq(s, m + 1, m + n)) = n
           /\ SubSeq(s, m + 1, m + n) \in [1 .. n -> S]
           /\ \A i \in 1 .. n : SubSeq(s, m + 1, m + n)[i] = s[m + i]
<1> DEFINE t == SubSeq(s, m + 1, m + n)
<1>1. \A i \in m + 1 .. m + n : s[i] \in S
  BY SeqIsFunction
<1>2. /\ t \in Seq(S)
      /\ Len(t) = IF m + 1 <= m + n THEN m + n - (m + 1) + 1 ELSE 0
      /\ \A i \in 1 .. m + n - (m + 1) + 1 : t[i] = s[m + 1 + i - 1]
  <2>1. m + 1 \in Int /\ m + n \in Int
    OBVIOUS
  <2> HIDE DEF t
  <2> QED BY <1>1, <2>1, SubSeqProperties DEF t
<1> HIDE DEF t
<1>3. Len(t) = n /\ t \in [1 .. n -> S]
  BY <1>2, SeqIsFunction
<1>4. \A i \in 1 .. n : t[i] = s[m + i]
  <2>1. TAKE i \in 1 .. n
  <2>2. i \in 1 .. m + n - (m + 1) + 1 /\ m + 1 + i - 1 = m + i
    OBVIOUS
  <2> QED BY <1>2, <2>2
<1> QED BY <1>2, <1>3, <1>4 DEF t

(* The bytes w are in s at pos; s ends within them; or s has a beginning   *)
(* of w between pos and end, which is all of w unless s ends there.        *)
Holds(s, pos, w) ==
    pos + Len(w) <= Len(s) /\ \A i \in 1 .. Len(w) : s[pos + i] = w[i]

EndsWithin(s, pos, w) ==
    Len(s) < pos + Len(w) /\ \A i \in 1 .. Len(s) - pos : s[pos + i] = w[i]

Begins(s, pos, end, w) ==
    /\ end = pos + Len(w) \/ (end = Len(s) /\ end - pos <= Len(w))
    /\ \A i \in 1 .. end - pos : s[pos + i] = w[i]

LEMMA HoldsBoth ==
    ASSUME NEW s \in Seq(Byte), NEW pos \in Nat, NEW v \in Seq(Byte), NEW w \in Seq(Byte),
           Holds(s, pos, v \o w)
    PROVE  Holds(s, pos, v) /\ Holds(s, pos + Len(v), w)
<1>1. Len(v) \in Nat /\ Len(w) \in Nat /\ Len(s) \in Nat
  BY SeqIsFunction
<1>2. /\ Len(v \o w) = Len(v) + Len(w)
      /\ \A i \in 1 .. Len(v) + Len(w) :
            (v \o w)[i] = IF i <= Len(v) THEN v[i] ELSE w[i - Len(v)]
  BY ConcatProperties
<1>3. ASSUME NEW i \in 1 .. Len(v) PROVE s[pos + i] = v[i]
  <2>1. i \in 1 .. Len(v) + Len(w) /\ i <= Len(v)
    BY <1>1
  <2> QED BY <1>2, <2>1 DEF Holds
<1>4. ASSUME NEW i \in 1 .. Len(w) PROVE s[pos + Len(v) + i] = w[i]
  <2> DEFINE k == Len(v) + i
  <2>1. k \in 1 .. Len(v) + Len(w) /\ ~ (k <= Len(v)) /\ k - Len(v) = i
        /\ pos + k = pos + Len(v) + i
    BY <1>1
  <2> QED BY <1>2, <2>1 DEF Holds
<1>5. pos + Len(v) <= Len(s) /\ pos + Len(v) + Len(w) <= Len(s)
  BY <1>1, <1>2 DEF Holds
<1> QED BY <1>3, <1>4, <1>5 DEF Holds

LEMMA EndsWithinOne ==
    ASSUME NEW s \in Seq(Byte), NEW pos \in 0 .. Len(s),
           NEW v \in Seq(Byte), NEW w \in Seq(Byte), EndsWithin(s, pos, v \o w)
    PROVE  \/ EndsWithin(s, pos, v)
           \/ Holds(s, pos, v) /\ EndsWithin(s, pos + Len(v), w)
<1>1. Len(v) \in Nat /\ Len(w) \in Nat /\ Len(s) \in Nat
  BY SeqIsFunction
<1>2. /\ Len(v \o w) = Len(v) + Len(w)
      /\ \A i \in 1 .. Len(v) + Len(w) :
            (v \o w)[i] = IF i <= Len(v) THEN v[i] ELSE w[i - Len(v)]
  BY ConcatProperties
<1>3. CASE Len(s) < pos + Len(v)
  <2>1. ASSUME NEW i \in 1 .. Len(s) - pos PROVE s[pos + i] = v[i]
    <3>1. i \in 1 .. Len(v) + Len(w) /\ i <= Len(v)
      BY <1>1, <1>3
    <3> QED BY <1>2, <3>1 DEF EndsWithin
  <2> QED BY <1>3, <2>1 DEF EndsWithin
<1>4. CASE pos + Len(v) <= Len(s)
  <2>1. ASSUME NEW i \in 1 .. Len(v) PROVE s[pos + i] = v[i]
    <3>1. i \in 1 .. Len(v) + Len(w) /\ i <= Len(v) /\ i \in 1 .. Len(s) - pos
      BY <1>1, <1>4
    <3> QED BY <1>2, <3>1 DEF EndsWithin
  <2>2. ASSUME NEW i \in 1 .. Len(s) - (pos + Len(v)) PROVE s[pos + Len(v) + i] = w[i]
    <3> DEFINE k == Len(v) + i
    <3>1. k \in 1 .. Len(s) - pos /\ k - Len(v) = i /\ pos + k = pos + Len(v) + i
          /\ ~ (k <= Len(v)) /\ k \in 1 .. Len(v) + Len(w)
      BY <1>1, <1>2, <1>4 DEF EndsWithin
    <3> QED BY <1>2, <3>1 DEF EndsWithin
  <2>3. Len(s) < pos + Len(v) + Len(w)
    BY <1>1, <1>2 DEF EndsWithin
  <2> QED BY <1>1, <1>4, <2>1, <2>2, <2>3 DEF EndsWithin, Holds
<1> QED BY <1>1, <1>3, <1>4

LEMMA BeginsBoth ==
    ASSUME NEW s \in Seq(Byte), NEW pos \in Nat, NEW mid \in Nat, NEW end \in Nat,
           NEW v \in Seq(Byte), NEW w \in Seq(Byte),
           pos <= mid, mid <= end, end <= Len(s),
           Begins(s, pos, mid, v), Begins(s, mid, end, w)
    PROVE  Begins(s, pos, end, v \o w)
<1>1. Len(v) \in Nat /\ Len(w) \in Nat /\ Len(s) \in Nat
  BY SeqIsFunction
<1>2. /\ Len(v \o w) = Len(v) + Len(w)
      /\ \A i \in 1 .. Len(v) + Len(w) :
            (v \o w)[i] = IF i <= Len(v) THEN v[i] ELSE w[i - Len(v)]
  BY ConcatProperties
<1>3. CASE mid = pos + Len(v)
  <2>1. end = pos + Len(v \o w) \/ (end = Len(s) /\ end - pos <= Len(v \o w))
    BY <1>1, <1>2, <1>3 DEF Begins
  <2>2. ASSUME NEW i \in 1 .. end - pos PROVE s[pos + i] = (v \o w)[i]
    <3>1. i \in 1 .. Len(v) + Len(w)
      BY <1>1, <1>2, <2>1
    <3>2. CASE i <= Len(v)
      <4>1. i \in 1 .. mid - pos
        BY <1>1, <1>3, <3>2
      <4> QED BY <1>2, <3>1, <3>2, <4>1 DEF Begins
    <3>3. CASE ~ (i <= Len(v))
      <4>1. i - Len(v) \in 1 .. end - mid /\ mid + (i - Len(v)) = pos + i
        BY <1>1, <1>3, <3>3
      <4> QED BY <1>2, <3>1, <3>3, <4>1 DEF Begins
    <3> QED BY <3>2, <3>3
  <2> QED BY <2>1, <2>2 DEF Begins
<1>4. CASE mid = Len(s) /\ mid - pos <= Len(v)
  <2>1. end = mid /\ end - pos <= Len(v \o w)
    BY <1>1, <1>2, <1>4
  <2>2. ASSUME NEW i \in 1 .. end - pos PROVE s[pos + i] = (v \o w)[i]
    <3>1. i \in 1 .. Len(v) + Len(w) /\ i <= Len(v) /\ i \in 1 .. mid - pos
      BY <1>1, <1>4, <2>1
    <3> QED BY <1>2, <3>1 DEF Begins
  <2> QED BY <1>4, <2>1, <2>2 DEF Begins
<1> QED BY <1>3, <1>4 DEF Begins

-----------------------------------------------------------------------------
(***************************************************************************)
(* The laws of a walker                                                    *)
(***************************************************************************)

(* The outcomes of reading one of the values V from the bytes s. *)
Outcome(V, s) == {Threw, Undefined} \cup {Done(v, pos) : v \in V, pos \in 0 .. Len(s)}

(* What is written are bytes; what is read is a value, in front of an end  *)
(* that lies ahead.                                                        *)
IsWalker(c) ==
    /\ \A v \in Values(c) : c.write[v] \in Seq(Byte)
    /\ \A s \in Buffer : \A pos \in 0 .. Len(s) :
        /\ c.read[s][pos] \in Outcome(Values(c), s)
        /\ Ok(c.read[s][pos]) => pos <= c.read[s][pos].pos

(* A value written is read back. *)
ReadsBack(c, v) ==
    \A s \in Buffer : \A pos \in 0 .. Len(s) :
        Holds(s, pos, c.write[v]) => c.read[s][pos] = Done(v, pos + Len(c.write[v]))

(* From no bytes one of the values V is read, or none. *)
ReadsNothing(c, V) ==
    \A s \in Buffer : Ok(c.read[s][Len(s)]) => c.read[s][Len(s)].value \in V

(* From a part of the bytes of v a value related to v is read, or none:    *)
(* reading throws, or is undefined.                                        *)
NoticesEnd(c, v, related) ==
    \A s \in Buffer : \A pos \in 0 .. Len(s) :
        LET r == c.read[s][pos]
        IN  (EndsWithin(s, pos, c.write[v]) /\ Ok(r)) =>
                <<v, r.value>> \in related /\ r.pos = Len(s)

(* A value read is one whose bytes begin with those consumed. *)
ReadsWhatIsWritten(c) ==
    \A s \in Buffer : \A pos \in 0 .. Len(s) :
        LET r == c.read[s][pos]
        IN  Ok(r) => Begins(s, pos, r.pos, c.write[r.value])

(* The walker c keeps to the format f. *)
Keeps(c, f) ==
    /\ IsWalker(c)
    /\ f.portable \subseteq Values(c)
    /\ \A v \in f.portable : ReadsBack(c, v)
    /\ ReadsNothing(c, f.missing)
    /\ \A v \in f.portable : NoticesEnd(c, v, f.shortened)
    /\ f.exact => ReadsWhatIsWritten(c)

LEMMA BufferIsSeq ==
    ASSUME NEW s \in Buffer
    PROVE  s \in Seq(Byte) /\ Len(s) \in Nat /\ Len(s) \in 0 .. Len(s) /\ Len(s) < WordSize
<1>1. s \in Seq(Byte) /\ Len(s) < WordSize
  BY DEF Buffer
<1>2. Len(s) \in Nat
  BY <1>1, SeqIsFunction
<1> QED BY <1>1, <1>2

(* An outcome is a value, an exception or undefined.                       *)
LEMMA OutcomeCases ==
    ASSUME NEW V, NEW s \in Buffer, NEW r \in Outcome(V, s)
    PROVE  /\ Ok(r) => /\ r.value \in V
                       /\ r.pos \in 0 .. Len(s)
                       /\ r = Done(r.value, r.pos)
           /\ ~ Ok(r) => r \in {Threw, Undefined}
BY DEF Outcome, Ok, Done, Threw, Undefined

LEMMA OutcomesAreOutcomes ==
    ASSUME NEW V, NEW s \in Buffer
    PROVE  /\ Threw \in Outcome(V, s) /\ ~ Ok(Threw)
           /\ Undefined \in Outcome(V, s) /\ ~ Ok(Undefined)
           /\ \A v \in V, pos \in 0 .. Len(s) : Done(v, pos) \in Outcome(V, s)
<1>1. ~ Ok(Threw) /\ ~ Ok(Undefined)
  BY DEF Ok, Threw, Undefined
<1>2. Threw \in Outcome(V, s) /\ Undefined \in Outcome(V, s)
  BY DEF Outcome
<1>3. \A v \in V, pos \in 0 .. Len(s) : Done(v, pos) \in Outcome(V, s)
  BY DEF Outcome
<1> QED BY <1>1, <1>2, <1>3

LEMMA DoneFields ==
    ASSUME NEW v, NEW pos
    PROVE  Ok(Done(v, pos)) /\ Done(v, pos).value = v /\ Done(v, pos).pos = pos
BY DEF Ok, Done

(***************************************************************************)
(* Numbers                                                                 *)
(***************************************************************************)

(* A number is read where its bytes are, and nowhere else. *)
LEMMA ReadNumResult ==
    ASSUME NEW w \in Words \ {0}, NEW s \in Buffer, NEW pos \in 0 .. Len(s)
    PROVE  /\ w \in Nat
           /\ pos + w <= Len(s) =>
                /\ ReadNum(w, s, pos) = Done(SubSeq(s, pos + 1, pos + w), pos + w)
                /\ SubSeq(s, pos + 1, pos + w) \in [1 .. w -> Byte]
                /\ pos + w \in 0 .. Len(s)
                /\ \A i \in 1 .. w : SubSeq(s, pos + 1, pos + w)[i] = s[pos + i]
           /\ ~ (pos + w <= Len(s)) => ReadNum(w, s, pos) \in {Threw, Undefined}
<1>1. w \in Nat \ {0} /\ w < WordSize /\ WordSize \in Nat /\ Len(s) \in Nat /\ Len(s) < WordSize
      /\ s \in Seq(Byte)
  BY WordAssumption, BufferIsSeq DEF Words
<1>2. CASE pos + w <= Len(s)
  <2>1. Reads(Len(s), pos, w)
    BY <1>1, <1>2 DEF Reads, CanReadNum, Minus
  <2>2. ReadNum(w, s, pos) = Done(SubSeq(s, pos + 1, pos + w), pos + w)
    BY <1>1, <1>2, <2>1 DEF ReadNum
  <2>3. /\ SubSeq(s, pos + 1, pos + w) \in [1 .. w -> Byte]
        /\ \A i \in 1 .. w : SubSeq(s, pos + 1, pos + w)[i] = s[pos + i]
    BY <1>1, <1>2, Slice
  <2> QED BY <1>1, <1>2, <2>2, <2>3
<1>3. CASE ~ (pos + w <= Len(s))
  BY <1>1, <1>3 DEF ReadNum
<1> QED BY <1>1, <1>2, <1>3

LEMMA NumRead ==
    ASSUME NEW w, NEW s \in Buffer, NEW pos \in 0 .. Len(s)
    PROVE  /\ NumWalker(w).read[s][pos] = ReadNum(w, s, pos)
           /\ Values(NumWalker(w)) = [1 .. w -> Byte]
           /\ \A v \in [1 .. w -> Byte] : NumWalker(w).write[v] = v
BY BufferIsSeq DEF NumWalker, Values

(***************************************************************************)
(* Formats                                                                 *)
(***************************************************************************)

LEMMA Shortened ==
    ASSUME NEW d, NEW V, NEW known, NEW v \in V, NEW w \in V
    PROVE  <<v, w>> \in FormatOf(d, V, known).shortened <=>
              w = v \/ w \in Missing(d, V, known) \/ EndsIn(d, v, w, known)
BY DEF FormatOf

LEMMA FormatFields ==
    ASSUME NEW d, NEW V, NEW known
    PROVE  /\ FormatOf(d, V, known).portable = Portable(d, V, known)
           /\ FormatOf(d, V, known).missing = Missing(d, V, known)
           /\ FormatOf(d, V, known).exact = Exact(d, known)
BY DEF FormatOf

LEMMA WalkerFields ==
    ASSUME NEW c, IsWalker(c), NEW s \in Buffer, NEW pos \in 0 .. Len(s),
           Ok(c.read[s][pos])
    PROVE  /\ c.read[s][pos].value \in Values(c)
           /\ c.read[s][pos].pos \in pos .. Len(s)
           /\ c.read[s][pos] = Done(c.read[s][pos].value, c.read[s][pos].pos)
<1>1. c.read[s][pos] \in Outcome(Values(c), s) /\ pos <= c.read[s][pos].pos
  BY DEF IsWalker
<1> QED BY <1>1, OutcomeCases

(* The walker of a number keeps the laws.                                  *)
LEMMA NumKeeps ==
    ASSUME NEW d, d.kind = "num", d.width \in Words \ {0}, NEW known
    PROVE  Keeps(NumWalker(d.width), FormatOf(d, Values(NumWalker(d.width)), known))
<1> DEFINE w == d.width
    c == NumWalker(w)
    f == FormatOf(d, Values(c), known)
<1>1. w \in Words \ {0} /\ w \in Nat
  BY WordAssumption DEF Words
<1>2. f.portable = Values(c) /\ f.missing = {}
  <2>1. Portable(d, Values(c), known) = Values(c)
    BY DEF Portable
  <2>2. Missing(d, Values(c), known) = {}
    BY DEF Missing
  <2> QED BY <2>1, <2>2, FormatFields, Zenon
<1> HIDE DEF w
<1>3. ASSUME NEW v \in [1 .. w -> Byte] PROVE v \in Seq(Byte) /\ Len(v) = w
  BY <1>1, FunctionIsSeq
<1>4. Values(c) = [1 .. w -> Byte] /\ \A v \in Values(c) : c.write[v] = v
  BY DEF NumWalker, Values
<1>5. ASSUME NEW s \in Buffer, NEW pos \in 0 .. Len(s)
      PROVE  c.read[s][pos] = ReadNum(w, s, pos)
  BY NumRead
<1> HIDE DEF c, f
<1>6. ASSUME NEW s \in Buffer, NEW pos \in 0 .. Len(s)
      PROVE  \/ ~ (pos + w <= Len(s)) /\ c.read[s][pos] \in {Threw, Undefined}
             \/ /\ pos + w <= Len(s) /\ pos + w \in 0 .. Len(s)
                /\ c.read[s][pos] = Done(SubSeq(s, pos + 1, pos + w), pos + w)
                /\ SubSeq(s, pos + 1, pos + w) \in [1 .. w -> Byte]
                /\ \A i \in 1 .. w : SubSeq(s, pos + 1, pos + w)[i] = s[pos + i]
  BY <1>1, <1>5, ReadNumResult
<1>7. ASSUME NEW s \in Buffer, NEW pos \in 0 .. Len(s), Ok(c.read[s][pos])
      PROVE  /\ pos + w <= Len(s)
             /\ c.read[s][pos].value \in [1 .. w -> Byte]
             /\ c.read[s][pos].pos = pos + w
             /\ \A i \in 1 .. w : c.read[s][pos].value[i] = s[pos + i]
  <2> DEFINE t == SubSeq(s, pos + 1, pos + w)
  <2>1. c.read[s][pos] \notin {Threw, Undefined}
    BY <1>7, OutcomesAreOutcomes
  <2>2. /\ pos + w <= Len(s)
        /\ c.read[s][pos] = Done(t, pos + w)
        /\ t \in [1 .. w -> Byte]
        /\ \A i \in 1 .. w : t[i] = s[pos + i]
    BY <1>6, <2>1
  <2> HIDE DEF t
  <2>3. c.read[s][pos].value = t /\ c.read[s][pos].pos = pos + w
    BY <2>2, DoneFields
  <2> QED BY <2>2, <2>3
<1>8. IsWalker(c)
  <2>1. ASSUME NEW s \in Buffer, NEW pos \in 0 .. Len(s)
        PROVE  c.read[s][pos] \in Outcome(Values(c), s)
    <3>1. CASE c.read[s][pos] \in {Threw, Undefined}
      BY <3>1, OutcomesAreOutcomes
    <3>2. CASE c.read[s][pos] \notin {Threw, Undefined}
      <4> DEFINE t == SubSeq(s, pos + 1, pos + w)
      <4>1. c.read[s][pos] = Done(t, pos + w) /\ t \in Values(c) /\ pos + w \in 0 .. Len(s)
        BY <1>4, <1>6, <3>2
      <4> HIDE DEF t
      <4> QED BY <4>1, OutcomesAreOutcomes
    <3> QED BY <3>1, <3>2
  <2>2. ASSUME NEW s \in Buffer, NEW pos \in 0 .. Len(s), Ok(c.read[s][pos])
        PROVE  pos <= c.read[s][pos].pos
    BY <1>1, <1>7, <2>2
  <2> QED BY <1>3, <1>4, <2>1, <2>2 DEF IsWalker
<1>9. ASSUME NEW v \in Values(c) PROVE ReadsBack(c, v)
  <2>1. v \in Seq(Byte) /\ Len(v) = w /\ c.write[v] = v /\ v \in [1 .. w -> Byte]
    BY <1>3, <1>4
  <2>2. ASSUME NEW s \in Buffer, NEW pos \in 0 .. Len(s), Holds(s, pos, v)
        PROVE  c.read[s][pos] = Done(v, pos + w)
    <3> DEFINE t == SubSeq(s, pos + 1, pos + w)
    <3>1. pos + w <= Len(s) /\ \A i \in 1 .. w : s[pos + i] = v[i]
      BY <2>1, <2>2 DEF Holds
    <3>2. /\ c.read[s][pos] = Done(t, pos + w)
          /\ t \in [1 .. w -> Byte]
          /\ \A i \in 1 .. w : t[i] = s[pos + i]
      BY <1>6, <3>1
    <3> HIDE DEF t
    <3>3. t = v
      BY <2>1, <3>1, <3>2
    <3> QED BY <3>2, <3>3
  <2> QED BY <2>1, <2>2 DEF ReadsBack
<1>10. ReadsNothing(c, f.missing)
  <2>1. ASSUME NEW s \in Buffer PROVE ~ Ok(c.read[s][Len(s)])
    BY <1>1, <1>7, BufferIsSeq
  <2> QED BY <2>1 DEF ReadsNothing
<1>11. ASSUME NEW v \in Values(c) PROVE NoticesEnd(c, v, f.shortened)
  <2>1. c.write[v] = v /\ Len(v) = w
    BY <1>3, <1>4
  <2>2. ASSUME NEW s \in Buffer, NEW pos \in 0 .. Len(s), EndsWithin(s, pos, v)
        PROVE  ~ Ok(c.read[s][pos])
    <3>1. ~ (pos + w <= Len(s))
      BY <1>1, <2>1, <2>2, BufferIsSeq DEF EndsWithin
    <3> QED BY <1>7, <3>1
  <2> QED BY <2>1, <2>2 DEF NoticesEnd
<1>12. ReadsWhatIsWritten(c)
  <2>1. ASSUME NEW s \in Buffer, NEW pos \in 0 .. Len(s), Ok(c.read[s][pos])
        PROVE  Begins(s, pos, c.read[s][pos].pos, c.write[c.read[s][pos].value])
    <3> DEFINE v == c.read[s][pos].value
    <3>1. /\ c.write[v] = v /\ Len(v) = w /\ c.read[s][pos].pos = pos + w
          /\ \A i \in 1 .. w : s[pos + i] = v[i]
      BY <1>3, <1>4, <1>7, <2>1
    <3>2. pos + w - pos = w
      BY <1>1
    <3> HIDE DEF v
    <3> QED BY <3>1, <3>2 DEF Begins, v
  <2> QED BY <2>1 DEF ReadsWhatIsWritten
<1>13. Keeps(c, f)
  BY <1>2, <1>8, <1>9, <1>10, <1>11, <1>12 DEF Keeps
<1> QED BY <1>13 DEF c, f, w

(***************************************************************************)
(* One element after the other                                             *)
(***************************************************************************)

LEMMA ReadNextResult ==
    ASSUME NEW c, IsWalker(c), NEW s \in Buffer, NEW r \in Outcome(Seq(Values(c)), s)
    PROVE  /\ ReadNext(c, s, r) \in Outcome(Seq(Values(c)), s)
           /\ Ok(ReadNext(c, s, r)) =>
                /\ Ok(r) /\ Ok(c.read[s][r.pos])
                /\ r.value \in Seq(Values(c)) /\ r.pos \in 0 .. Len(s)
                /\ c.read[s][r.pos].value \in Values(c)
                /\ c.read[s][r.pos].pos \in r.pos .. Len(s)
                /\ ReadNext(c, s, r).value = Append(r.value, c.read[s][r.pos].value)
                /\ ReadNext(c, s, r).pos = c.read[s][r.pos].pos
           /\ (Ok(r) /\ Ok(c.read[s][r.pos])) =>
                ReadNext(c, s, r) =
                    Done(Append(r.value, c.read[s][r.pos].value), c.read[s][r.pos].pos)
<1> DEFINE V == Values(c)
    next == c.read[s][r.pos]
<1>1. CASE ~ Ok(r)
  BY <1>1 DEF ReadNext
<1>2. CASE Ok(r)
  <2>1. r.value \in Seq(V) /\ r.pos \in 0 .. Len(s)
    BY <1>2, OutcomeCases
  <2>2. next \in Outcome(V, s)
    BY <2>1 DEF IsWalker
  <2>3. CASE ~ Ok(next)
    <3>1. next \in {Threw, Undefined} /\ ReadNext(c, s, r) = next
      <4>1. ReadNext(c, s, r) = next
        BY <1>2, <2>3 DEF ReadNext
      <4> HIDE DEF next, V
      <4> QED BY <2>2, <2>3, <4>1, OutcomeCases
    <3> HIDE DEF next, V
    <3>2. ReadNext(c, s, r) \in Outcome(Seq(V), s)
      BY <3>1, OutcomesAreOutcomes
    <3> QED BY <2>3, <3>1, <3>2 DEF V, next
  <2>4. CASE Ok(next)
    <3>1. next.value \in V /\ next.pos \in r.pos .. Len(s)
      BY <2>1, <2>4, WalkerFields
    <3>2. ReadNext(c, s, r) = Done(Append(r.value, next.value), next.pos)
      BY <1>2, <2>4 DEF ReadNext
    <3> HIDE DEF next, V
    <3>3. Append(r.value, next.value) \in Seq(V)
      BY <2>1, <3>1, AppendProperties
    <3>4. next.pos \in 0 .. Len(s)
      BY <2>1, <3>1
    <3>5. /\ ReadNext(c, s, r) \in Outcome(Seq(V), s)
          /\ ReadNext(c, s, r).value = Append(r.value, next.value)
          /\ ReadNext(c, s, r).pos = next.pos
      <4> DEFINE more == Append(r.value, next.value)
      <4>1. Done(more, next.pos) \in Outcome(Seq(V), s)
        BY <3>3, <3>4, OutcomesAreOutcomes
      <4>2. Done(more, next.pos).value = more /\ Done(more, next.pos).pos = next.pos
        BY DoneFields
      <4> QED BY <3>2, <4>1, <4>2
    <3> QED BY <1>2, <2>1, <2>4, <3>1, <3>2, <3>5 DEF V, next
  <2> QED BY <2>3, <2>4
<1> QED BY <1>1, <1>2

(* The recursive function of ElementsRead exists.                          *)
LEMMA ElementsReadEquation ==
    ASSUME NEW c, IsWalker(c), NEW n \in Nat, NEW s \in Buffer, NEW pos \in 0 .. Len(s)
    PROVE  /\ ElementsRead(c, n, s, pos) \in [0 .. n -> Outcome(Seq(Values(c)), s)]
           /\ ElementsRead(c, n, s, pos)[0] = Done(<<>>, pos)
           /\ \A i \in 1 .. n : ElementsRead(c, n, s, pos)[i] =
                                   ReadNext(c, s, ElementsRead(c, n, s, pos)[i - 1])
<1> DEFINE S == Outcome(Seq(Values(c)), s)
    base == Done(<<>>, pos)
    step == [i \in 1 .. n |-> [r \in S |-> ReadNext(c, s, r)]]
    R == ElementsRead(c, n, s, pos)
<1>1. base \in S
  BY EmptySeq, OutcomesAreOutcomes
<1>2. step \in [1 .. n -> [S -> S]]
  BY ReadNextResult
<1>3. R = CHOOSE f : f = [i \in 0 .. n |-> IF i = 0 THEN base ELSE ReadNext(c, s, f[i - 1])]
  BY DEF ElementsRead
<1> HIDE DEF S, base
<1>4. PICK f : Outcomes(f, n, S, base, step)
  <2> HIDE DEF step
  <2>1. IsLoop(n, S, base, step)
    BY <1>1, <1>2 DEF IsLoop
  <2> QED BY <2>1, LoopExists
<1>5. \A r \in S : \A i \in 1 .. n : step[i][r] = ReadNext(c, s, r)
  OBVIOUS
<1> HIDE DEF step, R
<1>6. f = [i \in 0 .. n |-> IF i = 0 THEN base ELSE ReadNext(c, s, f[i - 1])]
  <2>1. ASSUME NEW i \in 0 .. n, i # 0 PROVE f[i] = ReadNext(c, s, f[i - 1])
    <3>1. i \in 1 .. n /\ f[i - 1] \in S /\ f[i] = step[i][f[i - 1]]
      BY <1>4, <2>1 DEF Outcomes
    <3> QED BY <1>5, <3>1
  <2> QED BY <1>4, <2>1 DEF Outcomes
<1>7. R = [i \in 0 .. n |-> IF i = 0 THEN base ELSE ReadNext(c, s, R[i - 1])]
  BY <1>3, <1>6
<1>8. ASSUME NEW i \in 0 .. n PROVE R[i] \in S
  <2> DEFINE T == {j \in 0 .. n : R[j] \in S}
  <2>1. 0 \in T
    BY <1>1, <1>7
  <2>2. ASSUME NEW j \in 1 .. n, j - 1 \in T PROVE j \in T
    <3>1. j \in 0 .. n /\ R[j] = ReadNext(c, s, R[j - 1]) /\ R[j - 1] \in S
      BY <1>7, <2>2
    <3> QED BY <3>1, ReadNextResult DEF S
  <2> HIDE DEF T
  <2>3. \A j \in 0 .. n : j \in T
    BY <2>1, <2>2, CountingUp
  <2> QED BY <2>3 DEF T
<1>9. /\ R \in [0 .. n -> S] /\ R[0] = base
      /\ \A i \in 1 .. n : R[i] = ReadNext(c, s, R[i - 1])
  BY <1>7, <1>8
<1> QED BY <1>9 DEF R, S, base

(* The recursive function of ElementsWritten exists.                       *)
LEMMA ElementsWrittenEquation ==
    ASSUME NEW c, IsWalker(c), NEW v \in Seq(Values(c))
    PROVE  /\ Len(v) \in Nat
           /\ ElementsWritten(c, v) \in [0 .. Len(v) -> Seq(Byte)]
           /\ ElementsWritten(c, v)[0] = <<>>
           /\ \A i \in 1 .. Len(v) :
                /\ v[i] \in Values(c) /\ c.write[v[i]] \in Seq(Byte)
                /\ ElementsWritten(c, v)[i] = ElementsWritten(c, v)[i - 1] \o c.write[v[i]]
<1> DEFINE n == Len(v)
    S == Seq(Byte)
    step == [i \in 1 .. n |-> [b \in S |-> b \o c.write[v[i]]]]
    W == ElementsWritten(c, v)
<1>1. n \in Nat /\ <<>> \in S
  BY SeqIsFunction
<1>2. \A i \in 1 .. n : v[i] \in Values(c) /\ c.write[v[i]] \in S
  BY SeqIsFunction DEF IsWalker
<1>3. W = CHOOSE f : f = [i \in 0 .. n |-> IF i = 0 THEN <<>> ELSE f[i - 1] \o c.write[v[i]]]
  BY DEF ElementsWritten
<1>4. step \in [1 .. n -> [S -> S]]
  <2> HIDE DEF n
  <2> QED BY <1>2, ConcatProperties
<1> HIDE DEF n, S
<1>5. PICK f : Outcomes(f, n, S, <<>>, step)
  <2> HIDE DEF step
  <2>1. IsLoop(n, S, <<>>, step)
    BY <1>1, <1>4 DEF IsLoop
  <2> QED BY <2>1, LoopExists
<1>6. \A b \in S : \A i \in 1 .. n : step[i][b] = b \o c.write[v[i]]
  OBVIOUS
<1> HIDE DEF step, W
<1>7. f = [i \in 0 .. n |-> IF i = 0 THEN <<>> ELSE f[i - 1] \o c.write[v[i]]]
  <2>1. ASSUME NEW i \in 0 .. n, i # 0 PROVE f[i] = f[i - 1] \o c.write[v[i]]
    <3>1. i \in 1 .. n /\ f[i - 1] \in S /\ f[i] = step[i][f[i - 1]]
      BY <1>1, <1>5, <2>1 DEF Outcomes
    <3> QED BY <1>6, <3>1
  <2> QED BY <1>1, <1>5, <2>1 DEF Outcomes
<1>8. W = [i \in 0 .. n |-> IF i = 0 THEN <<>> ELSE W[i - 1] \o c.write[v[i]]]
  BY <1>3, <1>7
<1>9. ASSUME NEW i \in 0 .. n PROVE W[i] \in S
  <2> DEFINE T == {j \in 0 .. n : W[j] \in S}
  <2>1. 0 \in T
    BY <1>1, <1>8
  <2>2. ASSUME NEW j \in 1 .. n, j - 1 \in T PROVE j \in T
    <3>1. j \in 0 .. n /\ W[j] = W[j - 1] \o c.write[v[j]] /\ W[j - 1] \in S
      BY <1>1, <1>8, <2>2
    <3> QED BY <1>2, <3>1, ConcatProperties DEF S
  <2> HIDE DEF T
  <2>3. \A j \in 0 .. n : j \in T
    BY <1>1, <2>1, <2>2, CountingUp
  <2> QED BY <2>3 DEF T
<1>10. /\ W \in [0 .. n -> S] /\ W[0] = <<>>
       /\ \A i \in 1 .. n : W[i] = W[i - 1] \o c.write[v[i]]
  <2>1. W \in [0 .. n -> S]
    BY <1>8, <1>9
  <2>2. W[0] = <<>>
    BY <1>1, <1>8
  <2>3. ASSUME NEW i \in 1 .. n PROVE W[i] = W[i - 1] \o c.write[v[i]]
    <3>1. i \in 0 .. n /\ i # 0
      BY <1>1
    <3> QED BY <1>8, <3>1
  <2> QED BY <2>1, <2>2, <2>3
<1> QED BY <1>1, <1>2, <1>10 DEF W, S, n

LEMMA WrittenIsBytes ==
    ASSUME NEW c, IsWalker(c), NEW v \in Seq(Values(c))
    PROVE  WriteElements(c, v) \in Seq(Byte)
<1>1. Len(v) \in Nat /\ ElementsWritten(c, v) \in [0 .. Len(v) -> Seq(Byte)]
  BY ElementsWrittenEquation
<1>2. Len(v) \in 0 .. Len(v)
  BY <1>1
<1> QED BY <1>1, <1>2 DEF WriteElements

(* As many values as were to be read, in front of an end that lies ahead. *)
LEMMA ElementsCounted ==
    ASSUME NEW c, IsWalker(c), NEW n \in Nat, NEW s \in Buffer, NEW pos \in 0 .. Len(s),
           NEW i \in 0 .. n, Ok(ElementsRead(c, n, s, pos)[i])
    PROVE  /\ ElementsRead(c, n, s, pos)[i].value \in Seq(Values(c))
           /\ Len(ElementsRead(c, n, s, pos)[i].value) = i
           /\ ElementsRead(c, n, s, pos)[i].pos \in pos .. Len(s)
<1> DEFINE R == ElementsRead(c, n, s, pos)
    S == Outcome(Seq(Values(c)), s)
    Counted(r, j) == r.value \in Seq(Values(c)) /\ Len(r.value) = j /\ r.pos \in pos .. Len(s)
    T == {j \in 0 .. n : Ok(R[j]) => Counted(R[j], j)}
<1>1. /\ R \in [0 .. n -> S] /\ R[0] = Done(<<>>, pos)
      /\ \A j \in 1 .. n : R[j] = ReadNext(c, s, R[j - 1])
  BY ElementsReadEquation
<1> HIDE DEF R
<1>2. 0 \in T
  <2>1. R[0].value = <<>> /\ R[0].pos = pos
    BY <1>1, DoneFields
  <2>2. Counted(R[0], 0)
    BY <2>1, EmptySeq
  <2> QED BY <2>2
<1>3. ASSUME NEW j \in 1 .. n, j - 1 \in T PROVE j \in T
  <2> SUFFICES ASSUME Ok(R[j]) PROVE Counted(R[j], j)
    OBVIOUS
  <2> DEFINE r == R[j - 1]
      next == c.read[s][r.pos]
  <2>1. r \in S /\ R[j] = ReadNext(c, s, r)
    BY <1>1
  <2>2. /\ Ok(r) /\ next.value \in Values(c) /\ next.pos \in r.pos .. Len(s)
        /\ R[j].value = Append(r.value, next.value) /\ R[j].pos = next.pos
    <3> HIDE DEF r
    <3> QED BY <2>1, ReadNextResult
  <2>3. Counted(r, j - 1)
    BY <1>3, <2>2
  <2> HIDE DEF r, next
  <2>4. R[j].value \in Seq(Values(c)) /\ Len(R[j].value) = j
    BY <2>2, <2>3, AppendProperties
  <2> QED BY <2>2, <2>3, <2>4
<1>4. i \in T
  <2> HIDE DEF T
  <2>1. \A j \in 0 .. n : j \in T
    BY <1>2, <1>3, CountingUp
  <2> QED BY <2>1
<1> QED BY <1>4 DEF R

LEMMA ReadElementsCounted ==
    ASSUME NEW c, IsWalker(c), NEW n \in Nat, NEW s \in Buffer, NEW pos \in 0 .. Len(s)
    PROVE  /\ ReadElements(c, n, s, pos) \in Outcome(Seq(Values(c)), s)
           /\ Ok(ReadElements(c, n, s, pos)) =>
                /\ ReadElements(c, n, s, pos).value \in Seq(Values(c))
                /\ Len(ReadElements(c, n, s, pos).value) = n
                /\ ReadElements(c, n, s, pos).pos \in pos .. Len(s)
<1>1. n \in 0 .. n
  OBVIOUS
<1> QED BY <1>1, ElementsCounted, ElementsReadEquation DEF ReadElements

(* What each element does, all of them do. *)
LEMMA ElementsUpTo ==
    ASSUME NEW c, IsWalker(c), NEW v \in Seq(Values(c)),
           \A i \in 1 .. Len(v) : ReadsBack(c, v[i]),
           NEW s \in Buffer, NEW pos \in 0 .. Len(s), NEW i \in 0 .. Len(v),
           Holds(s, pos, ElementsWritten(c, v)[i])
    PROVE  /\ ElementsRead(c, Len(v), s, pos)[i] =
                 Done(SubSeq(v, 1, i), pos + Len(ElementsWritten(c, v)[i]))
           /\ pos + Len(ElementsWritten(c, v)[i]) \in 0 .. Len(s)
<1> DEFINE n == Len(v)
    W == ElementsWritten(c, v)
    R == ElementsRead(c, n, s, pos)
    T == {j \in 0 .. n : Holds(s, pos, W[j]) => R[j] = Done(SubSeq(v, 1, j), pos + Len(W[j]))}
<1>1. /\ n \in Nat /\ W \in [0 .. n -> Seq(Byte)] /\ W[0] = <<>>
      /\ \A j \in 1 .. n : /\ v[j] \in Values(c) /\ c.write[v[j]] \in Seq(Byte)
                           /\ W[j] = W[j - 1] \o c.write[v[j]]
  BY ElementsWrittenEquation
<1>2. /\ R \in [0 .. n -> Outcome(Seq(Values(c)), s)] /\ R[0] = Done(<<>>, pos)
      /\ \A j \in 1 .. n : R[j] = ReadNext(c, s, R[j - 1])
  BY <1>1, ElementsReadEquation
<1>3. s \in Seq(Byte) /\ Len(s) \in Nat /\ \A j \in 0 .. n : Len(W[j]) \in Nat
  BY <1>1, BufferIsSeq, SeqIsFunction
<1> HIDE DEF R, W
<1>4. 0 \in T
  <2>1. SubSeq(v, 1, 0) = <<>> /\ Len(<<>>) = 0
    BY SubSeqEmpty, EmptySeq
  <2>2. pos + Len(W[0]) = pos
    BY <1>1, <2>1
  <2>3. R[0] = Done(SubSeq(v, 1, 0), pos + Len(W[0]))
    BY <1>2, <2>1, <2>2, Zenon
  <2> QED BY <1>1, <2>3
<1>5. ASSUME NEW j \in 1 .. n, j - 1 \in T PROVE j \in T
  <2> DEFINE r == R[j - 1]
      w == c.write[v[j]]
      next == c.read[s][r.pos]
      mid == pos + Len(W[j - 1])
  <2> SUFFICES ASSUME Holds(s, pos, W[j])
               PROVE  R[j] = Done(SubSeq(v, 1, j), pos + Len(W[j]))
    BY <1>1
  <2>1. /\ W[j] = W[j - 1] \o w /\ W[j - 1] \in Seq(Byte) /\ w \in Seq(Byte)
        /\ v[j] \in Values(c) /\ Len(w) \in Nat /\ Len(W[j - 1]) \in Nat
    <3>1. W[j] = W[j - 1] \o w /\ w \in Seq(Byte) /\ v[j] \in Values(c)
      BY <1>1
    <3>2. j - 1 \in 0 .. n
      BY <1>1
    <3>3. W[j - 1] \in Seq(Byte)
      BY <1>1, <3>2
    <3> HIDE DEF w
    <3> QED BY <3>1, <3>3, SeqIsFunction
  <2>2. Holds(s, pos, W[j - 1]) /\ Holds(s, mid, w)
    <3> DEFINE a == W[j - 1]
    <3>1. Holds(s, pos, a \o w)
      BY <2>1
    <3>2. s \in Seq(Byte) /\ pos \in Nat /\ a \in Seq(Byte) /\ w \in Seq(Byte)
      BY <1>3, <2>1
    <3> HIDE DEF w, a, W
    <3>3. Holds(s, pos, a) /\ Holds(s, pos + Len(a), w)
      BY <3>1, <3>2, HoldsBoth
    <3> QED BY <3>3 DEF a
  <2>3. r = Done(SubSeq(v, 1, j - 1), mid) /\ r \in Outcome(Seq(Values(c)), s)
    BY <1>2, <1>5, <2>2
  <2>4. mid \in 0 .. Len(s)
    BY <1>3, <2>1, <2>2 DEF Holds
  <2> HIDE DEF r, mid
  <2>5. r.pos = mid /\ r.value = SubSeq(v, 1, j - 1) /\ Ok(r)
    BY <2>3, DoneFields
  <2>6. next = Done(v[j], mid + Len(w))
    BY <2>2, <2>4, <2>5 DEF ReadsBack
  <2>7. R[j] = ReadNext(c, s, r)
    BY <1>2 DEF r
  <2> HIDE DEF next, w
  <2>8. next.value = v[j] /\ next.pos = mid + Len(w) /\ Ok(next)
    BY <2>6, DoneFields
  <2>9. R[j] = Done(Append(SubSeq(v, 1, j - 1), v[j]), mid + Len(w))
    <3>1. R[j] = Done(Append(r.value, next.value), next.pos)
      BY <2>3, <2>5, <2>7, <2>8, ReadNextResult DEF next
    <3> QED BY <2>5, <2>8, <3>1
  <2>10. Append(SubSeq(v, 1, j - 1), v[j]) = SubSeq(v, 1, j)
    <3> DEFINE a == SubSeq(v, 1, j - 1)
        b == SubSeq(v, 1, j)
    <3>1. /\ a \in Seq(Values(c)) /\ Len(a) = j - 1
          /\ \A k \in 1 .. j - 1 : a[k] = v[0 + k]
      <4>1. 0 + 1 = 1 /\ 0 + (j - 1) = j - 1 /\ 0 + (j - 1) <= Len(v) /\ j - 1 \in Nat
        BY <1>1
      <4> QED BY <4>1, Slice
    <3>2. /\ b \in Seq(Values(c)) /\ Len(b) = j
          /\ \A k \in 1 .. j : b[k] = v[0 + k]
      <4>1. 0 + 1 = 1 /\ 0 + j = j /\ 0 + j <= Len(v) /\ j \in Nat
        BY <1>1
      <4> QED BY <4>1, Slice
    <3> HIDE DEF a, b
    <3>3. /\ Append(a, v[j]) \in Seq(Values(c)) /\ Len(Append(a, v[j])) = j
          /\ \A k \in 1 .. j - 1 : Append(a, v[j])[k] = a[k]
          /\ Append(a, v[j])[j] = v[j]
      BY <2>1, <3>1, AppendProperties
    <3>4. ASSUME NEW k \in 1 .. j PROVE Append(a, v[j])[k] = b[k]
      <4>1. b[k] = v[k]
        BY <3>2
      <4>2. CASE k = j
        BY <3>3, <4>1, <4>2
      <4>3. CASE k # j
        <5>1. k \in 1 .. j - 1
          BY <4>3
        <5>2. a[k] = v[k]
          BY <3>1, <5>1
        <5> QED BY <3>3, <4>1, <5>1, <5>2
      <4> QED BY <4>2, <4>3
    <3>5. Append(a, v[j]) = b
      BY <3>2, <3>3, <3>4, SeqEqual
    <3> QED BY <3>5 DEF a, b
  <2>11. mid + Len(w) = pos + Len(W[j])
    <3>1. Len(W[j]) = Len(W[j - 1]) + Len(w)
      BY <2>1, ConcatProperties
    <3> QED BY <2>1, <3>1 DEF mid
  <2> QED BY <2>9, <2>10, <2>11
<1>6. i \in T
  <2> HIDE DEF T
  <2>1. \A j \in 0 .. n : j \in T
    BY <1>1, <1>4, <1>5, CountingUp
  <2> QED BY <2>1
<1>7. pos + Len(W[i]) \in 0 .. Len(s)
  BY <1>3 DEF Holds, W
<1> QED BY <1>6, <1>7 DEF R, W

(* All elements that were written are read back.                           *)
LEMMA ElementsReadBack ==
    ASSUME NEW c, IsWalker(c), NEW v \in Seq(Values(c)),
           \A i \in 1 .. Len(v) : ReadsBack(c, v[i]),
           NEW s \in Buffer, NEW pos \in 0 .. Len(s),
           Holds(s, pos, WriteElements(c, v))
    PROVE  ReadElements(c, Len(v), s, pos) = Done(v, pos + Len(WriteElements(c, v)))
<1>1. Len(v) \in 0 .. Len(v)
  BY SeqIsFunction
<1>2. SubSeq(v, 1, Len(v)) = v
  BY SubSeqFull
<1>3. ElementsRead(c, Len(v), s, pos)[Len(v)] =
          Done(SubSeq(v, 1, Len(v)), pos + Len(ElementsWritten(c, v)[Len(v)]))
  BY <1>1, ElementsUpTo DEF WriteElements
<1> QED BY <1>2, <1>3 DEF ReadElements, WriteElements

LEMMA ElementsReadNothing ==
    ASSUME NEW c, IsWalker(c), NEW V, ReadsNothing(c, V), NEW n \in Nat, NEW s \in Buffer,
           Ok(ReadElements(c, n, s, Len(s)))
    PROVE  Each(ReadElements(c, n, s, Len(s)).value, V)
<1> DEFINE R == ElementsRead(c, n, s, Len(s))
    S == Outcome(Seq(Values(c)), s)
    Nothing(r) == \A k \in 1 .. Len(r.value) : r.value[k] \in V
    T == {j \in 0 .. n : Ok(R[j]) => Nothing(R[j])}
<1>1. Len(s) \in 0 .. Len(s) /\ Len(s) \in Nat
  BY BufferIsSeq
<1>2. /\ R \in [0 .. n -> S] /\ R[0] = Done(<<>>, Len(s))
      /\ \A j \in 1 .. n : R[j] = ReadNext(c, s, R[j - 1])
  BY <1>1, ElementsReadEquation
<1>3. ASSUME NEW j \in 0 .. n, Ok(R[j])
      PROVE  R[j].value \in Seq(Values(c)) /\ Len(R[j].value) = j /\ R[j].pos = Len(s)
  <2>1. R[j].value \in Seq(Values(c)) /\ Len(R[j].value) = j /\ R[j].pos \in Len(s) .. Len(s)
    BY <1>1, <1>3, ElementsCounted
  <2> HIDE DEF R
  <2> QED BY <1>1, <2>1
<1> HIDE DEF R
<1>4. 0 \in T
  <2>1. Len(R[0].value) = 0
    BY <1>2, DoneFields, EmptySeq
  <2> QED BY <2>1
<1>5. ASSUME NEW j \in 1 .. n, j - 1 \in T PROVE j \in T
  <2> SUFFICES ASSUME Ok(R[j]) PROVE Nothing(R[j])
    OBVIOUS
  <2> DEFINE r == R[j - 1]
      next == c.read[s][r.pos]
  <2>1. r \in S /\ R[j] = ReadNext(c, s, r) /\ j - 1 \in 0 .. n
    BY <1>2
  <2>2. /\ Ok(r) /\ Ok(next) /\ next.value \in Values(c)
        /\ R[j].value = Append(r.value, next.value)
    <3> HIDE DEF r
    <3> QED BY <2>1, ReadNextResult
  <2>3. r.value \in Seq(Values(c)) /\ Len(r.value) = j - 1 /\ r.pos = Len(s)
    BY <1>3, <2>1, <2>2
  <2>4. Nothing(r)
    BY <1>5, <2>2
  <2>5. next.value \in V
    BY <2>2, <2>3 DEF ReadsNothing
  <2> HIDE DEF r, next
  <2>6. /\ Len(R[j].value) = j
        /\ \A k \in 1 .. j - 1 : R[j].value[k] = r.value[k]
        /\ R[j].value[j] = next.value
    BY <2>2, <2>3, AppendProperties
  <2>7. ASSUME NEW k \in 1 .. j PROVE R[j].value[k] \in V
    <3>1. CASE k = j
      BY <2>5, <2>6, <3>1
    <3>2. CASE k # j
      <4>1. k \in 1 .. j - 1
        BY <3>2
      <4> QED BY <2>3, <2>4, <2>6, <4>1
    <3> QED BY <3>1, <3>2
  <2> QED BY <2>6, <2>7
<1>6. n \in T
  <2> HIDE DEF T
  <2>1. \A j \in 0 .. n : j \in T
    BY <1>4, <1>5, CountingUp
  <2> QED BY <2>1
<1>7. Ok(R[n]) /\ R[n] = ReadElements(c, n, s, Len(s)) /\ n \in 0 .. n
  BY DEF ReadElements, R
<1>8. DOMAIN R[n].value = 1 .. Len(R[n].value)
  BY <1>3, <1>7, SeqIsFunction
<1>9. Nothing(R[n])
  BY <1>6, <1>7
<1> QED BY <1>7, <1>8, <1>9 DEF Each

(* Reading elements of which only a part is there. *)
LEMMA ElementsNoticeEnd ==
    ASSUME NEW c, NEW f, Keeps(c, f), NEW v \in Seq(f.portable),
           NEW s \in Buffer, NEW pos \in 0 .. Len(s),
           EndsWithin(s, pos, WriteElements(c, v)),
           Ok(ReadElements(c, Len(v), s, pos))
    PROVE  /\ EndsEarly(v, ReadElements(c, Len(v), s, pos).value, f)
           /\ ReadElements(c, Len(v), s, pos).pos = Len(s)
<1> DEFINE n == Len(v)
    W == ElementsWritten(c, v)
    R == ElementsRead(c, n, s, pos)
    S == Outcome(Seq(Values(c)), s)
    Early(u, j) == \E k \in 1 .. j :
                      /\ \A i \in 1 .. k - 1 : u[i] = v[i]
                      /\ <<v[k], u[k]>> \in f.shortened
                      /\ \A i \in k + 1 .. j : u[i] \in f.missing
    T == {j \in 0 .. n : (EndsWithin(s, pos, W[j]) /\ Ok(R[j])) =>
                            Early(R[j].value, j) /\ R[j].pos = Len(s)}
<1>1. IsWalker(c) /\ v \in Seq(Values(c)) /\ n \in Nat /\ n \in 0 .. n
  <2>1. IsWalker(c) /\ f.portable \subseteq Values(c)
    BY DEF Keeps
  <2> QED BY <2>1, SeqMonotonic, SeqIsFunction
<1>2. /\ W \in [0 .. n -> Seq(Byte)] /\ W[0] = <<>>
      /\ \A j \in 1 .. n : /\ v[j] \in Values(c) /\ c.write[v[j]] \in Seq(Byte)
                           /\ W[j] = W[j - 1] \o c.write[v[j]]
  BY <1>1, ElementsWrittenEquation
<1>3. /\ R \in [0 .. n -> S]
      /\ \A j \in 1 .. n : R[j] = ReadNext(c, s, R[j - 1])
  BY <1>1, ElementsReadEquation
<1>4. \A j \in 1 .. n : /\ ReadsBack(c, v[j]) /\ NoticesEnd(c, v[j], f.shortened)
  <2>1. \A j \in 1 .. n : v[j] \in f.portable
    BY SeqIsFunction
  <2> QED BY <2>1 DEF Keeps
<1>5. \A j \in 0 .. n : Holds(s, pos, W[j]) =>
          R[j] = Done(SubSeq(v, 1, j), pos + Len(W[j])) /\ pos + Len(W[j]) \in 0 .. Len(s)
  BY <1>1, <1>4, ElementsUpTo
<1>6. ASSUME NEW j \in 0 .. n, Ok(R[j])
      PROVE  R[j].value \in Seq(Values(c)) /\ Len(R[j].value) = j /\ R[j].pos \in 0 .. Len(s)
  <2>1. R[j].value \in Seq(Values(c)) /\ Len(R[j].value) = j /\ R[j].pos \in pos .. Len(s)
    BY <1>1, <1>6, ElementsCounted
  <2> HIDE DEF R
  <2> QED BY <2>1
<1>7. s \in Seq(Byte) /\ Len(s) \in Nat
  BY BufferIsSeq
<1> HIDE DEF R, W
<1>8. 0 \in T
  <2>1. Len(W[0]) = 0
    BY <1>2, EmptySeq
  <2>2. ~ EndsWithin(s, pos, W[0])
    BY <1>7, <2>1 DEF EndsWithin
  <2> QED BY <1>1, <2>2
<1>9. ASSUME NEW j \in 1 .. n, j - 1 \in T PROVE j \in T
  <2> DEFINE r == R[j - 1]
      w == c.write[v[j]]
      next == c.read[s][r.pos]
      u == R[j].value
  <2> SUFFICES ASSUME EndsWithin(s, pos, W[j]), Ok(R[j])
               PROVE  Early(u, j) /\ R[j].pos = Len(s)
    <3> HIDE DEF Early
    <3>1. j \in 0 .. n
      BY <1>1
    <3> QED BY <3>1
  <2>1. j \in 0 .. n /\ j - 1 \in 0 .. n
    BY <1>1
  <2>2. /\ W[j] = W[j - 1] \o w /\ W[j - 1] \in Seq(Byte) /\ w \in Seq(Byte)
        /\ r \in S /\ R[j] = ReadNext(c, s, r)
    BY <1>2, <1>3, <2>1
  <2>3. /\ Ok(r) /\ Ok(next) /\ next.value \in Values(c) /\ next.pos \in r.pos .. Len(s)
        /\ u = Append(r.value, next.value) /\ R[j].pos = next.pos
    <3> HIDE DEF r
    <3> QED BY <1>1, <2>2, ReadNextResult
  <2>4. r.value \in Seq(Values(c)) /\ Len(r.value) = j - 1 /\ r.pos \in 0 .. Len(s)
    BY <1>6, <2>1, <2>3
  <2>5. next = c.read[s][r.pos]
    OBVIOUS
  <2>6. \/ EndsWithin(s, pos, W[j - 1])
        \/ Holds(s, pos, W[j - 1]) /\ EndsWithin(s, pos + Len(W[j - 1]), w)
    <3> HIDE DEF w
    <3>1. EndsWithin(s, pos, W[j - 1] \o w)
      BY <2>2
    <3> QED BY <1>7, <2>2, <3>1, EndsWithinOne
  <2> HIDE DEF next, u
  <2>7. /\ Len(u) = j
        /\ \A k \in 1 .. j - 1 : u[k] = r.value[k]
        /\ u[j] = next.value
    BY <2>3, <2>4, AppendProperties
  <2>8. CASE EndsWithin(s, pos, W[j - 1])
    <3>1. Early(r.value, j - 1) /\ r.pos = Len(s)
      BY <1>9, <2>3, <2>8
    <3>2. next.value \in f.missing
      BY <2>3, <2>5, <3>1 DEF Keeps, ReadsNothing
    <3>3. R[j].pos = Len(s)
      BY <1>7, <2>3, <3>1
    <3> HIDE DEF r
    <3>4. PICK k \in 1 .. j - 1 :
             /\ \A i \in 1 .. k - 1 : r.value[i] = v[i]
             /\ <<v[k], r.value[k]>> \in f.shortened
             /\ \A i \in k + 1 .. j - 1 : r.value[i] \in f.missing
      BY <3>1
    <3>5. \A i \in 1 .. k - 1 : u[i] = v[i]
      BY <2>7, <3>4
    <3>6. <<v[k], u[k]>> \in f.shortened
      BY <2>7, <3>4
    <3>7. ASSUME NEW i \in k + 1 .. j PROVE u[i] \in f.missing
      <4>1. CASE i = j
        BY <2>7, <3>2, <4>1
      <4>2. CASE i # j
        <5>1. i \in 1 .. j - 1 /\ i \in k + 1 .. j - 1
          BY <4>2
        <5> QED BY <2>7, <3>4, <5>1
      <4> QED BY <4>1, <4>2
    <3>8. k \in 1 .. j
      OBVIOUS
    <3> QED BY <3>3, <3>5, <3>6, <3>7, <3>8
  <2>9. CASE Holds(s, pos, W[j - 1]) /\ EndsWithin(s, pos + Len(W[j - 1]), w)
    <3> DEFINE mid == pos + Len(W[j - 1])
    <3>1. r = Done(SubSeq(v, 1, j - 1), mid)
      BY <1>5, <2>1, <2>9
    <3> HIDE DEF r, mid
    <3>2. r.value = SubSeq(v, 1, j - 1) /\ r.pos = mid
      BY <3>1, DoneFields
    <3>3. EndsWithin(s, r.pos, w) /\ NoticesEnd(c, v[j], f.shortened)
      BY <1>4, <2>9, <3>2 DEF mid
    <3>4. <<v[j], next.value>> \in f.shortened /\ next.pos = Len(s)
      BY <2>3, <2>4, <2>5, <3>3 DEF NoticesEnd
    <3>5. \A i \in 1 .. j - 1 : r.value[i] = v[i]
      <4> DEFINE a == SubSeq(v, 1, j - 1)
      <4>1. \A i \in 1 .. j - 1 : a[i] = v[0 + i]
        <5>1. 0 + 1 = 1 /\ 0 + (j - 1) = j - 1 /\ 0 + (j - 1) <= Len(v) /\ j - 1 \in Nat
          BY <1>1
        <5> QED BY <1>1, <5>1, Slice
      <4> HIDE DEF a
      <4> QED BY <3>2, <4>1 DEF a
    <3>6. \A i \in 1 .. j - 1 : u[i] = v[i]
      BY <2>7, <3>5
    <3>7. j \in 1 .. j /\ j + 1 .. j = {}
      OBVIOUS
    <3>8. <<v[j], u[j]>> \in f.shortened
      BY <2>7, <3>4
    <3>9. Early(u, j)
      BY <3>6, <3>7, <3>8
    <3> QED BY <2>3, <3>4, <3>9
  <2> QED BY <2>6, <2>8, <2>9
<1>10. n \in T
  <2> HIDE DEF T
  <2>1. \A j \in 0 .. n : j \in T
    BY <1>1, <1>8, <1>9, CountingUp
  <2> QED BY <1>1, <2>1
<1>11. /\ Ok(R[n]) /\ R[n] = ReadElements(c, n, s, pos)
       /\ EndsWithin(s, pos, W[n])
  BY DEF ReadElements, WriteElements, R, W
<1>12. Early(R[n].value, n) /\ R[n].pos = Len(s) /\ Len(R[n].value) = n
  BY <1>1, <1>6, <1>10, <1>11
<1> QED BY <1>11, <1>12 DEF EndsEarly

LEMMA WriteNothing ==
    ASSUME NEW c, IsWalker(c)
    PROVE  WriteElements(c, <<>>) = <<>>
<1>1. <<>> \in Seq(Values(c)) /\ Len(<<>>) = 0
  BY EmptySeq
<1>2. ElementsWritten(c, <<>>)[0] = <<>>
  BY <1>1, ElementsWrittenEquation
<1> QED BY <1>1, <1>2 DEF WriteElements

LEMMA WriteOneMore ==
    ASSUME NEW c, IsWalker(c), NEW u \in Seq(Values(c)), NEW x \in Values(c)
    PROVE  /\ Append(u, x) \in Seq(Values(c))
           /\ WriteElements(c, Append(u, x)) = WriteElements(c, u) \o c.write[x]
<1> DEFINE v == Append(u, x)
    n == Len(u)
    U == ElementsWritten(c, u)
    W == ElementsWritten(c, v)
    T == {j \in 0 .. n : W[j] = U[j]}
<1>1. /\ v \in Seq(Values(c)) /\ Len(v) = n + 1 /\ v[n + 1] = x
      /\ \A j \in 1 .. n : v[j] = u[j]
  BY AppendProperties
<1> HIDE DEF v
<1>2. /\ n \in Nat /\ U[0] = <<>>
      /\ \A j \in 1 .. n : U[j] = U[j - 1] \o c.write[u[j]]
  BY ElementsWrittenEquation
<1>3. W[0] = <<>> /\ \A j \in 1 .. n + 1 : W[j] = W[j - 1] \o c.write[v[j]]
  <2>1. W[0] = <<>> /\ \A j \in 1 .. Len(v) : W[j] = W[j - 1] \o c.write[v[j]]
    BY <1>1, ElementsWrittenEquation
  <2> HIDE DEF W
  <2> QED BY <1>1, <2>1
<1> HIDE DEF U, W, n
<1>4. 0 \in T
  BY <1>2, <1>3
<1>5. ASSUME NEW j \in 1 .. n, j - 1 \in T PROVE j \in T
  <2>1. j \in 0 .. n /\ j \in 1 .. n + 1 /\ W[j - 1] = U[j - 1]
    BY <1>2, <1>5
  <2>2. W[j] = W[j - 1] \o c.write[v[j]] /\ U[j] = U[j - 1] \o c.write[u[j]] /\ v[j] = u[j]
    BY <1>1, <1>2, <1>3, <2>1
  <2> QED BY <2>1, <2>2
<1>6. W[n] = U[n]
  <2> HIDE DEF T
  <2>1. \A j \in 0 .. n : j \in T
    BY <1>2, <1>4, <1>5, CountingUp
  <2>2. n \in T
    BY <1>2, <2>1
  <2> QED BY <2>2 DEF T
<1>7. W[n + 1] = W[n] \o c.write[x]
  <2>1. n + 1 \in 1 .. n + 1 /\ (n + 1) - 1 = n
    BY <1>2
  <2> QED BY <1>1, <1>3, <2>1
<1> QED BY <1>1, <1>6, <1>7 DEF WriteElements, v, n, U, W

LEMMA ElementsReadAsWritten ==
    ASSUME NEW c, IsWalker(c), ReadsWhatIsWritten(c), NEW n \in Nat,
           NEW s \in Buffer, NEW pos \in 0 .. Len(s), Ok(ReadElements(c, n, s, pos))
    PROVE  Begins(s, pos, ReadElements(c, n, s, pos).pos,
                  WriteElements(c, ReadElements(c, n, s, pos).value))
<1> DEFINE R == ElementsRead(c, n, s, pos)
    S == Outcome(Seq(Values(c)), s)
    T == {j \in 0 .. n : Ok(R[j]) => Begins(s, pos, R[j].pos, WriteElements(c, R[j].value))}
<1>1. /\ R \in [0 .. n -> S] /\ R[0] = Done(<<>>, pos)
      /\ \A j \in 1 .. n : R[j] = ReadNext(c, s, R[j - 1])
  BY ElementsReadEquation
<1>2. ASSUME NEW j \in 0 .. n, Ok(R[j])
      PROVE  R[j].value \in Seq(Values(c)) /\ R[j].pos \in pos .. Len(s)
  BY <1>2, ElementsCounted
<1>3. s \in Seq(Byte) /\ Len(s) \in Nat /\ pos \in Nat
  BY BufferIsSeq
<1> HIDE DEF R
<1>4. 0 \in T
  <2>1. R[0].value = <<>> /\ R[0].pos = pos
    BY <1>1, DoneFields
  <2>2. WriteElements(c, R[0].value) = <<>> /\ Len(<<>>) = 0
    BY <2>1, WriteNothing, EmptySeq
  <2>3. pos = pos + Len(<<>>) /\ 1 .. pos - pos = {}
    BY <1>3, <2>2
  <2>4. Begins(s, pos, R[0].pos, WriteElements(c, R[0].value))
    BY <2>1, <2>2, <2>3 DEF Begins
  <2> QED BY <2>4
<1>5. ASSUME NEW j \in 1 .. n, j - 1 \in T PROVE j \in T
  <2> SUFFICES ASSUME Ok(R[j])
               PROVE  Begins(s, pos, R[j].pos, WriteElements(c, R[j].value))
    OBVIOUS
  <2> DEFINE r == R[j - 1]
      next == c.read[s][r.pos]
      v == WriteElements(c, r.value)
      w == c.write[next.value]
  <2>1. r \in S /\ R[j] = ReadNext(c, s, r) /\ j - 1 \in 0 .. n
    BY <1>1
  <2>2. /\ Ok(r) /\ Ok(next) /\ next.value \in Values(c) /\ next.pos \in r.pos .. Len(s)
        /\ R[j].value = Append(r.value, next.value) /\ R[j].pos = next.pos
    <3> HIDE DEF r
    <3> QED BY <2>1, ReadNextResult
  <2>3. r.value \in Seq(Values(c)) /\ r.pos \in pos .. Len(s)
    BY <1>2, <2>1, <2>2
  <2>4. Begins(s, pos, r.pos, v)
    BY <1>5, <2>2
  <2> HIDE DEF r
  <2>5. Begins(s, r.pos, next.pos, w)
    BY <1>3, <2>2, <2>3 DEF ReadsWhatIsWritten
  <2> HIDE DEF next
  <2>6. v \in Seq(Byte) /\ w \in Seq(Byte)
    BY <2>2, <2>3, WrittenIsBytes DEF IsWalker
  <2>7. WriteElements(c, R[j].value) = v \o w
    BY <2>2, <2>3, WriteOneMore
  <2> HIDE DEF v, w
  <2>8. r.pos \in Nat /\ next.pos \in Nat /\ pos <= r.pos /\ r.pos <= next.pos /\ next.pos <= Len(s)
    BY <1>3, <2>2, <2>3
  <2>9. Begins(s, pos, next.pos, v \o w)
    BY <1>3, <2>4, <2>5, <2>6, <2>8, BeginsBoth
  <2> QED BY <2>2, <2>7, <2>9
<1>6. n \in T
  <2> HIDE DEF T
  <2>1. \A j \in 0 .. n : j \in T
    BY <1>4, <1>5, CountingUp
  <2> QED BY <2>1
<1> QED BY <1>6 DEF ReadElements, R

(***************************************************************************)
(* Containers                                                              *)
(***************************************************************************)

(* The walker of an array keeps the laws if that of its elements does.     *)
LEMMA ArrayKeeps ==
    ASSUME NEW d, d.kind = "array", d.size \in Nat, NEW known, NEW c, Keeps(c, known[d.of])
    PROVE  Keeps(ArrayWalker(c, d.size),
                 FormatOf(d, Values(ArrayWalker(c, d.size)), known))
<1> DEFINE n == d.size
    a == ArrayWalker(c, n)
    f == known[d.of]
    F == FormatOf(d, Values(a), known)
<1>1. IsWalker(c) /\ f.portable \subseteq Values(c) /\ n \in Nat
  BY DEF Keeps
<1>2. /\ Values(a) = [1 .. n -> Values(c)]
      /\ \A v \in Values(a) : a.write[v] = WriteElements(c, v)
      /\ \A s \in Buffer : \A pos \in Nat : a.read[s][pos] = ReadElements(c, n, s, pos)
  BY DEF ArrayWalker, Values
<1>3. /\ F.portable = {v \in Values(a) : Each(v, f.portable)}
      /\ F.missing = {v \in Values(a) : Each(v, f.missing)}
      /\ F.exact = f.exact
  <2>1. Portable(d, Values(a), known) = {v \in Values(a) : Each(v, f.portable)}
    BY DEF Portable
  <2>2. Missing(d, Values(a), known) = {v \in Values(a) : Each(v, f.missing)}
    BY DEF Missing
  <2>3. Exact(d, known) = f.exact
    BY DEF Exact
  <2> QED BY <2>1, <2>2, <2>3, FormatFields, Zenon
<1>4. ASSUME NEW v \in Values(a), NEW w \in Values(a), EndsEarly(v, w, f)
      PROVE  <<v, w>> \in F.shortened
  <2>1. EndsIn(d, v, w, known)
    BY <1>4 DEF EndsIn
  <2> QED BY <2>1, Shortened
<1> HIDE DEF n, a, F, f
<1>5. ASSUME NEW v \in Values(a)
      PROVE  v \in Seq(Values(c)) /\ Len(v) = n /\ DOMAIN v = 1 .. n
  BY <1>1, <1>2, FunctionIsSeq
<1>6. ASSUME NEW v \in F.portable
      PROVE  /\ v \in Values(a) /\ v \in Seq(f.portable) /\ v \in Seq(Values(c)) /\ Len(v) = n
             /\ \A i \in 1 .. Len(v) : ReadsBack(c, v[i])
  <2>1. v \in Values(a) /\ Each(v, f.portable)
    BY <1>3
  <2>2. Len(v) = n /\ \A i \in 1 .. n : v[i] \in f.portable
    BY <1>5, <2>1 DEF Each
  <2>3. v \in Seq(f.portable)
    <3>1. v \in [1 .. n -> f.portable]
      BY <1>2, <2>1, <2>2
    <3> QED BY <1>1, <3>1, FunctionIsSeq
  <2> QED BY <1>5, <2>1, <2>2, <2>3 DEF Keeps, f
<1>7. ASSUME NEW s \in Buffer, NEW pos \in 0 .. Len(s)
      PROVE  /\ a.read[s][pos] = ReadElements(c, n, s, pos)
             /\ a.read[s][pos] \in Outcome(Seq(Values(c)), s)
             /\ Ok(a.read[s][pos]) =>
                  a.read[s][pos].value \in Values(a) /\ a.read[s][pos].pos \in pos .. Len(s)
  <2>1. a.read[s][pos] = ReadElements(c, n, s, pos)
    BY <1>2
  <2>2. /\ a.read[s][pos] \in Outcome(Seq(Values(c)), s)
        /\ Ok(a.read[s][pos]) => /\ a.read[s][pos].value \in Seq(Values(c))
                                 /\ Len(a.read[s][pos].value) = n
                                 /\ a.read[s][pos].pos \in pos .. Len(s)
    BY <1>1, <2>1, ReadElementsCounted
  <2>3. ASSUME Ok(a.read[s][pos]) PROVE a.read[s][pos].value \in Values(a)
    BY <1>2, <2>2, <2>3, SeqIsFunction
  <2> QED BY <2>1, <2>2, <2>3
<1>8. IsWalker(a)
  <2>1. ASSUME NEW v \in Values(a) PROVE a.write[v] \in Seq(Byte)
    BY <1>1, <1>2, <1>5, WrittenIsBytes
  <2>2. ASSUME NEW s \in Buffer, NEW pos \in 0 .. Len(s)
        PROVE  /\ a.read[s][pos] \in Outcome(Values(a), s)
               /\ Ok(a.read[s][pos]) => pos <= a.read[s][pos].pos
    <3>1. CASE ~ Ok(a.read[s][pos])
      BY <1>7, <3>1, OutcomeCases, OutcomesAreOutcomes
    <3>2. CASE Ok(a.read[s][pos])
      BY <1>7, <3>2, OutcomeCases, OutcomesAreOutcomes
    <3> QED BY <3>1, <3>2
  <2> QED BY <2>1, <2>2 DEF IsWalker
<1>9. F.portable \subseteq Values(a)
  BY <1>3
<1>10. ASSUME NEW v \in F.portable PROVE ReadsBack(a, v)
  <2>1. ASSUME NEW s \in Buffer, NEW pos \in 0 .. Len(s), Holds(s, pos, a.write[v])
        PROVE  a.read[s][pos] = Done(v, pos + Len(a.write[v]))
    <3>1. a.write[v] = WriteElements(c, v)
      BY <1>2, <1>6
    <3>2. ReadElements(c, Len(v), s, pos) = Done(v, pos + Len(WriteElements(c, v)))
      BY <1>1, <1>6, <2>1, <3>1, ElementsReadBack
    <3> QED BY <1>6, <1>7, <3>1, <3>2
  <2> QED BY <2>1 DEF ReadsBack
<1>11. ReadsNothing(a, F.missing)
  <2>1. ReadsNothing(c, f.missing)
    BY DEF Keeps, f
  <2>2. ASSUME NEW s \in Buffer, Ok(a.read[s][Len(s)])
        PROVE  a.read[s][Len(s)].value \in F.missing
    <3>1. Len(s) \in 0 .. Len(s)
      BY BufferIsSeq
    <3>2. Each(a.read[s][Len(s)].value, f.missing)
      BY <1>1, <1>7, <2>1, <2>2, <3>1, ElementsReadNothing
    <3> QED BY <1>3, <1>7, <2>2, <3>1, <3>2
  <2> QED BY <2>2 DEF ReadsNothing
<1>12. ASSUME NEW v \in F.portable PROVE NoticesEnd(a, v, F.shortened)
  <2>1. ASSUME NEW s \in Buffer, NEW pos \in 0 .. Len(s), EndsWithin(s, pos, a.write[v]),
               Ok(a.read[s][pos])
        PROVE  <<v, a.read[s][pos].value>> \in F.shortened /\ a.read[s][pos].pos = Len(s)
    <3>1. EndsWithin(s, pos, WriteElements(c, v)) /\ a.read[s][pos] = ReadElements(c, Len(v), s, pos)
      BY <1>2, <1>6, <1>7, <2>1
    <3>2. EndsEarly(v, a.read[s][pos].value, f) /\ a.read[s][pos].pos = Len(s)
      BY <1>6, <2>1, <3>1, ElementsNoticeEnd DEF f
    <3> QED BY <1>4, <1>6, <1>7, <2>1, <3>2
  <2> QED BY <2>1 DEF NoticesEnd
<1>13. ASSUME F.exact PROVE ReadsWhatIsWritten(a)
  <2>1. ReadsWhatIsWritten(c)
    BY <1>3, <1>13 DEF Keeps, f
  <2>2. ASSUME NEW s \in Buffer, NEW pos \in 0 .. Len(s), Ok(a.read[s][pos])
        PROVE  Begins(s, pos, a.read[s][pos].pos, a.write[a.read[s][pos].value])
    BY <1>1, <1>2, <1>7, <2>1, <2>2, ElementsReadAsWritten
  <2> QED BY <2>2 DEF ReadsWhatIsWritten
<1>14. Keeps(a, F)
  BY <1>8, <1>9, <1>10, <1>11, <1>12, <1>13 DEF Keeps
<1> QED BY <1>14 DEF a, F, n

LEMMA SizeIsBytes ==
    ASSUME NEW n \in Nat
    PROVE  /\ SizeBytes(n) \in [1 .. SizeWidth -> Byte]
           /\ SizeBytes(n) \in Seq(Byte) /\ Len(SizeBytes(n)) = SizeWidth
<1>1. \A i \in 1 .. SizeWidth : Above(n)[i - 1] \in Nat
  <2>1. \A i \in 1 .. SizeWidth : i - 1 \in 0 .. SizeWidth
    BY WidthIsNat
  <2> QED BY <2>1, AboveEquation
<1>2. SizeBytes(n) \in [1 .. SizeWidth -> Byte]
  BY <1>1, Digits DEF SizeBytes
<1> QED BY <1>2, WidthIsNat, FunctionIsSeq

(* The size at a position, if all its bytes are there. *)
SizeAt(s, pos) == SubSeq(s, pos + 1, pos + SizeWidth)

LEMMA ReadSpResult ==
    ASSUME NEW c, IsWalker(c), NEW s \in Buffer, NEW pos \in 0 .. Len(s)
    PROVE  /\ ReadSp(c, s, pos) \in Outcome(Seq(Values(c)), s)
           /\ pos + SizeWidth <= Len(s) =>
                /\ SizeAt(s, pos) \in [1 .. SizeWidth -> Byte]
                /\ \A i \in 1 .. SizeWidth : SizeAt(s, pos)[i] = s[pos + i]
                /\ SizeOf(SizeAt(s, pos)) <= SpLimit =>
                     ReadSp(c, s, pos) =
                         ReadElements(c, SizeOf(SizeAt(s, pos)), s, pos + SizeWidth)
           /\ Ok(ReadSp(c, s, pos)) =>
                /\ pos + SizeWidth <= Len(s) /\ SizeOf(SizeAt(s, pos)) <= SpLimit
                /\ ReadSp(c, s, pos).value \in Seq(Values(c))
                /\ Len(ReadSp(c, s, pos).value) = SizeOf(SizeAt(s, pos))
                /\ ReadSp(c, s, pos).pos \in pos + SizeWidth .. Len(s)
<1> DEFINE b == SizeAt(s, pos)
    n == SizeOf(b)
    mid == pos + SizeWidth
    size == ReadNum(SizeWidth, s, pos)
    S == Outcome(Seq(Values(c)), s)
<1>1. SizeWidth \in Words \ {0} /\ SizeWidth \in Nat /\ SpLimit \in Nat /\ Len(s) \in Nat
  BY WidthIsNat, WalkersAssumption, BufferIsSeq
<1>2. CASE ~ (mid <= Len(s))
  <2>1. size \in {Threw, Undefined}
    BY <1>1, <1>2, ReadNumResult
  <2>2. ReadSp(c, s, pos) = size
    BY <2>1, OutcomesAreOutcomes DEF ReadSp
  <2> QED BY <1>2, <2>1, <2>2, OutcomesAreOutcomes
<1>3. CASE mid <= Len(s)
  <2>1. /\ size = Done(b, mid) /\ b \in [1 .. SizeWidth -> Byte] /\ mid \in 0 .. Len(s)
        /\ \A i \in 1 .. SizeWidth : b[i] = s[pos + i]
    BY <1>1, <1>3, ReadNumResult DEF SizeAt
  <2> HIDE DEF b, size, mid
  <2>2. Ok(size) /\ size.value = b /\ size.pos = mid
    BY <2>1, DoneFields
  <2>3. n \in Nat
    BY <2>1, SizeRead
  <2> HIDE DEF n
  <2>4. CASE n > SpLimit
    <3>1. ReadSp(c, s, pos) = Threw
      BY <2>2, <2>4 DEF ReadSp, TooLarge, n, size
    <3>2. ~ (n <= SpLimit)
      BY <1>1, <2>3, <2>4
    <3> QED BY <2>1, <3>1, <3>2, OutcomesAreOutcomes DEF n, b
  <2>5. CASE n <= SpLimit
    <3>1. ReadSp(c, s, pos) = ReadElements(c, n, s, mid)
      BY <1>1, <2>2, <2>3, <2>5 DEF ReadSp, TooLarge, n, size
    <3>2. /\ ReadElements(c, n, s, mid) \in S
          /\ Ok(ReadElements(c, n, s, mid)) =>
               /\ ReadElements(c, n, s, mid).value \in Seq(Values(c))
               /\ Len(ReadElements(c, n, s, mid).value) = n
               /\ ReadElements(c, n, s, mid).pos \in mid .. Len(s)
      BY <2>1, <2>3, ReadElementsCounted
    <3> QED BY <1>3, <2>1, <2>5, <3>1, <3>2 DEF n, b, mid
  <2> QED BY <1>1, <2>3, <2>4, <2>5
<1> QED BY <1>2, <1>3

(* The walker of a container with its size in front keeps the laws if that *)
(* of its elements does.                                                   *)
LEMMA SpKeeps ==
    ASSUME NEW d, d.kind = "sp", NEW known, NEW c, Keeps(c, known[d.of])
    PROVE  Keeps(SpWalker(c), FormatOf(d, Values(SpWalker(c)), known))
<1> DEFINE a == SpWalker(c)
    f == known[d.of]
    F == FormatOf(d, Values(a), known)
<1>1. /\ IsWalker(c) /\ f.portable \subseteq Values(c)
      /\ SizeWidth \in Nat \ {0} /\ SpLimit \in Nat
  BY WidthIsNat, WalkersAssumption DEF Keeps
<1>2. /\ Values(a) = Seq(Values(c))
      /\ \A v \in Values(a) : a.write[v] = SizeBytes(Len(v)) \o WriteElements(c, v)
      /\ \A s \in Buffer : \A pos \in Nat : a.read[s][pos] = ReadSp(c, s, pos)
  BY DEF SpWalker, Values
<1>3. /\ F.portable = {v \in Values(a) : Len(v) <= SpLimit /\ Each(v, f.portable)}
      /\ F.missing = {}
      /\ F.exact = f.exact
  <2>1. Portable(d, Values(a), known)
            = {v \in Values(a) : Len(v) <= SpLimit /\ Each(v, f.portable)}
    BY DEF Portable
  <2>2. Missing(d, Values(a), known) = {}
    BY DEF Missing
  <2>3. Exact(d, known) = f.exact
    BY DEF Exact
  <2> QED BY <2>1, <2>2, <2>3, FormatFields, Zenon
<1>4. ASSUME NEW v \in Values(a), NEW w \in Values(a), EndsEarly(v, w, f)
      PROVE  <<v, w>> \in F.shortened
  <2>1. EndsIn(d, v, w, known)
    BY <1>4 DEF EndsIn
  <2> QED BY <2>1, Shortened
<1> HIDE DEF a, F, f
<1>5. ASSUME NEW v \in Values(a)
      PROVE  /\ v \in Seq(Values(c)) /\ Len(v) \in Nat /\ DOMAIN v = 1 .. Len(v)
             /\ SizeBytes(Len(v)) \in Seq(Byte) /\ Len(SizeBytes(Len(v))) = SizeWidth
             /\ WriteElements(c, v) \in Seq(Byte)
             /\ a.write[v] = SizeBytes(Len(v)) \o WriteElements(c, v)
             /\ a.write[v] \in Seq(Byte)
             /\ Len(a.write[v]) = SizeWidth + Len(WriteElements(c, v))
  <2> DEFINE b == SizeBytes(Len(v))
      w == WriteElements(c, v)
  <2>1. v \in Seq(Values(c)) /\ a.write[v] = b \o w
    BY <1>2
  <2>2. Len(v) \in Nat /\ DOMAIN v = 1 .. Len(v) /\ w \in Seq(Byte)
    BY <1>1, <2>1, SeqIsFunction, WrittenIsBytes
  <2>3. b \in Seq(Byte) /\ Len(b) = SizeWidth
    BY <2>2, SizeIsBytes
  <2> HIDE DEF b, w
  <2>4. b \o w \in Seq(Byte) /\ Len(b \o w) = Len(b) + Len(w)
    BY <2>2, <2>3, ConcatProperties
  <2> QED BY <2>1, <2>2, <2>3, <2>4 DEF b, w
<1>6. ASSUME NEW v \in F.portable
      PROVE  /\ v \in Values(a) /\ v \in Seq(f.portable) /\ Len(v) <= SpLimit
             /\ SizeOf(SizeBytes(Len(v))) = Len(v)
             /\ SizeBytes(Len(v)) \in [1 .. SizeWidth -> Byte]
             /\ \A i \in 1 .. Len(v) : ReadsBack(c, v[i])
  <2>1. v \in Values(a) /\ Each(v, f.portable) /\ Len(v) <= SpLimit
    BY <1>3
  <2>2. \A i \in 1 .. Len(v) : v[i] \in f.portable
    BY <1>5, <2>1 DEF Each
  <2>3. v \in Seq(f.portable)
    <3>1. v \in [1 .. Len(v) -> f.portable] /\ Len(v) \in Nat
      BY <1>5, <2>1, <2>2, SeqIsFunction
    <3> QED BY <3>1, FunctionIsSeq
  <2>4. SizeOf(SizeBytes(Len(v))) = Len(v) /\ SizeBytes(Len(v)) \in [1 .. SizeWidth -> Byte]
    BY <1>5, <2>1, LimitFits, SizeWritten
  <2> QED BY <2>1, <2>2, <2>3, <2>4 DEF Keeps, f
<1>7. ASSUME NEW s \in Buffer, NEW pos \in 0 .. Len(s)
      PROVE  /\ s \in Seq(Byte) /\ Len(s) \in Nat
             /\ a.read[s][pos] = ReadSp(c, s, pos)
             /\ a.read[s][pos] \in Outcome(Values(a), s)
             /\ Ok(a.read[s][pos]) => /\ pos + SizeWidth <= Len(s)
                                      /\ a.read[s][pos].value \in Values(a)
                                      /\ a.read[s][pos].pos \in pos + SizeWidth .. Len(s)
  <2>1. s \in Seq(Byte) /\ Len(s) \in Nat /\ a.read[s][pos] = ReadSp(c, s, pos)
    BY <1>2, BufferIsSeq
  <2>2. /\ a.read[s][pos] \in Outcome(Values(a), s)
        /\ Ok(a.read[s][pos]) => /\ pos + SizeWidth <= Len(s)
                                 /\ a.read[s][pos].value \in Values(a)
                                 /\ a.read[s][pos].pos \in pos + SizeWidth .. Len(s)
    BY <1>1, <1>2, <2>1, ReadSpResult
  <2> QED BY <2>1, <2>2
<1>8. IsWalker(a)
  <2>1. ASSUME NEW s \in Buffer, NEW pos \in 0 .. Len(s), Ok(a.read[s][pos])
        PROVE  pos <= a.read[s][pos].pos
    BY <1>1, <1>7, <2>1
  <2> QED BY <1>5, <1>7, <2>1 DEF IsWalker
<1>9. F.portable \subseteq Values(a)
  BY <1>3
(* The size in the bytes is that of the value written. *)
<1>10. ASSUME NEW v \in F.portable, NEW s \in Buffer, NEW pos \in 0 .. Len(s),
              Holds(s, pos, SizeBytes(Len(v)))
       PROVE  /\ pos + SizeWidth \in 0 .. Len(s)
              /\ a.read[s][pos] = ReadElements(c, Len(v), s, pos + SizeWidth)
  <2> DEFINE b == SizeBytes(Len(v))
  <2>1. Len(b) = SizeWidth /\ SizeOf(b) = Len(v) /\ b \in [1 .. SizeWidth -> Byte]
    BY <1>5, <1>6
  <2> HIDE DEF b
  <2>2. pos + SizeWidth <= Len(s) /\ \A i \in 1 .. SizeWidth : s[pos + i] = b[i]
    BY <1>10, <2>1 DEF Holds, b
  <2>3. SizeAt(s, pos) = b
    <3>1. /\ SizeAt(s, pos) \in [1 .. SizeWidth -> Byte]
          /\ \A i \in 1 .. SizeWidth : SizeAt(s, pos)[i] = s[pos + i]
      BY <1>1, <2>2, ReadSpResult
    <3> QED BY <2>1, <2>2, <3>1
  <2>4. ReadSp(c, s, pos) = ReadElements(c, Len(v), s, pos + SizeWidth)
    BY <1>1, <1>6, <2>1, <2>2, <2>3, ReadSpResult
  <2> QED BY <1>1, <1>7, <2>2, <2>4
<1>11. ASSUME NEW v \in F.portable PROVE ReadsBack(a, v)
  <2>1. ASSUME NEW s \in Buffer, NEW pos \in 0 .. Len(s), Holds(s, pos, a.write[v])
        PROVE  a.read[s][pos] = Done(v, pos + Len(a.write[v]))
    <3> DEFINE b == SizeBytes(Len(v))
        w == WriteElements(c, v)
        mid == pos + SizeWidth
    <3>1. /\ b \in Seq(Byte) /\ w \in Seq(Byte) /\ Len(b) = SizeWidth
          /\ a.write[v] = b \o w /\ Len(a.write[v]) = SizeWidth + Len(w)
          /\ v \in Seq(Values(c)) /\ Len(w) \in Nat
      BY <1>5, <1>6, WrittenIsBytes, SeqIsFunction
    <3> HIDE DEF b, w
    <3>2. Holds(s, pos, b) /\ Holds(s, mid, w)
      <4>1. Holds(s, pos, b \o w) /\ pos \in Nat /\ s \in Seq(Byte)
        BY <1>7, <2>1, <3>1
      <4>2. Holds(s, pos, b) /\ Holds(s, pos + Len(b), w)
        BY <3>1, <4>1, HoldsBoth
      <4> QED BY <3>1, <4>2
    <3>3. mid \in 0 .. Len(s) /\ a.read[s][pos] = ReadElements(c, Len(v), s, mid)
      BY <1>10, <3>2 DEF b
    <3>4. ReadElements(c, Len(v), s, mid) = Done(v, mid + Len(w))
      BY <1>1, <1>6, <3>1, <3>2, <3>3, ElementsReadBack DEF w
    <3>5. mid + Len(w) = pos + Len(a.write[v])
      BY <1>1, <3>1
    <3> QED BY <3>3, <3>4, <3>5, Zenon
  <2> QED BY <2>1 DEF ReadsBack
<1>12. ReadsNothing(a, F.missing)
  <2>1. ASSUME NEW s \in Buffer PROVE ~ Ok(a.read[s][Len(s)])
    BY <1>1, <1>7, BufferIsSeq
  <2> QED BY <2>1 DEF ReadsNothing
<1>13. ASSUME NEW v \in F.portable PROVE NoticesEnd(a, v, F.shortened)
  <2>1. ASSUME NEW s \in Buffer, NEW pos \in 0 .. Len(s), EndsWithin(s, pos, a.write[v]),
               Ok(a.read[s][pos])
        PROVE  <<v, a.read[s][pos].value>> \in F.shortened /\ a.read[s][pos].pos = Len(s)
    <3> DEFINE b == SizeBytes(Len(v))
        w == WriteElements(c, v)
    <3>1. /\ b \in Seq(Byte) /\ w \in Seq(Byte) /\ Len(b) = SizeWidth /\ a.write[v] = b \o w
      BY <1>5, <1>6
    <3> HIDE DEF b, w
    <3>2. ~ EndsWithin(s, pos, b)
      BY <1>7, <2>1, <3>1 DEF EndsWithin
    <3>3. Holds(s, pos, b) /\ EndsWithin(s, pos + SizeWidth, w)
      <4>1. EndsWithin(s, pos, b \o w) /\ s \in Seq(Byte)
        BY <1>7, <2>1, <3>1
      <4>2. Holds(s, pos, b) /\ EndsWithin(s, pos + Len(b), w)
        BY <3>1, <3>2, <4>1, EndsWithinOne
      <4> QED BY <3>1, <4>2
    <3>4. /\ pos + SizeWidth \in 0 .. Len(s)
          /\ a.read[s][pos] = ReadElements(c, Len(v), s, pos + SizeWidth)
      BY <1>10, <3>3 DEF b
    <3>5. EndsEarly(v, a.read[s][pos].value, f) /\ a.read[s][pos].pos = Len(s)
      BY <1>6, <2>1, <3>3, <3>4, ElementsNoticeEnd DEF f, w
    <3> QED BY <1>4, <1>6, <1>7, <2>1, <3>5
  <2> QED BY <2>1 DEF NoticesEnd
<1>14. ASSUME F.exact PROVE ReadsWhatIsWritten(a)
  <2>1. ReadsWhatIsWritten(c)
    BY <1>3, <1>14 DEF Keeps, f
  <2>2. ASSUME NEW s \in Buffer, NEW pos \in 0 .. Len(s), Ok(a.read[s][pos])
        PROVE  Begins(s, pos, a.read[s][pos].pos, a.write[a.read[s][pos].value])
    <3> DEFINE r == a.read[s][pos]
        b == SizeAt(s, pos)
        mid == pos + SizeWidth
        w == WriteElements(c, r.value)
    <3>1. /\ r = ReadSp(c, s, pos) /\ Ok(r) /\ mid <= Len(s) /\ mid \in 0 .. Len(s)
          /\ r.value \in Values(a) /\ r.pos \in mid .. Len(s)
      BY <1>1, <1>7, <2>2
    <3> HIDE DEF r
    <3>2. /\ b \in [1 .. SizeWidth -> Byte] /\ SizeOf(b) <= SpLimit
          /\ \A i \in 1 .. SizeWidth : b[i] = s[pos + i]
          /\ Len(r.value) = SizeOf(b)
          /\ r = ReadElements(c, SizeOf(b), s, mid)
      BY <1>1, <3>1, ReadSpResult
    <3> HIDE DEF b
    <3>3. SizeOf(b) \in Nat /\ SizeBytes(Len(r.value)) = b
      BY <3>2, SizeRead
    <3>4. b \in Seq(Byte) /\ Len(b) = SizeWidth
      BY <1>1, <3>2, FunctionIsSeq
    <3>5. Begins(s, pos, mid, b)
      BY <1>1, <3>2, <3>4 DEF Begins
    <3>6. Begins(s, mid, r.pos, w)
      BY <1>1, <2>1, <3>1, <3>2, <3>3, ElementsReadAsWritten
    <3>7. a.write[r.value] = b \o w /\ w \in Seq(Byte)
      BY <1>5, <3>1, <3>3
    <3> HIDE DEF w, mid
    <3>8. /\ mid \in Nat /\ pos \in Nat /\ r.pos \in Nat
          /\ pos <= mid /\ mid <= r.pos /\ r.pos <= Len(s) /\ s \in Seq(Byte)
      BY <1>1, <1>7, <3>1 DEF mid
    <3>9. Begins(s, pos, r.pos, b \o w)
      BY <3>4, <3>5, <3>6, <3>7, <3>8, BeginsBoth
    <3> QED BY <3>7, <3>9 DEF r
  <2> QED BY <2>2 DEF ReadsWhatIsWritten
<1>15. Keeps(a, F)
  BY <1>8, <1>9, <1>11, <1>12, <1>13, <1>14 DEF Keeps
<1> QED BY <1>15 DEF a, F

(* The walker of a constrained value keeps the laws if that of the value   *)
(* does.                                                                   *)
LEMMA ConstrainedKeeps ==
    ASSUME NEW d, d.kind = "constrained", NEW known, NEW c, Keeps(c, known[d.of])
    PROVE  Keeps(ConstrainedWalker(c, d.least, d.most),
                 FormatOf(d, Values(ConstrainedWalker(c, d.least, d.most)), known))
<1> DEFINE a == ConstrainedWalker(c, d.least, d.most)
    f == known[d.of]
    F == FormatOf(d, Values(a), known)
    Fits(v) == Len(v) \in d.least .. d.most
<1>1. IsWalker(c) /\ f.portable \subseteq Values(c) /\ ReadsNothing(c, f.missing)
  BY DEF Keeps
<1>2. /\ Values(a) = Values(c) /\ a.write = c.write
      /\ \A s \in Buffer : \A pos \in Nat :
            a.read[s][pos] = ReadConstrained(c, d.least, d.most, s, pos)
  BY DEF ConstrainedWalker, Values
<1>3. /\ F.portable = {v \in f.portable : Fits(v)}
      /\ F.missing = f.missing
      /\ F.exact = f.exact
  <2>1. Portable(d, Values(a), known) = {v \in f.portable : Fits(v)}
    BY DEF Portable
  <2>2. Missing(d, Values(a), known) = f.missing
    BY DEF Missing
  <2>3. Exact(d, known) = f.exact
    BY DEF Exact
  <2> QED BY <2>1, <2>2, <2>3, FormatFields, Zenon
<1>4. ASSUME NEW v \in Values(a), NEW w \in Values(a), <<v, w>> \in f.shortened
      PROVE  <<v, w>> \in F.shortened
  <2>1. EndsIn(d, v, w, known)
    BY <1>4 DEF EndsIn
  <2> QED BY <2>1, Shortened
<1>5. ASSUME NEW s \in Buffer, NEW pos \in 0 .. Len(s)
      PROVE  /\ c.read[s][pos] \in Outcome(Values(c), s)
             /\ ~ Ok(a.read[s][pos]) => a.read[s][pos] \in {Threw, Undefined}
             /\ Ok(a.read[s][pos]) => a.read[s][pos] = c.read[s][pos]
             /\ (Ok(c.read[s][pos]) /\ Fits(c.read[s][pos].value)) =>
                   a.read[s][pos] = c.read[s][pos]
  <2> HIDE DEF a
  <2>1. c.read[s][pos] \in Outcome(Values(c), s)
    BY <1>1 DEF IsWalker
  <2>2. a.read[s][pos] = IF Ok(c.read[s][pos]) => Fits(c.read[s][pos].value)
                         THEN c.read[s][pos] ELSE Threw
    BY <1>2 DEF ReadConstrained
  <2> HIDE DEF Fits
  <2> QED BY <2>1, <2>2, OutcomeCases, OutcomesAreOutcomes
<1> HIDE DEF a, F, f
<1>6. IsWalker(a)
  <2>1. ASSUME NEW s \in Buffer, NEW pos \in 0 .. Len(s)
        PROVE  /\ a.read[s][pos] \in Outcome(Values(a), s)
               /\ Ok(a.read[s][pos]) => pos <= a.read[s][pos].pos
    <3>1. CASE Ok(a.read[s][pos])
      BY <1>1, <1>2, <1>5, <3>1 DEF IsWalker
    <3>2. CASE ~ Ok(a.read[s][pos])
      BY <1>5, <3>2, OutcomesAreOutcomes
    <3> QED BY <3>1, <3>2
  <2> QED BY <1>1, <1>2, <2>1 DEF IsWalker
<1>7. F.portable \subseteq Values(a) /\ F.portable \subseteq f.portable
  BY <1>1, <1>2, <1>3
<1>8. ASSUME NEW v \in F.portable PROVE ReadsBack(a, v)
  <2>1. ReadsBack(c, v) /\ Fits(v) /\ a.write[v] = c.write[v]
    BY <1>2, <1>3, <1>7 DEF Keeps, f
  <2> HIDE DEF Fits
  <2>2. ASSUME NEW s \in Buffer, NEW pos \in 0 .. Len(s), Holds(s, pos, c.write[v])
        PROVE  a.read[s][pos] = Done(v, pos + Len(c.write[v]))
    <3>1. c.read[s][pos] = Done(v, pos + Len(c.write[v]))
      BY <2>1, <2>2 DEF ReadsBack
    <3>2. Ok(c.read[s][pos]) /\ c.read[s][pos].value = v
      BY <3>1, DoneFields
    <3> QED BY <1>5, <2>1, <3>1, <3>2
  <2> QED BY <2>1, <2>2 DEF ReadsBack
<1>9. ReadsNothing(a, F.missing)
  <2>1. ASSUME NEW s \in Buffer, Ok(a.read[s][Len(s)])
        PROVE  a.read[s][Len(s)].value \in f.missing
    <3>1. a.read[s][Len(s)] = c.read[s][Len(s)]
      BY <1>5, <2>1, BufferIsSeq
    <3> QED BY <1>1, <2>1, <3>1 DEF ReadsNothing, f
  <2> QED BY <1>3, <2>1 DEF ReadsNothing
<1>10. ASSUME NEW v \in F.portable PROVE NoticesEnd(a, v, F.shortened)
  <2>1. NoticesEnd(c, v, f.shortened) /\ v \in Values(a) /\ a.write[v] = c.write[v]
    BY <1>2, <1>7 DEF Keeps, f
  <2>2. ASSUME NEW s \in Buffer, NEW pos \in 0 .. Len(s), EndsWithin(s, pos, c.write[v]),
               Ok(a.read[s][pos])
        PROVE  <<v, a.read[s][pos].value>> \in F.shortened /\ a.read[s][pos].pos = Len(s)
    <3>1. a.read[s][pos] = c.read[s][pos]
      BY <1>5, <2>2
    <3>2. /\ <<v, a.read[s][pos].value>> \in f.shortened /\ a.read[s][pos].pos = Len(s)
          /\ a.read[s][pos].value \in Values(a)
      BY <1>1, <1>2, <2>1, <2>2, <3>1, WalkerFields DEF NoticesEnd
    <3> QED BY <1>4, <2>1, <3>2
  <2> QED BY <2>1, <2>2 DEF NoticesEnd
<1>11. ASSUME F.exact PROVE ReadsWhatIsWritten(a)
  <2>1. ReadsWhatIsWritten(c)
    BY <1>3, <1>11 DEF Keeps, f
  <2> QED BY <1>2, <1>5, <2>1 DEF ReadsWhatIsWritten
<1>12. Keeps(a, F)
  BY <1>6, <1>7, <1>8, <1>9, <1>10, <1>11 DEF Keeps
<1> QED BY <1>12 DEF a, F

(***************************************************************************)
(* Objects                                                                 *)
(***************************************************************************)

(* The walker of an object without fields keeps the laws.                  *)
LEMMA EndKeeps ==
    ASSUME NEW d, d.kind = "end", NEW known
    PROVE  Keeps(EndWalker, FormatOf(d, Values(EndWalker), known))
<1> DEFINE a == EndWalker
    F == FormatOf(d, Values(a), known)
<1>1. /\ Values(a) = {<<>>} /\ a.write[<<>>] = <<>>
      /\ \A s \in Buffer : \A pos \in Nat : a.read[s][pos] = Done(<<>>, pos)
  BY DEF EndWalker, Values
<1>2. F.portable = Values(a) /\ F.missing = Values(a)
  <2>1. Portable(d, Values(a), known) = Values(a)
    BY DEF Portable
  <2>2. Missing(d, Values(a), known) = Values(a)
    BY DEF Missing
  <2> QED BY <2>1, <2>2, FormatFields, Zenon
<1> HIDE DEF a, F
<1>3. ASSUME NEW s \in Buffer, NEW pos \in 0 .. Len(s)
      PROVE  /\ a.read[s][pos] = Done(<<>>, pos) /\ a.read[s][pos] \in Outcome(Values(a), s)
             /\ a.read[s][pos].value = <<>> /\ a.read[s][pos].pos = pos
  <2> DEFINE e == <<>>
  <2>1. e \in Values(a)
    BY <1>1
  <2>2. a.read[s][pos] = Done(e, pos)
    BY <1>1
  <2> HIDE DEF e
  <2>3. Done(e, pos) \in Outcome(Values(a), s)
    BY <2>1, OutcomesAreOutcomes
  <2>4. Done(e, pos).value = e /\ Done(e, pos).pos = pos
    BY DoneFields
  <2> QED BY <2>2, <2>3, <2>4 DEF e
<1>4. <<>> \in Seq(Byte) /\ Len(<<>>) = 0
  BY EmptySeq
<1>5. IsWalker(a)
  <2>1. \A v \in Values(a) : a.write[v] \in Seq(Byte)
    BY <1>1, <1>4
  <2>2. ASSUME NEW s \in Buffer, NEW pos \in 0 .. Len(s)
        PROVE  a.read[s][pos] \in Outcome(Values(a), s) /\ pos <= a.read[s][pos].pos
    BY <1>3
  <2> QED BY <2>1, <2>2 DEF IsWalker
<1>6. ReadsBack(a, <<>>)
  <2>1. ASSUME NEW s \in Buffer, NEW pos \in 0 .. Len(s) PROVE pos + Len(<<>>) = pos
    BY <1>4
  <2> QED BY <1>1, <1>3, <2>1 DEF ReadsBack
<1>7. ReadsNothing(a, F.missing)
  <2>1. ASSUME NEW s \in Buffer PROVE a.read[s][Len(s)].value \in F.missing
    BY <1>1, <1>2, <1>3, BufferIsSeq
  <2> QED BY <2>1 DEF ReadsNothing
<1>8. NoticesEnd(a, <<>>, F.shortened)
  <2>1. ASSUME NEW s \in Buffer, NEW pos \in 0 .. Len(s) PROVE ~ EndsWithin(s, pos, <<>>)
    BY <1>4, BufferIsSeq DEF EndsWithin
  <2> QED BY <1>1, <2>1 DEF NoticesEnd
<1>9. ReadsWhatIsWritten(a)
  <2>1. ASSUME NEW s \in Buffer, NEW pos \in 0 .. Len(s) PROVE Begins(s, pos, pos, <<>>)
    <3>1. pos = pos + Len(<<>>) /\ 1 .. pos - pos = {}
      BY <1>4
    <3> QED BY <3>1 DEF Begins
  <2> QED BY <1>1, <1>3, <2>1 DEF ReadsWhatIsWritten
<1>10. Keeps(a, F)
  BY <1>1, <1>2, <1>5, <1>6, <1>7, <1>8, <1>9 DEF Keeps
<1> QED BY <1>10 DEF a, F

(* The walker of an empty type keeps the laws.                             *)
LEMMA EmptyKeeps ==
    ASSUME NEW d, d.kind = "empty", NEW known
    PROVE  Keeps(EmptyWalker, FormatOf(d, Values(EmptyWalker), known))
<1> DEFINE a == EmptyWalker
    F == FormatOf(d, Values(a), known)
<1>1. /\ Values(a) = {<<>>} /\ a.write[<<>>] = <<Junk>>
      /\ \A s \in Buffer : \A pos \in Nat : a.read[s][pos] = Done(<<>>, pos)
  BY DEF EmptyWalker, Values
<1>2. F.portable = {} /\ F.missing = Values(a) /\ ~ F.exact
  <2>1. Portable(d, Values(a), known) = {}
    BY DEF Portable
  <2>2. Missing(d, Values(a), known) = Values(a)
    BY DEF Missing
  <2>3. ~ Exact(d, known)
    BY DEF Exact
  <2> QED BY <2>1, <2>2, <2>3, FormatFields, Zenon
<1> HIDE DEF a, F
<1>3. ASSUME NEW s \in Buffer, NEW pos \in 0 .. Len(s)
      PROVE  /\ a.read[s][pos] = Done(<<>>, pos) /\ a.read[s][pos] \in Outcome(Values(a), s)
             /\ a.read[s][pos].value = <<>> /\ a.read[s][pos].pos = pos
  <2> DEFINE e == <<>>
  <2>1. e \in Values(a)
    BY <1>1
  <2>2. a.read[s][pos] = Done(e, pos)
    BY <1>1
  <2> HIDE DEF e
  <2>3. Done(e, pos) \in Outcome(Values(a), s)
    BY <2>1, OutcomesAreOutcomes
  <2>4. Done(e, pos).value = e /\ Done(e, pos).pos = pos
    BY DoneFields
  <2> QED BY <2>2, <2>3, <2>4 DEF e
<1>4. <<Junk>> \in Seq(Byte)
  BY WalkersAssumption
<1>5. IsWalker(a)
  <2>1. \A v \in Values(a) : a.write[v] \in Seq(Byte)
    BY <1>1, <1>4
  <2>2. ASSUME NEW s \in Buffer, NEW pos \in 0 .. Len(s)
        PROVE  a.read[s][pos] \in Outcome(Values(a), s) /\ pos <= a.read[s][pos].pos
    BY <1>3
  <2> QED BY <2>1, <2>2 DEF IsWalker
<1>6. ReadsNothing(a, F.missing)
  <2>1. ASSUME NEW s \in Buffer PROVE a.read[s][Len(s)].value \in F.missing
    BY <1>1, <1>2, <1>3, BufferIsSeq
  <2> QED BY <2>1 DEF ReadsNothing
<1>7. Keeps(a, F)
  BY <1>2, <1>5, <1>6 DEF Keeps
<1> QED BY <1>7 DEF a, F

(* The walker of an object keeps the laws if those of its first field and  *)
(* of the others do.                                                       *)
LEMMA ObjectKeeps ==
    ASSUME NEW d, d.kind = "object", NEW known, NEW c, Keeps(c, known[d.first]),
           NEW e, Keeps(e, known[d.rest])
    PROVE  Keeps(ObjectWalker(c, e), FormatOf(d, Values(ObjectWalker(c, e)), known))
<1> DEFINE a == ObjectWalker(c, e)
    f == known[d.first]
    g == known[d.rest]
    F == FormatOf(d, Values(a), known)
<1>1. /\ IsWalker(c) /\ f.portable \subseteq Values(c) /\ ReadsNothing(c, f.missing)
      /\ IsWalker(e) /\ g.portable \subseteq Values(e) /\ ReadsNothing(e, g.missing)
  BY DEF Keeps
<1>2. /\ Values(a) = Values(c) \X Values(e)
      /\ \A v \in Values(a) : a.write[v] = c.write[v[1]] \o e.write[v[2]]
      /\ \A s \in Buffer : \A pos \in Nat : a.read[s][pos] = ReadObject(c, e, s, pos)
  BY DEF ObjectWalker, Values
<1>3. /\ F.portable = f.portable \X g.portable
      /\ F.missing = f.missing \X g.missing
      /\ F.exact => f.exact /\ g.exact
  <2>1. Portable(d, Values(a), known) = f.portable \X g.portable
    BY DEF Portable
  <2>2. Missing(d, Values(a), known) = f.missing \X g.missing
    BY DEF Missing
  <2>3. Exact(d, known) => f.exact /\ g.exact
    BY DEF Exact
  <2>4. /\ F.portable = Portable(d, Values(a), known)
        /\ F.missing = Missing(d, Values(a), known)
        /\ F.exact = Exact(d, known)
    BY FormatFields, Zenon
  <2> HIDE DEF F, f, g, a
  <2>5. F.exact => f.exact /\ g.exact
    BY <2>3, <2>4, Zenon
  <2> QED BY <2>1, <2>2, <2>4, <2>5, Zenon
<1>4. ASSUME NEW v \in Values(a), NEW w \in Values(a), FieldsEndEarly(v, w, f, g)
      PROVE  <<v, w>> \in F.shortened
  <2>1. EndsIn(d, v, w, known)
    BY <1>4 DEF EndsIn
  <2> QED BY <2>1, Shortened
<1> HIDE DEF a, F, f, g
<1>5. ASSUME NEW v \in Values(a)
      PROVE  /\ v[1] \in Values(c) /\ v[2] \in Values(e) /\ v = <<v[1], v[2]>>
             /\ c.write[v[1]] \in Seq(Byte) /\ e.write[v[2]] \in Seq(Byte)
             /\ a.write[v] = c.write[v[1]] \o e.write[v[2]]
             /\ a.write[v] \in Seq(Byte)
  <2> DEFINE x == c.write[v[1]]
      y == e.write[v[2]]
  <2>1. v[1] \in Values(c) /\ v[2] \in Values(e) /\ v = <<v[1], v[2]>> /\ a.write[v] = x \o y
    <3>1. a.write[v] = x \o y
      BY <1>2
    <3>2. v \in Values(c) \X Values(e)
      BY <1>2
    <3>3. v[1] \in Values(c) /\ v[2] \in Values(e) /\ v = <<v[1], v[2]>>
      BY <3>2
    <3> QED BY <3>1, <3>3
  <2>2. x \in Seq(Byte) /\ y \in Seq(Byte)
    BY <1>1, <2>1 DEF IsWalker
  <2> HIDE DEF x, y
  <2>3. x \o y \in Seq(Byte)
    BY <2>2, ConcatProperties
  <2> QED BY <2>1, <2>2, <2>3 DEF x, y
<1>6. ASSUME NEW s \in Buffer, NEW pos \in 0 .. Len(s)
      PROVE  /\ s \in Seq(Byte) /\ Len(s) \in Nat
             /\ c.read[s][pos] \in Outcome(Values(c), s)
             /\ a.read[s][pos] = ReadObject(c, e, s, pos)
  BY <1>1, <1>2, BufferIsSeq DEF IsWalker
<1>7. ASSUME NEW s \in Buffer, NEW pos \in 0 .. Len(s),
             Ok(c.read[s][pos]), Ok(e.read[s][c.read[s][pos].pos])
      PROVE  a.read[s][pos] = Done(<<c.read[s][pos].value, e.read[s][c.read[s][pos].pos].value>>,
                                   e.read[s][c.read[s][pos].pos].pos)
  BY <1>6, <1>7 DEF ReadObject
<1>8. ASSUME NEW s \in Buffer, NEW pos \in 0 .. Len(s)
      PROVE  \/ a.read[s][pos] \in {Threw, Undefined} /\ ~ Ok(a.read[s][pos])
             \/ LET mid == c.read[s][pos].pos
                IN  /\ Ok(c.read[s][pos]) /\ mid \in pos .. Len(s) /\ mid \in 0 .. Len(s)
                    /\ Ok(e.read[s][mid]) /\ e.read[s][mid].pos \in mid .. Len(s)
                    /\ c.read[s][pos].value \in Values(c)
                    /\ e.read[s][mid].value \in Values(e)
                    /\ a.read[s][pos] =
                          Done(<<c.read[s][pos].value, e.read[s][mid].value>>, e.read[s][mid].pos)
                    /\ a.read[s][pos].value = <<c.read[s][pos].value, e.read[s][mid].value>>
                    /\ a.read[s][pos].pos = e.read[s][mid].pos
  <2> DEFINE first == c.read[s][pos]
      mid == first.pos
      rest == e.read[s][mid]
  <2>1. CASE ~ Ok(first)
    <3>1. a.read[s][pos] = first
      BY <1>6, <2>1 DEF ReadObject
    <3> HIDE DEF first
    <3>2. first \in {Threw, Undefined}
      BY <1>6, <2>1, OutcomeCases DEF first
    <3> QED BY <3>1, <3>2, OutcomesAreOutcomes
  <2>2. CASE Ok(first)
    <3>1. first.value \in Values(c) /\ mid \in pos .. Len(s)
      BY <1>1, <2>2, WalkerFields
    <3>2. mid \in 0 .. Len(s)
      BY <1>6, <3>1
    <3>3. rest \in Outcome(Values(e), s)
      BY <1>1, <3>2 DEF IsWalker
    <3>4. CASE ~ Ok(rest)
      <4>1. a.read[s][pos] = rest
        BY <1>6, <2>2, <3>4 DEF ReadObject
      <4> HIDE DEF rest
      <4>2. rest \in {Threw, Undefined}
        BY <3>3, <3>4, OutcomeCases
      <4> QED BY <4>1, <4>2, OutcomesAreOutcomes
    <3>5. CASE Ok(rest)
      <4>1. rest.value \in Values(e) /\ rest.pos \in mid .. Len(s)
        BY <1>1, <3>2, <3>5, WalkerFields
      <4>2. a.read[s][pos] = Done(<<first.value, rest.value>>, rest.pos)
        BY <1>7, <2>2, <3>5
      <4>3. /\ a.read[s][pos].value = <<first.value, rest.value>>
            /\ a.read[s][pos].pos = rest.pos
        <5> HIDE DEF first, rest
        <5> QED BY <4>2, DoneFields
      <4> QED BY <2>2, <3>1, <3>2, <3>5, <4>1, <4>2, <4>3
    <3> QED BY <3>4, <3>5
  <2> QED BY <2>1, <2>2
<1>9. IsWalker(a)
  <2>1. ASSUME NEW s \in Buffer, NEW pos \in 0 .. Len(s)
        PROVE  /\ a.read[s][pos] \in Outcome(Values(a), s)
               /\ Ok(a.read[s][pos]) => pos <= a.read[s][pos].pos
    <3> DEFINE mid == c.read[s][pos].pos
        v == <<c.read[s][pos].value, e.read[s][mid].value>>
        end == e.read[s][mid].pos
    <3>1. CASE a.read[s][pos] \in {Threw, Undefined} /\ ~ Ok(a.read[s][pos])
      BY <3>1, OutcomesAreOutcomes
    <3>2. CASE ~ (a.read[s][pos] \in {Threw, Undefined} /\ ~ Ok(a.read[s][pos]))
      <4>1. /\ a.read[s][pos] = Done(v, end) /\ mid \in pos .. Len(s) /\ end \in mid .. Len(s)
            /\ c.read[s][pos].value \in Values(c) /\ e.read[s][mid].value \in Values(e)
            /\ a.read[s][pos].pos = end
        BY <1>8, <3>2
      <4>2. v \in Values(a)
        BY <1>2, <4>1
      <4> HIDE DEF mid, v, end
      <4>3. end \in 0 .. Len(s) /\ pos <= end
        BY <1>6, <4>1
      <4> QED BY <4>1, <4>2, <4>3, OutcomesAreOutcomes
    <3> QED BY <3>1, <3>2
  <2> QED BY <1>5, <2>1 DEF IsWalker
<1>10. F.portable \subseteq Values(a)
  BY <1>1, <1>2, <1>3
<1>11. ASSUME NEW v \in F.portable
       PROVE  /\ v \in Values(a)
              /\ ReadsBack(c, v[1]) /\ NoticesEnd(c, v[1], f.shortened)
              /\ ReadsBack(e, v[2]) /\ NoticesEnd(e, v[2], g.shortened)
  <2>1. v \in Values(a) /\ v[1] \in f.portable /\ v[2] \in g.portable
    BY <1>3, <1>10
  <2> QED BY <2>1 DEF Keeps, f, g
<1>12. ASSUME NEW v \in F.portable PROVE ReadsBack(a, v)
  <2>1. ASSUME NEW s \in Buffer, NEW pos \in 0 .. Len(s), Holds(s, pos, a.write[v])
        PROVE  a.read[s][pos] = Done(v, pos + Len(a.write[v]))
    <3> DEFINE x == c.write[v[1]]
        y == e.write[v[2]]
        mid == pos + Len(x)
    <3>1. x \in Seq(Byte) /\ y \in Seq(Byte) /\ a.write[v] = x \o y /\ v = <<v[1], v[2]>>
      BY <1>5, <1>11
    <3> HIDE DEF x, y
    <3>2. Holds(s, pos, x) /\ Holds(s, mid, y)
      <4>1. Holds(s, pos, x \o y) /\ s \in Seq(Byte) /\ pos \in Nat
        BY <1>6, <2>1, <3>1
      <4> QED BY <3>1, <4>1, HoldsBoth
    <3>3. Len(x) \in Nat /\ Len(y) \in Nat /\ Len(x \o y) = Len(x) + Len(y)
      BY <3>1, ConcatProperties, SeqIsFunction
    <3>4. mid \in 0 .. Len(s)
      BY <1>6, <3>2, <3>3 DEF Holds
    <3>5. c.read[s][pos] = Done(v[1], mid)
      BY <1>11, <3>2 DEF ReadsBack, x
    <3> DEFINE end == mid + Len(y)
    <3> HIDE DEF mid
    <3>6. Ok(c.read[s][pos]) /\ c.read[s][pos].value = v[1] /\ c.read[s][pos].pos = mid
      BY <3>5, DoneFields
    <3>7. e.read[s][mid] = Done(v[2], end)
      BY <1>11, <3>2, <3>4 DEF ReadsBack, y
    <3>8. pos + Len(x \o y) = end
      BY <3>3 DEF mid
    <3> HIDE DEF end
    <3>9. Ok(e.read[s][mid]) /\ e.read[s][mid].value = v[2] /\ e.read[s][mid].pos = end
      BY <3>7, DoneFields
    <3>10. a.read[s][pos] = Done(<<v[1], v[2]>>, end)
      BY <1>7, <3>6, <3>9
    <3> QED BY <3>1, <3>8, <3>10
  <2> QED BY <2>1 DEF ReadsBack
<1>13. ReadsNothing(a, F.missing)
  <2>1. ASSUME NEW s \in Buffer, Ok(a.read[s][Len(s)])
        PROVE  a.read[s][Len(s)].value \in F.missing
    <3> DEFINE first == c.read[s][Len(s)]
        rest == e.read[s][first.pos]
    <3>1. Len(s) \in 0 .. Len(s) /\ Len(s) \in Nat
      BY BufferIsSeq
    <3>2. /\ Ok(first) /\ first.pos \in Len(s) .. Len(s) /\ Ok(rest)
          /\ a.read[s][Len(s)].value = <<first.value, rest.value>>
      BY <1>8, <2>1, <3>1
    <3>3. first.pos = Len(s)
      <4> HIDE DEF first
      <4> QED BY <3>1, <3>2
    <3>4. first.value \in f.missing /\ rest.value \in g.missing
      BY <1>1, <3>2, <3>3 DEF ReadsNothing
    <3> HIDE DEF first, rest
    <3> QED BY <1>3, <3>2, <3>4
  <2> QED BY <2>1 DEF ReadsNothing
<1>14. ASSUME NEW v \in F.portable PROVE NoticesEnd(a, v, F.shortened)
  <2>1. ASSUME NEW s \in Buffer, NEW pos \in 0 .. Len(s), EndsWithin(s, pos, a.write[v]),
               Ok(a.read[s][pos])
        PROVE  <<v, a.read[s][pos].value>> \in F.shortened /\ a.read[s][pos].pos = Len(s)
    <3> DEFINE x == c.write[v[1]]
        y == e.write[v[2]]
        first == c.read[s][pos]
        mid == first.pos
        rest == e.read[s][mid]
        u == a.read[s][pos].value
    <3>1. x \in Seq(Byte) /\ y \in Seq(Byte) /\ a.write[v] = x \o y
      BY <1>5, <1>11
    <3>2. /\ Ok(first) /\ mid \in 0 .. Len(s) /\ Ok(rest) /\ rest.pos \in mid .. Len(s)
          /\ first.value \in Values(c) /\ rest.value \in Values(e)
          /\ u = <<first.value, rest.value>> /\ a.read[s][pos].pos = rest.pos
      BY <1>8, <2>1
    <3>3. u \in Values(a) /\ u[1] = first.value /\ u[2] = rest.value
      <4> HIDE DEF u, first, rest
      <4>1. u \in Values(c) \X Values(e)
        BY <3>2
      <4> QED BY <1>2, <3>2, <4>1
    <3>4. \/ EndsWithin(s, pos, x)
          \/ Holds(s, pos, x) /\ EndsWithin(s, pos + Len(x), y)
      <4> HIDE DEF x, y
      <4>1. EndsWithin(s, pos, x \o y) /\ s \in Seq(Byte)
        BY <1>6, <2>1, <3>1
      <4> QED BY <3>1, <4>1, EndsWithinOne
    <3>5. CASE EndsWithin(s, pos, x)
      <4>1. <<v[1], first.value>> \in f.shortened /\ mid = Len(s)
        BY <1>11, <3>2, <3>5 DEF NoticesEnd
      <4>2. rest.value \in g.missing
        BY <1>1, <3>2, <4>1 DEF ReadsNothing
      <4> HIDE DEF first, rest, u
      <4>3. rest.pos = Len(s)
        BY <1>6, <3>2, <4>1
      <4>4. FieldsEndEarly(v, u, f, g)
        BY <3>3, <4>1, <4>2 DEF FieldsEndEarly
      <4> QED BY <1>4, <1>11, <3>2, <3>3, <4>3, <4>4 DEF u
    <3>6. CASE Holds(s, pos, x) /\ EndsWithin(s, pos + Len(x), y)
      <4>1. first = Done(v[1], pos + Len(x))
        BY <1>11, <3>6 DEF ReadsBack
      <4> HIDE DEF first
      <4>2. first.value = v[1] /\ mid = pos + Len(x)
        BY <4>1, DoneFields
      <4>3. EndsWithin(s, mid, y)
        BY <3>6, <4>2
      <4>4. <<v[2], rest.value>> \in g.shortened /\ rest.pos = Len(s)
        BY <1>11, <3>2, <4>3 DEF NoticesEnd
      <4> HIDE DEF rest, u
      <4>5. FieldsEndEarly(v, u, f, g)
        BY <3>3, <4>2, <4>4 DEF FieldsEndEarly
      <4> QED BY <1>4, <1>11, <3>2, <3>3, <4>4, <4>5 DEF u
    <3> QED BY <3>4, <3>5, <3>6
  <2> QED BY <2>1 DEF NoticesEnd
<1>15. ASSUME F.exact PROVE ReadsWhatIsWritten(a)
  <2>1. ReadsWhatIsWritten(c) /\ ReadsWhatIsWritten(e)
    BY <1>3, <1>15 DEF Keeps, f, g
  <2>2. ASSUME NEW s \in Buffer, NEW pos \in 0 .. Len(s), Ok(a.read[s][pos])
        PROVE  Begins(s, pos, a.read[s][pos].pos, a.write[a.read[s][pos].value])
    <3> DEFINE first == c.read[s][pos]
        mid == first.pos
        rest == e.read[s][mid]
        u == a.read[s][pos].value
        x == c.write[first.value]
        y == e.write[rest.value]
    <3>1. /\ Ok(first) /\ mid \in pos .. Len(s) /\ mid \in 0 .. Len(s)
          /\ Ok(rest) /\ rest.pos \in mid .. Len(s)
          /\ first.value \in Values(c) /\ rest.value \in Values(e)
          /\ u = <<first.value, rest.value>> /\ a.read[s][pos].pos = rest.pos
      BY <1>8, <2>2
    <3>2. u \in Values(a) /\ u[1] = first.value /\ u[2] = rest.value
      <4> HIDE DEF u, first, rest
      <4>1. u \in Values(c) \X Values(e)
        BY <3>1
      <4> QED BY <1>2, <3>1, <4>1
    <3>3. x \in Seq(Byte) /\ y \in Seq(Byte) /\ a.write[u] = x \o y
      BY <1>5, <3>2
    <3>4. Begins(s, pos, mid, x) /\ Begins(s, mid, rest.pos, y)
      BY <2>1, <3>1 DEF ReadsWhatIsWritten
    <3> HIDE DEF x, y, rest, first, u
    <3>5. /\ pos \in Nat /\ mid \in Nat /\ rest.pos \in Nat
          /\ pos <= mid /\ mid <= rest.pos /\ rest.pos <= Len(s) /\ s \in Seq(Byte)
      BY <1>6, <3>1
    <3>6. Begins(s, pos, rest.pos, x \o y)
      BY <3>3, <3>4, <3>5, BeginsBoth
    <3> QED BY <3>1, <3>3, <3>6 DEF u
  <2> QED BY <2>2 DEF ReadsWhatIsWritten
<1>16. Keeps(a, F)
  BY <1>9, <1>10, <1>12, <1>13, <1>14, <1>15 DEF Keeps
<1> QED BY <1>16 DEF a, F

(***************************************************************************)
(* Optionals                                                               *)
(***************************************************************************)

LEMMA OneByte ==
    ASSUME NEW b \in Byte
    PROVE  /\ <<b>> \in Seq(Byte) /\ Len(<<b>>) = 1 /\ <<b>>[1] = b
           /\ \A t \in [1 .. 1 -> Byte] : t[1] = b <=> t = <<b>>
<1>1. <<b>> \in Seq(Byte) /\ Len(<<b>>) = 1 /\ <<b>>[1] = b
  OBVIOUS
<1>2. ASSUME NEW t \in [1 .. 1 -> Byte], t[1] = b PROVE t = <<b>>
  <2>1. t \in Seq(Byte) /\ Len(t) = 1
    BY FunctionIsSeq
  <2>2. \A i \in 1 .. Len(t) : t[i] = <<b>>[i]
    BY <1>2, <2>1
  <2> QED BY <1>1, <2>1, <2>2, SeqEqual
<1> QED BY <1>1, <1>2

LEMMA BitsAreBytes == 0 \in Byte /\ 1 \in Byte /\ 1 \in Words \ {0}
BY WalkersAssumption, WordAssumption DEF Byte, Words

LEMMA ReadOptionalResult ==
    ASSUME NEW c, NEW s \in Buffer, NEW pos \in 0 .. Len(s)
    PROVE  /\ pos = Len(s) => ReadOptional(c, s, pos) \in {Undefined, Threw, Done(<<>>, pos)}
           /\ pos < Len(s) =>
                /\ s[pos + 1] = 0 => ReadOptional(c, s, pos) = Done(<<>>, pos + 1)
                /\ s[pos + 1] = 1 =>
                      ReadOptional(c, s, pos) = ReadElements(c, 1, s, pos + 1)
                /\ s[pos + 1] \notin {0, 1} => ReadOptional(c, s, pos) = Undefined
<1> DEFINE has == ReadNum(1, s, pos)
<1>1. s \in Seq(Byte) /\ Len(s) \in Nat /\ Len(s) < WordSize
  BY BufferIsSeq
<1>2. CASE pos = Len(s)
  <2>1. has \in {Threw, Undefined}
    <3>1. ~ (pos + 1 <= Len(s))
      BY <1>1, <1>2
    <3> QED BY <3>1, BitsAreBytes, ReadNumResult
  <2> HIDE DEF has
  <2>2. ~ Ok(has)
    BY <2>1, OutcomesAreOutcomes
  <2>3. ReadOptional(c, s, pos) \in {Undefined, Threw, Done(<<>>, pos)}
    BY <2>1, <2>2 DEF ReadOptional, has
  <2> QED BY <1>2, <2>3
<1>3. CASE pos < Len(s)
  <2> DEFINE t == SubSeq(s, pos + 1, pos + 1)
  <2>1. has = Done(t, pos + 1) /\ t \in [1 .. 1 -> Byte] /\ t[1] = s[pos + 1]
    <3>1. pos + 1 <= Len(s)
      BY <1>1, <1>3
    <3>2. has = Done(t, pos + 1) /\ t \in [1 .. 1 -> Byte] /\ \A i \in 1 .. 1 : t[i] = s[pos + i]
      BY <3>1, BitsAreBytes, ReadNumResult
    <3> HIDE DEF has, t
    <3> QED BY <3>2
  <2>2. CanReadNum(Len(s), pos, 1)
    BY <1>1, <1>3 DEF CanReadNum, Minus
  <2> HIDE DEF has, t
  <2>3. Ok(has) /\ has.value = t /\ has.pos = pos + 1
    BY <2>1, DoneFields
  <2>4. (t = <<0>> <=> s[pos + 1] = 0) /\ (t = <<1>> <=> s[pos + 1] = 1)
    BY <2>1, BitsAreBytes, OneByte
  <2>5. ReadOptional(c, s, pos) =
            IF t = <<0>> THEN Done(<<>>, pos + 1)
            ELSE IF t = <<1>> THEN ReadElements(c, 1, s, pos + 1)
            ELSE Undefined
    BY <2>2, <2>3 DEF ReadOptional, has
  <2>6. CASE s[pos + 1] = 0
    BY <1>1, <1>3, <2>4, <2>5, <2>6
  <2>7. CASE s[pos + 1] = 1
    <3>1. s[pos + 1] # 0
      BY <2>7
    <3> QED BY <1>1, <1>3, <2>4, <2>5, <2>7, <3>1
  <2>8. CASE s[pos + 1] \notin {0, 1}
    BY <1>1, <1>3, <2>4, <2>5, <2>8
  <2> QED BY <2>6, <2>7, <2>8
<1> QED BY <1>1, <1>2, <1>3

(* The walker of an optional keeps the laws if that of its value does.     *)
LEMMA OptionalKeeps ==
    ASSUME NEW d, d.kind = "optional", NEW known, NEW c, Keeps(c, known[d.of])
    PROVE  Keeps(OptionalWalker(c), FormatOf(d, Values(OptionalWalker(c)), known))
<1> DEFINE a == OptionalWalker(c)
    f == known[d.of]
    F == FormatOf(d, Values(a), known)
    e == <<>>
<1>1. IsWalker(c) /\ f.portable \subseteq Values(c)
  BY DEF Keeps
<1>2. /\ Values(a) = {v \in Seq(Values(c)) : Len(v) <= 1}
      /\ \A v \in Values(a) : a.write[v] = <<Len(v)>> \o WriteElements(c, v)
      /\ \A s \in Buffer : \A pos \in Nat : a.read[s][pos] = ReadOptional(c, s, pos)
  BY DEF OptionalWalker, Values
<1>3. /\ F.portable = {v \in Values(a) : Each(v, f.portable)}
      /\ F.missing = {e}
      /\ F.exact = f.exact
  <2>1. Portable(d, Values(a), known) = {v \in Values(a) : Each(v, f.portable)}
    BY DEF Portable
  <2>2. Missing(d, Values(a), known) = {e}
    BY DEF Missing
  <2>3. Exact(d, known) = f.exact
    BY DEF Exact
  <2> QED BY <2>1, <2>2, <2>3, FormatFields, Zenon
<1>4. ASSUME NEW v \in Values(a), NEW w \in Values(a), EndsEarly(v, w, f) \/ w \in F.missing
      PROVE  <<v, w>> \in F.shortened
  <2>1. EndsIn(d, v, w, known) \/ w \in Missing(d, Values(a), known)
    <3>1. F.missing = Missing(d, Values(a), known)
      BY FormatFields
    <3> HIDE DEF F
    <3> QED BY <1>4, <3>1 DEF EndsIn
  <2> QED BY <2>1, Shortened
<1>5. /\ e \in Seq(Values(c)) /\ e \in Seq(Byte) /\ Len(e) = 0
      /\ \A v \in Seq(Values(c)) : Len(v) = 0 => v = e
  BY EmptySeq
<1>6. WriteElements(c, e) = e
  BY <1>1, WriteNothing
<1>0. ASSUME NEW v \in Seq(Values(c)), Len(v) = 1 PROVE v \in Values(a)
  <2>1. Len(v) <= 1
    BY <1>0
  <2>2. v \in {u \in Seq(Values(c)) : Len(u) <= 1}
    BY <2>1
  <2> HIDE DEF a
  <2> QED BY <1>2, <2>2, Zenon
<1> HIDE DEF a, F, f, e
<1>7. ASSUME NEW v \in Values(a)
      PROVE  /\ v \in Seq(Values(c)) /\ Len(v) \in {0, 1} /\ DOMAIN v = 1 .. Len(v)
             /\ <<Len(v)>> \in Seq(Byte) /\ Len(<<Len(v)>>) = 1 /\ <<Len(v)>>[1] = Len(v)
             /\ WriteElements(c, v) \in Seq(Byte) /\ Len(WriteElements(c, v)) \in Nat
             /\ a.write[v] = <<Len(v)>> \o WriteElements(c, v)
             /\ a.write[v] \in Seq(Byte)
             /\ Len(a.write[v]) = 1 + Len(WriteElements(c, v))
             /\ Len(v) = 0 => v = e /\ WriteElements(c, v) = e
  <2> DEFINE n == Len(v)
      h == <<n>>
      w == WriteElements(c, v)
  <2>1. v \in Seq(Values(c)) /\ n <= 1 /\ a.write[v] = h \o w
    BY <1>2
  <2>2. n \in Nat /\ DOMAIN v = 1 .. n /\ w \in Seq(Byte)
    BY <1>1, <2>1, SeqIsFunction, WrittenIsBytes
  <2> HIDE DEF n, w
  <2>3. n \in {0, 1}
    BY <2>1, <2>2
  <2>4. h \in Seq(Byte) /\ Len(h) = 1 /\ h[1] = n
    BY <2>3, BitsAreBytes, OneByte
  <2> HIDE DEF h
  <2>5. h \o w \in Seq(Byte) /\ Len(h \o w) = 1 + Len(w) /\ Len(w) \in Nat
    BY <2>2, <2>4, ConcatProperties, SeqIsFunction
  <2>6. n = 0 => v = e /\ w = e
    BY <1>5, <1>6, <2>1 DEF n, w
  <2> QED BY <2>1, <2>2, <2>3, <2>4, <2>5, <2>6 DEF n, h, w
<1>8. ASSUME NEW v \in F.portable
      PROVE  /\ v \in Values(a) /\ v \in Seq(f.portable) /\ v \in Seq(Values(c))
             /\ \A i \in 1 .. Len(v) : ReadsBack(c, v[i])
  <2>1. v \in Values(a) /\ Each(v, f.portable)
    BY <1>3
  <2>2. \A i \in 1 .. Len(v) : v[i] \in f.portable
    BY <1>7, <2>1 DEF Each
  <2>3. v \in Seq(f.portable)
    <3>1. v \in [1 .. Len(v) -> f.portable] /\ Len(v) \in Nat
      BY <1>7, <2>1, <2>2, SeqIsFunction
    <3> QED BY <3>1, FunctionIsSeq
  <2> QED BY <1>7, <2>1, <2>2, <2>3 DEF Keeps, f
<1>9. ASSUME NEW s \in Buffer, NEW pos \in 0 .. Len(s)
      PROVE  /\ s \in Seq(Byte) /\ Len(s) \in Nat
             /\ pos = Len(s) => a.read[s][pos] \in {Undefined, Threw, Done(e, pos)}
             /\ pos < Len(s) =>
                  /\ pos + 1 \in 0 .. Len(s)
                  /\ s[pos + 1] = 0 => a.read[s][pos] = Done(e, pos + 1)
                  /\ s[pos + 1] = 1 => a.read[s][pos] = ReadElements(c, 1, s, pos + 1)
                  /\ s[pos + 1] \notin {0, 1} => a.read[s][pos] = Undefined
  <2>1. s \in Seq(Byte) /\ Len(s) \in Nat /\ a.read[s][pos] = ReadOptional(c, s, pos)
    BY <1>2, BufferIsSeq
  <2>2. pos < Len(s) => pos + 1 \in 0 .. Len(s)
    BY <2>1
  <2> QED BY <2>1, <2>2, ReadOptionalResult DEF e
(* An outcome is an exception, no value, or one of one element. *)
<1>10. ASSUME NEW s \in Buffer, NEW pos \in 0 .. Len(s)
       PROVE  \/ a.read[s][pos] \in {Threw, Undefined} /\ ~ Ok(a.read[s][pos])
              \/ pos = Len(s) /\ a.read[s][pos] = Done(e, pos)
              \/ pos < Len(s) /\ s[pos + 1] = 0 /\ a.read[s][pos] = Done(e, pos + 1)
              \/ /\ pos < Len(s) /\ s[pos + 1] = 1 /\ Ok(a.read[s][pos])
                 /\ a.read[s][pos] = ReadElements(c, 1, s, pos + 1)
                 /\ a.read[s][pos] = Done(a.read[s][pos].value, a.read[s][pos].pos)
                 /\ a.read[s][pos].value \in Values(a) /\ Len(a.read[s][pos].value) = 1
                 /\ a.read[s][pos].pos \in pos + 1 .. Len(s)
  <2> DEFINE r == ReadElements(c, 1, s, pos + 1)
  <2>1. CASE pos = Len(s)
    BY <1>9, <2>1, OutcomesAreOutcomes
  <2>2. CASE pos < Len(s)
    <3>1. /\ r \in Outcome(Seq(Values(c)), s)
          /\ Ok(r) => /\ r.value \in Seq(Values(c)) /\ Len(r.value) = 1
                      /\ r.pos \in pos + 1 .. Len(s)
      <4> DEFINE n == 1
      <4>1. pos + 1 \in 0 .. Len(s) /\ n \in Nat
        BY <1>9, <2>2
      <4>2. n = 1
        OBVIOUS
      <4> HIDE DEF n
      <4> QED BY <1>1, <4>1, <4>2, ReadElementsCounted
    <3> HIDE DEF r
    <3>2. CASE s[pos + 1] = 1
      <4>1. a.read[s][pos] = r
        BY <1>9, <2>2, <3>2 DEF r
      <4>2. CASE Ok(r)
        <5>1. r.value \in Values(a) /\ r = Done(r.value, r.pos)
          <6>1. r.value \in Seq(Values(c)) /\ Len(r.value) = 1
            BY <3>1, <4>2
          <6>2. r = Done(r.value, r.pos)
            BY <3>1, <4>2, OutcomeCases
          <6>3. r.value \in Values(a)
            BY <1>0, <6>1
          <6> QED BY <6>2, <6>3
        <5> QED BY <2>2, <3>1, <3>2, <4>1, <4>2, <5>1 DEF r
      <4>3. CASE ~ Ok(r)
        BY <3>1, <4>1, <4>3, OutcomeCases
      <4> QED BY <4>2, <4>3
    <3>3. CASE s[pos + 1] = 0
      BY <1>9, <2>2, <3>3
    <3>4. CASE s[pos + 1] \notin {0, 1}
      BY <1>9, <2>2, <3>4, OutcomesAreOutcomes
    <3> QED BY <3>2, <3>3, <3>4
  <2> QED BY <1>9, <2>1, <2>2
<1>11. e \in Values(a)
  BY <1>2, <1>5
<1>12. IsWalker(a)
  <2>1. ASSUME NEW s \in Buffer, NEW pos \in 0 .. Len(s)
        PROVE  /\ a.read[s][pos] \in Outcome(Values(a), s)
               /\ Ok(a.read[s][pos]) => pos <= a.read[s][pos].pos
    <3> DEFINE r == a.read[s][pos]
    <3>1. Len(s) \in Nat
      BY <1>9
    <3>2. CASE r \in {Threw, Undefined} /\ ~ Ok(r)
      BY <3>2, OutcomesAreOutcomes
    <3>3. CASE r = Done(e, pos)
      <4>1. r \in Outcome(Values(a), s)
        BY <1>11, <3>3, OutcomesAreOutcomes
      <4>2. r.pos = pos
        BY <3>3, DoneFields
      <4> QED BY <4>1, <4>2
    <3>4. CASE pos < Len(s) /\ r = Done(e, pos + 1)
      <4>1. pos + 1 \in 0 .. Len(s)
        BY <3>1, <3>4
      <4>2. r \in Outcome(Values(a), s)
        BY <1>11, <3>4, <4>1, OutcomesAreOutcomes
      <4>3. r.pos = pos + 1
        BY <3>4, DoneFields
      <4> QED BY <4>2, <4>3
    <3>5. CASE r = Done(r.value, r.pos) /\ r.value \in Values(a) /\ r.pos \in pos + 1 .. Len(s)
      <4> HIDE DEF r
      <4>1. r.pos \in 0 .. Len(s) /\ pos <= r.pos
        BY <3>1, <3>5
      <4>2. r \in Outcome(Values(a), s)
        BY <3>5, <4>1, OutcomesAreOutcomes
      <4> QED BY <4>1, <4>2 DEF r
    <3> QED BY <1>10, <3>2, <3>3, <3>4, <3>5
  <2> QED BY <1>7, <2>1 DEF IsWalker
<1>13. F.portable \subseteq Values(a)
  BY <1>3
(* The first byte that is there is that of the value written. *)
<1>14. ASSUME NEW v \in Values(a), NEW s \in Buffer, NEW pos \in 0 .. Len(s),
              Holds(s, pos, <<Len(v)>>)
       PROVE  /\ pos < Len(s) /\ pos + 1 \in 0 .. Len(s)
              /\ Len(v) = 0 => a.read[s][pos] = Done(e, pos + 1)
              /\ Len(v) = 1 => a.read[s][pos] = ReadElements(c, Len(v), s, pos + 1)
  <2>1. pos + 1 <= Len(s) /\ s[pos + 1] = Len(v)
    <3> DEFINE h == <<Len(v)>>
    <3>1. Len(h) = 1 /\ h[1] = Len(v)
      BY <1>7
    <3> HIDE DEF h
    <3>2. pos + 1 <= Len(s) /\ \A i \in 1 .. 1 : s[pos + i] = h[i]
      BY <1>14, <3>1 DEF Holds, h
    <3> QED BY <3>1, <3>2
  <2>2. pos < Len(s)
    BY <1>9, <2>1
  <2> QED BY <1>9, <2>1, <2>2
<1>15. ASSUME NEW v \in F.portable PROVE ReadsBack(a, v)
  <2>1. ASSUME NEW s \in Buffer, NEW pos \in 0 .. Len(s), Holds(s, pos, a.write[v])
        PROVE  a.read[s][pos] = Done(v, pos + Len(a.write[v]))
    <3> DEFINE h == <<Len(v)>>
        w == WriteElements(c, v)
    <3>1. /\ v \in Values(a) /\ h \in Seq(Byte) /\ Len(h) = 1
          /\ w \in Seq(Byte) /\ Len(w) \in Nat
          /\ a.write[v] = h \o w /\ Len(a.write[v]) = 1 + Len(w)
          /\ Len(v) \in {0, 1} /\ (Len(v) = 0 => v = e /\ w = e)
      BY <1>7, <1>8
    <3> HIDE DEF h, w
    <3>2. Holds(s, pos, h) /\ Holds(s, pos + 1, w)
      <4>1. Holds(s, pos, h \o w) /\ s \in Seq(Byte) /\ pos \in Nat
        BY <1>9, <2>1, <3>1
      <4>2. Holds(s, pos, h) /\ Holds(s, pos + Len(h), w)
        BY <3>1, <4>1, HoldsBoth
      <4> QED BY <3>1, <4>2
    <3>3. /\ pos + 1 \in 0 .. Len(s)
          /\ Len(v) = 0 => a.read[s][pos] = Done(e, pos + 1)
          /\ Len(v) = 1 => a.read[s][pos] = ReadElements(c, Len(v), s, pos + 1)
      BY <1>14, <3>1, <3>2 DEF h
    <3>4. CASE Len(v) = 0
      <4>1. pos + Len(a.write[v]) = pos + 1
        BY <1>5, <3>1, <3>4
      <4> QED BY <3>1, <3>3, <3>4, <4>1
    <3>5. CASE Len(v) = 1
      <4>1. ReadElements(c, Len(v), s, pos + 1) = Done(v, pos + 1 + Len(w))
        BY <1>1, <1>8, <3>2, <3>3, ElementsReadBack DEF w
      <4>2. pos + 1 + Len(w) = pos + Len(a.write[v])
        BY <3>1
      <4>3. a.read[s][pos] = ReadElements(c, Len(v), s, pos + 1)
        BY <3>3, <3>5
      <4> QED BY <4>1, <4>2, <4>3, Zenon
    <3> QED BY <3>1, <3>4, <3>5
  <2> QED BY <2>1 DEF ReadsBack
<1>16. ReadsNothing(a, F.missing)
  <2>1. ASSUME NEW s \in Buffer, Ok(a.read[s][Len(s)])
        PROVE  a.read[s][Len(s)].value \in F.missing
    <3>1. Len(s) \in 0 .. Len(s) /\ Len(s) \in Nat
      BY BufferIsSeq
    <3>2. a.read[s][Len(s)] = Done(e, Len(s))
      BY <1>10, <2>1, <3>1
    <3>3. a.read[s][Len(s)].value = e
      BY <3>2, DoneFields
    <3> QED BY <1>3, <3>3
  <2> QED BY <2>1 DEF ReadsNothing
<1>17. ASSUME NEW v \in F.portable PROVE NoticesEnd(a, v, F.shortened)
  <2>1. ASSUME NEW s \in Buffer, NEW pos \in 0 .. Len(s), EndsWithin(s, pos, a.write[v]),
               Ok(a.read[s][pos])
        PROVE  <<v, a.read[s][pos].value>> \in F.shortened /\ a.read[s][pos].pos = Len(s)
    <3> DEFINE h == <<Len(v)>>
        w == WriteElements(c, v)
    <3>1. /\ v \in Values(a) /\ h \in Seq(Byte) /\ Len(h) = 1 /\ w \in Seq(Byte)
          /\ a.write[v] = h \o w
          /\ Len(v) \in {0, 1} /\ (Len(v) = 0 => w = e)
      BY <1>7, <1>8
    <3> HIDE DEF h, w
    <3>2. \/ EndsWithin(s, pos, h)
          \/ Holds(s, pos, h) /\ EndsWithin(s, pos + 1, w)
      <4>1. EndsWithin(s, pos, h \o w) /\ s \in Seq(Byte)
        BY <1>9, <2>1, <3>1
      <4> QED BY <3>1, <4>1, EndsWithinOne
    <3>3. CASE EndsWithin(s, pos, h)
      <4>1. pos = Len(s)
        BY <1>9, <3>1, <3>3 DEF EndsWithin
      <4>2. a.read[s][pos] = Done(e, pos)
        BY <1>9, <1>10, <2>1, <4>1
      <4>3. a.read[s][pos].value = e /\ a.read[s][pos].pos = Len(s)
        BY <4>1, <4>2, DoneFields
      <4>4. <<v, e>> \in F.shortened
        BY <1>3, <1>4, <1>11, <3>1
      <4> QED BY <4>3, <4>4
    <3>4. CASE Holds(s, pos, h) /\ EndsWithin(s, pos + 1, w)
      <4>1. /\ pos + 1 \in 0 .. Len(s)
            /\ Len(v) = 1 => a.read[s][pos] = ReadElements(c, Len(v), s, pos + 1)
        BY <1>14, <3>1, <3>4 DEF h
      <4>2. Len(v) = 1
        <5>1. w # e
          BY <1>5, <1>9, <3>4, <4>1 DEF EndsWithin
        <5> QED BY <3>1, <5>1
      <4>3. /\ EndsEarly(v, a.read[s][pos].value, f) /\ a.read[s][pos].pos = Len(s)
        BY <1>8, <2>1, <3>4, <4>1, <4>2, ElementsNoticeEnd DEF f, w
      <4>4. a.read[s][pos].value \in Values(a)
        <5> DEFINE n == Len(v)
            u == a.read[s][pos].value
        <5>1. n \in Nat /\ n = 1 /\ a.read[s][pos] = ReadElements(c, n, s, pos + 1)
          BY <4>1, <4>2
        <5> HIDE DEF n
        <5>2. u \in Seq(Values(c)) /\ Len(u) = n
          <6> DEFINE r == ReadElements(c, n, s, pos + 1)
          <6>1. Ok(r) => r.value \in Seq(Values(c)) /\ Len(r.value) = n
            BY <1>1, <4>1, <5>1, ReadElementsCounted
          <6>2. a.read[s][pos] = r
            BY <5>1
          <6> HIDE DEF r
          <6> QED BY <2>1, <6>1, <6>2
        <5> HIDE DEF u
        <5>3. u \in Values(a)
          BY <1>0, <5>1, <5>2
        <5> QED BY <5>3 DEF u
      <4> QED BY <1>4, <3>1, <4>3, <4>4
    <3> QED BY <3>2, <3>3, <3>4
  <2> QED BY <2>1 DEF NoticesEnd
<1>18. ASSUME F.exact PROVE ReadsWhatIsWritten(a)
  <2>1. ReadsWhatIsWritten(c)
    BY <1>3, <1>18 DEF Keeps, f
  <2>2. ASSUME NEW s \in Buffer, NEW pos \in 0 .. Len(s), Ok(a.read[s][pos])
        PROVE  Begins(s, pos, a.read[s][pos].pos, a.write[a.read[s][pos].value])
    <3> DEFINE r == a.read[s][pos]
        w == WriteElements(c, r.value)
    <3>1. Len(s) \in Nat /\ s \in Seq(Byte)
      BY <1>9
    <3>2. CASE pos = Len(s) /\ r = Done(e, pos)
      <4>1. r.value = e /\ r.pos = pos
        BY <3>2, DoneFields
      <4>2. Len(a.write[e]) \in Nat /\ pos - pos = 0 /\ 1 .. 0 = {}
        BY <1>7, <1>11
      <4>3. Begins(s, pos, pos, a.write[e])
        BY <3>1, <3>2, <4>2 DEF Begins
      <4> QED BY <4>1, <4>3
    <3>3. CASE pos < Len(s) /\ s[pos + 1] = 0 /\ r = Done(e, pos + 1)
      <4> DEFINE h == <<0>>
      <4>1. r.value = e /\ r.pos = pos + 1
        BY <3>3, DoneFields
      <4>2. h \in Seq(Byte) /\ Len(h) = 1 /\ h[1] = 0
        BY BitsAreBytes, OneByte
      <4>3. a.write[e] = h \o e
        BY <1>5, <1>7, <1>11
      <4> HIDE DEF h
      <4>4. a.write[e] = h
        BY <1>5, <4>2, <4>3, ConcatEmptySeq DEF e
      <4>5. \A i \in 1 .. 1 : s[pos + i] = h[i]
        BY <3>3, <4>2
      <4>6. Begins(s, pos, pos + 1, h)
        BY <4>2, <4>5 DEF Begins
      <4> QED BY <4>1, <4>4, <4>6
    <3>4. CASE /\ pos < Len(s) /\ s[pos + 1] = 1 /\ r = ReadElements(c, 1, s, pos + 1)
               /\ r.value \in Values(a) /\ Len(r.value) = 1
               /\ r.pos \in pos + 1 .. Len(s)
      <4> DEFINE h == <<1>>
      <4>1. h \in Seq(Byte) /\ Len(h) = 1 /\ h[1] = 1
        BY BitsAreBytes, OneByte
      <4>2. a.write[r.value] = h \o w /\ w \in Seq(Byte)
        <5> HIDE DEF r
        <5> QED BY <1>7, <3>4
      <4> HIDE DEF h
      <4>3. \A i \in 1 .. 1 : s[pos + i] = h[i]
        BY <3>4, <4>1
      <4>4. Begins(s, pos, pos + 1, h)
        BY <4>1, <4>3 DEF Begins
      <4>5. pos + 1 \in 0 .. Len(s)
        BY <3>1, <3>4
      <4>6. Ok(ReadElements(c, 1, s, pos + 1))
        BY <2>2, <3>4
      <4>7. Begins(s, pos + 1, r.pos, w)
        BY <1>1, <2>1, <3>4, <4>5, <4>6, ElementsReadAsWritten
      <4> HIDE DEF w, r
      <4>8. /\ pos \in Nat /\ pos + 1 \in Nat /\ r.pos \in Nat
            /\ pos <= pos + 1 /\ pos + 1 <= r.pos /\ r.pos <= Len(s)
        BY <3>1, <3>4
      <4>9. Begins(s, pos, r.pos, h \o w)
        BY <3>1, <4>1, <4>2, <4>4, <4>7, <4>8, BeginsBoth
      <4> QED BY <4>2, <4>9 DEF r
    <3> QED BY <1>10, <2>2, <3>2, <3>3, <3>4
  <2> QED BY <2>2 DEF ReadsWhatIsWritten
<1>19. Keeps(a, F)
  BY <1>12, <1>13, <1>15, <1>16, <1>17, <1>18 DEF Keeps
<1> QED BY <1>19 DEF a, F

(***************************************************************************)
(* Strings                                                                 *)
(***************************************************************************)

(* The first NUL ends a string; without one there is none. *)
FirstNul(s, pos, m) ==
    m \in pos + 1 .. Len(s) /\ s[m] = 0 /\ \A j \in pos + 1 .. m - 1 : s[j] # 0

LEMMA ReadStringResult ==
    ASSUME NEW s \in Buffer, NEW pos \in 0 .. Len(s)
    PROVE  /\ \A m : FirstNul(s, pos, m) =>
                  ReadString(s, pos) = Done(SubSeq(s, pos + 1, m - 1), m)
           /\ \/ \E m : FirstNul(s, pos, m)
              \/ /\ \A i \in pos + 1 .. Len(s) : s[i] # 0
                 /\ ReadString(s, pos) \in {Threw, Undefined}
<1> DEFINE nul == {i \in pos + 1 .. Len(s) : s[i] = 0}
    end == CHOOSE i \in nul : \A j \in nul : i <= j
<1>1. Len(s) \in Nat /\ pos \in Nat /\ nul \in SUBSET Nat
  BY BufferIsSeq
<1>2. ReadString(s, pos) = IF nul = {} THEN StringOpenAtEnd(s, pos)
                           ELSE Done(SubSeq(s, pos + 1, end - 1), end)
  BY DEF ReadString
<1>3. ASSUME NEW m, FirstNul(s, pos, m)
      PROVE  ReadString(s, pos) = Done(SubSeq(s, pos + 1, m - 1), m)
  <2>1. m \in nul
    BY <1>3 DEF FirstNul
  <2>2. ASSUME NEW j \in nul PROVE m <= j
    <3>1. ~ (j \in pos + 1 .. m - 1) /\ j \in pos + 1 .. Len(s) /\ m \in pos + 1 .. Len(s)
      BY <1>3, <2>2 DEF FirstNul
    <3> QED BY <1>1, <3>1
  <2> HIDE DEF nul
  <2>3. end \in nul /\ \A j \in nul : end <= j
    BY <2>1, <2>2
  <2>4. end = m
    <3> HIDE DEF end
    <3>1. end <= m /\ m <= end
      BY <2>1, <2>2, <2>3
    <3>2. end \in Nat /\ m \in Nat
      BY <1>1, <2>1, <2>3
    <3> QED BY <3>1, <3>2
  <2> QED BY <1>2, <2>1, <2>4
<1>4. CASE nul = {}
  <2>1. ReadString(s, pos) = StringOpenAtEnd(s, pos)
    BY <1>2, <1>4
  <2>2. ReadString(s, pos) \in {Threw, Undefined}
    BY <2>1 DEF StringOpenAtEnd
  <2> QED BY <1>3, <1>4, <2>2
<1>5. CASE nul # {}
  <2>1. PICK m \in nul : \A j \in nul : m <= j
    <3> HIDE DEF nul
    <3> QED BY <1>1, <1>5, LeastNumber
  <2>2. FirstNul(s, pos, m)
    <3>1. ASSUME NEW j \in pos + 1 .. m - 1 PROVE s[j] # 0
      <4>1. j \in pos + 1 .. Len(s) /\ ~ (m <= j)
        BY <1>1
      <4> QED BY <2>1, <4>1
    <3> QED BY <3>1 DEF FirstNul
  <2> QED BY <1>3, <2>2
<1> QED BY <1>4, <1>5

(* The characters before a NUL. *)
LEMMA Characters ==
    ASSUME NEW s \in Buffer, NEW pos \in 0 .. Len(s), NEW m, FirstNul(s, pos, m)
    PROVE  /\ SubSeq(s, pos + 1, m - 1) \in Seq(Byte)
           /\ Len(SubSeq(s, pos + 1, m - 1)) = m - 1 - pos
           /\ \A i \in 1 .. m - 1 - pos : SubSeq(s, pos + 1, m - 1)[i] = s[pos + i]
           /\ m \in pos + 1 .. Len(s) /\ m \in 0 .. Len(s)
<1>1. s \in Seq(Byte) /\ Len(s) \in Nat /\ pos \in Nat /\ m \in pos + 1 .. Len(s)
  BY BufferIsSeq DEF FirstNul
<1> DEFINE n == m - 1 - pos
<1>2. n \in Nat /\ m - 1 = pos + n /\ pos + n <= Len(s) /\ m \in 0 .. Len(s)
  BY <1>1
<1> HIDE DEF n
<1>3. /\ SubSeq(s, pos + 1, pos + n) \in Seq(Byte)
      /\ Len(SubSeq(s, pos + 1, pos + n)) = n
      /\ \A i \in 1 .. n : SubSeq(s, pos + 1, pos + n)[i] = s[pos + i]
  BY <1>1, <1>2, Slice
<1> QED BY <1>1, <1>2, <1>3 DEF n

(* The walker of a std::string keeps the laws.                             *)
LEMMA StringKeeps ==
    ASSUME NEW d, d.kind = "string", NEW known
    PROVE  Keeps(StringWalker, FormatOf(d, Values(StringWalker), known))
<1> DEFINE a == StringWalker
    F == FormatOf(d, Values(a), known)
<1>1. /\ Values(a) = Seq(Byte)
      /\ \A v \in Values(a) : a.write[v] = Append(v, 0)
      /\ \A s \in Buffer : \A pos \in Nat : a.read[s][pos] = ReadString(s, pos)
  BY DEF StringWalker, Values
<1>2. /\ F.portable = {v \in Values(a) : Each(v, Byte \ {0})}
      /\ F.missing = {}
  <2>1. Portable(d, Values(a), known) = {v \in Values(a) : Each(v, Byte \ {0})}
    BY DEF Portable
  <2>2. Missing(d, Values(a), known) = {}
    BY DEF Missing
  <2> QED BY <2>1, <2>2, FormatFields, Zenon
<1> HIDE DEF a, F
<1>3. ASSUME NEW v \in Values(a)
      PROVE  /\ v \in Seq(Byte) /\ Len(v) \in Nat /\ DOMAIN v = 1 .. Len(v)
             /\ a.write[v] \in Seq(Byte) /\ Len(a.write[v]) = Len(v) + 1
             /\ \A i \in 1 .. Len(v) : a.write[v][i] = v[i]
             /\ a.write[v][Len(v) + 1] = 0
  <2>1. v \in Seq(Byte) /\ a.write[v] = Append(v, 0)
    BY <1>1
  <2> QED BY <2>1, BitsAreBytes, SeqIsFunction, AppendProperties
<1>4. ASSUME NEW v \in F.portable
      PROVE  v \in Values(a) /\ \A i \in 1 .. Len(v) : v[i] # 0
  BY <1>2, <1>3 DEF Each
<1>5. ASSUME NEW s \in Buffer, NEW pos \in 0 .. Len(s)
      PROVE  s \in Seq(Byte) /\ Len(s) \in Nat /\ a.read[s][pos] = ReadString(s, pos)
  BY <1>1, BufferIsSeq
<1>6. ASSUME NEW s \in Buffer, NEW pos \in 0 .. Len(s), Ok(a.read[s][pos])
      PROVE  \E m : /\ FirstNul(s, pos, m)
                    /\ a.read[s][pos].value = SubSeq(s, pos + 1, m - 1)
                    /\ a.read[s][pos].pos = m
  <2>1. PICK m : FirstNul(s, pos, m)
    BY <1>5, <1>6, ReadStringResult, OutcomesAreOutcomes
  <2>2. a.read[s][pos] = Done(SubSeq(s, pos + 1, m - 1), m)
    BY <1>5, <2>1, ReadStringResult
  <2>3. a.read[s][pos].value = SubSeq(s, pos + 1, m - 1) /\ a.read[s][pos].pos = m
    <3> DEFINE t == SubSeq(s, pos + 1, m - 1)
    <3> HIDE DEF t
    <3>1. Done(t, m).value = t /\ Done(t, m).pos = m
      BY DoneFields
    <3> QED BY <2>2, <3>1 DEF t
  <2> QED BY <2>1, <2>3, Zenon
<1>7. IsWalker(a)
  <2>1. ASSUME NEW s \in Buffer, NEW pos \in 0 .. Len(s)
        PROVE  a.read[s][pos] \in Outcome(Values(a), s)
    <3>1. CASE \E m : FirstNul(s, pos, m)
      <4>1. PICK m : FirstNul(s, pos, m)
        BY <3>1
      <4> DEFINE t == SubSeq(s, pos + 1, m - 1)
      <4>2. a.read[s][pos] = Done(t, m) /\ t \in Seq(Byte) /\ m \in 0 .. Len(s)
        BY <1>5, <4>1, ReadStringResult, Characters
      <4> HIDE DEF t
      <4> QED BY <1>1, <4>2, OutcomesAreOutcomes
    <3>2. CASE ~ \E m : FirstNul(s, pos, m)
      BY <1>5, <3>2, ReadStringResult, OutcomesAreOutcomes
    <3> QED BY <3>1, <3>2
  <2>2. ASSUME NEW s \in Buffer, NEW pos \in 0 .. Len(s), Ok(a.read[s][pos])
        PROVE  pos <= a.read[s][pos].pos
    <3>1. PICK m : FirstNul(s, pos, m) /\ a.read[s][pos].pos = m
      BY <1>6, <2>2
    <3>2. m \in pos + 1 .. Len(s)
      BY <3>1, Characters
    <3> QED BY <1>5, <3>1, <3>2
  <2> QED BY <1>3, <2>1, <2>2 DEF IsWalker
<1>8. F.portable \subseteq Values(a)
  BY <1>2
<1>9. ASSUME NEW v \in F.portable PROVE ReadsBack(a, v)
  <2>1. ASSUME NEW s \in Buffer, NEW pos \in 0 .. Len(s), Holds(s, pos, a.write[v])
        PROVE  a.read[s][pos] = Done(v, pos + Len(a.write[v]))
    <3> DEFINE n == Len(v)
        w == a.write[v]
        m == pos + n + 1
        t == SubSeq(s, pos + 1, m - 1)
    <3>1. /\ v \in Seq(Byte) /\ n \in Nat /\ Len(w) = n + 1 /\ w[n + 1] = 0
          /\ \A i \in 1 .. n : w[i] = v[i] /\ v[i] # 0
          /\ Len(s) \in Nat
      BY <1>3, <1>4, <1>5
    <3>2. pos + Len(w) <= Len(s) /\ \A i \in 1 .. Len(w) : s[pos + i] = w[i]
      BY <2>1 DEF Holds
    <3> HIDE DEF n, w
    <3>3. m \in pos + 1 .. Len(s) /\ pos + Len(w) = m
      BY <3>1, <3>2
    <3>4. s[m] = 0
      <4>1. n + 1 \in 1 .. Len(w) /\ pos + (n + 1) = m
        BY <3>1
      <4> QED BY <3>1, <3>2, <4>1
    <3>5. ASSUME NEW i \in 1 .. n PROVE s[pos + i] = v[i] /\ s[pos + i] # 0
      <4>1. i \in 1 .. Len(w)
        BY <3>1
      <4> QED BY <3>1, <3>2, <4>1
    <3>6. ASSUME NEW j \in pos + 1 .. m - 1 PROVE s[j] # 0
      <4>1. j - pos \in 1 .. n /\ pos + (j - pos) = j
        BY <3>1
      <4> QED BY <3>5, <4>1
    <3>7. m - 1 - pos = n
      BY <3>1
    <3> HIDE DEF m
    <3>8. FirstNul(s, pos, m)
      BY <3>3, <3>4, <3>6 DEF FirstNul
    <3>9. t \in Seq(Byte) /\ Len(t) = n /\ \A i \in 1 .. n : t[i] = s[pos + i]
      BY <3>7, <3>8, Characters
    <3>10. a.read[s][pos] = Done(t, m)
      BY <1>5, <3>8, ReadStringResult
    <3> HIDE DEF t
    <3>11. t = v
      BY <3>1, <3>5, <3>9, SeqEqual DEF n
    <3> QED BY <3>3, <3>10, <3>11 DEF w
  <2> QED BY <2>1 DEF ReadsBack
<1>10. ReadsNothing(a, F.missing)
  <2>1. ASSUME NEW s \in Buffer PROVE ~ Ok(a.read[s][Len(s)])
    <3>1. Len(s) \in 0 .. Len(s) /\ Len(s) \in Nat
      BY BufferIsSeq
    <3>2. \A m : ~ FirstNul(s, Len(s), m)
      BY <3>1 DEF FirstNul
    <3> QED BY <1>6, <3>1, <3>2
  <2> QED BY <2>1 DEF ReadsNothing
<1>11. ASSUME NEW v \in F.portable PROVE NoticesEnd(a, v, F.shortened)
  <2>1. ASSUME NEW s \in Buffer, NEW pos \in 0 .. Len(s), EndsWithin(s, pos, a.write[v])
        PROVE  ~ Ok(a.read[s][pos])
    <3> DEFINE n == Len(v)
        w == a.write[v]
    <3>1. /\ n \in Nat /\ Len(w) = n + 1 /\ Len(s) \in Nat
          /\ \A i \in 1 .. n : w[i] = v[i] /\ v[i] # 0
      BY <1>3, <1>4, <1>5
    <3>2. Len(s) < pos + Len(w) /\ \A i \in 1 .. Len(s) - pos : s[pos + i] = w[i]
      BY <2>1 DEF EndsWithin
    <3> HIDE DEF n, w
    <3>3. ASSUME NEW m, FirstNul(s, pos, m) PROVE FALSE
      <4>1. m \in pos + 1 .. Len(s) /\ s[m] = 0
        BY <3>3 DEF FirstNul
      <4>2. m - pos \in 1 .. Len(s) - pos /\ m - pos \in 1 .. n /\ pos + (m - pos) = m
        BY <3>1, <3>2, <4>1
      <4> QED BY <3>1, <3>2, <4>1, <4>2
    <3> QED BY <1>6, <3>3
  <2> QED BY <2>1 DEF NoticesEnd
<1>12. ReadsWhatIsWritten(a)
  <2>1. ASSUME NEW s \in Buffer, NEW pos \in 0 .. Len(s), Ok(a.read[s][pos])
        PROVE  Begins(s, pos, a.read[s][pos].pos, a.write[a.read[s][pos].value])
    <3>1. PICK m : /\ FirstNul(s, pos, m)
                   /\ a.read[s][pos].value = SubSeq(s, pos + 1, m - 1)
                   /\ a.read[s][pos].pos = m
      BY <1>6, <2>1
    <3> DEFINE t == SubSeq(s, pos + 1, m - 1)
        w == a.write[t]
        n == m - 1 - pos
    <3>2. /\ t \in Seq(Byte) /\ Len(t) = n /\ m \in pos + 1 .. Len(s)
          /\ \A i \in 1 .. n : t[i] = s[pos + i]
      BY <3>1, Characters
    <3> HIDE DEF t
    <3>3. Len(w) = n + 1 /\ w[n + 1] = 0 /\ \A i \in 1 .. n : w[i] = t[i]
      <4>1. t \in Values(a)
        BY <1>1, <3>2
      <4> HIDE DEF n
      <4> QED BY <1>3, <3>2, <4>1
    <3>4. s[m] = 0 /\ Len(s) \in Nat
      BY <1>5, <3>1 DEF FirstNul
    <3>5. m = pos + Len(w) /\ pos + (n + 1) = m
      BY <3>2, <3>3, <3>4
    <3>6. ASSUME NEW i \in 1 .. m - pos PROVE s[pos + i] = w[i]
      <4>1. i \in 1 .. n \/ i = n + 1
        BY <3>2, <3>4
      <4> HIDE DEF n, w
      <4> QED BY <3>2, <3>3, <3>4, <3>5, <4>1
    <3> HIDE DEF w
    <3>7. Begins(s, pos, m, w)
      BY <3>5, <3>6 DEF Begins
    <3> QED BY <3>1, <3>7 DEF t, w
  <2> QED BY <2>1 DEF ReadsWhatIsWritten
<1>13. Keeps(a, F)
  BY <1>7, <1>8, <1>9, <1>10, <1>11, <1>12 DEF Keeps
<1> QED BY <1>13 DEF a, F

(* An sp_string is written as an sp container of its characters, and a NUL. *)
Chars(v) == [i \in 1 .. Len(v) |-> <<v[i]>>]

LEMMA CharsProperties ==
    ASSUME NEW v \in Seq(Byte)
    PROVE  /\ Chars(v) \in Seq([1 .. 1 -> Byte]) /\ Len(Chars(v)) = Len(v)
           /\ [i \in 1 .. Len(Chars(v)) |-> Chars(v)[i][1]] = v
<1>1. Len(v) \in Nat /\ v \in [1 .. Len(v) -> Byte]
  BY SeqIsFunction
<1>2. ASSUME NEW b \in Byte PROVE <<b>> \in [1 .. 1 -> Byte] /\ <<b>>[1] = b
  OBVIOUS
<1>3. Chars(v) \in [1 .. Len(v) -> [1 .. 1 -> Byte]]
  BY <1>1, <1>2 DEF Chars
<1>4. Chars(v) \in Seq([1 .. 1 -> Byte]) /\ Len(Chars(v)) = Len(v)
  BY <1>1, <1>3, FunctionIsSeq
<1>5. \A i \in 1 .. Len(v) : Chars(v)[i][1] = v[i]
  BY <1>1, <1>2 DEF Chars
<1>6. [i \in 1 .. Len(v) |-> Chars(v)[i][1]] = v
  BY <1>1, <1>5
<1> QED BY <1>4, <1>6

LEMMA CharsWritten ==
    ASSUME NEW v \in Seq(Byte), IsWalker(NumWalker(1))
    PROVE  WriteElements(NumWalker(1), Chars(v)) = v
<1> DEFINE c == NumWalker(1)
    x == Chars(v)
    n == Len(v)
    W == ElementsWritten(c, x)
    T == {j \in 0 .. n : W[j] \in Seq(Byte) /\ Len(W[j]) = j /\ \A i \in 1 .. j : W[j][i] = v[i]}
<1>1. /\ Values(c) = [1 .. 1 -> Byte]
      /\ \A b \in Values(c) : c.write[b] = b
  BY DEF NumWalker, Values
<1>2. /\ x \in Seq(Values(c)) /\ Len(x) = n /\ n \in Nat
      /\ \A i \in 1 .. n : x[i] = <<v[i]>> /\ v[i] \in Byte
  BY <1>1, CharsProperties, SeqIsFunction DEF Chars
<1> HIDE DEF c, x
<1>3. /\ W \in [0 .. n -> Seq(Byte)] /\ W[0] = <<>>
      /\ \A j \in 1 .. n : /\ x[j] \in Values(c)
                           /\ W[j] = W[j - 1] \o c.write[x[j]]
  <2>1. /\ W \in [0 .. Len(x) -> Seq(Byte)] /\ W[0] = <<>>
        /\ \A j \in 1 .. Len(x) : x[j] \in Values(c) /\ W[j] = W[j - 1] \o c.write[x[j]]
    BY <1>2, ElementsWrittenEquation DEF c
  <2> HIDE DEF W
  <2> QED BY <1>2, <2>1
<1> HIDE DEF W
<1>4. 0 \in T
  <2>1. W[0] \in Seq(Byte) /\ Len(W[0]) = 0
    BY <1>3, EmptySeq
  <2> QED BY <1>2, <2>1
<1>5. ASSUME NEW j \in 1 .. n, j - 1 \in T PROVE j \in T
  <2> DEFINE w == <<v[j]>>
  <2>1. W[j] = W[j - 1] \o w
    <3>1. x[j] = w /\ c.write[x[j]] = x[j]
      BY <1>1, <1>2, <1>3 DEF c
    <3> HIDE DEF w
    <3> QED BY <1>3, <3>1
  <2>2. w \in Seq(Byte) /\ Len(w) = 1 /\ w[1] = v[j]
    BY <1>2, OneByte
  <2>3. /\ W[j - 1] \in Seq(Byte) /\ Len(W[j - 1]) = j - 1
        /\ \A i \in 1 .. j - 1 : W[j - 1][i] = v[i]
    BY <1>5
  <2> HIDE DEF w
  <2>4. /\ W[j] \in Seq(Byte) /\ Len(W[j]) = j - 1 + 1
        /\ \A i \in 1 .. j - 1 + 1 : W[j][i] = IF i <= j - 1 THEN W[j - 1][i] ELSE w[i - (j - 1)]
    <3> DEFINE u == W[j - 1]
    <3> HIDE DEF u
    <3>1. /\ u \o w \in Seq(Byte) /\ Len(u \o w) = Len(u) + Len(w)
          /\ \A i \in 1 .. Len(u) + Len(w) : (u \o w)[i] = IF i <= Len(u) THEN u[i] ELSE w[i - Len(u)]
      BY <2>2, <2>3, ConcatProperties DEF u
    <3>2. Len(u) = j - 1 /\ W[j] = u \o w
      BY <2>1, <2>3 DEF u
    <3> QED BY <2>2, <3>1, <3>2 DEF u
  <2>5. ASSUME NEW i \in 1 .. j PROVE W[j][i] = v[i]
    <3>1. CASE i = j
      <4>1. i \in 1 .. j - 1 + 1 /\ ~ (i <= j - 1) /\ i - (j - 1) = 1
        BY <1>2, <3>1
      <4> QED BY <2>2, <2>4, <3>1, <4>1
    <3>2. CASE i # j
      <4>1. i \in 1 .. j - 1 + 1 /\ i <= j - 1 /\ i \in 1 .. j - 1
        BY <1>2, <3>2
      <4> QED BY <2>3, <2>4, <4>1
    <3> QED BY <3>1, <3>2
  <2>6. j \in 0 .. n /\ j - 1 + 1 = j
    BY <1>2
  <2> QED BY <2>4, <2>5, <2>6
<1>6. n \in T
  <2> HIDE DEF T
  <2>1. \A j \in 0 .. n : j \in T
    BY <1>2, <1>4, <1>5, CountingUp
  <2> QED BY <1>2, <2>1
<1>7. W[n] = v
  <2>1. W[n] \in Seq(Byte) /\ Len(W[n]) = n /\ \A i \in 1 .. n : W[n][i] = v[i]
    BY <1>6
  <2> HIDE DEF T
  <2> QED BY <2>1, SeqEqual
<1> QED BY <1>2, <1>7 DEF WriteElements, W, c, x

(* The walker of an sp_string keeps the laws.                              *)
LEMMA SpStringKeeps ==
    ASSUME NEW d, d.kind = "spstring", NEW known
    PROVE  Keeps(SpStringWalker, FormatOf(d, Values(SpStringWalker), known))
<1> DEFINE a == SpStringWalker
    F == FormatOf(d, Values(a), known)
    c == NumWalker(1)
    num == [kind |-> "num", width |-> 1]
    sp == [kind |-> "sp", of |-> 1]
    f == FormatOf(num, Values(c), <<>>)
    parts == [x \in {1} |-> f]
    b == SpWalker(c)
    G == FormatOf(sp, Values(b), parts)
<1>1. Keeps(c, f)
  <2>1. num.kind = "num" /\ num.width = 1
    OBVIOUS
  <2> HIDE DEF num
  <2> QED BY <2>1, BitsAreBytes, NumKeeps
<1>2. f.portable = Values(c)
  <2>1. Portable(num, Values(c), <<>>) = Values(c)
    BY DEF Portable
  <2> QED BY <2>1, FormatFields, Zenon
<1>3. sp.kind = "sp" /\ sp.of = 1 /\ parts[1] = f
  OBVIOUS
<1> HIDE DEF num, f, parts, sp
<1>4. Keeps(b, G)
  BY <1>1, <1>3, SpKeeps
<1>5. Values(c) = [1 .. 1 -> Byte]
  BY DEF NumWalker, Values
<1>6. /\ Values(b) = Seq(Values(c))
      /\ \A v \in Values(b) : b.write[v] = SizeBytes(Len(v)) \o WriteElements(c, v)
      /\ \A s \in Buffer : \A pos \in Nat : b.read[s][pos] = ReadSp(c, s, pos)
  BY DEF SpWalker, Values
<1>7. /\ \A v \in Values(b) : Len(v) <= SpLimit => v \in G.portable
      /\ G.missing = {}
  <2>1. Portable(sp, Values(b), parts)
            = {v \in Values(b) : Len(v) <= SpLimit /\ Each(v, Values(c))}
    BY <1>2, <1>3 DEF Portable
  <2>2. Missing(sp, Values(b), parts) = {}
    BY <1>3 DEF Missing
  <2>3. G.portable = Portable(sp, Values(b), parts) /\ G.missing = Missing(sp, Values(b), parts)
    BY FormatFields, Zenon
  <2>4. ASSUME NEW v \in Seq(Values(c)) PROVE Each(v, Values(c))
    BY SeqIsFunction DEF Each
  <2> HIDE DEF b, G, c
  <2>5. ASSUME NEW v \in Values(b), Len(v) <= SpLimit PROVE v \in G.portable
    BY <1>6, <2>1, <2>3, <2>4, <2>5
  <2> QED BY <2>2, <2>3, <2>5
<1>8. /\ Values(a) = Seq(Byte)
      /\ \A v \in Values(a) : a.write[v] = SizeBytes(Len(v)) \o Append(v, 0)
      /\ \A s \in Buffer : \A pos \in Nat : a.read[s][pos] = ReadSpString(s, pos)
  BY DEF SpStringWalker, Values
<1>9. /\ F.portable = {v \in Values(a) : Len(v) <= SpLimit}
      /\ F.missing = {} /\ ~ F.exact
  <2>1. Portable(d, Values(a), known) = {v \in Values(a) : Len(v) <= SpLimit}
    BY DEF Portable
  <2>2. Missing(d, Values(a), known) = {}
    BY DEF Missing
  <2>3. ~ Exact(d, known)
    BY DEF Exact
  <2> QED BY <2>1, <2>2, <2>3, FormatFields, Zenon
<1>10. IsWalker(c) /\ IsWalker(b)
  BY <1>1, <1>4 DEF Keeps
<1> HIDE DEF a, F, b, G
<1> DEFINE z == <<0>>
<1>11. z \in Seq(Byte) /\ Len(z) = 1 /\ z[1] = 0 /\ z \in [1 .. 1 -> Byte]
  BY BitsAreBytes, OneByte
<1> HIDE DEF z
<1>12. ASSUME NEW v \in Seq(Byte)
       PROVE  /\ v \in Values(a) /\ Chars(v) \in Values(b) /\ Len(Chars(v)) = Len(v)
              /\ b.write[Chars(v)] \in Seq(Byte)
              /\ a.write[v] = b.write[Chars(v)] \o z
              /\ a.write[v] \in Seq(Byte)
              /\ Len(a.write[v]) = Len(b.write[Chars(v)]) + 1
              /\ Len(b.write[Chars(v)]) \in Nat
  <2> DEFINE h == SizeBytes(Len(v))
      x == b.write[Chars(v)]
  <2>1. v \in Values(a) /\ Chars(v) \in Values(b) /\ Len(Chars(v)) = Len(v)
    BY <1>5, <1>6, <1>8, CharsProperties
  <2>2. x \in Seq(Byte)
    BY <1>10, <2>1 DEF IsWalker
  <2>3. x = h \o v
    BY <1>6, <1>10, <2>1, CharsWritten
  <2>4. h \in Seq(Byte)
    BY SeqIsFunction, SizeIsBytes
  <2>5. Append(v, 0) = v \o z
    BY BitsAreBytes, AppendIsConcat DEF z
  <2>6. a.write[v] = h \o (v \o z)
    BY <1>8, <2>1, <2>5
  <2> HIDE DEF h, x
  <2>7. a.write[v] = x \o z
    <3>1. (h \o v) \o z = h \o (v \o z)
      BY <1>11, <2>4, ConcatAssociative
    <3> QED BY <2>3, <2>6, <3>1
  <2>8. x \o z \in Seq(Byte) /\ Len(x \o z) = Len(x) + 1 /\ Len(x) \in Nat
    <3>1. x \o z \in Seq(Byte) /\ Len(x \o z) = Len(x) + Len(z)
      BY <1>11, <2>2, ConcatProperties
    <3>2. Len(x) \in Nat
      BY <2>2, SeqIsFunction
    <3> QED BY <1>11, <3>1, <3>2
  <2> QED BY <2>1, <2>2, <2>7, <2>8 DEF x
(* The outcome, by that of the container and that of the byte behind it. *)
<1>13. ASSUME NEW s \in Buffer, NEW pos \in 0 .. Len(s)
       PROVE  /\ s \in Seq(Byte) /\ Len(s) \in Nat
              /\ ~ Ok(b.read[s][pos]) => a.read[s][pos] = b.read[s][pos]
              /\ Ok(b.read[s][pos]) =>
                   LET chars == b.read[s][pos]
                       end == ReadNum(1, s, chars.pos)
                   IN  /\ chars.value \in Seq([1 .. 1 -> Byte]) /\ chars.pos \in pos .. Len(s)
                       /\ chars.pos \in 0 .. Len(s)
                       /\ chars.pos + 1 <= Len(s) =>
                            a.read[s][pos] =
                              Done([i \in 1 .. Len(chars.value) |-> chars.value[i][1]],
                                   chars.pos + 1)
                       /\ ~ (chars.pos + 1 <= Len(s)) =>
                            a.read[s][pos] \in {Threw, Undefined}
  <2> DEFINE chars == b.read[s][pos]
      end == ReadNum(1, s, chars.pos)
      v == [i \in 1 .. Len(chars.value) |-> chars.value[i][1]]
  <2>1. /\ s \in Seq(Byte) /\ Len(s) \in Nat
        /\ chars = ReadSp(c, s, pos)
        /\ a.read[s][pos] = ReadSpString(s, pos)
    BY <1>6, <1>8, BufferIsSeq
  <2>2. a.read[s][pos] = IF ~ Ok(chars) THEN chars
                         ELSE IF ~ Ok(end) THEN end
                         ELSE Done(v, end.pos)
    BY <2>1 DEF ReadSpString
  <2>3. CASE ~ Ok(chars)
    BY <2>1, <2>2, <2>3
  <2>4. CASE Ok(chars)
    <3>1. chars.value \in Seq([1 .. 1 -> Byte]) /\ chars.pos \in pos .. Len(s)
      BY <1>5, <1>6, <1>10, <2>4, WalkerFields
    <3>2. chars.pos \in 0 .. Len(s)
      BY <2>1, <3>1
    <3>3. CASE chars.pos + 1 <= Len(s)
      <4> DEFINE t == SubSeq(s, chars.pos + 1, chars.pos + 1)
      <4>1. end = Done(t, chars.pos + 1)
        BY <3>2, <3>3, BitsAreBytes, ReadNumResult
      <4> HIDE DEF end, t, v, chars
      <4>2. Ok(end) /\ end.pos = chars.pos + 1
        BY <4>1, DoneFields
      <4>3. a.read[s][pos] = Done(v, chars.pos + 1)
        BY <2>2, <2>4, <4>2
      <4> QED BY <2>1, <2>4, <3>1, <3>2, <3>3, <4>3 DEF v, chars
    <3>4. CASE ~ (chars.pos + 1 <= Len(s))
      <4>1. end \in {Threw, Undefined}
        BY <3>2, <3>4, BitsAreBytes, ReadNumResult
      <4> HIDE DEF end, v, chars
      <4>2. a.read[s][pos] = end
        BY <2>2, <2>4, <4>1, OutcomesAreOutcomes
      <4> QED BY <2>1, <2>4, <3>1, <3>2, <3>4, <4>1, <4>2 DEF chars
    <3> QED BY <3>3, <3>4
  <2> QED BY <2>3, <2>4
<1>14. IsWalker(a)
  <2>1. ASSUME NEW v \in Values(a) PROVE a.write[v] \in Seq(Byte)
    BY <1>8, <1>12
  <2>2. ASSUME NEW s \in Buffer, NEW pos \in 0 .. Len(s)
        PROVE  /\ a.read[s][pos] \in Outcome(Values(a), s)
               /\ Ok(a.read[s][pos]) => pos <= a.read[s][pos].pos
    <3> DEFINE chars == b.read[s][pos]
        v == [i \in 1 .. Len(chars.value) |-> chars.value[i][1]]
    <3>1. chars \in Outcome(Values(b), s)
      BY <1>10 DEF IsWalker
    <3>2. CASE ~ Ok(chars)
      <4>1. a.read[s][pos] = chars
        BY <1>13, <3>2
      <4> HIDE DEF chars
      <4>2. chars \in {Threw, Undefined}
        BY <3>1, <3>2, OutcomeCases
      <4> QED BY <3>2, <4>1, <4>2, OutcomesAreOutcomes
    <3>3. CASE Ok(chars) /\ ~ (chars.pos + 1 <= Len(s))
      <4>1. a.read[s][pos] \in {Threw, Undefined}
        BY <1>13, <3>3
      <4> QED BY <4>1, OutcomesAreOutcomes
    <3>4. CASE Ok(chars) /\ chars.pos + 1 <= Len(s)
      <4>1. /\ a.read[s][pos] = Done(v, chars.pos + 1)
            /\ chars.value \in Seq([1 .. 1 -> Byte]) /\ chars.pos \in pos .. Len(s)
            /\ Len(s) \in Nat
        BY <1>13, <3>4
      <4>2. v \in Seq(Byte)
        <5> DEFINE x == chars.value
        <5>1. Len(x) \in Nat /\ \A i \in 1 .. Len(x) : x[i] \in [1 .. 1 -> Byte]
          BY <4>1, SeqIsFunction
        <5> HIDE DEF x
        <5>2. [i \in 1 .. Len(x) |-> x[i][1]] \in [1 .. Len(x) -> Byte]
          BY <5>1
        <5>3. [i \in 1 .. Len(x) |-> x[i][1]] \in Seq(Byte)
          BY <5>1, <5>2, FunctionIsSeq
        <5> QED BY <5>3 DEF x
      <4> HIDE DEF v, chars
      <4>3. chars.pos + 1 \in 0 .. Len(s) /\ pos <= chars.pos + 1
        BY <3>4, <4>1
      <4>4. a.read[s][pos].pos = chars.pos + 1
        BY <4>1, DoneFields
      <4>5. a.read[s][pos] \in Outcome(Values(a), s)
        BY <1>8, <4>1, <4>2, <4>3, OutcomesAreOutcomes
      <4> QED BY <4>3, <4>4, <4>5
    <3> QED BY <3>2, <3>3, <3>4
  <2> QED BY <2>1, <2>2 DEF IsWalker
<1>15. ASSUME NEW v \in F.portable
       PROVE  /\ v \in Seq(Byte) /\ v \in Values(a)
              /\ ReadsBack(b, Chars(v)) /\ NoticesEnd(b, Chars(v), G.shortened)
  <2>1. v \in Seq(Byte) /\ v \in Values(a) /\ Len(v) <= SpLimit
    BY <1>8, <1>9
  <2>2. Chars(v) \in G.portable
    BY <1>7, <1>12, <2>1
  <2> QED BY <1>4, <2>1, <2>2 DEF Keeps
<1>16. ASSUME NEW v \in F.portable PROVE ReadsBack(a, v)
  <2>1. ASSUME NEW s \in Buffer, NEW pos \in 0 .. Len(s), Holds(s, pos, a.write[v])
        PROVE  a.read[s][pos] = Done(v, pos + Len(a.write[v]))
    <3> DEFINE x == Chars(v)
        w == b.write[x]
        mid == pos + Len(w)
        chars == b.read[s][pos]
    <3>1. w \in Seq(Byte) /\ Len(w) \in Nat /\ a.write[v] = w \o z /\ Len(a.write[v]) = Len(w) + 1
      BY <1>12, <1>15
    <3>2. [i \in 1 .. Len(x) |-> x[i][1]] = v
      BY <1>15, CharsProperties
    <3> HIDE DEF x, w
    <3>3. Holds(s, pos, w) /\ Holds(s, mid, z)
      <4>1. s \in Seq(Byte) /\ pos \in Nat
        BY BufferIsSeq
      <4>2. Holds(s, pos, w \o z)
        BY <2>1, <3>1
      <4> QED BY <1>11, <3>1, <4>1, <4>2, HoldsBoth
    <3>4. mid + 1 <= Len(s) /\ mid + 1 = pos + Len(a.write[v])
      BY <1>11, <3>1, <3>3 DEF Holds
    <3>5. chars = Done(x, mid)
      BY <1>15, <3>3 DEF ReadsBack, w, x
    <3> HIDE DEF mid, chars
    <3>6. Ok(chars) /\ chars.value = x /\ chars.pos = mid
      BY <3>5, DoneFields
    <3>7. a.read[s][pos] = Done([i \in 1 .. Len(chars.value) |-> chars.value[i][1]], chars.pos + 1)
      BY <1>13, <3>4, <3>6 DEF chars
    <3>8. a.read[s][pos] = Done(v, mid + 1)
      BY <3>2, <3>6, <3>7
    <3> QED BY <3>4, <3>8
  <2> QED BY <2>1 DEF ReadsBack
<1>17. ReadsNothing(a, F.missing)
  <2>1. ReadsNothing(b, {})
    BY <1>4, <1>7 DEF Keeps
  <2>2. ASSUME NEW s \in Buffer PROVE ~ Ok(a.read[s][Len(s)])
    <3>1. ~ Ok(b.read[s][Len(s)])
      BY <2>1 DEF ReadsNothing
    <3> QED BY <1>13, <3>1, BufferIsSeq
  <2> QED BY <2>2 DEF ReadsNothing
<1>18. ASSUME NEW v \in F.portable PROVE NoticesEnd(a, v, F.shortened)
  <2>1. ASSUME NEW s \in Buffer, NEW pos \in 0 .. Len(s), EndsWithin(s, pos, a.write[v])
        PROVE  ~ Ok(a.read[s][pos])
    <3> DEFINE x == Chars(v)
        w == b.write[x]
        chars == b.read[s][pos]
    <3>1. w \in Seq(Byte) /\ Len(w) \in Nat /\ a.write[v] = w \o z
      BY <1>12, <1>15
    <3>2. Len(s) \in Nat /\ s \in Seq(Byte)
      BY <1>13
    <3>3. CASE ~ Ok(chars)
      BY <1>13, <3>3
    <3>4. CASE Ok(chars)
      <4>1. ~ (chars.pos + 1 <= Len(s))
        <5>1. EndsWithin(s, pos, w) \/ (Holds(s, pos, w) /\ EndsWithin(s, pos + Len(w), z))
          <6> HIDE DEF w, x
          <6>1. EndsWithin(s, pos, w \o z)
            BY <2>1, <3>1
          <6> QED BY <1>11, <3>1, <3>2, <6>1, EndsWithinOne
        <5>2. CASE EndsWithin(s, pos, w)
          <6>1. chars.pos = Len(s)
            BY <1>15, <3>4, <5>2 DEF NoticesEnd
          <6> QED BY <3>2, <6>1
        <5>3. CASE Holds(s, pos, w) /\ EndsWithin(s, pos + Len(w), z)
          <6>1. chars = Done(x, pos + Len(w))
            BY <1>15, <5>3 DEF ReadsBack
          <6> HIDE DEF chars, x, w
          <6>2. chars.pos = pos + Len(w)
            BY <6>1, DoneFields
          <6>3. Len(s) < pos + Len(w) + 1
            BY <1>11, <5>3 DEF EndsWithin
          <6> QED BY <3>1, <3>2, <6>2, <6>3
        <5> QED BY <5>1, <5>2, <5>3
      <4>2. a.read[s][pos] \in {Threw, Undefined}
        BY <1>13, <3>4, <4>1
      <4> QED BY <4>2, OutcomesAreOutcomes
    <3> QED BY <3>3, <3>4
  <2> QED BY <2>1 DEF NoticesEnd
<1>19. Keeps(a, F)
  BY <1>9, <1>14, <1>16, <1>17, <1>18 DEF Keeps
<1> QED BY <1>19 DEF a, F

-----------------------------------------------------------------------------
(***************************************************************************)
(* Every type                                                              *)
(***************************************************************************)

(* Whatever a program declares, its walkers keep to the format: reading is *)
(* the inverse of writing; of bytes whose end is missing it gives the      *)
(* value written without its last optionals, or gives no value; and of     *)
(* other bytes it gives no value of an exact type.  Whether it throws when *)
(* it gives none is said by EveryTypeBounded.                              *)
THEOREM EveryTypeKeeps == \A t \in Type : Keeps(Walker[t], Format[t])
<1> DEFINE n == Len(Declared)
    T == {t \in Type : Keeps(Walker[t], Format[t])}
<1>1. n \in Nat /\ Type = 1 .. n
  BY DeclaredType
<1>2. ASSUME NEW t \in 1 .. n, \A u \in 1 .. t - 1 : u \in T PROVE t \in T
  <2> DEFINE d == Declared[t]
      a == WalkerOf(d, Walker)
      of == Walker[d.of]
      first == Walker[d.first]
      rest == Walker[d.rest]
  <2>1. t \in Type
    BY <1>1
  <2>2. /\ d.kind \in {"num", "empty", "string", "spstring", "end", "array", "sp",
                       "optional", "constrained", "object"}
        /\ d.kind = "num" => d.width \in Words \ {0}
        /\ d.kind = "array" => d.size \in Nat
        /\ d.kind \in {"array", "sp", "optional", "constrained"} => d.of \in 1 .. t - 1
        /\ d.kind = "object" => d.first \in 1 .. t - 1 /\ d.rest \in 1 .. t - 1
    BY <2>1, PartsComeBefore
  <2>3. \A u \in 1 .. t - 1 : Keeps(Walker[u], Format[u])
    BY <1>2
  <2>4. d.kind \in {"array", "sp", "optional", "constrained"} => Keeps(of, Format[d.of])
    BY <2>2, <2>3
  <2>5. d.kind = "object" => Keeps(first, Format[d.first]) /\ Keeps(rest, Format[d.rest])
    BY <2>2, <2>3
  <2>6. Walker[t] = a
    BY <2>1, WalkerEquation
  <2>7. Format[t] = FormatOf(d, Values(a), Format)
    BY <2>1, <2>6, FormatEquation
  <2>8. /\ d.kind = "num" => a = NumWalker(d.width)
        /\ d.kind = "empty" => a = EmptyWalker
        /\ d.kind = "string" => a = StringWalker
        /\ d.kind = "spstring" => a = SpStringWalker
        /\ d.kind = "end" => a = EndWalker
        /\ d.kind = "array" => a = ArrayWalker(of, d.size)
        /\ d.kind = "sp" => a = SpWalker(of)
        /\ d.kind = "optional" => a = OptionalWalker(of)
        /\ d.kind = "constrained" => a = ConstrainedWalker(of, d.least, d.most)
        /\ d.kind = "object" => a = ObjectWalker(first, rest)
    BY DEF WalkerOf
  <2> HIDE DEF d, a, of, first, rest
  <2>9. Keeps(a, FormatOf(d, Values(a), Format))
    <3>1. CASE d.kind = "num"
      BY <2>2, <2>8, <3>1, NumKeeps
    <3>2. CASE d.kind = "empty"
      BY <2>8, <3>2, EmptyKeeps
    <3>3. CASE d.kind = "string"
      BY <2>8, <3>3, StringKeeps
    <3>4. CASE d.kind = "spstring"
      BY <2>8, <3>4, SpStringKeeps
    <3>5. CASE d.kind = "end"
      BY <2>8, <3>5, EndKeeps
    <3>6. CASE d.kind = "array"
      BY <2>2, <2>4, <2>8, <3>6, ArrayKeeps
    <3>7. CASE d.kind = "sp"
      BY <2>4, <2>8, <3>7, SpKeeps
    <3>8. CASE d.kind = "optional"
      BY <2>4, <2>8, <3>8, OptionalKeeps
    <3>9. CASE d.kind = "constrained"
      BY <2>4, <2>8, <3>9, ConstrainedKeeps
    <3>10. CASE d.kind = "object"
      BY <2>5, <2>8, <3>10, ObjectKeeps
    <3> QED BY <2>2, <3>1, <3>2, <3>3, <3>4, <3>5, <3>6, <3>7, <3>8, <3>9, <3>10
  <2> QED BY <2>1, <2>6, <2>7, <2>9
<1> HIDE DEF n, T
<1>3. \A t \in 1 .. n : t \in T
  BY <1>1, <1>2, OneAfterTheOther
<1> QED BY <1>1, <1>3 DEF T

-----------------------------------------------------------------------------
(***************************************************************************)
(* What bounds the reads of a type                                         *)
(***************************************************************************)

(* The bounds of a type depend on those of the types before it only.       *)
LEMMA BoundsOfParts ==
    ASSUME NEW t \in Type, NEW V, NEW f, NEW g, \A u \in 1 .. t - 1 : f[u] = g[u]
    PROVE  BoundsOf(Declared[t], V, f) = BoundsOf(Declared[t], V, g)
<1>1. Within(Declared[t], V, f) = Within(Declared[t], V, g)
  BY PartsComeBefore DEF Within
<1>2. Widest(Declared[t], f) = Widest(Declared[t], g)
  BY PartsComeBefore DEF Widest
<1> QED BY <1>1, <1>2 DEF BoundsOf

(* The recursive function Bounds exists.                                   *)
LEMMA BoundsEquation ==
    \A t \in Type : Bounds[t] = BoundsOf(Declared[t], Values(Walker[t]), Bounds)
<1> DEFINE n == Len(Declared)
    V(t) == Values(Walker[t])
    Solves(f, k) == \A t \in 1 .. k : f[t] = BoundsOf(Declared[t], V(t), f)
    T == {k \in 0 .. n : \E f : Solves(f, k)}
<1>1. n \in Nat /\ Type = 1 .. n
  BY DeclaredType
<1> HIDE DEF n, V
<1>2. 0 \in T
  <2>1. Solves(Declared, 0)
    OBVIOUS
  <2> HIDE DEF Solves
  <2> QED BY <1>1, <2>1
<1>3. ASSUME NEW k \in 1 .. n, k - 1 \in T PROVE k \in T
  <2>1. PICK f : Solves(f, k - 1)
    BY <1>3
  <2> DEFINE g == [t \in Type |-> IF t = k THEN BoundsOf(Declared[k], V(k), f) ELSE f[t]]
  <2>2. ASSUME NEW t \in 1 .. k PROVE g[t] = BoundsOf(Declared[t], V(t), g)
    <3>1. t \in Type /\ \A u \in 1 .. t - 1 : g[u] = f[u]
      BY <1>1
    <3>2. BoundsOf(Declared[t], V(t), g) = BoundsOf(Declared[t], V(t), f)
      <4> HIDE DEF g
      <4> QED BY <3>1, BoundsOfParts
    <3>3. CASE t = k
      BY <3>1, <3>2, <3>3
    <3>4. CASE t # k
      BY <2>1, <3>1, <3>2, <3>4
    <3> QED BY <3>3, <3>4
  <2>3. Solves(g, k)
    BY <2>2
  <2> HIDE DEF g, Solves
  <2> QED BY <2>3
<1>4. n \in T
  <2> HIDE DEF T
  <2>1. \A i \in 0 .. n : i \in T
    BY <1>1, <1>2, <1>3, CountingUp
  <2> QED BY <1>1, <2>1
<1>5. PICK f : Solves(f, n)
  BY <1>4
<1> DEFINE g == [t \in Type |-> f[t]]
<1>6. ASSUME NEW t \in Type PROVE g[t] = BoundsOf(Declared[t], V(t), g)
  <2>1. \A u \in 1 .. t - 1 : g[u] = f[u]
    BY <1>1
  <2>2. BoundsOf(Declared[t], V(t), g) = BoundsOf(Declared[t], V(t), f)
    <3> HIDE DEF g
    <3> QED BY <2>1, BoundsOfParts
  <2> QED BY <1>1, <1>5, <2>2
<1>7. g = [t \in Type |-> BoundsOf(Declared[t], V(t), g)]
  BY <1>6
<1> HIDE DEF g
<1>8. Bounds = [t \in Type |-> BoundsOf(Declared[t], V(t), Bounds)]
  BY <1>7 DEF Bounds, V
<1> QED BY <1>8 DEF V

(* A value that is read is one of V. *)
KeepsLimits(c, V) ==
    \A s \in Buffer : \A pos \in 0 .. Len(s) :
        Ok(c.read[s][pos]) => c.read[s][pos].value \in V

(* Reading where there are no bytes left, or only a part of those of v,    *)
(* stays inside a buffer of m bytes or more.                               *)
SeesNothing(c, m) ==
    \A s \in Buffer : m <= Len(s) => c.read[s][Len(s)] # Undefined

SeesEnd(c, v, m) ==
    \A s \in Buffer : \A pos \in 0 .. Len(s) :
        (EndsWithin(s, pos, c.write[v]) /\ m <= Len(s)) => c.read[s][pos] # Undefined

(* The same at any position, whatever the bytes. *)
StaysInBuffer(c, m) ==
    \A s \in Buffer : \A pos \in 0 .. Len(s) : m <= Len(s) => c.read[s][pos] # Undefined

(* The walker c, which keeps to the format f, keeps to the bounds b. *)
Bounded(c, f, b) ==
    /\ b.widest \in Nat
    /\ KeepsLimits(c, b.within)
    /\ SeesNothing(c, b.widest)
    /\ \A v \in f.portable : SeesEnd(c, v, b.widest)

LEMMA BoundsFields ==
    ASSUME NEW d, NEW V, NEW known
    PROVE  /\ BoundsOf(d, V, known).within = Within(d, V, known)
           /\ BoundsOf(d, V, known).widest = Widest(d, known)
BY DEF BoundsOf

LEMMA Distinct ==
    /\ Threw # Undefined
    /\ \A v, pos : Done(v, pos) # Undefined
    /\ \A r : Ok(r) => r # Undefined
<1>1. Threw.status # Undefined.status /\ ~ Ok(Undefined)
  BY DEF Threw, Undefined, Ok
<1>2. \A v, pos : Ok(Done(v, pos))
  BY DoneFields
<1> QED BY <1>1, <1>2

LEMMA WiderThanBoth ==
    ASSUME NEW m \in Nat, NEW n \in Nat
    PROVE  Wider(m, n) \in Nat /\ m <= Wider(m, n) /\ n <= Wider(m, n)
BY DEF Wider

LEMMA AlwaysInside ==
    ASSUME NEW c, NEW m, StaysInBuffer(c, m)
    PROVE  SeesNothing(c, m) /\ \A v : SeesEnd(c, v, m)
<1>1. SeesNothing(c, m)
  <2>1. \A s \in Buffer : Len(s) \in 0 .. Len(s)
    BY BufferIsSeq
  <2> QED BY <2>1 DEF StaysInBuffer, SeesNothing
<1>2. \A v : SeesEnd(c, v, m)
  BY DEF StaysInBuffer, SeesEnd
<1> QED BY <1>1, <1>2

(* In a larger buffer they stay inside as well. *)
LEMMA InsideALargerOne ==
    ASSUME NEW c, NEW m \in Nat, NEW n \in Nat, m <= n
    PROVE  /\ SeesNothing(c, m) => SeesNothing(c, n)
           /\ \A v : SeesEnd(c, v, m) => SeesEnd(c, v, n)
<1>1. \A s \in Buffer : Len(s) \in Nat
  BY BufferIsSeq
<1>2. \A s \in Buffer : n <= Len(s) => m <= Len(s)
  BY <1>1
<1>3. SeesNothing(c, m) => SeesNothing(c, n)
  BY <1>2 DEF SeesNothing
<1>4. \A v : SeesEnd(c, v, m) => SeesEnd(c, v, n)
  BY <1>2 DEF SeesEnd
<1> QED BY <1>3, <1>4

(* The bounds check does not wrap in a buffer as long as the number. *)
LEMMA ReadNumRefuses ==
    ASSUME NEW w \in Words \ {0}, NEW s \in Buffer, NEW pos \in 0 .. Len(s), w <= Len(s)
    PROVE  ReadNum(w, s, pos) # Undefined
<1>1. w \in Nat \ {0} /\ Len(s) \in Nat /\ pos \in Nat
  BY WordAssumption, BufferIsSeq DEF Words
<1>2. CASE pos + w <= Len(s)
  BY <1>2, ReadNumResult, Distinct
<1>3. CASE ~ (pos + w <= Len(s))
  <2>1. ~ Reads(Len(s), pos, w)
    BY <1>1, <1>3 DEF Reads, CanReadNum, Minus
  <2>2. ReadNum(w, s, pos) = Threw
    BY <2>1 DEF ReadNum
  <2> QED BY <2>2, Distinct
<1> QED BY <1>2, <1>3

LEMMA NumBounded ==
    ASSUME NEW d, d.kind = "num", d.width \in Words \ {0}, NEW f, NEW known
    PROVE  Bounded(NumWalker(d.width), f, BoundsOf(d, Values(NumWalker(d.width)), known))
<1> DEFINE w == d.width
    c == NumWalker(w)
    b == BoundsOf(d, Values(c), known)
<1>1. Keeps(c, FormatOf(d, Values(c), known))
  BY NumKeeps
<1>2. IsWalker(c) /\ w \in Words \ {0} /\ w \in Nat
  BY <1>1, WordAssumption DEF Keeps, Words
<1>3. b.within = Values(c) /\ b.widest = w
  <2>1. Within(d, Values(c), known) = Values(c) /\ Widest(d, known) = w
    BY DEF Within, Widest
  <2> QED BY <2>1, BoundsFields, Zenon
<1>4. \A s \in Buffer : \A pos \in 0 .. Len(s) : c.read[s][pos] = ReadNum(w, s, pos)
  BY NumRead
<1> HIDE DEF b, c, w
<1>5. KeepsLimits(c, b.within)
  BY <1>2, <1>3, WalkerFields DEF KeepsLimits
<1>6. StaysInBuffer(c, b.widest)
  BY <1>2, <1>3, <1>4, ReadNumRefuses DEF StaysInBuffer
<1>7. Bounded(c, f, b)
  BY <1>2, <1>3, <1>5, <1>6, AlwaysInside DEF Bounded
<1> QED BY <1>7 DEF b, c, w

(* Nothing is read of an empty type, or behind the last field. *)
LEMMA EmptyBounded ==
    ASSUME NEW d, d.kind \in {"empty", "end"}, NEW c, c \in {EmptyWalker, EndWalker},
           NEW f, NEW known
    PROVE  Bounded(c, f, BoundsOf(d, Values(c), known))
<1> DEFINE b == BoundsOf(d, Values(c), known)
<1>1. b.within = Values(c) /\ b.widest = 0
  <2>1. Within(d, Values(c), known) = Values(c)
    BY DEF Within
  <2>2. Widest(d, known) = 0
    BY DEF Widest
  <2> QED BY <2>1, <2>2, BoundsFields, Zenon
<1>2. /\ Values(c) = {<<>>}
      /\ \A s \in Buffer : \A pos \in Nat : c.read[s][pos] = Done(<<>>, pos)
  BY DEF EmptyWalker, EndWalker, Values
<1> HIDE DEF b
<1>3. \A s \in Buffer : \A pos \in 0 .. Len(s) : c.read[s][pos] = Done(<<>>, pos)
  BY <1>2
<1>4. KeepsLimits(c, b.within)
  BY <1>1, <1>2, <1>3, DoneFields DEF KeepsLimits
<1>5. StaysInBuffer(c, b.widest)
  BY <1>3, Distinct DEF StaysInBuffer
<1>6. Bounded(c, f, b)
  BY <1>1, <1>4, <1>5, AlwaysInside DEF Bounded
<1> QED BY <1>6 DEF b

LEMMA StringBounded ==
    ASSUME NEW d, d.kind = "string", NEW f, NEW known
    PROVE  Bounded(StringWalker, f, BoundsOf(d, Values(StringWalker), known))
<1> DEFINE c == StringWalker
    b == BoundsOf(d, Values(c), known)
<1>1. Keeps(c, FormatOf(d, Values(c), known))
  BY StringKeeps
<1>2. IsWalker(c)
  BY <1>1 DEF Keeps
<1>3. b.within = Values(c) /\ b.widest = 1
  <2>1. Within(d, Values(c), known) = Values(c) /\ Widest(d, known) = 1
    BY DEF Within, Widest
  <2> QED BY <2>1, BoundsFields, Zenon
<1>4. \A s \in Buffer : \A pos \in Nat : c.read[s][pos] = ReadString(s, pos)
  BY DEF StringWalker
<1> HIDE DEF b, c
<1>5. KeepsLimits(c, b.within)
  BY <1>2, <1>3, WalkerFields DEF KeepsLimits
<1>6. ASSUME NEW s \in Buffer, NEW pos \in 0 .. Len(s), 1 <= Len(s)
      PROVE  c.read[s][pos] # Undefined
  <2>1. c.read[s][pos] = ReadString(s, pos)
    BY <1>4
  <2>2. s # <<>>
    BY <1>6
  <2>3. StringOpenAtEnd(s, pos) # Undefined
    BY <2>2, Distinct DEF StringOpenAtEnd
  <2> QED BY <2>1, <2>3, Distinct DEF ReadString
<1>7. StaysInBuffer(c, b.widest)
  BY <1>3, <1>6 DEF StaysInBuffer
<1>8. Bounded(c, f, b)
  BY <1>3, <1>5, <1>7, AlwaysInside DEF Bounded
<1> QED BY <1>8 DEF b, c

(***************************************************************************)
(* One element after the other                                             *)
(***************************************************************************)

LEMMA ReadNextInside ==
    ASSUME NEW c, NEW s, NEW r, r # Undefined, Ok(r) => c.read[s][r.pos] # Undefined
    PROVE  ReadNext(c, s, r) # Undefined
<1>1. CASE ~ Ok(r)
  BY <1>1 DEF ReadNext
<1>2. CASE Ok(r) /\ ~ Ok(c.read[s][r.pos])
  BY <1>2 DEF ReadNext
<1>3. CASE Ok(r) /\ Ok(c.read[s][r.pos])
  BY <1>3, Distinct DEF ReadNext
<1> QED BY <1>1, <1>2, <1>3

LEMMA ElementsInside ==
    ASSUME NEW c, IsWalker(c), NEW n \in Nat, NEW s \in Buffer, NEW pos \in 0 .. Len(s),
           \A q \in pos .. Len(s) : c.read[s][q] # Undefined
    PROVE  ReadElements(c, n, s, pos) # Undefined
<1> DEFINE R == ElementsRead(c, n, s, pos)
    T == {j \in 0 .. n : R[j] # Undefined}
<1>1. R[0] = Done(<<>>, pos) /\ \A j \in 1 .. n : R[j] = ReadNext(c, s, R[j - 1])
  BY ElementsReadEquation
<1>2. \A j \in 0 .. n : Ok(R[j]) => R[j].pos \in pos .. Len(s)
  BY ElementsCounted
<1> HIDE DEF R
<1>3. 0 \in T
  BY <1>1, Distinct
<1>4. ASSUME NEW j \in 1 .. n, j - 1 \in T PROVE j \in T
  <2> DEFINE r == R[j - 1]
  <2>1. r # Undefined /\ R[j] = ReadNext(c, s, r)
    BY <1>1, <1>4
  <2>2. Ok(r) => c.read[s][r.pos] # Undefined
    BY <1>2, <1>4
  <2> HIDE DEF r
  <2> QED BY <2>1, <2>2, ReadNextInside
<1>5. n \in T
  <2> HIDE DEF T
  <2>1. \A j \in 0 .. n : j \in T
    BY <1>3, <1>4, CountingUp
  <2> QED BY <2>1
<1> QED BY <1>5 DEF ReadElements, R

(* Reading elements of which only a part is there. *)
LEMMA ElementsSeeEnd ==
    ASSUME NEW c, NEW f, Keeps(c, f), NEW m, SeesNothing(c, m),
           \A x \in f.portable : SeesEnd(c, x, m), NEW v \in Seq(f.portable),
           NEW s \in Buffer, NEW pos \in 0 .. Len(s), m <= Len(s),
           EndsWithin(s, pos, WriteElements(c, v))
    PROVE  ReadElements(c, Len(v), s, pos) # Undefined
<1> DEFINE n == Len(v)
    W == ElementsWritten(c, v)
    R == ElementsRead(c, n, s, pos)
    S == Outcome(Seq(Values(c)), s)
    Inside(r) == r # Undefined /\ (Ok(r) => r.pos = Len(s))
    T == {j \in 0 .. n : EndsWithin(s, pos, W[j]) => Inside(R[j])}
<1>1. IsWalker(c) /\ v \in Seq(Values(c)) /\ n \in Nat /\ n \in 0 .. n
  <2>1. IsWalker(c) /\ f.portable \subseteq Values(c)
    BY DEF Keeps
  <2> QED BY <2>1, SeqMonotonic, SeqIsFunction
<1>2. /\ W \in [0 .. n -> Seq(Byte)] /\ W[0] = <<>>
      /\ \A j \in 1 .. n : /\ v[j] \in Values(c) /\ c.write[v[j]] \in Seq(Byte)
                           /\ W[j] = W[j - 1] \o c.write[v[j]]
  BY <1>1, ElementsWrittenEquation
<1>3. /\ R \in [0 .. n -> S]
      /\ \A j \in 1 .. n : R[j] = ReadNext(c, s, R[j - 1])
  BY <1>1, ElementsReadEquation
<1>4. \A j \in 1 .. n : /\ ReadsBack(c, v[j]) /\ NoticesEnd(c, v[j], f.shortened)
                        /\ SeesEnd(c, v[j], m)
  <2>1. \A j \in 1 .. n : v[j] \in f.portable
    BY SeqIsFunction
  <2> QED BY <2>1 DEF Keeps
<1>5. \A j \in 0 .. n : Holds(s, pos, W[j]) =>
          R[j] = Done(SubSeq(v, 1, j), pos + Len(W[j])) /\ pos + Len(W[j]) \in 0 .. Len(s)
  BY <1>1, <1>4, ElementsUpTo
<1>6. s \in Seq(Byte) /\ Len(s) \in Nat
  BY BufferIsSeq
<1> HIDE DEF R, W
<1>7. 0 \in T
  <2>1. Len(W[0]) = 0
    BY <1>2, EmptySeq
  <2>2. ~ EndsWithin(s, pos, W[0])
    BY <1>6, <2>1 DEF EndsWithin
  <2> QED BY <1>1, <2>2
<1>8. ASSUME NEW j \in 1 .. n, j - 1 \in T PROVE j \in T
  <2> DEFINE r == R[j - 1]
      w == c.write[v[j]]
      next == c.read[s][r.pos]
  <2> SUFFICES ASSUME EndsWithin(s, pos, W[j]) PROVE Inside(R[j])
    <3> HIDE DEF Inside
    <3>1. j \in 0 .. n
      BY <1>1
    <3> QED BY <3>1
  <2>1. j \in 0 .. n /\ j - 1 \in 0 .. n
    BY <1>1
  <2>2. /\ W[j] = W[j - 1] \o w /\ W[j - 1] \in Seq(Byte) /\ w \in Seq(Byte)
        /\ r \in S /\ R[j] = ReadNext(c, s, r)
    BY <1>2, <1>3, <2>1
  <2>3. Ok(R[j]) => /\ Ok(r) /\ Ok(next) /\ next.pos \in r.pos .. Len(s)
                    /\ R[j].pos = next.pos /\ r.pos \in 0 .. Len(s)
    <3> HIDE DEF r
    <3> QED BY <1>1, <2>2, ReadNextResult
  <2>4. \/ EndsWithin(s, pos, W[j - 1])
        \/ Holds(s, pos, W[j - 1]) /\ EndsWithin(s, pos + Len(W[j - 1]), w)
    <3> HIDE DEF w
    <3>1. EndsWithin(s, pos, W[j - 1] \o w)
      BY <2>2
    <3> QED BY <1>6, <2>2, <3>1, EndsWithinOne
  <2>5. CASE EndsWithin(s, pos, W[j - 1])
    <3>1. r # Undefined /\ (Ok(r) => r.pos = Len(s))
      BY <1>8, <2>5
    <3>2. Ok(r) => next # Undefined
      BY <3>1 DEF SeesNothing
    <3>3. R[j] # Undefined
      <4> HIDE DEF r
      <4> QED BY <2>2, <3>1, <3>2, ReadNextInside
    <3>4. Ok(R[j]) => R[j].pos = Len(s)
      <4> HIDE DEF r, next
      <4> QED BY <1>6, <2>3, <3>1
    <3> QED BY <3>3, <3>4
  <2>6. CASE Holds(s, pos, W[j - 1]) /\ EndsWithin(s, pos + Len(W[j - 1]), w)
    <3> DEFINE mid == pos + Len(W[j - 1])
    <3>1. r = Done(SubSeq(v, 1, j - 1), mid) /\ mid \in 0 .. Len(s)
      BY <1>5, <2>1, <2>6
    <3> HIDE DEF mid
    <3>2. Ok(r) /\ r # Undefined /\ r.pos = mid
      <4> HIDE DEF r
      <4> QED BY <3>1, DoneFields, Distinct
    <3>3. EndsWithin(s, mid, w) /\ SeesEnd(c, v[j], m) /\ NoticesEnd(c, v[j], f.shortened)
      BY <1>4, <2>6 DEF mid
    <3>4. c.read[s][mid] # Undefined
      BY <3>1, <3>3 DEF SeesEnd
    <3>5. Ok(c.read[s][mid]) => c.read[s][mid].pos = Len(s)
      BY <3>1, <3>3 DEF NoticesEnd
    <3>6. next = c.read[s][mid]
      BY <3>2
    <3> HIDE DEF r, next
    <3>7. R[j] # Undefined
      BY <2>2, <3>2, <3>4, ReadNextInside
    <3>8. Ok(R[j]) => R[j].pos = Len(s)
      BY <2>3, <3>5, <3>6
    <3> QED BY <3>7, <3>8
  <2> QED BY <2>4, <2>5, <2>6
<1>9. n \in T
  <2> HIDE DEF T
  <2>1. \A j \in 0 .. n : j \in T
    BY <1>1, <1>7, <1>8, CountingUp
  <2> QED BY <1>1, <2>1
<1>10. R[n] = ReadElements(c, n, s, pos) /\ EndsWithin(s, pos, W[n])
  BY DEF ReadElements, WriteElements, R, W
<1>11. Inside(R[n])
  BY <1>9, <1>10
<1> QED BY <1>10, <1>11

LEMMA ElementsKeepLimits ==
    ASSUME NEW c, IsWalker(c), NEW V, KeepsLimits(c, V), NEW n \in Nat,
           NEW s \in Buffer, NEW pos \in 0 .. Len(s), Ok(ReadElements(c, n, s, pos))
    PROVE  Each(ReadElements(c, n, s, pos).value, V)
<1> DEFINE R == ElementsRead(c, n, s, pos)
    S == Outcome(Seq(Values(c)), s)
    Keeping(r) == \A k \in 1 .. Len(r.value) : r.value[k] \in V
    T == {j \in 0 .. n : Ok(R[j]) => Keeping(R[j])}
<1>1. /\ R \in [0 .. n -> S] /\ R[0] = Done(<<>>, pos)
      /\ \A j \in 1 .. n : R[j] = ReadNext(c, s, R[j - 1])
  BY ElementsReadEquation
<1>2. \A j \in 0 .. n : Ok(R[j]) => R[j].value \in Seq(Values(c)) /\ Len(R[j].value) = j
  BY ElementsCounted
<1> HIDE DEF R
<1>3. 0 \in T
  <2>1. Len(R[0].value) = 0
    BY <1>1, DoneFields, EmptySeq
  <2> QED BY <2>1
<1>4. ASSUME NEW j \in 1 .. n, j - 1 \in T PROVE j \in T
  <2> SUFFICES ASSUME Ok(R[j]) PROVE Keeping(R[j])
    OBVIOUS
  <2> DEFINE r == R[j - 1]
      next == c.read[s][r.pos]
  <2>1. r \in S /\ R[j] = ReadNext(c, s, r) /\ j - 1 \in 0 .. n
    BY <1>1
  <2>2. /\ Ok(r) /\ Ok(next) /\ next.value \in Values(c) /\ r.pos \in 0 .. Len(s)
        /\ R[j].value = Append(r.value, next.value)
    <3> HIDE DEF r
    <3> QED BY <2>1, ReadNextResult
  <2>3. r.value \in Seq(Values(c)) /\ Len(r.value) = j - 1
    BY <1>2, <2>1, <2>2
  <2>4. Keeping(r)
    BY <1>4, <2>2
  <2>5. next.value \in V
    BY <2>2 DEF KeepsLimits
  <2> HIDE DEF r, next
  <2>6. /\ Len(R[j].value) = j
        /\ \A k \in 1 .. j - 1 : R[j].value[k] = r.value[k]
        /\ R[j].value[j] = next.value
    BY <2>2, <2>3, AppendProperties
  <2>7. ASSUME NEW k \in 1 .. j PROVE R[j].value[k] \in V
    <3>1. CASE k = j
      BY <2>5, <2>6, <3>1
    <3>2. CASE k # j
      <4>1. k \in 1 .. j - 1
        BY <3>2
      <4> QED BY <2>3, <2>4, <2>6, <4>1
    <3> QED BY <3>1, <3>2
  <2> QED BY <2>6, <2>7
<1>5. n \in T
  <2> HIDE DEF T
  <2>1. \A j \in 0 .. n : j \in T
    BY <1>3, <1>4, CountingUp
  <2> QED BY <2>1
<1>6. Ok(R[n]) /\ R[n] = ReadElements(c, n, s, pos) /\ n \in 0 .. n
  BY DEF ReadElements, R
<1>7. DOMAIN R[n].value = 1 .. Len(R[n].value)
  BY <1>2, <1>6, SeqIsFunction
<1>8. Keeping(R[n])
  BY <1>5, <1>6
<1> QED BY <1>6, <1>7, <1>8 DEF Each

LEMMA EachIsSeq ==
    ASSUME NEW S, NEW v \in Seq(S), NEW P, Each(v, P)
    PROVE  v \in Seq(P)
<1>1. Len(v) \in Nat /\ DOMAIN v = 1 .. Len(v) /\ v \in [1 .. Len(v) -> S]
  BY SeqIsFunction
<1>2. v \in [1 .. Len(v) -> P]
  BY <1>1 DEF Each
<1> QED BY <1>1, <1>2, FunctionIsSeq

(***************************************************************************)
(* Containers                                                              *)
(***************************************************************************)

LEMMA ArrayBounded ==
    ASSUME NEW d, d.kind = "array", d.size \in Nat, NEW known, NEW bounds, NEW c,
           Keeps(c, known[d.of]), Bounded(c, known[d.of], bounds[d.of])
    PROVE  LET a == ArrayWalker(c, d.size)
           IN  Bounded(a, FormatOf(d, Values(a), known), BoundsOf(d, Values(a), bounds))
<1> DEFINE n == d.size
    a == ArrayWalker(c, n)
    f == known[d.of]
    F == FormatOf(d, Values(a), known)
    b == bounds[d.of]
    B == BoundsOf(d, Values(a), bounds)
    m == b.widest
<1>1. IsWalker(c) /\ f.portable \subseteq Values(c) /\ n \in Nat
  BY DEF Keeps
<1>2. /\ m \in Nat /\ KeepsLimits(c, b.within) /\ SeesNothing(c, m)
      /\ \A x \in f.portable : SeesEnd(c, x, m)
  BY DEF Bounded
<1>3. /\ Values(a) = [1 .. n -> Values(c)]
      /\ \A v \in Values(a) : a.write[v] = WriteElements(c, v)
      /\ \A s \in Buffer : \A pos \in Nat : a.read[s][pos] = ReadElements(c, n, s, pos)
  BY DEF ArrayWalker, Values
<1>4. F.portable = {v \in Values(a) : Each(v, f.portable)}
  <2>1. Portable(d, Values(a), known) = {v \in Values(a) : Each(v, f.portable)}
    BY DEF Portable
  <2> QED BY <2>1, FormatFields, Zenon
<1>5. B.within = {v \in Values(a) : Each(v, b.within)} /\ B.widest = m
  <2>1. Within(d, Values(a), bounds) = {v \in Values(a) : Each(v, b.within)}
    BY DEF Within
  <2>2. Widest(d, bounds) = m
    BY DEF Widest
  <2> QED BY <2>1, <2>2, BoundsFields, Zenon
<1>6. IsWalker(a)
  BY <1>1, ArrayKeeps DEF Keeps
<1> HIDE DEF n, a, f, F, b, B, m
<1>7. KeepsLimits(a, B.within)
  <2>1. ASSUME NEW s \in Buffer, NEW pos \in 0 .. Len(s), Ok(a.read[s][pos])
        PROVE  a.read[s][pos].value \in B.within
    <3>1. a.read[s][pos] = ReadElements(c, n, s, pos)
      BY <1>3
    <3>2. Each(a.read[s][pos].value, b.within)
      BY <1>1, <1>2, <2>1, <3>1, ElementsKeepLimits
    <3>3. a.read[s][pos].value \in Values(a)
      BY <1>6, <2>1, WalkerFields
    <3> QED BY <1>5, <3>2, <3>3
  <2> QED BY <2>1 DEF KeepsLimits
<1>8. SeesNothing(a, m)
  <2>1. ASSUME NEW s \in Buffer, m <= Len(s) PROVE a.read[s][Len(s)] # Undefined
    <3>1. Len(s) \in 0 .. Len(s) /\ Len(s) \in Nat /\ Len(s) .. Len(s) = {Len(s)}
      BY BufferIsSeq
    <3>2. \A q \in Len(s) .. Len(s) : c.read[s][q] # Undefined
      BY <1>2, <2>1, <3>1 DEF SeesNothing
    <3>3. a.read[s][Len(s)] = ReadElements(c, n, s, Len(s))
      BY <1>3, <3>1
    <3> QED BY <1>1, <3>1, <3>2, <3>3, ElementsInside
  <2> QED BY <2>1 DEF SeesNothing
<1>9. ASSUME NEW v \in F.portable PROVE SeesEnd(a, v, m)
  <2>1. v \in Values(a) /\ Each(v, f.portable)
    BY <1>4
  <2>2. v \in Seq(Values(c)) /\ Len(v) = n
    BY <1>1, <1>3, <2>1, FunctionIsSeq
  <2>3. v \in Seq(f.portable)
    BY <2>1, <2>2, EachIsSeq
  <2>4. ASSUME NEW s \in Buffer, NEW pos \in 0 .. Len(s), m <= Len(s),
               EndsWithin(s, pos, a.write[v])
        PROVE  a.read[s][pos] # Undefined
    <3>1. EndsWithin(s, pos, WriteElements(c, v)) /\ a.read[s][pos] = ReadElements(c, Len(v), s, pos)
      BY <1>3, <2>1, <2>2, <2>4
    <3>2. Keeps(c, f)
      BY DEF f
    <3> QED BY <1>2, <2>3, <2>4, <3>1, <3>2, ElementsSeeEnd
  <2> QED BY <2>4 DEF SeesEnd
<1>10. Bounded(a, F, B)
  BY <1>2, <1>5, <1>7, <1>8, <1>9 DEF Bounded
<1> QED BY <1>10 DEF a, F, B, n

(* A size that is read is within the limit. *)
LEMMA ReadSpCases ==
    ASSUME NEW c, IsWalker(c), NEW s \in Buffer, NEW pos \in 0 .. Len(s)
    PROVE  LET n == SizeOf(SizeAt(s, pos))
               r == ReadSp(c, s, pos)
           IN  \/ r \in {Threw, Undefined} /\ (SizeWidth <= Len(s) => r = Threw)
               \/ /\ pos + SizeWidth \in 0 .. Len(s) /\ n \in Nat /\ n <= SpLimit
                  /\ r = ReadElements(c, n, s, pos + SizeWidth)
<1> DEFINE b == SizeAt(s, pos)
    n == SizeOf(b)
    mid == pos + SizeWidth
    size == ReadNum(SizeWidth, s, pos)
    r == ReadSp(c, s, pos)
<1>1. SizeWidth \in Words \ {0} /\ SizeWidth \in Nat /\ SpLimit \in Nat /\ Len(s) \in Nat
  BY WidthIsNat, WalkersAssumption, BufferIsSeq
<1>2. CASE ~ (mid <= Len(s))
  <2>1. size \in {Threw, Undefined}
    BY <1>1, <1>2, ReadNumResult
  <2>2. SizeWidth <= Len(s) => size # Undefined
    BY <1>1, ReadNumRefuses
  <2>3. r = size
    BY <2>1, OutcomesAreOutcomes DEF ReadSp
  <2> HIDE DEF size, r
  <2>4. r \in {Threw, Undefined} /\ (SizeWidth <= Len(s) => r = Threw)
    BY <2>1, <2>2, <2>3
  <2> QED BY <2>4 DEF r
<1>3. CASE mid <= Len(s)
  <2>1. size = Done(b, mid) /\ b \in [1 .. SizeWidth -> Byte] /\ mid \in 0 .. Len(s)
    BY <1>1, <1>3, ReadNumResult DEF SizeAt
  <2> HIDE DEF b, size, mid
  <2>2. Ok(size) /\ size.value = b /\ size.pos = mid
    BY <2>1, DoneFields
  <2>3. n \in Nat
    BY <2>1, SizeRead
  <2> HIDE DEF n
  <2>4. CASE n > SpLimit
    <3>1. r = Threw
      BY <2>2, <2>4 DEF ReadSp, TooLarge, n, size
    <3> QED BY <3>1
  <2>5. CASE n <= SpLimit
    <3>1. r = ReadElements(c, n, s, mid)
      BY <1>1, <2>2, <2>3, <2>5 DEF ReadSp, TooLarge, n, size
    <3> QED BY <2>1, <2>3, <2>5, <3>1 DEF n, b, mid
  <2> QED BY <1>1, <2>3, <2>4, <2>5
<1> QED BY <1>2, <1>3

(* The size that is there is the one that was written. *)
LEMMA SizeIsThere ==
    ASSUME NEW n \in 0 .. SpLimit, NEW s \in Buffer, NEW pos \in 0 .. Len(s),
           Holds(s, pos, SizeBytes(n))
    PROVE  SizeOf(SizeAt(s, pos)) = n
<1> DEFINE b == SizeBytes(n)
    t == SizeAt(s, pos)
<1>1. /\ SizeWidth \in Nat \ {0} /\ SizeWidth \in Words \ {0} /\ SpLimit \in Nat
      /\ Len(s) \in Nat /\ s \in Seq(Byte)
  BY WidthIsNat, WalkersAssumption, BufferIsSeq
<1>2. n \in Nat /\ n <= SpLimit
  BY <1>1
<1>3. b \in [1 .. SizeWidth -> Byte] /\ Len(b) = SizeWidth /\ SizeOf(b) = n
  BY <1>2, SizeIsBytes, LimitFits, SizeWritten
<1> HIDE DEF b
<1>4. pos + SizeWidth <= Len(s) /\ \A i \in 1 .. SizeWidth : s[pos + i] = b[i]
  BY <1>3 DEF Holds, b
<1>5. t \in [1 .. SizeWidth -> Byte] /\ \A i \in 1 .. SizeWidth : t[i] = s[pos + i]
  BY <1>1, <1>4, ReadNumResult DEF SizeAt
<1> HIDE DEF t
<1>6. t = b
  BY <1>3, <1>4, <1>5
<1> QED BY <1>3, <1>6 DEF t

LEMMA SpBounded ==
    ASSUME NEW d, d.kind = "sp", NEW known, NEW bounds, NEW c,
           Keeps(c, known[d.of]), Bounded(c, known[d.of], bounds[d.of])
    PROVE  LET a == SpWalker(c)
           IN  Bounded(a, FormatOf(d, Values(a), known), BoundsOf(d, Values(a), bounds))
<1> DEFINE a == SpWalker(c)
    f == known[d.of]
    F == FormatOf(d, Values(a), known)
    b == bounds[d.of]
    B == BoundsOf(d, Values(a), bounds)
    m == Wider(SizeWidth, b.widest)
<1>1. /\ IsWalker(c) /\ f.portable \subseteq Values(c)
      /\ SizeWidth \in Nat \ {0} /\ SpLimit \in Nat
  BY WidthIsNat, WalkersAssumption DEF Keeps
<1>2. /\ b.widest \in Nat /\ KeepsLimits(c, b.within) /\ SeesNothing(c, b.widest)
      /\ \A x \in f.portable : SeesEnd(c, x, b.widest)
  BY DEF Bounded
<1>3. /\ Values(a) = Seq(Values(c))
      /\ \A v \in Values(a) : a.write[v] = SizeBytes(Len(v)) \o WriteElements(c, v)
      /\ \A s \in Buffer : \A pos \in Nat : a.read[s][pos] = ReadSp(c, s, pos)
  BY DEF SpWalker, Values
<1>4. F.portable = {v \in Values(a) : Len(v) <= SpLimit /\ Each(v, f.portable)}
  <2>1. Portable(d, Values(a), known)
            = {v \in Values(a) : Len(v) <= SpLimit /\ Each(v, f.portable)}
    BY DEF Portable
  <2> QED BY <2>1, FormatFields, Zenon
<1>5. /\ B.within = {v \in Values(a) : Len(v) <= SpLimit /\ Each(v, b.within)}
      /\ B.widest = m
  <2>1. Within(d, Values(a), bounds)
            = {v \in Values(a) : Len(v) <= SpLimit /\ Each(v, b.within)}
    BY DEF Within
  <2>2. Widest(d, bounds) = m
    BY DEF Widest
  <2> QED BY <2>1, <2>2, BoundsFields, Zenon
<1>6. IsWalker(a)
  BY SpKeeps DEF Keeps
<1> HIDE DEF a, f, F, b, B
<1>7. m \in Nat /\ SizeWidth <= m /\ b.widest <= m
  BY <1>1, <1>2, WiderThanBoth
<1> HIDE DEF m
<1>8. SeesNothing(c, m) /\ \A x \in f.portable : SeesEnd(c, x, m)
  BY <1>2, <1>7, InsideALargerOne
<1>9. \A s \in Buffer : \A pos \in 0 .. Len(s) : a.read[s][pos] = ReadSp(c, s, pos)
  BY <1>3
<1>10. \A s \in Buffer : s \in Seq(Byte) /\ Len(s) \in Nat /\ (m <= Len(s) => SizeWidth <= Len(s))
  BY <1>1, <1>7, BufferIsSeq
<1>11. KeepsLimits(a, B.within)
  <2>1. ASSUME NEW s \in Buffer, NEW pos \in 0 .. Len(s), Ok(a.read[s][pos])
        PROVE  a.read[s][pos].value \in B.within
    <3> DEFINE n == SizeOf(SizeAt(s, pos))
        r == ReadElements(c, n, s, pos + SizeWidth)
    <3>1. /\ a.read[s][pos] = r /\ Ok(r) /\ pos + SizeWidth \in 0 .. Len(s)
          /\ n \in Nat /\ n <= SpLimit
      BY <1>1, <1>9, <2>1, ReadSpCases, OutcomesAreOutcomes
    <3> HIDE DEF n
    <3>2. Each(r.value, b.within)
      BY <1>1, <1>2, <3>1, ElementsKeepLimits
    <3>3. Len(r.value) = n /\ r.value \in Seq(Values(c))
      BY <1>1, <3>1, ReadElementsCounted
    <3> HIDE DEF r
    <3> QED BY <1>3, <1>5, <3>1, <3>2, <3>3
  <2> QED BY <2>1 DEF KeepsLimits
<1>12. SeesNothing(a, m)
  <2>1. ASSUME NEW s \in Buffer, m <= Len(s) PROVE a.read[s][Len(s)] # Undefined
    <3>1. Len(s) \in 0 .. Len(s) /\ SizeWidth <= Len(s) /\ Len(s) + SizeWidth \notin 0 .. Len(s)
      BY <1>1, <1>10, <2>1
    <3>2. ReadSp(c, s, Len(s)) = Threw
      BY <1>1, <3>1, ReadSpCases
    <3> QED BY <1>9, <3>1, <3>2, Distinct
  <2> QED BY <2>1 DEF SeesNothing
<1>13. ASSUME NEW v \in F.portable PROVE SeesEnd(a, v, m)
  <2> DEFINE n == Len(v)
      h == SizeBytes(n)
      w == WriteElements(c, v)
  <2>1. v \in Values(a) /\ v \in Seq(Values(c)) /\ Each(v, f.portable) /\ n <= SpLimit
    BY <1>3, <1>4
  <2>2. v \in Seq(f.portable) /\ n \in Nat /\ n \in 0 .. SpLimit
    BY <1>1, <2>1, EachIsSeq, SeqIsFunction
  <2>3. h \in Seq(Byte) /\ Len(h) = SizeWidth /\ w \in Seq(Byte) /\ a.write[v] = h \o w
    BY <1>1, <1>3, <2>1, <2>2, SizeIsBytes, WrittenIsBytes
  <2>4. ASSUME NEW s \in Buffer, NEW pos \in 0 .. Len(s), m <= Len(s),
               EndsWithin(s, pos, a.write[v])
        PROVE  a.read[s][pos] # Undefined
    <3> DEFINE mid == pos + SizeWidth
    <3>1. a.read[s][pos] = ReadSp(c, s, pos) /\ SizeWidth <= Len(s)
      BY <1>9, <1>10, <2>4
    <3>2. \/ EndsWithin(s, pos, h)
          \/ Holds(s, pos, h) /\ EndsWithin(s, mid, w)
      <4> HIDE DEF h, w
      <4>1. EndsWithin(s, pos, h \o w) /\ s \in Seq(Byte)
        BY <1>10, <2>3, <2>4
      <4>2. \/ EndsWithin(s, pos, h)
            \/ Holds(s, pos, h) /\ EndsWithin(s, pos + Len(h), w)
        BY <2>3, <4>1, EndsWithinOne
      <4> QED BY <2>3, <4>2
    <3>3. CASE EndsWithin(s, pos, h)
      <4> HIDE DEF h, mid
      <4>1. Len(s) < mid
        BY <2>3, <3>3 DEF EndsWithin, mid
      <4>2. mid \notin 0 .. Len(s)
        BY <1>1, <1>10, <4>1 DEF mid
      <4>3. ReadSp(c, s, pos) = Threw
        BY <1>1, <3>1, <4>2, ReadSpCases DEF mid
      <4> QED BY <3>1, <4>3, Distinct
    <3>4. CASE Holds(s, pos, h) /\ EndsWithin(s, mid, w)
      <4>1. SizeOf(SizeAt(s, pos)) = n
        BY <2>2, <3>4, SizeIsThere
      <4>2. \/ ReadSp(c, s, pos) = Threw
            \/ mid \in 0 .. Len(s) /\ ReadSp(c, s, pos) = ReadElements(c, n, s, mid)
        BY <1>1, <3>1, <4>1, ReadSpCases
      <4>3. Keeps(c, f)
        BY DEF f
      <4>4. mid \in 0 .. Len(s) => ReadElements(c, n, s, mid) # Undefined
        BY <1>8, <2>2, <2>4, <3>4, <4>3, ElementsSeeEnd
      <4> QED BY <3>1, <4>2, <4>4, Distinct
    <3> QED BY <3>2, <3>3, <3>4
  <2> QED BY <2>4 DEF SeesEnd
<1>14. Bounded(a, F, B)
  BY <1>5, <1>7, <1>11, <1>12, <1>13 DEF Bounded
<1> QED BY <1>14 DEF a, F, B

(***************************************************************************)
(* Constrained values and objects                                          *)
(***************************************************************************)

LEMMA ConstrainedBounded ==
    ASSUME NEW d, d.kind = "constrained", NEW known, NEW bounds, NEW c,
           Keeps(c, known[d.of]), Bounded(c, known[d.of], bounds[d.of])
    PROVE  LET a == ConstrainedWalker(c, d.least, d.most)
           IN  Bounded(a, FormatOf(d, Values(a), known), BoundsOf(d, Values(a), bounds))
<1> DEFINE a == ConstrainedWalker(c, d.least, d.most)
    f == known[d.of]
    F == FormatOf(d, Values(a), known)
    b == bounds[d.of]
    B == BoundsOf(d, Values(a), bounds)
    m == b.widest
    Fits(v) == Len(v) \in d.least .. d.most
<1>1. /\ m \in Nat /\ KeepsLimits(c, b.within) /\ SeesNothing(c, m)
      /\ \A x \in f.portable : SeesEnd(c, x, m)
  BY DEF Bounded
<1>2. /\ Values(a) = Values(c) /\ a.write = c.write
      /\ \A s \in Buffer : \A pos \in Nat :
            a.read[s][pos] = ReadConstrained(c, d.least, d.most, s, pos)
  BY DEF ConstrainedWalker, Values
<1>3. F.portable = {v \in f.portable : Fits(v)}
  <2>1. Portable(d, Values(a), known) = {v \in f.portable : Fits(v)}
    BY DEF Portable
  <2> QED BY <2>1, FormatFields, Zenon
<1>4. B.within = {v \in b.within : Fits(v)} /\ B.widest = m
  <2>1. Within(d, Values(a), bounds) = {v \in b.within : Fits(v)}
    BY DEF Within
  <2>2. Widest(d, bounds) = m
    BY DEF Widest
  <2> QED BY <2>1, <2>2, BoundsFields, Zenon
<1> HIDE DEF a, f, F, b, B, m
<1>5. ASSUME NEW s \in Buffer, NEW pos \in 0 .. Len(s)
      PROVE  /\ c.read[s][pos] # Undefined => a.read[s][pos] # Undefined
             /\ Ok(a.read[s][pos]) => /\ Ok(c.read[s][pos])
                                      /\ a.read[s][pos].value = c.read[s][pos].value
                                      /\ Fits(c.read[s][pos].value)
  <2>1. a.read[s][pos] = IF Ok(c.read[s][pos]) => Fits(c.read[s][pos].value)
                         THEN c.read[s][pos] ELSE Threw
    BY <1>2 DEF ReadConstrained
  <2> HIDE DEF Fits
  <2> QED BY <2>1, Distinct, OutcomesAreOutcomes
<1> HIDE DEF Fits
<1>6. KeepsLimits(a, B.within)
  BY <1>1, <1>4, <1>5 DEF KeepsLimits
<1>7. SeesNothing(a, m)
  <2>1. \A s \in Buffer : Len(s) \in 0 .. Len(s)
    BY BufferIsSeq
  <2> QED BY <1>1, <1>5, <2>1 DEF SeesNothing
<1>8. ASSUME NEW v \in F.portable PROVE SeesEnd(a, v, m)
  <2>1. SeesEnd(c, v, m) /\ a.write[v] = c.write[v]
    BY <1>1, <1>2, <1>3
  <2> QED BY <1>5, <2>1 DEF SeesEnd
<1>9. Bounded(a, F, B)
  BY <1>1, <1>4, <1>6, <1>7, <1>8 DEF Bounded
<1> QED BY <1>9 DEF a, F, B

LEMMA ReadObjectCases ==
    ASSUME NEW c, NEW e, NEW s \in Buffer, NEW pos \in 0 .. Len(s)
    PROVE  LET first == c.read[s][pos]
               rest == e.read[s][first.pos]
               r == ReadObject(c, e, s, pos)
           IN  /\ (first # Undefined /\ (Ok(first) => rest # Undefined)) => r # Undefined
               /\ Ok(r) => /\ Ok(first) /\ Ok(rest)
                           /\ r.value = <<first.value, rest.value>>
<1> DEFINE first == c.read[s][pos]
    rest == e.read[s][first.pos]
    r == ReadObject(c, e, s, pos)
<1>1. r = IF ~ Ok(first) THEN first
          ELSE IF ~ Ok(rest) THEN rest
          ELSE Done(<<first.value, rest.value>>, rest.pos)
  BY DEF ReadObject
<1> HIDE DEF r
<1>2. CASE ~ Ok(first)
  <2>1. r = first
    BY <1>1, <1>2
  <2> QED BY <1>2, <2>1 DEF r
<1>3. CASE Ok(first) /\ ~ Ok(rest)
  <2>1. r = rest
    BY <1>1, <1>3
  <2> QED BY <1>3, <2>1 DEF r
<1>4. CASE Ok(first) /\ Ok(rest)
  <2> DEFINE p == <<first.value, rest.value>>
  <2>1. r = Done(p, rest.pos)
    BY <1>1, <1>4
  <2> HIDE DEF p
  <2>2. r # Undefined /\ r.value = p
    BY <2>1, DoneFields, Distinct
  <2> QED BY <1>4, <2>2 DEF r, p
<1> QED BY <1>2, <1>3, <1>4

LEMMA ObjectBounded ==
    ASSUME NEW d, d.kind = "object", NEW known, NEW bounds,
           NEW c, Keeps(c, known[d.first]), Bounded(c, known[d.first], bounds[d.first]),
           NEW e, Keeps(e, known[d.rest]), Bounded(e, known[d.rest], bounds[d.rest])
    PROVE  LET a == ObjectWalker(c, e)
           IN  Bounded(a, FormatOf(d, Values(a), known), BoundsOf(d, Values(a), bounds))
<1> DEFINE a == ObjectWalker(c, e)
    f == known[d.first]
    g == known[d.rest]
    F == FormatOf(d, Values(a), known)
    b == bounds[d.first]
    x == bounds[d.rest]
    B == BoundsOf(d, Values(a), bounds)
    m == Wider(b.widest, x.widest)
<1>1. /\ IsWalker(c) /\ f.portable \subseteq Values(c)
      /\ IsWalker(e) /\ g.portable \subseteq Values(e)
      /\ \A v \in f.portable : ReadsBack(c, v) /\ NoticesEnd(c, v, f.shortened)
  BY DEF Keeps
<1>2. /\ b.widest \in Nat /\ KeepsLimits(c, b.within) /\ SeesNothing(c, b.widest)
      /\ \A v \in f.portable : SeesEnd(c, v, b.widest)
      /\ x.widest \in Nat /\ KeepsLimits(e, x.within) /\ SeesNothing(e, x.widest)
      /\ \A v \in g.portable : SeesEnd(e, v, x.widest)
  BY DEF Bounded
<1>3. /\ Values(a) = Values(c) \X Values(e)
      /\ \A v \in Values(a) : a.write[v] = c.write[v[1]] \o e.write[v[2]]
      /\ \A s \in Buffer : \A pos \in Nat : a.read[s][pos] = ReadObject(c, e, s, pos)
  BY DEF ObjectWalker, Values
<1>4. F.portable = f.portable \X g.portable
  <2>1. Portable(d, Values(a), known) = f.portable \X g.portable
    BY DEF Portable
  <2> QED BY <2>1, FormatFields, Zenon
<1>5. B.within = b.within \X x.within /\ B.widest = m
  <2>1. Within(d, Values(a), bounds) = b.within \X x.within
    BY DEF Within
  <2>2. Widest(d, bounds) = m
    BY DEF Widest
  <2> QED BY <2>1, <2>2, BoundsFields, Zenon
<1> HIDE DEF a, f, g, F, b, x, B
<1>6. m \in Nat /\ b.widest <= m /\ x.widest <= m
  BY <1>2, WiderThanBoth
<1> HIDE DEF m
<1>7. /\ SeesNothing(c, m) /\ SeesNothing(e, m)
      /\ \A v \in f.portable : SeesEnd(c, v, m)
      /\ \A v \in g.portable : SeesEnd(e, v, m)
  BY <1>2, <1>6, InsideALargerOne
<1>8. ASSUME NEW s \in Buffer, NEW pos \in 0 .. Len(s)
      PROVE  LET first == c.read[s][pos]
                 rest == e.read[s][first.pos]
                 r == a.read[s][pos]
             IN  /\ (first # Undefined /\ (Ok(first) => rest # Undefined)) => r # Undefined
                 /\ Ok(r) => /\ Ok(first) /\ Ok(rest)
                             /\ r.value = <<first.value, rest.value>>
                 /\ Ok(first) => first.pos \in pos .. Len(s) /\ first.pos \in 0 .. Len(s)
  <2> DEFINE first == c.read[s][pos]
      rest == e.read[s][first.pos]
      r == a.read[s][pos]
  <2>1. r = ReadObject(c, e, s, pos)
    BY <1>3
  <2>2. /\ (first # Undefined /\ (Ok(first) => rest # Undefined)) => r # Undefined
        /\ Ok(r) => Ok(first) /\ Ok(rest) /\ r.value = <<first.value, rest.value>>
    BY <2>1, ReadObjectCases
  <2>3. Ok(first) => first.pos \in pos .. Len(s)
    BY <1>1, WalkerFields
  <2>4. Ok(first) => first.pos \in 0 .. Len(s)
    <3> HIDE DEF first
    <3> QED BY <2>3
  <2> HIDE DEF first, rest, r
  <2>5. /\ (first # Undefined /\ (Ok(first) => rest # Undefined)) => r # Undefined
        /\ Ok(r) => Ok(first) /\ Ok(rest) /\ r.value = <<first.value, rest.value>>
        /\ Ok(first) => first.pos \in pos .. Len(s) /\ first.pos \in 0 .. Len(s)
    BY <2>2, <2>3, <2>4
  <2> QED BY <2>5 DEF first, rest, r
<1>9. KeepsLimits(a, B.within)
  <2>1. ASSUME NEW s \in Buffer, NEW pos \in 0 .. Len(s), Ok(a.read[s][pos])
        PROVE  a.read[s][pos].value \in B.within
    <3> DEFINE first == c.read[s][pos]
        rest == e.read[s][first.pos]
    <3>1. /\ Ok(first) /\ Ok(rest) /\ first.pos \in 0 .. Len(s)
          /\ a.read[s][pos].value = <<first.value, rest.value>>
      BY <1>8, <2>1
    <3>2. first.value \in b.within /\ rest.value \in x.within
      BY <1>2, <3>1 DEF KeepsLimits
    <3> HIDE DEF first, rest
    <3> QED BY <1>5, <3>1, <3>2
  <2> QED BY <2>1 DEF KeepsLimits
<1>10. SeesNothing(a, m)
  <2>1. ASSUME NEW s \in Buffer, m <= Len(s) PROVE a.read[s][Len(s)] # Undefined
    <3> DEFINE first == c.read[s][Len(s)]
        rest == e.read[s][first.pos]
    <3>1. Len(s) \in 0 .. Len(s) /\ Len(s) \in Nat
      BY BufferIsSeq
    <3>2. first # Undefined
      BY <1>7, <2>1 DEF SeesNothing
    <3>3. ASSUME Ok(first) PROVE rest # Undefined
      <4>1. first.pos \in Len(s) .. Len(s)
        BY <1>8, <3>1, <3>3
      <4>2. first.pos = Len(s)
        <5> HIDE DEF first
        <5> QED BY <3>1, <4>1
      <4> QED BY <1>7, <2>1, <4>2 DEF SeesNothing
    <3> QED BY <1>8, <3>1, <3>2, <3>3
  <2> QED BY <2>1 DEF SeesNothing
<1>11. ASSUME NEW v \in F.portable PROVE SeesEnd(a, v, m)
  <2> DEFINE h == c.write[v[1]]
      w == e.write[v[2]]
  <2>1. v[1] \in f.portable /\ v[2] \in g.portable /\ v \in Values(a)
    BY <1>1, <1>3, <1>4
  <2>2. h \in Seq(Byte) /\ w \in Seq(Byte) /\ a.write[v] = h \o w
    BY <1>1, <1>3, <2>1 DEF IsWalker
  <2>3. ASSUME NEW s \in Buffer, NEW pos \in 0 .. Len(s), m <= Len(s),
               EndsWithin(s, pos, a.write[v])
        PROVE  a.read[s][pos] # Undefined
    <3> DEFINE first == c.read[s][pos]
        rest == e.read[s][first.pos]
    <3>1. \/ EndsWithin(s, pos, h)
          \/ Holds(s, pos, h) /\ EndsWithin(s, pos + Len(h), w)
      <4> HIDE DEF h, w
      <4>1. EndsWithin(s, pos, h \o w) /\ s \in Seq(Byte)
        BY <2>2, <2>3, BufferIsSeq
      <4> QED BY <2>2, <4>1, EndsWithinOne
    <3>2. CASE EndsWithin(s, pos, h)
      <4>1. first # Undefined
        BY <1>7, <2>1, <2>3, <3>2 DEF SeesEnd
      <4>2. ASSUME Ok(first) PROVE rest # Undefined
        <5>1. first.pos = Len(s)
          BY <1>1, <2>1, <3>2, <4>2 DEF NoticesEnd
        <5> QED BY <1>7, <2>3, <5>1 DEF SeesNothing
      <4> QED BY <1>8, <4>1, <4>2
    <3>3. CASE Holds(s, pos, h) /\ EndsWithin(s, pos + Len(h), w)
      <4> DEFINE end == pos + Len(h)
      <4>1. first = Done(v[1], end)
        BY <1>1, <2>1, <3>3 DEF ReadsBack
      <4> HIDE DEF end
      <4>2. Ok(first) /\ first # Undefined /\ first.pos = end
        <5> HIDE DEF first
        <5> QED BY <4>1, DoneFields, Distinct
      <4>3. end \in 0 .. Len(s)
        BY <1>8, <4>2
      <4>4. EndsWithin(s, end, w)
        BY <3>3 DEF end
      <4>5. e.read[s][end] # Undefined
        BY <1>7, <2>1, <2>3, <4>3, <4>4 DEF SeesEnd
      <4> QED BY <1>8, <4>2, <4>5
    <3> QED BY <3>1, <3>2, <3>3
  <2> QED BY <2>3 DEF SeesEnd
<1>12. Bounded(a, F, B)
  BY <1>5, <1>6, <1>9, <1>10, <1>11 DEF Bounded
<1> QED BY <1>12 DEF a, F, B

(***************************************************************************)
(* Optionals and strings with their size in front                          *)
(***************************************************************************)

(* Where no byte is left there is no value, and nothing is read. *)
LEMMA NoOptional ==
    ASSUME NEW c, NEW s \in Buffer, 1 <= Len(s)
    PROVE  ReadOptional(c, s, Len(s)) = Done(<<>>, Len(s))
<1>1. Len(s) \in Nat
  BY BufferIsSeq
<1>2. ~ CanReadNum(Len(s), Len(s), 1)
  BY <1>1 DEF CanReadNum, Minus
<1> QED BY <1>2 DEF ReadOptional

LEMMA OptionalBounded ==
    ASSUME NEW d, d.kind = "optional", NEW known, NEW bounds, NEW c,
           Keeps(c, known[d.of]), Bounded(c, known[d.of], bounds[d.of])
    PROVE  LET a == OptionalWalker(c)
           IN  Bounded(a, FormatOf(d, Values(a), known), BoundsOf(d, Values(a), bounds))
<1> DEFINE a == OptionalWalker(c)
    f == known[d.of]
    F == FormatOf(d, Values(a), known)
    b == bounds[d.of]
    B == BoundsOf(d, Values(a), bounds)
    m == Wider(1, b.widest)
    e == <<>>
<1>1. IsWalker(c) /\ f.portable \subseteq Values(c)
  BY DEF Keeps
<1>2. /\ b.widest \in Nat /\ KeepsLimits(c, b.within) /\ SeesNothing(c, b.widest)
      /\ \A x \in f.portable : SeesEnd(c, x, b.widest)
  BY DEF Bounded
<1>3. /\ Values(a) = {v \in Seq(Values(c)) : Len(v) <= 1}
      /\ \A v \in Values(a) : a.write[v] = <<Len(v)>> \o WriteElements(c, v)
      /\ \A s \in Buffer : \A pos \in Nat : a.read[s][pos] = ReadOptional(c, s, pos)
  BY DEF OptionalWalker, Values
<1>4. F.portable = {v \in Values(a) : Each(v, f.portable)}
  <2>1. Portable(d, Values(a), known) = {v \in Values(a) : Each(v, f.portable)}
    BY DEF Portable
  <2> QED BY <2>1, FormatFields, Zenon
<1>5. B.within = {v \in Values(a) : Each(v, b.within)} /\ B.widest = m
  <2>1. Within(d, Values(a), bounds) = {v \in Values(a) : Each(v, b.within)}
    BY DEF Within
  <2>2. Widest(d, bounds) = m
    BY DEF Widest
  <2> QED BY <2>1, <2>2, BoundsFields, Zenon
<1>6. IsWalker(a)
  BY OptionalKeeps DEF Keeps
<1>7. Each(e, b.within)
  BY DEF Each
<1> HIDE DEF a, f, F, b, B, e
<1>8. m \in Nat /\ 1 <= m /\ b.widest <= m
  BY <1>2, WiderThanBoth
<1> HIDE DEF m
<1>9. SeesNothing(c, m) /\ \A x \in f.portable : SeesEnd(c, x, m)
  BY <1>2, <1>8, InsideALargerOne
<1>10. \A s \in Buffer : \A pos \in 0 .. Len(s) : a.read[s][pos] = ReadOptional(c, s, pos)
  BY <1>3
<1>11. \A s \in Buffer : s \in Seq(Byte) /\ Len(s) \in Nat /\ (m <= Len(s) => 1 <= Len(s))
  BY <1>8, BufferIsSeq
<1>12. ASSUME NEW s \in Buffer, NEW pos \in 0 .. Len(s)
       PROVE  LET r == a.read[s][pos]
              IN  \/ r \in {Threw, Undefined}
                  \/ r \in {Done(e, pos), Done(e, pos + 1)}
                  \/ pos + 1 \in 0 .. Len(s) /\ r = ReadElements(c, 1, s, pos + 1)
  <2>1. CASE pos = Len(s)
    BY <1>10, <2>1, ReadOptionalResult DEF e
  <2>2. CASE pos # Len(s)
    <3>1. pos < Len(s) /\ pos + 1 \in 0 .. Len(s)
      BY <1>11, <2>2
    <3> QED BY <1>10, <3>1, ReadOptionalResult DEF e
  <2> QED BY <2>1, <2>2
<1>13. KeepsLimits(a, B.within)
  <2>1. ASSUME NEW s \in Buffer, NEW pos \in 0 .. Len(s), Ok(a.read[s][pos])
        PROVE  a.read[s][pos].value \in B.within
    <3> DEFINE r == a.read[s][pos]
    <3>1. Each(r.value, b.within)
      <4> HIDE DEF r
      <4>1. \/ r \in {Done(e, pos), Done(e, pos + 1)}
            \/ pos + 1 \in 0 .. Len(s) /\ r = ReadElements(c, 1, s, pos + 1)
        BY <1>12, <2>1, OutcomesAreOutcomes DEF r
      <4>2. CASE r \in {Done(e, pos), Done(e, pos + 1)}
        <5>1. r.value = e
          BY <4>2, DoneFields
        <5> QED BY <1>7, <5>1
      <4>3. CASE pos + 1 \in 0 .. Len(s) /\ r = ReadElements(c, 1, s, pos + 1)
        <5> DEFINE n == 1
        <5>1. n \in Nat /\ r = ReadElements(c, n, s, pos + 1) /\ Ok(ReadElements(c, n, s, pos + 1))
          BY <2>1, <4>3 DEF r
        <5> HIDE DEF n
        <5>2. Each(ReadElements(c, n, s, pos + 1).value, b.within)
          BY <1>1, <1>2, <4>3, <5>1, ElementsKeepLimits
        <5> QED BY <5>1, <5>2
      <4> QED BY <4>1, <4>2, <4>3
    <3>2. r.value \in Values(a)
      BY <1>6, <2>1, WalkerFields
    <3> QED BY <1>5, <3>1, <3>2
  <2> QED BY <2>1 DEF KeepsLimits
<1>14. ASSUME NEW s \in Buffer, m <= Len(s) PROVE a.read[s][Len(s)] # Undefined
  <2>1. Len(s) \in 0 .. Len(s) /\ 1 <= Len(s)
    BY <1>11, <1>14
  <2>2. a.read[s][Len(s)] = Done(<<>>, Len(s))
    BY <1>10, <2>1, NoOptional
  <2> QED BY <2>2, Distinct
<1>15. ASSUME NEW v \in F.portable PROVE SeesEnd(a, v, m)
  <2> DEFINE n == Len(v)
      h == <<n>>
      w == WriteElements(c, v)
  <2>1. v \in Values(a) /\ v \in Seq(Values(c)) /\ Each(v, f.portable) /\ n <= 1
    BY <1>3, <1>4
  <2>2. v \in Seq(f.portable) /\ n \in Nat /\ w \in Seq(Byte) /\ a.write[v] = h \o w
    BY <1>1, <1>3, <2>1, EachIsSeq, SeqIsFunction, WrittenIsBytes
  <2>3. n \in {0, 1}
    <3> HIDE DEF n
    <3> QED BY <2>1, <2>2
  <2>4. h \in Seq(Byte) /\ Len(h) = 1 /\ h[1] = n
    <3> HIDE DEF n
    <3> QED BY <2>3, BitsAreBytes, OneByte
  <2>5. ASSUME NEW s \in Buffer, NEW pos \in 0 .. Len(s), m <= Len(s),
               EndsWithin(s, pos, a.write[v])
        PROVE  a.read[s][pos] # Undefined
    <3>1. a.read[s][pos] = ReadOptional(c, s, pos) /\ s \in Seq(Byte) /\ Len(s) \in Nat
      BY <1>10, <1>11
    <3>2. \/ EndsWithin(s, pos, h)
          \/ Holds(s, pos, h) /\ EndsWithin(s, pos + 1, w)
      <4> HIDE DEF h, w
      <4>1. EndsWithin(s, pos, h \o w)
        BY <2>2, <2>5
      <4> QED BY <2>2, <2>4, <3>1, <4>1, EndsWithinOne
    <3>3. CASE EndsWithin(s, pos, h)
      <4> HIDE DEF h
      <4>1. pos = Len(s)
        BY <2>4, <3>1, <3>3 DEF EndsWithin
      <4> QED BY <1>14, <2>5, <4>1
    <3>4. CASE Holds(s, pos, h) /\ EndsWithin(s, pos + 1, w)
      <4>1. pos < Len(s) /\ pos + 1 \in 0 .. Len(s) /\ s[pos + 1] = n
        <5> HIDE DEF h
        <5>1. pos + 1 <= Len(s) /\ \A i \in 1 .. 1 : s[pos + i] = h[i]
          BY <2>4, <3>4 DEF Holds
        <5> QED BY <2>4, <3>1, <5>1
      <4>2. CASE n = 0
        BY <3>1, <4>1, <4>2, ReadOptionalResult, Distinct
      <4>3. CASE n = 1
        <5>1. a.read[s][pos] = ReadElements(c, Len(v), s, pos + 1)
          BY <3>1, <4>1, <4>3, ReadOptionalResult
        <5>2. Keeps(c, f)
          BY DEF f
        <5>3. ReadElements(c, Len(v), s, pos + 1) # Undefined
          BY <1>9, <2>2, <2>5, <3>4, <4>1, <5>2, ElementsSeeEnd
        <5> QED BY <5>1, <5>3
      <4> QED BY <2>3, <4>2, <4>3
    <3> QED BY <3>2, <3>3, <3>4
  <2> QED BY <2>5 DEF SeesEnd
<1>16. Bounded(a, F, B)
  BY <1>5, <1>8, <1>13, <1>14, <1>15 DEF Bounded, SeesNothing
<1> QED BY <1>16 DEF a, F, B

LEMMA SpStringBounded ==
    ASSUME NEW d, d.kind = "spstring", NEW f, NEW known
    PROVE  Bounded(SpStringWalker, f, BoundsOf(d, Values(SpStringWalker), known))
<1> DEFINE a == SpStringWalker
    b == BoundsOf(d, Values(a), known)
    c == NumWalker(1)
<1>1. IsWalker(a)
  BY SpStringKeeps DEF Keeps
<1>2. IsWalker(c)
  <2> DEFINE num == [kind |-> "num", width |-> 1]
  <2>1. num.kind = "num" /\ num.width = 1
    OBVIOUS
  <2> HIDE DEF num
  <2>2. Keeps(c, FormatOf(num, Values(c), <<>>))
    BY <2>1, BitsAreBytes, NumKeeps
  <2> QED BY <2>2 DEF Keeps
<1>3. SizeWidth \in Nat \ {0} /\ SpLimit \in Nat
  BY WidthIsNat, WalkersAssumption
<1>4. /\ Values(a) = Seq(Byte)
      /\ \A s \in Buffer : \A pos \in Nat : a.read[s][pos] = ReadSpString(s, pos)
  BY DEF SpStringWalker, Values
<1>5. b.within = {v \in Values(a) : Len(v) <= SpLimit} /\ b.widest = SizeWidth
  <2>1. Within(d, Values(a), known) = {v \in Values(a) : Len(v) <= SpLimit}
    BY DEF Within
  <2>2. Widest(d, known) = SizeWidth
    BY DEF Widest
  <2> QED BY <2>1, <2>2, BoundsFields, Zenon
<1>6. \A s \in Buffer : \A pos \in 0 .. Len(s) : c.read[s][pos] = ReadNum(1, s, pos)
  BY NumRead
<1> HIDE DEF a, b, c
<1>7. ASSUME NEW s \in Buffer, NEW pos \in 0 .. Len(s)
      PROVE  LET chars == ReadSp(c, s, pos)
                 r == a.read[s][pos]
             IN  /\ (chars # Undefined /\
                        (Ok(chars) => ReadNum(1, s, chars.pos) # Undefined)) => r # Undefined
                 /\ Ok(r) => Ok(chars) /\ Len(r.value) = Len(chars.value)
                 /\ Ok(chars) => /\ chars.pos \in 0 .. Len(s)
                                 /\ Len(chars.value) \in Nat /\ Len(chars.value) <= SpLimit
  <2> DEFINE chars == ReadSp(c, s, pos)
      end == ReadNum(1, s, chars.pos)
      r == a.read[s][pos]
      text == [i \in 1 .. Len(chars.value) |-> chars.value[i][1]]
  <2>1. r = IF ~ Ok(chars) THEN chars ELSE IF ~ Ok(end) THEN end ELSE Done(text, end.pos)
    BY <1>4 DEF ReadSpString, c
  <2>2. Ok(chars) => /\ pos + SizeWidth <= Len(s) /\ SizeOf(SizeAt(s, pos)) <= SpLimit
                     /\ chars.value \in Seq(Values(c))
                     /\ Len(chars.value) = SizeOf(SizeAt(s, pos))
                     /\ chars.pos \in pos + SizeWidth .. Len(s)
    BY <1>2, ReadSpResult
  <2>3. Len(s) \in Nat
    BY BufferIsSeq
  <2> HIDE DEF chars
  <2>4. Ok(chars) => /\ chars.pos \in 0 .. Len(s) /\ Len(chars.value) \in Nat
                     /\ Len(chars.value) <= SpLimit
    BY <1>3, <2>2, <2>3, SeqIsFunction
  <2>5. Ok(chars) => Len(text) = Len(chars.value)
    BY <2>4
  <2> HIDE DEF r, end, text
  <2>6. (chars # Undefined /\ (Ok(chars) => end # Undefined)) => r # Undefined
    BY <2>1, Distinct
  <2>7. Ok(r) => Ok(chars) /\ Len(r.value) = Len(chars.value)
    <3>1. CASE ~ Ok(chars)
      BY <2>1, <3>1
    <3>2. CASE Ok(chars) /\ ~ Ok(end)
      BY <2>1, <3>2
    <3>3. CASE Ok(chars) /\ Ok(end)
      <4>1. r = Done(text, end.pos)
        BY <2>1, <3>3
      <4>2. r.value = text
        BY <4>1, DoneFields
      <4> QED BY <2>5, <3>3, <4>2
    <3> QED BY <3>1, <3>2, <3>3
  <2> QED BY <2>4, <2>6, <2>7 DEF chars, end, r
<1>8. KeepsLimits(a, b.within)
  <2>1. ASSUME NEW s \in Buffer, NEW pos \in 0 .. Len(s), Ok(a.read[s][pos])
        PROVE  a.read[s][pos].value \in b.within
    <3>1. Len(a.read[s][pos].value) <= SpLimit
      BY <1>7, <2>1
    <3>2. a.read[s][pos].value \in Values(a)
      BY <1>1, <2>1, WalkerFields
    <3> QED BY <1>5, <3>1, <3>2
  <2> QED BY <2>1 DEF KeepsLimits
<1>9. StaysInBuffer(a, SizeWidth)
  <2>1. ASSUME NEW s \in Buffer, NEW pos \in 0 .. Len(s), SizeWidth <= Len(s)
        PROVE  a.read[s][pos] # Undefined
    <3> DEFINE chars == ReadSp(c, s, pos)
        n == SizeOf(SizeAt(s, pos))
        mid == pos + SizeWidth
    <3>1. 1 <= Len(s) /\ 1 \in Words \ {0}
      BY <1>3, <2>1, BufferIsSeq, BitsAreBytes
    <3>2. \A q \in 0 .. Len(s) : ReadNum(1, s, q) # Undefined
      BY <3>1, ReadNumRefuses
    <3>3. chars # Undefined
      <4>1. \/ chars = Threw
            \/ mid \in 0 .. Len(s) /\ n \in Nat /\ chars = ReadElements(c, n, s, mid)
        BY <1>2, <2>1, ReadSpCases
      <4>2. CASE mid \in 0 .. Len(s) /\ n \in Nat /\ chars = ReadElements(c, n, s, mid)
        <5> HIDE DEF n, mid
        <5>1. \A q \in mid .. Len(s) : q \in 0 .. Len(s)
          BY <4>2
        <5>2. \A q \in mid .. Len(s) : c.read[s][q] # Undefined
          BY <1>6, <3>2, <5>1
        <5>3. ReadElements(c, n, s, mid) # Undefined
          BY <1>2, <4>2, <5>2, ElementsInside
        <5> QED BY <4>2, <5>3
      <4> QED BY <4>1, <4>2, Distinct
    <3>4. Ok(chars) => ReadNum(1, s, chars.pos) # Undefined
      BY <1>7, <3>2
    <3> QED BY <1>7, <3>3, <3>4
  <2> QED BY <2>1 DEF StaysInBuffer
<1>10. Bounded(a, f, b)
  BY <1>3, <1>5, <1>8, <1>9, AlwaysInside DEF Bounded
<1> QED BY <1>10 DEF a, b

(***************************************************************************)
(* Every type                                                              *)
(***************************************************************************)

(* Whatever a program declares, its walkers keep to the bounds: a value    *)
(* that is read keeps the limits of all containers in it, and on a packet  *)
(* as long as its widest read a walker that meets the end of the packet    *)
(* throws or is done, and never reads on behind it.                        *)
THEOREM EveryTypeBounded == \A t \in Type : Bounded(Walker[t], Format[t], Bounds[t])
<1> DEFINE n == Len(Declared)
    T == {t \in Type : Bounded(Walker[t], Format[t], Bounds[t])}
<1>1. n \in Nat /\ Type = 1 .. n
  BY DeclaredType
<1>2. ASSUME NEW t \in 1 .. n, \A u \in 1 .. t - 1 : u \in T PROVE t \in T
  <2> DEFINE d == Declared[t]
      a == WalkerOf(d, Walker)
      of == Walker[d.of]
      first == Walker[d.first]
      rest == Walker[d.rest]
      Good(u) == Keeps(Walker[u], Format[u]) /\ Bounded(Walker[u], Format[u], Bounds[u])
  <2>1. t \in Type
    BY <1>1
  <2>2. /\ d.kind \in {"num", "empty", "string", "spstring", "end", "array", "sp",
                       "optional", "constrained", "object"}
        /\ d.kind = "num" => d.width \in Words \ {0}
        /\ d.kind = "array" => d.size \in Nat
        /\ d.kind \in {"array", "sp", "optional", "constrained"} => d.of \in 1 .. t - 1
        /\ d.kind = "object" => d.first \in 1 .. t - 1 /\ d.rest \in 1 .. t - 1
    BY <2>1, PartsComeBefore
  <2>3. \A u \in 1 .. t - 1 : Good(u)
    BY <1>2, EveryTypeKeeps
  <2>4. d.kind \in {"array", "sp", "optional", "constrained"} =>
            Keeps(of, Format[d.of]) /\ Bounded(of, Format[d.of], Bounds[d.of])
    BY <2>2, <2>3
  <2>5. d.kind = "object" =>
            /\ Keeps(first, Format[d.first]) /\ Bounded(first, Format[d.first], Bounds[d.first])
            /\ Keeps(rest, Format[d.rest]) /\ Bounded(rest, Format[d.rest], Bounds[d.rest])
    BY <2>2, <2>3
  <2>6. Walker[t] = a
    BY <2>1, WalkerEquation
  <2>7. /\ Format[t] = FormatOf(d, Values(a), Format)
        /\ Bounds[t] = BoundsOf(d, Values(a), Bounds)
    BY <2>1, <2>6, FormatEquation, BoundsEquation
  <2>8. /\ d.kind = "num" => a = NumWalker(d.width)
        /\ d.kind = "empty" => a = EmptyWalker
        /\ d.kind = "string" => a = StringWalker
        /\ d.kind = "spstring" => a = SpStringWalker
        /\ d.kind = "end" => a = EndWalker
        /\ d.kind = "array" => a = ArrayWalker(of, d.size)
        /\ d.kind = "sp" => a = SpWalker(of)
        /\ d.kind = "optional" => a = OptionalWalker(of)
        /\ d.kind = "constrained" => a = ConstrainedWalker(of, d.least, d.most)
        /\ d.kind = "object" => a = ObjectWalker(first, rest)
    BY DEF WalkerOf
  <2> HIDE DEF d, a, of, first, rest
  <2>9. Bounded(a, FormatOf(d, Values(a), Format), BoundsOf(d, Values(a), Bounds))
    <3>1. CASE d.kind = "num"
      BY <2>2, <2>8, <3>1, NumBounded
    <3>2. CASE d.kind \in {"empty", "end"}
      <4>1. a \in {EmptyWalker, EndWalker}
        BY <2>8, <3>2
      <4> QED BY <3>2, <4>1, EmptyBounded
    <3>3. CASE d.kind = "string"
      BY <2>8, <3>3, StringBounded
    <3>4. CASE d.kind = "spstring"
      BY <2>8, <3>4, SpStringBounded
    <3>5. CASE d.kind = "array"
      BY <2>2, <2>4, <2>8, <3>5, ArrayBounded
    <3>6. CASE d.kind = "sp"
      BY <2>4, <2>8, <3>6, SpBounded
    <3>7. CASE d.kind = "optional"
      BY <2>4, <2>8, <3>7, OptionalBounded
    <3>8. CASE d.kind = "constrained"
      BY <2>4, <2>8, <3>8, ConstrainedBounded
    <3>9. CASE d.kind = "object"
      BY <2>5, <2>8, <3>9, ObjectBounded
    <3> QED BY <2>2, <3>1, <3>2, <3>3, <3>4, <3>5, <3>6, <3>7, <3>8, <3>9
  <2> QED BY <2>1, <2>6, <2>7, <2>9
<1> HIDE DEF n, T
<1>3. \A t \in 1 .. n : t \in T
  BY <1>1, <1>2, OneAfterTheOther
<1> QED BY <1>1, <1>3 DEF T

-----------------------------------------------------------------------------
(***************************************************************************)
(* Packets                                                                 *)
(***************************************************************************)

(* Where the bytes at hand come from, before and after they are read. *)
Origin == IF stage = "read" THEN source ELSE stage

(* What the bytes at hand have to do with the value written. *)
PacketFits ==
    LET written == Write(type, value)
    IN  /\ value \in Values(Walker[type])
        /\ Len(written) + 1 < WordSize
        /\ \/ Origin = "written" /\ packet = written
           \/ Origin = "cut" /\ \E n \in 0 .. Len(written) - 1 : packet = SubSeq(written, 1, n)
           \/ Origin = "grown" /\ \E b \in Byte : packet = Append(written, b)

ResultFits == stage = "read" => result = Read(type, packet, 0)

PacketInv ==
    /\ type \in Type
    /\ packet \in Buffer
    /\ Origin \in {"object", "foreign"} \/ PacketFits
    /\ ResultFits

(* The bytes of a value, and those bytes with or without an end. *)
LEMMA WrittenFits ==
    ASSUME NEW t \in Type, NEW v \in Values(Walker[t])
    PROVE  Write(t, v) \in Seq(Byte) /\ Len(Write(t, v)) \in Nat
<1>1. Write(t, v) \in Seq(Byte)
  BY EveryTypeKeeps DEF Write, Keeps, IsWalker
<1> QED BY <1>1, SeqIsFunction

LEMMA InTheBuffer ==
    ASSUME NEW w \in Seq(Byte), Len(w) + 1 < WordSize
    PROVE  /\ w \in Buffer /\ Holds(w, 0, w)
           /\ \A b \in Byte : /\ Append(w, b) \in Buffer
                              /\ Len(Append(w, b)) = Len(w) + 1
                              /\ Holds(Append(w, b), 0, w)
           /\ \A n \in 0 .. Len(w) - 1 : /\ SubSeq(w, 1, n) \in Buffer
                                         /\ Len(SubSeq(w, 1, n)) = n
                                         /\ EndsWithin(SubSeq(w, 1, n), 0, w)
<1>1. Len(w) \in Nat /\ WordSize \in Nat
  BY SeqIsFunction, WordAssumption
<1>2. w \in Buffer /\ Holds(w, 0, w)
  BY <1>1 DEF Buffer, Holds
<1>3. ASSUME NEW b \in Byte
      PROVE  /\ Append(w, b) \in Buffer
             /\ Len(Append(w, b)) = Len(w) + 1
             /\ Holds(Append(w, b), 0, w)
  <2> DEFINE s == Append(w, b)
  <2>1. s \in Seq(Byte) /\ Len(s) = Len(w) + 1 /\ \A i \in 1 .. Len(w) : s[i] = w[i]
    BY AppendProperties
  <2> HIDE DEF s
  <2>2. s \in Buffer
    BY <1>1, <2>1 DEF Buffer
  <2>3. Holds(s, 0, w)
    <3>1. \A i \in 1 .. Len(w) : 0 + i = i
      BY <1>1
    <3>2. 0 + Len(w) <= Len(s)
      BY <1>1, <2>1
    <3> QED BY <2>1, <3>1, <3>2 DEF Holds
  <2> QED BY <2>1, <2>2, <2>3 DEF s
<1>4. ASSUME NEW n \in 0 .. Len(w) - 1
      PROVE  /\ SubSeq(w, 1, n) \in Buffer
             /\ Len(SubSeq(w, 1, n)) = n
             /\ EndsWithin(SubSeq(w, 1, n), 0, w)
  <2> DEFINE s == SubSeq(w, 1, n)
  <2>1. n \in Nat /\ 0 + n <= Len(w) /\ 0 + n = n /\ 0 + 1 = 1
    BY <1>1
  <2>2. s \in Seq(Byte) /\ Len(s) = n /\ \A i \in 1 .. n : s[i] = w[0 + i]
    <3>1. /\ SubSeq(w, 0 + 1, 0 + n) \in Seq(Byte)
          /\ Len(SubSeq(w, 0 + 1, 0 + n)) = n
          /\ \A i \in 1 .. n : SubSeq(w, 0 + 1, 0 + n)[i] = w[0 + i]
      BY <2>1, Slice
    <3> QED BY <2>1, <3>1
  <2> HIDE DEF s
  <2>3. s \in Buffer
    BY <1>1, <2>2 DEF Buffer
  <2>4. EndsWithin(s, 0, w)
    <3>1. ASSUME NEW i \in 1 .. Len(s) - 0 PROVE s[0 + i] = w[i]
      <4>1. i \in 1 .. n /\ 0 + i = i
        BY <2>1, <2>2
      <4> QED BY <2>2, <4>1
    <3>2. Len(s) < 0 + Len(w)
      BY <1>1, <2>2
    <3> QED BY <3>1, <3>2 DEF EndsWithin
  <2> QED BY <2>2, <2>3, <2>4 DEF s
<1> QED BY <1>2, <1>3, <1>4

LEMMA SameBeginning ==
    ASSUME NEW v \in Seq(Byte), NEW w \in Seq(Byte), NEW n \in Nat,
           n <= Len(v), n <= Len(w), \A i \in 1 .. n : v[i] = w[i]
    PROVE  SubSeq(v, 1, n) = SubSeq(w, 1, n)
<1> DEFINE Part(s) == SubSeq(s, 1, n)
<1>1. ASSUME NEW s \in Seq(Byte), n <= Len(s)
      PROVE  Part(s) \in [1 .. n -> Byte] /\ \A i \in 1 .. n : Part(s)[i] = s[i]
  <2>1. n \in Nat /\ 0 + n <= Len(s) /\ 0 + n = n /\ 0 + 1 = 1
    BY <1>1, SeqIsFunction
  <2>2. /\ SubSeq(s, 0 + 1, 0 + n) \in Seq(Byte)
        /\ Len(SubSeq(s, 0 + 1, 0 + n)) = n
        /\ \A i \in 1 .. n : SubSeq(s, 0 + 1, 0 + n)[i] = s[0 + i]
    BY <2>1, Slice
  <2>3. \A i \in 1 .. n : 0 + i = i
    OBVIOUS
  <2>4. /\ Part(s) \in Seq(Byte) /\ Len(Part(s)) = n
        /\ \A i \in 1 .. n : Part(s)[i] = s[i]
    BY <2>1, <2>2, <2>3
  <2> HIDE DEF Part
  <2> QED BY <2>4, SeqIsFunction
<1> DEFINE a == Part(v)
    b == Part(w)
<1>2. /\ a \in [1 .. n -> Byte] /\ b \in [1 .. n -> Byte]
      /\ \A i \in 1 .. n : a[i] = v[i] /\ b[i] = w[i]
  BY <1>1
<1> HIDE DEF a, b
<1>3. \A i \in 1 .. n : a[i] = b[i]
  BY <1>2
<1>4. a = [i \in 1 .. n |-> a[i]] /\ b = [i \in 1 .. n |-> b[i]]
  BY <1>2
<1>5. a = b
  BY <1>3, <1>4, Zenon
<1> QED BY <1>5 DEF a, b

(* The invariant holds in the beginning.                                   *)
LEMMA PacketInit == Init => PacketInv
<1> SUFFICES ASSUME Init PROVE PacketInv
  OBVIOUS
<1>1. type \in Type
  BY CodecAssumption DEF Init
<1>2. packet \in Buffer
  BY WordAssumption, EmptySeq DEF Init, Buffer
<1> QED BY <1>1, <1>2 DEF Init, PacketInv, Origin, ResultFits

(* A packet comes from the value it carries, until it is read and after. *)
LEMMA PacketStep == PacketInv /\ [Next]_vars => PacketInv'
<1> SUFFICES ASSUME PacketInv, [Next]_vars PROVE PacketInv'
  OBVIOUS
<1> USE DEF PacketInv
<1>1. CASE Serialize
  <2>1. /\ stage = "object" /\ stage' = "written" /\ type' = type /\ source' = source
        /\ value' \in Values(Walker[type]) /\ packet' = Write(type, value')
        /\ Len(Write(type, value')) + 1 < WordSize
    BY <1>1, CodecAssumption DEF Serialize
  <2>2. Write(type, value') \in Seq(Byte)
    BY <2>1, WrittenFits
  <2>3. packet' \in Buffer
    BY <2>1, <2>2, InTheBuffer
  <2>4. PacketFits'
    BY <2>1 DEF PacketFits, Origin, Write
  <2> QED BY <2>1, <2>3, <2>4 DEF ResultFits
<1>2. CASE LoseEnd
  <2>1. /\ stage = "written" /\ stage' = "cut" /\ type' = type /\ value' = value
        /\ source' = source /\ PacketFits
    BY <1>2 DEF LoseEnd, Origin
  <2>2. /\ packet = Write(type, value) /\ value \in Values(Walker[type])
        /\ Len(Write(type, value)) + 1 < WordSize
    BY <2>1 DEF PacketFits, Origin
  <2>3. Write(type, value) \in Seq(Byte)
    BY <2>2, WrittenFits
  <2>4. PICK n \in 0 .. Len(Write(type, value)) - 1 :
            packet' = SubSeq(Write(type, value), 1, n)
    BY <1>2, <2>2 DEF LoseEnd
  <2>5. packet' \in Buffer
    BY <2>2, <2>3, <2>4, InTheBuffer
  <2>6. PacketFits'
    BY <2>1, <2>2, <2>4 DEF PacketFits, Origin, Write
  <2> QED BY <2>1, <2>5, <2>6 DEF ResultFits
<1>3. CASE GrowEnd
  <2>1. /\ stage = "written" /\ stage' = "grown" /\ type' = type /\ value' = value
        /\ source' = source /\ PacketFits
    BY <1>3 DEF GrowEnd, Origin
  <2>2. /\ packet = Write(type, value) /\ value \in Values(Walker[type])
        /\ Len(Write(type, value)) + 1 < WordSize
    BY <2>1 DEF PacketFits, Origin
  <2>3. Write(type, value) \in Seq(Byte)
    BY <2>2, WrittenFits
  <2>4. PICK b \in Byte : packet' = Append(Write(type, value), b)
    BY <1>3, <2>2 DEF GrowEnd
  <2>5. packet' \in Buffer
    BY <2>2, <2>3, <2>4, InTheBuffer
  <2>6. PacketFits'
    BY <2>1, <2>2, <2>4 DEF PacketFits, Origin, Write
  <2> QED BY <2>1, <2>5, <2>6 DEF ResultFits
<1>4. CASE Foreign
  <2>1. stage' = "foreign" /\ type' = type
    BY <1>4 DEF Foreign
  <2>2. PICK n \in 0 .. MaxForeign : packet' \in [1 .. n -> Byte]
    BY <1>4 DEF Foreign
  <2>3. n \in Nat /\ n < WordSize
    BY CodecAssumption, WordAssumption DEF Words
  <2>4. packet' \in Buffer
    BY <2>2, <2>3, FunctionIsSeq DEF Buffer
  <2> QED BY <2>1, <2>4 DEF Origin, ResultFits
<1>5. CASE Deserialize
  <2>1. /\ stage # "read" /\ stage' = "read" /\ source' = stage
        /\ result' = Read(type, packet, 0)
        /\ type' = type /\ value' = value /\ packet' = packet
    BY <1>5 DEF Deserialize
  <2>2. Origin' = Origin
    BY <2>1 DEF Origin
  <2>3. PacketFits => PacketFits'
    BY <2>1, <2>2 DEF PacketFits, Write
  <2> QED BY <2>1, <2>2, <2>3 DEF ResultFits, Read
<1>6. CASE UNCHANGED vars
  <2>1. /\ type' = type /\ value' = value /\ packet' = packet /\ stage' = stage
        /\ source' = source /\ result' = result
    BY <1>6 DEF vars
  <2>2. Origin' = Origin
    BY <2>1 DEF Origin
  <2>3. PacketFits => PacketFits'
    BY <2>1, <2>2 DEF PacketFits, Write
  <2> QED BY <2>1, <2>2, <2>3 DEF ResultFits, Read
<1> QED BY <1>1, <1>2, <1>3, <1>4, <1>5, <1>6 DEF Next

(* The type at hand is one that is declared, the bytes at hand fit into a  *)
(* buffer and are those of the value written, with or without an end, and  *)
(* the result is what reading them has given.                              *)
THEOREM PacketCorrect == Spec => []PacketInv
BY PacketInit, PacketStep, PTL DEF Spec

(* serializer::read gives back what serializer::write was given, for every *)
(* type, every portable value, and whatever follows it in the packet.      *)
THEOREM PacketRoundTrip == Spec => []RoundTrip
<1>1. PacketInv => RoundTrip
  <2> SUFFICES ASSUME PacketInv, stage = "read", source \in {"written", "grown"},
                      value \in Format[type].portable
               PROVE  result = Done(value, Len(packet) - (IF source = "grown" THEN 1 ELSE 0))
    BY DEF RoundTrip
  <2> DEFINE w == Write(type, value)
  <2>1. /\ type \in Type /\ packet \in Buffer /\ result = Read(type, packet, 0)
        /\ value \in Values(Walker[type]) /\ Len(w) + 1 < WordSize
        /\ \/ source = "written" /\ packet = w
           \/ source = "grown" /\ \E b \in Byte : packet = Append(w, b)
    BY DEF PacketInv, PacketFits, ResultFits, Origin
  <2>2. w \in Seq(Byte) /\ Len(w) \in Nat
    BY <2>1, WrittenFits
  <2> HIDE DEF w
  <2>3. /\ Holds(packet, 0, w)
        /\ Len(packet) - (IF source = "grown" THEN 1 ELSE 0) = 0 + Len(w)
    <3>1. CASE source = "written" /\ packet = w
      <4>1. Len(packet) - (IF source = "grown" THEN 1 ELSE 0) = 0 + Len(w)
        BY <2>2, <3>1
      <4>2. Holds(packet, 0, w)
        BY <2>1, <2>2, <3>1, InTheBuffer
      <4> QED BY <4>1, <4>2
    <3>2. CASE source = "grown" /\ \E b \in Byte : packet = Append(w, b)
      <4>1. Holds(packet, 0, w) /\ Len(packet) = Len(w) + 1
        BY <2>1, <2>2, <3>2, InTheBuffer
      <4> QED BY <2>2, <3>2, <4>1
    <3> QED BY <2>1, <3>1, <3>2
  <2>4. 0 \in 0 .. Len(packet)
    BY <2>1, BufferIsSeq
  <2>5. ReadsBack(Walker[type], value)
    BY <2>1, EveryTypeKeeps DEF Keeps
  <2>6. Walker[type].read[packet][0] = Done(value, 0 + Len(w))
    BY <2>1, <2>3, <2>4, <2>5 DEF ReadsBack, Write, w
  <2> QED BY <2>1, <2>3, <2>6 DEF Read
<1> QED BY <1>1, PacketCorrect, PTL

(* A packet whose end is missing is refused, or read as the value written  *)
(* without optionals that came last, for every type and every cut that     *)
(* leaves the bytes of the widest read; of a shorter one more may be read  *)
(* than it has.                                                            *)
THEOREM PacketCut == Spec => []CutIsNoticed
<1>1. PacketInv => CutIsNoticed
  <2> DEFINE Shorter == <<value, result.value>> \in Format[type].shortened
  <2> SUFFICES ASSUME PacketInv, stage = "read", source = "cut",
                      value \in Format[type].portable
               PROVE  \/ result = Threw
                      \/ Ok(result) /\ Shorter
                      \/ result = Undefined /\ Len(packet) < Bounds[type].widest
    BY DEF CutIsNoticed
  <2> DEFINE w == Write(type, value)
      m == Bounds[type].widest
  <2>1. /\ type \in Type /\ packet \in Buffer /\ result = Read(type, packet, 0)
        /\ value \in Values(Walker[type]) /\ Len(w) + 1 < WordSize
        /\ \E n \in 0 .. Len(w) - 1 : packet = SubSeq(w, 1, n)
    BY DEF PacketInv, PacketFits, ResultFits, Origin
  <2>2. w \in Seq(Byte)
    BY <2>1, WrittenFits
  <2> HIDE DEF w
  <2>3. EndsWithin(packet, 0, Walker[type].write[value])
    <3>1. EndsWithin(packet, 0, w)
      BY <2>1, <2>2, InTheBuffer
    <3> QED BY <3>1 DEF w, Write
  <2>4. 0 \in 0 .. Len(packet) /\ Len(packet) \in Nat
    BY <2>1, BufferIsSeq
  <2>5. result = Walker[type].read[packet][0]
    BY <2>1 DEF Read
  <2>6. /\ IsWalker(Walker[type])
        /\ NoticesEnd(Walker[type], value, Format[type].shortened)
    BY <2>1, EveryTypeKeeps DEF Keeps
  <2>7. m \in Nat /\ SeesEnd(Walker[type], value, m)
    BY <2>1, EveryTypeBounded DEF Bounded
  <2>8. Ok(result) => Shorter
    BY <2>1, <2>3, <2>4, <2>5, <2>6 DEF NoticesEnd
  <2>9. m <= Len(packet) => result # Undefined
    BY <2>1, <2>3, <2>4, <2>5, <2>7 DEF SeesEnd
  <2>10. Ok(result) \/ result = Threw \/ result = Undefined
    <3>1. result \in Outcome(Values(Walker[type]), packet)
      BY <2>1, <2>4, <2>5, <2>6 DEF IsWalker
    <3> QED BY <2>1, <3>1, OutcomeCases
  <2> HIDE DEF Shorter, m
  <2>11. result = Undefined => Len(packet) < m
    BY <2>4, <2>7, <2>9
  <2> QED BY <2>8, <2>10, <2>11 DEF m
<1> QED BY <1>1, PacketCorrect, PTL

(* Whatever bytes arrive, the containers in what is read keep their        *)
(* limits.                                                                 *)
THEOREM PacketLimits == Spec => []LimitsAreKept
<1>1. PacketInv => LimitsAreKept
  <2> SUFFICES ASSUME PacketInv, stage = "read", Ok(result)
               PROVE  result.value \in Bounds[type].within
    BY DEF LimitsAreKept
  <2>1. type \in Type /\ packet \in Buffer /\ result = Walker[type].read[packet][0]
    BY DEF PacketInv, ResultFits, Read
  <2>2. 0 \in 0 .. Len(packet)
    BY <2>1, BufferIsSeq
  <2>3. KeepsLimits(Walker[type], Bounds[type].within)
    BY <2>1, EveryTypeBounded DEF Bounded
  <2> QED BY <2>1, <2>2, <2>3 DEF KeepsLimits
<1> QED BY <1>1, PacketCorrect, PTL

(* Whatever bytes arrive, what is read from them is the value whose bytes  *)
(* they are: a type has one encoding of each value, and every walker of it *)
(* keeps to that one.                                                      *)
THEOREM PacketCanonical == Spec => []Canonical
<1>1. PacketInv => Canonical
  <2> SUFFICES ASSUME PacketInv, stage = "read", Ok(result), Format[type].exact
               PROVE  LET w == Write(type, result.value)
                      IN  /\ result.pos <= Len(w)
                          /\ SubSeq(packet, 1, result.pos) = SubSeq(w, 1, result.pos)
    BY DEF Canonical
  <2> DEFINE w == Write(type, result.value)
      n == result.pos
  <2>1. type \in Type /\ packet \in Buffer /\ result = Walker[type].read[packet][0]
    BY DEF PacketInv, ResultFits, Read
  <2>2. packet \in Seq(Byte) /\ Len(packet) \in Nat /\ 0 \in 0 .. Len(packet)
    BY <2>1, BufferIsSeq
  <2>3. IsWalker(Walker[type]) /\ ReadsWhatIsWritten(Walker[type])
    BY <2>1, EveryTypeKeeps DEF Keeps
  <2>4. result \in Outcome(Values(Walker[type]), packet)
    BY <2>1, <2>2, <2>3 DEF IsWalker
  <2>5. result.value \in Values(Walker[type]) /\ n \in 0 .. Len(packet)
    BY <2>1, <2>4, OutcomeCases
  <2>6. w \in Seq(Byte) /\ Len(w) \in Nat
    BY <2>1, <2>5, WrittenFits
  <2>7. Begins(packet, 0, n, w)
    BY <2>1, <2>2, <2>3 DEF ReadsWhatIsWritten, Write
  <2> HIDE DEF w, n
  <2>8. n \in Nat /\ n <= Len(w) /\ n <= Len(packet)
    BY <2>2, <2>5, <2>6, <2>7 DEF Begins
  <2>9. SubSeq(packet, 1, n) = SubSeq(w, 1, n)
    <3>1. ASSUME NEW i \in 1 .. n PROVE packet[i] = w[i]
      <4>1. i \in 1 .. n - 0 /\ 0 + i = i
        BY <2>8
      <4> QED BY <2>7, <4>1 DEF Begins
    <3> QED BY <2>2, <2>6, <2>8, <3>1, SameBeginning
  <2> QED BY <2>8, <2>9 DEF w, n
<1> QED BY <1>1, PacketCorrect, PTL

-----------------------------------------------------------------------------
(***************************************************************************)
(* PacketDispatch and the bounds check of read_stream, for every word      *)
(* size, packet size and set of schemas.                                   *)
(***************************************************************************)

(* The bounds check says what it is meant to say on a buffer that is at    *)
(* least as long as the value.                                             *)
THEOREM CheckIsExact ==
    ASSUME NEW bs \in Words, NEW pos \in Words, NEW n \in Words, n <= bs
    PROVE  CanReadNum(bs, pos, n) <=> pos + n <= bs
BY WordAssumption DEF CanReadNum, Minus, Words

(* On a shorter buffer it lets a read pass at the position 0, whatever the *)
(* value: the difference of the sizes wraps.                               *)
THEOREM CheckWraps ==
    ASSUME NEW bs \in Words, NEW n \in Words, bs < n
    PROVE  CanReadNum(bs, 0, n)
BY WordAssumption DEF CanReadNum, Minus, Words
-----------------------------------------------------------------------------

(* A packet of MinBytes holds any one of these values. *)
NarrowFields(widths) == \A i \in 1 .. Len(widths) : widths[i] <= MinBytes

(* No packet is shorter than a value that is read from it. *)
NoneShorter ==
    /\ HeaderWidth <= MinBytes
    /\ \A s \in Schemas : NarrowFields(s)

(* What keeps reads inside: the position is, and the fields still to be    *)
(* read are no wider than a packet.                                        *)
IInv ==
    /\ handlers \in [Ids -> Schemas \cup {None}]
    /\ id \in Ids
    /\ bytes \in MinBytes .. MaxBytes
    /\ position \in 0 .. bytes
    /\ fields \in Seq(Words)
    /\ NarrowFields(fields)

(* Reading goes through the widths from the front. *)
LEMMA NarrowHeadTail ==
    ASSUME NEW ws \in Seq(Words), NarrowFields(ws), ws # <<>>
    PROVE  /\ Head(ws) \in 0 .. MinBytes
           /\ Tail(ws) \in Seq(Words)
           /\ NarrowFields(Tail(ws))
<1>1. /\ Len(ws) \in Nat \ {0}
      /\ Head(ws) = ws[1]
      /\ Head(ws) \in Words
  OBVIOUS
<1>2. Head(ws) \in 0 .. MinBytes
  BY <1>1, DispatchAssumption, WordAssumption DEF NarrowFields, Words
<1>3. /\ Tail(ws) \in Seq(Words)
      /\ Len(Tail(ws)) = Len(ws) - 1
      /\ \A i \in 1 .. Len(ws) - 1 : Tail(ws)[i] = ws[i + 1]
  BY <1>1
<1>4. NarrowFields(Tail(ws))
  BY <1>1, <1>3 DEF NarrowFields
<1> QED BY <1>2, <1>3, <1>4

(* A read of a value no wider than the packet stays inside. *)
LEMMA ReadStaysInside ==
    ASSUME IInv, NEW n \in 0 .. MinBytes, NEW next, ReadBytes(n, next)
    PROVE  position' \in 0 .. bytes
<1>1. MinBytes \in Nat /\ bytes \in Words /\ position \in Words /\ n \in Words
  BY DispatchAssumption, WordAssumption DEF IInv, Words
<1>2. CASE n = 0 \/ CanReadNum(bytes, position, n)
  <2>1. position' = position + n
    BY <1>2 DEF ReadBytes, Reads
  <2>2. position + n <= bytes
    <3>1. CASE n = 0
      BY <1>1, <3>1 DEF IInv, Words
    <3>2. CASE CanReadNum(bytes, position, n)
      BY <1>1, <3>2, CheckIsExact DEF IInv, Words
    <3> QED BY <1>2, <3>1, <3>2
  <2> QED BY <1>1, <2>1, <2>2 DEF Words
<1>3. CASE ~ (n = 0 \/ CanReadNum(bytes, position, n))
  BY <1>3 DEF ReadBytes, Reads, Finish, IInv
<1> QED BY <1>2, <1>3

(* Every step keeps the invariant.                                         *)
LEMMA NextIInv == NoneShorter /\ IInv /\ [DispatchNext]_dispatchVars => IInv'
<1> SUFFICES ASSUME NoneShorter, IInv, [DispatchNext]_dispatchVars PROVE IInv'
  OBVIOUS
<1>1. CASE RegisterHandler
  <2>1. handlers' \in [Ids -> Schemas \cup {None}]
    BY <1>1 DEF RegisterHandler, Registered, IInv
  <2> QED BY <1>1, <2>1 DEF RegisterHandler, IInv
<1>2. CASE HandlePacket
  <2>1. position' \in 0 .. bytes'
    BY <1>2, DispatchAssumption DEF HandlePacket
  <2>2. fields' \in Seq(Words) /\ NarrowFields(fields')
    BY <1>2 DEF HandlePacket, NarrowFields
  <2> QED BY <1>2, <2>1, <2>2 DEF HandlePacket, IInv
<1>3. CASE ReadHeader
  <2>1. HeaderWidth \in 0 .. MinBytes /\ ReadBytes(HeaderWidth, "find")
    BY <1>3, DispatchAssumption DEF ReadHeader, NoneShorter, Words
  <2>2. position' \in 0 .. bytes
    BY <2>1, ReadStaysInside
  <2> QED BY <1>3, <2>2 DEF ReadHeader, ReadBytes, IInv
<1>4. CASE FindHandler
  <2>1. CASE HasHandler
    <3>1. handlers[id] \in Schemas /\ fields' = handlers[id]
      BY <1>4, <2>1 DEF FindHandler, HasHandler, IInv
    <3>2. fields' \in Seq(Words) /\ NarrowFields(fields')
      BY <3>1, DispatchAssumption DEF NoneShorter
    <3> QED BY <1>4, <3>2 DEF FindHandler, IInv
  <2>2. CASE ~ HasHandler
    BY <1>4, <2>2 DEF FindHandler, IInv
  <2> QED BY <2>1, <2>2
<1>5. CASE ReadField
  <2>1. /\ Head(fields) \in 0 .. MinBytes
        /\ Tail(fields) \in Seq(Words)
        /\ NarrowFields(Tail(fields))
    BY <1>5, NarrowHeadTail DEF ReadField, IInv
  <2>2. position' \in 0 .. bytes
    BY <1>5, <2>1, ReadStaysInside DEF ReadField
  <2> QED BY <1>5, <2>1, <2>2 DEF ReadField, ReadBytes, IInv
<1>6. CASE CallHandler
  BY <1>6 DEF CallHandler, IInv
<1>7. CASE HandlerReturns
  BY <1>7 DEF HandlerReturns, Finish, IInv
<1>8. CASE UNCHANGED dispatchVars
  BY <1>8 DEF dispatchVars, IInv
<1> QED BY <1>1, <1>2, <1>3, <1>4, <1>5, <1>6, <1>7, <1>8 DEF DispatchNext

(* The invariant holds in every reachable state.                           *)
LEMMA StaysInside ==
    ASSUME NoneShorter
    PROVE  DispatchSpec => []IInv
<1>1. DispatchInit => IInv
  BY DispatchAssumption DEF DispatchInit, IInv, NarrowFields
<1>2. IInv /\ [DispatchNext]_dispatchVars => IInv'
  BY NextIInv
<1> QED BY <1>1, <1>2, PTL DEF DispatchSpec

(* No read goes past the end of a packet, as long as no packet is shorter  *)
(* than one of the values read from it.                                    *)
THEOREM DispatchReadsInside ==
    ASSUME NoneShorter
    PROVE  DispatchSpec => []ReadsInside
<1>1. IInv => ReadsInside
  BY DispatchAssumption DEF IInv, ReadsInside
<1> QED BY <1>1, StaysInside, PTL
-----------------------------------------------------------------------------

(* A read changes nothing that TypeOK speaks of but position, stage and    *)
(* last.                                                                   *)
LEMMA ReadTypes ==
    ASSUME TypeOK, NEW n \in Words, NEW next \in {"find", "fields"},
           ReadBytes(n, next)
    PROVE  /\ position' \in Nat
           /\ phase' \in {"idle", "find", "fields"}
           /\ last' \in HandleOutcomes
<1>1. n \in Nat
  BY WordAssumption DEF Words
<1>2. CASE Reads(bytes, position, n)
  BY <1>1, <1>2 DEF ReadBytes, TypeOK
<1>3. CASE ~ Reads(bytes, position, n)
  BY <1>3 DEF ReadBytes, Finish, HandleOutcomes, TypeOK
<1> QED BY <1>2, <1>3

(* Type correctness of the dispatch, short packets included. *)
THEOREM DispatchTypeOK == DispatchSpec => []TypeOK
<1>1. DispatchInit => TypeOK
  BY DEF DispatchInit, TypeOK, HandleOutcomes
<1>2. ASSUME TypeOK, [DispatchNext]_dispatchVars PROVE TypeOK'
  <2> USE <1>2
  <2>1. CASE RegisterHandler
    <3>1. /\ handlers' \in [Ids -> Schemas \cup {None}]
          /\ original' \in [Ids -> Schemas \cup {None}]
      BY <2>1 DEF RegisterHandler, Registered, TypeOK
    <3> QED BY <2>1, <3>1 DEF RegisterHandler, TypeOK
  <2>2. CASE HandlePacket
    <3>1. fields' \in Seq(Words)
      BY <2>2 DEF HandlePacket
    <3>2. phase' = "header" /\ position' \in Nat /\ last' \in HandleOutcomes
      BY <2>2 DEF HandlePacket, HandleOutcomes
    <3>3. /\ handlers' = handlers
          /\ original' = original
          /\ id' \in Ids
          /\ bytes' \in MinBytes .. MaxBytes
      BY <2>2 DEF HandlePacket
    <3> QED BY <3>1, <3>2, <3>3 DEF TypeOK
  <2>3. CASE ReadHeader
    <3>1. HeaderWidth \in Words /\ ReadBytes(HeaderWidth, "find")
      BY <2>3, DispatchAssumption DEF ReadHeader
    <3>2. position' \in Nat /\ phase' \in {"idle", "find", "fields"} /\ last' \in HandleOutcomes
      BY <3>1, ReadTypes
    <3> QED BY <2>3, <3>2 DEF ReadHeader, ReadBytes, TypeOK
  <2>4. CASE FindHandler
    <3>1. fields' \in Seq(Words)
      BY <2>4, DispatchAssumption DEF FindHandler, HasHandler, TypeOK
    <3> QED BY <2>4, <3>1 DEF FindHandler, Finish, TypeOK, HandleOutcomes
  <2>5. CASE ReadField
    <3>1. Head(fields) \in Words /\ Tail(fields) \in Seq(Words)
      BY <2>5 DEF ReadField, TypeOK
    <3>2. position' \in Nat /\ phase' \in {"idle", "find", "fields"} /\ last' \in HandleOutcomes
      BY <2>5, <3>1, ReadTypes DEF ReadField
    <3> QED BY <2>5, <3>1, <3>2 DEF ReadField, ReadBytes, TypeOK
  <2>6. CASE CallHandler
    BY <2>6 DEF CallHandler, TypeOK
  <2>7. CASE HandlerReturns
    BY <2>7 DEF HandlerReturns, Finish, TypeOK, HandleOutcomes
  <2>8. CASE UNCHANGED dispatchVars
    BY <2>8 DEF dispatchVars, TypeOK
  <2> QED BY <2>1, <2>2, <2>3, <2>4, <2>5, <2>6, <2>7, <2>8 DEF DispatchNext
<1> QED BY <1>1, <1>2, PTL DEF DispatchSpec

-----------------------------------------------------------------------------
(***************************************************************************)
(* Width is well defined: its equation has a solution.  Induction is by    *)
(* the least number for which a claim would fail.                          *)
(***************************************************************************)

(* Sequences of bounded length, and the equation of Width for them. *)
Short(n) == {ws \in Seq(Nat) : Len(ws) <= n}

WidthUpTo(f, n) ==
    f = [ws \in Short(n) |-> IF ws = <<>> THEN 0 ELSE Head(ws) + f[Tail(ws)]]

(* The rest of a sequence is one shorter. *)
LEMMA TailIsShorter ==
    ASSUME NEW ws \in Seq(Nat), ws # <<>>
    PROVE  /\ Len(ws) \in Nat \ {0} /\ Head(ws) \in Nat
           /\ Tail(ws) \in Seq(Nat) /\ Len(Tail(ws)) = Len(ws) - 1
OBVIOUS

(* The equation of Width has a solution for sequences of every length.     *)
LEMMA WidthUpToExists == \A n \in Nat : \E f : WidthUpTo(f, n)
<1> DEFINE T == {n \in Nat : ~ \E f : WidthUpTo(f, n)}
<1>1. SUFFICES ASSUME T # {} PROVE FALSE
  OBVIOUS
<1>2. PICK m \in T : \A k \in T : m <= k
  BY <1>1, LeastNumber
<1>3. CASE m = 0
  <2> DEFINE f == [ws \in Short(0) |-> 0]
  <2>1. \A ws \in Short(0) : ws = <<>>
    BY DEF Short
  <2>2. f = [ws \in Short(0) |-> IF ws = <<>> THEN 0 ELSE Head(ws) + f[Tail(ws)]]
    BY <2>1
  <2> QED BY <1>2, <1>3, <2>2 DEF WidthUpTo
<1>4. CASE m # 0
  <2>1. m - 1 \in Nat /\ m - 1 \notin T
    BY <1>2, <1>4
  <2>2. PICK g : WidthUpTo(g, m - 1)
    BY <2>1
  <2> DEFINE f == [ws \in Short(m) |-> IF ws = <<>> THEN 0 ELSE Head(ws) + g[Tail(ws)]]
  <2>3. ASSUME NEW ws \in Short(m - 1)
        PROVE  f[ws] = g[ws]
    <3>1. ws \in Short(m)
      BY <1>2 DEF Short
    <3> QED BY <2>2, <3>1 DEF WidthUpTo
  <2>4. ASSUME NEW ws \in Short(m), ws # <<>>
        PROVE  f[Tail(ws)] = g[Tail(ws)]
    <3>1. Tail(ws) \in Short(m - 1)
      BY <1>2, <2>4, TailIsShorter DEF Short
    <3> QED BY <2>3, <3>1
  <2>5. f = [ws \in Short(m) |-> IF ws = <<>> THEN 0 ELSE Head(ws) + f[Tail(ws)]]
    BY <2>4
  <2>6. WidthUpTo(f, m)
    BY <2>5 DEF WidthUpTo
  <2> QED BY <1>2, <2>6
<1> QED BY <1>3, <1>4

(* The equation of Width has one solution at most.                         *)
LEMMA WidthUpToUnique ==
    ASSUME NEW m \in Nat, NEW n \in Nat, NEW f, NEW g,
           WidthUpTo(f, m), WidthUpTo(g, n), m <= n
    PROVE  \A ws \in Short(m) : f[ws] = g[ws]
<1> DEFINE T == {k \in Nat : \E ws \in Short(m) : Len(ws) = k /\ f[ws] # g[ws]}
<1>1. SUFFICES ASSUME T # {} PROVE FALSE
  <2>1. \A ws \in Short(m) : Len(ws) \in Nat
    BY DEF Short
  <2> QED BY <2>1
<1>2. PICK k \in T : \A j \in T : k <= j
  BY <1>1, LeastNumber
<1>3. PICK ws \in Short(m) : Len(ws) = k /\ f[ws] # g[ws]
  BY <1>2
<1>4. ws \in Short(n) /\ ws \in Seq(Nat)
  BY DEF Short
<1>5. /\ f[ws] = IF ws = <<>> THEN 0 ELSE Head(ws) + f[Tail(ws)]
      /\ g[ws] = IF ws = <<>> THEN 0 ELSE Head(ws) + g[Tail(ws)]
  BY <1>4 DEF WidthUpTo
<1>6. ws # <<>> /\ f[Tail(ws)] # g[Tail(ws)]
  BY <1>3, <1>5
<1>7. Tail(ws) \in Short(m) /\ Len(Tail(ws)) = k - 1 /\ k - 1 \in Nat
  BY <1>3, <1>4, <1>6, TailIsShorter DEF Short
<1>8. k - 1 \in T
  BY <1>6, <1>7
<1> QED BY <1>2, <1>7, <1>8

(* The fields of a sequence take together what the first and the rest do.  *)
LEMMA WidthOf ==
    \A ws \in Seq(Nat) :
        Width[ws] = IF ws = <<>> THEN 0 ELSE Head(ws) + Width[Tail(ws)]
<1> DEFINE Solves(f) ==
        f = [ws \in Seq(Nat) |-> IF ws = <<>> THEN 0 ELSE Head(ws) + f[Tail(ws)]]
    F(n) == CHOOSE f : WidthUpTo(f, n)
    W == [ws \in Seq(Nat) |-> F(Len(ws))[ws]]
<1>1. \A n \in Nat : WidthUpTo(F(n), n)
  BY WidthUpToExists
<1> HIDE DEF F
<1>2. ASSUME NEW ws \in Seq(Nat)
      PROVE  W[ws] = IF ws = <<>> THEN 0 ELSE Head(ws) + W[Tail(ws)]
  <2>1. Len(ws) \in Nat /\ ws \in Short(Len(ws))
    BY DEF Short
  <2>2. W[ws] = IF ws = <<>> THEN 0 ELSE Head(ws) + F(Len(ws))[Tail(ws)]
    BY <1>1, <2>1 DEF WidthUpTo
  <2>3. ASSUME ws # <<>>
        PROVE  F(Len(ws))[Tail(ws)] = W[Tail(ws)]
    <3>1. /\ Tail(ws) \in Seq(Nat) /\ Len(Tail(ws)) \in Nat
          /\ Len(Tail(ws)) <= Len(ws) /\ Tail(ws) \in Short(Len(Tail(ws)))
      BY <2>3, TailIsShorter DEF Short
    <3>2. F(Len(Tail(ws)))[Tail(ws)] = F(Len(ws))[Tail(ws)]
      BY <1>1, <2>1, <3>1, WidthUpToUnique
    <3> QED BY <3>1, <3>2
  <2> QED BY <2>2, <2>3
<1>3. Solves(W)
  BY <1>2
<1>4. Width = CHOOSE f : Solves(f)
  BY DEF Width
<1> HIDE DEF W
<1>5. Solves(Width)
  BY <1>3, <1>4
<1> QED BY <1>5

LEMMA WidthType == \A ws \in Seq(Nat) : Width[ws] \in Nat
<1> DEFINE T == {k \in Nat : \E ws \in Seq(Nat) : Len(ws) = k /\ Width[ws] \notin Nat}
<1>1. SUFFICES ASSUME T # {} PROVE FALSE
  <2>1. \A ws \in Seq(Nat) : Len(ws) \in Nat
    OBVIOUS
  <2> QED BY <2>1
<1>2. PICK k \in T : \A j \in T : k <= j
  BY <1>1, LeastNumber
<1>3. PICK ws \in Seq(Nat) : Len(ws) = k /\ Width[ws] \notin Nat
  BY <1>2
<1>4. ws # <<>> /\ Width[ws] = Head(ws) + Width[Tail(ws)]
  BY <1>3, WidthOf
<1>5. /\ Tail(ws) \in Seq(Nat) /\ Len(Tail(ws)) = k - 1 /\ k - 1 \in Nat
      /\ Head(ws) \in Nat
  BY <1>3, <1>4, TailIsShorter
<1>6. Width[Tail(ws)] \notin Nat
  BY <1>3, <1>4, <1>5
<1>7. k - 1 \in T
  BY <1>5, <1>6
<1> QED BY <1>2, <1>5, <1>7
-----------------------------------------------------------------------------
(***************************************************************************)
(* How far a packet has been read                                          *)
(***************************************************************************)

(* What has been read and what is still to be read are the header and the  *)
(* fields of the schema that the type of the packet was first registered   *)
(* with.                                                                   *)
ReadsSchema ==
    /\ handlers = original
    /\ phase = "header" => position = 0
    /\ phase = "find" => position = HeaderWidth
    /\ phase = "fields" =>
           original[id] # None /\ position + Width[fields] = Needs(original[id])
    /\ phase = "handle" => original[id] # None /\ position = Needs(original[id])

(* What the widths are. *)
LEMMA WidthTypes ==
    /\ HeaderWidth \in Nat
    /\ \A ws \in Seq(Words) : ws \in Seq(Nat)
    /\ \A s \in Schemas : s \in Seq(Nat) /\ Width[s] \in Nat /\ Needs(s) \in Nat
<1>1. Words \subseteq Nat
  BY WordAssumption DEF Words
<1>2. HeaderWidth \in Nat
  BY <1>1, DispatchAssumption
<1>3. \A ws \in Seq(Words) : ws \in Seq(Nat)
  BY <1>1, SeqMonotonic
<1>4. \A s \in Schemas : s \in Seq(Nat)
  BY <1>3, DispatchAssumption
<1>5. \A s \in Schemas : Width[s] \in Nat
  BY <1>4, WidthType
<1> QED BY <1>2, <1>3, <1>4, <1>5 DEF Needs

(* A read throws only when the packet ends before the value does, on a     *)
(* packet shorter than the value too.                                      *)
LEMMA ThrowsWhenShort ==
    ASSUME NEW bs \in Words, NEW pos \in Nat, NEW n \in Words, ~ Reads(bs, pos, n)
    PROVE  bs < pos + n
BY WordAssumption DEF Reads, CanReadNum, Minus, Words

(* The invariant holds in the beginning.                                   *)
LEMMA InitReadsSchema == DispatchInit => ReadsSchema
BY DEF DispatchInit, ReadsSchema

(* Every step keeps the invariant.                                         *)
LEMMA NextReadsSchema ==
    ASSUME TypeOK, ReadsSchema, [DispatchNext]_dispatchVars
    PROVE  ReadsSchema'
<1>1. /\ bytes \in Words /\ position \in Nat /\ id \in Ids
      /\ original \in [Ids -> Schemas \cup {None}]
  BY DispatchAssumption, WordAssumption DEF TypeOK, Words
<1>2. CASE RegisterHandler
  <2>1. PICK t \in Ids, s \in Schemas :
            /\ handlers' = Registered(t, s)
            /\ original' = IF original[t] = None THEN [original EXCEPT ![t] = s] ELSE original
    BY <1>2 DEF RegisterHandler
  <2>2. handlers' = original'
    BY <2>1 DEF Registered, ReadsSchema
  <2> QED BY <1>2, <2>2 DEF RegisterHandler, ReadsSchema
<1>3. CASE HandlePacket
  BY <1>3 DEF HandlePacket, ReadsSchema
<1>4. CASE ReadHeader
  <2>1. HeaderWidth \in Words /\ HeaderWidth \in Nat /\ position = 0
    BY <1>4, DispatchAssumption, WidthTypes DEF ReadHeader, ReadsSchema
  <2>2. CASE Reads(bytes, position, HeaderWidth)
    <3>1. position + HeaderWidth = HeaderWidth
      BY <2>1
    <3> QED BY <1>4, <2>2, <3>1 DEF ReadHeader, ReadBytes, ReadsSchema
  <2>3. CASE ~ Reads(bytes, position, HeaderWidth)
    BY <1>4, <2>3 DEF ReadHeader, ReadBytes, Finish, ReadsSchema
  <2> QED BY <2>2, <2>3
<1>5. CASE FindHandler
  <2>1. CASE HasHandler
    <3>1. original[id] # None /\ fields' = original[id] /\ position = HeaderWidth
      BY <1>5, <2>1 DEF FindHandler, HasHandler, ReadsSchema
    <3> QED BY <1>5, <2>1, <3>1
            DEF FindHandler, ReadsSchema, Needs
  <2>2. CASE ~ HasHandler
    BY <1>5, <2>2 DEF FindHandler, Finish, ReadsSchema
  <2> QED BY <2>1, <2>2
<1>6. CASE ReadField
  <2> DEFINE n == Head(fields)
  <2>1. /\ fields \in Seq(Nat) /\ fields # <<>> /\ n \in Words
        /\ Tail(fields) \in Seq(Nat) /\ fields' = Tail(fields)
    BY <1>6, WidthTypes DEF ReadField, TypeOK
  <2>2. /\ Width[fields] = n + Width[Tail(fields)]
        /\ Width[Tail(fields)] \in Nat /\ n \in Nat
    BY <2>1, WidthOf, WidthType, TailIsShorter
  <2>3. original[id] # None /\ position + Width[fields] = Needs(original[id])
    BY <1>6 DEF ReadField, ReadsSchema
  <2>4. ReadBytes(n, "fields") /\ UNCHANGED <<handlers, original, id, bytes>>
    BY <1>6 DEF ReadField, ReadBytes
  <2> HIDE DEF n
  <2>5. CASE Reads(bytes, position, n)
    <3>1. position' = position + n /\ phase' = "fields" /\ last' = last
      BY <2>4, <2>5 DEF ReadBytes
    <3>2. position' + Width[fields'] = Needs(original[id])
      BY <1>1, <2>1, <2>2, <2>3, <3>1
    <3> QED BY <2>3, <2>4, <3>1, <3>2 DEF ReadsSchema, Needs
  <2>6. CASE ~ Reads(bytes, position, n)
    <3>1. phase' = "idle" /\ last' = "read threw"
      BY <2>4, <2>6 DEF ReadBytes, Finish
    <3> QED BY <2>3, <2>4, <3>1 DEF ReadsSchema, Needs
  <2> QED BY <2>5, <2>6
<1>7. CASE CallHandler
  <2>1. fields = <<>> /\ <<>> \in Seq(Nat)
    BY <1>7 DEF CallHandler
  <2>2. Width[fields] = 0
    BY <2>1, WidthOf
  <2>3. position + 0 = position
    BY <1>1
  <2> QED BY <1>7, <2>2, <2>3 DEF CallHandler, ReadsSchema, Needs
<1>8. CASE HandlerReturns
  BY <1>8 DEF HandlerReturns, Finish, ReadsSchema
<1>9. CASE UNCHANGED dispatchVars
  BY <1>9 DEF dispatchVars, ReadsSchema, Needs
<1> QED BY <1>2, <1>3, <1>4, <1>5, <1>6, <1>7, <1>8, <1>9 DEF DispatchNext

(* The invariant holds in every reachable state.                           *)
LEMMA DispatchInvariant == DispatchSpec => [](TypeOK /\ ReadsSchema)
<1>1. TypeOK /\ ReadsSchema /\ [DispatchNext]_dispatchVars => ReadsSchema'
  BY NextReadsSchema
<1> QED BY <1>1, InitReadsSchema, DispatchTypeOK, PTL DEF DispatchSpec

(* How HandlePacket ends, whichever step it ends with.                     *)
LEMMA EndsExactly ==
    ASSUME TypeOK, ReadsSchema, IInv, DispatchNext, phase # "idle", phase' = "idle"
    PROVE  last' = "read threw" <=> TooShort
<1>1. /\ bytes \in Words /\ bytes \in Nat /\ position \in Nat /\ id \in Ids
      /\ position <= bytes
      /\ original \in [Ids -> Schemas \cup {None}]
  BY DispatchAssumption, WordAssumption DEF TypeOK, IInv, Words
<1>2. HeaderWidth \in Words /\ HeaderWidth \in Nat
  BY DispatchAssumption, WidthTypes
<1>3. CASE ReadHeader
  <2>1. ~ Reads(bytes, position, HeaderWidth) /\ last' = "read threw" /\ position = 0
    BY <1>3 DEF ReadHeader, ReadBytes, Finish, ReadsSchema
  <2>2. bytes < position + HeaderWidth
    BY <1>1, <1>2, <2>1, ThrowsWhenShort
  <2>3. position + HeaderWidth = HeaderWidth
    <3>1. position = 0 /\ HeaderWidth \in Nat
      BY <1>2, <2>1
    <3> QED BY <3>1
  <2>4. bytes < HeaderWidth
    BY <2>2, <2>3
  <2> QED BY <2>1, <2>4 DEF TooShort
<1>4. CASE FindHandler
  <2>1. ~ HasHandler /\ last' = "Continue" /\ position = HeaderWidth /\ handlers = original
    BY <1>4 DEF FindHandler, Finish, ReadsSchema
  <2>2. original[id] = None /\ ~ (bytes < HeaderWidth)
    BY <1>1, <1>2, <2>1 DEF HasHandler
  <2> QED BY <2>1, <2>2 DEF TooShort
<1>5. CASE ReadField
  <2> DEFINE n == Head(fields)
  <2>1. /\ fields \in Seq(Nat) /\ fields # <<>> /\ n \in Words
        /\ Tail(fields) \in Seq(Nat)
    BY <1>5, WidthTypes DEF ReadField, TypeOK
  <2>2. /\ Width[fields] = n + Width[Tail(fields)]
        /\ Width[Tail(fields)] \in Nat /\ n \in Nat
    BY <2>1, WidthOf, WidthType, TailIsShorter
  <2>3. original[id] # None /\ position + Width[fields] = Needs(original[id])
    BY <1>5 DEF ReadField, ReadsSchema
  <2>4. ~ Reads(bytes, position, n) /\ last' = "read threw"
    BY <1>5 DEF ReadField, ReadBytes, Finish
  <2> HIDE DEF n
  <2>5. bytes < position + n
    BY <1>1, <2>1, <2>4, ThrowsWhenShort
  <2>6. bytes < Needs(original[id])
    BY <1>1, <2>2, <2>3, <2>5
  <2> QED BY <2>3, <2>4, <2>6 DEF TooShort
<1>6. CASE HandlerReturns
  <2>1. /\ last' # "read threw" /\ original[id] # None
        /\ position = Needs(original[id])
    BY <1>6 DEF HandlerReturns, Finish, ReadsSchema
  <2>2. original[id] \in Schemas
    BY <1>1, <2>1
  <2>3. Width[original[id]] \in Nat /\ Needs(original[id]) = HeaderWidth + Width[original[id]]
    BY <2>2, WidthTypes DEF Needs
  <2> DEFINE n == Needs(original[id])
      w == Width[original[id]]
  <2>4. n \in Nat /\ w \in Nat /\ n = HeaderWidth + w /\ n <= bytes
    BY <1>1, <1>2, <2>1, <2>3
  <2> HIDE DEF n, w
  <2>5. ~ (bytes < HeaderWidth) /\ ~ (bytes < n)
    BY <1>1, <1>2, <2>4
  <2> QED BY <2>1, <2>5 DEF TooShort, n
<1>7. ~ RegisterHandler /\ ~ HandlePacket /\ ~ CallHandler
  BY DEF RegisterHandler, HandlePacket, CallHandler
<1> QED BY <1>3, <1>4, <1>5, <1>6, <1>7 DEF DispatchNext

(* read_stream throws on every packet that is too short for its schema and *)
(* on no other, as long as no packet is shorter than one value.            *)
THEOREM DispatchThrows ==
    ASSUME NoneShorter
    PROVE  DispatchSpec => ThrowsExactlyWhenShort
<1>1. TypeOK /\ ReadsSchema /\ IInv /\ [DispatchNext]_dispatchVars
      => [(phase # "idle" /\ phase' = "idle") => (last' = "read threw" <=> TooShort)]_dispatchVars
  BY EndsExactly
<1> QED BY <1>1, DispatchInvariant, StaysInside, PTL DEF DispatchSpec, ThrowsExactlyWhenShort

(* The handler of a packet runs when the header and every field of the     *)
(* schema its type was first registered with have been read, from bytes    *)
(* that the packet has, as long as no packet is shorter than one value.    *)
THEOREM DispatchWholePacket ==
    ASSUME NoneShorter
    PROVE  DispatchSpec => []HandlerSeesWholePacket
<1>1. TypeOK /\ ReadsSchema /\ ReadsInside => HandlerSeesWholePacket
  BY DEF ReadsSchema, ReadsInside, HandlerSeesWholePacket
<1> QED BY <1>1, DispatchInvariant, DispatchReadsInside, PTL
=============================================================================
