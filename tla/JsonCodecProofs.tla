--------------------------- MODULE JsonCodecProofs ---------------------------
(***************************************************************************)
(* Proofs about the walkers of bpjson and JsonCodec, for every program,    *)
(* every value and every document.  A law says what the walker of one type *)
(* does with any document; each walker keeps the laws that those it is     *)
(* made of obey, and types are declared after those they are made of.      *)
(***************************************************************************)
EXTENDS JsonCodec, FiniteSetTheorems, SequenceTheorems, WellFoundedInduction, TLAPS

-----------------------------------------------------------------------------
(***************************************************************************)
(* Induction, by the least number for which a claim would fail.            *)
(***************************************************************************)

(* Every set of numbers has a least one. *)
LEMMA LeastNumber ==
    ASSUME NEW T \in SUBSET Nat, T # {}
    PROVE  \E m \in T : \A k \in T : m <= k
<1> DEFINE R == OpToRel(<, Nat)
<1>1. IsWellFoundedOn(R, Nat)
  BY NatLessThanWellFounded
<1>2. \A j, k \in Nat : j < k => <<j, k>> \in R
  BY DEF OpToRel
<1> HIDE DEF R
<1>3. PICK m \in T : \A k \in T : ~ (<<k, m>> \in R)
  BY <1>1, WFMin
<1>4. ASSUME NEW k \in T PROVE m <= k
  <2>1. k \in Nat /\ m \in Nat /\ ~ (<<k, m>> \in R)
    BY <1>3
  <2>2. ~ (k < m)
    BY <1>2, <2>1
  <2> QED BY <2>1, <2>2
<1> QED BY <1>4

(* A set of numbers that goes on from 0 to n holds all of them. *)
LEMMA CountingUp ==
    ASSUME NEW n \in Nat, NEW T, 0 \in T,
           \A i \in 1 .. n : i - 1 \in T => i \in T
    PROVE  \A i \in 0 .. n : i \in T
<1> DEFINE U == {i \in 0 .. n : i \notin T}
<1> SUFFICES ASSUME U # {} PROVE FALSE
  OBVIOUS
<1>1. U \in SUBSET Nat
  OBVIOUS
<1>2. PICK m \in U : \A k \in U : m <= k
  BY <1>1, LeastNumber
<1>3. m \in 1 .. n /\ m - 1 \in 0 .. n
  BY <1>2
<1>4. m - 1 \notin U
  BY <1>2, <1>3
<1> QED BY <1>2, <1>3, <1>4

(* A set of numbers that holds each that all before it are in. *)
LEMMA OneAfterTheOther ==
    ASSUME NEW n \in Nat, NEW T,
           \A t \in 1 .. n : (\A u \in 1 .. t - 1 : u \in T) => t \in T
    PROVE  \A t \in 1 .. n : t \in T
<1> DEFINE U == {i \in 1 .. n : i \notin T}
<1> SUFFICES ASSUME U # {} PROVE FALSE
  OBVIOUS
<1>1. U \in SUBSET Nat
  OBVIOUS
<1>2. PICK m \in U : \A k \in U : m <= k
  BY <1>1, LeastNumber
<1>3. ASSUME NEW u \in 1 .. m - 1 PROVE u \in T
  <2>1. u \in 1 .. n /\ u \notin U
    BY <1>2
  <2> QED BY <2>1
<1> QED BY <1>2, <1>3

-----------------------------------------------------------------------------
(***************************************************************************)
(* Documents                                                               *)
(***************************************************************************)

(* More documents make more documents.                                     *)
LEMMA AroundGrows ==
    ASSUME NEW S, NEW T, S \subseteq T
    PROVE  Around(S) \subseteq Around(T)
<1>1. Seq(S) \subseteq Seq(T)
  OBVIOUS
<1>2. Optionally(S) \subseteq Optionally(T)
  BY <1>1 DEF Optionally
<1>3. [Name -> Optionally(S)] \subseteq [Name -> Optionally(T)]
  BY <1>2
<1>4. [kind : {"array"}, items : Seq(S)] \subseteq [kind : {"array"}, items : Seq(T)]
  BY <1>1
<1>5. [kind : {"object"}, members : [Name -> Optionally(S)]]
        \subseteq [kind : {"object"}, members : [Name -> Optionally(T)]]
  BY <1>3
<1> QED BY <1>4, <1>5, Zenon DEF Around

(* DocumentsUpTo is what its equation says. *)
LEMMA DocumentsEquation ==
    \A n \in 0 .. Depth :
        DocumentsUpTo[n] = Around(IF n = 0 THEN {} ELSE DocumentsUpTo[n - 1])
<1> DEFINE Level(f, n) == Around(IF n = 0 THEN {} ELSE f[n - 1])
    Solves(f, k) == \A n \in 0 .. k : f[n] = Level(f, n)
    T == {k \in 0 .. Depth : \E f : Solves(f, k)}
<1>1. Depth \in Nat
  BY JsonAssumption
<1>2. 0 \in T
  <2> DEFINE g == [n \in {0} |-> Around({})]
  <2>1. Solves(g, 0)
    OBVIOUS
  <2> HIDE DEF g, Solves
  <2> QED BY <1>1, <2>1
<1>3. ASSUME NEW k \in 1 .. Depth, k - 1 \in T PROVE k \in T
  <2>1. PICK f : Solves(f, k - 1)
    BY <1>3
  <2> DEFINE g == [n \in 0 .. Depth |-> IF n = k THEN Level(f, k) ELSE f[n]]
  <2>2. ASSUME NEW n \in 0 .. k PROVE g[n] = Level(g, n)
    <3>1. n # 0 => g[n - 1] = f[n - 1]
      BY <1>1
    <3>2. Level(g, n) = Level(f, n)
      <4> HIDE DEF g
      <4> QED BY <3>1
    <3>3. g[n] = IF n = k THEN Level(f, k) ELSE f[n]
      <4> HIDE DEF Level
      <4> QED BY <1>1
    <3> HIDE DEF g, Level
    <3>4. CASE n = k
      BY <3>2, <3>3, <3>4
    <3>5. CASE n # k
      BY <2>1, <3>2, <3>3, <3>5
    <3> QED BY <3>4, <3>5
  <2>3. Solves(g, k)
    BY <2>2
  <2> HIDE DEF g, Solves
  <2> QED BY <2>3
<1>4. Depth \in T
  <2> HIDE DEF T
  <2>1. \A i \in 0 .. Depth : i \in T
    BY <1>1, <1>2, <1>3, CountingUp
  <2> QED BY <1>1, <2>1
<1>5. PICK f : Solves(f, Depth)
  BY <1>4
<1> DEFINE g == [n \in 0 .. Depth |-> f[n]]
<1>6. ASSUME NEW n \in 0 .. Depth PROVE g[n] = Level(g, n)
  <2>1. n # 0 => g[n - 1] = f[n - 1]
    BY <1>1
  <2>2. Level(g, n) = Level(f, n)
    <3> HIDE DEF g
    <3> QED BY <2>1
  <2> QED BY <1>5, <2>2
<1>7. g = [n \in 0 .. Depth |-> Level(g, n)]
  <2> HIDE DEF Level
  <2> QED BY <1>6
<1> HIDE DEF g
<1>8. DocumentsUpTo = [n \in 0 .. Depth |-> Level(DocumentsUpTo, n)]
  BY <1>7 DEF DocumentsUpTo
<1> HIDE DEF Level
<1>9. \A n \in 0 .. Depth : DocumentsUpTo[n] = Level(DocumentsUpTo, n)
  BY <1>8
<1> QED BY <1>9 DEF Level

(* Documents are made of documents. *)
Below(n) == IF n = 0 THEN {} ELSE DocumentsUpTo[n - 1]

(* The documents of one level hold those below it.                         *)
LEMMA DocumentLevels ==
    ASSUME NEW n \in 0 .. Depth
    PROVE  /\ DocumentsUpTo[n] = Around(Below(n))
           /\ Below(n) \subseteq DocumentsUpTo[n]
           /\ DocumentsUpTo[n] \subseteq Document
<1> DEFINE U(k) == DocumentsUpTo[k]
    T == {k \in 0 .. Depth : Below(k) \subseteq U(k)}
    B == {k \in 0 .. Depth : U(Depth - k) \subseteq U(Depth)}
<1>1. Depth \in Nat
  BY JsonAssumption
<1>2. \A k \in 0 .. Depth : U(k) = Around(Below(k))
  BY DocumentsEquation DEF Below
<1> HIDE DEF U
<1>3. \A k \in 1 .. Depth : Below(k) = U(k - 1) /\ k - 1 \in 0 .. Depth /\ k \in 0 .. Depth
  <2> TAKE k \in 1 .. Depth
  <2>1. k # 0 /\ k - 1 \in 0 .. Depth /\ k \in 0 .. Depth
    BY <1>1
  <2> QED BY <2>1 DEF Below, U
<1>4. 0 \in T
  BY <1>1 DEF Below
<1>5. ASSUME NEW k \in 1 .. Depth, k - 1 \in T PROVE k \in T
  <2>1. Below(k - 1) \subseteq Below(k)
    BY <1>3, <1>5
  <2>2. Around(Below(k - 1)) \subseteq Around(Below(k))
    BY <2>1, AroundGrows
  <2>3. k \in 0 .. Depth /\ Below(k) \subseteq U(k)
    BY <1>2, <1>3, <2>2
  <2> QED BY <2>3
<1>6. \A k \in 0 .. Depth : k \in T
  <2> HIDE DEF T
  <2> QED BY <1>1, <1>4, <1>5, CountingUp
<1>7. 0 \in B
  BY <1>1
<1>8. ASSUME NEW k \in 1 .. Depth, k - 1 \in B PROVE k \in B
  <2>1. Depth - (k - 1) \in 1 .. Depth /\ (Depth - (k - 1)) - 1 = Depth - k
    BY <1>1
  <2>2. U(Depth - k) \subseteq U(Depth - (k - 1))
    BY <1>3, <1>6, <2>1
  <2> QED BY <1>8, <2>2
<1>9. \A k \in 0 .. Depth : k \in B
  <2> HIDE DEF B
  <2> QED BY <1>1, <1>7, <1>8, CountingUp
<1>10. Depth - n \in 0 .. Depth /\ Depth - (Depth - n) = n
  BY <1>1
<1>11. U(n) \subseteq U(Depth)
  BY <1>9, <1>10
<1> QED BY <1>2, <1>6, <1>11 DEF U, Document

(* What a document is, by its kind.                                        *)
LEMMA DocumentCases ==
    ASSUME NEW n \in 0 .. Depth, NEW x \in DocumentsUpTo[n]
    PROVE  /\ x.kind \in {"null", "num", "text", "array", "object"}
           /\ x.kind = "null" => x = Null
           /\ x.kind = "num" => x.num \in Number
           /\ x.kind = "text" => x.text \in Text
           /\ x.kind = "array" => x = JArray(x.items) /\ x.items \in Seq(Below(n))
           /\ x.kind = "object" =>
                x = JObject(x.members) /\ x.members \in [Name -> Optionally(Below(n))]
<1> DEFINE Arrays == [kind : {"array"}, items : Seq(Below(n))]
    Objects == [kind : {"object"}, members : [Name -> Optionally(Below(n))]]
<1>1. \/ x = Null
      \/ x \in [kind : {"num"}, num : Number]
      \/ x \in [kind : {"text"}, text : Text]
      \/ x \in Arrays
      \/ x \in Objects
  BY DocumentLevels, Zenon DEF Around
<1>2. CASE x = Null
  BY <1>2 DEF Null
<1>3. CASE x \in [kind : {"num"}, num : Number]
  BY <1>3
<1>4. CASE x \in [kind : {"text"}, text : Text]
  BY <1>4
<1>5. CASE x \in Arrays
  <2>1. x.kind = "array" /\ x.items \in Seq(Below(n))
    BY <1>5
  <2>2. x = [kind |-> "array", items |-> x.items]
    BY <1>5
  <2> HIDE DEF Arrays
  <2> QED BY <2>1, <2>2 DEF JArray
<1>6. CASE x \in Objects
  <2>1. x.kind = "object" /\ x.members \in [Name -> Optionally(Below(n))]
    BY <1>6
  <2>2. x = [kind |-> "object", members |-> x.members]
    BY <1>6
  <2> HIDE DEF Objects
  <2> QED BY <2>1, <2>2 DEF JObject
<1> QED BY <1>1, <1>2, <1>3, <1>4, <1>5, <1>6

(* Null, and arrays and objects of documents, are documents one level up.  *)
LEMMA DocumentsMade ==
    ASSUME NEW n \in 0 .. Depth
    PROVE  /\ Null \in DocumentsUpTo[n]
           /\ \A s \in Seq(Below(n)) : JArray(s) \in DocumentsUpTo[n]
           /\ \A f \in [Name -> Optionally(Below(n))] : JObject(f) \in DocumentsUpTo[n]
<1>1. DocumentsUpTo[n] = Around(Below(n))
  BY DocumentLevels
<1>2. Null \in Around(Below(n))
  BY Zenon DEF Around
<1>3. ASSUME NEW s \in Seq(Below(n)) PROVE JArray(s) \in Around(Below(n))
  <2>1. JArray(s) \in [kind : {"array"}, items : Seq(Below(n))]
    BY DEF JArray
  <2> QED BY <2>1, Zenon DEF Around
<1>4. ASSUME NEW f \in [Name -> Optionally(Below(n))] PROVE JObject(f) \in Around(Below(n))
  <2>1. JObject(f) \in [kind : {"object"}, members : [Name -> Optionally(Below(n))]]
    BY DEF JObject
  <2> QED BY <2>1, Zenon DEF Around
<1> QED BY <1>1, <1>2, <1>3, <1>4

(* A sequence of at most one element is empty or that element.             *)
LEMMA OptionallyCases ==
    ASSUME NEW S
    PROVE  /\ <<>> \in Optionally(S)
           /\ \A e \in S : <<e>> \in Optionally(S)
           /\ \A s \in Optionally(S) :
                s # <<>> => /\ s = <<s[1]>> /\ s[1] \in S
                            /\ Len(s) = 1 /\ DOMAIN s = {1}
<1>1. <<>> \in Optionally(S)
  BY DEF Optionally
<1>2. ASSUME NEW e \in S PROVE <<e>> \in Optionally(S)
  BY DEF Optionally
<1>3. ASSUME NEW s \in Optionally(S), s # <<>>
      PROVE  s = <<s[1]>> /\ s[1] \in S /\ Len(s) = 1 /\ DOMAIN s = {1}
  <2>1. s \in Seq(S) /\ Len(s) <= 1 /\ Len(s) \in Nat
    BY DEF Optionally
  <2>2. Len(s) # 0
    BY <1>3, <2>1, EmptySeq
  <2>3. Len(s) = 1
    <3> DEFINE n == Len(s)
    <3>1. n \in Nat /\ n <= 1 /\ n # 0
      BY <2>1, <2>2
    <3> HIDE DEF n
    <3>2. n = 1
      BY <3>1
    <3> QED BY <3>2 DEF n
  <2> QED BY <2>1, <2>3
<1> QED BY <1>1, <1>2, <1>3

(* A member that is there, or none. *)
LEMMA EachOptional ==
    ASSUME NEW S, NEW T, NEW s \in Optionally(T)
    PROVE  Each(s, S) <=> (s # <<>> => s[1] \in S)
<1>1. CASE s = <<>>
  BY <1>1 DEF Each
<1>2. CASE s # <<>>
  BY <1>2, OptionallyCases DEF Each
<1> QED BY <1>1, <1>2

(* The members of a document are documents of the level below.             *)
LEMMA MembersCases ==
    ASSUME NEW n \in 0 .. Depth, NEW x \in DocumentsUpTo[n]
    PROVE  /\ Members(x) \in [Name -> Optionally(Below(n))]
           /\ \A k \in Name :
                Subkey(x, k) = Members(x)[k][1] /\ (SubkeyExists(x, k) <=> Members(x)[k] # <<>>)
           /\ \A k \in Name : SubkeyExists(x, k) => Subkey(x, k) \in Below(n)
           /\ x.kind # "object" => Members(x) = NoMembers
           /\ x.kind = "object" => x = JObject(Members(x))
           /\ Subkeys(x) \subseteq Name
           /\ \A k \in Name : k \in Subkeys(x) <=> SubkeyExists(x, k)
<1>1. NoMembers \in [Name -> Optionally(Below(n))]
  BY OptionallyCases DEF NoMembers
<1>2. Members(x) \in [Name -> Optionally(Below(n))]
  BY <1>1, DocumentCases DEF Members
<1>3. x.kind = "object" => x = JObject(Members(x))
  BY DocumentCases DEF Members
<1>4. ASSUME NEW k \in Name, SubkeyExists(x, k) PROVE Subkey(x, k) \in Below(n)
  BY <1>2, <1>4, OptionallyCases DEF Subkey, SubkeyExists
<1> QED BY <1>2, <1>3, <1>4 DEF Subkey, SubkeyExists, Subkeys, Members

(* A finite set can be gone through, whatever the order.                   *)
LEMMA SomeSequence ==
    ASSUME NEW S, IsFiniteSet(S)
    PROVE  /\ Cardinality(S) \in Nat
           /\ SetToSeq(S) \in [1 .. Cardinality(S) -> S]
<1>1. Cardinality(S) \in Nat /\ ExistsBijection(1 .. Cardinality(S), S)
  BY FS_CardinalityType
<1>2. \E f \in [1 .. Cardinality(S) -> S] : IsInjective(f)
  BY <1>1, Zenon DEF ExistsBijection, Bijection, Injection
<1>3. SetToSeq(S) \in [1 .. Cardinality(S) -> S]
  BY <1>2, Zenon DEF SetToSeq
<1> QED BY <1>1, <1>3

(* A document is one of the highest level.                                 *)
LEMMA TopLevel ==
    /\ Depth \in 0 .. Depth
    /\ DocumentsUpTo[Depth] = Document
    /\ Below(Depth) \subseteq Document
<1>1. Depth \in Nat
  BY JsonAssumption
<1>2. Depth \in 0 .. Depth
  BY <1>1
<1> QED BY <1>2, DocumentLevels DEF Document

(* What a loop over a document goes through are documents.                 *)
LEMMA ItemsAreDocuments ==
    ASSUME NEW x \in Document
    PROVE  /\ Items(x) \in Seq(Document)
           /\ x.kind = "null" => Items(x) = <<>>
           /\ x.kind = "array" => Items(x) = x.items
<1>1. Depth \in 0 .. Depth /\ x \in DocumentsUpTo[Depth] /\ Below(Depth) \subseteq Document
  BY TopLevel
<1>2. CASE x.kind = "null"
  BY <1>2 DEF Items
<1>3. CASE x.kind = "array"
  <2>1. x.items \in Seq(Below(Depth))
    BY <1>1, <1>3, DocumentCases
  <2>2. x.items \in Seq(Document)
    BY <1>1, <2>1
  <2> QED BY <1>3, <2>2 DEF Items
<1>4. CASE x.kind = "object"
  <2> DEFINE S == Subkeys(x)
      c == Cardinality(S)
      q == SetToSeq(S)
      s == [i \in 1 .. c |-> Subkey(x, q[i])]
  <2>1. S \subseteq Name /\ \A k \in S : Subkey(x, k) \in Document
    BY <1>1, MembersCases
  <2>2. IsFiniteSet(S)
    BY <2>1, JsonAssumption, FS_Subset
  <2>3. c \in Nat /\ q \in [1 .. c -> S]
    BY <2>2, SomeSequence
  <2>4. Items(x) = s
    BY <1>4 DEF Items
  <2> HIDE DEF S, c, q
  <2>5. s \in [1 .. c -> Document]
    BY <2>1, <2>3
  <2>6. s \in Seq(Document)
    <3> HIDE DEF s
    <3> QED BY <2>3, <2>5
  <2> QED BY <1>4, <2>4, <2>6
<1>5. CASE x.kind \in {"num", "text"}
  BY <1>5 DEF Items
<1> QED BY <1>1, <1>2, <1>3, <1>4, <1>5, DocumentCases

(* What a document loses, it loses in one of its parts. *)
LEMMA WithoutOfParts ==
    ASSUME NEW n \in 0 .. Depth, NEW d \in DocumentsUpTo[n], NEW f, NEW g,
           \A x \in Below(n) : f[x] = g[x]
    PROVE  WithoutOf(d, f) = WithoutOf(d, g)
<1>1. CASE d.kind = "array"
  <2>1. d.items \in Seq(Below(n))
    BY <1>1, DocumentCases
  <2>2. \A i \in DOMAIN d.items : f[d.items[i]] = g[d.items[i]]
    BY <2>1
  <2> QED BY <1>1, <2>2 DEF WithoutOf
<1>2. CASE d.kind = "object"
  <2>1. \A k \in Subkeys(d) : f[Subkey(d, k)] = g[Subkey(d, k)]
    BY MembersCases
  <2> QED BY <1>2, <2>1 DEF WithoutOf
<1>3. CASE d.kind \notin {"array", "object"}
  BY <1>3 DEF WithoutOf
<1> QED BY <1>1, <1>2, <1>3

(* The recursive function Without exists.                                  *)
LEMMA WithoutEquation == \A d \in Document : Without[d] = WithoutOf(d, Without)
<1> DEFINE U(k) == DocumentsUpTo[k]
    Solves(f, k) == \A d \in U(k) : f[d] = WithoutOf(d, f)
    T == {k \in 0 .. Depth : \E f : Solves(f, k)}
<1>1. Depth \in Nat /\ U(Depth) = Document
  BY JsonAssumption, TopLevel
<1>2. ASSUME NEW k \in 0 .. Depth, NEW f, \A d \in Below(k) : f[d] = WithoutOf(d, f)
      PROVE  k \in T
  <2> DEFINE g == [d \in U(k) |-> WithoutOf(d, f)]
  <2>1. ASSUME NEW d \in U(k) PROVE g[d] = WithoutOf(d, g)
    <3>1. \A x \in Below(k) : f[x] = g[x]
      BY <1>2, DocumentLevels
    <3>2. WithoutOf(d, g) = WithoutOf(d, f)
      <4> HIDE DEF g
      <4> QED BY <3>1, WithoutOfParts
    <3> QED BY <3>2
  <2>2. Solves(g, k)
    BY <2>1
  <2> HIDE DEF g, Solves
  <2> QED BY <2>2
<1>3. 0 \in T
  BY <1>1, <1>2 DEF Below
<1>4. ASSUME NEW k \in 1 .. Depth, k - 1 \in T PROVE k \in T
  <2>1. PICK f : Solves(f, k - 1)
    BY <1>4
  <2>2. k \in 0 .. Depth /\ Below(k) = U(k - 1)
    BY <1>1 DEF Below
  <2> HIDE DEF U, T
  <2> QED BY <1>2, <2>1, <2>2
<1>5. Depth \in T
  <2> HIDE DEF T
  <2>1. \A i \in 0 .. Depth : i \in T
    BY <1>1, <1>3, <1>4, CountingUp
  <2> QED BY <1>1, <2>1
<1>6. PICK f : Solves(f, Depth)
  BY <1>5
<1> DEFINE g == [d \in Document |-> f[d]]
<1>7. ASSUME NEW d \in Document PROVE g[d] = WithoutOf(d, g)
  <2>1. \A x \in Below(Depth) : f[x] = g[x]
    BY TopLevel
  <2>2. WithoutOf(d, g) = WithoutOf(d, f)
    <3> HIDE DEF g
    <3> QED BY <2>1, TopLevel, WithoutOfParts
  <2> QED BY <1>1, <1>6, <2>2
<1>8. g = [d \in Document |-> WithoutOf(d, g)]
  BY <1>7
<1> HIDE DEF g
<1>9. Without = [d \in Document |-> WithoutOf(d, Without)]
  BY <1>8, Zenon DEF Without
<1> QED BY <1>9

(* A document without one member differs in one item or one member.        *)
LEMMA WithoutCases ==
    ASSUME NEW n \in 0 .. Depth, NEW d \in DocumentsUpTo[n], NEW y \in Without[d]
    PROVE  \/ /\ d.kind = "array"
              /\ \E i \in 1 .. Len(d.items) : \E z \in Without[d.items[i]] :
                    y = JArray([d.items EXCEPT ![i] = z])
           \/ /\ d.kind = "object"
              /\ \E k \in Subkeys(d) : \E s \in {<<>>} \cup {<<z>> : z \in Without[Subkey(d, k)]} :
                    y = JObject([Members(d) EXCEPT ![k] = s])
<1>1. y \in WithoutOf(d, Without)
  BY DocumentLevels, WithoutEquation
<1>2. CASE d.kind = "array"
  <2>1. d = JArray(d.items) /\ d.items \in Seq(Below(n))
    BY <1>2, DocumentCases
  <2>2. PICK i \in DOMAIN d.items :
            y \in {[d EXCEPT !.items[i] = z] : z \in Without[d.items[i]]}
    BY <1>1, <1>2, Zenon DEF WithoutOf
  <2>5. PICK z \in Without[d.items[i]] : y = [d EXCEPT !.items[i] = z]
    BY <2>2
  <2>3. i \in 1 .. Len(d.items)
    BY <2>1
  <2>4. y = JArray([d.items EXCEPT ![i] = z])
    <3> DEFINE s == d.items
    <3>1. d = [kind |-> "array", items |-> s] /\ y = [d EXCEPT !.items[i] = z]
      BY <2>1, <2>5 DEF JArray
    <3> HIDE DEF s
    <3>2. y = [kind |-> "array", items |-> [s EXCEPT ![i] = z]]
      BY <3>1
    <3> QED BY <3>2 DEF JArray, s
  <2> QED BY <1>2, <2>3, <2>4
<1>3. CASE d.kind = "object"
  <2>1. d = JObject(Members(d)) /\ Members(d) = d.members
    BY <1>3, MembersCases DEF Members
  <2>2. PICK k \in Subkeys(d) :
            y \in {[d EXCEPT !.members[k] = s] :
                    s \in {<<>>} \cup {<<x>> : x \in Without[Subkey(d, k)]}}
    BY <1>1, <1>3, Zenon DEF WithoutOf
  <2>4. PICK s \in {<<>>} \cup {<<x>> : x \in Without[Subkey(d, k)]} :
            y = [d EXCEPT !.members[k] = s]
    BY <2>2
  <2>3. y = JObject([Members(d) EXCEPT ![k] = s])
    BY <2>1, <2>4 DEF JObject
  <2> QED BY <1>3, <2>3
<1>4. CASE d.kind \notin {"array", "object"}
  BY <1>1, <1>4 DEF WithoutOf
<1> QED BY <1>2, <1>3, <1>4

(* What is left is a document still. *)
LEMMA WithoutIsDocument ==
    ASSUME NEW d \in Document
    PROVE  Without[d] \subseteq Document
<1> DEFINE U(k) == DocumentsUpTo[k]
    T == {k \in 0 .. Depth : \A x \in U(k) : Without[x] \subseteq U(k)}
<1>1. Depth \in Nat /\ Depth \in 0 .. Depth /\ U(Depth) = Document
  BY JsonAssumption, TopLevel
<1>2. ASSUME NEW k \in 0 .. Depth, \A x \in Below(k) : Without[x] \subseteq Below(k)
      PROVE  k \in T
  <2> SUFFICES ASSUME NEW x \in U(k), NEW y \in Without[x]
               PROVE  y \in U(k)
    OBVIOUS
  <2>1. CASE x.kind = "array"
    <3>1. PICK i \in 1 .. Len(x.items) : \E z \in Without[x.items[i]] :
              y = JArray([x.items EXCEPT ![i] = z])
      BY <2>1, WithoutCases
    <3>5. PICK z \in Without[x.items[i]] : y = JArray([x.items EXCEPT ![i] = z])
      BY <3>1
    <3>2. x.items \in Seq(Below(k))
      BY <2>1, DocumentCases
    <3>3. z \in Below(k)
      BY <1>2, <3>2
    <3>4. [x.items EXCEPT ![i] = z] \in Seq(Below(k))
      BY <3>2, <3>3
    <3> QED BY <3>4, <3>5, DocumentsMade
  <2>2. CASE x.kind = "object"
    <3>1. PICK j \in Subkeys(x) :
              \E s \in {<<>>} \cup {<<z>> : z \in Without[Subkey(x, j)]} :
                y = JObject([Members(x) EXCEPT ![j] = s])
      BY <2>2, WithoutCases
    <3>5. PICK s \in {<<>>} \cup {<<z>> : z \in Without[Subkey(x, j)]} :
                y = JObject([Members(x) EXCEPT ![j] = s])
      BY <3>1
    <3>2. Members(x) \in [Name -> Optionally(Below(k))] /\ Subkey(x, j) \in Below(k)
      BY MembersCases
    <3>3. s \in Optionally(Below(k))
      BY <1>2, <3>2, OptionallyCases
    <3>4. [Members(x) EXCEPT ![j] = s] \in [Name -> Optionally(Below(k))]
      BY <3>2, <3>3
    <3> QED BY <3>4, <3>5, DocumentsMade
  <2> QED BY <2>1, <2>2, WithoutCases
<1>3. 0 \in T
  BY <1>1, <1>2 DEF Below
<1>4. ASSUME NEW k \in 1 .. Depth, k - 1 \in T PROVE k \in T
  <2>1. k \in 0 .. Depth /\ Below(k) = U(k - 1)
    BY <1>1 DEF Below
  <2>2. \A x \in Below(k) : Without[x] \subseteq Below(k)
    BY <1>4, <2>1
  <2> HIDE DEF U, T
  <2> QED BY <1>2, <2>1, <2>2
<1>5. Depth \in T
  <2> HIDE DEF T
  <2>1. \A i \in 0 .. Depth : i \in T
    BY <1>1, <1>3, <1>4, CountingUp
  <2> QED BY <1>1, <2>1
<1> QED BY <1>1, <1>5

-----------------------------------------------------------------------------
(***************************************************************************)
(* Declared types                                                          *)
(***************************************************************************)

(* The types are the numbers of their declarations.                        *)
LEMMA DeclaredType ==
    /\ Len(Declared) \in Nat
    /\ Type = 1 .. Len(Declared)
    /\ \A t \in Type : Declared[t] \in MadeOf(1 .. t - 1)
<1>1. Declared \in Seq(MadeOf(Nat)) /\ \A t \in Type : Declared[t] \in MadeOf(1 .. t - 1)
  BY JsonAssumption
<1>2. Type = DOMAIN Declared
  BY DEF Type
<1> QED BY <1>1, <1>2

(* The types a type is made of are declared before it. *)
LEMMA PartsComeBefore ==
    ASSUME NEW t \in Type
    PROVE  /\ Declared[t].kind \in
                {"num", "string", "any", "end", "list", "array", "optional", "map", "object"}
           /\ Declared[t].kind = "array" => Declared[t].size \in Nat
           /\ Declared[t].kind \in {"list", "array", "optional", "map"} =>
                 Declared[t].of \in 1 .. t - 1
           /\ Declared[t].kind = "object" =>
                 /\ Declared[t].first \in 1 .. t - 1 /\ Declared[t].rest \in 1 .. t - 1
                 /\ Declared[t].name \in Name
BY DeclaredType DEF MadeOf, Num, String, AnyJson, End

(* A walker needs no other walkers than those of its parts. *)
LEMMA WalkerOfParts ==
    ASSUME NEW t \in Type, NEW f, NEW g, \A u \in 1 .. t - 1 : f[u] = g[u]
    PROVE  WalkerOf(Declared[t], f) = WalkerOf(Declared[t], g)
BY PartsComeBefore DEF WalkerOf

(* The format of a type depends on those of the types before it only.      *)
LEMMA FormatOfParts ==
    ASSUME NEW t \in Type, NEW w, NEW f, NEW g, \A u \in 1 .. t - 1 : f[u] = g[u]
    PROVE  FormatOf(Declared[t], w, f) = FormatOf(Declared[t], w, g)
BY PartsComeBefore DEF FormatOf

(* Walker and Format are what their equations say. *)
LEMMA WalkerEquation == \A t \in Type : Walker[t] = WalkerOf(Declared[t], Walker)
<1> DEFINE n == Len(Declared)
    Solves(f, k) == \A t \in 1 .. k : f[t] = WalkerOf(Declared[t], f)
    T == {k \in 0 .. n : \E f : Solves(f, k)}
<1>1. n \in Nat /\ Type = 1 .. n
  BY DeclaredType
<1> HIDE DEF n
<1>2. 0 \in T
  <2>1. Solves(Declared, 0)
    OBVIOUS
  <2> HIDE DEF Solves
  <2> QED BY <1>1, <2>1
<1>3. ASSUME NEW k \in 1 .. n, k - 1 \in T PROVE k \in T
  <2>1. PICK f : Solves(f, k - 1)
    BY <1>3
  <2> DEFINE g == [t \in Type |-> IF t = k THEN WalkerOf(Declared[k], f) ELSE f[t]]
  <2>2. ASSUME NEW t \in 1 .. k PROVE g[t] = WalkerOf(Declared[t], g)
    <3>1. t \in Type /\ \A u \in 1 .. t - 1 : g[u] = f[u]
      BY <1>1
    <3>2. WalkerOf(Declared[t], g) = WalkerOf(Declared[t], f)
      <4> HIDE DEF g
      <4> QED BY <3>1, WalkerOfParts
    <3>3. CASE t = k
      BY <3>1, <3>2, <3>3
    <3>4. CASE t # k
      BY <2>1, <3>1, <3>2, <3>4
    <3> QED BY <3>3, <3>4
  <2>3. Solves(g, k)
    BY <2>2
  <2> HIDE DEF g, Solves
  <2> QED BY <2>3
<1>4. n \in T
  <2> HIDE DEF T
  <2>1. \A i \in 0 .. n : i \in T
    BY <1>1, <1>2, <1>3, CountingUp
  <2> QED BY <1>1, <2>1
<1>5. PICK f : Solves(f, n)
  BY <1>4
<1> DEFINE g == [t \in Type |-> f[t]]
<1>6. ASSUME NEW t \in Type PROVE g[t] = WalkerOf(Declared[t], g)
  <2>1. \A u \in 1 .. t - 1 : g[u] = f[u]
    BY <1>1
  <2>2. WalkerOf(Declared[t], g) = WalkerOf(Declared[t], f)
    <3> HIDE DEF g
    <3> QED BY <2>1, WalkerOfParts
  <2> QED BY <1>1, <1>5, <2>2
<1>7. g = [t \in Type |-> WalkerOf(Declared[t], g)]
  BY <1>6
<1> HIDE DEF g
<1>8. Walker = [t \in Type |-> WalkerOf(Declared[t], Walker)]
  BY <1>7 DEF Walker
<1> QED BY <1>8

(* The recursive function Format exists.                                   *)
LEMMA FormatEquation ==
    \A t \in Type : Format[t] = FormatOf(Declared[t], Walker[t], Format)
<1> DEFINE n == Len(Declared)
    V(t) == Walker[t]
    Solves(f, k) == \A t \in 1 .. k : f[t] = FormatOf(Declared[t], V(t), f)
    T == {k \in 0 .. n : \E f : Solves(f, k)}
<1>1. n \in Nat /\ Type = 1 .. n
  BY DeclaredType
<1> HIDE DEF n, V
<1>2. 0 \in T
  <2>1. Solves(Declared, 0)
    OBVIOUS
  <2> HIDE DEF Solves
  <2> QED BY <1>1, <2>1
<1>3. ASSUME NEW k \in 1 .. n, k - 1 \in T PROVE k \in T
  <2>1. PICK f : Solves(f, k - 1)
    BY <1>3
  <2> DEFINE g == [t \in Type |-> IF t = k THEN FormatOf(Declared[k], V(k), f) ELSE f[t]]
  <2>2. ASSUME NEW t \in 1 .. k PROVE g[t] = FormatOf(Declared[t], V(t), g)
    <3>1. t \in Type /\ \A u \in 1 .. t - 1 : g[u] = f[u]
      BY <1>1
    <3>2. FormatOf(Declared[t], V(t), g) = FormatOf(Declared[t], V(t), f)
      <4> HIDE DEF g
      <4> QED BY <3>1, FormatOfParts
    <3>3. CASE t = k
      BY <3>1, <3>2, <3>3
    <3>4. CASE t # k
      BY <2>1, <3>1, <3>2, <3>4
    <3> QED BY <3>3, <3>4
  <2>3. Solves(g, k)
    BY <2>2
  <2> HIDE DEF g, Solves
  <2> QED BY <2>3
<1>4. n \in T
  <2> HIDE DEF T
  <2>1. \A i \in 0 .. n : i \in T
    BY <1>1, <1>2, <1>3, CountingUp
  <2> QED BY <1>1, <2>1
<1>5. PICK f : Solves(f, n)
  BY <1>4
<1> DEFINE g == [t \in Type |-> f[t]]
<1>6. ASSUME NEW t \in Type PROVE g[t] = FormatOf(Declared[t], V(t), g)
  <2>1. \A u \in 1 .. t - 1 : g[u] = f[u]
    BY <1>1
  <2>2. FormatOf(Declared[t], V(t), g) = FormatOf(Declared[t], V(t), f)
    <3> HIDE DEF g
    <3> QED BY <2>1, FormatOfParts
  <2> QED BY <1>1, <1>5, <2>2
<1>7. g = [t \in Type |-> FormatOf(Declared[t], V(t), g)]
  BY <1>6
<1> HIDE DEF g
<1>8. Format = [t \in Type |-> FormatOf(Declared[t], V(t), Format)]
  BY <1>7 DEF Format, V
<1> QED BY <1>8 DEF V

-----------------------------------------------------------------------------
(***************************************************************************)
(* The laws of a walker c with a format f                                  *)
(***************************************************************************)

(* The outcomes of reading into an object that may hold one of S. *)
Outcome(S) == {Threw} \cup {Done(v) : v \in S}

(* What an object may hold behind T value; or T{}. *)
Fresh(c) == {c.new, c.init}

(* What is read is something an object may hold. *)
IsWalker(c) ==
    /\ c.new \in c.targets
    /\ c.init \in Values(c)
    /\ Values(c) \subseteq c.targets
    /\ \A x \in Document, old \in c.targets, m \in Modes :
            c.read[x][old][m] \in Outcome(c.targets)

(* What is written for a value has the shape of the type; *)
WritesShape(c, f) ==
    \A v \in Values(c) : c.write[v] \in Document => c.write[v] \in f.shaped

(* and keeps it when a member is lost. *)
KeepsShape(f) == \A x \in f.shaped : x \in Document /\ Without[x] \subseteq f.shaped

(* A portable value is read back. *)
ReadsBack(c, f) ==
    \A v \in f.portable :
        /\ v \in Values(c)
        /\ \A old \in Fresh(c), m \in Modes :
            c.write[v] \in Document => c.read[c.write[v]][old][m] = Done(v)

(* Reading throws exactly on what is not complete. *)
ThrowsOnIncomplete(c, f) ==
    \A x \in f.shaped, old \in c.targets, m \in Modes :
        Ok(c.read[x][old][m]) <=> x \in f.complete[m]

(* What the object held before makes no difference. *)
Replaces(c, f) ==
    \A x \in Document, old \in c.targets, other \in c.targets, m \in Modes :
        m \notin f.keeping => c.read[x][old][m] = c.read[x][other][m]

(* Every part of a new object is set. *)
SetsAll(c, f) ==
    \A x \in Document, old \in Fresh(c), m \in Modes :
        (m \notin f.unset /\ Ok(c.read[x][old][m])) => c.read[x][old][m].value \in Values(c)

Keeps(c, f) ==
    /\ IsWalker(c)
    /\ WritesShape(c, f)
    /\ KeepsShape(f)
    /\ ReadsBack(c, f)
    /\ ThrowsOnIncomplete(c, f)
    /\ Replaces(c, f)
    /\ SetsAll(c, f)

(* An outcome is a value or an exception.                                  *)
LEMMA OutcomeCases ==
    ASSUME NEW S, NEW r \in Outcome(S)
    PROVE  /\ Ok(r) => r.value \in S /\ r = Done(r.value)
           /\ ~ Ok(r) => r = Threw
BY DEF Outcome, Ok, Done, Threw

(* Values and exceptions are outcomes and told apart.                      *)
LEMMA Outcomes ==
    /\ ~ Ok(Threw)
    /\ \A v : Ok(Done(v)) /\ Done(v).value = v
    /\ \A S : Threw \in Outcome(S)
    /\ \A S : \A v \in S : Done(v) \in Outcome(S)
<1>1. ~ Ok(Threw)
  BY DEF Ok, Threw
<1>2. \A v : Ok(Done(v)) /\ Done(v).value = v
  BY DEF Ok, Done
<1>3. ASSUME NEW S PROVE Threw \in Outcome(S) /\ \A v \in S : Done(v) \in Outcome(S)
  BY DEF Outcome
<1> QED BY <1>1, <1>2, <1>3

(* The modes, and the default one among them.                              *)
LEMMA ModesOf == DefaultMode \in Modes /\ Modes = {"ignore", "default_initialize", "throw_exception"}
BY DEF DefaultMode, Modes

-----------------------------------------------------------------------------
(***************************************************************************)
(* Types that nlohmann converts itself                                     *)
(***************************************************************************)

(* Neither null nor a number nor a text has members.                       *)
LEMMA NothingToLose ==
    ASSUME NEW x \in Document, x.kind \notin {"array", "object"}
    PROVE  Without[x] = {}
<1>1. Without[x] = WithoutOf(x, Without)
  BY WithoutEquation
<1> QED BY <1>1 DEF WithoutOf

(* The parts of a plain format.                                            *)
LEMMA PlainFields ==
    ASSUME NEW w, NEW shaped
    PROVE  /\ PlainFormat(w, shaped).portable = Values(w)
           /\ PlainFormat(w, shaped).shaped = shaped
           /\ \A m \in Modes : PlainFormat(w, shaped).complete[m] = Document
           /\ PlainFormat(w, shaped).keeping = {}
           /\ PlainFormat(w, shaped).unset = {}
BY DEF PlainFormat

(* The parts of the walker of a number.                                    *)
LEMMA NumFields ==
    /\ NumWalker.targets = Number \cup {Junk}
    /\ NumWalker.new = Junk /\ NumWalker.init = 0
    /\ Values(NumWalker) = Number
    /\ \A v \in Number : NumWalker.write[v] = JNum(v)
    /\ \A x \in Document, old \in Number \cup {Junk}, m \in Modes :
        NumWalker.read[x][old][m] = IF x.kind = "num" THEN Done(x.num) ELSE Threw
BY DEF NumWalker, Values

(* The walker of a number keeps the laws.                                  *)
LEMMA NumKeeps == Keeps(NumWalker, PlainFormat(NumWalker, OfKind({"num"})))
<1> DEFINE c == NumWalker
    f == PlainFormat(c, OfKind({"num"}))
<1>1. 0 \in Number
  <2>1. MaxNumber \in Nat
    BY JsonAssumption
  <2> QED BY <2>1 DEF Number
<1>2. ASSUME NEW x \in Document, x.kind = "num"
      PROVE  x.num \in Number
  BY <1>2, TopLevel, DocumentCases
<1>3. ASSUME NEW v \in Number PROVE JNum(v).kind = "num" /\ JNum(v).num = v
  BY DEF JNum
<1>4. IsWalker(c)
  <2>1. ASSUME NEW x \in Document, NEW old \in c.targets, NEW m \in Modes
        PROVE  c.read[x][old][m] \in Outcome(c.targets)
    <3>1. CASE x.kind = "num"
      <4>1. x.num \in c.targets /\ c.read[x][old][m] = Done(x.num)
        BY <1>2, <3>1, NumFields
      <4> QED BY <4>1, Outcomes
    <3>2. CASE x.kind # "num"
      <4>1. c.read[x][old][m] = Threw
        BY <3>2, NumFields
      <4> QED BY <4>1, Outcomes
    <3> QED BY <3>1, <3>2
  <2> QED BY <1>1, <2>1, NumFields DEF IsWalker
<1>5. WritesShape(c, f)
  BY <1>3, NumFields, PlainFields DEF WritesShape, OfKind
<1>6. KeepsShape(f)
  BY PlainFields, NothingToLose DEF KeepsShape, OfKind
<1>7. ReadsBack(c, f)
  BY <1>1, <1>3, NumFields, PlainFields DEF ReadsBack, Fresh
<1>8. ThrowsOnIncomplete(c, f)
  BY <1>2, NumFields, PlainFields, Outcomes DEF ThrowsOnIncomplete, OfKind
<1>9. Replaces(c, f)
  BY NumFields DEF Replaces
<1>10. SetsAll(c, f)
  BY <1>1, <1>2, NumFields, Outcomes DEF SetsAll, Fresh
<1> QED BY <1>4, <1>5, <1>6, <1>7, <1>8, <1>9, <1>10 DEF Keeps

(* The parts of the walker of a text.                                      *)
LEMMA StringFields ==
    /\ StringWalker.targets = Text
    /\ StringWalker.new = "" /\ StringWalker.init = ""
    /\ Values(StringWalker) = Text
    /\ \A v \in Text : StringWalker.write[v] = JText(v)
    /\ \A x \in Document, old \in Text, m \in Modes :
        StringWalker.read[x][old][m] = IF x.kind = "text" THEN Done(x.text) ELSE Threw
BY DEF StringWalker, Values

(* The walker of a text keeps the laws.                                    *)
LEMMA StringKeeps == Keeps(StringWalker, PlainFormat(StringWalker, OfKind({"text"})))
<1> DEFINE c == StringWalker
    f == PlainFormat(c, OfKind({"text"}))
<1>1. /\ f.portable = Text /\ f.shaped = OfKind({"text"}) /\ f.unset = {}
      /\ \A m \in Modes : f.complete[m] = Document
  <2>1. Values(c) = Text
    BY StringFields
  <2> HIDE DEF c
  <2> QED BY <2>1, PlainFields
<1>2. /\ c.targets = Text /\ Values(c) = Text /\ c.new \in Text /\ c.init \in Text
      /\ \A v \in Text : c.write[v] = JText(v)
      /\ \A x \in Document, old \in Text, m \in Modes :
            c.read[x][old][m] = IF x.kind = "text" THEN Done(x.text) ELSE Threw
  <2>1. "" \in Text
    BY JsonAssumption
  <2> QED BY <2>1, StringFields
<1> HIDE DEF c, f
<1>3. ASSUME NEW v \in Text PROVE JText(v).kind = "text" /\ JText(v).text = v
  BY DEF JText
<1>4. ASSUME NEW x \in Document, NEW old \in Text, NEW m \in Modes
      PROVE  /\ x.kind = "text" => x.text \in Text /\ c.read[x][old][m] = Done(x.text)
             /\ x.kind # "text" => c.read[x][old][m] = Threw
  BY <1>2, TopLevel, DocumentCases
<1>5. IsWalker(c)
  BY <1>2, <1>4, Outcomes DEF IsWalker
<1>6. WritesShape(c, f)
  BY <1>1, <1>2, <1>3 DEF WritesShape, OfKind
<1>7. KeepsShape(f)
  BY <1>1, NothingToLose DEF KeepsShape, OfKind
<1>8. ReadsBack(c, f)
  BY <1>1, <1>2, <1>3, <1>4 DEF ReadsBack, Fresh
<1>9. ThrowsOnIncomplete(c, f)
  BY <1>1, <1>2, <1>4, Outcomes DEF ThrowsOnIncomplete, OfKind
<1>10. Replaces(c, f)
  BY <1>2, <1>4 DEF Replaces
<1>11. SetsAll(c, f)
  BY <1>2, <1>4, Outcomes DEF SetsAll, Fresh
<1>12. Keeps(c, f)
  BY <1>5, <1>6, <1>7, <1>8, <1>9, <1>10, <1>11 DEF Keeps
<1> QED BY <1>12 DEF c, f

(* The parts of the walker of a document.                                  *)
LEMMA AnyFields ==
    /\ AnyWalker.targets = Document
    /\ AnyWalker.new = Null /\ AnyWalker.init = Null
    /\ Values(AnyWalker) = Document
    /\ \A v \in Document : AnyWalker.write[v] = v
    /\ \A x \in Document, old \in Document, m \in Modes : AnyWalker.read[x][old][m] = Done(x)
BY DEF AnyWalker, Values, CopyOf

(* The walker of a document keeps the laws.                                *)
LEMMA AnyKeeps == Keeps(AnyWalker, PlainFormat(AnyWalker, Document))
<1> DEFINE c == AnyWalker
    f == PlainFormat(c, Document)
<1>1. Null \in Document
  BY TopLevel, DocumentsMade
<1>2. /\ f.portable = Document /\ f.shaped = Document
      /\ \A m \in Modes : f.complete[m] = Document
  BY AnyFields, PlainFields
<1>3. /\ c.targets = Document /\ Values(c) = Document /\ c.new = Null /\ c.init = Null
      /\ \A v \in Document : c.write[v] = v
      /\ \A x \in Document, old \in Document, m \in Modes : c.read[x][old][m] = Done(x)
  BY AnyFields
<1> HIDE DEF c, f
<1>4. IsWalker(c)
  BY <1>1, <1>3, Outcomes DEF IsWalker
<1>5. WritesShape(c, f)
  BY <1>2, <1>3 DEF WritesShape
<1>6. KeepsShape(f)
  BY <1>2, WithoutIsDocument DEF KeepsShape
<1>7. ReadsBack(c, f)
  BY <1>1, <1>2, <1>3 DEF ReadsBack, Fresh
<1>8. ThrowsOnIncomplete(c, f)
  BY <1>2, <1>3, Outcomes DEF ThrowsOnIncomplete
<1>9. Replaces(c, f)
  BY <1>3 DEF Replaces
<1>10. SetsAll(c, f)
  BY <1>1, <1>3, Outcomes DEF SetsAll, Fresh
<1>11. Keeps(c, f)
  BY <1>4, <1>5, <1>6, <1>7, <1>8, <1>9, <1>10 DEF Keeps
<1> QED BY <1>11 DEF c, f

(* Losing a member leaves a document of the same kind. *)
LEMMA SameKind ==
    ASSUME NEW x \in Document, NEW y \in Without[x]
    PROVE  y \in Document /\ y.kind = x.kind
<1>1. y \in Document
  BY WithoutIsDocument
<1>2. \A s : JArray(s).kind = "array" /\ JObject(s).kind = "object"
  BY DEF JArray, JObject
<1>3. y.kind = x.kind
  BY <1>2, TopLevel, WithoutCases
<1> QED BY <1>1, <1>3

(* The parts of the walker of an object without fields.                    *)
LEMMA EndFields ==
    /\ EndWalker.targets = {<<>>}
    /\ EndWalker.new = <<>> /\ EndWalker.init = <<>>
    /\ Values(EndWalker) = {<<>>}
    /\ EndWalker.write[<<>>] = Null
    /\ \A x \in Document, m \in Modes : EndWalker.read[x][<<>>][m] = Done(<<>>)
BY DEF EndWalker, Values

(* The walker of an object without fields keeps the laws.                  *)
LEMMA EndKeeps == Keeps(EndWalker, PlainFormat(EndWalker, OfKind({"null", "object"})))
<1> DEFINE c == EndWalker
    f == PlainFormat(c, OfKind({"null", "object"}))
<1>1. IsWalker(c)
  BY EndFields, Outcomes DEF IsWalker
<1>2. WritesShape(c, f)
  BY EndFields, PlainFields DEF WritesShape, OfKind, Null
<1>3. KeepsShape(f)
  BY PlainFields, SameKind DEF KeepsShape, OfKind
<1>4. ReadsBack(c, f)
  BY EndFields, PlainFields DEF ReadsBack, Fresh
<1>5. ThrowsOnIncomplete(c, f)
  BY EndFields, PlainFields, Outcomes DEF ThrowsOnIncomplete, OfKind
<1>6. Replaces(c, f)
  BY EndFields DEF Replaces
<1>7. SetsAll(c, f)
  BY EndFields, Outcomes DEF SetsAll, Fresh
<1> QED BY <1>1, <1>2, <1>3, <1>4, <1>5, <1>6, <1>7 DEF Keeps

-----------------------------------------------------------------------------
(***************************************************************************)
(* Containers                                                              *)
(***************************************************************************)

(* The parts of the format of a container.                                 *)
LEMMA ItemsFormatFields ==
    ASSUME NEW w, NEW item, NEW unset
    PROVE  /\ ItemsFormat(w, item, unset).portable = {v \in Values(w) : Each(v, item.portable)}
           /\ ItemsFormat(w, item, unset).shaped =
                {x \in OfKind({"null", "array"}) : Each(Items(x), item.shaped)}
           /\ \A m \in Modes : ItemsFormat(w, item, unset).complete[m] =
                {x \in Document : Each(Items(x), item.complete[DefaultMode])}
           /\ ItemsFormat(w, item, unset).keeping = Modes
           /\ ItemsFormat(w, item, unset).unset = unset
BY DEF ItemsFormat

(* Each item is read into a new object, in the default mode.               *)
LEMMA ItemsReadEach ==
    ASSUME NEW c, IsWalker(c), NEW x \in Document
    PROVE  /\ Len(Items(x)) \in Nat /\ DOMAIN Items(x) = 1 .. Len(Items(x))
           /\ \A i \in 1 .. Len(Items(x)) :
                /\ Items(x)[i] \in Document
                /\ ItemsRead(c, x)[i] = c.read[Items(x)[i]][c.new][DefaultMode]
                /\ ItemsRead(c, x)[i] \in Outcome(c.targets)
           /\ ItemsOk(c, x) <=> \A i \in 1 .. Len(Items(x)) : Ok(ItemsRead(c, x)[i])
<1>1. Items(x) \in Seq(Document)
  BY ItemsAreDocuments
<1>2. /\ Len(Items(x)) \in Nat /\ DOMAIN Items(x) = 1 .. Len(Items(x))
      /\ \A i \in 1 .. Len(Items(x)) : Items(x)[i] \in Document
  BY <1>1
<1>3. ASSUME NEW i \in 1 .. Len(Items(x))
      PROVE  /\ ItemsRead(c, x)[i] = c.read[Items(x)[i]][c.new][DefaultMode]
             /\ ItemsRead(c, x)[i] \in Outcome(c.targets)
  <2>1. ItemsRead(c, x)[i] = c.read[Items(x)[i]][c.new][DefaultMode]
    BY DEF ItemsRead, ReadItem
  <2> QED BY <1>2, <2>1, ModesOf DEF IsWalker
<1> QED BY <1>2, <1>3 DEF ItemsOk

(* A container with an item that lost a member. *)
LEMMA ItemsKeepShape ==
    ASSUME NEW w, NEW item, NEW unset, KeepsShape(item)
    PROVE  KeepsShape(ItemsFormat(w, item, unset))
<1> DEFINE f == ItemsFormat(w, item, unset)
<1>1. f.shaped = {x \in OfKind({"null", "array"}) : Each(Items(x), item.shaped)}
  BY ItemsFormatFields
<1> HIDE DEF f
<1> SUFFICES ASSUME NEW x \in f.shaped
             PROVE  x \in Document /\ \A y \in Without[x] : y \in f.shaped
  BY DEF KeepsShape, f
<1>2. x \in Document /\ x.kind \in {"null", "array"} /\ Each(Items(x), item.shaped)
  BY <1>1 DEF OfKind
<1>3. ASSUME NEW y \in Without[x] PROVE y \in f.shaped
  <2>1. x.kind = "array"
    BY <1>2, NothingToLose
  <2>2. /\ Depth \in 0 .. Depth /\ x \in DocumentsUpTo[Depth]
        /\ x.items \in Seq(Document) /\ Items(x) = x.items
    BY <1>2, <2>1, TopLevel, ItemsAreDocuments
  <2>3. PICK i \in 1 .. Len(x.items) : \E z \in Without[x.items[i]] :
            y = JArray([x.items EXCEPT ![i] = z])
    BY <2>1, <2>2, WithoutCases
  <2>4. PICK z \in Without[x.items[i]] : y = JArray([x.items EXCEPT ![i] = z])
    BY <2>3
  <2> DEFINE s == x.items
      t == [s EXCEPT ![i] = z]
  <2>5. \A j \in 1 .. Len(s) : s[j] \in item.shaped
    BY <1>2, <2>2 DEF Each
  <2>6. z \in item.shaped
    BY <2>5 DEF KeepsShape
  <2>7. y \in Document /\ y.kind = "array" /\ y.items = t
    <3>1. y \in Document /\ y.kind = "array"
      BY <1>2, <2>1, SameKind
    <3>2. y.items = t
      BY <2>4 DEF JArray
    <3> QED BY <3>1, <3>2
  <2>8. Items(y) = t
    BY <2>7, ItemsAreDocuments
  <2> HIDE DEF s
  <2>9. DOMAIN t = 1 .. Len(s) /\ \A j \in 1 .. Len(s) : t[j] \in item.shaped
    BY <2>2, <2>5, <2>6 DEF s
  <2> HIDE DEF t
  <2>10. Each(Items(y), item.shaped)
    BY <2>8, <2>9 DEF Each
  <2> QED BY <1>1, <2>7, <2>10 DEF OfKind
<1> QED BY <1>2, <1>3

(* Every element of a container is an item of the document written for it. *)
LEMMA ItemsWritten ==
    ASSUME NEW c, NEW v \in Seq(Values(c)), WriteItems(c, v) \in Document
    PROVE  /\ WriteItems(c, v).kind \in {"null", "array"}
           /\ Len(v) \in Nat /\ Len(Items(WriteItems(c, v))) = Len(v)
           /\ \A i \in 1 .. Len(v) :
                /\ Items(WriteItems(c, v))[i] = c.write[v[i]]
                /\ c.write[v[i]] \in Document /\ v[i] \in Values(c)
<1> DEFINE x == WriteItems(c, v)
<1>1. Len(v) \in Nat /\ \A i \in 1 .. Len(v) : v[i] \in Values(c)
  OBVIOUS
<1>2. CASE v = <<>>
  <2>1. x = Null /\ x.kind = "null"
    BY <1>2 DEF WriteItems, Null
  <2> HIDE DEF x
  <2>2. Items(x) = <<>>
    BY <2>1, ItemsAreDocuments DEF x
  <2> QED BY <1>2, <2>1, <2>2 DEF x
<1>3. CASE v # <<>>
  <2> DEFINE s == [i \in 1 .. Len(v) |-> c.write[v[i]]]
  <2>1. x = JArray(s) /\ x.kind = "array" /\ x.items = s
    BY <1>3 DEF WriteItems, JArray
  <2> HIDE DEF x
  <2>2. Items(x) = s /\ s \in Seq(Document)
    BY <2>1, ItemsAreDocuments DEF x
  <2>3. Len(s) = Len(v) /\ \A i \in 1 .. Len(v) : s[i] = c.write[v[i]]
    BY <1>1
  <2> HIDE DEF s
  <2>4. \A i \in 1 .. Len(v) : s[i] \in Document
    BY <2>2, <2>3
  <2> QED BY <1>1, <2>1, <2>2, <2>3, <2>4 DEF x
<1> QED BY <1>2, <1>3

(* A container of elements that have their shape has its own.              *)
LEMMA ItemsShaped ==
    ASSUME NEW c, NEW item, WritesShape(c, item),
           NEW w, NEW unset, NEW v \in Seq(Values(c)), WriteItems(c, v) \in Document
    PROVE  WriteItems(c, v) \in ItemsFormat(w, item, unset).shaped
<1> DEFINE x == WriteItems(c, v)
<1>1. /\ x.kind \in {"null", "array"} /\ Len(v) \in Nat /\ Len(Items(x)) = Len(v)
      /\ \A i \in 1 .. Len(v) : Items(x)[i] \in item.shaped
  BY ItemsWritten DEF WritesShape
<1> HIDE DEF x
<1>2. x \in Document /\ DOMAIN Items(x) = 1 .. Len(Items(x))
  <2>1. x \in Document
    BY DEF x
  <2>2. Items(x) \in Seq(Document)
    BY <2>1, ItemsAreDocuments
  <2> QED BY <2>1, <2>2
<1>3. x \in OfKind({"null", "array"}) /\ Each(Items(x), item.shaped)
  BY <1>1, <1>2 DEF OfKind, Each
<1> QED BY <1>3, ItemsFormatFields DEF x

(* All items that were written are read back.                              *)
LEMMA ItemsReadBack ==
    ASSUME NEW c, IsWalker(c), NEW item, ReadsBack(c, item), NEW v \in Seq(Values(c)),
           Each(v, item.portable), WriteItems(c, v) \in Document
    PROVE  /\ ItemsOk(c, WriteItems(c, v))
           /\ Len(v) \in Nat /\ Len(Items(WriteItems(c, v))) = Len(v)
           /\ \A i \in 1 .. Len(v) : ItemsRead(c, WriteItems(c, v))[i].value = v[i]
<1> DEFINE x == WriteItems(c, v)
<1>1. Len(v) \in Nat /\ Len(Items(x)) = Len(v) /\ x \in Document
  BY ItemsWritten
<1>2. ASSUME NEW i \in 1 .. Len(v) PROVE ItemsRead(c, x)[i] = Done(v[i])
  <2>1. v[i] \in item.portable
    BY DEF Each
  <2>2. Items(x)[i] = c.write[v[i]] /\ c.write[v[i]] \in Document
    BY ItemsWritten
  <2>3. ItemsRead(c, x)[i] = c.read[c.write[v[i]]][c.new][DefaultMode]
    BY <1>1, <2>2, ItemsReadEach
  <2> QED BY <2>1, <2>2, <2>3, ModesOf DEF ReadsBack, Fresh
<1> HIDE DEF x
<1>3. \A i \in 1 .. Len(v) : Ok(ItemsRead(c, x)[i]) /\ ItemsRead(c, x)[i].value = v[i]
  BY <1>2, Outcomes
<1>4. ItemsOk(c, x)
  BY <1>1, <1>3, ItemsReadEach
<1> QED BY <1>1, <1>3, <1>4 DEF x

(* Items of the right shape are refused when a field is missing in one.    *)
LEMMA ItemsThrow ==
    ASSUME NEW c, IsWalker(c), NEW item, ThrowsOnIncomplete(c, item), NEW x \in Document,
           Each(Items(x), item.shaped)
    PROVE  ItemsOk(c, x) <=> Each(Items(x), item.complete[DefaultMode])
<1>1. ASSUME NEW i \in 1 .. Len(Items(x))
      PROVE  Ok(ItemsRead(c, x)[i]) <=> Items(x)[i] \in item.complete[DefaultMode]
  <2>1. Items(x)[i] \in item.shaped
    BY ItemsReadEach DEF Each
  <2>2. ItemsRead(c, x)[i] = c.read[Items(x)[i]][c.new][DefaultMode]
    BY ItemsReadEach
  <2>3. c.new \in c.targets
    BY DEF IsWalker
  <2> QED BY <2>1, <2>2, <2>3, ModesOf DEF ThrowsOnIncomplete
<1> QED BY <1>1, ItemsReadEach DEF Each

(* Items of a new object in the default mode. *)
LEMMA ItemsSet ==
    ASSUME NEW c, IsWalker(c), NEW item, SetsAll(c, item), DefaultMode \notin item.unset,
           NEW x \in Document, ItemsOk(c, x)
    PROVE  \A i \in 1 .. Len(Items(x)) : ItemsRead(c, x)[i].value \in Values(c)
BY ItemsReadEach, ModesOf DEF SetsAll, Fresh

(* What is not said of a container in one mode is not said of its elements *)
(* in the default mode.                                                    *)
LEMMA EverywhereOrNowhere ==
    ASSUME NEW modes, NEW m \in Modes, m \notin Everywhere(modes)
    PROVE  DefaultMode \notin modes
BY DEF Everywhere

(* The parts of the walker of a list.                                      *)
LEMMA ListFields ==
    ASSUME NEW c
    PROVE  /\ ListWalker(c).targets = Seq(c.targets)
           /\ ListWalker(c).new = <<>> /\ ListWalker(c).init = <<>>
           /\ Values(ListWalker(c)) = Seq(Values(c))
           /\ \A v \in Seq(Values(c)) : ListWalker(c).write[v] = WriteItems(c, v)
           /\ \A x \in Document, old \in Seq(c.targets), m \in Modes :
                ListWalker(c).read[x][old][m] = ReadList(c, x, old)
BY DEF ListWalker, Values

(* Reading appends an element for each item, or throws.                    *)
LEMMA ReadListResult ==
    ASSUME NEW c, IsWalker(c), NEW x \in Document, NEW old \in Seq(c.targets)
    PROVE  /\ ReadList(c, x, old) \in Outcome(Seq(c.targets))
           /\ Ok(ReadList(c, x, old)) <=> ItemsOk(c, x)
           /\ \A S : (/\ ItemsOk(c, x) /\ old = <<>>
                      /\ \A i \in 1 .. Len(Items(x)) : ItemsRead(c, x)[i].value \in S) =>
                 /\ ReadList(c, x, old).value \in Seq(S)
                 /\ Len(ReadList(c, x, old).value) = Len(Items(x))
                 /\ ReadList(c, x, old) = Done(ReadList(c, x, old).value)
                 /\ \A i \in 1 .. Len(Items(x)) :
                        ReadList(c, x, old).value[i] = ItemsRead(c, x)[i].value
<1> DEFINE n == Len(Items(x))
    s == [i \in 1 .. n |-> ItemsRead(c, x)[i].value]
<1>1. n \in Nat
  BY ItemsReadEach
<1>2. CASE ItemsOk(c, x)
  <2>1. ReadList(c, x, old) = Done(old \o s)
    BY <1>2 DEF ReadList
  <2>2. \A i \in 1 .. n : ItemsRead(c, x)[i].value \in c.targets
    BY <1>2, ItemsReadEach, OutcomeCases
  <2> HIDE DEF n
  <2>3. \A S : (\A i \in 1 .. n : ItemsRead(c, x)[i].value \in S) => s \in Seq(S)
    <3> TAKE S
    <3> HAVE \A i \in 1 .. n : ItemsRead(c, x)[i].value \in S
    <3>1. s \in [1 .. n -> S]
      OBVIOUS
    <3> HIDE DEF s
    <3> QED BY <1>1, <3>1
  <2>4. /\ Len(s) = n
        /\ \A i \in 1 .. n : s[i] = ItemsRead(c, x)[i].value
    BY <1>1
  <2> HIDE DEF s
  <2>5. s \in Seq(c.targets)
    BY <2>2, <2>3
  <2>6. old \o s \in Seq(c.targets) /\ (old = <<>> => old \o s = s)
    BY <2>5
  <2>7. ReadList(c, x, old) \in Outcome(Seq(c.targets)) /\ Ok(ReadList(c, x, old))
        /\ ReadList(c, x, old).value = old \o s
    BY <2>1, <2>6, Outcomes
  <2> QED BY <1>2, <2>1, <2>3, <2>4, <2>6, <2>7 DEF n
<1>3. CASE ~ ItemsOk(c, x)
  BY <1>3, Outcomes DEF ReadList
<1> QED BY <1>2, <1>3

(* The walker of a list keeps the laws if that of its elements does.       *)
LEMMA ListKeeps ==
    ASSUME NEW c, NEW item, Keeps(c, item)
    PROVE  Keeps(ListWalker(c), ItemsFormat(ListWalker(c), item, Everywhere(item.unset)))
<1> DEFINE l == ListWalker(c)
    f == ItemsFormat(l, item, Everywhere(item.unset))
<1>1. /\ l.targets = Seq(c.targets) /\ l.new = <<>> /\ l.init = <<>>
      /\ Values(l) = Seq(Values(c))
      /\ \A v \in Seq(Values(c)) : l.write[v] = WriteItems(c, v)
      /\ \A x \in Document, old \in Seq(c.targets), m \in Modes :
            l.read[x][old][m] = ReadList(c, x, old)
  BY ListFields
<1>2. /\ f.portable = {v \in Values(l) : Each(v, item.portable)}
      /\ f.shaped = {x \in OfKind({"null", "array"}) : Each(Items(x), item.shaped)}
      /\ \A m \in Modes : f.complete[m] =
            {x \in Document : Each(Items(x), item.complete[DefaultMode])}
      /\ f.keeping = Modes /\ f.unset = Everywhere(item.unset)
  BY ItemsFormatFields
<1>3. /\ IsWalker(c) /\ WritesShape(c, item) /\ KeepsShape(item) /\ ReadsBack(c, item)
      /\ ThrowsOnIncomplete(c, item) /\ SetsAll(c, item)
  BY DEF Keeps
<1>4. KeepsShape(f)
  BY <1>3, ItemsKeepShape
<1>5. \A v \in Seq(Values(c)) : WriteItems(c, v) \in Document => WriteItems(c, v) \in f.shaped
  BY <1>3, ItemsShaped
<1>13. ASSUME NEW old \in Fresh(l) PROVE old = <<>> /\ old \in Seq(c.targets)
  <2>1. l.new = <<>> /\ l.init = <<>>
    BY ListFields
  <2> HIDE DEF l
  <2>2. <<>> \in Seq(c.targets)
    OBVIOUS
  <2>3. old = <<>>
    BY <2>1 DEF Fresh
  <2> QED BY <2>2, <2>3
<1> HIDE DEF l, f
<1>6. IsWalker(l)
  <2>1. <<>> \in Seq(Values(c)) /\ <<>> \in Seq(c.targets)
    OBVIOUS
  <2>2. Seq(Values(c)) \subseteq Seq(c.targets)
    BY <1>3 DEF IsWalker
  <2> QED BY <1>1, <1>3, <2>1, <2>2, ReadListResult DEF IsWalker
<1>7. WritesShape(l, f)
  BY <1>1, <1>5 DEF WritesShape
<1>8. ReadsBack(l, f)
  <2> SUFFICES ASSUME NEW v \in f.portable
               PROVE  /\ v \in Values(l)
                      /\ \A old \in Fresh(l), m \in Modes : l.write[v] \in Document =>
                            l.read[l.write[v]][old][m] = Done(v)
    BY DEF ReadsBack
  <2>1. v \in Values(l) /\ v \in Seq(Values(c)) /\ Each(v, item.portable)
    BY <1>1, <1>2
  <2>2. ASSUME NEW old \in Fresh(l), NEW m \in Modes, l.write[v] \in Document
        PROVE  l.read[l.write[v]][old][m] = Done(v)
    <3> DEFINE x == WriteItems(c, v)
        r == ReadList(c, x, old)
    <3>1. old = <<>> /\ old \in Seq(c.targets)
      BY <1>13
    <3>2. x \in Document /\ l.write[v] = x /\ l.read[x][old][m] = r
      BY <1>1, <2>1, <2>2, <3>1
    <3>3. /\ ItemsOk(c, x) /\ Len(v) \in Nat /\ Len(Items(x)) = Len(v)
          /\ \A i \in 1 .. Len(v) : ItemsRead(c, x)[i].value = v[i]
      BY <1>3, <2>1, <3>2, ItemsReadBack
    <3> HIDE DEF x
    <3>4. \A i \in 1 .. Len(Items(x)) : ItemsRead(c, x)[i].value \in Values(c)
      BY <2>1, <3>3
    <3>7. /\ r.value \in Seq(Values(c)) /\ Len(r.value) = Len(Items(x)) /\ r = Done(r.value)
          /\ \A i \in 1 .. Len(Items(x)) : r.value[i] = ItemsRead(c, x)[i].value
      BY <1>3, <3>1, <3>2, <3>3, <3>4, ReadListResult, Zenon
    <3>5. /\ r.value \in Seq(Values(c)) /\ Len(r.value) = Len(v) /\ r = Done(r.value)
          /\ \A i \in 1 .. Len(v) : r.value[i] = v[i]
      BY <3>3, <3>7
    <3> HIDE DEF r
    <3>6. r.value = v
      BY <2>1, <3>5, SeqEqual
    <3> QED BY <3>2, <3>5, <3>6
  <2> QED BY <2>1, <2>2
<1>9. ThrowsOnIncomplete(l, f)
  <2> SUFFICES ASSUME NEW x \in f.shaped, NEW old \in l.targets, NEW m \in Modes
               PROVE  Ok(l.read[x][old][m]) <=> x \in f.complete[m]
    BY DEF ThrowsOnIncomplete
  <2>1. x \in Document /\ Each(Items(x), item.shaped) /\ old \in Seq(c.targets)
    BY <1>1, <1>2 DEF OfKind
  <2>2. Ok(l.read[x][old][m]) <=> ItemsOk(c, x)
    BY <1>1, <1>3, <2>1, ReadListResult
  <2>3. ItemsOk(c, x) <=> Each(Items(x), item.complete[DefaultMode])
    BY <1>3, <2>1, ItemsThrow
  <2> QED BY <1>2, <2>1, <2>2, <2>3
<1>10. Replaces(l, f)
  BY <1>2 DEF Replaces
<1>11. SetsAll(l, f)
  <2> SUFFICES ASSUME NEW x \in Document, NEW old \in Fresh(l), NEW m \in Modes,
                      m \notin f.unset, Ok(l.read[x][old][m])
               PROVE  l.read[x][old][m].value \in Values(l)
    BY DEF SetsAll
  <2>1. old = <<>> /\ old \in Seq(c.targets)
    BY <1>13
  <2>2. l.read[x][old][m] = ReadList(c, x, old)
    BY <1>1, <2>1
  <2>3. ItemsOk(c, x)
    BY <1>3, <2>1, <2>2, ReadListResult
  <2>4. DefaultMode \notin item.unset
    BY <1>2, EverywhereOrNowhere
  <2>5. \A i \in 1 .. Len(Items(x)) : ItemsRead(c, x)[i].value \in Values(c)
    BY <1>3, <2>3, <2>4, ItemsSet
  <2>6. ReadList(c, x, old).value \in Seq(Values(c))
    BY <1>3, <2>1, <2>3, <2>5, ReadListResult
  <2> QED BY <1>1, <2>2, <2>6
<1>12. Keeps(l, f)
  BY <1>4, <1>6, <1>7, <1>8, <1>9, <1>10, <1>11 DEF Keeps
<1> QED BY <1>12 DEF l, f

(* An array is a sequence of its size.                                     *)
LEMMA FunctionIsSeq ==
    ASSUME NEW S, NEW n \in Nat, NEW f \in [1 .. n -> S]
    PROVE  f \in Seq(S) /\ Len(f) = n
OBVIOUS

(* The parts of the walker of an array.                                    *)
LEMMA ArrayFields ==
    ASSUME NEW c, NEW n
    PROVE  /\ ArrayWalker(c, n).targets = [1 .. n -> c.targets]
           /\ ArrayWalker(c, n).new = [i \in 1 .. n |-> c.new]
           /\ ArrayWalker(c, n).init = [i \in 1 .. n |-> c.init]
           /\ Values(ArrayWalker(c, n)) = [1 .. n -> Values(c)]
           /\ \A v \in [1 .. n -> Values(c)] : ArrayWalker(c, n).write[v] = WriteItems(c, v)
           /\ \A x \in Document, old \in [1 .. n -> c.targets], m \in Modes :
                ArrayWalker(c, n).read[x][old][m] = ReadArray(c, n, x, old)
BY DEF ArrayWalker, Values

(* What an array holds when the items of x were read into it. *)
Filled(c, n, x, old) ==
    [i \in 1 .. n |-> IF i <= Len(Items(x)) THEN ItemsRead(c, x)[i].value ELSE old[i]]

(* Reading fills an array from the front, or throws.                       *)
LEMMA ReadArrayResult ==
    ASSUME NEW c, IsWalker(c), NEW n \in Nat, NEW x \in Document, NEW old \in [1 .. n -> c.targets]
    PROVE  /\ ReadArray(c, n, x, old) \in Outcome([1 .. n -> c.targets])
           /\ Ok(ReadArray(c, n, x, old)) <=> ItemsOk(c, x)
           /\ ItemsOk(c, x) => ReadArray(c, n, x, old) = Done(Filled(c, n, x, old))
<1>1. CASE ItemsOk(c, x)
  <2>1. ReadArray(c, n, x, old) = Done(Filled(c, n, x, old))
    BY <1>1 DEF ReadArray, StoredUpTo, Filled
  <2>2. \A i \in 1 .. Len(Items(x)) : ItemsRead(c, x)[i].value \in c.targets
    BY <1>1, ItemsReadEach, OutcomeCases
  <2>3. Len(Items(x)) \in Nat
    BY ItemsReadEach
  <2>4. Filled(c, n, x, old) \in [1 .. n -> c.targets]
    BY <2>2, <2>3 DEF Filled
  <2> QED BY <1>1, <2>1, <2>4, Outcomes
<1>2. CASE ~ ItemsOk(c, x)
  BY <1>2, Outcomes DEF ReadArray
<1> QED BY <1>1, <1>2

(* The walker of an array keeps the laws if that of its elements does.     *)
LEMMA ArrayKeeps ==
    ASSUME NEW c, NEW item, Keeps(c, item), NEW n \in Nat
    PROVE  Keeps(ArrayWalker(c, n), ItemsFormat(ArrayWalker(c, n), item, Modes))
<1> DEFINE l == ArrayWalker(c, n)
    f == ItemsFormat(l, item, Modes)
<1>1. /\ l.targets = [1 .. n -> c.targets]
      /\ Values(l) = [1 .. n -> Values(c)]
      /\ \A v \in [1 .. n -> Values(c)] : l.write[v] = WriteItems(c, v)
      /\ \A x \in Document, old \in [1 .. n -> c.targets], m \in Modes :
            l.read[x][old][m] = ReadArray(c, n, x, old)
  BY ArrayFields
<1>2. /\ f.portable = {v \in Values(l) : Each(v, item.portable)}
      /\ f.shaped = {x \in OfKind({"null", "array"}) : Each(Items(x), item.shaped)}
      /\ \A m \in Modes : f.complete[m] =
            {x \in Document : Each(Items(x), item.complete[DefaultMode])}
      /\ f.keeping = Modes /\ f.unset = Modes
  BY ItemsFormatFields
<1>3. /\ IsWalker(c) /\ WritesShape(c, item) /\ KeepsShape(item) /\ ReadsBack(c, item)
      /\ ThrowsOnIncomplete(c, item) /\ SetsAll(c, item)
  BY DEF Keeps
<1>4. KeepsShape(f)
  BY <1>3, ItemsKeepShape
<1>5. \A v \in Seq(Values(c)) : WriteItems(c, v) \in Document => WriteItems(c, v) \in f.shaped
  BY <1>3, ItemsShaped
<1>6. l.new \in [1 .. n -> c.targets] /\ l.init \in [1 .. n -> Values(c)]
  <2>1. c.new \in c.targets /\ c.init \in Values(c)
    BY <1>3 DEF IsWalker
  <2>2. l.new = [i \in 1 .. n |-> c.new] /\ l.init = [i \in 1 .. n |-> c.init]
    BY ArrayFields
  <2> HIDE DEF l
  <2> QED BY <2>1, <2>2
<1>7. [1 .. n -> Values(c)] \subseteq [1 .. n -> c.targets]
  BY <1>3 DEF IsWalker
<1>8. \A v \in [1 .. n -> Values(c)] : v \in Seq(Values(c)) /\ Len(v) = n
  BY FunctionIsSeq
<1> HIDE DEF l, f
<1>9. IsWalker(l)
  <2>1. l.new \in l.targets /\ l.init \in Values(l) /\ Values(l) \subseteq l.targets
    BY <1>1, <1>6, <1>7
  <2>2. ASSUME NEW x \in Document, NEW old \in l.targets, NEW m \in Modes
        PROVE  l.read[x][old][m] \in Outcome(l.targets)
    <3>1. old \in [1 .. n -> c.targets] /\ l.read[x][old][m] = ReadArray(c, n, x, old)
      BY <1>1
    <3>2. ReadArray(c, n, x, old) \in Outcome([1 .. n -> c.targets])
      BY <1>3, <3>1, ReadArrayResult
    <3> QED BY <1>1, <3>1, <3>2
  <2> QED BY <2>1, <2>2 DEF IsWalker
<1>10. WritesShape(l, f)
  BY <1>1, <1>5, <1>8 DEF WritesShape
<1>11. ReadsBack(l, f)
  <2> SUFFICES ASSUME NEW v \in f.portable
               PROVE  /\ v \in Values(l)
                      /\ \A old \in Fresh(l), m \in Modes : l.write[v] \in Document =>
                            l.read[l.write[v]][old][m] = Done(v)
    BY DEF ReadsBack
  <2>1. /\ v \in Values(l) /\ v \in [1 .. n -> Values(c)] /\ Each(v, item.portable)
        /\ v \in Seq(Values(c)) /\ Len(v) = n
    BY <1>1, <1>2, <1>8
  <2>2. ASSUME NEW old \in Fresh(l), NEW m \in Modes, l.write[v] \in Document
        PROVE  l.read[l.write[v]][old][m] = Done(v)
    <3> DEFINE x == WriteItems(c, v)
        s == Filled(c, n, x, old)
    <3>1. old \in [1 .. n -> c.targets]
      BY <1>6, <1>7 DEF Fresh
    <3>2. x \in Document /\ l.write[v] = x /\ l.read[x][old][m] = ReadArray(c, n, x, old)
      BY <1>1, <2>1, <2>2, <3>1
    <3>3. /\ ItemsOk(c, x) /\ Len(Items(x)) = n
          /\ \A i \in 1 .. n : ItemsRead(c, x)[i].value = v[i]
      BY <1>3, <2>1, <3>2, ItemsReadBack
    <3> HIDE DEF x
    <3>4. ReadArray(c, n, x, old) = Done(s)
      BY <1>3, <3>1, <3>2, <3>3, ReadArrayResult
    <3>5. s = [i \in 1 .. n |-> v[i]]
      BY <3>3 DEF Filled
    <3>6. v = [i \in 1 .. n |-> v[i]]
      BY <2>1
    <3> QED BY <3>2, <3>4, <3>5, <3>6, Zenon
  <2> QED BY <2>1, <2>2
<1>12. ThrowsOnIncomplete(l, f)
  <2> SUFFICES ASSUME NEW x \in f.shaped, NEW old \in l.targets, NEW m \in Modes
               PROVE  Ok(l.read[x][old][m]) <=> x \in f.complete[m]
    BY DEF ThrowsOnIncomplete
  <2>1. x \in Document /\ Each(Items(x), item.shaped) /\ old \in [1 .. n -> c.targets]
    BY <1>1, <1>2 DEF OfKind
  <2>2. Ok(l.read[x][old][m]) <=> ItemsOk(c, x)
    <3>1. l.read[x][old][m] = ReadArray(c, n, x, old)
      BY <1>1, <2>1
    <3>2. Ok(ReadArray(c, n, x, old)) <=> ItemsOk(c, x)
      BY <1>3, <2>1, ReadArrayResult, Zenon
    <3> QED BY <3>1, <3>2
  <2>3. ItemsOk(c, x) <=> Each(Items(x), item.complete[DefaultMode])
    BY <1>3, <2>1, ItemsThrow
  <2> QED BY <1>2, <2>1, <2>2, <2>3
<1>13. Replaces(l, f)
  BY <1>2 DEF Replaces
<1>14. SetsAll(l, f)
  BY <1>2 DEF SetsAll
<1>15. Keeps(l, f)
  BY <1>4, <1>9, <1>10, <1>11, <1>12, <1>13, <1>14 DEF Keeps
<1> QED BY <1>15 DEF l, f

-----------------------------------------------------------------------------
(***************************************************************************)
(* Optionals                                                               *)
(***************************************************************************)

(* The parts of the format of an optional.                                 *)
LEMMA OptionalFormatFields ==
    ASSUME NEW w, NEW item
    PROVE  /\ OptionalFormat(w, item).portable =
                {v \in Values(w) : v # <<>> => v[1] \in item.portable /\ w.write[v] # Null}
           /\ OptionalFormat(w, item).shaped = {x \in Document : x = Null \/ x \in item.shaped}
           /\ \A m \in Modes : OptionalFormat(w, item).complete[m] =
                {x \in Document : x = Null \/ x \in item.complete[DefaultMode]}
           /\ OptionalFormat(w, item).keeping = {}
           /\ OptionalFormat(w, item).unset = Everywhere(item.unset)
BY DEF OptionalFormat

(* The parts of the walker of an optional.                                 *)
LEMMA OptionalFields ==
    ASSUME NEW c
    PROVE  /\ OptionalWalker(c).targets = Optionally(c.targets)
           /\ OptionalWalker(c).new = <<>> /\ OptionalWalker(c).init = <<>>
           /\ Values(OptionalWalker(c)) = Optionally(Values(c))
           /\ \A v \in Optionally(Values(c)) :
                OptionalWalker(c).write[v] = IF v = <<>> THEN Null ELSE c.write[v[1]]
           /\ \A x \in Document, old \in Optionally(c.targets), m \in Modes :
                OptionalWalker(c).read[x][old][m] = ReadOptional(c, x, old)
BY DEF OptionalWalker, Values

(* There is one document of kind null.                                     *)
LEMMA OnlyNull ==
    ASSUME NEW x \in Document
    PROVE  x.kind = "null" <=> x = Null
<1>1. Null.kind = "null"
  BY DEF Null
<1> QED BY <1>1, TopLevel, DocumentCases

(* Null is read as no value, all else as one, or it throws.                *)
LEMMA ReadOptionalResult ==
    ASSUME NEW c, IsWalker(c), NEW x \in Document, NEW old
    PROVE  /\ c.read[x][c.new][DefaultMode] \in Outcome(c.targets)
           /\ x = Null => ReadOptional(c, x, old) = Done(<<>>)
           /\ (x # Null /\ Ok(c.read[x][c.new][DefaultMode])) =>
                /\ ReadOptional(c, x, old) = Done(<<c.read[x][c.new][DefaultMode].value>>)
                /\ c.read[x][c.new][DefaultMode].value \in c.targets
           /\ (x # Null /\ ~ Ok(c.read[x][c.new][DefaultMode])) => ReadOptional(c, x, old) = Threw
<1> DEFINE r == c.read[x][c.new][DefaultMode]
<1>1. c.read[x][c.new][DefaultMode] \in Outcome(c.targets)
  BY ModesOf DEF IsWalker
<1>2. x = Null => ReadOptional(c, x, old) = Done(<<>>)
  BY OnlyNull DEF ReadOptional, NoValue
<1>3. x # Null => ReadOptional(c, x, old) = IF Ok(r) THEN Done(<<r.value>>) ELSE Threw
  BY OnlyNull DEF ReadOptional, ReadItem
<1> QED BY <1>1, <1>2, <1>3, OutcomeCases

(* The walker of an optional keeps the laws if that of its value does.     *)
LEMMA OptionalKeeps ==
    ASSUME NEW c, NEW item, Keeps(c, item)
    PROVE  Keeps(OptionalWalker(c), OptionalFormat(OptionalWalker(c), item))
<1> DEFINE l == OptionalWalker(c)
    f == OptionalFormat(l, item)
    r(x) == c.read[x][c.new][DefaultMode]
<1>1. /\ l.targets = Optionally(c.targets)
      /\ Values(l) = Optionally(Values(c))
      /\ \A v \in Optionally(Values(c)) : l.write[v] = IF v = <<>> THEN Null ELSE c.write[v[1]]
      /\ \A x \in Document, old \in Optionally(c.targets), m \in Modes :
            l.read[x][old][m] = ReadOptional(c, x, old)
  BY OptionalFields
<1>2. /\ f.portable =
            {v \in Values(l) : v # <<>> => v[1] \in item.portable /\ l.write[v] # Null}
      /\ f.shaped = {x \in Document : x = Null \/ x \in item.shaped}
      /\ \A m \in Modes : f.complete[m] =
            {x \in Document : x = Null \/ x \in item.complete[DefaultMode]}
      /\ f.unset = Everywhere(item.unset)
  BY OptionalFormatFields
<1>3. /\ IsWalker(c) /\ WritesShape(c, item) /\ KeepsShape(item) /\ ReadsBack(c, item)
      /\ ThrowsOnIncomplete(c, item) /\ SetsAll(c, item)
  BY DEF Keeps
<1>4. l.new = <<>> /\ l.init = <<>>
  BY OptionalFields
<1>5. c.new \in c.targets /\ c.new \in Fresh(c) /\ Values(c) \subseteq c.targets
  BY <1>3 DEF IsWalker, Fresh
<1>6. DefaultMode \in Modes
  BY ModesOf
<1> HIDE DEF l, f
<1>7. ASSUME NEW old \in Fresh(l) PROVE old \in Optionally(c.targets)
  <2>1. old = <<>>
    BY <1>4 DEF Fresh
  <2> QED BY <2>1, OptionallyCases
<1>8. IsWalker(l)
  <2>1. l.new \in l.targets /\ l.init \in Values(l)
    BY <1>1, <1>4, OptionallyCases
  <2>2. ASSUME NEW v \in Optionally(Values(c)) PROVE v \in Optionally(c.targets)
    BY <1>5, OptionallyCases
  <2>3. ASSUME NEW x \in Document, NEW old \in l.targets, NEW m \in Modes
        PROVE  l.read[x][old][m] \in Outcome(l.targets)
    <3>1. l.read[x][old][m] = ReadOptional(c, x, old)
      BY <1>1
    <3>2. CASE x = Null
      <4>1. l.read[x][old][m] = Done(<<>>)
        BY <1>3, <3>1, <3>2, ReadOptionalResult
      <4>2. <<>> \in l.targets
        BY <1>1, OptionallyCases
      <4> QED BY <4>1, <4>2, Outcomes
    <3>3. CASE x # Null /\ Ok(r(x))
      <4>1. l.read[x][old][m] = Done(<<r(x).value>>) /\ r(x).value \in c.targets
        BY <1>3, <3>1, <3>3, ReadOptionalResult
      <4>2. <<r(x).value>> \in l.targets
        BY <1>1, <4>1, OptionallyCases
      <4> QED BY <4>1, <4>2, Outcomes
    <3>4. CASE x # Null /\ ~ Ok(r(x))
      BY <1>3, <3>1, <3>4, ReadOptionalResult, Outcomes
    <3> QED BY <3>2, <3>3, <3>4
  <2> QED BY <1>1, <2>1, <2>2, <2>3 DEF IsWalker
<1>9. WritesShape(l, f)
  <2> SUFFICES ASSUME NEW v \in Values(l), l.write[v] \in Document
               PROVE  l.write[v] \in f.shaped
    BY DEF WritesShape
  <2>1. CASE v = <<>>
    BY <1>1, <1>2, <2>1
  <2>2. CASE v # <<>>
    <3>1. v[1] \in Values(c) /\ l.write[v] = c.write[v[1]]
      BY <1>1, <2>2, OptionallyCases
    <3> QED BY <1>2, <1>3, <3>1 DEF WritesShape
  <2> QED BY <2>1, <2>2
<1>10. KeepsShape(f)
  <2> SUFFICES ASSUME NEW x \in f.shaped
               PROVE  x \in Document /\ \A y \in Without[x] : y \in f.shaped
    BY DEF KeepsShape
  <2>1. x \in Document
    BY <1>2
  <2>2. CASE x = Null
    BY <2>1, <2>2, OnlyNull, NothingToLose
  <2>3. CASE x # Null
    <3>1. x \in item.shaped
      BY <1>2, <2>3
    <3>2. \A y \in Without[x] : y \in item.shaped /\ y \in Document
      BY <1>3, <2>1, <3>1, WithoutIsDocument DEF KeepsShape
    <3> QED BY <1>2, <2>1, <3>2
  <2> QED BY <2>2, <2>3
<1>11. ReadsBack(l, f)
  <2> SUFFICES ASSUME NEW v \in f.portable
               PROVE  /\ v \in Values(l)
                      /\ \A old \in Fresh(l), m \in Modes : l.write[v] \in Document =>
                            l.read[l.write[v]][old][m] = Done(v)
    BY DEF ReadsBack
  <2>1. v \in Values(l)
    BY <1>2
  <2>2. ASSUME NEW old \in Fresh(l), NEW m \in Modes, l.write[v] \in Document
        PROVE  l.read[l.write[v]][old][m] = Done(v)
    <3> DEFINE x == l.write[v]
    <3>1. l.read[x][old][m] = ReadOptional(c, x, old)
      BY <1>1, <1>7, <2>2
    <3>2. CASE v = <<>>
      <4>1. x = Null
        BY <1>1, <2>1, <3>2
      <4> QED BY <1>3, <2>2, <3>1, <3>2, <4>1, ReadOptionalResult
    <3>3. CASE v # <<>>
      <4>1. v = <<v[1]>> /\ v[1] \in Values(c) /\ x = c.write[v[1]]
        BY <1>1, <2>1, <3>3, OptionallyCases
      <4>2. v[1] \in item.portable /\ x # Null
        BY <1>2, <3>3
      <4>3. r(x) = Done(v[1])
        BY <1>3, <1>5, <1>6, <2>2, <4>1, <4>2 DEF ReadsBack
      <4>4. Ok(r(x)) /\ r(x).value = v[1]
        BY <4>3, Outcomes
      <4>5. ReadOptional(c, x, old) = Done(<<r(x).value>>)
        BY <1>3, <2>2, <4>2, <4>4, ReadOptionalResult
      <4> QED BY <3>1, <4>1, <4>4, <4>5
    <3> QED BY <3>2, <3>3
  <2> QED BY <2>1, <2>2
<1>12. ThrowsOnIncomplete(l, f)
  <2> SUFFICES ASSUME NEW x \in f.shaped, NEW old \in l.targets, NEW m \in Modes
               PROVE  Ok(l.read[x][old][m]) <=> x \in f.complete[m]
    BY DEF ThrowsOnIncomplete
  <2>1. x \in Document /\ l.read[x][old][m] = ReadOptional(c, x, old)
    BY <1>1, <1>2
  <2>2. CASE x = Null
    <3>1. l.read[x][old][m] = Done(<<>>)
      BY <1>3, <2>1, <2>2, ReadOptionalResult
    <3>2. Ok(l.read[x][old][m])
      BY <3>1, Outcomes
    <3> QED BY <1>2, <2>1, <2>2, <3>2
  <2>3. CASE x # Null
    <3>1. Ok(r(x)) <=> x \in item.complete[DefaultMode]
      BY <1>2, <1>3, <1>5, <1>6, <2>3 DEF ThrowsOnIncomplete
    <3>2. Ok(ReadOptional(c, x, old)) <=> Ok(r(x))
      <4>1. CASE Ok(r(x))
        <5>1. ReadOptional(c, x, old) = Done(<<r(x).value>>)
          BY <1>3, <2>1, <2>3, <4>1, ReadOptionalResult
        <5> QED BY <4>1, <5>1, Outcomes
      <4>2. CASE ~ Ok(r(x))
        <5>1. ReadOptional(c, x, old) = Threw
          BY <1>3, <2>1, <2>3, <4>2, ReadOptionalResult
        <5> QED BY <4>2, <5>1, Outcomes
      <4> QED BY <4>1, <4>2
    <3> QED BY <1>2, <2>1, <2>3, <3>1, <3>2
  <2> QED BY <2>2, <2>3
<1>13. Replaces(l, f)
  <2> SUFFICES ASSUME NEW x \in Document, NEW old \in l.targets, NEW other \in l.targets,
                      NEW m \in Modes
               PROVE  l.read[x][old][m] = l.read[x][other][m]
    BY DEF Replaces
  <2>1. l.read[x][old][m] = ReadOptional(c, x, old)
        /\ l.read[x][other][m] = ReadOptional(c, x, other)
    BY <1>1
  <2> QED BY <2>1 DEF ReadOptional, NoValue
<1>14. SetsAll(l, f)
  <2> SUFFICES ASSUME NEW x \in Document, NEW old \in Fresh(l), NEW m \in Modes,
                      m \notin f.unset, Ok(l.read[x][old][m])
               PROVE  l.read[x][old][m].value \in Values(l)
    BY DEF SetsAll
  <2>1. l.read[x][old][m] = ReadOptional(c, x, old)
    BY <1>1, <1>7
  <2>2. CASE x = Null
    <3>1. l.read[x][old][m] = Done(<<>>)
      BY <1>3, <2>1, <2>2, ReadOptionalResult
    <3>2. l.read[x][old][m].value = <<>>
      BY <3>1, Outcomes
    <3> QED BY <1>1, <3>2, OptionallyCases
  <2>3. CASE x # Null
    <3>1. Ok(r(x))
      BY <1>3, <2>1, <2>3, ReadOptionalResult, Outcomes
    <3>2. DefaultMode \notin item.unset
      BY <1>2, EverywhereOrNowhere
    <3>3. r(x).value \in Values(c)
      BY <1>3, <1>5, <1>6, <3>1, <3>2 DEF SetsAll
    <3>4. l.read[x][old][m].value = <<r(x).value>>
      BY <1>3, <2>1, <2>3, <3>1, ReadOptionalResult, Outcomes
    <3> QED BY <1>1, <3>3, <3>4, OptionallyCases
  <2> QED BY <2>2, <2>3
<1>15. Keeps(l, f)
  BY <1>8, <1>9, <1>10, <1>11, <1>12, <1>13, <1>14 DEF Keeps
<1> QED BY <1>15 DEF l, f

-----------------------------------------------------------------------------
(***************************************************************************)
(* Maps                                                                    *)
(***************************************************************************)

(* A part that keeps its shape when it loses a member, as a member of a    *)
(* document that loses one.                                                *)
LEMMA MemberKeepsShape ==
    ASSUME NEW x \in Document, x.kind \in {"null", "object"}, NEW y \in Without[x],
           NEW S, \A z \in S : Without[z] \subseteq S,
           NEW k \in Name, Each(Members(x)[k], S)
    PROVE  Each(Members(y)[k], S)
<1>1. x.kind = "object"
  BY NothingToLose
<1>2. PICK j \in Subkeys(x) : \E s \in {<<>>} \cup {<<z>> : z \in Without[Subkey(x, j)]} :
          y = JObject([Members(x) EXCEPT ![j] = s])
  BY <1>1, TopLevel, WithoutCases
<1>3. PICK s \in {<<>>} \cup {<<z>> : z \in Without[Subkey(x, j)]} :
          y = JObject([Members(x) EXCEPT ![j] = s])
  BY <1>2
<1>4. /\ Members(x) \in [Name -> Optionally(Below(Depth))] /\ j \in Name
      /\ Subkey(x, j) = Members(x)[j][1] /\ Members(x)[j] # <<>>
  BY TopLevel, MembersCases
<1> DEFINE f == Members(x)
    g == [f EXCEPT ![j] = s]
<1>5. Members(y) = g
  BY <1>3 DEF Members, JObject
<1>6. CASE k # j
  <2>1. g[k] = f[k]
    BY <1>4, <1>6
  <2> QED BY <1>5, <2>1
<1>7. CASE k = j
  <2>1. g[k] = s
    BY <1>4, <1>7
  <2>2. Members(x)[j][1] \in S
    BY <1>4, <1>7, EachOptional
  <2>3. s = <<>> \/ \E z \in S : s = <<z>>
    BY <1>4, <2>2
  <2>4. Each(s, S)
    BY <2>3 DEF Each
  <2> QED BY <1>5, <2>1, <2>4
<1> QED BY <1>6, <1>7

(* The parts of the format of a map.                                       *)
LEMMA MapFormatFields ==
    ASSUME NEW w, NEW item
    PROVE  /\ MapFormat(w, item).portable =
                {v \in Values(w) : \A k \in Name : Each(v[k], item.portable)}
           /\ MapFormat(w, item).shaped =
                {x \in OfKind({"null", "object"}) :
                    \A k \in Name : Each(Members(x)[k], item.shaped)}
           /\ \A m \in Modes : MapFormat(w, item).complete[m] =
                {x \in Document :
                    \A k \in Name : Each(Members(x)[k], item.complete[DefaultMode])}
           /\ MapFormat(w, item).keeping = Modes
           /\ MapFormat(w, item).unset = Everywhere(item.unset)
BY DEF MapFormat

(* The parts of the walker of a map.                                       *)
LEMMA MapFields ==
    ASSUME NEW c
    PROVE  /\ MapWalker(c).targets = [Name -> Optionally(c.targets)]
           /\ MapWalker(c).new = NoMembers /\ MapWalker(c).init = NoMembers
           /\ Values(MapWalker(c)) = [Name -> Optionally(Values(c))]
           /\ \A v \in [Name -> Optionally(Values(c))] : MapWalker(c).write[v] = WriteMap(c, v)
           /\ \A x \in Document, old \in [Name -> Optionally(c.targets)], m \in Modes :
                MapWalker(c).read[x][old][m] = ReadMap(c, x, old)
BY DEF MapWalker, Values

(* The empty map is a map of anything.                                     *)
LEMMA NoMembersOf ==
    ASSUME NEW S
    PROVE  /\ NoMembers \in [Name -> Optionally(S)]
           /\ \A k \in Name : NoMembers[k] = <<>>
BY OptionallyCases DEF NoMembers

(* A member is read over the entry of its key, or over a new one.          *)
LEMMA MemberReadResult ==
    ASSUME NEW c, IsWalker(c), NEW x \in Document, NEW old \in [Name -> Optionally(c.targets)],
           NEW k \in Subkeys(x)
    PROVE  /\ MemberRead(c, x, old, k) \in Outcome(c.targets)
           /\ k \in Name /\ Subkey(x, k) \in Document
           /\ old[k] = <<>> =>
                MemberRead(c, x, old, k) = c.read[Subkey(x, k)][c.init][DefaultMode]
           /\ \E o \in c.targets : MemberRead(c, x, old, k) = c.read[Subkey(x, k)][o][DefaultMode]
<1> DEFINE o == IF old[k] = <<>> THEN c.init ELSE old[k][1]
<1>1. k \in Name /\ Subkey(x, k) \in Document
  BY TopLevel, MembersCases
<1>2. c.init \in c.targets
  BY DEF IsWalker
<1>3. old[k] # <<>> => old[k][1] \in c.targets
  BY <1>1, OptionallyCases
<1>4. o \in c.targets
  BY <1>2, <1>3
<1>5. MemberRead(c, x, old, k) = c.read[Subkey(x, k)][o][DefaultMode]
  BY DEF MemberRead
<1> HIDE DEF o
<1>6. MemberRead(c, x, old, k) \in Outcome(c.targets)
  BY <1>1, <1>4, <1>5, ModesOf DEF IsWalker
<1>7. old[k] = <<>> => o = c.init
  BY DEF o
<1> QED BY <1>1, <1>4, <1>5, <1>6, <1>7

MembersOk(c, x, old) == \A k \in Subkeys(x) : Ok(MemberRead(c, x, old, k))

(* What a map holds when the members of x were read into it. *)
Entered(c, x, old) ==
    [k \in Name |-> IF k \in Subkeys(x) THEN <<MemberRead(c, x, old, k).value>> ELSE old[k]]

(* Reading enters all members into a map, or throws.                       *)
LEMMA ReadMapResult ==
    ASSUME NEW c, IsWalker(c), NEW x \in Document, NEW old \in [Name -> Optionally(c.targets)]
    PROVE  /\ ReadMap(c, x, old) \in Outcome([Name -> Optionally(c.targets)])
           /\ x.kind = "null" => ReadMap(c, x, old) = Done(old)
           /\ x.kind # "object" => ReadMap(c, x, old) = Done(old) \/ ReadMap(c, x, old) = Threw
           /\ (x.kind = "object" /\ MembersOk(c, x, old)) =>
                ReadMap(c, x, old) = Done(Entered(c, x, old))
           /\ (x.kind = "object" /\ ~ MembersOk(c, x, old)) => ReadMap(c, x, old) = Threw
<1> DEFINE T == [Name -> Optionally(c.targets)]
<1>1. CASE x.kind # "object"
  <2>1. /\ Items(x) = <<>> => ReadMap(c, x, old) = Done(old)
        /\ Items(x) # <<>> => ReadMap(c, x, old) = Threw
    BY <1>1 DEF ReadMap
  <2>2. x.kind = "null" => Items(x) = <<>>
    BY ItemsAreDocuments
  <2>3. Done(old) \in Outcome(T) /\ Threw \in Outcome(T)
    BY Outcomes
  <2> QED BY <1>1, <2>1, <2>2, <2>3
<1>2. CASE x.kind = "object" /\ MembersOk(c, x, old)
  <2>1. ReadMap(c, x, old) = Done(Entered(c, x, old))
    BY <1>2, Zenon DEF ReadMap, MembersOk, Entered
  <2>2. ASSUME NEW k \in Subkeys(x)
        PROVE  <<MemberRead(c, x, old, k).value>> \in Optionally(c.targets)
    BY <1>2, MemberReadResult, OutcomeCases, OptionallyCases DEF MembersOk
  <2>3. Entered(c, x, old) \in T
    BY <2>2 DEF Entered
  <2>4. Done(Entered(c, x, old)) \in Outcome(T)
    BY <2>3, Outcomes
  <2> QED BY <1>2, <2>1, <2>4
<1>3. CASE x.kind = "object" /\ ~ MembersOk(c, x, old)
  <2>1. ReadMap(c, x, old) = Threw
    BY <1>3, Zenon DEF ReadMap, MembersOk
  <2>2. Threw \in Outcome(T)
    BY Outcomes
  <2> QED BY <1>3, <2>1, <2>2
<1> QED BY <1>1, <1>2, <1>3

(* Every entry of a map is a member of the document written for it.        *)
LEMMA MapWritten ==
    ASSUME NEW c, NEW v \in [Name -> Optionally(Values(c))], WriteMap(c, v) \in Document
    PROVE  /\ WriteMap(c, v).kind \in {"null", "object"}
           /\ WriteMap(c, v).kind = "null" => v = NoMembers
           /\ \A k \in Name : IF v[k] = <<>> THEN Members(WriteMap(c, v))[k] = <<>>
                ELSE /\ Members(WriteMap(c, v))[k] = <<c.write[v[k][1]]>>
                     /\ c.write[v[k][1]] \in Document
                     /\ v[k][1] \in Values(c) /\ v[k] = <<v[k][1]>>
<1> DEFINE x == WriteMap(c, v)
    g == [k \in Name |-> IF v[k] = <<>> THEN <<>> ELSE <<c.write[v[k][1]]>>]
<1>1. \A k \in Name : v[k] # <<>> => v[k][1] \in Values(c) /\ v[k] = <<v[k][1]>>
  BY OptionallyCases
<1>2. CASE v = NoMembers
  <2>1. x = Null /\ x.kind = "null"
    BY <1>2 DEF WriteMap, Null
  <2>2. Members(x) = NoMembers
    BY <2>1 DEF Members
  <2> QED BY <1>2, <2>1, <2>2, NoMembersOf
<1>3. CASE v # NoMembers
  <2>1. x = JObject(g)
    BY <1>3 DEF WriteMap
  <2>2. x.kind = "object" /\ Members(x) = g
    BY <2>1 DEF Members, JObject
  <2> HIDE DEF x
  <2>3. x \in Document
    BY DEF x
  <2>4. Members(x) \in [Name -> Optionally(Below(Depth))]
    BY <2>3, TopLevel, MembersCases
  <2>5. ASSUME NEW k \in Name, v[k] # <<>>
        PROVE  Members(x)[k] = <<c.write[v[k][1]]>> /\ c.write[v[k][1]] \in Document
    <3>1. Members(x)[k] = <<c.write[v[k][1]]>>
      BY <2>2, <2>5
    <3>2. Members(x)[k][1] \in Below(Depth)
      BY <2>4, <3>1, OptionallyCases
    <3> QED BY <3>1, <3>2, TopLevel
  <2>6. \A k \in Name : v[k] = <<>> => Members(x)[k] = <<>>
    BY <2>2
  <2> QED BY <1>1, <2>2, <2>5, <2>6 DEF x
<1> QED BY <1>2, <1>3

(* What is said of the member of a key, in the ways it is said.            *)
LEMMA EachMember ==
    ASSUME NEW x \in Document, NEW k \in Name, NEW S
    PROVE  /\ Each(Members(x)[k], S) <=> (k \in Subkeys(x) => Subkey(x, k) \in S)
           /\ Each(Members(x)[k], S) <=> (Members(x)[k] # <<>> => Members(x)[k][1] \in S)
           /\ k \in Subkeys(x) <=> Members(x)[k] # <<>>
           /\ Subkey(x, k) = Members(x)[k][1]
<1>1. /\ Members(x)[k] \in Optionally(Below(Depth))
      /\ Subkey(x, k) = Members(x)[k][1]
      /\ k \in Subkeys(x) <=> Members(x)[k] # <<>>
  BY TopLevel, MembersCases
<1> QED BY <1>1, EachOptional

(* The walker of a map keeps the laws if that of its entries does.         *)
LEMMA MapKeeps ==
    ASSUME NEW c, NEW item, Keeps(c, item)
    PROVE  Keeps(MapWalker(c), MapFormat(MapWalker(c), item))
<1> DEFINE l == MapWalker(c)
    f == MapFormat(l, item)
    T == [Name -> Optionally(c.targets)]
    V == [Name -> Optionally(Values(c))]
<1>1. /\ l.targets = T /\ Values(l) = V
      /\ \A v \in V : l.write[v] = WriteMap(c, v)
      /\ \A x \in Document, old \in T, m \in Modes : l.read[x][old][m] = ReadMap(c, x, old)
  BY MapFields
<1>2. /\ f.portable = {v \in Values(l) : \A k \in Name : Each(v[k], item.portable)}
      /\ f.shaped = {x \in OfKind({"null", "object"}) :
                        \A k \in Name : Each(Members(x)[k], item.shaped)}
      /\ \A m \in Modes : f.complete[m] =
            {x \in Document : \A k \in Name : Each(Members(x)[k], item.complete[DefaultMode])}
      /\ f.keeping = Modes /\ f.unset = Everywhere(item.unset)
  BY MapFormatFields
<1>3. /\ IsWalker(c) /\ WritesShape(c, item) /\ KeepsShape(item) /\ ReadsBack(c, item)
      /\ ThrowsOnIncomplete(c, item) /\ SetsAll(c, item)
  BY DEF Keeps
<1>4. l.new = NoMembers /\ l.init = NoMembers
  BY MapFields
<1>5. c.init \in Fresh(c)
  BY DEF Fresh
<1>6. DefaultMode \in Modes
  BY ModesOf
<1>7. NoMembers \in T /\ NoMembers \in V
  BY NoMembersOf
<1>8. V \subseteq T
  <2>1. Values(c) \subseteq c.targets
    BY <1>3 DEF IsWalker
  <2>2. Optionally(Values(c)) \subseteq Optionally(c.targets)
    BY <2>1, OptionallyCases
  <2> QED BY <2>2
<1> HIDE DEF l, f
<1>9. ASSUME NEW old \in Fresh(l) PROVE old = NoMembers /\ old \in T
  BY <1>4, <1>7 DEF Fresh
<1>10. IsWalker(l)
  <2>1. ASSUME NEW x \in Document, NEW old \in T, NEW m \in Modes
        PROVE  l.read[x][old][m] \in Outcome(T)
    <3>1. ReadMap(c, x, old) \in Outcome(T)
      BY <1>3, ReadMapResult
    <3> QED BY <1>1, <3>1
  <2> HIDE DEF T, V
  <2> QED BY <1>1, <1>4, <1>7, <1>8, <2>1 DEF IsWalker
<1>11. WritesShape(l, f)
  <2> SUFFICES ASSUME NEW v \in Values(l), l.write[v] \in Document
               PROVE  l.write[v] \in f.shaped
    BY DEF WritesShape
  <2> DEFINE x == l.write[v]
  <2>1. v \in V /\ x = WriteMap(c, v) /\ x \in Document
    BY <1>1
  <2>2. x.kind \in {"null", "object"}
    BY <2>1, MapWritten
  <2>3. ASSUME NEW k \in Name PROVE Each(Members(x)[k], item.shaped)
    <3>1. CASE v[k] = <<>>
      <4>1. Members(x)[k] = <<>>
        BY <2>1, <3>1, MapWritten
      <4> QED BY <2>1, <4>1, EachMember
    <3>2. CASE v[k] # <<>>
      <4>1. /\ Members(x)[k] = <<c.write[v[k][1]]>>
            /\ c.write[v[k][1]] \in Document /\ v[k][1] \in Values(c)
        BY <2>1, <3>2, MapWritten
      <4>2. c.write[v[k][1]] \in item.shaped
        BY <1>3, <4>1 DEF WritesShape
      <4> QED BY <2>1, <4>1, <4>2, EachMember
    <3> QED BY <3>1, <3>2
  <2> QED BY <1>2, <2>1, <2>2, <2>3 DEF OfKind
<1>12. KeepsShape(f)
  <2> SUFFICES ASSUME NEW x \in f.shaped
               PROVE  x \in Document /\ \A y \in Without[x] : y \in f.shaped
    BY DEF KeepsShape
  <2>1. /\ x \in Document /\ x.kind \in {"null", "object"}
        /\ \A k \in Name : Each(Members(x)[k], item.shaped)
    BY <1>2 DEF OfKind
  <2>2. \A z \in item.shaped : Without[z] \subseteq item.shaped
    BY <1>3 DEF KeepsShape
  <2>3. ASSUME NEW y \in Without[x] PROVE y \in f.shaped
    <3>1. y \in Document /\ y.kind \in {"null", "object"}
      BY <2>1, SameKind
    <3>2. \A k \in Name : Each(Members(y)[k], item.shaped)
      BY <2>1, <2>2, MemberKeepsShape
    <3> QED BY <1>2, <3>1, <3>2 DEF OfKind
  <2> QED BY <2>1, <2>3
<1>13. ReadsBack(l, f)
  <2> SUFFICES ASSUME NEW v \in f.portable
               PROVE  /\ v \in Values(l)
                      /\ \A old \in Fresh(l), m \in Modes : l.write[v] \in Document =>
                            l.read[l.write[v]][old][m] = Done(v)
    BY DEF ReadsBack
  <2>1. v \in Values(l) /\ v \in V /\ \A k \in Name : Each(v[k], item.portable)
    BY <1>1, <1>2
  <2>2. ASSUME NEW old \in Fresh(l), NEW m \in Modes, l.write[v] \in Document
        PROVE  l.read[l.write[v]][old][m] = Done(v)
    <3> DEFINE x == l.write[v]
    <3>1. x = WriteMap(c, v) /\ x \in Document
      BY <1>1, <2>1, <2>2
    <3>2. old = NoMembers /\ old \in T /\ l.read[x][old][m] = ReadMap(c, x, old)
      BY <1>1, <1>9, <3>1
    <3> HIDE DEF x
    <3>3. CASE x.kind = "null"
      <4>1. v = NoMembers
        BY <2>1, <3>1, <3>3, MapWritten
      <4>2. ReadMap(c, x, old) = Done(old)
        BY <1>3, <3>1, <3>2, <3>3, ReadMapResult
      <4> QED BY <3>2, <4>1, <4>2 DEF x
    <3>4. CASE x.kind # "null"
      <4>1. x.kind = "object"
        BY <2>1, <3>1, <3>4, MapWritten
      <4>2. ASSUME NEW k \in Name, v[k] = <<>> PROVE k \notin Subkeys(x)
        <5>1. Members(x)[k] = <<>>
          BY <2>1, <3>1, <4>2, MapWritten
        <5> QED BY <3>1, <5>1, EachMember
      <4>3. ASSUME NEW k \in Name, v[k] # <<>>
            PROVE  /\ k \in Subkeys(x) /\ v[k] = <<v[k][1]>>
                   /\ MemberRead(c, x, old, k) = Done(v[k][1])
        <5>1. /\ Members(x)[k] = <<c.write[v[k][1]]>> /\ v[k] = <<v[k][1]>>
              /\ c.write[v[k][1]] \in Document /\ v[k][1] \in Values(c)
          BY <2>1, <3>1, <4>3, MapWritten
        <5>2. k \in Subkeys(x) /\ Subkey(x, k) = c.write[v[k][1]]
          BY <3>1, <5>1, EachMember
        <5>3. v[k][1] \in item.portable
          BY <2>1, <5>1 DEF Each
        <5>4. old[k] = <<>>
          BY <3>2, NoMembersOf
        <5>5. MemberRead(c, x, old, k) = c.read[c.write[v[k][1]]][c.init][DefaultMode]
          BY <1>3, <3>1, <3>2, <5>2, <5>4, MemberReadResult
        <5>6. c.read[c.write[v[k][1]]][c.init][DefaultMode] = Done(v[k][1])
          BY <1>3, <1>5, <1>6, <5>1, <5>3 DEF ReadsBack
        <5> QED BY <5>1, <5>2, <5>5, <5>6
      <4>4. Subkeys(x) \subseteq Name
        BY <3>1, TopLevel, MembersCases
      <4>5. \A k \in Subkeys(x) : /\ Ok(MemberRead(c, x, old, k))
                                  /\ MemberRead(c, x, old, k).value = v[k][1]
                                  /\ v[k] = <<v[k][1]>>
        BY <4>2, <4>3, <4>4, Outcomes
      <4>6. ReadMap(c, x, old) = Done(Entered(c, x, old))
        BY <1>3, <3>1, <3>2, <4>1, <4>5, ReadMapResult DEF MembersOk
      <4>7. \A k \in Name \ Subkeys(x) : v[k] = <<>> /\ old[k] = <<>>
        BY <3>2, <4>3, NoMembersOf
      <4>8. Entered(c, x, old) = [k \in Name |-> v[k]]
        BY <4>5, <4>7 DEF Entered
      <4>9. v = [k \in Name |-> v[k]]
        BY <2>1
      <4> QED BY <3>2, <4>6, <4>8, <4>9, Zenon DEF x
    <3> QED BY <3>3, <3>4
  <2> QED BY <2>1, <2>2
<1>14. ThrowsOnIncomplete(l, f)
  <2> SUFFICES ASSUME NEW x \in f.shaped, NEW old \in l.targets, NEW m \in Modes
               PROVE  Ok(l.read[x][old][m]) <=> x \in f.complete[m]
    BY DEF ThrowsOnIncomplete
  <2>1. /\ x \in Document /\ x.kind \in {"null", "object"} /\ old \in T
        /\ \A k \in Name : Each(Members(x)[k], item.shaped)
        /\ l.read[x][old][m] = ReadMap(c, x, old)
    BY <1>1, <1>2 DEF OfKind
  <2> DEFINE complete == \A k \in Name : Each(Members(x)[k], item.complete[DefaultMode])
  <2>2. x \in f.complete[m] <=> complete
    BY <1>2, <2>1
  <2> HIDE DEF T, complete
  <2>3. CASE x.kind = "null"
    <3>1. ReadMap(c, x, old) = Done(old)
      BY <1>3, <2>1, <2>3, ReadMapResult DEF T
    <3>2. Ok(ReadMap(c, x, old))
      BY <3>1, Outcomes
    <3>3. Members(x) = NoMembers
      BY <2>3 DEF Members
    <3>4. complete
      BY <2>1, <3>3, NoMembersOf, EachMember DEF complete
    <3> QED BY <2>1, <2>2, <3>2, <3>4
  <2>4. CASE x.kind = "object"
    <3>1. ASSUME NEW k \in Subkeys(x)
          PROVE  Ok(MemberRead(c, x, old, k)) <=> Subkey(x, k) \in item.complete[DefaultMode]
      <4>1. PICK o \in c.targets : MemberRead(c, x, old, k) = c.read[Subkey(x, k)][o][DefaultMode]
        BY <1>3, <2>1, MemberReadResult DEF T
      <4>2. k \in Name
        BY <2>1, TopLevel, MembersCases
      <4>3. Subkey(x, k) \in item.shaped
        BY <2>1, <4>2, EachMember
      <4> QED BY <1>3, <1>6, <4>1, <4>3 DEF ThrowsOnIncomplete
    <3>2. Subkeys(x) \subseteq Name
      BY <2>1, TopLevel, MembersCases
    <3>3. MembersOk(c, x, old) <=> complete
      BY <2>1, <3>1, <3>2, EachMember DEF MembersOk, complete
    <3>4. CASE MembersOk(c, x, old)
      <4>1. ReadMap(c, x, old) = Done(Entered(c, x, old))
        BY <1>3, <2>1, <2>4, <3>4, ReadMapResult DEF T
      <4> QED BY <2>1, <2>2, <3>3, <3>4, <4>1, Outcomes
    <3>5. CASE ~ MembersOk(c, x, old)
      <4>1. ReadMap(c, x, old) = Threw
        BY <1>3, <2>1, <2>4, <3>5, ReadMapResult DEF T
      <4> QED BY <2>1, <2>2, <3>3, <3>5, <4>1, Outcomes
    <3> QED BY <3>4, <3>5
  <2> QED BY <2>1, <2>3, <2>4
<1>15. Replaces(l, f)
  BY <1>2 DEF Replaces
<1>16. SetsAll(l, f)
  <2> SUFFICES ASSUME NEW x \in Document, NEW old \in Fresh(l), NEW m \in Modes,
                      m \notin f.unset, Ok(l.read[x][old][m])
               PROVE  l.read[x][old][m].value \in Values(l)
    BY DEF SetsAll
  <2>1. old = NoMembers /\ old \in T /\ l.read[x][old][m] = ReadMap(c, x, old)
    BY <1>1, <1>9
  <2>2. DefaultMode \notin item.unset
    BY <1>2, EverywhereOrNowhere
  <2>3. CASE x.kind # "object"
    <3>1. ReadMap(c, x, old) = Done(old) \/ ReadMap(c, x, old) = Threw
      BY <1>3, <2>1, <2>3, ReadMapResult
    <3>2. l.read[x][old][m] = Done(old)
      BY <2>1, <3>1, Outcomes
    <3>3. l.read[x][old][m].value = old
      BY <3>2, Outcomes
    <3> QED BY <1>1, <1>7, <2>1, <3>3
  <2>4. CASE x.kind = "object"
    <3>1. MembersOk(c, x, old)
      <4> SUFFICES ASSUME ~ MembersOk(c, x, old) PROVE FALSE
        OBVIOUS
      <4>1. ReadMap(c, x, old) = Threw
        BY <1>3, <2>1, <2>4, ReadMapResult
      <4> QED BY <2>1, <4>1, Outcomes
    <3>2. l.read[x][old][m] = Done(Entered(c, x, old))
      BY <1>3, <2>1, <2>4, <3>1, ReadMapResult
    <3>3. ASSUME NEW k \in Subkeys(x)
          PROVE  <<MemberRead(c, x, old, k).value>> \in Optionally(Values(c))
      <4>1. k \in Name /\ Subkey(x, k) \in Document
        BY TopLevel, MembersCases
      <4>2. old[k] = <<>>
        BY <2>1, <4>1, NoMembersOf
      <4>3. MemberRead(c, x, old, k) = c.read[Subkey(x, k)][c.init][DefaultMode]
        BY <1>3, <2>1, <4>2, MemberReadResult
      <4>4. MemberRead(c, x, old, k).value \in Values(c)
        BY <1>3, <1>5, <1>6, <2>2, <3>1, <4>1, <4>3 DEF SetsAll, MembersOk
      <4> QED BY <4>4, OptionallyCases
    <3>4. Entered(c, x, old) \in V
      <4>1. \A k \in Name : old[k] \in Optionally(Values(c))
        BY <1>7, <2>1
      <4> QED BY <3>3, <4>1 DEF Entered
    <3>5. l.read[x][old][m].value = Entered(c, x, old)
      BY <3>2, Outcomes
    <3> QED BY <1>1, <3>4, <3>5
  <2> QED BY <2>3, <2>4
<1>17. Keeps(l, f)
  BY <1>10, <1>11, <1>12, <1>13, <1>14, <1>15, <1>16 DEF Keeps
<1> QED BY <1>17 DEF l, f

-----------------------------------------------------------------------------
(***************************************************************************)
(* Objects                                                                 *)
(***************************************************************************)

(* x has the members that c writes for v, and maybe others. *)
Carries(x, c, v) == \A k \in c.names : Members(x)[k] = Members(c.write[v])[k]

(* An object, from a field on, writes members of its own names, and looks  *)
(* for no others.                                                          *)
IsObject(c, f) ==
    /\ c.names \subseteq Name
    /\ \A v \in Values(c) :
        /\ c.write[v].kind \in {"null", "object"}
        /\ DOMAIN Members(c.write[v]) = Name
        /\ Members(c.write[v]) = [k \in Name |-> Members(c.write[v])[k]]
        /\ \A k \in Name \ c.names : Members(c.write[v])[k] = <<>>
    /\ f.shaped \subseteq OfKind({"null", "object"})
    /\ \A v \in Values(c), x \in OfKind({"null", "object"}) : Carries(x, c, v) =>
        /\ x \in f.shaped
        /\ v \in f.portable => \A old \in Fresh(c), m \in Modes : c.read[x][old][m] = Done(v)

(* An object without fields touches no names.                              *)
LEMMA EndIsObject == IsObject(EndWalker, PlainFormat(EndWalker, OfKind({"null", "object"})))
<1> DEFINE c == EndWalker
    f == PlainFormat(c, OfKind({"null", "object"}))
<1>1. c.names = {} /\ f.shaped = OfKind({"null", "object"})
  BY DEF EndWalker, PlainFormat
<1>2. /\ c.new = <<>> /\ c.init = <<>> /\ Values(c) = {<<>>} /\ c.write[<<>>] = Null
      /\ \A x \in Document, m \in Modes : c.read[x][<<>>][m] = Done(<<>>)
  BY EndFields
<1> HIDE DEF c, f
<1>3. Null.kind = "null" /\ Members(Null) = [k \in Name |-> <<>>]
  BY DEF Null, Members, NoMembers
<1>4. ASSUME NEW x \in OfKind({"null", "object"}), NEW old \in Fresh(c), NEW m \in Modes
      PROVE  c.read[x][old][m] = Done(<<>>)
  <2>1. x \in Document /\ old = <<>>
    BY <1>2 DEF OfKind, Fresh
  <2> QED BY <1>2, <2>1
<1>5. IsObject(c, f)
  <2>1. \A v \in Values(c) : c.write[v] = Null /\ v = <<>>
    BY <1>2
  <2>2. \A k \in Name : Members(Null)[k] = <<>>
    BY <1>3
  <2>3. DOMAIN Members(Null) = Name /\ Members(Null) = [k \in Name |-> Members(Null)[k]]
    BY <1>3
  <2>4. c.names \subseteq Name /\ f.shaped \subseteq OfKind({"null", "object"})
    BY <1>1
  <2>5. ASSUME NEW v \in Values(c)
        PROVE  /\ c.write[v].kind \in {"null", "object"}
               /\ DOMAIN Members(c.write[v]) = Name
               /\ Members(c.write[v]) = [k \in Name |-> Members(c.write[v])[k]]
               /\ \A k \in Name \ c.names : Members(c.write[v])[k] = <<>>
    BY <1>3, <2>1, <2>2, <2>3
  <2>6. \A v \in Values(c), x \in OfKind({"null", "object"}) :
            /\ x \in f.shaped
            /\ \A old \in Fresh(c), m \in Modes : c.read[x][old][m] = Done(v)
    BY <1>1, <1>4, <2>1
  <2> QED BY <2>4, <2>5, <2>6, Zenon DEF IsObject
<1> QED BY <1>5 DEF c, f

(* The parts of the format of an object.                                   *)
LEMMA ObjectFormatFields ==
    ASSUME NEW d, NEW w, NEW first, NEW rest
    PROVE  /\ ObjectFormat(d, w, first, rest).portable =
                {v \in Values(w) : v[1] \in first.portable /\ v[2] \in rest.portable}
           /\ ObjectFormat(d, w, first, rest).shaped =
                {x \in Document : Each(Members(x)[d.name], first.shaped) /\ x \in rest.shaped}
           /\ \A m \in Modes : ObjectFormat(d, w, first, rest).complete[m] =
                {x \in Document :
                    /\ IF SubkeyExists(x, d.name) THEN Subkey(x, d.name) \in first.complete[m]
                       ELSE m # "throw_exception" \/ d.lenient
                    /\ x \in rest.complete[m]}
           /\ ObjectFormat(d, w, first, rest).keeping =
                Leaves(d) \cup first.keeping \cup rest.keeping
           /\ ObjectFormat(d, w, first, rest).unset = Leaves(d) \cup first.unset \cup rest.unset
BY DEF ObjectFormat

(* The parts of the walker of an object.                                   *)
LEMMA ObjectFields ==
    ASSUME NEW d, NEW a, NEW r
    PROVE  /\ ObjectWalker(d, a, r).names = {d.name} \cup r.names
           /\ ObjectWalker(d, a, r).targets = a.targets \X r.targets
           /\ ObjectWalker(d, a, r).new = <<a.new, r.new>>
           /\ ObjectWalker(d, a, r).init = <<a.init, r.init>>
           /\ Values(ObjectWalker(d, a, r)) = Values(a) \X Values(r)
           /\ \A v \in Values(a) \X Values(r) :
                ObjectWalker(d, a, r).write[v] = WriteObject(d, a, r, v)
           /\ \A x \in Document, old \in a.targets \X r.targets, m \in Modes :
                ObjectWalker(d, a, r).read[x][old][m] = ReadObject(d, a, r, x, old, m)
BY DEF ObjectWalker, Values

(* A field is read from its member, or missing: then it throws, is         *)
(* initialised or left.                                                    *)
LEMMA ReadFieldResult ==
    ASSUME NEW d, d.name \in Name, NEW a, IsWalker(a), NEW x \in Document,
           NEW old \in a.targets, NEW m \in Modes
    PROVE  /\ ReadField(d, a, x, old, m) \in Outcome(a.targets)
           /\ SubkeyExists(x, d.name) => /\ Subkey(x, d.name) \in Document
                /\ ReadField(d, a, x, old, m) = a.read[Subkey(x, d.name)][old][m]
           /\ (~ SubkeyExists(x, d.name) /\ m = "throw_exception" /\ ~ d.lenient) =>
                ReadField(d, a, x, old, m) = Threw
           /\ (~ SubkeyExists(x, d.name) /\ ~ (m = "throw_exception" /\ ~ d.lenient)) =>
                ReadField(d, a, x, old, m) = Done(IF m = "default_initialize" THEN a.init ELSE old)
<1>1. CASE SubkeyExists(x, d.name)
  <2>1. Subkey(x, d.name) \in Document
    BY <1>1, TopLevel, MembersCases
  <2>2. ReadField(d, a, x, old, m) = a.read[Subkey(x, d.name)][old][m]
    BY <1>1 DEF ReadField
  <2>3. a.read[Subkey(x, d.name)][old][m] \in Outcome(a.targets)
    BY <2>1 DEF IsWalker
  <2> QED BY <1>1, <2>1, <2>2, <2>3
<1>2. CASE ~ SubkeyExists(x, d.name) /\ m = "throw_exception" /\ ~ d.lenient
  <2>1. ReadField(d, a, x, old, m) = Threw
    BY <1>2 DEF ReadField, Required
  <2> QED BY <1>2, <2>1, Outcomes
<1>3. CASE ~ SubkeyExists(x, d.name) /\ ~ (m = "throw_exception" /\ ~ d.lenient)
  <2> DEFINE e == IF m = "default_initialize" THEN a.init ELSE old
  <2>1. ReadField(d, a, x, old, m) = Done(e)
    BY <1>3 DEF ReadField, Required, Absent
  <2>2. e \in a.targets
    BY DEF IsWalker
  <2>3. Done(e) \in Outcome(a.targets)
    BY <2>2, Outcomes
  <2> QED BY <1>3, <2>1, <2>3
<1> QED BY <1>1, <1>2, <1>3

(* An object is read when its first field and the others are.              *)
LEMMA ReadObjectResult ==
    ASSUME NEW d, d.name \in Name, NEW a, IsWalker(a), NEW r, IsWalker(r), NEW x \in Document,
           NEW old \in a.targets \X r.targets, NEW m \in Modes
    PROVE  /\ old[1] \in a.targets /\ old[2] \in r.targets
           /\ ReadObject(d, a, r, x, old, m) \in Outcome(a.targets \X r.targets)
           /\ Ok(ReadObject(d, a, r, x, old, m)) <=>
                Ok(ReadField(d, a, x, old[1], m)) /\ Ok(r.read[x][old[2]][m])
           /\ Ok(ReadObject(d, a, r, x, old, m)) =>
                ReadObject(d, a, r, x, old, m) =
                    Done(<<ReadField(d, a, x, old[1], m).value, r.read[x][old[2]][m].value>>)
<1> DEFINE first == ReadField(d, a, x, old[1], m)
    rest == r.read[x][old[2]][m]
    o == ReadObject(d, a, r, x, old, m)
<1>1. old[1] \in a.targets /\ old[2] \in r.targets
  OBVIOUS
<1>2. first \in Outcome(a.targets)
  BY <1>1, ReadFieldResult
<1>3. rest \in Outcome(r.targets)
  BY <1>1 DEF IsWalker
<1>4. o = IF Ok(first) /\ Ok(rest) THEN Done(<<first.value, rest.value>>) ELSE Threw
  BY DEF ReadObject
<1> HIDE DEF first, rest, o
<1>5. CASE Ok(first) /\ Ok(rest)
  <2>1. first.value \in a.targets /\ rest.value \in r.targets
    BY <1>2, <1>3, <1>5, OutcomeCases
  <2>2. <<first.value, rest.value>> \in a.targets \X r.targets
    BY <2>1
  <2>3. o = Done(<<first.value, rest.value>>)
    BY <1>4, <1>5
  <2>4. o \in Outcome(a.targets \X r.targets) /\ Ok(o)
    BY <2>2, <2>3, Outcomes
  <2> QED BY <1>1, <1>5, <2>3, <2>4 DEF first, rest, o
<1>6. CASE ~ (Ok(first) /\ Ok(rest))
  <2>1. o = Threw
    BY <1>4, <1>6
  <2>2. o \in Outcome(a.targets \X r.targets) /\ ~ Ok(o)
    BY <2>1, Outcomes
  <2> QED BY <1>1, <1>6, <2>2 DEF first, rest, o
<1> QED BY <1>5, <1>6
(* An object touches its own names only, when those behind the first field *)
(* do and do not have the name of that field.                              *)
LEMMA ObjectIsObject ==
    ASSUME NEW d, d.name \in Name, NEW a, NEW fa, Keeps(a, fa), NEW r, NEW fr, Keeps(r, fr),
           IsObject(r, fr), d.name \notin r.names
    PROVE  IsObject(ObjectWalker(d, a, r), ObjectFormat(d, ObjectWalker(d, a, r), fa, fr))
<1> DEFINE c == ObjectWalker(d, a, r)
    f == ObjectFormat(d, c, fa, fr)
    n == d.name
<1>1. /\ c.names = {n} \cup r.names /\ Values(c) = Values(a) \X Values(r)
      /\ c.new = <<a.new, r.new>> /\ c.init = <<a.init, r.init>>
      /\ c.targets = a.targets \X r.targets
      /\ \A v \in Values(a) \X Values(r) : c.write[v] = WriteObject(d, a, r, v)
      /\ \A x \in Document, old \in a.targets \X r.targets, m \in Modes :
            c.read[x][old][m] = ReadObject(d, a, r, x, old, m)
  BY ObjectFields
<1>2. /\ f.shaped = {x \in Document : Each(Members(x)[n], fa.shaped) /\ x \in fr.shaped}
      /\ f.portable = {v \in Values(c) : v[1] \in fa.portable /\ v[2] \in fr.portable}
  BY ObjectFormatFields
<1> HIDE DEF c, f
<1>3. /\ IsWalker(a) /\ WritesShape(a, fa) /\ ReadsBack(a, fa)
      /\ IsWalker(r)
  BY DEF Keeps
<1>4. c.names \subseteq Name /\ f.shaped \subseteq OfKind({"null", "object"})
  BY <1>1, <1>2 DEF IsObject
<1>5. ASSUME NEW v \in Values(c)
      PROVE  /\ v[1] \in Values(a) /\ v[2] \in Values(r) /\ v = <<v[1], v[2]>>
             /\ c.write[v].kind = "object"
             /\ DOMAIN Members(c.write[v]) = Name
             /\ Members(c.write[v])[n] = <<a.write[v[1]]>>
             /\ \A k \in Name \ {n} : Members(c.write[v])[k] = Members(r.write[v[2]])[k]
             /\ Members(c.write[v]) = [k \in Name |-> Members(c.write[v])[k]]
  <2>1. v[1] \in Values(a) /\ v[2] \in Values(r) /\ v = <<v[1], v[2]>>
    BY <1>1
  <2> DEFINE old == Members(r.write[v[2]])
      new == [old EXCEPT ![n] = <<a.write[v[1]]>>]
  <2>2. DOMAIN old = Name /\ old = [k \in Name |-> old[k]]
    BY <2>1 DEF IsObject
  <2>3. c.write[v] = JObject(new)
    BY <1>1 DEF WriteObject
  <2>4. Members(c.write[v]) = new /\ c.write[v].kind = "object"
    BY <2>3 DEF Members, JObject
  <2> HIDE DEF old
  <2>5. DOMAIN new = Name /\ new[n] = <<a.write[v[1]]>> /\ new = [k \in Name |-> new[k]]
        /\ \A k \in Name \ {n} : new[k] = old[k]
    BY <2>2
  <2> QED BY <2>1, <2>4, <2>5 DEF old
<1>6. ASSUME NEW v \in Values(c), NEW x \in OfKind({"null", "object"}), Carries(x, c, v)
      PROVE  /\ x \in f.shaped
             /\ v \in f.portable =>
                  \A old \in Fresh(c), m \in Modes : c.read[x][old][m] = Done(v)
  <2>1. x \in Document
    BY DEF OfKind
  <2>2. v[1] \in Values(a) /\ v[2] \in Values(r) /\ v = <<v[1], v[2]>>
    BY <1>5
  <2>3. Members(x)[n] = <<a.write[v[1]]>>
    BY <1>1, <1>5, <1>6 DEF Carries
  <2>4. SubkeyExists(x, n) /\ Subkey(x, n) = a.write[v[1]] /\ a.write[v[1]] \in Document
    <3>1. SubkeyExists(x, n)
      BY <2>3 DEF SubkeyExists
    <3>2. Subkey(x, n) = a.write[v[1]]
      BY <2>3 DEF Subkey
    <3>3. Subkey(x, n) \in Document
      BY <2>1, <3>1, TopLevel, MembersCases
    <3> QED BY <3>1, <3>2, <3>3
  <2>5. Carries(x, r, v[2])
    <3> SUFFICES ASSUME NEW k \in r.names
                 PROVE  Members(x)[k] = Members(r.write[v[2]])[k]
      BY DEF Carries
    <3>1. k \in Name \ {n} /\ k \in c.names
      BY <1>1, <1>4
    <3> QED BY <1>5, <1>6, <3>1 DEF Carries
  <2>6. /\ x \in fr.shaped
        /\ v[2] \in fr.portable =>
             \A old \in Fresh(r), m \in Modes : r.read[x][old][m] = Done(v[2])
    BY <2>2, <2>5 DEF IsObject
  <2>7. Each(Members(x)[n], fa.shaped)
    <3>1. a.write[v[1]] \in fa.shaped
      BY <1>3, <2>2, <2>4 DEF WritesShape
    <3> QED BY <2>1, <2>3, <3>1, EachMember
  <2>8. x \in f.shaped
    BY <1>2, <2>1, <2>6, <2>7
  <2>9. ASSUME v \in f.portable, NEW old \in Fresh(c), NEW m \in Modes
        PROVE  c.read[x][old][m] = Done(v)
    <3>1. v[1] \in fa.portable /\ v[2] \in fr.portable
      BY <1>2, <2>9
    <3>2. /\ old \in a.targets \X r.targets /\ old[1] \in Fresh(a) /\ old[2] \in Fresh(r)
          /\ old[1] \in a.targets
      BY <1>1, <1>3, <2>9 DEF Fresh, IsWalker
    <3>3. ReadField(d, a, x, old[1], m) = Done(v[1])
      <4>1. ReadField(d, a, x, old[1], m) = a.read[a.write[v[1]]][old[1]][m]
        BY <1>3, <2>1, <2>4, <3>2, ReadFieldResult
      <4>2. a.read[a.write[v[1]]][old[1]][m] = Done(v[1])
        BY <1>3, <2>4, <3>1, <3>2 DEF ReadsBack
      <4> QED BY <4>1, <4>2
    <3>4. r.read[x][old[2]][m] = Done(v[2])
      BY <2>6, <3>1, <3>2
    <3>5. /\ Ok(ReadField(d, a, x, old[1], m)) /\ Ok(r.read[x][old[2]][m])
          /\ ReadField(d, a, x, old[1], m).value = v[1] /\ r.read[x][old[2]][m].value = v[2]
      BY <3>3, <3>4, Outcomes
    <3>6. ReadObject(d, a, r, x, old, m) = Done(<<v[1], v[2]>>)
      <4>1. ReadObject(d, a, r, x, old, m) =
                Done(<<ReadField(d, a, x, old[1], m).value, r.read[x][old[2]][m].value>>)
        BY <3>5 DEF ReadObject
      <4> QED BY <3>5, <4>1, Zenon
    <3>7. c.read[x][old][m] = ReadObject(d, a, r, x, old, m)
      BY <1>1, <2>1, <3>2
    <3> QED BY <2>2, <3>6, <3>7
  <2> QED BY <2>8, <2>9
<1>7. ASSUME NEW v \in Values(c)
      PROVE  /\ c.write[v].kind \in {"null", "object"}
             /\ DOMAIN Members(c.write[v]) = Name
             /\ Members(c.write[v]) = [k \in Name |-> Members(c.write[v])[k]]
             /\ \A k \in Name \ c.names : Members(c.write[v])[k] = <<>>
  <2>1. v[2] \in Values(r)
    BY <1>5
  <2>2. \A k \in Name \ r.names : Members(r.write[v[2]])[k] = <<>>
    BY <2>1 DEF IsObject
  <2>3. \A k \in Name \ c.names : Members(c.write[v])[k] = <<>>
    BY <1>1, <1>5, <2>2
  <2> QED BY <1>5, <2>3
<1>8. IsObject(c, f)
  BY <1>4, <1>6, <1>7, Zenon DEF IsObject
<1> QED BY <1>8 DEF c, f

(* The walker of an object keeps the laws if those of its first field and  *)
(* of the others do.                                                       *)
LEMMA ObjectKeeps ==
    ASSUME NEW d, d.name \in Name, NEW a, NEW fa, Keeps(a, fa), NEW r, NEW fr, Keeps(r, fr),
           IsObject(r, fr), d.name \notin r.names
    PROVE  Keeps(ObjectWalker(d, a, r), ObjectFormat(d, ObjectWalker(d, a, r), fa, fr))
<1> DEFINE c == ObjectWalker(d, a, r)
    f == ObjectFormat(d, c, fa, fr)
    n == d.name
    T == a.targets \X r.targets
    F(x, old, m) == ReadField(d, a, x, old[1], m)
    R(x, old, m) == r.read[x][old[2]][m]
<1>1. /\ Values(c) = Values(a) \X Values(r)
      /\ c.new = <<a.new, r.new>> /\ c.init = <<a.init, r.init>>
      /\ c.targets = T
      /\ \A x \in Document, old \in T, m \in Modes :
            c.read[x][old][m] = ReadObject(d, a, r, x, old, m)
  BY ObjectFields
<1>2. /\ f.portable = {v \in Values(c) : v[1] \in fa.portable /\ v[2] \in fr.portable}
      /\ f.shaped = {x \in Document : Each(Members(x)[n], fa.shaped) /\ x \in fr.shaped}
      /\ \A m \in Modes : f.complete[m] =
            {x \in Document :
                /\ IF SubkeyExists(x, n) THEN Subkey(x, n) \in fa.complete[m]
                   ELSE m # "throw_exception" \/ d.lenient
                /\ x \in fr.complete[m]}
      /\ f.keeping = Leaves(d) \cup fa.keeping \cup fr.keeping
      /\ f.unset = Leaves(d) \cup fa.unset \cup fr.unset
  BY ObjectFormatFields
<1>3. IsObject(c, f)
  BY ObjectIsObject
<1> HIDE DEF c, f
<1>4. /\ IsWalker(a) /\ KeepsShape(fa) /\ ThrowsOnIncomplete(a, fa)
      /\ Replaces(a, fa) /\ SetsAll(a, fa)
      /\ IsWalker(r) /\ KeepsShape(fr) /\ ThrowsOnIncomplete(r, fr)
      /\ Replaces(r, fr) /\ SetsAll(r, fr)
  BY DEF Keeps
<1>5. ASSUME NEW x \in Document, NEW old \in T, NEW m \in Modes
      PROVE  /\ old[1] \in a.targets /\ old[2] \in r.targets
             /\ c.read[x][old][m] \in Outcome(T)
             /\ Ok(c.read[x][old][m]) <=> Ok(F(x, old, m)) /\ Ok(R(x, old, m))
             /\ Ok(c.read[x][old][m]) =>
                    c.read[x][old][m] = Done(<<F(x, old, m).value, R(x, old, m).value>>)
  <2>1. c.read[x][old][m] = ReadObject(d, a, r, x, old, m)
    BY <1>1
  <2>2. /\ ReadObject(d, a, r, x, old, m) \in Outcome(T)
        /\ old[1] \in a.targets /\ old[2] \in r.targets
    BY <1>4, ReadObjectResult
  <2>3. Ok(ReadObject(d, a, r, x, old, m)) <=> Ok(F(x, old, m)) /\ Ok(R(x, old, m))
    BY <1>4, ReadObjectResult
  <2>4. Ok(ReadObject(d, a, r, x, old, m)) =>
            ReadObject(d, a, r, x, old, m) = Done(<<F(x, old, m).value, R(x, old, m).value>>)
    <3>1. ReadObject(d, a, r, x, old, m) =
            IF Ok(F(x, old, m)) /\ Ok(R(x, old, m))
            THEN Done(<<F(x, old, m).value, R(x, old, m).value>>) ELSE Threw
      BY DEF ReadObject
    <3> HIDE DEF F, R
    <3> QED BY <2>3, <3>1
  <2> HIDE DEF F, R
  <2> QED BY <2>1, <2>2, <2>3, <2>4
<1>6. IsWalker(c)
  <2>1. c.new \in T /\ c.init \in Values(c) /\ Values(c) \subseteq T
    BY <1>1, <1>4 DEF IsWalker
  <2> QED BY <1>1, <1>5, <2>1 DEF IsWalker
<1>7. Leaves(d) = {m \in Modes : m = "ignore" \/ (m = "throw_exception" /\ d.lenient)}
  BY DEF Leaves
<1>8. \A x \in Document, k \in Name : Subkey(x, k) = Members(x)[k][1]
  BY EachMember
<1>9. WritesShape(c, f)
  <2> SUFFICES ASSUME NEW v \in Values(c), c.write[v] \in Document
               PROVE  c.write[v] \in f.shaped
    BY DEF WritesShape
  <2>1. c.write[v] \in OfKind({"null", "object"}) /\ Carries(c.write[v], c, v)
    BY <1>3 DEF IsObject, OfKind, Carries
  <2> QED BY <1>3, <2>1 DEF IsObject
<1>10. KeepsShape(f)
  <2> SUFFICES ASSUME NEW x \in f.shaped PROVE x \in Document /\ Without[x] \subseteq f.shaped
    BY DEF KeepsShape
  <2>1. /\ x \in Document /\ Each(Members(x)[n], fa.shaped) /\ x \in fr.shaped
        /\ x.kind \in {"null", "object"}
    BY <1>2 DEF IsObject, OfKind
  <2>2. ASSUME NEW y \in Without[x] PROVE y \in f.shaped
    <3>1. y \in fr.shaped /\ y \in Document
      BY <1>4, <2>1 DEF KeepsShape
    <3>2. \A z \in fa.shaped : Without[z] \subseteq fa.shaped
      BY <1>4 DEF KeepsShape
    <3>3. Each(Members(y)[n], fa.shaped)
      BY <2>1, <3>2, MemberKeepsShape
    <3> QED BY <1>2, <3>1, <3>3
  <2> QED BY <2>1, <2>2
<1>11. ReadsBack(c, f)
  <2> SUFFICES ASSUME NEW v \in f.portable, NEW old \in Fresh(c), NEW m \in Modes
               PROVE  /\ v \in Values(c)
                      /\ c.write[v] \in Document => c.read[c.write[v]][old][m] = Done(v)
    <3>1. \A v \in f.portable : v \in Values(c)
      BY <1>2
    <3> QED BY <3>1 DEF ReadsBack
  <2>1. v \in Values(c)
    BY <1>2
  <2>2. ASSUME c.write[v] \in Document PROVE c.read[c.write[v]][old][m] = Done(v)
    <3>1. c.write[v] \in OfKind({"null", "object"}) /\ Carries(c.write[v], c, v)
      BY <1>3, <2>1, <2>2 DEF IsObject, OfKind, Carries
    <3> QED BY <1>3, <2>1, <3>1 DEF IsObject
  <2> QED BY <2>1, <2>2
<1>12. ThrowsOnIncomplete(c, f)
  <2> SUFFICES ASSUME NEW x \in f.shaped, NEW old \in T, NEW m \in Modes
               PROVE  Ok(c.read[x][old][m]) <=> x \in f.complete[m]
    BY <1>1 DEF ThrowsOnIncomplete
  <2>1. x \in Document /\ Each(Members(x)[n], fa.shaped) /\ x \in fr.shaped
    BY <1>2
  <2>2. /\ old[1] \in a.targets /\ old[2] \in r.targets
        /\ Ok(c.read[x][old][m]) <=> Ok(F(x, old, m)) /\ Ok(R(x, old, m))
    BY <1>5, <2>1
  <2>3. Ok(R(x, old, m)) <=> x \in fr.complete[m]
    BY <1>4, <2>1, <2>2 DEF ThrowsOnIncomplete
  <2>4. CASE SubkeyExists(x, n)
    <3>1. F(x, old, m) = a.read[Subkey(x, n)][old[1]][m]
      BY <1>4, <2>1, <2>2, <2>4, ReadFieldResult
    <3>2. Subkey(x, n) \in fa.shaped
      BY <2>1, <2>4, EachMember DEF SubkeyExists
    <3>3. Ok(F(x, old, m)) <=> Subkey(x, n) \in fa.complete[m]
      BY <1>4, <2>2, <3>1, <3>2 DEF ThrowsOnIncomplete
    <3> QED BY <1>2, <2>1, <2>2, <2>3, <2>4, <3>3
  <2>5. CASE ~ SubkeyExists(x, n) /\ m = "throw_exception" /\ ~ d.lenient
    <3>1. F(x, old, m) = Threw
      BY <1>4, <2>1, <2>2, <2>5, ReadFieldResult
    <3>2. ~ Ok(F(x, old, m))
      BY <3>1, Outcomes
    <3> QED BY <1>2, <2>1, <2>2, <2>5, <3>2
  <2>6. CASE ~ SubkeyExists(x, n) /\ ~ (m = "throw_exception" /\ ~ d.lenient)
    <3>1. F(x, old, m) = Done(IF m = "default_initialize" THEN a.init ELSE old[1])
      BY <1>4, <2>1, <2>2, <2>6, ReadFieldResult
    <3>2. Ok(F(x, old, m))
      BY <3>1, Outcomes
    <3> QED BY <1>2, <2>1, <2>2, <2>3, <2>6, <3>2
  <2> QED BY <2>4, <2>5, <2>6
<1>13. Replaces(c, f)
  <2> SUFFICES ASSUME NEW x \in Document, NEW old \in T, NEW other \in T, NEW m \in Modes,
                      m \notin f.keeping
               PROVE  c.read[x][old][m] = c.read[x][other][m]
    BY <1>1 DEF Replaces
  <2>1. m \notin Leaves(d) /\ m \notin fa.keeping /\ m \notin fr.keeping
    BY <1>2
  <2>2. old[1] \in a.targets /\ other[1] \in a.targets
        /\ old[2] \in r.targets /\ other[2] \in r.targets
    BY <1>5
  <2>3. R(x, old, m) = R(x, other, m)
    BY <1>4, <2>1, <2>2 DEF Replaces
  <2>4. F(x, old, m) = F(x, other, m)
    <3>1. CASE SubkeyExists(x, n)
      <4>1. /\ Subkey(x, n) \in Document
            /\ F(x, old, m) = a.read[Subkey(x, n)][old[1]][m]
            /\ F(x, other, m) = a.read[Subkey(x, n)][other[1]][m]
        BY <1>4, <2>2, <3>1, ReadFieldResult
      <4> QED BY <1>4, <2>1, <2>2, <4>1 DEF Replaces
    <3>2. CASE ~ SubkeyExists(x, n) /\ m = "throw_exception" /\ ~ d.lenient
      <4>1. F(x, old, m) = Threw /\ F(x, other, m) = Threw
        BY <1>4, <2>2, <3>2, ReadFieldResult
      <4> QED BY <4>1
    <3>3. CASE ~ SubkeyExists(x, n) /\ ~ (m = "throw_exception" /\ ~ d.lenient)
      <4>1. m = "default_initialize"
        BY <1>7, <2>1, <3>3, ModesOf
      <4>2. F(x, old, m) = Done(a.init) /\ F(x, other, m) = Done(a.init)
        BY <1>4, <2>2, <3>3, <4>1, ReadFieldResult
      <4> QED BY <4>2
    <3> QED BY <3>1, <3>2, <3>3
  <2>5. /\ c.read[x][old][m] = ReadObject(d, a, r, x, old, m)
        /\ c.read[x][other][m] = ReadObject(d, a, r, x, other, m)
    BY <1>1
  <2> QED BY <2>3, <2>4, <2>5 DEF ReadObject
<1>14. SetsAll(c, f)
  <2> SUFFICES ASSUME NEW x \in Document, NEW old \in Fresh(c), NEW m \in Modes,
                      m \notin f.unset, Ok(c.read[x][old][m])
               PROVE  c.read[x][old][m].value \in Values(c)
    BY DEF SetsAll
  <2>1. m \notin Leaves(d) /\ m \notin fa.unset /\ m \notin fr.unset
    BY <1>2
  <2>2. old \in T /\ old[1] \in Fresh(a) /\ old[2] \in Fresh(r) /\ old[1] \in a.targets
    BY <1>1, <1>4 DEF Fresh, IsWalker
  <2>3. /\ Ok(F(x, old, m)) /\ Ok(R(x, old, m))
        /\ c.read[x][old][m] = Done(<<F(x, old, m).value, R(x, old, m).value>>)
    BY <1>5, <2>2
  <2>4. R(x, old, m).value \in Values(r)
    BY <1>4, <2>1, <2>2, <2>3 DEF SetsAll
  <2>5. F(x, old, m).value \in Values(a)
    <3>1. CASE SubkeyExists(x, n)
      <4>1. Subkey(x, n) \in Document /\ F(x, old, m) = a.read[Subkey(x, n)][old[1]][m]
        BY <1>4, <2>2, <3>1, ReadFieldResult
      <4>2. Ok(a.read[Subkey(x, n)][old[1]][m])
        BY <2>3, <4>1
      <4>3. a.read[Subkey(x, n)][old[1]][m].value \in Values(a)
        BY <1>4, <2>1, <2>2, <4>1, <4>2 DEF SetsAll
      <4> QED BY <4>1, <4>3
    <3>2. CASE ~ SubkeyExists(x, n) /\ m = "throw_exception" /\ ~ d.lenient
      <4>1. F(x, old, m) = Threw
        BY <1>4, <2>2, <3>2, ReadFieldResult
      <4>2. ~ Ok(F(x, old, m))
        BY <4>1, Outcomes
      <4> QED BY <2>3, <4>2
    <3>3. CASE ~ SubkeyExists(x, n) /\ ~ (m = "throw_exception" /\ ~ d.lenient)
      <4>1. m = "default_initialize"
        BY <1>7, <2>1, <3>3, ModesOf
      <4>2. F(x, old, m) = Done(a.init)
        BY <1>4, <2>2, <3>3, <4>1, ReadFieldResult
      <4>3. F(x, old, m).value = a.init
        BY <4>2, Outcomes
      <4> QED BY <1>4, <4>3 DEF IsWalker
    <3> QED BY <3>1, <3>2, <3>3
  <2>6. c.read[x][old][m].value = <<F(x, old, m).value, R(x, old, m).value>>
    BY <2>3, Outcomes
  <2> QED BY <1>1, <2>4, <2>5, <2>6
<1>15. Keeps(c, f)
  BY <1>6, <1>9, <1>10, <1>11, <1>12, <1>13, <1>14 DEF Keeps
<1> QED BY <1>15 DEF c, f

-----------------------------------------------------------------------------
(***************************************************************************)
(* The types of a program                                                  *)
(***************************************************************************)

(* Every type of every program keeps the laws, however it is made: written *)
(* documents have the shape of the type and stay in it when they lose a    *)
(* member; portable values are read back, missing fields are found, and    *)
(* targets are replaced and set where Format says so.                      *)
THEOREM EveryTypeKeeps ==
    \A t \in Type :
        /\ Keeps(Walker[t], Format[t])
        /\ Declared[t].kind \in {"object", "end"} => IsObject(Walker[t], Format[t])
<1> DEFINE P(t) == /\ Keeps(Walker[t], Format[t])
                   /\ Declared[t].kind \in {"object", "end"} => IsObject(Walker[t], Format[t])
    T == {t \in Type : P(t)}
<1>1. ASSUME NEW t \in Type, \A u \in 1 .. t - 1 : u \in T PROVE P(t)
  <2> DEFINE d == Declared[t]
      w == Walker[t]
  <2>1. /\ w = WalkerOf(d, Walker) /\ Format[t] = FormatOf(d, w, Format)
    BY WalkerEquation, FormatEquation
  <2>2. /\ d.kind \in {"num", "string", "any", "end", "list", "array", "optional", "map", "object"}
        /\ d.kind = "array" => d.size \in Nat
        /\ d.kind \in {"list", "array", "optional", "map"} => P(d.of)
        /\ d.kind = "object" => P(d.first) /\ P(d.rest) /\ d.name \in Name
    <3> HIDE DEF P
    <3> QED BY <1>1, PartsComeBefore
  <2> HIDE DEF d, w
  <2>3. CASE d.kind = "num"
    <3>1. w = NumWalker /\ Format[t] = PlainFormat(w, OfKind({"num"}))
      BY <2>1, <2>3 DEF WalkerOf, FormatOf
    <3> QED BY <2>3, <3>1, NumKeeps DEF d, w
  <2>4. CASE d.kind = "string"
    <3>1. w = StringWalker /\ Format[t] = PlainFormat(w, OfKind({"text"}))
      BY <2>1, <2>4 DEF WalkerOf, FormatOf
    <3> QED BY <2>4, <3>1, StringKeeps DEF d, w
  <2>5. CASE d.kind = "any"
    <3>1. w = AnyWalker /\ Format[t] = PlainFormat(w, Document)
      BY <2>1, <2>5 DEF WalkerOf, FormatOf
    <3> QED BY <2>5, <3>1, AnyKeeps DEF d, w
  <2>6. CASE d.kind = "end"
    <3>1. w = EndWalker /\ Format[t] = PlainFormat(w, OfKind({"null", "object"}))
      BY <2>1, <2>6 DEF WalkerOf, FormatOf
    <3> QED BY <3>1, EndKeeps, EndIsObject DEF w
  <2>7. CASE d.kind = "list"
    <3>1. /\ w = ListWalker(Walker[d.of])
          /\ Format[t] = ItemsFormat(w, Format[d.of], Everywhere(Format[d.of].unset))
      BY <2>1, <2>7 DEF WalkerOf, FormatOf
    <3>2. Keeps(w, Format[t])
      BY <2>2, <2>7, <3>1, ListKeeps
    <3> QED BY <2>7, <3>2 DEF d, w
  <2>8. CASE d.kind = "array"
    <3>1. w = ArrayWalker(Walker[d.of], d.size) /\ Format[t] = ItemsFormat(w, Format[d.of], Modes)
      BY <2>1, <2>8 DEF WalkerOf, FormatOf
    <3>2. Keeps(w, Format[t])
      BY <2>2, <2>8, <3>1, ArrayKeeps
    <3> QED BY <2>8, <3>2 DEF d, w
  <2>9. CASE d.kind = "optional"
    <3>1. w = OptionalWalker(Walker[d.of]) /\ Format[t] = OptionalFormat(w, Format[d.of])
      BY <2>1, <2>9 DEF WalkerOf, FormatOf
    <3>2. Keeps(w, Format[t])
      BY <2>2, <2>9, <3>1, OptionalKeeps
    <3> QED BY <2>9, <3>2 DEF d, w
  <2>10. CASE d.kind = "map"
    <3>1. w = MapWalker(Walker[d.of]) /\ Format[t] = MapFormat(w, Format[d.of])
      BY <2>1, <2>10 DEF WalkerOf, FormatOf
    <3>2. Keeps(w, Format[t])
      BY <2>2, <2>10, <3>1, MapKeeps
    <3> QED BY <2>10, <3>2 DEF d, w
  <2>11. CASE d.kind = "object"
    <3>1. /\ w = ObjectWalker(d, Walker[d.first], Walker[d.rest])
          /\ Format[t] = ObjectFormat(d, w, Format[d.first], Format[d.rest])
      BY <2>1, <2>11 DEF WalkerOf, FormatOf
    <3>2. /\ Declared[d.rest].kind \in {"object", "end"}
          /\ d.name \notin Walker[d.rest].names
      BY <2>11, JsonAssumption, NamesAssumption DEF d
    <3>3. IsObject(Walker[d.rest], Format[d.rest])
      BY <2>2, <2>11, <3>2
    <3>4. Keeps(w, Format[t])
      BY <2>2, <2>11, <3>1, <3>2, <3>3, ObjectKeeps
    <3>5. IsObject(w, Format[t])
      BY <2>2, <2>11, <3>1, <3>2, <3>3, ObjectIsObject
    <3> QED BY <3>4, <3>5 DEF w
  <2> QED BY <2>2, <2>3, <2>4, <2>5, <2>6, <2>7, <2>8, <2>9, <2>10, <2>11
<1>2. Len(Declared) \in Nat /\ Type = 1 .. Len(Declared)
  BY DeclaredType
<1> HIDE DEF P
<1>3. \A t \in 1 .. Len(Declared) : (\A u \in 1 .. t - 1 : u \in T) => t \in T
  BY <1>1, <1>2
<1>4. \A t \in 1 .. Len(Declared) : t \in T
  <2> HIDE DEF T
  <2> QED BY <1>2, <1>3, OneAfterTheOther
<1> QED BY <1>2, <1>4 DEF P

-----------------------------------------------------------------------------
(***************************************************************************)
(* The invariant                                                           *)
(***************************************************************************)

(* Where the document at hand comes from. *)
Origin ==
    /\ source = "written" =>
        value \in Values(Walker[type]) /\ doc = Write(type, value)
    /\ source \in {"written", "lost"} => doc \in Format[type].shaped

(* What the result is the result of. *)
ResultFits ==
    result # Unread =>
        /\ target \in {Uninitialised(type), Used[type]}
        /\ result = ReadTo(type, doc, target, mode)

JsonInv ==
    /\ type \in DOMAIN Used
    /\ mode \in Modes
    /\ doc \in Document
    /\ source = "none" => result = Unread
    /\ Origin
    /\ ResultFits

(* The types at hand are declared ones, and what is read into is a target. *)
LEMMA JsonTypes ==
    ASSUME JsonInv
    PROVE  /\ type \in Type /\ Used[type] \in Walker[type].targets
           /\ Keeps(Walker[type], Format[type])
           /\ Uninitialised(type) = Walker[type].new
           /\ Walker[type].new \in Walker[type].targets
           /\ Walker[type].init \in Walker[type].targets
           /\ result # Unread => target \in Walker[type].targets
<1>1. type \in Type /\ Used[type] \in Walker[type].targets
  BY CodecAssumption DEF JsonInv
<1>2. Keeps(Walker[type], Format[type])
  BY <1>1, EveryTypeKeeps
<1>3. Walker[type].new \in Walker[type].targets /\ Walker[type].init \in Walker[type].targets
  BY <1>2 DEF Keeps, IsWalker
<1>4. Uninitialised(type) = Walker[type].new
  BY DEF Uninitialised
<1> QED BY <1>1, <1>2, <1>3, <1>4 DEF JsonInv, ResultFits

(* The invariant holds in the beginning.                                   *)
LEMMA JsonInit == Init => JsonInv
<1> SUFFICES ASSUME Init PROVE JsonInv
  OBVIOUS
<1>1. Null \in Document
  BY TopLevel, DocumentsMade
<1> QED BY <1>1 DEF Init, JsonInv, Origin, ResultFits

(* Every step keeps the invariant.                                         *)
LEMMA JsonStep == JsonInv /\ [Next]_vars => JsonInv'
<1> SUFFICES ASSUME JsonInv, [Next]_vars PROVE JsonInv'
  OBVIOUS
<1>1. /\ type \in DOMAIN Used /\ mode \in Modes /\ doc \in Document
      /\ source = "none" => result = Unread
      /\ Origin /\ ResultFits
  BY DEF JsonInv
<1>2. type \in Type /\ Keeps(Walker[type], Format[type])
  BY JsonTypes
<1>3. CASE Serialize
  <2>1. PICK sample \in Samples :
            sample[1] = type /\ value' = sample[2] /\ doc' = Write(type, value')
    BY <1>3 DEF Serialize
  <2>2. UNCHANGED <<type, mode, target, result>> /\ source' = "written" /\ result' = Unread
    BY <1>1, <1>3 DEF Serialize
  <2>3. value' \in Values(Walker[type]) /\ doc' \in Document
    BY <2>1, CodecAssumption
  <2>4. doc' \in Format[type].shaped
    BY <1>2, <2>1, <2>3 DEF Keeps, WritesShape, Write
  <2> QED BY <1>1, <2>1, <2>2, <2>3, <2>4 DEF JsonInv, Origin, ResultFits
<1>4. CASE LoseMember
  <2>1. /\ UNCHANGED <<type, mode, value, target, result>>
        /\ source = "written" /\ source' = "lost" /\ result' = Unread /\ doc' \in Without[doc]
    BY <1>4 DEF LoseMember
  <2>2. doc' \in Document
    BY <1>1, <2>1, WithoutIsDocument
  <2>3. doc' \in Format[type].shaped
    BY <1>1, <1>2, <2>1 DEF Keeps, KeepsShape, Origin
  <2> QED BY <1>1, <2>1, <2>2, <2>3 DEF JsonInv, Origin, ResultFits
<1>5. CASE Foreign
  <2>1. /\ UNCHANGED <<type, mode, value, target, result>>
        /\ source' = "foreign" /\ result' = Unread /\ doc' \in Document
    BY <1>1, <1>5, CodecAssumption DEF Foreign
  <2> QED BY <1>1, <2>1 DEF JsonInv, Origin, ResultFits
<1>6. CASE Deserialize
  <2>1. /\ UNCHANGED <<type, mode, value, doc, source>> /\ source # "none"
        /\ target' \in {Uninitialised(type), Used[type]}
        /\ result' = ReadTo(type, doc, target', mode)
    BY <1>6 DEF Deserialize
  <2>2. Origin'
    BY <1>1, <2>1 DEF Origin, Write
  <2>3. ResultFits'
    BY <2>1 DEF ResultFits, Uninitialised, ReadTo
  <2> QED BY <1>1, <2>1, <2>2, <2>3 DEF JsonInv
<1>7. CASE UNCHANGED vars
  BY <1>1, <1>7 DEF vars, JsonInv, Origin, ResultFits, Write, Uninitialised, ReadTo
<1> QED BY <1>3, <1>4, <1>5, <1>6, <1>7 DEF Next

(* The type at hand is one that is declared, the document is the one that  *)
(* was written for the value, one of its shape when it lost a member, and  *)
(* the result is what reading it into the target has given.                *)
THEOREM JsonCorrect == Spec => []JsonInv
BY JsonInit, JsonStep, PTL DEF Spec

(* json_serializer::read gives back what json_serializer::write was given, *)
(* for every type, every portable value and every mode.                    *)
THEOREM JsonRoundTrip == Spec => []RoundTrip
<1>1. JsonInv => RoundTrip
  <2> SUFFICES ASSUME JsonInv, source = "written", result # Unread,
                      target = Uninitialised(type), value \in Format[type].portable
               PROVE  result = Done(value)
    BY DEF RoundTrip
  <2>1. /\ mode \in Modes /\ doc \in Document /\ doc = Walker[type].write[value]
        /\ result = Walker[type].read[doc][target][mode]
    BY DEF JsonInv, Origin, ResultFits, Write, ReadTo
  <2>2. ReadsBack(Walker[type], Format[type]) /\ target \in Fresh(Walker[type])
    BY JsonTypes DEF Keeps, Fresh
  <2> QED BY <2>1, <2>2 DEF ReadsBack
<1> QED BY <1>1, JsonCorrect, PTL

(* A document of the shape of its type is refused exactly when a field is  *)
(* missing where the reader insists on it, for every type, every such      *)
(* document and whatever the object read into held.                        *)
THEOREM JsonThrowsOnMissing == Spec => []ThrowsOnMissing
<1>1. JsonInv => ThrowsOnMissing
  <2> SUFFICES ASSUME JsonInv, result # Unread,
                      source \in {"written", "lost"} \/ doc \in Format[type].shaped
               PROVE  Ok(result) <=> doc \in Format[type].complete[mode]
    BY DEF ThrowsOnMissing
  <2>1. /\ mode \in Modes /\ doc \in Format[type].shaped
        /\ result = Walker[type].read[doc][target][mode]
    BY DEF JsonInv, Origin, ResultFits, ReadTo
  <2>2. ThrowsOnIncomplete(Walker[type], Format[type]) /\ target \in Walker[type].targets
    BY JsonTypes DEF Keeps
  <2> QED BY <2>1, <2>2 DEF ThrowsOnIncomplete
<1> QED BY <1>1, JsonCorrect, PTL

(* Whatever document is read, and of whatever type, what a used object     *)
(* held shows through only in types that Format says keep it.              *)
THEOREM JsonReplacesTarget == Spec => []ReplacesTarget
<1>1. JsonInv => ReplacesTarget
  <2> SUFFICES ASSUME JsonInv, result # Unread, mode \notin Format[type].keeping
               PROVE  result = ReadTo(type, doc, ValueInitialised(type), mode)
    BY DEF ReplacesTarget
  <2>1. /\ mode \in Modes /\ doc \in Document
        /\ result = Walker[type].read[doc][target][mode]
    BY DEF JsonInv, ResultFits, ReadTo
  <2>2. /\ Replaces(Walker[type], Format[type])
        /\ target \in Walker[type].targets /\ Walker[type].init \in Walker[type].targets
    BY JsonTypes DEF Keeps
  <2>3. Walker[type].read[doc][target][mode] =
            Walker[type].read[doc][Walker[type].init][mode]
    BY <2>1, <2>2 DEF Replaces
  <2> QED BY <2>1, <2>3 DEF ReadTo, ValueInitialised
<1> QED BY <1>1, JsonCorrect, PTL

(* A new object that was read has no part uninitialised, for every type    *)
(* and document, except in the modes that Format names.                    *)
THEOREM JsonNothingUnset == Spec => []NothingUnset
<1>1. JsonInv => NothingUnset
  <2> SUFFICES ASSUME JsonInv, Ok(result), target = Uninitialised(type),
                      mode \notin Format[type].unset
               PROVE  result.value \in Values(Walker[type])
    BY DEF NothingUnset
  <2>1. result # Unread
    BY DEF Ok, Unread
  <2>2. /\ mode \in Modes /\ doc \in Document
        /\ result = Walker[type].read[doc][target][mode]
    BY <2>1 DEF JsonInv, ResultFits, ReadTo
  <2>3. SetsAll(Walker[type], Format[type]) /\ target \in Fresh(Walker[type])
    BY JsonTypes DEF Keeps, Fresh
  <2> QED BY <2>2, <2>3 DEF SetsAll
<1> QED BY <1>1, JsonCorrect, PTL
=============================================================================
