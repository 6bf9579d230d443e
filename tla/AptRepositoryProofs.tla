-------------------------- MODULE AptRepositoryProofs --------------------------
(***************************************************************************)
(* Proofs about AptRepository, for any Releases, indexes, packages,        *)
(* configurations and upstreams, and any number of mishaps.                *)
(*                                                                         *)
(* The inductive invariant IInv has a part that always holds: which step   *)
(* an operation is at (Control), where the Releases are (Placed), what the *)
(* manifests say of the indexes (Asked), and what a sync has put on disk   *)
(* before it publishes (SyncedSoFar).  The rest (Sound) holds when         *)
(* upstream does not stop signing inline (KeepsInRelease): otherwise a     *)
(* sync without prune leaves the old InRelease in front of the new         *)
(* Release, and what clients find is not what was published last.  Sound   *)
(* relates what clients were offered (history variables offered and past)  *)
(* to the manifests and to the disk.                                       *)
(*                                                                         *)
(* One lemma per part shows that each step keeps it (Step...); Changes     *)
(* says which actions such a lemma has to look at.                         *)
(***************************************************************************)
EXTENDS AptRepository, FiniteSetTheorems, SequenceTheorems, TLAPS

-----------------------------------------------------------------------------
(* Generations: sequences of at most three distinct contents. *)

(* A record in order, for one index (GensOK). *)
Good(s) ==
  /\ s \in Seq(Contents) /\ Len(s) <= 3
  /\ \A i, j \in 1..Len(s) : i # j => s[i] # s[j]

(* p is what g begins with. *)
Begins(p, g) == p = Newest(Len(p), g)

(* A function on 1..n is a sequence of length n. *)
LEMMA SeqOfFcn ==
  ASSUME NEW S, NEW n \in Nat, NEW f \in [1..n -> S]
  PROVE  f \in Seq(S) /\ Len(f) = n
<1>1. f \in Seq(S)
  BY SeqDef
<1> QED BY <1>1, LenProperties

(* Its length, and what stands at each place. *)
LEMMA GoodFacts ==
  ASSUME NEW s, Good(s)
  PROVE  /\ Len(s) \in 0..3 /\ s \in [1..Len(s) -> Contents] /\ s \in Seq(Contents)
         /\ \A i \in 1..Len(s) : s[i] \in Contents
         /\ s = <<>> <=> Len(s) = 0
<1>1. s \in Seq(Contents) /\ Len(s) <= 3
  BY DEF Good
<1>2. Len(s) \in Nat /\ s \in [1..Len(s) -> Contents]
  BY <1>1, LenProperties
<1>3. s = <<>> <=> Len(s) = 0
  BY <1>1, EmptySeq
<1> QED BY <1>1, <1>2, <1>3

(* No generation at all is in order. *)
LEMMA GoodEmpty == Good(<<>>)
BY EmptySeq DEF Good

(* Sequences of contents are equal when they agree everywhere. *)
LEMMA RememberFcn ==
  ASSUME NEW s, Good(s), NEW x \in Contents
  PROVE  LET n == IF Has(s, x) \/ Len(s) >= 3 THEN Len(s) ELSE Len(s) + 1
         IN  n \in 1..3 /\ Remember(s, x) \in [1..n -> Contents]
<1> DEFINE n == IF Has(s, x) \/ Len(s) >= 3 THEN Len(s) ELSE Len(s) + 1
<1>1. Len(s) \in 0..3 /\ \A i \in 1..Len(s) : s[i] \in Contents
  BY GoodFacts
<1>2. n \in 1..3
  BY <1>1 DEF Has
<1>3. ASSUME NEW i \in 1..n, i # 1
      PROVE  (IF \A j \in 1..(i - 1) : s[j] # x THEN s[i - 1] ELSE s[i]) \in Contents
  <2>1. CASE \A j \in 1..(i - 1) : s[j] # x
    <3>1. i - 1 \in 1..Len(s)
      BY <1>1, <1>2, <1>3
    <3> QED BY <1>1, <2>1, <3>1
  <2>2. CASE ~\A j \in 1..(i - 1) : s[j] # x
    <3>1. i \in 1..Len(s)
      BY <1>1, <1>2, <1>3, <2>2 DEF Has
    <3> QED BY <1>1, <2>2, <3>1
  <2> QED BY <2>1, <2>2
<1>4. Remember(s, x) \in [1..n -> Contents]
  BY <1>3 DEF Remember
<1> QED BY <1>2, <1>4

(* At least one generation, at most three, one more than before when x    *)
(* is new and there is room.                                              *)
LEMMA RememberLen ==
  ASSUME NEW s, Good(s), NEW x \in Contents
  PROVE  /\ Remember(s, x) \in Seq(Contents)
         /\ Len(Remember(s, x)) = IF Has(s, x) \/ Len(s) >= 3 THEN Len(s) ELSE Len(s) + 1
         /\ Len(Remember(s, x)) \in 1..3
<1> DEFINE n == IF Has(s, x) \/ Len(s) >= 3 THEN Len(s) ELSE Len(s) + 1
<1>1. n \in 1..3 /\ Remember(s, x) \in [1..n -> Contents]
  BY RememberFcn
<1> HIDE DEF n
<1>2. Remember(s, x) \in Seq(Contents) /\ Len(Remember(s, x)) = n
  <2>1. n \in Nat
    BY <1>1
  <2> QED BY <1>1, <2>1, SeqOfFcn
<1>3. Len(Remember(s, x)) \in 1..3
  BY <1>1, <1>2
<1> QED BY <1>2, <1>3 DEF n

(* What stands at each place: x, then those before x moved back by one.   *)
LEMMA RememberAt ==
  ASSUME NEW s, Good(s), NEW x \in Contents, NEW i \in 1..Len(Remember(s, x))
  PROVE  Remember(s, x)[i] = IF i = 1 THEN x ELSE IF \A j \in 1..(i - 1) : s[j] # x THEN s[i - 1] ELSE s[i]
<1>1. Len(Remember(s, x)) = IF Has(s, x) \/ Len(s) >= 3 THEN Len(s) ELSE Len(s) + 1
  BY RememberLen
<1> QED BY <1>1 DEF Remember

(* The newest is in front, every other generation was there before. *)
LEMMA RememberFirst ==
  ASSUME NEW s, Good(s), NEW x \in Contents
  PROVE  Remember(s, x) # <<>> /\ Remember(s, x)[1] = x
<1>1. Len(Remember(s, x)) \in 1..3 /\ Remember(s, x) \in Seq(Contents)
  BY RememberLen
<1>2. Remember(s, x) # <<>>
  BY <1>1, EmptySeq
<1>3. 1 \in 1..Len(Remember(s, x))
  BY <1>1
<1> QED BY <1>2, <1>3, RememberAt

(* Where a generation other than the first comes from. *)
LEMMA RememberBound ==
  ASSUME NEW s, Good(s), NEW x \in Contents, NEW i \in 1..Len(Remember(s, x)), i # 1
  PROVE  IF \A j \in 1..(i - 1) : s[j] # x
         THEN i - 1 \in 1..Len(s) /\ Remember(s, x)[i] = s[i - 1]
         ELSE i \in 1..Len(s) /\ Remember(s, x)[i] = s[i]
<1>1. Len(s) \in 0..3
  BY GoodFacts
<1>2. Len(Remember(s, x)) = IF Has(s, x) \/ Len(s) >= 3 THEN Len(s) ELSE Len(s) + 1
  BY RememberLen
<1>3. i \in Int /\ 2 <= i /\ i <= Len(s) + 1
  BY <1>1, <1>2
<1>4. CASE \A j \in 1..(i - 1) : s[j] # x
  <2>1. i - 1 \in 1..Len(s)
    BY <1>1, <1>3
  <2> QED BY <1>4, <2>1, RememberAt
<1>5. CASE ~\A j \in 1..(i - 1) : s[j] # x
  <2>1. i \in 1..Len(s)
    BY <1>1, <1>2, <1>3, <1>5 DEF Has
  <2> QED BY <1>5, <2>1, RememberAt
<1> QED BY <1>4, <1>5

(* No generation appears that was not on record. *)
LEMMA RememberFrom ==
  ASSUME NEW s, Good(s), NEW x \in Contents, NEW i \in 1..Len(Remember(s, x)), i # 1
  PROVE  Has(s, Remember(s, x)[i])
BY RememberBound DEF Has

(* Remembering keeps the generations distinct and at most three: what     *)
(* validateByHashHistory demands of the manifest.                         *)
LEMMA RememberGood ==
  ASSUME NEW s, Good(s), NEW x \in Contents
  PROVE  Good(Remember(s, x))
<1> DEFINE r == Remember(s, x)
<1>1. r \in Seq(Contents) /\ Len(r) \in 1..3
  BY RememberLen
<1>2. \A i, j \in 1..Len(s) : i # j => s[i] # s[j]
  BY DEF Good
<1>3. Len(s) \in 0..3
  BY GoodFacts
<1>4. ASSUME NEW i \in 1..Len(r), i # 1
      PROVE  IF \A k \in 1..(i - 1) : s[k] # x
             THEN i - 1 \in 1..Len(s) /\ r[i] = s[i - 1]
             ELSE i \in 1..Len(s) /\ r[i] = s[i]
  BY <1>4, RememberBound
<1>5. ASSUME NEW i \in 1..Len(r), i # 1
      PROVE  r[i] # x
  <2>1. CASE \A k \in 1..(i - 1) : s[k] # x
    <3>1. i - 1 \in 1..(i - 1)
      BY <1>1, <1>5
    <3> QED BY <1>4, <1>5, <2>1, <3>1
  <2>2. CASE ~\A k \in 1..(i - 1) : s[k] # x
    <3>1. PICK k \in 1..(i - 1) : s[k] = x
      BY <2>2
    <3>2. i \in 1..Len(s) /\ r[i] = s[i]
      BY <1>4, <1>5, <2>2
    <3> QED BY <1>1, <1>2, <1>3, <3>1, <3>2
  <2> QED BY <2>1, <2>2
<1>6. r[1] = x
  BY RememberFirst
<1>7. ASSUME NEW i \in 1..Len(r), NEW j \in 1..Len(r), i # 1, i < j
      PROVE  r[i] # r[j]
  <2> HIDE DEF r
  <2>0. j # 1 /\ i \in Int /\ j \in Int
    BY <1>1, <1>7
  <2>1. CASE \A k \in 1..(i - 1) : s[k] # x
    <3>1. i - 1 \in 1..Len(s) /\ r[i] = s[i - 1]
      BY <1>4, <1>7, <2>1
    <3>2. \E k \in {j - 1, j} : k \in 1..Len(s) /\ r[j] = s[k]
      BY <1>4, <2>0
    <3>3. PICK k \in {j - 1, j} : k \in 1..Len(s) /\ r[j] = s[k]
      BY <3>2
    <3>4. i - 1 # k
      BY <1>7, <2>0, <3>3
    <3> QED BY <1>2, <3>1, <3>3, <3>4
  <2>2. CASE ~\A k \in 1..(i - 1) : s[k] # x
    <3>1. i \in 1..Len(s) /\ r[i] = s[i]
      BY <1>4, <1>7, <2>2
    <3>2. ~\A k \in 1..(j - 1) : s[k] # x
      BY <1>7, <2>0, <2>2
    <3>3. j \in 1..Len(s) /\ r[j] = s[j]
      BY <1>4, <2>0, <3>2
    <3>4. i # j
      BY <1>7, <2>0
    <3> QED BY <1>2, <3>1, <3>3, <3>4
  <2> QED BY <2>1, <2>2
<1> HIDE DEF r
<1>8. \A i, j \in 1..Len(r) : i # j => r[i] # r[j]
  <2> SUFFICES ASSUME NEW i \in 1..Len(r), NEW j \in 1..Len(r), i # j
               PROVE  r[i] # r[j]
    OBVIOUS
  <2>1. CASE i = 1
    BY <1>5, <1>6, <2>1
  <2>2. CASE j = 1
    BY <1>5, <1>6, <2>2
  <2>3. CASE i # 1 /\ j # 1
    <3>1. i < j \/ j < i
      BY <1>1
    <3> QED BY <1>7, <2>3, <3>1
  <2> QED BY <2>1, <2>2, <2>3
<1> QED BY <1>1, <1>8 DEF Good, r

(* What is remembered already is not moved. *)
LEMMA RememberHead ==
  ASSUME NEW s, Good(s), s # <<>>
  PROVE  Remember(s, s[1]) = s
<1> DEFINE x == s[1]
           r == Remember(s, x)
<1>1. Len(s) \in 1..3 /\ s \in Seq(Contents) /\ s[1] \in Contents
  BY GoodFacts
<1>2. Has(s, x)
  BY <1>1 DEF Has
<1>3. r \in Seq(Contents) /\ Len(r) = Len(s)
  BY <1>1, <1>2, RememberLen
<1>4. ASSUME NEW i \in 1..Len(s)
      PROVE  r[i] = s[i]
  <2>1. CASE i = 1
    BY <1>1, <2>1, RememberFirst
  <2>2. CASE i # 1
    <3>1. 1 \in 1..(i - 1)
      BY <1>1, <2>2
    <3>2. ~\A j \in 1..(i - 1) : s[j] # x
      BY <3>1
    <3> QED BY <1>1, <1>3, <2>2, <3>2, RememberBound
  <2> QED BY <2>1, <2>2
<1> QED BY <1>1, <1>3, <1>4, SeqEqual

(* The newest n generations. *)
LEMMA NewestAt ==
  ASSUME NEW s, Good(s), NEW n \in Nat
  PROVE  /\ Newest(n, s) \in Seq(Contents)
         /\ Len(Newest(n, s)) = IF Len(s) < n THEN Len(s) ELSE n
         /\ \A i \in 1..Len(Newest(n, s)) : i \in 1..Len(s) /\ Newest(n, s)[i] = s[i]
<1> DEFINE m == IF Len(s) < n THEN Len(s) ELSE n
<1>1. Len(s) \in 0..3 /\ \A i \in 1..Len(s) : s[i] \in Contents
  BY GoodFacts
<1>2. m \in Nat /\ m <= Len(s)
  BY <1>1
<1>3. \A i \in 1..m : i \in 1..Len(s) /\ s[i] \in Contents
  BY <1>1, <1>2
<1>4. Newest(n, s) = [i \in 1..m |-> s[i]]
  BY DEF Newest
<1> HIDE DEF m
<1>5. Newest(n, s) \in [1..m -> Contents]
  BY <1>3, <1>4
<1>6. Newest(n, s) \in Seq(Contents) /\ Len(Newest(n, s)) = m
  BY <1>2, <1>5, SeqOfFcn
<1> QED BY <1>3, <1>4, <1>6 DEF m

(* Cutting the record short keeps it in order. *)
LEMMA NewestGood ==
  ASSUME NEW s, Good(s), NEW n \in Nat
  PROVE  Good(Newest(n, s))
<1> DEFINE t == Newest(n, s)
<1>1. t \in Seq(Contents) /\ Len(t) = (IF Len(s) < n THEN Len(s) ELSE n)
  BY NewestAt
<1>2. \A i \in 1..Len(t) : i \in 1..Len(s) /\ t[i] = s[i]
  BY NewestAt
<1>3. Len(s) \in 0..3
  BY GoodFacts
<1> HIDE DEF t
<1>4. Len(t) <= 3
  <2>1. \A k \in 0..3 : (IF k < n THEN k ELSE n) <= 3
    OBVIOUS
  <2> QED BY <1>1, <1>3, <2>1
<1>5. \A i, j \in 1..Len(t) : i # j => t[i] # t[j]
  BY <1>2 DEF Good
<1> QED BY <1>1, <1>4, <1>5 DEF Good, t

(* Begins, element by element. *)
LEMMA BeginsAt ==
  ASSUME NEW p, Good(p), NEW g, Good(g)
  PROVE  Begins(p, g) <=> Len(p) <= Len(g) /\ \A i \in 1..Len(p) : p[i] = g[i]
<1> DEFINE t == Newest(Len(p), g)
<1>1. Len(p) \in 0..3 /\ Len(g) \in 0..3 /\ p \in Seq(Contents)
  BY GoodFacts
<1>2. t \in Seq(Contents) /\ Len(t) = (IF Len(g) < Len(p) THEN Len(g) ELSE Len(p))
  BY <1>1, NewestAt
<1>3. \A i \in 1..Len(t) : t[i] = g[i]
  BY <1>1, NewestAt
<1>4. Begins(p, g) <=> p = t
  BY DEF Begins
<1> HIDE DEF t
<1>5. ASSUME p = t
      PROVE  Len(p) <= Len(g) /\ \A i \in 1..Len(p) : p[i] = g[i]
  BY <1>1, <1>2, <1>3, <1>5
<1>6. ASSUME Len(p) <= Len(g), \A i \in 1..Len(p) : p[i] = g[i]
      PROVE  p = t
  <2>1. Len(p) = Len(t)
    BY <1>1, <1>2, <1>6
  <2>2. \A i \in 1..Len(p) : p[i] = t[i]
    BY <1>3, <1>6, <2>1
  <2> QED BY <1>1, <1>2, <2>1, <2>2, SeqEqual
<1> QED BY <1>4, <1>5, <1>6

(* Nothing owed is always recalled. *)
LEMMA BeginsEmpty ==
  ASSUME NEW g, Good(g)
  PROVE  Begins(<<>>, g)
<1>1. Len(g) \in 0..3 /\ Len(<<>>) = 0
  BY GoodFacts, EmptySeq
<1>2. Len(<<>>) <= Len(g) /\ \A i \in 1..Len(<<>>) : <<>>[i] = g[i]
  BY <1>1
<1> QED BY <1>2, GoodEmpty, BeginsAt

(* A shorter record begins the longer one also after both got a new front. *)
LEMMA BeginsRemember ==
  ASSUME NEW p, Good(p), NEW g, Good(g), NEW x \in Contents, Begins(p, g)
  PROVE  Begins(Remember(p, x), Remember(g, x))
<1> DEFINE rp == Remember(p, x)
           rg == Remember(g, x)
<1>1. Len(p) \in 0..3 /\ Len(g) \in 0..3
  BY GoodFacts
<1>2. Len(p) <= Len(g) /\ \A i \in 1..Len(p) : p[i] = g[i]
  BY BeginsAt
<1>3. /\ Len(rp) = IF Has(p, x) \/ Len(p) >= 3 THEN Len(p) ELSE Len(p) + 1
      /\ Len(rp) \in 1..3
  BY RememberLen
<1>4. /\ Len(rg) = IF Has(g, x) \/ Len(g) >= 3 THEN Len(g) ELSE Len(g) + 1
      /\ Len(rg) \in 1..3
  BY RememberLen
<1>5. Len(rp) <= Len(rg)
  <2>1. CASE Has(p, x) \/ Len(p) >= 3
    BY <1>1, <1>2, <1>3, <1>4, <2>1
  <2>2. CASE ~Has(p, x) /\ Len(p) < 3 /\ Has(g, x)
    <3>1. PICK i \in 1..Len(g) : g[i] = x
      BY <2>2 DEF Has
    <3>2. i \notin 1..Len(p)
      BY <1>2, <2>2, <3>1 DEF Has
    <3> QED BY <1>1, <1>3, <1>4, <2>2, <3>1, <3>2
  <2>3. CASE ~Has(p, x) /\ Len(p) < 3 /\ ~Has(g, x)
    BY <1>1, <1>2, <1>3, <1>4, <2>3
  <2> QED BY <1>1, <2>1, <2>2, <2>3
<1>6. ASSUME NEW i \in 1..Len(rp)
      PROVE  rp[i] = rg[i]
  <2>0. i \in 1..Len(rg)
    BY <1>3, <1>4, <1>5
  <2>1. CASE i = 1
    BY <2>1, RememberFirst
  <2>2. CASE i # 1
    <3>1. i <= Len(p) + 1
      BY <1>1, <1>3
    <3>2. \A j \in 1..(i - 1) : p[j] = g[j]
      BY <1>1, <1>2, <3>1
    <3>3. CASE \A j \in 1..(i - 1) : p[j] # x
      <4>1. rp[i] = p[i - 1] /\ i - 1 \in 1..Len(p)
        BY <2>2, <3>3, RememberBound
      <4>2. rg[i] = g[i - 1]
        BY <2>0, <2>2, <3>2, <3>3, RememberBound
      <4> QED BY <1>2, <4>1, <4>2
    <3>4. CASE ~\A j \in 1..(i - 1) : p[j] # x
      <4>1. rp[i] = p[i] /\ i \in 1..Len(p)
        BY <2>2, <3>4, RememberBound
      <4>2. rg[i] = g[i]
        BY <2>0, <2>2, <3>2, <3>4, RememberBound
      <4> QED BY <1>2, <4>1, <4>2
    <3> QED BY <3>3, <3>4
  <2> QED BY <2>1, <2>2
<1> HIDE DEF rp, rg
<1>7. Good(rp) /\ Good(rg)
  BY RememberGood DEF rp, rg
<1> QED BY <1>5, <1>6, <1>7, BeginsAt DEF rp, rg

(* Remembering the front of a record changes nothing in what begins it,    *)
(* except that it is no longer empty.                                      *)
LEMMA BeginsAgain ==
  ASSUME NEW p, Good(p), NEW g, Good(g), g # <<>>, Begins(p, g)
  PROVE  Begins(Remember(p, g[1]), g)
<1> DEFINE x == g[1]
<1>1. Len(p) \in 0..3 /\ Len(g) \in 1..3 /\ x \in Contents /\ (p = <<>> <=> Len(p) = 0)
  BY GoodFacts
<1>2. Len(p) <= Len(g) /\ \A i \in 1..Len(p) : p[i] = g[i]
  BY BeginsAt
<1>3. CASE p = <<>>
  <2>1. ~Has(p, x)
    BY <1>1, <1>3 DEF Has
  <2>2. Len(Remember(p, x)) = 1
    <3>1. Len(p) = 0 /\ x \in Contents
      BY <1>1, <1>3
    <3> HIDE DEF x
    <3>2. Len(Remember(p, x)) = IF Has(p, x) \/ Len(p) >= 3 THEN Len(p) ELSE Len(p) + 1
      BY <3>1, RememberLen
    <3>3. ~(Has(p, x) \/ Len(p) >= 3)
      BY <2>1, <3>1
    <3> QED BY <3>1, <3>2, <3>3
  <2>3. Remember(p, x)[1] = x
    BY <1>1, RememberFirst
  <2>4. Good(Remember(p, x))
    BY <1>1, RememberGood
  <2>5. Len(Remember(p, x)) <= Len(g) /\ \A i \in 1..Len(Remember(p, x)) : Remember(p, x)[i] = g[i]
    BY <1>1, <2>2, <2>3
  <2> QED BY <2>4, <2>5, BeginsAt
<1>4. CASE p # <<>>
  <2>1. p[1] = x
    BY <1>1, <1>2, <1>4
  <2> QED BY <1>4, <2>1, RememberHead
<1> QED BY <1>3, <1>4

(* The beginning of a beginning. *)
LEMMA BeginsNewest ==
  ASSUME NEW p, Good(p), NEW g, Good(g), NEW n \in Nat, Begins(p, g)
  PROVE  Begins(Newest(n, p), g)
<1> DEFINE t == Newest(n, p)
<1>1. Len(p) \in 0..3 /\ Len(g) \in 0..3
  BY GoodFacts
<1>2. Len(p) <= Len(g) /\ \A i \in 1..Len(p) : p[i] = g[i]
  BY BeginsAt
<1>3. Len(t) = (IF Len(p) < n THEN Len(p) ELSE n)
  BY NewestAt
<1>4. \A i \in 1..Len(t) : i \in 1..Len(p) /\ t[i] = p[i]
  BY NewestAt
<1>5. Good(t)
  BY NewestGood
<1> HIDE DEF t
<1>6. Len(t) <= Len(g) /\ \A i \in 1..Len(t) : t[i] = g[i]
  BY <1>1, <1>2, <1>3, <1>4
<1> QED BY <1>5, <1>6, BeginsAt DEF t

(* Every generation of a beginning is one of the whole. *)
LEMMA BeginsHas ==
  ASSUME NEW p, Good(p), NEW g, Good(g), Begins(p, g), NEW i \in 1..Len(p)
  PROVE  Has(g, p[i])
<1>1. Len(p) \in 0..3 /\ Len(g) \in 0..3
  BY GoodFacts
<1>2. Len(p) <= Len(g) /\ p[i] = g[i]
  BY BeginsAt
<1> QED BY <1>1, <1>2 DEF Has

-----------------------------------------------------------------------------
(* The inductive invariant. *)

(* Upstream does not stop signing inline. *)
KeepsInRelease ==
  \A v, u \in Versions : v <= u /\ "inline" \in Forms(v) => "inline" \in Forms(u)

(* Every Release is signed inline. *)
AllInline == \A v \in Versions : "inline" \in Forms(v)

(* A plan or sync that knows which Release it is about; a sync at one of   *)
(* some steps; the steps from the first rename on, and after the last.     *)
Fetched    == run.op \in {"plan", "sync"} /\ run.pc \notin {"idle", "fetch"}
Syncing(P) == run.op = "sync" /\ run.pc \in P
Renaming   == {"release", "inline", "signature"}
After      == {"commit", "history", "walk"}

(* Which steps an operation has, and what it may have selected. *)
Shape ==
  /\ run.pc = "idle" => run = Idle
  /\ run.op = "none" => run.pc = "idle"
  /\ run.op = "plan" => run.pc \in {"fetch", "resolve", "prepare"}
  /\ run.op = "sync" => run.pc \notin {"idle", "reread", "repair"}
  /\ run.op = "verify" => run.pc \in {"indexes", "byhash", "reread", "repair"}
  /\ run.op = "prune" => run.pc = "walk"
  /\ run.v = Absent <=> run.pc \in {"idle", "fetch"}
  /\ run.files \cup run.todo \subseteq IF run.v = Absent THEN {} ELSE Selection(run.v)
  /\ run.oldv # Absent => run.oldfiles \subseteq Advertised(run.oldv)

Manifests ==
  /\ manifest.st = "corrupt" => run.pc \in {"idle", "fetch"}
  /\ manifest.st # "valid" => manifest.known = {}
  /\ history.st # "valid" => history.gens = NoGens

Control == Shape /\ Manifests

(* Nothing published is newer than what upstream has served, nor than what *)
(* this operation fetched; a sync has published what it has passed.        *)
Placed ==
  /\ \A r \in {inRelease, release, sig} : r <= seen
  /\ inRelease # Absent => "inline" \in Forms(inRelease)
  /\ Fetched => /\ run.v <= seen
                /\ \A r \in {inRelease, release, sig} : r <= run.v
                /\ run.inl \/ run.det
                /\ run.inl => "inline" \in Forms(run.v)
                /\ AllInline => run.inl
                /\ KeepsInRelease /\ ~run.inl => inRelease = Absent
  /\ run.op \in {"verify", "prune"} => run.v = Served
  /\ run.op = "prune" =>
       /\ IF run.inl THEN inRelease = run.v ELSE inRelease = Absent /\ run.det
       /\ run.det => release = run.v /\ sig = run.v
  /\ run.op = "sync" =>
       /\ run.det /\ run.pc \in {"inline", "signature"} \cup After => release = run.v
       /\ run.inl /\ run.pc \in {"signature"} \cup After => inRelease = run.v
       /\ run.det /\ run.pc \in After => sig = run.v

(* The indexes upstream has had all the time are asked for and found. *)
Recording ==
  Syncing(Renaming \cup After) =>
    /\ manifest.st = "valid"
    /\ run.v \in manifest.known
    /\ run.files \subseteq manifest.resolved[run.v]

FoundBefore ==
  abandoned \/ \A v \in Versions : \A c \in Steady(v) :
    c \in manifest.selected[v] => c \in manifest.resolved[v]

(* The indexes that an operation has found, or still has to ask for. *)
Wanted == run.files \cup IF run.pc = "resolve" THEN run.todo ELSE {}

FoundNow ==
  Fetched => abandoned \/ config \cap Steady(run.v) \subseteq Wanted

Asked == Recording /\ FoundBefore /\ FoundNow

InPlace(S, v) == \A c \in S : canon[c] = Content(c, v)

(* What a sync has put on disk before it publishes. *)
Done == {"prepare"} \cup Renaming \cup After

SyncedSoFar ==
  /\ Syncing({"payloads"}) => Named(run.v, run.files) \subseteq pool \cup run.pkgs
  /\ Syncing({"indexes", "byhash"} \cup Done) => abandoned \/ Named(run.v, run.files) \subseteq pool
  /\ Syncing({"indexes"}) => abandoned \/ InPlace(run.files \ run.todo, run.v)
  /\ Syncing({"byhash"} \cup Done) => abandoned \/ InPlace(run.files, run.v)
  /\ Syncing({"byhash"}) => ByHashFiles(run.v, run.files \ run.todo) \subseteq byhash
  /\ Syncing(Done) => ByHashFiles(run.v, run.files) \subseteq byhash

(* What was offered to clients is on record and on disk. *)
OfferedKept ==
  /\ offered \subseteq IF Served = Absent THEN {} ELSE Selection(Served)
  /\ Syncing(After) => offered = run.files
  /\ Served # Absent /\ Served \in manifest.known =>
       abandoned \/ offered \subseteq manifest.resolved[Served]
  /\ Served # Absent /\ ~amnesia =>
       manifest.st # "missing" /\ (manifest.st = "valid" => Served \in manifest.known)
  /\ Fetched /\ run.v = Served /\ ~amnesia => abandoned \/ offered \subseteq Wanted
  /\ run.op = "prune" => abandoned \/ offered \subseteq run.files

OfferedOnDisk ==
  /\ Served # Absent /\ (seen <= Served \/ (Fetched /\ run.v = Served)) =>
       abandoned \/ InPlace(offered, Served)
  /\ ByHashServed
  /\ Served # Absent => abandoned \/ Named(Served, offered) \subseteq pool

Covers(gens) == \A c \in Canon : Begins(past[c], gens[c])

NewGens == UpdateHistory(run.gens, run.v, run.files)

(* What clients were sent to by hash begins what is on record. *)
Remembered ==
  /\ run.op # "sync" /\ history.st # "corrupt" => Recalls(history.gens, past)
  /\ run.op = "sync" /\ ~run.protect =>
       /\ run.pc \notin Renaming \cup {"commit", "history"} => Covers(run.gens)
       /\ run.pc \in Renaming => Covers(run.gens) \/ Covers(NewGens)
       /\ run.pc \in {"commit", "history"} => Covers(NewGens)
  /\ Retained

HistoryKept ==
  /\ run.lost => run.protect
  /\ run.op = "sync" /\ history.st = "corrupt" => run.lost
  /\ run.op = "prune" => run.gens = history.gens /\ (history.st = "corrupt" => run.protect)
  /\ inRelease = Absent /\ release = Absent => past = NoGens
  /\ Served # Absent => \A c \in Canon : past[c] # <<>> =>
       ByHash(Served) /\ c \in offered /\ past[c][1] = Content(c, Served)
  /\ Syncing({"walk"}) /\ ByHash(run.v) => \A c \in run.files :
       run.gens[c] # <<>> /\ run.gens[c][1] = Content(c, run.v)
  /\ abandoned \/ lapse \/ Remembered

(* Then Release.gpg is published after an InRelease. *)
InlineFirst == AllInline /\ sig # Absent => inRelease # Absent

Sound == OfferedKept /\ OfferedOnDisk /\ HistoryKept

IInv ==
  /\ TypeOK /\ Control /\ Placed /\ Asked /\ SyncedSoFar /\ InlineFirst
  /\ KeepsInRelease => Sound

-----------------------------------------------------------------------------
(* Steps. *)

(* The three renames that publish a Release. *)
Renames == PublishRelease \/ PublishInRelease \/ PublishSignature

(* Which actions change each variable: all the others leave it alone.  The *)
(* lemmas below look at these actions only.                                *)
LEMMA Changes ==
  ASSUME Next
  PROVE  /\ upstream' = upstream
         /\ config' = config \/ \E s \in Configs : Reconfigure(s)
         /\ \/ seen' = seen
            \/ \E a, b, d \in Versions : FetchRelease(a, b, d)
            \/ \E c \in Canon : ResolveMissing(c)
         /\ UNCHANGED served \/ Renames \/ PruneForm
         /\ canon' = canon \/ \E c \in Canon : EnsureIndex(c) \/ PruneIndex(c)
         /\ \/ byhash' = byhash \/ Preserve
            \/ \E c \in Canon : Materialize(c)
            \/ \E h \in Canon \X Contents : PruneByHash(h)
         /\ pool' = pool \/ \E p \in Payloads : EnsurePayload(p) \/ PrunePayload(p)
         /\ \/ manifest' = manifest \/ Prepare \/ Commit
            \/ StagingLost \/ ManifestDamaged \/ ManifestUpgraded
         /\ history' = history \/ BeginPrune \/ WriteHistory \/ StagingLost \/ HistoryDamaged
         /\ mishaps' = mishaps \/ (mishaps < MaxMishaps /\ mishaps' = mishaps + 1)
         /\ \/ offered' = offered \/ Renames \/ PruneForm \/ Prepare
            \/ \E s \in Configs : Reconfigure(s)
         /\ \/ past' = past \/ Renames \/ PruneForm \/ Prepare \/ StagingLost
            \/ OpFails \/ VerifyReturns \/ PruneReturns
            \/ \E s \in Configs : Reconfigure(s)
         /\ abandoned' = abandoned \/ ResolveReturns \/ PayloadsReturn \/ IndexesReturn
         /\ amnesia' = amnesia \/ Commit \/ StagingLost
         /\ lapse' = lapse \/ OpFails \/ VerifyReturns \/ PruneReturns
<1> USE DEF disk, state, ghosts
<1>1. ASSUME BeginSync \/ BeginPlan \/ BeginVerify \/ ByHashDone \/ Reread
      PROVE  UNCHANGED <<upstream, config, seen, served, disk, state, ghosts>>
  BY <1>1 DEF BeginSync, BeginPlan, BeginVerify, ByHashDone, Reread
<1>2. ASSUME NEW c \in Canon, ResolveFound(c)
      PROVE  UNCHANGED <<upstream, config, seen, served, disk, state, ghosts>>
  BY <1>2 DEF ResolveFound
<1>3. ASSUME \/ \E a, b, d \in Versions : FetchRelease(a, b, d)
             \/ \E c \in Canon : ResolveMissing(c)
      PROVE  UNCHANGED <<upstream, config, served, disk, state, ghosts>>
  BY <1>3 DEF FetchRelease, ResolveMissing
<1>4. ASSUME OpFails \/ VerifyReturns \/ PruneReturns
      PROVE  UNCHANGED <<upstream, config, seen, served, disk, state, offered, abandoned, amnesia>>
  BY <1>4 DEF OpFails, VerifyReturns, PruneReturns
<1>5. ASSUME ResolveReturns \/ PayloadsReturn \/ IndexesReturn
      PROVE  UNCHANGED <<upstream, config, seen, served, disk, state, offered, past, amnesia, lapse>>
  BY <1>5 DEF ResolveReturns, PayloadsReturn, IndexesReturn
<1>6. ASSUME Preserve \/ (\E c \in Canon : Materialize(c))
             \/ \E h \in Canon \X Contents : PruneByHash(h)
      PROVE  UNCHANGED <<upstream, config, seen, served, canon, pool, state, ghosts>>
  BY <1>6 DEF Preserve, Materialize, PruneByHash
<1>7. ASSUME \E p \in Payloads : EnsurePayload(p) \/ PrunePayload(p)
      PROVE  UNCHANGED <<upstream, config, seen, served, canon, byhash, state, ghosts>>
  BY <1>7 DEF EnsurePayload, PrunePayload
<1>8. ASSUME \E c \in Canon : EnsureIndex(c) \/ PruneIndex(c)
      PROVE  UNCHANGED <<upstream, config, seen, served, byhash, pool, state, ghosts>>
  BY <1>8 DEF EnsureIndex, PruneIndex
<1>9. ASSUME Renames \/ PruneForm
      PROVE  UNCHANGED <<upstream, config, seen, disk, state, abandoned, amnesia, lapse>>
  BY <1>9 DEF Renames, PublishRelease, PublishInRelease, PublishSignature, PruneForm
<1>10. ASSUME BeginPrune \/ WriteHistory
       PROVE  UNCHANGED <<upstream, config, seen, served, disk, manifest, mishaps, ghosts>>
  BY <1>10 DEF BeginPrune, WriteHistory
<1>11. ASSUME Prepare
       PROVE  UNCHANGED <<upstream, config, seen, served, disk, history, mishaps, abandoned, amnesia, lapse>>
  BY <1>11 DEF Prepare
<1>12. ASSUME Commit
       PROVE  UNCHANGED <<upstream, config, seen, served, disk, history, mishaps, offered, past, abandoned, lapse>>
  BY <1>12 DEF Commit
<1>13. ASSUME HistoryDamaged \/ ManifestDamaged \/ ManifestUpgraded
       PROVE  /\ UNCHANGED <<upstream, config, seen, served, disk, ghosts>>
              /\ HistoryDamaged \/ history' = history
              /\ ManifestDamaged \/ ManifestUpgraded \/ manifest' = manifest
              /\ mishaps < MaxMishaps /\ mishaps' = mishaps + 1
  BY <1>13 DEF HistoryDamaged, ManifestDamaged, ManifestUpgraded
<1>14. ASSUME StagingLost
       PROVE  /\ UNCHANGED <<upstream, config, seen, served, disk, offered, abandoned, lapse>>
              /\ mishaps < MaxMishaps /\ mishaps' = mishaps + 1
  BY <1>14 DEF StagingLost
<1>15. ASSUME \E s \in Configs : Reconfigure(s)
       PROVE  /\ UNCHANGED <<upstream, seen, served, disk, manifest, history, abandoned, amnesia, lapse>>
              /\ mishaps < MaxMishaps /\ mishaps' = mishaps + 1
  BY <1>15 DEF Reconfigure
<1> QED BY <1>1, <1>2, <1>3, <1>4, <1>5, <1>6, <1>7, <1>8, <1>9, <1>10, <1>11, <1>12, <1>13,
           <1>14, <1>15 DEF Next, Renames

-----------------------------------------------------------------------------
(* Types. *)

(* The content of an advertised index is one of the contents. *)
LEMMA IndexType ==
  ASSUME NEW v \in Versions, NEW c \in Advertised(v)
  PROVE  c \in Canon /\ Content(c, v) \in Contents /\ Content(c, v) # NoContent
BY DEF Contents, Advertised

(* What indexes name are packages. *)
LEMMA NamedType ==
  ASSUME NEW v \in Versions, NEW files \in SUBSET Advertised(v)
  PROVE  Named(v, files) \in SUBSET Payloads
<1> SUFFICES ASSUME NEW c \in files PROVE Refs(c, Content(c, v)) \subseteq Payloads
  BY DEF Named
<1> QED BY IndexType, AptAssumption

(* By-hash files are pairs of an index and a content. *)
LEMMA ByHashType ==
  ASSUME NEW v \in Versions, NEW files \in SUBSET Advertised(v)
  PROVE  ByHashFiles(v, files) \in SUBSET (Canon \X Contents)
BY IndexType DEF ByHashFiles

(* The selection is advertised and configured. *)
LEMMA SelectionType ==
  ASSUME NEW v \in Versions, config \in Configs
  PROVE  Selection(v) \subseteq Advertised(v) /\ Selection(v) \subseteq Canon /\ Selection(v) \subseteq config
BY DEF Selection, Advertised

(* Clients find a Release or none. *)
LEMMA ServedType ==
  ASSUME {inRelease, release, sig} \subseteq Versions \cup {Absent}
  PROVE  Served \in Versions \cup {Absent}
BY DEF Served, Selected

(* A readable published Release has its files among those selected.       *)
LEMMA PublishedType ==
  ASSUME {inRelease, release, sig} \subseteq Versions \cup {Absent}, config \in Configs, Readable
  PROVE  /\ Served \in Versions
         /\ PublishedFiles \subseteq Selection(Served) /\ PublishedFiles \subseteq Advertised(Served)
<1>1. Served \in Versions
  BY ServedType DEF Readable
<1>2. PublishedFiles \subseteq Selection(Served)
  BY DEF PublishedFiles
<1> QED BY <1>1, <1>2, SelectionType

(* A record that is brought up to date is one. *)
LEMMA UpdateType ==
  ASSUME NEW gens \in [Canon -> Seq(Contents)], GensOK(gens),
         NEW v \in Versions, NEW files \in SUBSET Advertised(v)
  PROVE  /\ UpdateHistory(gens, v, files) \in [Canon -> Seq(Contents)]
         /\ GensOK(UpdateHistory(gens, v, files))
<1> DEFINE new == UpdateHistory(gens, v, files)
<1>1. ASSUME NEW c \in Canon
      PROVE  Good(new[c])
  <2>1. new[c] = IF ByHash(v) /\ c \in files THEN Remember(gens[c], Content(c, v)) ELSE <<>>
    BY DEF UpdateHistory
  <2>2. Good(gens[c])
    BY DEF GensOK, Good
  <2>3. c \in files => Content(c, v) \in Contents
    BY IndexType
  <2> QED BY <2>1, <2>2, <2>3, RememberGood, GoodEmpty
<1>2. new = [c \in Canon |-> new[c]]
  BY DEF UpdateHistory
<1> HIDE DEF new
<1>3. new \in [Canon -> Seq(Contents)]
  BY <1>1, <1>2 DEF Good
<1> QED BY <1>1, <1>3 DEF GensOK, Good, new

(* The empty history is in order. *)
LEMMA NoGensType ==
  NoGens \in [Canon -> Seq(Contents)] /\ GensOK(NoGens)
<1>1. \A c \in Canon : NoGens[c] = <<>>
  BY DEF NoGens
<1>2. NoGens \in [Canon -> Seq(Contents)]
  BY GoodEmpty DEF NoGens, Good
<1> QED BY <1>1, <1>2, GoodEmpty DEF GensOK, Good

(* Shortened records. *)
LEMMA ShorterType ==
  ASSUME NEW gens \in [Canon -> Seq(Contents)], GensOK(gens),
         NEW n \in [Canon -> Nat]
  PROVE  LET new == [c \in Canon |-> Newest(n[c], gens[c])]
         IN  new \in [Canon -> Seq(Contents)] /\ GensOK(new)
<1> DEFINE new == [c \in Canon |-> Newest(n[c], gens[c])]
<1>1. ASSUME NEW c \in Canon
      PROVE  Good(new[c])
  <2>1. Good(gens[c]) /\ n[c] \in Nat
    BY DEF GensOK, Good
  <2> QED BY <2>1, NewestGood
<1>2. new = [c \in Canon |-> new[c]]
  OBVIOUS
<1> HIDE DEF new
<1>3. new \in [Canon -> Seq(Contents)]
  BY <1>1, <1>2 DEF Good
<1>4. GensOK(new)
  BY <1>1 DEF GensOK, Good
<1> QED BY <1>3, <1>4 DEF new

(* Records of which some are dropped. *)
LEMMA DroppedType ==
  ASSUME NEW gens \in [Canon -> Seq(Contents)], GensOK(gens), NEW D
  PROVE  LET new == [c \in Canon |-> IF c \in D THEN <<>> ELSE gens[c]]
         IN  new \in [Canon -> Seq(Contents)] /\ GensOK(new)
<1> DEFINE new == [c \in Canon |-> IF c \in D THEN <<>> ELSE gens[c]]
<1>1. ASSUME NEW c \in Canon
      PROVE  Good(new[c])
  BY GoodEmpty DEF GensOK, Good
<1>2. new = [c \in Canon |-> new[c]]
  OBVIOUS
<1> HIDE DEF new
<1>3. new \in [Canon -> Seq(Contents)]
  BY <1>1, <1>2 DEF Good
<1>4. GensOK(new)
  BY <1>1 DEF GensOK, Good
<1> QED BY <1>3, <1>4 DEF new

(* What is known of the operation beyond its types. *)
LEMMA RunFacts ==
  ASSUME TypeOK, Control
  PROVE  /\ run \in RunState /\ GensOK(run.gens) /\ config \in Configs
         /\ {inRelease, release, sig} \subseteq Versions \cup {Absent}
         /\ Absent \notin Versions
         /\ run.pc \notin {"idle", "fetch"} =>
              /\ run.v \in Versions
              /\ run.files \subseteq Selection(run.v) /\ run.files \subseteq Advertised(run.v)
              /\ run.todo \subseteq Selection(run.v) /\ run.todo \subseteq Advertised(run.v)
              /\ Named(run.v, run.files) \in SUBSET Payloads
         /\ run.oldv # Absent => run.oldv \in Versions /\ run.oldfiles \subseteq Advertised(run.oldv)
<1>1. run \in RunState /\ GensOK(run.gens) /\ config \in Configs
      /\ {inRelease, release, sig} \subseteq Versions \cup {Absent}
  BY DEF TypeOK
<1>2. Absent \notin Versions
  BY DEF Absent, Versions
<1>3. run.v \in Versions \cup {Absent} /\ run.oldv \in Versions \cup {Absent}
  BY <1>1 DEF RunState
<1>4. ASSUME run.pc \notin {"idle", "fetch"}
      PROVE  /\ run.v \in Versions
             /\ run.files \subseteq Selection(run.v) /\ run.files \subseteq Advertised(run.v)
             /\ run.todo \subseteq Selection(run.v) /\ run.todo \subseteq Advertised(run.v)
             /\ Named(run.v, run.files) \in SUBSET Payloads
  <2>1. run.v \in Versions
    BY <1>3, <1>4 DEF Control, Shape
  <2>2. run.files \subseteq Selection(run.v) /\ run.todo \subseteq Selection(run.v)
    BY <1>4, <2>1, <1>2 DEF Control, Shape
  <2>3. Selection(run.v) \subseteq Advertised(run.v)
    BY <1>1, <2>1, SelectionType
  <2> QED BY <2>1, <2>2, <2>3, NamedType
<1>5. ASSUME run.oldv # Absent
      PROVE  run.oldv \in Versions /\ run.oldfiles \subseteq Advertised(run.oldv)
  BY <1>3, <1>5 DEF Control, Shape
<1> QED BY <1>1, <1>2, <1>4, <1>5

(* The idle state is in order. *)
LEMMA IdleType == Idle \in RunState /\ GensOK(Idle.gens)
BY NoGensType DEF Idle, RunState

(* The operation that holds the lock. *)
LEMMA StepRun ==
  ASSUME TypeOK, Control, Next
  PROVE  run' \in RunState /\ GensOK(run'.gens)
<1> DEFINE Type == run' \in RunState /\ GensOK(run'.gens)
<1>a. run \in RunState /\ GensOK(run.gens)
  BY DEF TypeOK
<1>b. history.gens \in [Canon -> Seq(Contents)] /\ GensOK(history.gens)
  BY DEF TypeOK
<1>c. {inRelease, release, sig} \subseteq Versions \cup {Absent} /\ config \in Configs
  BY DEF TypeOK
<1>d. \A v \in Versions : Selection(v) \subseteq Advertised(v) /\ Selection(v) \in SUBSET Canon
  BY <1>c, SelectionType
<1>e. Readable => Served \in Versions /\ PublishedFiles \in SUBSET Canon /\ PublishedFiles \subseteq Advertised(Served)
  BY <1>c, PublishedType, SelectionType
<1>f. run.pc \notin {"idle", "fetch"} =>
        /\ run.v \in Versions /\ run.files \subseteq Advertised(run.v)
        /\ Named(run.v, run.files) \in SUBSET Payloads
  BY RunFacts
<1>1. ASSUME BeginSync PROVE Type
  <2>1. CASE Readable
    <3> DEFINE g == UpdateHistory(history.gens, Served, PublishedFiles)
    <3>1. g \in [Canon -> Seq(Contents)] /\ GensOK(g)
      BY <1>b, <1>e, <2>1, UpdateType
    <3> HIDE DEF g
    <3>2. \E b \in BOOLEAN, l \in BOOLEAN :
            run' = [Idle EXCEPT !.op = "sync", !.pc = "fetch", !.gens = g, !.oldv = Served,
                                !.oldfiles = PublishedFiles, !.protect = b, !.lost = l]
      BY <1>1, <2>1 DEF BeginSync, g
    <3> QED BY <1>e, <2>1, <3>1, <3>2, IdleType DEF RunState
  <2>2. CASE ~Readable
    <3>2. \E b \in BOOLEAN, l \in BOOLEAN :
            run' = [Idle EXCEPT !.op = "sync", !.pc = "fetch", !.gens = history.gens, !.oldv = Absent,
                                !.oldfiles = {}, !.protect = b, !.lost = l]
      BY <1>1, <2>2 DEF BeginSync
    <3> QED BY <1>b, <3>2, IdleType DEF RunState
  <2> QED BY <2>1, <2>2
<1>2. ASSUME BeginPlan PROVE Type
  BY <1>2, IdleType DEF BeginPlan, RunState
<1>3. ASSUME BeginVerify PROVE Type
  BY <1>3, <1>e, IdleType DEF BeginVerify, RunState
<1>4. ASSUME BeginPrune PROVE Type
  <2> DEFINE g == UpdateHistory(NoGens, Served, PublishedFiles)
  <2>1. Readable
    BY <1>4 DEF BeginPrune
  <2>2. g \in [Canon -> Seq(Contents)] /\ GensOK(g)
    BY <1>e, <2>1, NoGensType, UpdateType
  <2> HIDE DEF g
  <2>3. \E b \in BOOLEAN, l \in BOOLEAN, d \in BOOLEAN, h \in {g, history.gens} :
            run' = [Idle EXCEPT !.op = "prune", !.pc = "walk", !.v = Served,
                             !.inl = l, !.det = d, !.files = PublishedFiles,
                             !.gens = h, !.protect = b]
    <3>1. CASE history.st = "missing"
      BY <1>4, <3>1 DEF BeginPrune, Selected, g
    <3>2. CASE history.st # "missing"
      BY <1>4, <3>2 DEF BeginPrune, Selected, g
    <3> QED BY <3>1, <3>2
  <2>4. PICK b \in BOOLEAN, l \in BOOLEAN, d \in BOOLEAN, h \in {g, history.gens} :
            run' = [Idle EXCEPT !.op = "prune", !.pc = "walk", !.v = Served,
                             !.inl = l, !.det = d, !.files = PublishedFiles,
                             !.gens = h, !.protect = b]
    BY <2>3
  <2>5. h \in [Canon -> Seq(Contents)] /\ GensOK(h)
    BY <1>b, <2>2
  <2>6. Idle \in RunState
    BY IdleType
  <2>7. run' \in RunState
    BY <1>e, <2>1, <2>4, <2>5, <2>6 DEF RunState
  <2>8. run'.gens = h
    BY <2>4, <2>6 DEF RunState
  <2> QED BY <2>5, <2>7, <2>8
<1>5. ASSUME OpFails \/ VerifyReturns \/ PruneReturns PROVE Type
  BY <1>5, IdleType DEF OpFails, VerifyReturns, PruneReturns, Finish
<1>6. ASSUME NEW a \in Versions, NEW b \in Versions, NEW d \in Versions, FetchRelease(a, b, d) PROVE Type
  <2> DEFINE form == Selected(IF "inline" \in Forms(a) THEN a ELSE Absent,
                              IF "detached" \in Forms(b) THEN b ELSE Absent,
                              IF "detached" \in Forms(d) THEN d ELSE Absent)
             v == form.v
             i == form.inl
             e == form.det
  <2>0. v \in {a, b, Absent} /\ i \in BOOLEAN /\ e \in BOOLEAN
    BY DEF Selected
  <2>1. /\ v # Absent
        /\ run' = [run EXCEPT !.pc = "resolve", !.v = v, !.inl = i, !.det = e, !.todo = ToResolve(v)]
    BY <1>6 DEF FetchRelease
  <2> HIDE DEF v, i, e
  <2>2. v \in Versions /\ ToResolve(v) \in SUBSET Canon
    BY <1>d, <2>0, <2>1 DEF ToResolve
  <2> QED BY <1>a, <2>0, <2>1, <2>2 DEF RunState
<1>7. ASSUME NEW c \in Canon, ResolveFound(c) \/ ResolveMissing(c) \/ EnsureIndex(c) \/ Materialize(c)
      PROVE  Type
  <2>1. \/ run' = [run EXCEPT !.todo = @ \ {c}, !.files = @ \cup {c}]
        \/ run' = [run EXCEPT !.todo = @ \ {c}]
    BY <1>7 DEF ResolveFound, ResolveMissing, EnsureIndex, Materialize
  <2>2. run.files \cup {c} \in SUBSET Canon /\ run.todo \ {c} \in SUBSET Canon
    BY <1>a DEF RunState
  <2>3. CASE run' = [run EXCEPT !.todo = @ \ {c}, !.files = @ \cup {c}]
    BY <1>a, <2>2, <2>3 DEF RunState
  <2>4. CASE run' = [run EXCEPT !.todo = @ \ {c}]
    BY <1>a, <2>2, <2>4 DEF RunState
  <2> QED BY <2>1, <2>3, <2>4
<1>8. ASSUME ResolveReturns PROVE Type
  BY <1>8, <1>a DEF ResolveReturns, RunState
<1>9. ASSUME Preserve \/ Reread PROVE Type
  <2>1. \E pc \in {"payloads", "repair"} : run' = [run EXCEPT !.pc = pc, !.pkgs = Named(run.v, run.files)]
    BY <1>9 DEF Preserve, Reread
  <2>2. Named(run.v, run.files) \in SUBSET Payloads
    BY <1>9, <1>f DEF Preserve, Reread
  <2> QED BY <1>a, <2>1, <2>2 DEF RunState
<1>10. ASSUME NEW p \in Payloads, EnsurePayload(p) PROVE Type
  BY <1>10, <1>a DEF EnsurePayload, RunState
<1>11. ASSUME PayloadsReturn \/ IndexesReturn \/ ByHashDone PROVE Type
  BY <1>11, <1>a DEF PayloadsReturn, IndexesReturn, ByHashDone, RunState
<1>12. ASSUME Prepare \/ PublishRelease \/ PublishInRelease \/ PublishSignature \/ Commit PROVE Type
  <2>1. \/ run' = Idle
        \/ \E pc \in {"release", "inline", "signature", "commit", "history"} :
             run' = [run EXCEPT !.pc = pc]
    BY <1>12 DEF Prepare, PublishRelease, PublishInRelease, PublishSignature, Commit
  <2> QED BY <1>a, <2>1, IdleType DEF RunState
<1>13. ASSUME WriteHistory PROVE Type
  <2> DEFINE g == UpdateHistory(run.gens, run.v, run.files)
  <2>1. g \in [Canon -> Seq(Contents)] /\ GensOK(g)
    <3>1. run.gens \in [Canon -> Seq(Contents)]
      BY <1>a DEF RunState
    <3>2. run.v \in Versions /\ run.files \subseteq Advertised(run.v)
      BY <1>13, <1>f DEF WriteHistory
    <3> QED BY <1>a, <3>1, <3>2, UpdateType
  <2> HIDE DEF g
  <2>2. run' = [run EXCEPT !.pc = "walk", !.gens = g]
    BY <1>13 DEF WriteHistory, g
  <2> QED BY <1>a, <2>1, <2>2 DEF RunState
<1>14. ASSUME run' = run PROVE Type
  BY <1>14, <1>a
<1>15. ASSUME NEW p \in Payloads, PrunePayload(p) PROVE run' = run
  BY <1>15 DEF PrunePayload
<1>16. ASSUME NEW c \in Canon, PruneIndex(c) PROVE run' = run
  BY <1>16 DEF PruneIndex
<1>17. ASSUME NEW h \in Canon \X Contents, PruneByHash(h) PROVE run' = run
  BY <1>17 DEF PruneByHash
<1>18. ASSUME NEW s \in Configs, Reconfigure(s) PROVE run' = run
  BY <1>18 DEF Reconfigure
<1>19. ASSUME PruneForm \/ StagingLost \/ HistoryDamaged \/ ManifestDamaged \/ ManifestUpgraded PROVE run' = run
  BY <1>19 DEF PruneForm, StagingLost, HistoryDamaged, ManifestDamaged, ManifestUpgraded
<1> HIDE DEF Type
<1>20. Type
  BY <1>1, <1>2, <1>3, <1>4, <1>5, <1>6, <1>7, <1>8, <1>9, <1>10, <1>11, <1>12, <1>13,
     <1>14, <1>15, <1>16, <1>17, <1>18, <1>19 DEF Next
<1> QED BY <1>20 DEF Type

(* The environment, the Release files and the flags. *)
LEMMA StepEnv ==
  ASSUME TypeOK, Control, Next
  PROVE  /\ upstream' = upstream
         /\ config' \in Configs
         /\ seen' \in Versions /\ seen <= seen'
         /\ mishaps' \in 0..MaxMishaps
         /\ {inRelease', release', sig'} \subseteq Versions \cup {Absent}
         /\ abandoned' \in BOOLEAN /\ (abandoned => abandoned')
         /\ amnesia' \in BOOLEAN
         /\ lapse' \in BOOLEAN /\ (lapse => lapse')
<1>a. /\ upstream \in Upstreams /\ config \in Configs /\ seen \in Versions
      /\ mishaps \in 0..MaxMishaps
      /\ {inRelease, release, sig} \subseteq Versions \cup {Absent}
      /\ abandoned \in BOOLEAN /\ amnesia \in BOOLEAN /\ lapse \in BOOLEAN
  BY DEF TypeOK
<1>b. seen \in Nat /\ seen <= MaxVersion /\ MaxVersion \in Nat /\ MaxMishaps \in Nat
  BY <1>a, AptAssumption DEF Versions
<1>1. upstream' = upstream
  BY Changes
<1>2. config' \in Configs
  BY <1>a, Changes DEF Reconfigure
<1>3. \/ seen' = seen
      \/ \E a, b, d \in Versions : seen <= a /\ a <= b /\ b <= d /\ seen' = d
      \/ \E u \in seen..MaxVersion : seen' = u
  BY Changes DEF FetchRelease, ResolveMissing
<1>4. seen' \in Versions /\ seen <= seen'
  <2>1. CASE seen' = seen
    BY <1>a, <1>b, <2>1
  <2>2. ASSUME NEW a \in Versions, NEW b \in Versions, NEW d \in Versions,
               seen <= a, a <= b, b <= d, seen' = d
        PROVE  seen' \in Versions /\ seen <= seen'
    BY <1>b, <2>2 DEF Versions
  <2>3. ASSUME NEW u \in seen..MaxVersion, seen' = u
        PROVE  seen' \in Versions /\ seen <= seen'
    <3>1. 1 <= seen
      BY <1>a DEF Versions
    <3> QED BY <1>b, <2>3, <3>1 DEF Versions
  <2> QED BY <1>3, <2>1, <2>2, <2>3
<1>5. mishaps' = mishaps \/ (mishaps < MaxMishaps /\ mishaps' = mishaps + 1)
  BY Changes
<1>6. mishaps' \in 0..MaxMishaps
  BY <1>a, <1>b, <1>5
<1>7. \/ UNCHANGED served
      \/ run.pc \in {"release", "inline", "signature"} /\ {inRelease', release', sig'} \subseteq {inRelease, release, sig, run.v}
      \/ {inRelease', release', sig'} \subseteq {inRelease, release, sig, Absent}
  BY Changes DEF Renames, PublishRelease, PublishInRelease, PublishSignature, PruneForm
<1>8. {inRelease', release', sig'} \subseteq Versions \cup {Absent}
  <2>1. run.pc \in {"release", "inline", "signature"} => run.v \in Versions
    BY RunFacts
  <2> QED BY <1>a, <1>7, <2>1 DEF served
<1>9. \/ abandoned' = abandoned
      \/ \E x : abandoned' = (abandoned \/ x)
  BY Changes DEF ResolveReturns, PayloadsReturn, IndexesReturn
<1>10. abandoned' \in BOOLEAN /\ (abandoned => abandoned')
  BY <1>a, <1>9, Zenon
<1>11. amnesia' = amnesia \/ amnesia' = TRUE \/ amnesia' = FALSE
  BY Changes DEF Commit, StagingLost
<1>12. \/ lapse' = lapse
       \/ lapse' = (lapse \/ (history.st # "corrupt" /\ ~Recalls(history.gens, past')))
  BY Changes DEF OpFails, VerifyReturns, PruneReturns, Finish
<1>13. lapse' \in BOOLEAN /\ (lapse => lapse')
  BY <1>a, <1>12, Zenon
<1> QED BY <1>1, <1>2, <1>a, <1>4, <1>6, <1>8, <1>10, <1>11, <1>13

(* The published files. *)
LEMMA StepDisk ==
  ASSUME TypeOK, Control, Next
  PROVE  /\ canon' \in [Canon -> Contents \cup {NoContent}]
         /\ byhash' \in SUBSET (Canon \X Contents)
         /\ pool' \in SUBSET Payloads
<1>a. /\ canon \in [Canon -> Contents \cup {NoContent}]
      /\ byhash \in SUBSET (Canon \X Contents)
      /\ pool \in SUBSET Payloads
      /\ run.pkgs \in SUBSET Payloads
  BY DEF TypeOK, RunState
<1>b. run.pc \notin {"idle", "fetch"} => run.v \in Versions /\ run.todo \subseteq Advertised(run.v)
  BY RunFacts
<1>c. run.oldv # Absent => ByHashFiles(run.oldv, run.oldfiles) \in SUBSET (Canon \X Contents)
  BY RunFacts, ByHashType
<1>1. canon' \in [Canon -> Contents \cup {NoContent}]
  <2>1. ASSUME NEW c \in Canon, EnsureIndex(c) PROVE Content(c, run.v) \in Contents
    BY <2>1, <1>b, IndexType DEF EnsureIndex
  <2> QED BY <1>a, <2>1, Changes DEF EnsureIndex, PruneIndex
<1>2. byhash' \in SUBSET (Canon \X Contents)
  <2>1. ASSUME NEW c \in Canon, Materialize(c) PROVE Content(c, run.v) \in Contents
    BY <2>1, <1>b, IndexType DEF Materialize
  <2>2. CASE Preserve
    BY <1>a, <1>c, <2>2 DEF Preserve
  <2>3. ASSUME NEW c \in Canon, Materialize(c) PROVE byhash' \in SUBSET (Canon \X Contents)
    BY <1>a, <2>1, <2>3 DEF Materialize
  <2>4. ASSUME NEW h \in Canon \X Contents, PruneByHash(h) PROVE byhash' \in SUBSET (Canon \X Contents)
    BY <1>a, <2>4 DEF PruneByHash
  <2> QED BY <1>a, <2>2, <2>3, <2>4, Changes
<1>3. pool' \in SUBSET Payloads
  BY <1>a, Changes DEF EnsurePayload, PrunePayload
<1> QED BY <1>1, <1>2, <1>3

(* The two manifests. *)
LEMMA StepManifest ==
  ASSUME TypeOK, Control, Next
  PROVE  /\ manifest' \in [st : {"missing", "valid", "corrupt"}, known : SUBSET Versions,
                           selected : [Versions -> SUBSET Canon], resolved : [Versions -> SUBSET Canon]]
         /\ \A v \in Versions : manifest'.resolved[v] \subseteq manifest'.selected[v]
<1> DEFINE Records == [st : {"missing", "valid", "corrupt"}, known : SUBSET Versions,
                       selected : [Versions -> SUBSET Canon], resolved : [Versions -> SUBSET Canon]]
           Type == manifest' \in Records /\ \A v \in Versions : manifest'.resolved[v] \subseteq manifest'.selected[v]
<1>a. manifest \in Records /\ \A v \in Versions : manifest.resolved[v] \subseteq manifest.selected[v]
  BY DEF TypeOK
<1>b. run.pc \notin {"idle", "fetch"} =>
        run.v \in Versions /\ run.files \subseteq Selection(run.v) /\ Selection(run.v) \in SUBSET Canon
  BY RunFacts, SelectionType
<1>c. Nothing \in [Versions -> SUBSET Canon] /\ \A v \in Versions : Nothing[v] = {}
  BY DEF Nothing
<1>1. ASSUME Prepare PROVE Type
  <2>1. run.v \in Versions /\ run.files \subseteq Selection(run.v) /\ Selection(run.v) \in SUBSET Canon
    BY <1>1, <1>b DEF Prepare
  <2>2. manifest' = Recorded
    BY <1>1 DEF Prepare
  <2>3. /\ Recorded.selected = [manifest.selected EXCEPT ![run.v] = @ \cup Selection(run.v)]
        /\ Recorded.resolved = [manifest.resolved EXCEPT ![run.v] = (@ \ Selection(run.v)) \cup run.files]
        /\ Recorded.known = manifest.known \cup {run.v}
        /\ Recorded.st = "valid"
        /\ Recorded = [st |-> Recorded.st, known |-> Recorded.known,
                       selected |-> Recorded.selected, resolved |-> Recorded.resolved]
    BY DEF Recorded
  <2>4. /\ Recorded.selected \in [Versions -> SUBSET Canon]
        /\ Recorded.resolved \in [Versions -> SUBSET Canon]
        /\ Recorded.known \in SUBSET Versions
    BY <1>a, <2>1, <2>3
  <2>5. \A v \in Versions : Recorded.resolved[v] \subseteq Recorded.selected[v]
    BY <1>a, <2>1, <2>3
  <2> QED BY <2>2, <2>3, <2>4, <2>5
<1>2. ASSUME Commit PROVE Type
  <2>1. run.v \in Versions /\ run.files \subseteq Selection(run.v) /\ Selection(run.v) \in SUBSET Canon
    BY <1>2, <1>b DEF Commit
  <2>2. manifest' = [st |-> "valid", known |-> {run.v},
                     selected |-> [Nothing EXCEPT ![run.v] = Selection(run.v)],
                     resolved |-> [Nothing EXCEPT ![run.v] = run.files]]
    BY <1>2 DEF Commit
  <2> QED BY <1>c, <2>1, <2>2
<1>3. ASSUME StagingLost \/ ManifestDamaged PROVE Type
  BY <1>3, <1>c DEF StagingLost, ManifestDamaged, NoManifest
<1>4. ASSUME ManifestUpgraded PROVE Type
  BY <1>4, <1>a DEF ManifestUpgraded
<1>5. ASSUME manifest' = manifest PROVE Type
  BY <1>5, <1>a
<1> HIDE DEF Type
<1>6. Type
  BY <1>1, <1>2, <1>3, <1>4, <1>5, Changes
<1> QED BY <1>6 DEF Type

(* The by-hash history. *)
LEMMA StepHistory ==
  ASSUME TypeOK, Control, Next
  PROVE  /\ history' \in [st : {"missing", "valid", "corrupt"}, gens : [Canon -> Seq(Contents)]]
         /\ GensOK(history'.gens)
<1> DEFINE Records == [st : {"missing", "valid", "corrupt"}, gens : [Canon -> Seq(Contents)]]
           Type == history' \in Records /\ GensOK(history'.gens)
<1>a. history \in Records /\ GensOK(history.gens)
  BY DEF TypeOK
<1>1. ASSUME NEW g \in [Canon -> Seq(Contents)], GensOK(g), history'.gens = g,
             \E st \in {"missing", "valid", "corrupt"} : history' = [st |-> st, gens |-> g]
      PROVE  Type
  BY <1>1
<1>2. ASSUME BeginPrune PROVE Type
  <2> DEFINE g == UpdateHistory(NoGens, Served, PublishedFiles)
  <2>1. g \in [Canon -> Seq(Contents)] /\ GensOK(g)
    <3>1. Readable
      BY <1>2 DEF BeginPrune
    <3> QED BY <3>1, RunFacts, PublishedType, NoGensType, UpdateType
  <2>2. history' = history \/ history' = [st |-> "valid", gens |-> g]
    BY <1>2 DEF BeginPrune
  <2> HIDE DEF g, Type
  <2>3. CASE history' = history
    BY <1>a, <2>3 DEF Type
  <2>4. CASE history' = [st |-> "valid", gens |-> g]
    BY <1>1, <2>1, <2>4
  <2> QED BY <2>2, <2>3, <2>4
<1>3. ASSUME WriteHistory PROVE Type
  <2> DEFINE g == UpdateHistory(run.gens, run.v, run.files)
  <2>1. g \in [Canon -> Seq(Contents)] /\ GensOK(g)
    <3>1. run.gens \in [Canon -> Seq(Contents)] /\ GensOK(run.gens)
      BY DEF TypeOK, RunState
    <3>2. run.v \in Versions /\ run.files \subseteq Advertised(run.v)
      BY <1>3, RunFacts DEF WriteHistory
    <3> QED BY <3>1, <3>2, UpdateType
  <2>2. history' = [st |-> "valid", gens |-> g]
    BY <1>3 DEF WriteHistory
  <2> HIDE DEF g, Type
  <2> QED BY <1>1, <2>1, <2>2
<1>4. ASSUME StagingLost \/ HistoryDamaged PROVE Type
  <2>1. history' = [st |-> "missing", gens |-> NoGens] \/ history' = [st |-> "corrupt", gens |-> NoGens]
    BY <1>4 DEF StagingLost, HistoryDamaged
  <2> HIDE DEF Type
  <2> QED BY <1>1, <2>1, NoGensType
<1>5. ASSUME history' = history PROVE Type
  BY <1>5, <1>a
<1> HIDE DEF Type
<1>6. Type
  BY <1>2, <1>3, <1>4, <1>5, Changes
<1> QED BY <1>6 DEF Type

(* What clients were sent to. *)
LEMMA StepPast ==
  ASSUME TypeOK, Control, Next
  PROVE  /\ offered' \in SUBSET Canon
         /\ past' \in [Canon -> Seq(Contents)] /\ GensOK(past')
<1> DEFINE Type == past' \in [Canon -> Seq(Contents)] /\ GensOK(past')
<1>a. past \in [Canon -> Seq(Contents)] /\ GensOK(past) /\ offered \in SUBSET Canon
  BY DEF TypeOK
<1>b. run.files \in SUBSET Canon
  BY DEF TypeOK, RunState
<1>1. ASSUME Finish PROVE Type
  <2> DEFINE n == [c \in Canon |-> Len(history.gens[c])]
  <2>1. \A c \in Canon : history.gens[c] \in Seq(Contents)
    BY DEF TypeOK
  <2>2. n \in [Canon -> Nat]
    BY <2>1, LenProperties
  <2>3. past' = past \/ past' = [c \in Canon |-> Newest(n[c], past[c])]
    BY <1>1 DEF Finish
  <2> HIDE DEF n
  <2> QED BY <1>a, <2>2, <2>3, ShorterType
<1>2. ASSUME StagingLost PROVE Type
  <2> DEFINE n == [c \in Canon |-> 1]
  <2>1. n \in [Canon -> Nat]
    OBVIOUS
  <2>2. past' = [c \in Canon |-> Newest(n[c], past[c])]
    BY <1>2 DEF StagingLost
  <2> HIDE DEF n
  <2> QED BY <1>a, <2>1, <2>2, ShorterType
<1>3. ASSUME Prepare PROVE Type
  <2>1. PICK D : past' = [c \in Canon |-> IF c \in D THEN <<>> ELSE past[c]]
    BY <1>3 DEF Prepare
  <2> QED BY <1>a, <2>1, DroppedType
<1>4. ASSUME NEW s \in Configs, Reconfigure(s) PROVE Type
  <2>1. past' = [c \in Canon |-> IF c \in Canon \ s THEN <<>> ELSE past[c]]
    BY <1>4 DEF Reconfigure
  <2> QED BY <1>a, <2>1, DroppedType
<1>5. ASSUME RecordServed, run.pc \notin {"idle", "fetch"} PROVE Type
  <2>1. run.v \in Versions /\ run.files \subseteq Advertised(run.v)
    BY <1>5, RunFacts
  <2> QED BY <1>a, <1>5, <2>1, UpdateType DEF RecordServed
<1>6. ASSUME past' = past PROVE Type
  BY <1>6, <1>a
<1>7. \/ Finish \/ StagingLost \/ Prepare \/ past' = past
      \/ \E s \in Configs : Reconfigure(s)
      \/ RecordServed /\ run.pc \notin {"idle", "fetch"}
  BY Changes DEF OpFails, VerifyReturns, PruneReturns, Renames, PublishRelease, PublishInRelease,
     PublishSignature, PruneForm, Pruning
<1>8. offered' \in SUBSET Canon
  BY <1>a, <1>b, Changes DEF Renames, PublishRelease, PublishInRelease, PublishSignature, PruneForm,
     RecordServed, Prepare, Reconfigure
<1> HIDE DEF Type
<1>9. Type
  BY <1>1, <1>2, <1>3, <1>4, <1>5, <1>6, <1>7
<1> QED BY <1>8, <1>9 DEF Type

(* Every step keeps the types. *)
LEMMA StepTypes ==
  ASSUME TypeOK, Control, Next
  PROVE  TypeOK'
BY StepRun, StepEnv, StepDisk, StepManifest, StepHistory, StepPast DEF TypeOK

(* The parts of Control that are about the manifests alone. *)
LEMMA StepManifests ==
  ASSUME TypeOK, Control, Next
  PROVE  /\ manifest'.st # "valid" => manifest'.known = {}
         /\ history'.st # "valid" => history'.gens = NoGens
         /\ manifest'.st = "corrupt" => manifest.st = "corrupt" \/ run'.pc = "idle"
<1>a. /\ manifest.st # "valid" => manifest.known = {}
      /\ history.st # "valid" => history.gens = NoGens
      /\ run.pc = "idle" => run = Idle
      /\ Idle.pc = "idle"
  BY DEF Control, Shape, Manifests, Idle
<1>1. /\ manifest'.st # "valid" => manifest'.known = {}
      /\ manifest'.st = "corrupt" => manifest.st = "corrupt" \/ run'.pc = "idle"
  <2>1. \/ manifest' = manifest
        \/ manifest'.st = "valid"
        \/ manifest' = NoManifest("missing")
        \/ manifest' = NoManifest("corrupt") /\ run.pc = "idle" /\ run' = run
    <3>1. ASSUME ManifestUpgraded PROVE manifest'.st = "valid"
      BY <3>1 DEF ManifestUpgraded, TypeOK
    <3>2. ASSUME Prepare \/ Commit PROVE manifest'.st = "valid"
      BY <3>2 DEF Prepare, Commit, Recorded
    <3> QED BY <3>1, <3>2, Changes DEF StagingLost, ManifestDamaged
  <2> QED BY <1>a, <2>1 DEF NoManifest
<1>2. history'.st # "valid" => history'.gens = NoGens
  <2>1. \/ history' = history
        \/ \E g : history' = [st |-> "valid", gens |-> g]
        \/ \E st : history' = [st |-> st, gens |-> NoGens]
    BY Changes DEF BeginPrune, WriteHistory, StagingLost, HistoryDamaged
  <2> QED BY <1>a, <2>1
<1> QED BY <1>1, <1>2

(* Each step of an operation leads to one that the same operation has,    *)
(* with files of the Release it is about.                                 *)
LEMMA StepShape ==
  ASSUME TypeOK, Control, Next
  PROVE  /\ Shape'
         /\ manifest.st = "corrupt" => run'.pc \in {"idle", "fetch"}
<1> DEFINE Goal == Shape' /\ (manifest.st = "corrupt" => run'.pc \in {"idle", "fetch"})
<1>a. run \in RunState /\ Shape
  BY DEF TypeOK, Control
<1>b. manifest.st = "corrupt" => run.pc \in {"idle", "fetch"}
  BY DEF Control, Manifests
<1>c. Readable => Served # Absent /\ PublishedFiles \subseteq Selection(Served) /\ PublishedFiles \subseteq Advertised(Served)
                  /\ manifest.st # "corrupt"
  BY RunFacts, PublishedType DEF Readable
<1>d. config' = config => \A v : Selection(v)' = Selection(v)
  BY DEF Selection
<1>1. ASSUME run' = Idle PROVE Goal
  BY <1>1 DEF Shape, Idle
<1>2. ASSUME BeginSync \/ BeginPlan PROVE Goal
  <2>1. \E o \in {"sync", "plan"} :
          /\ run'.op = o /\ run'.pc = "fetch" /\ run'.v = Absent /\ run'.files = {} /\ run'.todo = {}
          /\ run'.oldv # Absent => run'.oldfiles \subseteq Advertised(run'.oldv)
    <3>1. CASE BeginSync
      <4>1. /\ run'.op = "sync" /\ run'.pc = "fetch" /\ run'.v = Absent /\ run'.files = {} /\ run'.todo = {}
            /\ run'.oldv = (IF Readable THEN Served ELSE Absent)
            /\ run'.oldfiles = (IF Readable THEN PublishedFiles ELSE {})
        BY <3>1 DEF BeginSync, Idle
      <4> QED BY <1>c, <4>1
    <3>2. CASE BeginPlan
      BY <3>2 DEF BeginPlan, Idle
    <3> QED BY <1>2, <3>1, <3>2
  <2> QED BY <2>1 DEF Shape
<1>3. ASSUME BeginVerify \/ BeginPrune PROVE Goal
  <2>1. Readable /\ config' = config
    BY <1>3 DEF BeginVerify, BeginPrune
  <2>2. /\ (run'.op = "verify" /\ run'.pc = "indexes") \/ (run'.op = "prune" /\ run'.pc = "walk")
        /\ run'.v = Served /\ run'.files = PublishedFiles /\ run'.todo \subseteq PublishedFiles /\ run'.oldv = Absent
    <3>1. CASE BeginVerify
      <4>1. /\ run'.op = "verify" /\ run'.pc = "indexes" /\ run'.v = Served
            /\ run'.files = PublishedFiles /\ run'.todo = PublishedFiles /\ run'.oldv = Absent
        BY <3>1 DEF BeginVerify, Idle
      <4> QED BY <4>1
    <3>2. CASE BeginPrune
      BY <3>2 DEF BeginPrune, Idle
    <3> QED BY <1>3, <3>1, <3>2
  <2> QED BY <1>c, <1>d, <2>1, <2>2 DEF Shape
<1>4. ASSUME NEW a \in Versions, NEW b \in Versions, NEW d \in Versions, FetchRelease(a, b, d) PROVE Goal
  <2>1. /\ config' = config /\ run.pc = "fetch" /\ manifest.st # "corrupt"
        /\ \E v, i, e : /\ v # Absent
                        /\ run' = [run EXCEPT !.pc = "resolve", !.v = v, !.inl = i, !.det = e, !.todo = ToResolve(v)]
    BY <1>4 DEF FetchRelease
  <2>2. PICK v, i, e : v # Absent /\ run' = [run EXCEPT !.pc = "resolve", !.v = v, !.inl = i, !.det = e, !.todo = ToResolve(v)]
    BY <2>1
  <2>3. ToResolve(v) \subseteq Selection(v)
    BY DEF ToResolve
  <2>4. /\ run'.op = run.op /\ run'.pc = "resolve" /\ run'.v = v /\ run'.files = run.files
        /\ run'.todo = ToResolve(v) /\ run'.oldv = run.oldv /\ run'.oldfiles = run.oldfiles
    BY <1>a, <2>2 DEF RunState
  <2>5. run.files = {}
    BY <1>a, <2>1 DEF Shape
  <2>6. run.op \in {"plan", "sync"}
    BY <1>a, <2>1 DEF Shape, RunState
  <2> QED BY <1>a, <1>d, <2>1, <2>2, <2>3, <2>4, <2>5, <2>6 DEF Shape
<1>5. ASSUME config' = config, run.pc \notin {"idle", "fetch"}, run'.pc \notin {"idle", "fetch"},
             run'.op = run.op, run'.v = run.v, run'.oldv = run.oldv, run'.oldfiles = run.oldfiles,
             run'.files \cup run'.todo \subseteq run.files \cup run.todo,
             run.op = "plan" => run'.pc \in {"resolve", "prepare"},
             run.op = "sync" => run'.pc \notin {"reread", "repair"},
             run.op = "verify" => run'.pc \in {"indexes", "byhash", "reread", "repair"},
             run.op = "prune" => run'.pc = "walk"
      PROVE  Goal
  BY <1>a, <1>b, <1>d, <1>5 DEF Shape
<1>6. ASSUME NEW c \in Canon, ResolveFound(c) \/ ResolveMissing(c) \/ EnsureIndex(c) \/ Materialize(c) PROVE Goal
  <2>1. /\ config' = config /\ run.pc \notin {"idle", "fetch"} /\ c \in run.todo
        /\ \/ run' = [run EXCEPT !.todo = @ \ {c}, !.files = @ \cup {c}]
           \/ run' = [run EXCEPT !.todo = @ \ {c}]
    BY <1>6 DEF ResolveFound, ResolveMissing, EnsureIndex, Materialize
  <2>2. /\ run'.pc = run.pc /\ run'.op = run.op /\ run'.v = run.v
        /\ run'.oldv = run.oldv /\ run'.oldfiles = run.oldfiles
        /\ run'.todo = run.todo \ {c}
        /\ run'.files = run.files \/ run'.files = run.files \cup {c}
    BY <1>a, <2>1 DEF RunState
  <2>3. run'.files \cup run'.todo \subseteq run.files \cup run.todo
    BY <2>1, <2>2
  <2>4. /\ run.op = "plan" => run.pc \in {"resolve", "prepare"}
        /\ run.op = "sync" => run.pc \notin {"reread", "repair"}
        /\ run.op = "verify" => run.pc \in {"indexes", "byhash", "reread", "repair"}
        /\ run.op = "prune" => run.pc = "walk"
    BY <1>a, <2>1 DEF Shape
  <2> QED BY <1>5, <2>1, <2>2, <2>3, <2>4
<1>7. ASSUME config' = config, run.pc \notin {"idle", "fetch"},
             NEW pc \in {"resolve", "preserve", "payloads", "indexes", "byhash", "prepare", "release",
                         "inline", "signature", "commit", "history", "reread", "repair", "walk"},
             NEW todo \in SUBSET (run.files \cup run.todo), NEW files \in SUBSET run.files, NEW pkgs, NEW gens,
             run' = [run EXCEPT !.pc = pc, !.todo = todo, !.files = files, !.pkgs = pkgs, !.gens = gens],
             run.op = "plan" => pc \in {"resolve", "prepare"},
             run.op = "sync" => pc \notin {"reread", "repair"},
             run.op = "verify" => pc \in {"indexes", "byhash", "reread", "repair"},
             run.op = "prune" => pc = "walk"
      PROVE  Goal
  <2>1. /\ run'.pc = pc /\ run'.op = run.op /\ run'.v = run.v
        /\ run'.oldv = run.oldv /\ run'.oldfiles = run.oldfiles
        /\ run'.todo = todo /\ run'.files = files
    BY <1>a, <1>7 DEF RunState
  <2> QED BY <1>5, <1>7, <2>1
<1>e. run = [run EXCEPT !.todo = run.todo, !.files = run.files, !.pkgs = run.pkgs, !.gens = run.gens]
  BY <1>a DEF RunState
<1>f. run.op \in {"none", "plan", "sync", "verify", "prune"}
  BY <1>a DEF RunState
<1> HIDE DEF Goal
<1>8. ASSUME ResolveReturns PROVE Goal
  <2> DEFINE pc == IF run.op = "plan" THEN "prepare" ELSE "preserve"
             files == IF run.todo # {} THEN {} ELSE run.files
  <2>1. /\ config' = config /\ run.pc = "resolve"
        /\ run' = [run EXCEPT !.pc = pc, !.todo = {}, !.files = files, !.pkgs = run.pkgs, !.gens = run.gens]
    BY <1>8, <1>a DEF ResolveReturns, RunState
  <2>2. run.op \in {"plan", "sync"}
    BY <1>a, <1>f, <2>1 DEF Shape
  <2>3. files \in SUBSET run.files /\ {} \in SUBSET (run.files \cup run.todo)
    OBVIOUS
  <2>4. pc \in {"prepare", "preserve"} /\ (run.op = "plan" => pc = "prepare")
    OBVIOUS
  <2> HIDE DEF pc, files
  <2> QED BY <1>7, <2>1, <2>2, <2>3, <2>4
<1>9. ASSUME Preserve PROVE Goal
  <2>1. /\ config' = config /\ run.pc = "preserve"
        /\ run' = [run EXCEPT !.pc = "payloads", !.todo = run.todo, !.files = run.files,
                              !.pkgs = Named(run.v, run.files), !.gens = run.gens]
    BY <1>9, <1>a DEF Preserve, RunState
  <2>2. run.op = "sync"
    BY <1>a, <1>f, <2>1 DEF Shape
  <2> QED BY <1>7, <2>1, <2>2
<1>10. ASSUME NEW p \in Payloads, EnsurePayload(p) PROVE Goal
  <2>1. /\ config' = config /\ run.pc \in {"payloads", "repair"}
        /\ run' = [run EXCEPT !.pc = run.pc, !.todo = run.todo, !.files = run.files,
                              !.pkgs = run.pkgs \ {p}, !.gens = run.gens]
    BY <1>10, <1>a DEF EnsurePayload, RunState
  <2>2. (run.pc = "payloads" /\ run.op = "sync") \/ (run.pc = "repair" /\ run.op = "verify")
    <3>1. CASE run.pc = "payloads"
      <4>1. run.op = "sync"
        BY <1>a, <1>f, <3>1 DEF Shape
      <4> QED BY <3>1, <4>1
    <3>2. CASE run.pc = "repair"
      BY <1>a, <1>f, <3>2 DEF Shape
    <3> QED BY <2>1, <3>1, <3>2
  <2> QED BY <1>7, <2>1, <2>2
<1>11. ASSUME PayloadsReturn PROVE Goal
  <2>1. /\ config' = config /\ run.pc = "payloads"
        /\ run' = [run EXCEPT !.pc = "indexes", !.todo = run.files, !.files = run.files,
                              !.pkgs = {}, !.gens = run.gens]
    BY <1>11, <1>a DEF PayloadsReturn, RunState
  <2>2. run.op = "sync"
    BY <1>a, <1>f, <2>1 DEF Shape
  <2> QED BY <1>7, <2>1, <2>2
<1>12. ASSUME IndexesReturn PROVE Goal
  <2> DEFINE todo == IF ByHash(run.v) THEN run.files ELSE {}
  <2>1. /\ config' = config /\ run.pc = "indexes"
        /\ run' = [run EXCEPT !.pc = "byhash", !.todo = todo, !.files = run.files,
                              !.pkgs = run.pkgs, !.gens = run.gens]
    BY <1>12, <1>a DEF IndexesReturn, RunState
  <2>2. run.op \in {"sync", "verify"}
    BY <1>a, <1>f, <2>1 DEF Shape
  <2>3. todo \in SUBSET (run.files \cup run.todo)
    OBVIOUS
  <2> HIDE DEF todo
  <2> QED BY <1>7, <2>1, <2>2, <2>3
<1>13. ASSUME ByHashDone PROVE Goal
  <2> DEFINE pc == IF run.op = "verify" THEN "reread" ELSE "prepare"
  <2>1. /\ config' = config /\ run.pc = "byhash"
        /\ run' = [run EXCEPT !.pc = pc, !.todo = run.todo, !.files = run.files,
                              !.pkgs = run.pkgs, !.gens = run.gens]
    BY <1>13, <1>a DEF ByHashDone, RunState
  <2>2. run.op \in {"sync", "verify"}
    BY <1>a, <1>f, <2>1 DEF Shape
  <2>3. pc \in {"prepare", "reread"} /\ (run.op = "sync" => pc = "prepare") /\ (run.op = "verify" => pc = "reread")
    OBVIOUS
  <2> HIDE DEF pc
  <2> QED BY <1>7, <2>1, <2>2, <2>3
<1>14. ASSUME Reread PROVE Goal
  <2>1. /\ config' = config /\ run.pc = "reread"
        /\ run' = [run EXCEPT !.pc = "repair", !.todo = run.todo, !.files = run.files,
                              !.pkgs = Named(run.v, run.files), !.gens = run.gens]
    BY <1>14, <1>a DEF Reread, RunState
  <2>2. run.op = "verify"
    BY <1>a, <1>f, <2>1 DEF Shape
  <2> QED BY <1>7, <2>1, <2>2
<1>15. ASSUME Prepare \/ PublishRelease \/ PublishInRelease \/ PublishSignature \/ Commit PROVE Goal
  <2>1. \/ run' = Idle
        \/ \E pc \in {"release", "inline", "signature", "commit", "history"} :
             run' = [run EXCEPT !.pc = pc, !.todo = run.todo, !.files = run.files,
                                !.pkgs = run.pkgs, !.gens = run.gens] /\ run.op # "plan"
    <3>1. CASE Prepare
      BY <3>1, <1>a DEF Prepare, RunState
    <3>2. CASE ~Prepare
      <4>1. run.op # "plan"
        BY <1>15, <3>2, <1>a DEF Shape, PublishRelease, PublishInRelease, PublishSignature, Commit
      <4>2. \E pc \in {"release", "inline", "signature", "commit", "history"} : run' = [run EXCEPT !.pc = pc]
        BY <1>15, <3>2 DEF PublishRelease, PublishInRelease, PublishSignature, Commit
      <4>3. PICK pc \in {"release", "inline", "signature", "commit", "history"} : run' = [run EXCEPT !.pc = pc]
        BY <4>2
      <4>4. run' = [run EXCEPT !.pc = pc, !.todo = run.todo, !.files = run.files,
                                !.pkgs = run.pkgs, !.gens = run.gens]
        BY <1>a, <4>3 DEF RunState
      <4> QED BY <4>1, <4>4
    <3> QED BY <3>1, <3>2
  <2>2. config' = config /\ run.pc \in {"prepare", "release", "inline", "signature", "commit"}
    BY <1>15 DEF Prepare, PublishRelease, PublishInRelease, PublishSignature, Commit
  <2>3. run.op \in {"plan", "sync"}
    BY <1>a, <1>f, <2>2 DEF Shape
  <2>4. CASE run' = Idle
    BY <1>1, <2>4
  <2>5. ASSUME NEW pc \in {"release", "inline", "signature", "commit", "history"},
               run' = [run EXCEPT !.pc = pc, !.todo = run.todo, !.files = run.files,
                                  !.pkgs = run.pkgs, !.gens = run.gens], run.op # "plan"
        PROVE  Goal
    BY <1>7, <2>2, <2>3, <2>5
  <2> QED BY <2>1, <2>4, <2>5
<1>16. ASSUME WriteHistory PROVE Goal
  <2>1. /\ config' = config /\ run.pc = "history"
        /\ run' = [run EXCEPT !.pc = "walk", !.todo = run.todo, !.files = run.files,
                              !.pkgs = run.pkgs, !.gens = UpdateHistory(run.gens, run.v, run.files)]
    BY <1>16, <1>a DEF WriteHistory, RunState
  <2>2. run.op = "sync"
    BY <1>a, <1>f, <2>1 DEF Shape
  <2> QED BY <1>7, <2>1, <2>2
<1>17. ASSUME run' = run, config' = config \/ run.pc = "idle" PROVE Goal
  <2>1. CASE config' = config
    BY <1>a, <1>b, <1>d, <1>17, <2>1 DEF Shape, Goal
  <2>2. CASE run.pc = "idle"
    BY <1>a, <1>1, <1>17, <2>2 DEF Shape
  <2> QED BY <1>17, <2>1, <2>2
<1>18. OpFails \/ VerifyReturns \/ PruneReturns => run' = Idle
  BY DEF OpFails, VerifyReturns, PruneReturns, Finish
<1>19. \/ run' = run /\ (config' = config \/ run.pc = "idle")
       \/ run' = Idle
       \/ BeginSync \/ BeginPlan \/ BeginVerify \/ BeginPrune
       \/ \E a, b, d \in Versions : FetchRelease(a, b, d)
       \/ \E c \in Canon : ResolveFound(c) \/ ResolveMissing(c) \/ EnsureIndex(c) \/ Materialize(c)
       \/ \E p \in Payloads : EnsurePayload(p)
       \/ ResolveReturns \/ Preserve \/ PayloadsReturn \/ IndexesReturn \/ ByHashDone \/ Reread
       \/ Prepare \/ PublishRelease \/ PublishInRelease \/ PublishSignature \/ Commit \/ WriteHistory
  BY <1>18 DEF Next, PrunePayload, PruneForm, PruneIndex, PruneByHash,
     StagingLost, HistoryDamaged, ManifestDamaged, ManifestUpgraded, Reconfigure
<1>20. Goal
  BY <1>1, <1>2, <1>3, <1>4, <1>6, <1>8, <1>9, <1>10, <1>11, <1>12, <1>13, <1>14, <1>15, <1>16, <1>17, <1>19
<1> QED BY <1>20 DEF Goal

(* Every step keeps Control. *)
LEMMA StepControl ==
  ASSUME TypeOK, Control, Next
  PROVE  Control'
<1>1. Shape' /\ (manifest.st = "corrupt" => run'.pc \in {"idle", "fetch"})
  BY StepShape
<1>2. Manifests'
  BY <1>1, StepManifests DEF Manifests
<1> QED BY <1>1, <1>2 DEF Control

-----------------------------------------------------------------------------
(* What the steps have in common. *)

(* Which operation has a step. *)
LEMMA Ops ==
  ASSUME TypeOK, Control
  PROVE  /\ run.pc \in {"fetch", "resolve", "prepare"} => run.op \in {"plan", "sync"}
         /\ run.pc \in {"preserve", "payloads", "release", "inline", "signature", "commit", "history"} =>
              run.op = "sync"
         /\ run.pc \in {"indexes", "byhash"} => run.op \in {"sync", "verify"}
         /\ run.pc \in {"reread", "repair"} => run.op = "verify"
         /\ run.pc = "walk" => run.op \in {"sync", "prune"}
         /\ run.pc = "idle" <=> run.op = "none"
<1>1. run.op \in {"none", "plan", "sync", "verify", "prune"}
  BY DEF TypeOK, RunState
<1>2. Shape
  BY DEF Control
<1>3. run.pc = "idle" => run.op = "none"
  BY <1>2 DEF Shape, Idle
<1> QED BY <1>1, <1>2, <1>3 DEF Shape

(* The operation goes on: only its step and what is left to do change. *)
Continues ==
  /\ run'.op = run.op /\ run'.v = run.v /\ run'.inl = run.inl /\ run'.det = run.det
  /\ run'.oldv = run.oldv /\ run'.oldfiles = run.oldfiles
  /\ run'.protect = run.protect /\ run'.lost = run.lost

(* The steps that handle one file go on with the same operation.          *)
LEMMA Continue ==
  ASSUME TypeOK
  PROVE  /\ \A c \in Canon : ResolveFound(c) => Continues /\ run'.pc = run.pc /\ run'.gens = run.gens
              /\ run'.pkgs = run.pkgs /\ run'.todo = run.todo \ {c} /\ run'.files = run.files \cup {c}
         /\ \A c \in Canon : ResolveMissing(c) \/ EnsureIndex(c) \/ Materialize(c) =>
              Continues /\ run'.pc = run.pc /\ run'.gens = run.gens
              /\ run'.pkgs = run.pkgs /\ run'.todo = run.todo \ {c} /\ run'.files = run.files
         /\ \A p \in Payloads : EnsurePayload(p) =>
              Continues /\ run'.pc = run.pc /\ run'.gens = run.gens
              /\ run'.pkgs = run.pkgs \ {p} /\ run'.todo = run.todo /\ run'.files = run.files
<1>1. run \in RunState
  BY DEF TypeOK
<1>2. ASSUME NEW c \in Canon, ResolveFound(c)
      PROVE  Continues /\ run'.pc = run.pc /\ run'.gens = run.gens
             /\ run'.pkgs = run.pkgs /\ run'.todo = run.todo \ {c} /\ run'.files = run.files \cup {c}
  <2>1. run' = [run EXCEPT !.todo = @ \ {c}, !.files = @ \cup {c}]
    BY <1>2 DEF ResolveFound
  <2> QED BY <1>1, <2>1 DEF RunState, Continues
<1>3. ASSUME NEW c \in Canon, ResolveMissing(c) \/ EnsureIndex(c) \/ Materialize(c)
      PROVE  Continues /\ run'.pc = run.pc /\ run'.gens = run.gens
             /\ run'.pkgs = run.pkgs /\ run'.todo = run.todo \ {c} /\ run'.files = run.files
  <2>1. run' = [run EXCEPT !.todo = @ \ {c}]
    BY <1>3 DEF ResolveMissing, EnsureIndex, Materialize
  <2> QED BY <1>1, <2>1 DEF RunState, Continues
<1>4. ASSUME NEW p \in Payloads, EnsurePayload(p)
      PROVE  Continues /\ run'.pc = run.pc /\ run'.gens = run.gens
             /\ run'.pkgs = run.pkgs \ {p} /\ run'.todo = run.todo /\ run'.files = run.files
  <2>1. run' = [run EXCEPT !.pkgs = @ \ {p}]
    BY <1>4 DEF EnsurePayload
  <2> QED BY <1>1, <2>1 DEF RunState, Continues
<1> QED BY <1>2, <1>3, <1>4

(* So do the steps between two pool calls: they say what the next one     *)
(* gets.                                                                  *)
LEMMA ContinueOn ==
  ASSUME TypeOK
  PROVE  /\ ResolveReturns => Continues /\ run'.pc = (IF run.op = "plan" THEN "prepare" ELSE "preserve")
              /\ run'.gens = run.gens /\ run'.todo = {} /\ run'.files = (IF run.todo # {} THEN {} ELSE run.files)
         /\ Preserve => Continues /\ run'.pc = "payloads" /\ run'.gens = run.gens
              /\ run'.pkgs = Named(run.v, run.files) /\ run'.files = run.files
         /\ PayloadsReturn => Continues /\ run'.pc = "indexes" /\ run'.gens = run.gens
              /\ run'.todo = run.files /\ run'.files = run.files
         /\ IndexesReturn => Continues /\ run'.pc = "byhash" /\ run'.gens = run.gens
              /\ run'.todo = (IF ByHash(run.v) THEN run.files ELSE {}) /\ run'.files = run.files
         /\ ByHashDone => Continues /\ run'.pc = (IF run.op = "verify" THEN "reread" ELSE "prepare")
              /\ run'.gens = run.gens /\ run'.files = run.files
         /\ Reread => Continues /\ run'.pc = "repair" /\ run'.gens = run.gens /\ run'.files = run.files
<1>1. run \in RunState
  BY DEF TypeOK
<1>2. ASSUME ResolveReturns
      PROVE  Continues /\ run'.pc = (IF run.op = "plan" THEN "prepare" ELSE "preserve")
              /\ run'.gens = run.gens /\ run'.todo = {} /\ run'.files = (IF run.todo # {} THEN {} ELSE run.files)
  BY <1>1, <1>2 DEF RunState, Continues, ResolveReturns
<1>3. ASSUME Preserve
      PROVE  Continues /\ run'.pc = "payloads" /\ run'.gens = run.gens
              /\ run'.pkgs = Named(run.v, run.files) /\ run'.files = run.files
  BY <1>1, <1>3 DEF RunState, Continues, Preserve
<1>4. ASSUME PayloadsReturn
      PROVE  Continues /\ run'.pc = "indexes" /\ run'.gens = run.gens
              /\ run'.todo = run.files /\ run'.files = run.files
  BY <1>1, <1>4 DEF RunState, Continues, PayloadsReturn
<1>5. ASSUME IndexesReturn
      PROVE  Continues /\ run'.pc = "byhash" /\ run'.gens = run.gens
              /\ run'.todo = (IF ByHash(run.v) THEN run.files ELSE {}) /\ run'.files = run.files
  BY <1>1, <1>5 DEF RunState, Continues, IndexesReturn
<1>6. ASSUME ByHashDone
      PROVE  Continues /\ run'.pc = (IF run.op = "verify" THEN "reread" ELSE "prepare")
              /\ run'.gens = run.gens /\ run'.files = run.files
  BY <1>1, <1>6 DEF RunState, Continues, ByHashDone
<1>7. ASSUME Reread
      PROVE  Continues /\ run'.pc = "repair" /\ run'.gens = run.gens /\ run'.files = run.files
  BY <1>1, <1>7 DEF RunState, Continues, Reread
<1> QED BY <1>2, <1>3, <1>4, <1>5, <1>6, <1>7

(* So do the steps that publish. *)
LEMMA ContinuePublish ==
  ASSUME TypeOK, Control
  PROVE  /\ Prepare => \/ run.op = "plan" /\ run' = Idle
                       \/ run.op = "sync" /\ Continues /\ run'.pc = "release" /\ run'.gens = run.gens /\ run'.files = run.files
         /\ PublishRelease => Continues /\ run'.pc = "inline" /\ run'.gens = run.gens /\ run'.files = run.files
         /\ PublishInRelease => Continues /\ run'.pc = "signature" /\ run'.gens = run.gens /\ run'.files = run.files
         /\ PublishSignature => Continues /\ run'.pc = "commit" /\ run'.gens = run.gens /\ run'.files = run.files
         /\ Commit => Continues /\ run'.pc = "history" /\ run'.gens = run.gens /\ run'.files = run.files
         /\ WriteHistory => Continues /\ run'.pc = "walk" /\ run'.files = run.files
              /\ run'.gens = UpdateHistory(run.gens, run.v, run.files)
<1>1. run \in RunState
  BY DEF TypeOK
<1>2. ASSUME Prepare
      PROVE  \/ run.op = "plan" /\ run' = Idle
             \/ run.op = "sync" /\ Continues /\ run'.pc = "release" /\ run'.gens = run.gens /\ run'.files = run.files
  <2>1. run.op \in {"plan", "sync"}
    BY <1>2, Ops DEF Prepare
  <2>2. CASE run.op = "plan"
    BY <1>2, <2>2 DEF Prepare
  <2>3. CASE run.op = "sync"
    <3>1. run' = [run EXCEPT !.pc = "release"]
      BY <1>2, <2>3 DEF Prepare
    <3> QED BY <1>1, <2>3, <3>1 DEF RunState, Continues
  <2> QED BY <2>1, <2>2, <2>3
<1>3. ASSUME PublishRelease
      PROVE  Continues /\ run'.pc = "inline" /\ run'.gens = run.gens /\ run'.files = run.files
  BY <1>1, <1>3 DEF RunState, Continues, PublishRelease
<1>4. ASSUME PublishInRelease
      PROVE  Continues /\ run'.pc = "signature" /\ run'.gens = run.gens /\ run'.files = run.files
  BY <1>1, <1>4 DEF RunState, Continues, PublishInRelease
<1>5. ASSUME PublishSignature
      PROVE  Continues /\ run'.pc = "commit" /\ run'.gens = run.gens /\ run'.files = run.files
  BY <1>1, <1>5 DEF RunState, Continues, PublishSignature
<1>6. ASSUME Commit
      PROVE  Continues /\ run'.pc = "history" /\ run'.gens = run.gens /\ run'.files = run.files
  BY <1>1, <1>6 DEF RunState, Continues, Commit
<1>7. ASSUME WriteHistory
      PROVE  Continues /\ run'.pc = "walk" /\ run'.files = run.files
              /\ run'.gens = UpdateHistory(run.gens, run.v, run.files)
  <2> DEFINE g == UpdateHistory(run.gens, run.v, run.files)
  <2>1. run' = [run EXCEPT !.pc = "walk", !.gens = g]
    BY <1>7 DEF WriteHistory
  <2> HIDE DEF g
  <2>2. Continues /\ run'.pc = "walk" /\ run'.files = run.files /\ run'.gens = g
    BY <1>1, <2>1 DEF RunState, Continues
  <2> QED BY <2>2 DEF g
<1> QED BY <1>2, <1>3, <1>4, <1>5, <1>6, <1>7

(* An InRelease drives, else the two detached parts have to agree. *)
LEMMA SelectedForm ==
  ASSUME NEW in, NEW rel, NEW sg
  PROVE  /\ Selected(in, rel, sg).v = IF in # Absent THEN in ELSE IF rel # Absent /\ rel = sg THEN rel ELSE Absent
         /\ Selected(in, rel, sg).inl = (in # Absent)
         /\ Selected(in, rel, sg).det = (rel # Absent /\ rel = sg /\ (in # Absent => rel = in))
BY DEF Selected

(* The operation fetches: a Release at least as new as any served before. *)
LEMMA Fetching ==
  ASSUME TypeOK, NEW a \in Versions, NEW b \in Versions, NEW d \in Versions, FetchRelease(a, b, d)
  PROVE  /\ run'.op = run.op /\ run'.pc = "resolve" /\ run'.gens = run.gens /\ run'.files = run.files
         /\ run'.oldv = run.oldv /\ run'.oldfiles = run.oldfiles
         /\ run'.protect = run.protect /\ run'.lost = run.lost
         /\ run'.v \in Versions /\ run'.todo = ToResolve(run'.v)
         /\ seen <= run'.v /\ run'.v <= seen'
         /\ run'.inl \/ run'.det
         /\ run'.inl => "inline" \in Forms(run'.v)
         /\ ~run'.inl => "inline" \notin Forms(a) /\ seen <= a
<1> DEFINE form == Selected(IF "inline" \in Forms(a) THEN a ELSE Absent,
                            IF "detached" \in Forms(b) THEN b ELSE Absent,
                            IF "detached" \in Forms(d) THEN d ELSE Absent)
           v == form.v
           i == form.inl
           e == form.det
<1>1. /\ run' = [run EXCEPT !.pc = "resolve", !.v = v, !.inl = i, !.det = e, !.todo = ToResolve(v)]
      /\ v # Absent /\ seen <= a /\ a <= b /\ b <= d /\ seen' = d
  BY DEF FetchRelease
<1>2. /\ i <=> "inline" \in Forms(a)
      /\ i => v = a
      /\ ~i /\ v # Absent => v = b /\ e
  <2>1. a # Absent
    BY DEF Absent, Versions
  <2>2. CASE "inline" \in Forms(a)
    <3>1. i = (a # Absent)
      BY <2>2, SelectedForm
    <3>2. v = IF a # Absent THEN a ELSE IF (IF "detached" \in Forms(b) THEN b ELSE Absent) # Absent
                /\ (IF "detached" \in Forms(b) THEN b ELSE Absent) = (IF "detached" \in Forms(d) THEN d ELSE Absent)
                THEN (IF "detached" \in Forms(b) THEN b ELSE Absent) ELSE Absent
      BY <2>2, SelectedForm
    <3> HIDE DEF v, i
    <3> QED BY <2>1, <2>2, <3>1, <3>2
  <2>3. CASE "inline" \notin Forms(a)
    <3> DEFINE y == IF "detached" \in Forms(b) THEN b ELSE Absent
               z == IF "detached" \in Forms(d) THEN d ELSE Absent
    <3>1. i = (Absent # Absent)
      BY <2>3, SelectedForm
    <3>2. v = IF y # Absent /\ y = z THEN y ELSE Absent
      BY <2>3, SelectedForm
    <3>3. e <=> y # Absent /\ y = z
      BY <2>3, SelectedForm
    <3>4. y # Absent => y = b
      OBVIOUS
    <3> HIDE DEF y, z, v, e, i
    <3> QED BY <2>3, <3>1, <3>2, <3>3, <3>4
  <2> QED BY <2>2, <2>3
<1> HIDE DEF v, i, e
<1>3. /\ run'.op = run.op /\ run'.pc = "resolve" /\ run'.gens = run.gens /\ run'.files = run.files
      /\ run'.oldv = run.oldv /\ run'.oldfiles = run.oldfiles
      /\ run'.protect = run.protect /\ run'.lost = run.lost
      /\ run'.v = v /\ run'.inl = i /\ run'.det = e /\ run'.todo = ToResolve(v)
  BY <1>1 DEF TypeOK, RunState
<1>4. seen \in Int /\ a \in Int /\ b \in Int /\ d \in Int
  BY DEF TypeOK, Versions
<1>5. v \in Versions /\ seen <= v /\ v <= d
  <2>1. v = a \/ v = b
    BY <1>1, <1>2
  <2> QED BY <1>1, <1>4, <2>1
<1>6. /\ i \/ e
      /\ i => "inline" \in Forms(v)
      /\ ~i => "inline" \notin Forms(a)
  BY <1>1, <1>2
<1> QED BY <1>1, <1>3, <1>5, <1>6

(* How an operation begins. *)
LEMMA Beginning ==
  /\ BeginSync => /\ run'.op = "sync" /\ run'.pc = "fetch" /\ run'.files = {} /\ run'.todo = {}
                  /\ run'.gens = (IF Readable THEN UpdateHistory(history.gens, Served, PublishedFiles) ELSE history.gens)
                  /\ run'.lost = (history.st = "corrupt")
                  /\ run'.protect = (history.st = "corrupt" \/ (~Readable /\ (inRelease # Absent \/ release # Absent)))
  /\ BeginPlan => /\ run'.op = "plan" /\ run'.pc = "fetch" /\ run'.files = {} /\ run'.todo = {} /\ run'.lost = FALSE
  /\ BeginVerify => /\ run'.op = "verify" /\ run'.pc = "indexes" /\ run'.lost = FALSE
                    /\ run'.v = Served /\ run'.files = PublishedFiles /\ Readable
  /\ BeginPrune => /\ run'.op = "prune" /\ run'.pc = "walk" /\ run'.lost = FALSE
                   /\ run'.v = Served /\ run'.files = PublishedFiles /\ Readable
                   /\ run'.gens = history'.gens /\ run'.protect = (history'.st = "corrupt")
<1>1. ASSUME BeginSync
      PROVE  /\ run'.op = "sync" /\ run'.pc = "fetch" /\ run'.files = {} /\ run'.todo = {}
             /\ run'.gens = (IF Readable THEN UpdateHistory(history.gens, Served, PublishedFiles) ELSE history.gens)
             /\ run'.lost = (history.st = "corrupt")
             /\ run'.protect = (history.st = "corrupt" \/ (~Readable /\ (inRelease # Absent \/ release # Absent)))
  BY <1>1 DEF BeginSync, Idle
<1>2. ASSUME BeginPlan
      PROVE  /\ run'.op = "plan" /\ run'.pc = "fetch" /\ run'.files = {} /\ run'.todo = {} /\ run'.lost = FALSE
  BY <1>2 DEF BeginPlan, Idle
<1>3. ASSUME BeginVerify
      PROVE  /\ run'.op = "verify" /\ run'.pc = "indexes" /\ run'.lost = FALSE
             /\ run'.v = Served /\ run'.files = PublishedFiles /\ Readable
  BY <1>3 DEF BeginVerify, Idle
<1>4. ASSUME BeginPrune
      PROVE  /\ run'.op = "prune" /\ run'.pc = "walk" /\ run'.lost = FALSE
             /\ run'.v = Served /\ run'.files = PublishedFiles /\ Readable
             /\ run'.gens = history'.gens /\ run'.protect = (history'.st = "corrupt")
  BY <1>4 DEF BeginPrune, Idle
<1> QED BY <1>1, <1>2, <1>3, <1>4

(* An operation that ends leaves no trace in run. *)
LEMMA Ending ==
  /\ OpFails \/ VerifyReturns \/ PruneReturns => run' = Idle
  /\ run' = Idle => run'.op = "none" /\ run'.pc = "idle" /\ run'.lost = FALSE
BY DEF OpFails, VerifyReturns, PruneReturns, Finish, Idle

(* When upstream serves more, what it has served all along shrinks. *)
LEMMA SteadyShrinks ==
  ASSUME TypeOK, Control, Next, NEW v \in Versions
  PROVE  Steady(v)' \subseteq Steady(v)
<1>1. seen \in Versions /\ seen' \in Versions /\ seen <= seen'
  BY StepEnv DEF TypeOK
<1>2. v..seen \subseteq v..seen'
  BY <1>1 DEF Versions
<1> QED BY <1>2 DEF Steady

(* The Release that clients find, spelled out for both states. *)
LEMMA ServedIs ==
  /\ Served = IF inRelease # Absent THEN inRelease
              ELSE IF release # Absent /\ release = sig THEN release ELSE Absent
  /\ Served' = IF inRelease' # Absent THEN inRelease'
               ELSE IF release' # Absent /\ release' = sig' THEN release' ELSE Absent
BY DEF Served, Selected

(* Upstream does not change; nor do the files that say what is published,  *)
(* except in four steps.                                                   *)
LEMMA Frame ==
  ASSUME TypeOK, Control, Next
  PROVE  /\ \A v : Forms(v)' = Forms(v) /\ ByHash(v)' = ByHash(v)
         /\ KeepsInRelease' = KeepsInRelease
         /\ AllInline' = AllInline
         /\ \A v, files : ByHashFiles(v, files)' = ByHashFiles(v, files)
         /\ UNCHANGED served => Served' = Served
         /\ config' = config => \A v : Selection(v)' = Selection(v)
         /\ Renames \/ PruneForm \/ UNCHANGED served
<1>1. upstream' = upstream
  BY Changes
<1>2. \A v : Forms(v)' = Forms(v) /\ ByHash(v)' = ByHash(v)
  BY <1>1 DEF Forms, ByHash
<1>3. KeepsInRelease' = KeepsInRelease /\ AllInline' = AllInline
  BY <1>1 DEF KeepsInRelease, AllInline, Forms
<1>4. \A v, files : ByHashFiles(v, files)' = ByHashFiles(v, files)
  BY <1>1 DEF ByHashFiles, ByHash
<1>5. UNCHANGED served => Served' = Served
  BY DEF served, Served
<1>6. config' = config => \A v : Selection(v)' = Selection(v)
  BY DEF Selection
<1> QED BY <1>2, <1>3, <1>4, <1>5, <1>6, Changes

(* How an operation proceeds: it begins, fetches, publishes, ends, or goes *)
(* on without publishing.                                                  *)
Middle == {"resolve", "preserve", "payloads", "indexes", "byhash", "reread", "prepare", "repair"}

LEMMA Proceeds ==
  ASSUME TypeOK, Control, Next
  PROVE  \/ run' = Idle /\ UNCHANGED served
         \/ BeginSync \/ BeginPlan \/ BeginVerify \/ BeginPrune
         \/ \E a, b, d \in Versions : FetchRelease(a, b, d)
         \/ PublishRelease \/ PublishInRelease \/ PublishSignature \/ PruneForm
         \/ /\ UNCHANGED served /\ Continues
            /\ \/ run'.pc = run.pc
               \/ run.pc \in Middle /\ run'.pc \in Middle \cup {"release"}
               \/ run.pc \in After /\ run'.pc \in After
<1>1. ASSUME NEW c \in Canon, ResolveFound(c) \/ ResolveMissing(c) \/ EnsureIndex(c) \/ Materialize(c)
      PROVE  UNCHANGED served /\ Continues /\ run'.pc = run.pc
  BY <1>1, Continue DEF ResolveFound, ResolveMissing, EnsureIndex, Materialize
<1>2. ASSUME NEW p \in Payloads, EnsurePayload(p)
      PROVE  UNCHANGED served /\ Continues /\ run'.pc = run.pc
  BY <1>2, Continue DEF EnsurePayload
<1>3. ASSUME ResolveReturns \/ Preserve \/ PayloadsReturn \/ IndexesReturn \/ ByHashDone \/ Reread
      PROVE  UNCHANGED served /\ Continues /\ run.pc \in Middle /\ run'.pc \in Middle
  BY <1>3, ContinueOn DEF ResolveReturns, Preserve, PayloadsReturn, IndexesReturn, ByHashDone, Reread, Middle
<1>4. ASSUME Prepare
      PROVE  /\ UNCHANGED served
             /\ run' = Idle \/ (Continues /\ run.pc \in Middle /\ run'.pc \in Middle \cup {"release"})
  BY <1>4, ContinuePublish DEF Prepare, Middle
<1>5. ASSUME Commit \/ WriteHistory
      PROVE  UNCHANGED served /\ Continues /\ run.pc \in After /\ run'.pc \in After
  BY <1>5, ContinuePublish DEF Commit, WriteHistory, After
<1>6. ASSUME run' = run, UNCHANGED served
      PROVE  UNCHANGED served /\ Continues /\ run'.pc = run.pc
  BY <1>6 DEF Continues
<1>7. ASSUME NEW p \in Payloads, PrunePayload(p) PROVE run' = run /\ UNCHANGED served
  BY <1>7 DEF PrunePayload
<1>8. ASSUME NEW c \in Canon, PruneIndex(c) PROVE run' = run /\ UNCHANGED served
  BY <1>8 DEF PruneIndex
<1>9. ASSUME NEW h \in Canon \X Contents, PruneByHash(h) PROVE run' = run /\ UNCHANGED served
  BY <1>9 DEF PruneByHash
<1>10. ASSUME NEW s \in Configs, Reconfigure(s) PROVE run' = run /\ UNCHANGED served
  BY <1>10 DEF Reconfigure
<1>11. ASSUME StagingLost \/ HistoryDamaged \/ ManifestDamaged \/ ManifestUpgraded
       PROVE  run' = run /\ UNCHANGED served
  BY <1>11 DEF StagingLost, HistoryDamaged, ManifestDamaged, ManifestUpgraded
<1>12. ASSUME OpFails \/ VerifyReturns \/ PruneReturns
       PROVE  run' = Idle /\ UNCHANGED served
  BY <1>12 DEF OpFails, VerifyReturns, PruneReturns, Finish
<1> QED BY <1>1, <1>2, <1>3, <1>4, <1>5, <1>6, <1>7, <1>8, <1>9, <1>10, <1>11, <1>12 DEF Next

(* Every step keeps Placed: Releases are published in the order in which  *)
(* upstream made them, in both forms alike.                               *)
LEMMA StepPlaced ==
  ASSUME TypeOK, Control, Placed, Next
  PROVE  Placed'
<1>a. /\ seen \in Int /\ seen' \in Int /\ seen <= seen'
      /\ \A r \in {inRelease, release, sig} : r \in Int /\ r <= seen
      /\ Absent \in Int /\ \A v \in Versions : v \in Int /\ Absent <= v /\ v # Absent
  <2>1. seen \in Versions /\ {inRelease, release, sig} \subseteq Versions \cup {Absent}
    BY DEF TypeOK
  <2>2. seen' \in Versions /\ seen <= seen'
    BY StepEnv
  <2>3. Absent \in Int /\ \A v \in Versions : v \in Int /\ Absent <= v /\ v # Absent
    BY DEF Versions, Absent
  <2> QED BY <2>1, <2>2, <2>3 DEF Placed
<1>b. /\ \A v : Forms(v)' = Forms(v)
      /\ KeepsInRelease' = KeepsInRelease /\ AllInline' = AllInline
      /\ UNCHANGED served => Served' = Served
  BY Frame
<1>c. run.pc \notin {"idle", "fetch"} => run.v \in Versions
  BY RunFacts
<1>d. inRelease # Absent => "inline" \in Forms(inRelease)
  BY DEF Placed
<1>1. ASSUME run' = Idle, UNCHANGED served PROVE Placed'
  BY <1>1, <1>a, <1>b, <1>d DEF Placed, Idle, Fetched, served
<1>2. ASSUME BeginSync \/ BeginPlan PROVE Placed'
  <2>1. run'.op \in {"sync", "plan"} /\ run'.pc = "fetch" /\ UNCHANGED served
    BY <1>2 DEF BeginSync, BeginPlan, Idle
  <2> QED BY <2>1, <1>a, <1>b, <1>d DEF Placed, Fetched, served, After
<1>3. ASSUME BeginVerify PROVE Placed'
  <2>1. run'.op = "verify" /\ run'.v = Served /\ UNCHANGED served
    BY <1>3 DEF BeginVerify, Idle
  <2> QED BY <2>1, <1>a, <1>b, <1>d DEF Placed, Fetched, served
<1>4. ASSUME BeginPrune PROVE Placed'
  <2>1. /\ run'.op = "prune" /\ run'.v = Served /\ UNCHANGED served
        /\ run'.inl = Selected(inRelease, release, sig).inl
        /\ run'.det = Selected(inRelease, release, sig).det
        /\ Served # Absent
    BY <1>4 DEF BeginPrune, Idle, Readable
  <2>2. /\ run'.inl = (inRelease # Absent)
        /\ run'.det = (release # Absent /\ release = sig /\ (inRelease # Absent => release = inRelease))
    BY <2>1, SelectedForm
  <2>3. /\ run'.inl => inRelease = Served
        /\ ~run'.inl => inRelease = Absent /\ release # Absent /\ release = sig /\ release = Served
        /\ run'.det => release = Served /\ sig = Served
    BY <2>1, <2>2, ServedIs
  <2>4. IF run'.inl THEN inRelease = Served ELSE inRelease = Absent /\ run'.det
    BY <2>2, <2>3
  <2> QED BY <2>1, <2>3, <2>4, <1>a, <1>b, <1>d DEF Placed, Fetched, served
<1>5. ASSUME NEW a \in Versions, NEW b \in Versions, NEW d \in Versions, FetchRelease(a, b, d)
      PROVE  Placed'
  <2>1. /\ run'.op = run.op /\ run'.pc = "resolve" /\ run'.v \in Versions
        /\ seen <= run'.v /\ run'.v <= seen'
        /\ run'.inl \/ run'.det
        /\ run'.inl => "inline" \in Forms(run'.v)
        /\ ~run'.inl => "inline" \notin Forms(a) /\ seen <= a
    BY <1>5, Fetching
  <2>2. run.pc = "fetch" /\ UNCHANGED served
    BY <1>5 DEF FetchRelease
  <2>3. run.op \in {"plan", "sync"}
    BY <2>2, Ops
  <2>4. \A r \in {inRelease, release, sig} : r <= run'.v
    BY <1>a, <2>1
  <2>5. KeepsInRelease /\ ~run'.inl => inRelease = Absent
    <3>1. inRelease # Absent => inRelease \in Versions /\ inRelease <= seen
      BY <1>a DEF TypeOK
    <3>2. inRelease # Absent /\ ~run'.inl => inRelease <= a
      BY <1>a, <2>1, <3>1
    <3> QED BY <1>d, <2>1, <3>1, <3>2 DEF KeepsInRelease
  <2>6. AllInline => run'.inl
    BY <2>1 DEF AllInline
  <2> QED BY <2>1, <2>2, <2>3, <2>4, <2>5, <2>6, <1>a, <1>b, <1>d DEF Placed, served, After
<1>6. ASSUME UNCHANGED served, Continues,
             \/ run'.pc = run.pc
             \/ run.pc \in Middle /\ run'.pc \in Middle \cup {"release"}
             \/ run.pc \in After /\ run'.pc \in After
      PROVE  Placed'
  <2>1. /\ run'.pc \in {"inline", "signature"} \cup After => run.pc \in {"inline", "signature"} \cup After
        /\ run'.pc \in {"signature"} \cup After => run.pc \in {"signature"} \cup After
        /\ run'.pc \in After => run.pc \in After
        /\ run'.pc \notin {"idle", "fetch"} => run.pc \notin {"idle", "fetch"}
    BY <1>6 DEF Middle, After
  <2>2. Fetched' => Fetched
    BY <1>6, <2>1 DEF Fetched, Continues
  <2>3. Fetched => run.v <= seen'
    <3>1. Fetched => run.v \in Int /\ run.v <= seen
      BY <1>a, <1>c DEF Fetched, Placed
    <3> QED BY <1>a, <3>1
  <2> QED BY <1>6, <2>1, <2>2, <2>3, <1>a, <1>b, <1>d DEF Placed, Continues, served
<1>7. ASSUME PublishRelease PROVE Placed'
  <2>1. /\ Continues /\ run'.pc = "inline" /\ run.op = "sync" /\ run.pc = "release"
        /\ seen' = seen /\ UNCHANGED <<inRelease, sig>>
        /\ release' = IF run.det THEN run.v ELSE release
    BY <1>7, ContinuePublish, Ops DEF PublishRelease
  <2>2. Fetched /\ run.v \in Versions
    BY <2>1, <1>c DEF Fetched
  <2>3. \A r \in {inRelease', release', sig'} : r <= seen' /\ r <= run.v
    BY <1>a, <2>1, <2>2 DEF Placed
  <2> QED BY <2>1, <2>2, <2>3, <1>a, <1>b, <1>d DEF Placed, Continues, After
<1>8. ASSUME PublishInRelease PROVE Placed'
  <2>1. /\ Continues /\ run'.pc = "signature" /\ run.op = "sync" /\ run.pc = "inline"
        /\ seen' = seen /\ UNCHANGED <<release, sig>>
        /\ inRelease' = IF run.inl THEN run.v ELSE inRelease
    BY <1>8, ContinuePublish, Ops DEF PublishInRelease
  <2>2. Fetched /\ run.v \in Versions
    BY <2>1, <1>c DEF Fetched
  <2>3. \A r \in {inRelease', release', sig'} : r <= seen' /\ r <= run.v
    BY <1>a, <2>1, <2>2 DEF Placed
  <2>4. /\ inRelease' # Absent => "inline" \in Forms(inRelease')
        /\ KeepsInRelease /\ ~run.inl => inRelease' = Absent
    BY <2>1, <2>2, <1>d DEF Placed
  <2> QED BY <2>1, <2>2, <2>3, <2>4, <1>a, <1>b DEF Placed, Continues, After
<1>9. ASSUME PublishSignature PROVE Placed'
  <2>1. /\ Continues /\ run'.pc = "commit" /\ run.op = "sync" /\ run.pc = "signature"
        /\ seen' = seen /\ UNCHANGED <<inRelease, release>>
        /\ sig' = IF run.det THEN run.v ELSE sig
    BY <1>9, ContinuePublish, Ops DEF PublishSignature
  <2>2. Fetched /\ run.v \in Versions
    BY <2>1, <1>c DEF Fetched
  <2>3. \A r \in {inRelease', release', sig'} : r <= seen' /\ r <= run.v
    BY <1>a, <2>1, <2>2 DEF Placed
  <2> QED BY <2>1, <2>2, <2>3, <1>a, <1>b, <1>d DEF Placed, Continues, After
<1>10. ASSUME PruneForm PROVE Placed'
  <2>1. /\ run' = run /\ run.pc = "walk" /\ seen' = seen
        /\ inRelease' = IF run.inl THEN inRelease ELSE Absent
        /\ release' = IF run.det THEN release ELSE Absent
        /\ sig' = IF run.det THEN sig ELSE Absent
    BY <1>10 DEF PruneForm, Pruning
  <2>2. run.op \in {"sync", "prune"} /\ run.v \in Versions /\ (Fetched <=> run.op = "sync")
    BY <2>1, <1>c, Ops DEF Fetched
  <2>3. \A r \in {inRelease', release', sig'} : r <= seen'
    <3>1. Absent <= seen
      BY <1>a DEF TypeOK
    <3>2. {inRelease', release', sig'} \subseteq {inRelease, release, sig, Absent}
      BY <2>1
    <3> QED BY <1>a, <2>1, <3>1, <3>2
  <2>4. CASE run.op = "sync"
    <3>1. \A r \in {inRelease', release', sig'} : r <= run.v
      BY <1>a, <2>1, <2>2, <2>4 DEF Placed
    <3> QED BY <2>1, <2>2, <2>3, <2>4, <3>1, <1>a, <1>b, <1>d DEF Placed, Fetched
  <2>5. CASE run.op = "prune"
    <3>1. /\ run.v = Served
          /\ run.inl => inRelease = run.v
          /\ ~run.inl => inRelease = Absent /\ run.det
          /\ run.det => release = run.v /\ sig = run.v
      BY <2>5 DEF Placed
    <3>2. Served' = run.v
      BY <1>a, <2>1, <2>2, <3>1, ServedIs
    <3>3. ~Fetched'
      BY <2>1, <2>5 DEF Fetched
    <3>4. /\ IF run.inl THEN inRelease' = run.v ELSE inRelease' = Absent /\ run.det
          /\ run.det => release' = run.v /\ sig' = run.v
      BY <2>1, <3>1
    <3> QED BY <2>1, <2>3, <2>5, <3>1, <3>2, <3>3, <3>4, <1>b, <1>d DEF Placed
  <2> QED BY <2>2, <2>4, <2>5
<1> QED BY <1>1, <1>2, <1>3, <1>4, <1>5, <1>6, <1>7, <1>8, <1>9, <1>10, Proceeds

(* Every step keeps InlineFirst: InRelease is renamed before              *)
(* Release.gpg.                                                           *)
LEMMA StepInlineFirst ==
  ASSUME TypeOK, Control, Placed, InlineFirst, Next
  PROVE  InlineFirst'
<1>a. AllInline' = AllInline
  BY Frame
<1>b. run.pc \notin {"idle", "fetch"} => run.v # Absent
  BY RunFacts
<1>1. CASE UNCHANGED served
  BY <1>1, <1>a DEF InlineFirst, served
<1>2. CASE PublishRelease
  BY <1>2, <1>a DEF InlineFirst, PublishRelease
<1>3. CASE PublishInRelease
  BY <1>3, <1>a, <1>b DEF InlineFirst, PublishInRelease
<1>4. CASE PublishSignature
  <2>1. run.pc = "signature" /\ run.op = "sync" /\ inRelease' = inRelease
    BY <1>4, Ops DEF PublishSignature
  <2>2. AllInline => inRelease = run.v
    BY <2>1 DEF Placed, Fetched
  <2> QED BY <1>a, <1>b, <2>1, <2>2 DEF InlineFirst
<1>5. CASE PruneForm
  <2>1. /\ run.pc = "walk"
        /\ inRelease' = IF run.inl THEN inRelease ELSE Absent
        /\ sig' = IF run.det THEN sig ELSE Absent
    BY <1>5 DEF PruneForm, Pruning
  <2>2. run.op \in {"sync", "prune"} /\ run.v # Absent
    BY <1>b, <2>1, Ops
  <2>3. AllInline => run.inl
    <3>1. CASE run.op = "sync"
      BY <2>1, <3>1 DEF Placed, Fetched
    <3>2. CASE run.op = "prune"
      BY <2>2, <3>2 DEF Placed, InlineFirst
    <3> QED BY <2>2, <3>1, <3>2
  <2> QED BY <1>a, <2>1, <2>3 DEF InlineFirst
<1> QED BY <1>1, <1>2, <1>3, <1>4, <1>5, Frame DEF Renames

(* What Prepare writes, record by record. *)
LEMMA RecordedIs ==
  ASSUME TypeOK, Control, run.pc \notin {"idle", "fetch"}
  PROVE  /\ Recorded.st = "valid" /\ Recorded.known = manifest.known \cup {run.v}
         /\ \A v \in Versions \ {run.v} : /\ Recorded.selected[v] = manifest.selected[v]
                                          /\ Recorded.resolved[v] = manifest.resolved[v]
         /\ Recorded.selected[run.v] = manifest.selected[run.v] \cup Selection(run.v)
         /\ Recorded.resolved[run.v] = (manifest.resolved[run.v] \ Selection(run.v)) \cup run.files
<1>1. run.v \in Versions
  BY RunFacts
<1>2. manifest.selected \in [Versions -> SUBSET Canon] /\ manifest.resolved \in [Versions -> SUBSET Canon]
  BY DEF TypeOK
<1> QED BY <1>1, <1>2 DEF Recorded

(* What Commit writes. *)
LEMMA CommittedIs ==
  ASSUME TypeOK, Control, Commit
  PROVE  /\ manifest'.st = "valid" /\ manifest'.known = {run.v}
         /\ \A v \in Versions \ {run.v} : manifest'.selected[v] = {} /\ manifest'.resolved[v] = {}
         /\ manifest'.selected[run.v] = Selection(run.v) /\ manifest'.resolved[run.v] = run.files
<1>1. run.v \in Versions
  BY RunFacts DEF Commit
<1>2. Nothing \in [Versions -> SUBSET Canon] /\ \A v \in Versions : Nothing[v] = {}
  BY DEF Nothing
<1>3. manifest' = [st |-> "valid", known |-> {run.v},
                   selected |-> [Nothing EXCEPT ![run.v] = Selection(run.v)],
                   resolved |-> [Nothing EXCEPT ![run.v] = run.files]]
  BY DEF Commit
<1> QED BY <1>1, <1>2, <1>3

(* Every step keeps Recording: a sync that publishes has recorded what    *)
(* it found.                                                              *)
LEMMA StepRecording ==
  ASSUME TypeOK, Control, Recording, Next
  PROVE  Recording'
<1>a. run.pc \notin {"idle", "fetch"} => run.v \in Versions
  BY RunFacts
<1>1. ASSUME Prepare PROVE Recording'
  <2>1. manifest' = Recorded /\ run.pc = "prepare"
    BY <1>1 DEF Prepare
  <2>2. (run.op = "plan" /\ run' = Idle) \/ (Continues /\ run'.files = run.files)
    BY <1>1, ContinuePublish
  <2>3. CASE run' = Idle
    BY <2>3 DEF Recording, Syncing, Idle
  <2>4. CASE Continues /\ run'.files = run.files
    BY <2>1, <2>4, RecordedIs DEF Recording, Continues
  <2> QED BY <2>2, <2>3, <2>4
<1>2. ASSUME Commit PROVE Recording'
  <2>1. Continues /\ run'.files = run.files
    BY <1>2, ContinuePublish
  <2> QED BY <1>2, <2>1, CommittedIs DEF Recording, Continues
<1>3. ASSUME StagingLost \/ ManifestDamaged \/ ManifestUpgraded PROVE Recording'
  BY <1>3 DEF Recording, Syncing, StagingLost, ManifestDamaged, ManifestUpgraded, Renaming, After
<1>4. ASSUME UNCHANGED manifest, ~Prepare PROVE Recording'
  <2>1. Syncing(Renaming \cup After)' =>
          Syncing(Renaming \cup After) /\ run'.v = run.v /\ run'.files = run.files
    <3>1. ASSUME NEW c \in Canon, ResolveFound(c) \/ ResolveMissing(c) \/ EnsureIndex(c) \/ Materialize(c)
          PROVE  run'.pc = run.pc /\ run.pc \in {"resolve", "indexes", "byhash"}
      BY <3>1, Continue DEF ResolveFound, ResolveMissing, EnsureIndex, Materialize
    <3>2. ASSUME NEW p \in Payloads, EnsurePayload(p)
          PROVE  run'.pc \in {"payloads", "repair"}
      BY <3>2, Continue DEF EnsurePayload
    <3>3. ASSUME ResolveReturns \/ Preserve \/ PayloadsReturn \/ IndexesReturn \/ Reread
          PROVE  run'.pc \in {"prepare", "preserve", "payloads", "indexes", "byhash", "repair"}
      BY <3>3, ContinueOn
    <3>4. ASSUME ByHashDone
          PROVE  run'.pc \in {"prepare", "reread"}
      BY <3>4, ContinueOn
    <3>5. ASSUME PublishRelease \/ PublishInRelease \/ PublishSignature \/ Commit \/ WriteHistory
          PROVE  Continues /\ run'.files = run.files /\ run.pc \in Renaming \cup After
      BY <3>5, ContinuePublish DEF PublishRelease, PublishInRelease, PublishSignature, Commit, WriteHistory, Renaming, After
    <3>6. ASSUME NEW a \in Versions, NEW b \in Versions, NEW d \in Versions, FetchRelease(a, b, d)
          PROVE  run'.pc = "resolve"
      BY <3>6, Fetching
    <3>7. ASSUME OpFails \/ VerifyReturns \/ PruneReturns \/ BeginSync \/ BeginPlan \/ BeginVerify \/ BeginPrune
          PROVE  run'.op # "sync" \/ run'.pc = "fetch"
      BY <3>7, Beginning, Ending
    <3>8. \/ run' = run
          \/ \E c \in Canon : ResolveFound(c) \/ ResolveMissing(c) \/ EnsureIndex(c) \/ Materialize(c)
          \/ \E p \in Payloads : EnsurePayload(p)
          \/ ResolveReturns \/ Preserve \/ PayloadsReturn \/ IndexesReturn \/ Reread \/ ByHashDone
          \/ PublishRelease \/ PublishInRelease \/ PublishSignature \/ Commit \/ WriteHistory
          \/ \E a, b, d \in Versions : FetchRelease(a, b, d)
          \/ OpFails \/ VerifyReturns \/ PruneReturns \/ BeginSync \/ BeginPlan \/ BeginVerify \/ BeginPrune
      BY <1>4 DEF Next, PrunePayload, PruneForm, PruneIndex, PruneByHash,
         StagingLost, HistoryDamaged, ManifestDamaged, ManifestUpgraded, Reconfigure
    <3> QED BY <3>1, <3>2, <3>3, <3>4, <3>5, <3>6, <3>7, <3>8 DEF Syncing, Renaming, After, Continues
  <2> QED BY <1>4, <2>1 DEF Recording
<1> QED BY <1>1, <1>2, <1>3, <1>4, Changes

(* Every step keeps FoundBefore: an index that upstream has had all the   *)
(* time was never recorded as missing.                                    *)
LEMMA StepFoundBefore ==
  ASSUME TypeOK, Control, FoundBefore, FoundNow, Next
  PROVE  FoundBefore'
<1>a. /\ abandoned => abandoned' /\ abandoned' \in BOOLEAN /\ abandoned \in BOOLEAN
      /\ \A v \in Versions : Steady(v)' \subseteq Steady(v)
  BY StepEnv, SteadyShrinks DEF TypeOK
<1> SUFFICES ASSUME ~abandoned, NEW v \in Versions, NEW c \in Steady(v)', c \in manifest'.selected[v]
             PROVE  c \in manifest'.resolved[v]
  BY <1>a DEF FoundBefore
<1>b. c \in Steady(v)
  BY <1>a
<1>c. c \in manifest.selected[v] => c \in manifest.resolved[v]
  BY <1>b DEF FoundBefore
<1>1. CASE Prepare
  <2>1. manifest' = Recorded /\ run.pc = "prepare" /\ run.op \in {"plan", "sync"}
    BY <1>1, Ops DEF Prepare
  <2>2. Selection(run.v) \cap Steady(run.v) \subseteq run.files
    BY <2>1 DEF FoundNow, Wanted, Fetched, Selection
  <2> QED BY <1>b, <1>c, <2>1, <2>2, RecordedIs
<1>2. CASE Commit
  <2>1. run.pc = "commit" /\ run.op = "sync"
    BY <1>2, Ops DEF Commit
  <2>2. Selection(run.v) \cap Steady(run.v) \subseteq run.files
    BY <2>1 DEF FoundNow, Wanted, Fetched, Selection
  <2> QED BY <1>2, <1>b, <2>1, <2>2, CommittedIs
<1>3. CASE StagingLost \/ ManifestDamaged
  BY <1>3 DEF StagingLost, ManifestDamaged, NoManifest, Nothing
<1>4. CASE ManifestUpgraded
  BY <1>4 DEF ManifestUpgraded, TypeOK
<1>5. CASE UNCHANGED manifest
  BY <1>5, <1>c
<1> QED BY <1>1, <1>2, <1>3, <1>4, <1>5, Changes

(* While an operation goes on it loses none of them but in its answers.    *)
LEMMA StepWanted ==
  ASSUME TypeOK, Control, Next, ~abandoned', Fetched'
  PROVE  \/ /\ Fetched /\ Wanted \subseteq Wanted' /\ run'.v = run.v
            /\ config' = config /\ run'.op = run.op
         \/ \E a, b, d \in Versions : FetchRelease(a, b, d)
         \/ /\ \E c \in Canon : ResolveMissing(c) /\ Wanted \ {c} \subseteq Wanted'
            /\ Fetched /\ run'.v = run.v /\ config' = config /\ run'.op = run.op
<1>1. ASSUME NEW c \in Canon, ResolveFound(c) \/ EnsureIndex(c) \/ Materialize(c)
      PROVE  Continues /\ run'.pc = run.pc /\ Wanted \subseteq Wanted' /\ config' = config
  <2>1. config' = config
    BY <1>1 DEF ResolveFound, EnsureIndex, Materialize
  <2>2. CASE ResolveFound(c)
    BY <2>1, <2>2, Continue DEF Wanted
  <2>3. CASE EnsureIndex(c) \/ Materialize(c)
    <3>1. run.pc # "resolve"
      BY <2>3 DEF EnsureIndex, Materialize
    <3> QED BY <2>1, <2>3, <3>1, Continue DEF Wanted
  <2> QED BY <1>1, <2>2, <2>3
<1>2. ASSUME NEW c \in Canon, ResolveMissing(c)
      PROVE  Continues /\ run'.pc = run.pc /\ Wanted \ {c} \subseteq Wanted' /\ config' = config
  BY <1>2, Continue DEF Wanted, ResolveMissing
<1>3. ASSUME NEW p \in Payloads, EnsurePayload(p)
      PROVE  Continues /\ run'.pc = run.pc /\ Wanted \subseteq Wanted' /\ config' = config
  BY <1>3, Continue DEF Wanted, EnsurePayload
<1>4. ASSUME Preserve \/ PayloadsReturn \/ IndexesReturn \/ ByHashDone \/ Reread
      PROVE  Continues /\ run.pc \notin {"idle", "fetch"} /\ Wanted \subseteq Wanted' /\ config' = config
  <2>1. run.pc \notin {"idle", "fetch", "resolve"} /\ config' = config
    BY <1>4 DEF Preserve, PayloadsReturn, IndexesReturn, ByHashDone, Reread
  <2>2. Continues /\ run'.files = run.files
    BY <1>4, ContinueOn
  <2> QED BY <2>1, <2>2 DEF Wanted
<1>5. ASSUME ResolveReturns
      PROVE  Continues /\ run.pc \notin {"idle", "fetch"} /\ Wanted \subseteq Wanted' /\ config' = config
  <2>1. run.pc = "resolve" /\ config' = config /\ run.todo = {}
    BY <1>5 DEF ResolveReturns
  <2> QED BY <1>5, <2>1, ContinueOn DEF Wanted
<1>6. ASSUME PublishRelease \/ PublishInRelease \/ PublishSignature \/ Commit \/ WriteHistory \/ Prepare
      PROVE  run' = Idle \/ (Continues /\ run.pc \notin {"idle", "fetch"} /\ Wanted \subseteq Wanted' /\ config' = config)
  <2>1. run.pc \notin {"idle", "fetch", "resolve"} /\ config' = config
    BY <1>6 DEF PublishRelease, PublishInRelease, PublishSignature, Commit, WriteHistory, Prepare
  <2>2. run' = Idle \/ (Continues /\ run'.files = run.files)
    BY <1>6, ContinuePublish
  <2> QED BY <2>1, <2>2 DEF Wanted
<1>7. ASSUME OpFails \/ VerifyReturns \/ PruneReturns \/ BeginSync \/ BeginPlan \/ BeginVerify \/ BeginPrune \/ run' = Idle
      PROVE  ~Fetched'
  BY <1>7, Beginning, Ending DEF Fetched
<1>8. ASSUME run' = run, run.pc = "idle" \/ config' = config
      PROVE  Fetched /\ Wanted \subseteq Wanted' /\ run'.v = run.v /\ config' = config /\ run'.op = run.op
  BY <1>8 DEF Fetched, Wanted
<1>9. \/ run' = run /\ (run.pc = "idle" \/ config' = config)
      \/ \E c \in Canon : ResolveFound(c) \/ EnsureIndex(c) \/ Materialize(c)
      \/ \E c \in Canon : ResolveMissing(c)
      \/ \E p \in Payloads : EnsurePayload(p)
      \/ ResolveReturns \/ Preserve \/ PayloadsReturn \/ IndexesReturn \/ Reread \/ ByHashDone
      \/ PublishRelease \/ PublishInRelease \/ PublishSignature \/ Commit \/ WriteHistory \/ Prepare
      \/ \E a, b, d \in Versions : FetchRelease(a, b, d)
      \/ OpFails \/ VerifyReturns \/ PruneReturns \/ BeginSync \/ BeginPlan \/ BeginVerify \/ BeginPrune
  BY DEF Next, PrunePayload, PruneForm, PruneIndex, PruneByHash,
     StagingLost, HistoryDamaged, ManifestDamaged, ManifestUpgraded, Reconfigure
<1>10. ASSUME Continues, run'.pc = run.pc \/ run.pc \notin {"idle", "fetch"}
       PROVE  Fetched /\ run'.v = run.v /\ run'.op = run.op
  BY <1>10 DEF Fetched, Continues
<1> QED BY <1>1, <1>2, <1>3, <1>4, <1>5, <1>6, <1>7, <1>8, <1>9, <1>10

(* Every step keeps FoundNow: the operation asks for such an index,       *)
(* whatever an earlier selection left on record.                          *)
LEMMA StepFoundNow ==
  ASSUME TypeOK, Control, FoundBefore, FoundNow, Next
  PROVE  FoundNow'
<1>a. /\ abandoned => abandoned' /\ abandoned' \in BOOLEAN /\ abandoned \in BOOLEAN
      /\ seen \in Versions /\ seen' \in Versions /\ seen <= seen'
  BY StepEnv DEF TypeOK
<1>b. run.pc \notin {"idle", "fetch"} => run.v \in Versions
  BY RunFacts
<1>c. \A v : Steady(v) = {x \in Canon : \A u \in v..seen : x \in Provided(u)}
  BY DEF Steady
<1>d. Steady(run.v)' = {x \in Canon : \A u \in (run'.v)..seen' : x \in Provided(u)}
  BY DEF Steady
<1> SUFFICES ASSUME ~abandoned', Fetched', NEW c \in config', c \in Canon,
                    \A u \in (run'.v)..seen' : c \in Provided(u)
             PROVE  c \in Wanted'
  BY <1>a, <1>d DEF FoundNow, Wanted
<1>e. ASSUME NEW v \in Versions, v = run'.v PROVE c \in Steady(v)
  <2>1. v..seen \subseteq v..seen'
    BY <1>a DEF Versions
  <2> QED BY <1>c, <1>e, <2>1
<1>f. Fetched /\ run'.v = run.v /\ config' = config => c \in Wanted
  BY <1>a, <1>b, <1>e DEF FoundNow, Wanted, Fetched
<1>1. CASE Fetched /\ Wanted \subseteq Wanted' /\ run'.v = run.v /\ config' = config
  BY <1>1, <1>f
<1>2. ASSUME NEW d \in Canon, ResolveMissing(d), Wanted \ {d} \subseteq Wanted',
             Fetched, run'.v = run.v, config' = config
      PROVE  c \in Wanted'
  <2>1. c \in Wanted
    BY <1>2, <1>f
  <2>2. run.v \in Versions
    BY <1>2, <1>b DEF Fetched
  <2>3. d \notin Provided(seen') /\ seen' \in (run'.v)..seen'
    BY <1>2, <1>a, <2>2 DEF ResolveMissing, Versions
  <2> QED BY <1>2, <2>1, <2>3
<1>3. ASSUME NEW a \in Versions, NEW b \in Versions, NEW d \in Versions, FetchRelease(a, b, d)
      PROVE  c \in Wanted'
  <2>1. /\ run'.pc = "resolve" /\ run'.v \in Versions /\ run'.todo = ToResolve(run'.v) /\ run'.v <= seen'
    BY <1>3, Fetching
  <2>2. config' = config
    BY <1>3 DEF FetchRelease
  <2>3. c \in Provided(run'.v)
    BY <1>a, <2>1 DEF Versions
  <2>4. c \in Selection(run'.v)
    BY <2>1, <2>2, <2>3, AptAssumption DEF Selection
  <2>5. c \in manifest.selected[run'.v] => c \in manifest.resolved[run'.v]
    BY <1>a, <1>e, <2>1 DEF FoundBefore
  <2>6. c \in ToResolve(run'.v)
    BY <2>4, <2>5 DEF ToResolve
  <2> QED BY <2>1, <2>6 DEF Wanted
<1> QED BY <1>1, <1>2, <1>3, StepWanted

(* Every step keeps Asked. *)
LEMMA StepAsked ==
  ASSUME TypeOK, Control, Asked, Next
  PROVE  Asked'
BY StepRecording, StepFoundBefore, StepFoundNow DEF Asked

(* Every step keeps SyncedSoFar: what a pool call was given is on disk    *)
(* when it has returned.                                                  *)
LEMMA StepSynced ==
  ASSUME TypeOK, Control, SyncedSoFar, Next
  PROVE  SyncedSoFar'
<1>a. /\ abandoned => abandoned' /\ abandoned' \in BOOLEAN /\ abandoned \in BOOLEAN
      /\ \A v, files : ByHashFiles(v, files)' = ByHashFiles(v, files)
      /\ \A v : ByHash(v)' = ByHash(v)
  BY StepEnv, Frame DEF TypeOK
<1>b. ASSUME NEW v, NEW files PROVE Named(v, files)' = Named(v, files)
  BY DEF Named
<1>c. run.todo \subseteq Canon /\ run.files \subseteq Canon
  BY DEF TypeOK, RunState
<1> SUFFICES ASSUME run'.op = "sync"
             PROVE  SyncedSoFar'
  BY DEF SyncedSoFar, Syncing
<1>1. ASSUME run'.pc \in {"fetch", "resolve", "preserve"}
      PROVE  SyncedSoFar'
  BY <1>1 DEF SyncedSoFar, Syncing, Done, Renaming, After
<1>2. ASSUME run'.op = run.op, run'.v = run.v, run'.files = run.files, UNCHANGED disk,
             run.pc \in Done, run'.pc \in Done
      PROVE  SyncedSoFar'
  <2>1. Syncing(Done) /\ Syncing({"byhash"} \cup Done) /\ Syncing({"indexes", "byhash"} \cup Done)
    BY <1>2 DEF Syncing
  <2>2. ~Syncing({"payloads"})' /\ ~Syncing({"indexes"})' /\ ~Syncing({"byhash"})'
    BY <1>2 DEF Syncing, Done, Renaming, After
  <2> QED BY <1>2, <1>a, <2>1, <2>2 DEF SyncedSoFar, disk, InPlace, Named
<1>3. ASSUME run' = run, UNCHANGED disk
      PROVE  SyncedSoFar'
  BY <1>3, <1>a DEF SyncedSoFar, disk, InPlace, Named, Syncing
<1>4. ASSUME NEW c \in Canon, ResolveFound(c) \/ ResolveMissing(c)
      PROVE  run'.pc = "resolve"
  BY <1>4, Continue DEF ResolveFound, ResolveMissing
<1>5. ASSUME ResolveReturns
      PROVE  SyncedSoFar'
  BY <1>5, <1>1, ContinueOn DEF Continues
<1>6. ASSUME Preserve
      PROVE  SyncedSoFar'
  BY <1>6, ContinueOn DEF Continues, SyncedSoFar, Syncing, Named, Done, Renaming, After
<1>7. ASSUME NEW p \in Payloads, EnsurePayload(p)
      PROVE  SyncedSoFar'
  <2>1. /\ Continues /\ run'.pc = run.pc /\ run'.files = run.files /\ run'.pkgs = run.pkgs \ {p}
        /\ pool' = pool \cup {p} /\ run.pc \in {"payloads", "repair"}
    BY <1>7, Continue DEF EnsurePayload
  <2>2. run.pc = "payloads" /\ run.op = "sync"
    BY <2>1, Ops DEF Continues
  <2> QED BY <2>1, <2>2, <1>b DEF Continues, SyncedSoFar, Syncing, Done, Renaming, After
<1>8. ASSUME PayloadsReturn
      PROVE  SyncedSoFar'
  <2>1. /\ Continues /\ run'.pc = "indexes" /\ run'.files = run.files /\ run'.todo = run.files
        /\ pool' = pool /\ run.pc = "payloads" /\ abandoned' = (abandoned \/ run.pkgs # {})
    BY <1>8, ContinueOn DEF PayloadsReturn, disk
  <2>2. abandoned' \/ Named(run.v, run.files) \subseteq pool
    BY <2>1 DEF SyncedSoFar, Syncing, Continues
  <2>3. InPlace({}, run.v)'
    BY DEF InPlace
  <2>4. run'.files \ run'.todo = {}
    BY <2>1
  <2> QED BY <2>1, <2>2, <2>3, <2>4, <1>b DEF Continues, SyncedSoFar, Syncing, Done, Renaming, After, InPlace
<1>9. ASSUME NEW c \in Canon, EnsureIndex(c)
      PROVE  SyncedSoFar'
  <2>1. /\ Continues /\ run'.pc = "indexes" /\ run'.files = run.files /\ run'.todo = run.todo \ {c}
        /\ pool' = pool /\ run.pc = "indexes" /\ canon' = [canon EXCEPT ![c] = Content(c, run.v)]
    BY <1>9, Continue DEF EnsureIndex
  <2>2. abandoned \/ InPlace(run.files \ run.todo, run.v)
    BY <2>1 DEF SyncedSoFar, Syncing, Continues
  <2>3. abandoned' \/ InPlace(run.files \ (run.todo \ {c}), run.v)'
    <3>1. \A x \in Canon : canon'[x] = IF x = c THEN Content(c, run.v) ELSE canon[x]
      BY <2>1 DEF TypeOK
    <3> QED BY <2>1, <2>2, <3>1, <1>a, <1>c DEF InPlace, Continues
  <2>4. abandoned' \/ Named(run.v, run.files) \subseteq pool
    BY <2>1, <1>a DEF SyncedSoFar, Syncing, Continues
  <2> QED BY <2>1, <2>3, <2>4, <1>b DEF Continues, SyncedSoFar, Syncing, Done, Renaming, After, InPlace
<1>10. ASSUME IndexesReturn
      PROVE  SyncedSoFar'
  <2>1. /\ Continues /\ run'.pc = "byhash" /\ run'.files = run.files
        /\ run'.todo = (IF ByHash(run.v) THEN run.files ELSE {})
        /\ UNCHANGED disk /\ run.pc = "indexes" /\ abandoned' = (abandoned \/ (run.op = "sync" /\ run.todo # {}))
    BY <1>10, ContinueOn DEF IndexesReturn
  <2>2. abandoned' \/ InPlace(run.files, run.v)
    BY <2>1 DEF SyncedSoFar, Syncing, Continues, InPlace
  <2>3. abandoned' \/ Named(run.v, run.files) \subseteq pool
    BY <2>1, <1>a DEF SyncedSoFar, Syncing, Continues
  <2>4. ByHashFiles(run.v, run.files \ run'.todo) = {}
    BY <2>1 DEF ByHashFiles
  <2> QED BY <2>1, <2>2, <2>3, <2>4, <1>a, <1>b DEF Continues, SyncedSoFar, Syncing, Done, Renaming, After, InPlace, disk
<1>11. ASSUME NEW c \in Canon, Materialize(c)
      PROVE  SyncedSoFar'
  <2>1. /\ Continues /\ run'.pc = "byhash" /\ run'.files = run.files /\ run'.todo = run.todo \ {c}
        /\ pool' = pool /\ canon' = canon /\ run.pc = "byhash"
        /\ byhash' = byhash \cup {<<c, Content(c, run.v)>>}
    BY <1>11, Continue DEF Materialize
  <2>2. /\ abandoned' \/ InPlace(run.files, run.v)
        /\ abandoned' \/ Named(run.v, run.files) \subseteq pool
        /\ ByHashFiles(run.v, run.files \ run.todo) \subseteq byhash
    BY <2>1, <1>a DEF SyncedSoFar, Syncing, Continues
  <2>3. ByHashFiles(run.v, run.files \ (run.todo \ {c})) \subseteq byhash'
    BY <2>1, <2>2 DEF ByHashFiles
  <2> QED BY <2>1, <2>2, <2>3, <1>a, <1>b DEF Continues, SyncedSoFar, Syncing, Done, Renaming, After, InPlace
<1>12. ASSUME ByHashDone
      PROVE  SyncedSoFar'
  <2>1. /\ Continues /\ run'.pc = "prepare" /\ run'.files = run.files
        /\ UNCHANGED disk /\ run.pc = "byhash" /\ run.todo = {}
    BY <1>12, ContinueOn DEF ByHashDone, Continues
  <2>2. /\ abandoned' \/ InPlace(run.files, run.v)
        /\ abandoned' \/ Named(run.v, run.files) \subseteq pool
        /\ ByHashFiles(run.v, run.files \ run.todo) \subseteq byhash
    BY <2>1, <1>a DEF SyncedSoFar, Syncing, Continues
  <2>3. run.files \ run.todo = run.files
    BY <2>1
  <2> QED BY <2>1, <2>2, <2>3, <1>a, <1>b DEF Continues, SyncedSoFar, Syncing, Done, Renaming, After, InPlace, disk
<1>13. ASSUME Reread PROVE SyncedSoFar'
  BY <1>13, ContinueOn, Ops DEF Continues, Reread
<1>14. ASSUME Prepare \/ PublishRelease \/ PublishInRelease \/ PublishSignature \/ Commit \/ WriteHistory
       PROVE  SyncedSoFar'
  <2>1. run.pc \in Done /\ UNCHANGED disk
    BY <1>14 DEF Prepare, PublishRelease, PublishInRelease, PublishSignature, Commit, WriteHistory, Done, Renaming, After
  <2>2. Continues /\ run'.files = run.files /\ run'.pc \in Done
    BY <1>14, ContinuePublish, Ending DEF Done, Renaming, After
  <2> QED BY <1>2, <2>1, <2>2 DEF Continues
<1>15. ASSUME run' = run, run.pc = "walk",
              \/ UNCHANGED <<canon, byhash>> /\ \E p : p \notin Named(run.v, run.files) /\ pool' = pool \ {p}
              \/ UNCHANGED <<byhash, pool>> /\ \E c : c \notin run.files /\ canon' = [canon EXCEPT ![c] = NoContent]
              \/ UNCHANGED <<canon, pool>> /\ \E h : h \notin ByHashFiles(run.v, run.files) /\ byhash' = byhash \ {h}
       PROVE  SyncedSoFar'
  <2>1. /\ abandoned' \/ InPlace(run.files, run.v)
        /\ abandoned' \/ Named(run.v, run.files) \subseteq pool
        /\ ByHashFiles(run.v, run.files) \subseteq byhash
    BY <1>15, <1>a DEF SyncedSoFar, Syncing, Done, After
  <2>2. \A x \in run.files : canon'[x] = canon[x]
    BY <1>15, <1>c DEF TypeOK
  <2>3. abandoned' \/ Named(run.v, run.files) \subseteq pool'
    BY <1>15, <2>1
  <2>4. ByHashFiles(run.v, run.files) \subseteq byhash'
    BY <1>15, <2>1
  <2>5. abandoned' \/ InPlace(run.files, run.v)'
    BY <1>15, <2>1, <2>2 DEF InPlace
  <2> QED BY <1>15, <2>3, <2>4, <2>5, <1>a, <1>b DEF SyncedSoFar, Syncing, Done, Renaming, After
<1>16. ASSUME NEW p \in Payloads, PrunePayload(p) PROVE SyncedSoFar'
  BY <1>16, <1>15 DEF PrunePayload, Pruning, StalePayloads
<1>17. ASSUME NEW c \in Canon, PruneIndex(c) PROVE SyncedSoFar'
  BY <1>17, <1>15 DEF PruneIndex, Pruning, StaleIndexes
<1>18. ASSUME NEW h \in Canon \X Contents, PruneByHash(h) PROVE SyncedSoFar'
  BY <1>18, <1>15 DEF PruneByHash, Pruning, StaleByHash
<1>19. ASSUME NEW a \in Versions, NEW b \in Versions, NEW d \in Versions, FetchRelease(a, b, d)
       PROVE  run'.pc = "resolve"
  BY <1>19, Fetching
<1>20. ASSUME BeginSync \/ BeginPlan \/ BeginVerify \/ BeginPrune \/ OpFails \/ VerifyReturns \/ PruneReturns
       PROVE  SyncedSoFar'
  BY <1>20, <1>1, Beginning, Ending
<1>21. ASSUME PruneForm \/ StagingLost \/ HistoryDamaged \/ ManifestDamaged \/ ManifestUpgraded
       PROVE  SyncedSoFar'
  BY <1>21, <1>3 DEF PruneForm, StagingLost, HistoryDamaged, ManifestDamaged, ManifestUpgraded
<1>22. ASSUME NEW s \in Configs, Reconfigure(s) PROVE SyncedSoFar'
  BY <1>22, <1>3 DEF Reconfigure
<1> QED BY <1>1, <1>4, <1>5, <1>6, <1>7, <1>8, <1>9, <1>10, <1>11, <1>12, <1>13, <1>14,
       <1>16, <1>17, <1>18, <1>19, <1>20, <1>21, <1>22 DEF Next

-----------------------------------------------------------------------------
(* With an upstream that keeps signing inline. *)

(* From the last rename on clients find what the sync fetched. *)
LEMMA AfterServed ==
  ASSUME TypeOK, Control, Placed, KeepsInRelease, Syncing(After)
  PROVE  Served = run.v /\ run.v \in Versions
<1>1. run.op = "sync" /\ run.pc \in After /\ Fetched /\ run.v \in Versions /\ run.v # Absent
  BY RunFacts DEF Syncing, After, Fetched
<1>2. CASE run.inl
  BY <1>1, <1>2, ServedIs DEF Placed
<1>3. CASE ~run.inl
  BY <1>1, <1>3, ServedIs DEF Placed
<1> QED BY <1>1, <1>2, <1>3

(* A prune command is about what clients find. *)
LEMMA PruneServed ==
  ASSUME TypeOK, Control, Placed, run.op = "prune"
  PROVE  Served = run.v /\ run.v \in Versions /\ run.v # Absent /\ run.pc = "walk"
<1>1. run.pc = "walk"
  BY DEF Control, Shape
<1>2. run.v \in Versions /\ run.v # Absent
  BY <1>1, RunFacts
<1> QED BY <1>1, <1>2 DEF Placed


(* A rename makes clients find what the sync fetched, what they found      *)
(* before, or (with detached signatures) nothing for a moment.             *)
LEMMA Renamed ==
  ASSUME TypeOK, Control, Placed, KeepsInRelease, Renames
  PROVE  /\ Syncing(Renaming) /\ Syncing(Done) /\ Continues
         /\ run'.files = run.files /\ run'.pc \in {"inline", "signature", "commit"}
         /\ run'.pc = "commit" => Served' = run.v
         /\ run.v \in Versions /\ run.v # Absent /\ Fetched
         /\ Served' \in {run.v, Served, Absent}
         /\ Served' = run.v => offered' = run.files /\ past' = UpdateHistory(past, run.v, run.files)
         /\ Served' # run.v => past' = past /\ offered' = IF Served' = Absent THEN {} ELSE offered
         /\ UNCHANGED <<config, seen, disk, state, abandoned, amnesia, lapse>>
<1>1. /\ run.pc \in Renaming /\ RecordServed
      /\ UNCHANGED <<config, seen, disk, state, abandoned, amnesia, lapse>>
  BY DEF Renames, PublishRelease, PublishInRelease, PublishSignature, Renaming
<1>2. run.op = "sync"
  BY <1>1, Ops DEF Renaming
<1>3. /\ Continues /\ run'.files = run.files /\ run'.pc \in {"inline", "signature", "commit"}
      /\ run'.pc = "commit" => PublishSignature
  BY ContinuePublish DEF Renames
<1>4. run.v \in Versions /\ run.v # Absent /\ Fetched
  BY <1>1, <1>2, RunFacts DEF Renaming, Fetched
<1>5. PublishSignature => Served' = run.v
  <2>1. ASSUME PublishSignature
        PROVE  /\ run.pc = "signature" /\ inRelease' = inRelease /\ release' = release
               /\ sig' = IF run.det THEN run.v ELSE sig
    BY <2>1 DEF PublishSignature
  <2>2. CASE run.inl
    BY <1>2, <1>4, <2>1, <2>2, ServedIs DEF Placed
  <2>3. CASE ~run.inl
    BY <1>2, <1>4, <2>1, <2>3, ServedIs DEF Placed
  <2> QED BY <2>2, <2>3
<1>6. PublishInRelease => Served' \in {run.v, Served, Absent}
  <2>1. ASSUME PublishInRelease
        PROVE  /\ release' = release /\ sig' = sig
               /\ inRelease' = IF run.inl THEN run.v ELSE inRelease
    BY <2>1 DEF PublishInRelease
  <2>2. CASE run.inl
    BY <1>4, <2>1, <2>2, ServedIs
  <2>3. CASE ~run.inl
    BY <2>1, <2>3, ServedIs
  <2> QED BY <2>2, <2>3
<1>7. PublishRelease => Served' \in {run.v, Served, Absent}
  BY ServedIs DEF PublishRelease
<1>8. Served' \in {run.v, Served, Absent}
  BY <1>5, <1>6, <1>7 DEF Renames
<1>9. /\ Served' = run.v => offered' = run.files /\ past' = UpdateHistory(past, run.v, run.files)
      /\ Served' # run.v => past' = past /\ offered' = IF Served' = Absent THEN {} ELSE offered
  BY <1>1, <1>2 DEF RecordServed
<1> QED BY <1>1, <1>2, <1>3, <1>4, <1>5, <1>8, <1>9 DEF Syncing, Done

(* Dropping the form that a Release does not have hides nothing. *)
LEMMA FormPruned ==
  ASSUME TypeOK, Control, Placed, KeepsInRelease, PruneForm
  PROVE  /\ run' = run /\ run.pc = "walk" /\ run.op \in {"sync", "prune"}
         /\ Served = run.v /\ Served' = run.v /\ run.v \in Versions /\ run.v # Absent
         /\ run.op = "sync" => offered' = run.files /\ past' = UpdateHistory(past, run.v, run.files)
         /\ run.op = "prune" => offered' = offered /\ past' = past
         /\ UNCHANGED <<config, seen, disk, state, abandoned, amnesia, lapse>>
<1>1. /\ run' = run /\ run.pc = "walk" /\ RecordServed
      /\ inRelease' = IF run.inl THEN inRelease ELSE Absent
      /\ release' = IF run.det THEN release ELSE Absent
      /\ sig' = IF run.det THEN sig ELSE Absent
      /\ UNCHANGED <<config, seen, disk, state, abandoned, amnesia, lapse>>
  BY DEF PruneForm, Pruning
<1>2. run.op \in {"sync", "prune"} /\ run.v \in Versions /\ run.v # Absent
  BY <1>1, Ops, RunFacts
<1>3. Served = run.v
  <2>1. CASE run.op = "sync"
    BY <1>1, <2>1, AfterServed DEF Syncing, After
  <2>2. CASE run.op = "prune"
    BY <2>2, PruneServed
  <2> QED BY <1>2, <2>1, <2>2
<1>4. /\ run.inl => inRelease = run.v
      /\ ~run.inl => inRelease = Absent /\ run.det
      /\ run.det => release = run.v /\ sig = run.v
  <2>1. CASE run.op = "sync"
    BY <1>1, <2>1 DEF Placed, Fetched, After
  <2>2. CASE run.op = "prune"
    BY <2>2 DEF Placed
  <2> QED BY <1>2, <2>1, <2>2
<1>5. Served' = run.v
  BY <1>1, <1>2, <1>4, ServedIs
<1>6. /\ run.op = "sync" => offered' = run.files /\ past' = UpdateHistory(past, run.v, run.files)
      /\ run.op = "prune" => offered' = offered /\ past' = past
  BY <1>1, <1>2, <1>5 DEF RecordServed
<1> QED BY <1>1, <1>2, <1>3, <1>5, <1>6

(* Once the indexes are resolved an operation keeps its files. *)
LEMMA KeepsFiles ==
  ASSUME TypeOK, Control, Next, run.pc \notin {"idle", "fetch", "resolve"}
  PROVE  run' = Idle \/ (Continues /\ run'.files = run.files)
<1>1. ASSUME NEW c \in Canon, EnsureIndex(c) \/ Materialize(c)
      PROVE  Continues /\ run'.files = run.files
  BY <1>1, Continue
<1>2. ASSUME NEW p \in Payloads, EnsurePayload(p)
      PROVE  Continues /\ run'.files = run.files
  BY <1>2, Continue
<1>3. ASSUME Preserve \/ PayloadsReturn \/ IndexesReturn \/ ByHashDone \/ Reread
      PROVE  Continues /\ run'.files = run.files
  BY <1>3, ContinueOn
<1>4. ASSUME PublishRelease \/ PublishInRelease \/ PublishSignature \/ Commit \/ WriteHistory \/ Prepare
      PROVE  run' = Idle \/ (Continues /\ run'.files = run.files)
  BY <1>4, ContinuePublish
<1>5. run' = run => Continues /\ run'.files = run.files
  BY DEF Continues
<1>6. \/ run' = run \/ run' = Idle
      \/ \E c \in Canon : EnsureIndex(c) \/ Materialize(c)
      \/ \E p \in Payloads : EnsurePayload(p)
      \/ Preserve \/ PayloadsReturn \/ IndexesReturn \/ Reread \/ ByHashDone
      \/ PublishRelease \/ PublishInRelease \/ PublishSignature \/ Commit \/ WriteHistory \/ Prepare
  BY Ending DEF Next, PrunePayload, PruneForm, PruneIndex, PruneByHash,
     StagingLost, HistoryDamaged, ManifestDamaged, ManifestUpgraded, Reconfigure,
     BeginSync, BeginPlan, BeginVerify, BeginPrune, FetchRelease, ResolveFound, ResolveMissing, ResolveReturns
<1> QED BY <1>1, <1>2, <1>3, <1>4, <1>5, <1>6

(* What was offered changes only when something is published, given up, or *)
(* no longer selected.                                                     *)
LEMMA OfferedSteps ==
  ASSUME Next
  PROVE  \/ Renames \/ PruneForm
         \/ Prepare /\ UNCHANGED served /\ config' = config
         \/ \E s \in Configs : Reconfigure(s) /\ UNCHANGED served
         \/ offered' = offered /\ UNCHANGED served /\ config' = config
BY Changes DEF Prepare, Reconfigure

(* What follows for the indexes offered and for the Release that clients   *)
(* find: it is the one just published, with the indexes found, or it is    *)
(* the one before, with no more than was offered.                          *)
LEMMA OfferedIs ==
  ASSUME TypeOK, Control, Placed, KeepsInRelease, Next
  PROVE  \/ /\ Served' = run.v /\ offered' = run.files /\ Syncing(Renaming \cup After)
            /\ Continues /\ run'.files = run.files /\ config' = config
            /\ UNCHANGED <<disk, manifest, abandoned, amnesia>>
         \/ /\ Served' = Absent /\ offered' = {}
         \/ /\ Served' = Served /\ offered' \subseteq offered
            /\ \/ run'.op # "sync" \/ run'.pc \notin After
               \/ run.op = "sync" /\ run.pc \in After /\ offered' = offered
            /\ config' = config \/ (run.pc = "idle" /\ offered' \subseteq config')
<1>1. CASE Renames
  <2>1. /\ Syncing(Renaming) /\ Continues /\ run'.files = run.files
        /\ run'.pc \in {"inline", "signature", "commit"}
        /\ run'.pc = "commit" => Served' = run.v
        /\ Served' \in {run.v, Served, Absent}
        /\ Served' = run.v => offered' = run.files
        /\ Served' # run.v => offered' = IF Served' = Absent THEN {} ELSE offered
        /\ UNCHANGED <<config, disk, state, abandoned, amnesia>>
    BY <1>1, Renamed
  <2>2. Syncing(Renaming \cup After) /\ UNCHANGED <<manifest, abandoned, amnesia>>
    BY <2>1 DEF Syncing, state
  <2>3. CASE Served' = run.v
    BY <2>1, <2>2, <2>3
  <2>4. CASE Served' # run.v
    BY <2>1, <2>4 DEF After
  <2> QED BY <2>3, <2>4
<1>2. CASE PruneForm
  <2>1. /\ run' = run /\ run.pc = "walk" /\ run.op \in {"sync", "prune"}
        /\ Served = run.v /\ Served' = run.v
        /\ run.op = "sync" => offered' = run.files
        /\ run.op = "prune" => offered' = offered
        /\ UNCHANGED <<config, disk, state, abandoned, amnesia>>
    BY <1>2, FormPruned
  <2> QED BY <2>1 DEF Syncing, After, Continues, state
<1>3. ~Renames /\ ~PruneForm => UNCHANGED served
  BY Frame DEF Renames
<1>4. ASSUME ~Renames, ~PruneForm
      PROVE  /\ Served' = Served
             /\ run'.op # "sync" \/ run'.pc \notin After \/ (run.op = "sync" /\ run.pc \in After)
  <2>1. Served' = Served
    BY <1>3, <1>4, Frame
  <2>2. CASE run' = Idle
    BY <2>1, <2>2, Ending
  <2>3. CASE BeginSync \/ BeginPlan \/ BeginVerify \/ BeginPrune
    BY <2>1, <2>3, Beginning DEF After
  <2>4. CASE \E a, b, d \in Versions : FetchRelease(a, b, d)
    BY <2>1, <2>4, Fetching DEF After
  <2>5. CASE Continues /\ \/ run'.pc = run.pc
                          \/ run.pc \in Middle /\ run'.pc \in Middle \cup {"release"}
                          \/ run.pc \in After /\ run'.pc \in After
    BY <2>1, <2>5 DEF Continues, Middle, After
  <2> QED BY <1>4, <2>2, <2>3, <2>4, <2>5, Proceeds DEF Renames
<1>5. CASE Prepare /\ UNCHANGED served /\ config' = config
  <2>1. offered' \subseteq offered /\ run.pc = "prepare"
    BY <1>5 DEF Prepare
  <2>2. ~Renames /\ ~PruneForm
    BY <2>1 DEF Renames, PruneForm, Pruning, PublishRelease, PublishInRelease, PublishSignature
  <2>3. run'.op # "sync" \/ run'.pc \notin After
    BY <1>4, <2>1, <2>2 DEF After
  <2> QED BY <1>4, <1>5, <2>1, <2>2, <2>3
<1>6. ASSUME NEW s \in Configs, Reconfigure(s)
      PROVE  /\ Served' = Served /\ offered' \subseteq offered /\ run'.op # "sync"
             /\ run.pc = "idle" /\ offered' \subseteq config'
  <2>1. /\ run' = run /\ run.pc = "idle" /\ config' = s /\ offered' = offered \cap s /\ UNCHANGED served
    BY <1>6 DEF Reconfigure
  <2>2. run.op = "none"
    BY <2>1, Ops
  <2> QED BY <2>1, <2>2, Frame
<1>7. CASE offered' = offered /\ UNCHANGED served /\ config' = config
  <2>1. Served' = Served
    BY <1>7, Frame
  <2> QED BY <1>1, <1>2, <1>4, <1>7, <2>1
<1> QED BY <1>1, <1>2, <1>5, <1>6, <1>7, OfferedSteps

(* What is offered is selected from the Release that clients find.        *)
LEMMA StepOffered1 ==
  ASSUME TypeOK, Control, Placed, KeepsInRelease, Sound, Next
  PROVE  offered' \subseteq IF Served' = Absent THEN {} ELSE Selection(Served)'
<1>a. offered \subseteq IF Served = Absent THEN {} ELSE Selection(Served)
  BY DEF Sound, OfferedKept
<1>b. /\ \A v : Selection(v) = config \cap Advertised(v)
      /\ Selection(Served)' = config' \cap Advertised(Served')
  BY DEF Selection, Advertised
<1>1. CASE Served' = run.v /\ offered' = run.files /\ Syncing(Renaming \cup After) /\ config' = config
  <2>1. run.files \subseteq Selection(run.v) /\ run.v # Absent
    BY <1>1, RunFacts DEF Syncing, Renaming, After
  <2> QED BY <1>1, <1>b, <2>1
<1>2. CASE Served' = Absent /\ offered' = {}
  BY <1>2
<1>3. CASE Served' = Served /\ offered' \subseteq offered /\ (config' = config \/ offered' \subseteq config')
  BY <1>3, <1>a, <1>b
<1> QED BY <1>1, <1>2, <1>3, OfferedIs

(* After its last rename a sync has offered what it resolved. *)
LEMMA StepOffered2 ==
  ASSUME TypeOK, Control, Placed, KeepsInRelease, Sound, Next
  PROVE  Syncing(After)' => offered' = run'.files
<1> SUFFICES ASSUME run'.op = "sync", run'.pc \in After
             PROVE  offered' = run'.files
  BY DEF Syncing
<1>1. CASE Served' = run.v /\ offered' = run.files /\ run'.files = run.files
  BY <1>1
<1>2. CASE Served' = Absent /\ offered' = {}
  <2>1. TypeOK' /\ Control' /\ Placed' /\ KeepsInRelease' /\ Syncing(After)'
    BY StepTypes, StepControl, StepPlaced, Frame DEF Syncing
  <2>2. Served' = run'.v /\ run'.v # Absent
    <3>1. run'.v # Absent /\ run'.pc \notin {"idle", "fetch"}
      BY <2>1 DEF Control, Shape, After
    <3>2. run'.inl => inRelease' = run'.v
      BY <2>1 DEF Placed, Syncing, After
    <3>3. ~run'.inl => run'.det /\ inRelease' = Absent
      BY <2>1, <3>1 DEF Placed, Syncing, Fetched
    <3>4. run'.det => release' = run'.v /\ sig' = run'.v
      BY <2>1 DEF Placed, Syncing, After
    <3> QED BY <3>1, <3>2, <3>3, <3>4, ServedIs
  <2> QED BY <1>2, <2>2
<1>3. CASE run.op = "sync" /\ run.pc \in After /\ offered' = offered
  <2>1. offered = run.files
    BY <1>3 DEF Sound, OfferedKept, Syncing
  <2>2. run' = Idle \/ run'.files = run.files
    BY <1>3, KeepsFiles DEF After
  <2> QED BY <1>3, <2>1, <2>2, Ending
<1> QED BY <1>1, <1>2, <1>3, OfferedIs

(* The record of the published Release has all that is offered.           *)
LEMMA StepOffered3 ==
  ASSUME TypeOK, Control, Placed, Asked, KeepsInRelease, Sound, Next,
         Served' # Absent, Served' \in manifest'.known
  PROVE  abandoned' \/ offered' \subseteq manifest'.resolved[Served']
<1> SUFFICES ASSUME ~abandoned', NEW c \in offered' PROVE c \in manifest'.resolved[Served']
  OBVIOUS
<1>a. ~abandoned
  BY StepEnv
<1>b. Served # Absent /\ Served \in manifest.known => offered \subseteq manifest.resolved[Served]
  BY <1>a DEF Sound, OfferedKept
<1>c. Served \in Versions \cup {Absent}
  BY ServedType DEF TypeOK
<1>1. CASE Prepare
  <2>1. /\ run.pc = "prepare" /\ manifest' = Recorded
        /\ offered' = offered \ (IF amnesia /\ run.v = Served THEN Selection(run.v) \ run.files ELSE {})
    BY <1>1 DEF Prepare
  <2>2. Served' = Served
    BY <1>1, Frame DEF Prepare
  <2>3. run.op \in {"plan", "sync"} /\ run.v \in Versions
    BY <2>1, Ops, RunFacts
  <2>4. CASE run.v = Served
    <3>1. c \in Selection(run.v)
      BY <2>1, <2>2, <2>4 DEF Sound, OfferedKept
    <3>2. ~amnesia => offered \subseteq run.files
      BY <1>a, <2>1, <2>3, <2>4 DEF Sound, OfferedKept, Fetched, Wanted
    <3>3. c \in run.files
      BY <2>1, <2>4, <3>1, <3>2
    <3> QED BY <2>1, <2>2, <2>4, <3>3, RecordedIs
  <2>5. CASE run.v # Served
    BY <1>b, <1>c, <2>1, <2>2, <2>5, RecordedIs
  <2> QED BY <2>4, <2>5
<1>2. CASE Commit
  <2>1. run.op = "sync" /\ run.pc = "commit" /\ run.v \in Versions
    BY <1>2, Ops, RunFacts DEF Commit
  <2>2. Served' = Served /\ offered' = offered
    BY <1>2, Frame DEF Commit
  <2>3. offered = run.files
    BY <2>1 DEF Sound, OfferedKept, Syncing, After
  <2> QED BY <1>2, <2>2, <2>3, CommittedIs
<1>3. CASE StagingLost \/ ManifestDamaged
  BY <1>3 DEF StagingLost, ManifestDamaged, NoManifest
<1>4. CASE ManifestUpgraded
  <2>1. Served' = Served /\ offered' = offered
    BY <1>4, Frame DEF ManifestUpgraded, ghosts
  <2>2. manifest' = [manifest EXCEPT !.selected = manifest.resolved]
    BY <1>4 DEF ManifestUpgraded
  <2>3. manifest'.known = manifest.known /\ manifest'.resolved = manifest.resolved
    BY <2>2 DEF TypeOK
  <2> QED BY <1>b, <2>1, <2>3
<1>5. CASE UNCHANGED manifest
  <2>1. CASE Served' = run.v /\ offered' = run.files /\ Syncing(Renaming \cup After)
    BY <1>5, <2>1 DEF Asked, Recording
  <2>2. CASE Served' = Served /\ offered' \subseteq offered
    BY <1>5, <1>b, <2>2
  <2> QED BY <2>1, <2>2, OfferedIs
<1> QED BY <1>1, <1>2, <1>3, <1>4, <1>5, Changes

(* The manifest, if it can be read and staging was not lost, knows the    *)
(* published Release: Prepare keeps the records of the others, and        *)
(* Commit drops them only after the last rename.                          *)
LEMMA StepOffered4 ==
  ASSUME TypeOK, Control, Placed, Asked, KeepsInRelease, Sound, Next,
         Served' # Absent, ~amnesia'
  PROVE  manifest'.st # "missing" /\ (manifest'.st = "valid" => Served' \in manifest'.known)
<1>a. Served # Absent /\ ~amnesia =>
        manifest.st # "missing" /\ (manifest.st = "valid" => Served \in manifest.known)
  BY DEF Sound, OfferedKept
<1>1. CASE Prepare
  <2>1. Served' = Served /\ run.pc = "prepare" /\ manifest' = Recorded /\ amnesia' = amnesia
    BY <1>1, Frame DEF Prepare
  <2>2. manifest.st # "corrupt" /\ manifest.st \in {"valid", "missing", "corrupt"}
    BY <2>1 DEF Control, Manifests, TypeOK
  <2> QED BY <1>a, <2>1, <2>2, RecordedIs
<1>2. CASE Commit
  <2>1. run.op = "sync" /\ run.pc = "commit"
    BY <1>2, Ops DEF Commit
  <2>2. Served' = Served
    BY <1>2, Frame DEF Commit
  <2>3. Served = run.v
    BY <2>1, AfterServed DEF Syncing, After
  <2> QED BY <1>2, <2>2, <2>3, CommittedIs
<1>3. CASE StagingLost
  BY <1>3 DEF StagingLost
<1>4. CASE ManifestDamaged
  BY <1>4 DEF ManifestDamaged, NoManifest
<1>5. CASE ManifestUpgraded
  <2>1. Served' = Served /\ amnesia' = amnesia
    BY <1>5, Frame DEF ManifestUpgraded, ghosts
  <2>2. manifest' = [manifest EXCEPT !.selected = manifest.resolved]
    BY <1>5 DEF ManifestUpgraded
  <2>3. manifest'.known = manifest.known /\ manifest'.st = manifest.st
    BY <2>2 DEF TypeOK
  <2> QED BY <1>a, <2>1, <2>3
<1>6. CASE UNCHANGED manifest /\ ~Commit /\ ~StagingLost
  <2>1. amnesia' = amnesia
    BY <1>6, Changes
  <2>2. CASE Served' = run.v /\ Syncing(Renaming \cup After)
    BY <1>6, <2>2 DEF Asked, Recording
  <2>3. CASE Served' = Served
    BY <1>6, <1>a, <2>1, <2>3
  <2> QED BY <2>2, <2>3, OfferedIs
<1> QED BY <1>1, <1>2, <1>3, <1>4, <1>5, <1>6, Changes

(* An operation that finds the published Release upstream again asks for  *)
(* all that is offered.                                                   *)
LEMMA StepOffered5 ==
  ASSUME TypeOK, Control, Placed, Asked, KeepsInRelease, Sound, Next,
         Fetched', run'.v = Served', ~amnesia'
  PROVE  abandoned' \/ offered' \subseteq Wanted'
<1> SUFFICES ASSUME ~abandoned', NEW c \in offered' PROVE c \in Wanted'
  OBVIOUS
<1>a. ~abandoned
  BY StepEnv
<1>b. Fetched /\ run.v = Served /\ ~amnesia => offered \subseteq Wanted
  BY <1>a DEF Sound, OfferedKept
<1>c. Fetched => run.v \in Versions /\ run.v # Absent
  BY RunFacts DEF Fetched
<1>d. Served # Absent /\ ~amnesia =>
        /\ manifest.st # "missing"
        /\ manifest.st = "valid" => Served \in manifest.known /\ offered \subseteq manifest.resolved[Served]
  BY <1>a DEF Sound, OfferedKept
<1>1. CASE Fetched /\ Wanted \subseteq Wanted' /\ run'.v = run.v
  <2>1. CASE Served' = run.v /\ offered' = run.files
    BY <1>1, <2>1 DEF Wanted
  <2>2. CASE Served' = Served /\ offered' \subseteq offered
    <3>1. CASE ~amnesia
      BY <1>1, <1>b, <2>2, <3>1
    <3>2. CASE Commit
      <4>1. Syncing(After)
        BY <3>2, Ops DEF Commit, Syncing, After
      <4> QED BY <1>1, <2>2, <4>1 DEF Sound, OfferedKept, Wanted
    <3>3. CASE StagingLost
      BY <3>3 DEF StagingLost
    <3> QED BY <3>1, <3>2, <3>3, Changes
  <2> QED BY <1>1, <1>c, <2>1, <2>2, OfferedIs
<1>2. ASSUME NEW x \in Versions, NEW y \in Versions, NEW z \in Versions, FetchRelease(x, y, z)
      PROVE  c \in Wanted'
  <2>1. /\ run'.v \in Versions /\ run'.todo = ToResolve(run'.v) /\ run'.pc = "resolve"
        /\ Served' = Served /\ offered' = offered /\ amnesia' = amnesia
        /\ manifest.st # "corrupt" /\ config' = config
    BY <1>2, Fetching, Frame DEF FetchRelease, ghosts
  <2>2. run'.v # Absent
    BY <2>1 DEF Versions, Absent
  <2>3. c \in manifest.resolved[Served]
    BY <1>d, <2>1, <2>2 DEF TypeOK
  <2>4. c \in Selection(Served)
    BY <2>1, <2>2 DEF Sound, OfferedKept
  <2> QED BY <2>1, <2>3, <2>4 DEF Wanted, ToResolve
<1>3. ASSUME NEW d \in Canon, ResolveMissing(d), Wanted \ {d} \subseteq Wanted', Fetched, run'.v = run.v
      PROVE  c \in Wanted'
  <2>1. /\ run.pc = "resolve" /\ Served' = Served /\ offered' = offered /\ amnesia' = amnesia
        /\ ~(d \in manifest.resolved[run.v] /\ canon[d] = Content(d, run.v))
    BY <1>3, Frame DEF ResolveMissing, ghosts
  <2>2. run.v = Served /\ Served # Absent
    BY <1>3, <1>c, <2>1
  <2>3. c \in Wanted
    BY <1>3, <1>b, <2>1, <2>2
  <2>4. manifest.st = "valid"
    BY <1>d, <2>1, <2>2 DEF Control, Manifests, TypeOK
  <2>5. c \in manifest.resolved[run.v]
    BY <1>d, <2>1, <2>2, <2>4
  <2>6. canon[c] = Content(c, run.v)
    BY <1>a, <1>3, <2>1, <2>2 DEF Sound, OfferedOnDisk, InPlace
  <2> QED BY <1>3, <2>1, <2>3, <2>5, <2>6
<1> QED BY <1>1, <1>2, <1>3, StepWanted

(* A prune keeps all that is offered. *)
LEMMA StepOffered6 ==
  ASSUME TypeOK, Control, Placed, KeepsInRelease, Sound, Next, run'.op = "prune"
  PROVE  abandoned' \/ offered' \subseteq run'.files
<1> SUFFICES ASSUME ~abandoned' PROVE offered' \subseteq run'.files
  OBVIOUS
<1>a. ~abandoned
  BY StepEnv
<1>1. CASE BeginPrune
  <2>1. run'.files = PublishedFiles /\ Readable
    BY <1>1, Beginning
  <2>2. offered' = offered
    BY <1>1 DEF BeginPrune, ghosts
  <2>3. offered \subseteq Selection(Served)
    BY <2>1 DEF Readable, Sound, OfferedKept
  <2>4. manifest.st = "valid" => offered \subseteq manifest.resolved[Served]
    BY <1>a, <2>1 DEF Readable, Sound, OfferedKept
  <2> QED BY <2>1, <2>2, <2>3, <2>4 DEF PublishedFiles
<1>2. CASE run.op = "prune" /\ ~BeginPrune
  <2>1. run.pc = "walk" /\ offered \subseteq run.files
    BY <1>a, <1>2 DEF Control, Shape, Sound, OfferedKept
  <2>2. run'.files = run.files
    BY <2>1, KeepsFiles, Ending
  <2>3. offered' \subseteq offered
    <3>1. ~Syncing(Renaming \cup After)
      BY <1>2 DEF Syncing
    <3> QED BY <3>1, OfferedIs
  <2> QED BY <2>1, <2>2, <2>3
<1>3. run.op = "prune" \/ BeginPrune
  <2>1. ASSUME NEW x \in Versions, NEW y \in Versions, NEW z \in Versions, FetchRelease(x, y, z)
        PROVE  run.op = "prune"
    BY <2>1, Fetching
  <2>2. CASE Renames
    BY <2>2, Renamed DEF Continues
  <2>3. CASE PruneForm
    BY <2>3 DEF PruneForm
  <2> QED BY <2>1, <2>2, <2>3, Beginning, Ending, Proceeds DEF Continues, Renames
<1>4. run.op = "prune" => ~BeginPrune
  BY Ops DEF BeginPrune
<1> QED BY <1>1, <1>2, <1>3, <1>4

(* Every step keeps OfferedKept. *)
LEMMA StepOffered ==
  ASSUME TypeOK, Control, Placed, Asked, KeepsInRelease, Sound, Next
  PROVE  OfferedKept'
BY StepOffered1, StepOffered2, StepOffered3, StepOffered4, StepOffered5, StepOffered6 DEF OfferedKept

(* Index files are replaced and removed, by-hash files and packages only   *)
(* removed, and only by these steps.                                       *)
LEMMA DiskSteps ==
  ASSUME Next
  PROVE  /\ canon' = canon \/ \E c \in Canon : EnsureIndex(c) \/ PruneIndex(c)
         /\ byhash \subseteq byhash' \/ \E h \in Canon \X Contents : PruneByHash(h)
         /\ pool' = pool \/ \E p \in Payloads : EnsurePayload(p) \/ PrunePayload(p)
BY Changes DEF Preserve, Materialize

(* The prune walk keeps what clients of the published Release were offered. *)
LEMMA WalkKeeps ==
  ASSUME TypeOK, Control, Placed, KeepsInRelease, Sound, Pruning, ~abandoned
  PROVE  Served = run.v /\ offered \subseteq run.files
<1>1. run.pc = "walk" /\ run.op \in {"sync", "prune"}
  BY Ops DEF Pruning
<1>2. CASE run.op = "sync"
  <2>1. Syncing(After)
    BY <1>1, <1>2 DEF Syncing, After
  <2> QED BY <2>1, AfterServed DEF Sound, OfferedKept
<1>3. CASE run.op = "prune"
  BY <1>3, PruneServed DEF Sound, OfferedKept
<1> QED BY <1>1, <1>2, <1>3

(* More indexes, more packages and by-hash files. *)
LEMMA NamedMonotone ==
  ASSUME NEW v, NEW s, NEW t, s \subseteq t
  PROVE  Named(v, s) \subseteq Named(v, t) /\ ByHashFiles(v, s) \subseteq ByHashFiles(v, t)
BY DEF Named, ByHashFiles

(* Indexes replaced in place are of the newest Release; unless upstream   *)
(* has moved on they are the published ones.                              *)
LEMMA StepInPlace ==
  ASSUME TypeOK, Control, Placed, SyncedSoFar, KeepsInRelease, Sound, Next, ~abandoned',
         Served' # Absent, seen' <= Served' \/ (Fetched' /\ run'.v = Served')
  PROVE  InPlace(offered, Served)'
<1>a. ~abandoned /\ seen \in Versions /\ seen' \in Versions /\ seen <= seen'
  BY StepEnv DEF TypeOK
<1>b. Served \in Versions \cup {Absent}
  BY ServedType DEF TypeOK
<1> SUFFICES ASSUME NEW c \in offered' PROVE canon'[c] = Content(c, Served')
  BY DEF InPlace
<1>1. CASE Served' = run.v /\ offered' = run.files /\ Syncing(Renaming \cup After) /\ UNCHANGED disk
  <2>1. Syncing({"byhash"} \cup Done)
    BY <1>1 DEF Syncing, Done
  <2> QED BY <1>a, <1>1, <2>1 DEF SyncedSoFar, InPlace, disk
<1>2. ASSUME Served' = Served, offered' \subseteq offered,
             seen <= Served \/ (Fetched /\ run.v = Served)
      PROVE  canon'[c] = Content(c, Served')
  <2>1. canon[c] = Content(c, Served)
    BY <1>a, <1>2 DEF Sound, OfferedOnDisk, InPlace
  <2>2. CASE canon' = canon
    BY <1>2, <2>1, <2>2
  <2>3. ASSUME NEW x \in Canon, EnsureIndex(x)
        PROVE  canon'[c] = Content(c, Served')
    <3>1. run.pc = "indexes" /\ canon' = [canon EXCEPT ![x] = Content(x, run.v)]
      BY <2>3 DEF EnsureIndex
    <3>2. run.op \in {"sync", "verify"} /\ run.v \in Versions
      BY <3>1, Ops, RunFacts
    <3>3. CASE run.op = "verify"
      BY <1>2, <2>1, <3>1, <3>3 DEF Placed, TypeOK
    <3>4. CASE run.op = "sync"
      <4>1. run.v <= seen /\ Served <= run.v
        <5>1. \A r \in {inRelease, release, sig} : r <= run.v
          BY <3>1, <3>4 DEF Placed, Fetched
        <5>2. Served # Absent => Served \in {inRelease, release, sig}
          BY ServedIs
        <5> QED BY <1>2, <3>1, <3>4, <5>1, <5>2 DEF Placed, Fetched
      <4>2. run.v = Served
        BY <1>a, <1>b, <1>2, <3>2, <4>1 DEF Versions, Absent
      <4> QED BY <1>2, <2>1, <3>1, <4>2 DEF TypeOK
    <3> QED BY <3>2, <3>3, <3>4
  <2>4. ASSUME NEW x \in Canon, PruneIndex(x)
        PROVE  canon'[c] = Content(c, Served')
    <3>1. Pruning /\ x \notin run.files /\ canon' = [canon EXCEPT ![x] = NoContent]
      BY <2>4 DEF PruneIndex, StaleIndexes
    <3>2. c # x
      BY <1>a, <1>2, <3>1, WalkKeeps
    <3> QED BY <1>2, <2>1, <3>1, <3>2 DEF TypeOK
  <2> QED BY <2>2, <2>3, <2>4, DiskSteps
<1>3. ASSUME Served' = Served
      PROVE  seen <= Served \/ (Fetched /\ run.v = Served)
  <2>1. CASE seen' <= Served'
    BY <1>a, <1>b, <1>3, <2>1 DEF Versions, Absent
  <2>2. CASE Fetched /\ run'.v = run.v /\ run'.v = Served'
    BY <1>3, <2>2
  <2>3. ASSUME NEW x \in Versions, NEW y \in Versions, NEW z \in Versions, FetchRelease(x, y, z),
               run'.v = Served'
        PROVE  seen <= Served
    BY <1>3, <2>3, Fetching
  <2> QED BY <2>1, <2>2, <2>3, StepWanted
<1> QED BY <1>1, <1>2, <1>3, OfferedIs

(* No step removes a by-hash copy that clients are sent to, and none      *)
(* sends them to one that is not there.                                   *)
LEMMA StepByHashServed ==
  ASSUME TypeOK, Control, Placed, SyncedSoFar, KeepsInRelease, Sound, Next
  PROVE  ByHashServed'
<1> SUFFICES ASSUME ~abandoned', Served' # Absent
             PROVE  ByHashFiles(Served', offered') \subseteq byhash'
  BY Frame DEF ByHashServed
<1>a. ~abandoned
  BY StepEnv
<1>1. CASE Served' = run.v /\ offered' = run.files /\ Syncing(Renaming \cup After) /\ UNCHANGED disk
  <2>1. Syncing(Done)
    BY <1>1 DEF Syncing, Done
  <2> QED BY <1>1, <2>1 DEF SyncedSoFar, disk
<1>2. CASE Served' = Served /\ offered' \subseteq offered
  <2>1. ByHashFiles(Served', offered') \subseteq ByHashFiles(Served, offered)
    BY <1>2, NamedMonotone
  <2>2. ByHashFiles(Served, offered) \subseteq byhash
    BY <1>a, <1>2 DEF Sound, OfferedOnDisk, ByHashServed
  <2>3. ASSUME NEW h \in Canon \X Contents, PruneByHash(h)
        PROVE  ByHashFiles(Served, offered) \subseteq byhash'
    <3>1. Pruning /\ h \notin ByHashFiles(run.v, run.files) /\ byhash' = byhash \ {h}
      BY <2>3 DEF PruneByHash, StaleByHash
    <3>2. ByHashFiles(Served, offered) \subseteq ByHashFiles(run.v, run.files)
      BY <1>a, <3>1, WalkKeeps, NamedMonotone
    <3> QED BY <2>2, <3>1, <3>2
  <2> QED BY <2>1, <2>2, <2>3, DiskSteps
<1> QED BY <1>1, <1>2, OfferedIs

(* No step removes a package that an offered index names, and none        *)
(* offers an index before its packages are there.                         *)
LEMMA StepNamedInPool ==
  ASSUME TypeOK, Control, Placed, SyncedSoFar, KeepsInRelease, Sound, Next, ~abandoned', Served' # Absent
  PROVE  Named(Served', offered') \subseteq pool'
<1>a. ~abandoned
  BY StepEnv
<1>1. CASE Served' = run.v /\ offered' = run.files /\ Syncing(Renaming \cup After) /\ UNCHANGED disk
  <2>1. Syncing({"indexes", "byhash"} \cup Done)
    BY <1>1 DEF Syncing, Done
  <2> QED BY <1>a, <1>1, <2>1 DEF SyncedSoFar, disk
<1>2. CASE Served' = Served /\ offered' \subseteq offered
  <2>1. Named(Served', offered') \subseteq Named(Served, offered)
    BY <1>2, NamedMonotone
  <2>2. Named(Served, offered) \subseteq pool
    BY <1>a, <1>2 DEF Sound, OfferedOnDisk
  <2>3. ASSUME NEW p \in Payloads, PrunePayload(p)
        PROVE  Named(Served, offered) \subseteq pool'
    <3>1. Pruning /\ p \notin Named(run.v, run.files) /\ pool' = pool \ {p}
      BY <2>3 DEF PrunePayload, StalePayloads
    <3>2. Named(Served, offered) \subseteq Named(run.v, run.files)
      BY <1>a, <3>1, WalkKeeps, NamedMonotone
    <3> QED BY <2>2, <3>1, <3>2
  <2>4. ASSUME NEW p \in Payloads, EnsurePayload(p)
        PROVE  Named(Served, offered) \subseteq pool'
    BY <2>2, <2>4 DEF EnsurePayload
  <2> QED BY <2>1, <2>2, <2>3, <2>4, DiskSteps
<1> QED BY <1>1, <1>2, OfferedIs

(* Every step keeps OfferedOnDisk. *)
LEMMA StepOnDisk ==
  ASSUME TypeOK, Control, Placed, SyncedSoFar, KeepsInRelease, Sound, Next
  PROVE  OfferedOnDisk'
<1>1. Named(Served, offered)' = Named(Served', offered')
  BY DEF Named
<1> QED BY <1>1, StepInPlace, StepByHashServed, StepNamedInPool DEF OfferedOnDisk

(* What clients were sent to changes only in these steps. *)
LEMMA PastSteps ==
  ASSUME Next
  PROVE  \/ Renames \/ PruneForm \/ Prepare \/ StagingLost
         \/ OpFails \/ VerifyReturns \/ PruneReturns
         \/ \E s \in Configs : Reconfigure(s)
         \/ past' = past /\ offered' = offered /\ UNCHANGED served
BY Changes DEF Prepare, Reconfigure

(* After the last rename an operation records what it did, and walks. *)
LEMMA AfterSteps ==
  ASSUME Next, run.pc \in After
  PROVE  Commit \/ WriteHistory \/ run' = run \/ run' = Idle
BY DEF After, Next, BeginSync, BeginPlan, BeginVerify, BeginPrune, OpFails, FetchRelease, ResolveFound,
   ResolveMissing, EnsureIndex, Materialize, EnsurePayload, PrunePayload, ResolveReturns, Preserve,
   PayloadsReturn, IndexesReturn, ByHashDone, Reread, VerifyReturns, Prepare, PublishRelease,
   PublishInRelease, PublishSignature, PruneForm, PruneReturns, PruneIndex, PruneByHash, Finish,
   StagingLost, HistoryDamaged, ManifestDamaged, ManifestUpgraded, Reconfigure

(* The generations an operation works with. *)
LEMMA GensKept ==
  ASSUME TypeOK, Control, Next
  PROVE  \/ run'.gens = run.gens \/ WriteHistory \/ run' = Idle
         \/ BeginSync \/ BeginPlan \/ BeginVerify \/ BeginPrune
<1>1. ASSUME NEW c \in Canon, ResolveFound(c) \/ ResolveMissing(c) \/ EnsureIndex(c) \/ Materialize(c)
      PROVE  run'.gens = run.gens
  BY <1>1, Continue
<1>2. ASSUME NEW p \in Payloads, EnsurePayload(p)
      PROVE  run'.gens = run.gens
  BY <1>2, Continue
<1>3. ASSUME ResolveReturns \/ Preserve \/ PayloadsReturn \/ IndexesReturn \/ ByHashDone \/ Reread
      PROVE  run'.gens = run.gens
  BY <1>3, ContinueOn
<1>4. ASSUME PublishRelease \/ PublishInRelease \/ PublishSignature \/ Commit \/ Prepare
      PROVE  run' = Idle \/ run'.gens = run.gens
  BY <1>4, ContinuePublish
<1>5. ASSUME NEW a \in Versions, NEW b \in Versions, NEW d \in Versions, FetchRelease(a, b, d)
      PROVE  run'.gens = run.gens
  BY <1>5, Fetching
<1>6. \/ run' = run \/ run' = Idle
      \/ \E c \in Canon : ResolveFound(c) \/ ResolveMissing(c) \/ EnsureIndex(c) \/ Materialize(c)
      \/ \E p \in Payloads : EnsurePayload(p)
      \/ ResolveReturns \/ Preserve \/ PayloadsReturn \/ IndexesReturn \/ Reread \/ ByHashDone
      \/ PublishRelease \/ PublishInRelease \/ PublishSignature \/ Commit \/ WriteHistory \/ Prepare
      \/ \E a, b, d \in Versions : FetchRelease(a, b, d)
      \/ BeginSync \/ BeginPlan \/ BeginVerify \/ BeginPrune
  BY Ending DEF Next, PrunePayload, PruneForm, PruneIndex, PruneByHash,
     StagingLost, HistoryDamaged, ManifestDamaged, ManifestUpgraded, Reconfigure
<1> QED BY <1>1, <1>2, <1>3, <1>4, <1>5, <1>6

(* A record begins itself. *)
LEMMA BeginsItself ==
  ASSUME NEW g, Good(g)
  PROVE  Begins(g, g)
<1>1. Len(g) <= Len(g)
  BY GoodFacts
<1> QED BY <1>1, BeginsAt

(* What begins the beginning begins the whole. *)
LEMMA BeginsTrans ==
  ASSUME NEW p, Good(p), NEW q, Good(q), NEW g, Good(g), Begins(p, q), Begins(q, g)
  PROVE  Begins(p, g)
<1>1. Len(p) \in 0..3 /\ Len(q) \in 0..3 /\ Len(g) \in 0..3
  BY GoodFacts
<1>2. Len(p) <= Len(q) /\ \A i \in 1..Len(p) : p[i] = q[i]
  BY BeginsAt
<1>3. Len(q) <= Len(g) /\ \A i \in 1..Len(q) : q[i] = g[i]
  BY BeginsAt
<1>4. 1..Len(p) \subseteq 1..Len(q)
  BY <1>1, <1>2
<1> QED BY <1>1, <1>2, <1>3, <1>4, BeginsAt

(* What begins a record and is not empty has its newest generation. *)
LEMMA BeginsHead ==
  ASSUME NEW p, Good(p), NEW g, Good(g), Begins(p, g), p # <<>>
  PROVE  g # <<>> /\ p[1] = g[1]
<1>1. Len(p) \in 1..3 /\ Len(g) \in 0..3
  BY GoodFacts
<1>2. Len(p) <= Len(g) /\ p[1] = g[1]
  BY <1>1, BeginsAt
<1> QED BY <1>1, <1>2, GoodFacts

(* Each index has its generations in order. *)
LEMMA GoodGens ==
  ASSUME NEW gens \in [Canon -> Seq(Contents)], GensOK(gens), NEW c \in Canon
  PROVE  Good(gens[c])
BY DEF GensOK, Good

(* A Release is published and what it sends clients to is put in front; or *)
(* what they were sent to is cut short, together with what is offered.     *)
Sends ==
  /\ Renames \/ PruneForm
  /\ Syncing(Renaming \cup {"walk"})
  /\ Served' = run.v /\ offered' = run.files /\ past' = UpdateHistory(past, run.v, run.files)
  /\ UNCHANGED disk

Trims ==
  /\ Served' \in {Served, Absent}
  /\ \A c \in Canon : Begins(past'[c], past[c])
  /\ Served' # Absent => \A c \in offered : past'[c] # <<>> => c \in offered'
  /\ inRelease' = Absent /\ release' = Absent => inRelease = Absent /\ release = Absent

LEMMA PastIs ==
  ASSUME TypeOK, Control, Placed, KeepsInRelease, Sound, Next
  PROVE  Sends \/ Trims
<1>a. past \in [Canon -> Seq(Contents)] /\ \A c \in Canon : Good(past[c])
  BY DEF TypeOK, GensOK, Good
<1>b. \A c \in Canon : Begins(past[c], past[c]) /\ Begins(<<>>, past[c])
  BY <1>a, BeginsItself, BeginsEmpty
<1>c. offered \subseteq Canon
  BY DEF TypeOK
<1>d. UNCHANGED served => /\ Served' = Served
                          /\ inRelease' = inRelease /\ release' = release
  BY Frame DEF served
<1>1. CASE Renames
  <2>1. /\ Syncing(Renaming) /\ Served' \in {run.v, Served, Absent} /\ run.v # Absent
        /\ Served' = run.v => offered' = run.files /\ past' = UpdateHistory(past, run.v, run.files)
        /\ Served' # run.v => past' = past /\ offered' = IF Served' = Absent THEN {} ELSE offered
        /\ UNCHANGED disk
    BY <1>1, Renamed
  <2>2. CASE Served' = run.v
    BY <1>1, <2>1, <2>2 DEF Sends, Syncing
  <2>3. CASE Served' # run.v
    <3>1. inRelease' = Absent /\ release' = Absent => inRelease = Absent /\ release = Absent
      BY <1>1, <2>1 DEF Renames, PublishRelease, PublishInRelease, PublishSignature
    <3> QED BY <1>b, <2>1, <2>3, <3>1 DEF Trims
  <2> QED BY <2>2, <2>3
<1>2. CASE PruneForm
  <2>1. /\ run.pc = "walk" /\ run.op \in {"sync", "prune"}
        /\ Served = run.v /\ Served' = run.v /\ run.v # Absent
        /\ run.op = "sync" => offered' = run.files /\ past' = UpdateHistory(past, run.v, run.files)
        /\ run.op = "prune" => offered' = offered /\ past' = past
        /\ UNCHANGED disk
    BY <1>2, FormPruned
  <2>2. CASE run.op = "sync"
    BY <1>2, <2>1, <2>2 DEF Sends, Syncing
  <2>3. CASE run.op = "prune"
    <3>1. inRelease' # Absent \/ release' # Absent
      BY <2>1, ServedIs
    <3> QED BY <1>b, <2>1, <2>3, <3>1 DEF Trims
  <2> QED BY <2>1, <2>2, <2>3
<1>3. CASE Prepare
  <2> DEFINE gone == IF amnesia /\ run.v = Served THEN Selection(run.v) \ run.files ELSE {}
  <2>1. /\ UNCHANGED served /\ offered' = offered \ gone
        /\ past' = [c \in Canon |-> IF c \in gone THEN <<>> ELSE past[c]]
    BY <1>3 DEF Prepare
  <2> HIDE DEF gone
  <2>2. \A c \in Canon : past'[c] = IF c \in gone THEN <<>> ELSE past[c]
    BY <2>1
  <2> QED BY <1>b, <1>c, <1>d, <2>1, <2>2 DEF Trims
<1>4. ASSUME NEW s \in Configs, Reconfigure(s)
      PROVE  Trims
  <2>1. /\ UNCHANGED served /\ offered' = offered \cap s
        /\ past' = [c \in Canon |-> IF c \in s THEN past[c] ELSE <<>>]
    BY <1>4 DEF Reconfigure
  <2>2. \A c \in Canon : past'[c] = IF c \in s THEN past[c] ELSE <<>>
    BY <2>1
  <2> QED BY <1>b, <1>c, <1>d, <2>1, <2>2 DEF Trims
<1>5. CASE StagingLost
  <2>1. /\ UNCHANGED served /\ offered' = offered
        /\ past' = [c \in Canon |-> Newest(1, past[c])]
    BY <1>5 DEF StagingLost
  <2>2. ASSUME NEW c \in Canon
        PROVE  Begins(past'[c], past[c])
    <3>1. past'[c] = Newest(1, past[c])
      BY <2>1
    <3> QED BY <1>a, <1>b, <3>1, BeginsNewest
  <2> QED BY <1>d, <2>1, <2>2 DEF Trims
<1>6. CASE OpFails \/ VerifyReturns \/ PruneReturns
  <2>1. Finish /\ UNCHANGED served /\ offered' = offered
    BY <1>6 DEF OpFails, VerifyReturns, PruneReturns
  <2>2. CASE past' = past
    BY <1>b, <1>d, <2>1, <2>2 DEF Trims
  <2>3. CASE past' = [c \in Canon |-> Newest(Len(history.gens[c]), past[c])]
    <3>1. ASSUME NEW c \in Canon
          PROVE  Begins(past'[c], past[c])
      <4>1. past'[c] = Newest(Len(history.gens[c]), past[c])
        BY <2>3
      <4>2. Len(history.gens[c]) \in Nat
        BY DEF TypeOK
      <4> QED BY <1>a, <1>b, <4>1, <4>2, BeginsNewest
    <3> QED BY <1>d, <2>1, <3>1 DEF Trims
  <2> QED BY <2>1, <2>2, <2>3 DEF Finish
<1>7. CASE past' = past /\ offered' = offered /\ UNCHANGED served
  BY <1>b, <1>d, <1>7 DEF Trims
<1> QED BY <1>1, <1>2, <1>3, <1>4, <1>5, <1>6, <1>7, PastSteps

(* What a Release that is published sends clients to. *)
LEMMA SentIs ==
  ASSUME NEW c \in Canon, NEW gens
  PROVE  UpdateHistory(gens, run.v, run.files)[c] =
           IF ByHash(run.v) /\ c \in run.files THEN Remember(gens[c], Content(c, run.v)) ELSE <<>>
BY DEF UpdateHistory

(* With no Release file published, nothing is owed to clients. *)
LEMMA StepHistory4 ==
  ASSUME TypeOK, Control, Placed, KeepsInRelease, Sound, Next,
         inRelease' = Absent, release' = Absent
  PROVE  past' = NoGens
<1>1. CASE Sends
  <2>1. run.v # Absent
    BY <1>1, RunFacts DEF Sends, Syncing, Renaming
  <2> QED BY <1>1, <2>1, ServedIs DEF Sends
<1>2. CASE Trims
  <2>1. past = NoGens
    BY <1>2 DEF Trims, Sound, HistoryKept
  <2>2. past' \in [Canon -> Seq(Contents)] /\ \A c \in Canon : Good(past'[c])
    BY StepPast DEF GensOK, Good
  <2>3. ASSUME NEW c \in Canon
        PROVE  past'[c] = <<>>
    <3>1. Begins(past'[c], <<>>)
      BY <1>2, <2>1 DEF Trims, NoGens
    <3> QED BY <2>2, <3>1, GoodEmpty, BeginsHead
  <2> QED BY <2>2, <2>3 DEF NoGens
<1> QED BY <1>1, <1>2, PastIs

(* The latest content that clients were sent to is that of the Release    *)
(* they find.                                                             *)
LEMMA StepHistory5 ==
  ASSUME TypeOK, Control, Placed, KeepsInRelease, Sound, Next,
         Served' # Absent, NEW c \in Canon, past'[c] # <<>>
  PROVE  ByHash(Served') /\ c \in offered' /\ past'[c][1] = Content(c, Served')
<1>1. CASE Sends
  <2>1. past'[c] = IF ByHash(run.v) /\ c \in run.files THEN Remember(past[c], Content(c, run.v)) ELSE <<>>
    BY <1>1, SentIs DEF Sends
  <2>2. Good(past[c])
    BY GoodGens DEF TypeOK
  <2>3. c \in run.files => Content(c, run.v) \in Contents
    BY <1>1, RunFacts, IndexType DEF Sends, Syncing, Renaming
  <2> QED BY <1>1, <2>1, <2>2, <2>3, RememberFirst DEF Sends
<1>2. CASE Trims
  <2>1. Served' = Served
    BY <1>2 DEF Trims
  <2>2. Good(past'[c]) /\ Good(past[c])
    BY StepPast, GoodGens DEF TypeOK
  <2>3. past[c] # <<>> /\ past'[c][1] = past[c][1]
    BY <1>2, <2>2, BeginsHead DEF Trims
  <2>4. ByHash(Served) /\ c \in offered /\ past[c][1] = Content(c, Served)
    BY <2>1, <2>3 DEF Sound, HistoryKept
  <2> QED BY <1>2, <2>1, <2>3, <2>4 DEF Trims
<1> QED BY <1>1, <1>2, PastIs

(* A sync that starts with a history that it cannot read protects what it  *)
(* does not know.                                                          *)
LEMMA StepHistory1 ==
  ASSUME TypeOK, Control, Placed, KeepsInRelease, Sound, Next
  PROVE  run'.lost => run'.protect
<1>a. run.lost => run.protect
  BY DEF Sound, HistoryKept
<1>1. CASE run' = Idle \/ BeginSync \/ BeginPlan \/ BeginVerify \/ BeginPrune
  BY <1>1, Beginning, Ending
<1>2. ASSUME NEW x \in Versions, NEW y \in Versions, NEW z \in Versions, FetchRelease(x, y, z)
      PROVE  run'.lost => run'.protect
  BY <1>2, <1>a, Fetching
<1>3. Renames => Continues
  BY Renamed
<1>4. PruneForm => run' = run
  BY DEF PruneForm
<1> QED BY <1>a, <1>1, <1>2, <1>3, <1>4, Proceeds DEF Continues, Renames

(* A sync over a corrupt history knows that it lost the record.           *)
LEMMA StepHistory2 ==
  ASSUME TypeOK, Control, Placed, KeepsInRelease, Sound, Next, run'.op = "sync", history'.st = "corrupt"
  PROVE  run'.lost
<1>a. run.op = "sync" /\ history.st = "corrupt" => run.lost
  BY DEF Sound, HistoryKept
<1>b. run.pc = "idle" => run.op = "none"
  BY Ops
<1>1. CASE BeginSync
  BY <1>1, Beginning DEF BeginSync, state
<1>2. CASE run.op = "sync" /\ run'.lost = run.lost
  <2>1. history' = history \/ WriteHistory
    BY <1>2, <1>b, Changes DEF BeginPrune, StagingLost, HistoryDamaged
  <2> QED BY <1>2, <1>a, <2>1 DEF WriteHistory
<1>3. ASSUME NEW x \in Versions, NEW y \in Versions, NEW z \in Versions, FetchRelease(x, y, z)
      PROVE  run.op = "sync" /\ run'.lost = run.lost
  BY <1>3, Fetching
<1>4. Renames => Continues
  BY Renamed
<1>5. PruneForm => run' = run
  BY DEF PruneForm
<1> QED BY <1>1, <1>2, <1>3, <1>4, <1>5, Beginning, Ending, Proceeds DEF Continues, Renames

(* A prune works with the record as it is on disk. *)
LEMMA StepHistory3 ==
  ASSUME TypeOK, Control, Placed, KeepsInRelease, Sound, Next, run'.op = "prune"
  PROVE  run'.gens = history'.gens /\ (history'.st = "corrupt" => run'.protect)
<1>1. CASE BeginPrune
  BY <1>1, Beginning
<1>2. CASE run.op = "prune" /\ ~BeginPrune
  <2>1. run.pc = "walk"
    BY <1>2 DEF Control, Shape
  <2>2. run' = run
    BY <2>1, <1>2, AfterSteps, Ending DEF After, Commit, WriteHistory
  <2>3. history' = history
    BY <1>2, <2>1, Changes DEF WriteHistory, StagingLost, HistoryDamaged
  <2> QED BY <1>2, <2>2, <2>3 DEF Sound, HistoryKept
<1>3. run.op = "prune" \/ BeginPrune
  <2>1. ASSUME NEW x \in Versions, NEW y \in Versions, NEW z \in Versions, FetchRelease(x, y, z)
        PROVE  run.op = "prune"
    BY <2>1, Fetching
  <2>2. CASE Renames
    BY <2>2, Renamed DEF Continues
  <2>3. CASE PruneForm
    BY <2>3 DEF PruneForm
  <2> QED BY <2>1, <2>2, <2>3, Beginning, Ending, Proceeds DEF Continues, Renames
<1>4. run.op = "prune" => ~BeginPrune
  BY Ops DEF BeginPrune
<1> QED BY <1>1, <1>2, <1>3, <1>4

(* How a sync comes to walk. *)
LEMMA ToWalk ==
  ASSUME TypeOK, Control, Next, run'.op = "sync", run'.pc = "walk"
  PROVE  WriteHistory \/ (run.pc = "walk" /\ run' = run)
<1>1. CASE run.pc \in After
  BY <1>1, AfterSteps, ContinuePublish, Ending DEF Commit
<1>2. run.pc \in After
  <2>1. ~BeginSync /\ ~BeginPlan /\ ~BeginVerify /\ ~BeginPrune
    BY Beginning
  <2>2. ASSUME NEW x \in Versions, NEW y \in Versions, NEW z \in Versions, FetchRelease(x, y, z)
        PROVE  FALSE
    BY <2>2, Fetching
  <2>3. ~PublishRelease /\ ~PublishInRelease /\ ~PublishSignature
    BY ContinuePublish
  <2>4. PruneForm => run.pc \in After
    BY DEF PruneForm, Pruning, After
  <2>5. run' # Idle
    BY Ending
  <2> QED BY <2>1, <2>2, <2>3, <2>4, <2>5, Proceeds DEF Middle, After
<1> QED BY <1>1, <1>2

(* The walk of a sync starts from a record that has the published         *)
(* contents in front.                                                     *)
LEMMA StepHistory6 ==
  ASSUME TypeOK, Control, Placed, KeepsInRelease, Sound, Next,
         Syncing({"walk"})', ByHash(run'.v), NEW c \in run'.files
  PROVE  run'.gens[c] # <<>> /\ run'.gens[c][1] = Content(c, run'.v)
<1>1. run'.op = "sync" /\ run'.pc = "walk"
  BY DEF Syncing
<1>2. CASE WriteHistory
  <2>1. /\ run'.v = run.v /\ run'.files = run.files
        /\ run'.gens = UpdateHistory(run.gens, run.v, run.files)
    BY <1>2, ContinuePublish DEF Continues
  <2>2. run.pc = "history"
    BY <1>2 DEF WriteHistory
  <2>3. c \in Canon /\ Content(c, run.v) \in Contents
    BY <2>1, <2>2, RunFacts, IndexType
  <2>4. Good(run.gens[c])
    BY <2>3, RunFacts, GoodGens DEF RunState
  <2> QED BY <2>1, <2>3, <2>4, SentIs, RememberFirst
<1>3. CASE run.pc = "walk" /\ run' = run
  BY <1>1, <1>3 DEF Sound, HistoryKept, Syncing
<1> QED BY <1>1, <1>2, <1>3, ToWalk

(* What a record recalls it recalls of every shorter account. *)
LEMMA RecallsIs ==
  ASSUME NEW gens \in [Canon -> Seq(Contents)], GensOK(gens),
         NEW sent \in [Canon -> Seq(Contents)]
  PROVE  Recalls(gens, sent) <=>
           \A c \in Canon : sent[c] # <<>> => Begins(sent[c], Remember(gens[c], sent[c][1]))
BY DEF Recalls, Begins

(* Less is owed: it is recalled all the more. *)
LEMMA RecallsLess ==
  ASSUME NEW gens \in [Canon -> Seq(Contents)], GensOK(gens),
         NEW sent \in [Canon -> Seq(Contents)], GensOK(sent),
         NEW less \in [Canon -> Seq(Contents)], GensOK(less),
         Recalls(gens, sent), \A c \in Canon : Begins(less[c], sent[c])
  PROVE  Recalls(gens, less)
<1> SUFFICES ASSUME NEW c \in Canon, less[c] # <<>>
             PROVE  Begins(less[c], Remember(gens[c], less[c][1]))
  BY RecallsIs
<1>1. Good(gens[c]) /\ Good(sent[c]) /\ Good(less[c]) /\ Begins(less[c], sent[c])
  BY GoodGens
<1>2. sent[c] # <<>> /\ less[c][1] = sent[c][1]
  BY <1>1, BeginsHead
<1>3. Begins(sent[c], Remember(gens[c], sent[c][1]))
  BY <1>2, RecallsIs
<1>4. sent[c][1] \in Contents
  <2>1. Len(sent[c]) \in 1..3
    BY <1>1, <1>2, GoodFacts
  <2> QED BY <1>1, <2>1, GoodFacts
<1>5. Good(Remember(gens[c], sent[c][1]))
  BY <1>1, <1>4, RememberGood
<1> QED BY <1>1, <1>2, <1>3, <1>5, BeginsTrans

(* What is published was offered, as far as it was sent to by hash: so a    *)
(* record brought up to date with it covers what clients were sent to.      *)
LEMMA PublishedCovers ==
  ASSUME TypeOK, Control, Sound, ~abandoned, Readable, NEW c \in Canon, past[c] # <<>>
  PROVE  /\ c \in PublishedFiles /\ ByHash(Served) /\ past[c][1] = Content(c, Served)
         /\ past[c][1] \in Contents
         /\ \A gens : UpdateHistory(gens, Served, PublishedFiles)[c] = Remember(gens[c], past[c][1])
<1>1. Served # Absent
  BY DEF Readable
<1>2. ByHash(Served) /\ c \in offered /\ past[c][1] = Content(c, Served)
  BY <1>1 DEF Sound, HistoryKept
<1>3. c \in PublishedFiles
  <2>1. offered \subseteq Selection(Served)
    BY <1>1 DEF Sound, OfferedKept
  <2>2. manifest.st = "valid" => offered \subseteq manifest.resolved[Served]
    BY <1>1 DEF Readable, Sound, OfferedKept
  <2> QED BY <1>2, <2>1, <2>2 DEF PublishedFiles
<1>4. past[c][1] \in Contents
  <2>1. Good(past[c])
    BY GoodGens DEF TypeOK
  <2>2. 1 \in 1..Len(past[c])
    BY <2>1, GoodFacts
  <2> QED BY <2>1, <2>2, GoodFacts
<1> QED BY <1>2, <1>3, <1>4 DEF UpdateHistory

(* Between two syncs the history on disk recalls what is owed, also       *)
(* after one that stopped before it wrote the history.                    *)
LEMMA StepRecalls ==
  ASSUME TypeOK, Control, Placed, KeepsInRelease, Sound, Next, ~abandoned', ~lapse',
         run'.op # "sync", history'.st # "corrupt"
  PROVE  Recalls(history'.gens, past')
<1>a. /\ history.gens \in [Canon -> Seq(Contents)] /\ GensOK(history.gens)
      /\ past \in [Canon -> Seq(Contents)] /\ GensOK(past)
  BY DEF TypeOK
<1>b. /\ history'.gens \in [Canon -> Seq(Contents)] /\ GensOK(history'.gens)
      /\ past' \in [Canon -> Seq(Contents)] /\ GensOK(past')
  BY StepHistory, StepPast
<1>c. ~abandoned /\ ~lapse
  BY StepEnv
<1>d. run.op # "sync" /\ history.st # "corrupt" => Recalls(history.gens, past)
  BY <1>c DEF Sound, HistoryKept, Remembered
<1>e. run.pc = "idle" => run.op = "none"
  BY Ops
<1>1. CASE OpFails \/ VerifyReturns \/ PruneReturns
  <2>1. Finish /\ UNCHANGED state
    BY <1>1 DEF OpFails, VerifyReturns, PruneReturns
  <2>2. history' = history
    BY <2>1 DEF state
  <2>3. ~(history.st # "corrupt" /\ ~Recalls(history.gens, past'))
    BY <2>1 DEF Finish, TypeOK
  <2> QED BY <2>2, <2>3
<1>2. ASSUME run.op # "sync", history' = history
      PROVE  Recalls(history'.gens, past')
  <2>1. ~Sends
    BY <1>2 DEF Sends, Syncing
  <2>2. \A c \in Canon : Begins(past'[c], past[c])
    BY <2>1, PastIs DEF Trims
  <2> QED BY <1>2, <1>a, <1>b, <1>d, <2>2, RecallsLess
<1>3. CASE BeginPrune
  <2>1. /\ Readable /\ past' = past /\ run.pc = "idle"
        /\ history' = IF history.st = "missing"
                      THEN [st |-> "valid", gens |-> UpdateHistory(NoGens, Served, PublishedFiles)]
                      ELSE history
    BY <1>3 DEF BeginPrune, ghosts
  <2>2. CASE history.st = "missing"
    <3> SUFFICES ASSUME NEW c \in Canon, past[c] # <<>>
                 PROVE  Begins(past[c], Remember(history'.gens[c], past[c][1]))
      BY <1>b, <2>1, RecallsIs
    <3> DEFINE x == past[c][1]
               r == Remember(<<>>, x)
    <3>1. x \in Contents /\ history'.gens[c] = Remember(NoGens[c], x)
      BY <1>c, <2>1, <2>2, PublishedCovers
    <3>2. NoGens[c] = <<>> /\ history.gens = NoGens
      BY <2>2 DEF NoGens, Control, Manifests
    <3>3. Begins(past[c], Remember(NoGens[c], x))
      BY <1>a, <1>d, <1>e, <2>1, <2>2, <3>2, RecallsIs
    <3>4. Good(r) /\ r # <<>> /\ r[1] = x
      BY <3>1, GoodEmpty, RememberGood, RememberFirst
    <3>5. Remember(r, x) = r
      BY <3>4, RememberHead
    <3> QED BY <3>1, <3>2, <3>3, <3>5
  <2>3. CASE history.st # "missing"
    BY <1>2, <1>e, <2>1, <2>3
  <2> QED BY <2>2, <2>3
<1>4. CASE StagingLost
  <2>1. /\ history'.gens = NoGens
        /\ past' = [c \in Canon |-> Newest(1, past[c])]
    BY <1>4 DEF StagingLost
  <2> SUFFICES ASSUME NEW c \in Canon, past'[c] # <<>>
               PROVE  Begins(past'[c], Remember(history'.gens[c], past'[c][1]))
    BY <1>b, RecallsIs
  <2> DEFINE p == past'[c]
             r == Remember(<<>>, p[1])
  <2>2. history'.gens[c] = <<>>
    BY <2>1 DEF NoGens
  <2>3. Good(p) /\ Good(past[c])
    BY <1>a, <1>b, GoodGens
  <2>4. p = Newest(1, past[c])
    BY <2>1
  <2> HIDE DEF p
  <2>5. Len(p) = 1
    <3>1. Len(p) = IF Len(past[c]) < 1 THEN Len(past[c]) ELSE 1
      BY <2>3, <2>4, NewestAt
    <3>2. Len(p) \in 1..3 /\ Len(past[c]) \in 0..3
      BY <2>3, GoodFacts DEF p
    <3> QED BY <3>1, <3>2
  <2>6. p[1] \in Contents
    <3>1. 1 \in 1..Len(p)
      BY <2>5
    <3> QED BY <2>3, <3>1, GoodFacts
  <2>7. Good(r) /\ r # <<>> /\ r[1] = p[1] /\ Len(r) \in 1..3
    BY <2>6, GoodEmpty, RememberGood, RememberFirst, RememberLen
  <2> HIDE DEF r
  <2>8. Begins(p, r)
    BY <2>3, <2>5, <2>7, BeginsAt
  <2> QED BY <2>2, <2>8 DEF p, r
<1>5. CASE HistoryDamaged
  BY <1>5 DEF HistoryDamaged
<1>6. CASE WriteHistory
  <2>1. run.pc = "history" /\ run'.op = run.op
    BY <1>6, ContinuePublish DEF WriteHistory, Continues
  <2> QED BY <2>1, Ops
<1>7. CASE history' = history /\ run.op = "sync" /\ ~(OpFails \/ VerifyReturns \/ PruneReturns)
  <2>1. run.pc # "idle" /\ ~Prepare
    <3>1. run.pc # "idle"
      BY <1>7, Ops
    <3>2. Prepare => run'.op = "sync"
      BY <1>7, ContinuePublish DEF Continues
    <3> QED BY <3>1, <3>2
  <2>2. run' # Idle
    <3>1. ASSUME NEW c \in Canon, ResolveFound(c) \/ ResolveMissing(c) \/ EnsureIndex(c) \/ Materialize(c)
          PROVE  run'.op = run.op
      BY <3>1, Continue DEF Continues
    <3>2. ASSUME NEW p \in Payloads, EnsurePayload(p)
          PROVE  run'.op = run.op
      BY <3>2, Continue DEF Continues
    <3>3. ASSUME ResolveReturns \/ Preserve \/ PayloadsReturn \/ IndexesReturn \/ ByHashDone \/ Reread
          PROVE  run'.op = run.op
      BY <3>3, ContinueOn DEF Continues
    <3>4. ASSUME PublishRelease \/ PublishInRelease \/ PublishSignature \/ Commit \/ WriteHistory
          PROVE  run'.op = run.op
      BY <3>4, ContinuePublish DEF Continues
    <3>5. ASSUME NEW x \in Versions, NEW y \in Versions, NEW z \in Versions, FetchRelease(x, y, z)
          PROVE  run'.op = run.op
      BY <3>5, Fetching
    <3>6. \/ run' = run
          \/ \E c \in Canon : ResolveFound(c) \/ ResolveMissing(c) \/ EnsureIndex(c) \/ Materialize(c)
          \/ \E p \in Payloads : EnsurePayload(p)
          \/ ResolveReturns \/ Preserve \/ PayloadsReturn \/ IndexesReturn \/ Reread \/ ByHashDone
          \/ PublishRelease \/ PublishInRelease \/ PublishSignature \/ Commit \/ WriteHistory
          \/ \E a, b, d \in Versions : FetchRelease(a, b, d)
      BY <1>7, <2>1 DEF Next, PrunePayload, PruneForm, PruneIndex, PruneByHash, BeginSync, BeginPlan,
         BeginVerify, BeginPrune, StagingLost, HistoryDamaged, ManifestDamaged, ManifestUpgraded, Reconfigure
    <3>7. run'.op = run.op
      BY <3>1, <3>2, <3>3, <3>4, <3>5, <3>6
    <3> QED BY <1>7, <3>7
  <2>3. ASSUME NEW x \in Versions, NEW y \in Versions, NEW z \in Versions, FetchRelease(x, y, z)
        PROVE  run'.op = run.op
    BY <2>3, Fetching
  <2>4. Renames => Continues
    BY Renamed
  <2>5. PruneForm => run' = run
    BY DEF PruneForm
  <2> QED BY <1>7, <2>1, <2>2, <2>3, <2>4, <2>5, Proceeds
      DEF Continues, Renames, BeginSync, BeginPlan, BeginVerify, BeginPrune
<1> QED BY <1>1, <1>2, <1>3, <1>4, <1>5, <1>6, <1>7, Changes

(* The by-hash copies that are kept on record are on disk. *)
LEMMA StepRetained ==
  ASSUME TypeOK, Control, Placed, SyncedSoFar, KeepsInRelease, Sound, Next, ~abandoned', ~lapse'
  PROVE  Retained'
<1>a. /\ \A c \in Canon : Good(past[c]) /\ Good(past'[c]) /\ Good(run.gens[c]) /\ Good(history.gens[c])
      /\ past \in [Canon -> Seq(Contents)] /\ history.gens \in [Canon -> Seq(Contents)] /\ GensOK(history.gens)
  <2>1. /\ past \in [Canon -> Seq(Contents)] /\ GensOK(past)
        /\ past' \in [Canon -> Seq(Contents)] /\ GensOK(past')
        /\ run.gens \in [Canon -> Seq(Contents)] /\ GensOK(run.gens)
        /\ history.gens \in [Canon -> Seq(Contents)] /\ GensOK(history.gens)
    BY StepPast DEF TypeOK, RunState
  <2> QED BY <2>1, GoodGens
<1>b. ~abandoned /\ ~lapse
  BY StepEnv
<1>c. Remembered
  BY <1>b DEF Sound, HistoryKept
<1>d. \A c \in Canon : \A i \in 1..Len(past[c]) : <<c, past[c][i]>> \in byhash
  BY <1>c DEF Remembered, Retained
<1> SUFFICES ASSUME NEW c \in Canon, NEW i \in 1..Len(past'[c])
             PROVE  <<c, past'[c][i]>> \in byhash'
  BY DEF Retained
<1>1. CASE Sends
  <2>1. past'[c] = IF ByHash(run.v) /\ c \in run.files THEN Remember(past[c], Content(c, run.v)) ELSE <<>>
    BY <1>1, SentIs DEF Sends
  <2>2. ByHash(run.v) /\ c \in run.files
    BY <2>1
  <2>3. Syncing(Done) /\ byhash' = byhash
    BY <1>1 DEF Sends, Syncing, Done, After, Renaming, disk
  <2>4. <<c, Content(c, run.v)>> \in byhash
    BY <2>2, <2>3 DEF SyncedSoFar, ByHashFiles
  <2>5. Content(c, run.v) \in Contents
    BY <1>1, <2>2, RunFacts, IndexType DEF Sends, Syncing, Renaming
  <2>6. CASE i = 1
    <3>1. past'[c][1] = Content(c, run.v)
      BY <1>a, <2>1, <2>2, <2>5, RememberFirst
    <3> QED BY <2>3, <2>4, <2>6, <3>1
  <2>7. CASE i # 1
    <3>1. Has(past[c], past'[c][i])
      BY <1>a, <2>1, <2>2, <2>5, <2>7, RememberFrom
    <3> QED BY <1>d, <2>3, <3>1 DEF Has
  <2> QED BY <2>6, <2>7
<1>2. CASE Trims
  <2>1. Begins(past'[c], past[c])
    BY <1>2 DEF Trims
  <2>2. i \in 1..Len(past[c]) /\ past'[c][i] = past[c][i]
    <3>1. Len(past'[c]) \in 0..3 /\ Len(past[c]) \in 0..3
      BY <1>a, GoodFacts
    <3>2. Len(past'[c]) <= Len(past[c]) /\ \A k \in 1..Len(past'[c]) : past'[c][k] = past[c][k]
      BY <1>a, <2>1, BeginsAt
    <3> QED BY <3>1, <3>2
  <2>3. <<c, past[c][i]>> \in byhash
    BY <1>d, <2>2
  <2>4. ASSUME NEW h \in Canon \X Contents, PruneByHash(h)
        PROVE  h # <<c, past[c][i]>>
    <3> SUFFICES ASSUME h = <<c, past[c][i]>> PROVE FALSE
      OBVIOUS
    <3>1. /\ Pruning /\ ~run.protect
          /\ h \notin ByHashFiles(run.v, run.files)
          /\ ~Has(run.gens[c], past[c][i])
      BY <2>4 DEF PruneByHash, StaleByHash, Has
    <3>2. run.pc = "walk" /\ run.op \in {"sync", "prune"}
      BY <3>1, Ops DEF Pruning
    <3>3. CASE run.op = "sync"
      <4>1. Begins(past[c], run.gens[c])
        BY <1>c, <3>1, <3>2, <3>3 DEF Remembered, Covers, Renaming
      <4> QED BY <1>a, <2>2, <3>1, <4>1, BeginsHas
    <3>4. CASE run.op = "prune"
      <4> DEFINE x == past[c][1]
      <4>1. run.gens = history.gens /\ history.st # "corrupt"
        BY <3>1, <3>4 DEF Sound, HistoryKept
      <4>2. past[c] # <<>> /\ 1 \in 1..Len(past[c])
        BY <1>a, <2>2, GoodFacts
      <4>3. x \in Contents
        BY <1>a, <4>2, GoodFacts
      <4>4. Begins(past[c], Remember(history.gens[c], x))
        BY <1>a, <1>c, <3>4, <4>1, <4>2, RecallsIs DEF Remembered
      <4>5. Has(Remember(history.gens[c], x), past[c][i])
        BY <1>a, <2>2, <4>3, <4>4, RememberGood, BeginsHas
      <4>6. past[c][i] = x
        <5>1. PICK k \in 1..Len(Remember(history.gens[c], x)) :
                 Remember(history.gens[c], x)[k] = past[c][i]
          BY <4>5 DEF Has
        <5>2. CASE k = 1
          BY <1>a, <4>3, <5>1, <5>2, RememberFirst
        <5>3. CASE k # 1
          BY <1>a, <3>1, <4>1, <4>3, <5>1, <5>3, RememberFrom
        <5> QED BY <5>2, <5>3
      <4>7. Served # Absent /\ Served = run.v
        BY <3>4, PruneServed
      <4>8. ByHash(Served) /\ c \in offered /\ x = Content(c, Served)
        BY <4>2, <4>7 DEF Sound, HistoryKept
      <4>9. c \in run.files
        BY <1>b, <3>1, <4>8, WalkKeeps
      <4> QED BY <3>1, <4>6, <4>7, <4>8, <4>9 DEF ByHashFiles
    <3> QED BY <3>2, <3>3, <3>4
  <2>5. ASSUME NEW h \in Canon \X Contents, PruneByHash(h)
        PROVE  byhash' = byhash \ {h}
    BY <2>5 DEF PruneByHash
  <2> QED BY <2>2, <2>3, <2>4, <2>5, DiskSteps
<1> QED BY <1>1, <1>2, PastIs

(* How a sync goes on, with the generations it works with. *)
LEMMA SyncGoesOn ==
  ASSUME TypeOK, Control, Next, run'.op = "sync"
  PROVE  \/ BeginSync
         \/ /\ run.op = "sync" /\ run'.protect = run.protect
            /\ \/ /\ run'.gens = run.gens /\ ~Renames
                  /\ run.pc \notin Renaming \cup {"commit", "history"}
                  /\ run'.pc \notin {"inline", "signature", "commit", "history"}
                  /\ PruneForm => run.pc = "walk"
               \/ run' = run /\ ~Renames /\ ~PruneForm
               \/ Renames
               \/ Commit
               \/ WriteHistory
<1>1. ASSUME NEW x \in Versions, NEW y \in Versions, NEW z \in Versions, FetchRelease(x, y, z)
      PROVE  /\ run.op = "sync" /\ run'.protect = run.protect /\ run'.gens = run.gens
             /\ run.pc = "fetch" /\ run'.pc = "resolve" /\ ~Renames
  BY <1>1, Fetching DEF FetchRelease, Renames, PublishRelease, PublishInRelease, PublishSignature
<1>2. CASE Renames
  BY <1>2, ContinuePublish DEF Renames, Continues
<1>3. CASE PruneForm
  <2>1. run' = run /\ run.pc = "walk"
    BY <1>3 DEF PruneForm, Pruning
  <2>2. ~Renames
    BY <2>1 DEF Renames, PublishRelease, PublishInRelease, PublishSignature
  <2> QED BY <1>3, <2>1, <2>2 DEF Renaming
<1>4. ASSUME Continues, ~Renames, ~PruneForm,
             \/ run'.pc = run.pc
             \/ run.pc \in Middle /\ run'.pc \in Middle \cup {"release"}
             \/ run.pc \in After /\ run'.pc \in After
      PROVE  /\ run.op = "sync" /\ run'.protect = run.protect
             /\ \/ /\ run'.gens = run.gens
                   /\ run.pc \notin Renaming \cup {"commit", "history"}
                   /\ run'.pc \notin {"inline", "signature", "commit", "history"}
                \/ run' = run \/ Commit \/ WriteHistory
  <2>1. run' # Idle /\ ~BeginPlan /\ ~BeginVerify /\ ~BeginPrune /\ run.op = "sync" /\ ~BeginSync
    <3>1. run.op = "sync"
      BY <1>4 DEF Continues
    <3>2. run.pc # "idle"
      BY <3>1, Ops
    <3>3. ~BeginSync
      BY <3>2 DEF BeginSync
    <3> QED BY <3>1, <3>3, Beginning, Ending
  <2>2. CASE run.pc \in After
    BY <1>4, <2>1, <2>2, AfterSteps DEF Continues
  <2>3. CASE run.pc \in Renaming
    <3>1. run' = run
      <4>1. run.pc \in {"release", "inline", "signature"}
        BY <2>3 DEF Renaming
      <4> QED BY <1>4, <2>1, <4>1 DEF Next, Renames, BeginSync, BeginPlan, BeginVerify, BeginPrune,
             OpFails, FetchRelease, ResolveFound, ResolveMissing, EnsureIndex, Materialize,
             EnsurePayload, PrunePayload, ResolveReturns, Preserve, PayloadsReturn, IndexesReturn,
             ByHashDone, Reread, VerifyReturns, Prepare, Commit, WriteHistory, PruneReturns, Finish,
             PruneIndex, PruneByHash, StagingLost, HistoryDamaged, ManifestDamaged,
             ManifestUpgraded, Reconfigure
    <3> QED BY <1>4, <2>1, <3>1
  <2>4. CASE run.pc \notin Renaming \cup After
    <3>1. ~WriteHistory
      BY <2>4 DEF WriteHistory, After
    <3>2. run'.gens = run.gens
      BY <2>1, <3>1, GensKept
    <3> QED BY <1>4, <2>1, <2>4, <3>2 DEF Continues, Middle, Renaming, After
  <2> QED BY <2>2, <2>3, <2>4
<1>5. ~BeginPlan /\ ~BeginVerify /\ ~BeginPrune /\ run' # Idle
  BY Beginning, Ending
<1>6. PruneForm => run.pc = "walk"
  BY DEF PruneForm, Pruning
<1>7. CASE \E x, y, z \in Versions : FetchRelease(x, y, z)
  BY <1>1, <1>6, <1>7 DEF Renaming
<1>8. CASE /\ ~Renames /\ ~PruneForm /\ Continues
           /\ \/ run'.pc = run.pc
              \/ run.pc \in Middle /\ run'.pc \in Middle \cup {"release"}
              \/ run.pc \in After /\ run'.pc \in After
  BY <1>4, <1>8
<1> QED BY <1>2, <1>3, <1>5, <1>7, <1>8, Proceeds DEF Renames

(* The record of a sync covers what clients were sent to -- the one it     *)
(* works with, and from the first rename on the one it will write.         *)
LEMMA StepCovers ==
  ASSUME TypeOK, Control, Placed, KeepsInRelease, Sound, Next, ~abandoned', ~lapse',
         run'.op = "sync", ~run'.protect
  PROVE  /\ run'.pc \notin Renaming \cup {"commit", "history"} => Covers(run.gens)'
         /\ run'.pc \in Renaming => Covers(run.gens)' \/ Covers(NewGens)'
         /\ run'.pc \in {"commit", "history"} => Covers(NewGens)'
<1>a. /\ \A c \in Canon : Good(past[c]) /\ Good(past'[c]) /\ Good(run.gens[c]) /\ Good(run'.gens[c])
      /\ \A c \in Canon : Good(history.gens[c])
      /\ past \in [Canon -> Seq(Contents)] /\ history.gens \in [Canon -> Seq(Contents)] /\ GensOK(history.gens)
  <2>1. /\ past \in [Canon -> Seq(Contents)] /\ GensOK(past)
        /\ past' \in [Canon -> Seq(Contents)] /\ GensOK(past')
        /\ run.gens \in [Canon -> Seq(Contents)] /\ GensOK(run.gens)
        /\ run'.gens \in [Canon -> Seq(Contents)] /\ GensOK(run'.gens)
        /\ history.gens \in [Canon -> Seq(Contents)] /\ GensOK(history.gens)
    BY StepPast, StepRun DEF TypeOK, RunState
  <2> QED BY <2>1, GoodGens
<1>b. ~abandoned /\ ~lapse
  BY StepEnv
<1>c. Remembered
  BY <1>b DEF Sound, HistoryKept
<1>d. /\ Covers(run.gens)' <=> \A c \in Canon : Begins(past'[c], run'.gens[c])
      /\ \A gens : Covers(gens) <=> \A c \in Canon : Begins(past[c], gens[c])
  BY DEF Covers, Begins, Newest
<1>e. ASSUME run'.gens = run.gens, run'.v = run.v, run'.files = run.files
      PROVE  Covers(NewGens)' <=> \A c \in Canon : Begins(past'[c], NewGens[c])
  <2>1. NewGens' = NewGens
    BY <1>e, Frame DEF NewGens, UpdateHistory
  <2> QED BY <2>1 DEF Covers, Begins, Newest
<1>f. ASSUME NEW c \in Canon, run.pc \notin {"idle", "fetch"}
      PROVE  Good(NewGens[c]) /\ (c \in run.files => Content(c, run.v) \in Contents)
  <2>1. c \in run.files => Content(c, run.v) \in Contents
    BY <1>f, RunFacts, IndexType
  <2>2. NewGens[c] = IF ByHash(run.v) /\ c \in run.files THEN Remember(run.gens[c], Content(c, run.v)) ELSE <<>>
    BY SentIs DEF NewGens
  <2> QED BY <1>a, <2>1, <2>2, RememberGood, GoodEmpty
<1>g. ASSUME Trims, NEW gens, \A c \in Canon : Good(gens[c]), Covers(gens)
      PROVE  \A c \in Canon : Begins(past'[c], gens[c])
  BY <1>a, <1>d, <1>g, BeginsTrans DEF Trims
<1>1. CASE BeginSync
  <2>1. /\ run'.pc = "fetch"
        /\ run'.gens = (IF Readable THEN UpdateHistory(history.gens, Served, PublishedFiles) ELSE history.gens)
        /\ history.st # "corrupt" /\ (~Readable => inRelease = Absent /\ release = Absent)
        /\ past' = past /\ run.op # "sync"
    <3>1. past' = past /\ run.pc = "idle"
      BY <1>1 DEF BeginSync, ghosts
    <3> QED BY <1>1, <3>1, Beginning, Ops
  <2>2. ASSUME NEW c \in Canon
        PROVE  Begins(past[c], run'.gens[c])
    <3>1. CASE past[c] = <<>>
      BY <1>a, <3>1, BeginsEmpty
    <3>2. CASE past[c] # <<>> /\ Readable
      <4>1. run'.gens[c] = Remember(history.gens[c], past[c][1])
        BY <1>b, <2>1, <3>2, PublishedCovers
      <4>2. Recalls(history.gens, past)
        BY <1>c, <2>1 DEF Remembered
      <4> QED BY <1>a, <3>2, <4>1, <4>2, RecallsIs
    <3>3. CASE past[c] # <<>> /\ ~Readable
      BY <2>1, <3>3 DEF Sound, HistoryKept, NoGens
    <3> QED BY <3>1, <3>2, <3>3
  <2> QED BY <1>d, <2>1, <2>2 DEF Renaming
<1>2. ASSUME run.op = "sync", run'.protect = run.protect, run'.gens = run.gens, ~Renames,
             run.pc \notin Renaming \cup {"commit", "history"},
             run'.pc \notin {"inline", "signature", "commit", "history"},
             PruneForm => run.pc = "walk"
      PROVE  Covers(run.gens)'
  <2>1. Covers(run.gens)
    BY <1>2, <1>c DEF Remembered
  <2>2. CASE Trims
    BY <1>2, <1>a, <1>d, <1>g, <2>1, <2>2
  <2>3. CASE Sends
    <3> SUFFICES ASSUME NEW c \in Canon PROVE Begins(past'[c], run.gens[c])
      BY <1>2, <1>d
    <3>1. run.pc = "walk"
      BY <1>2, <2>3 DEF Sends
    <3>2. past'[c] = IF ByHash(run.v) /\ c \in run.files THEN Remember(past[c], Content(c, run.v)) ELSE <<>>
      BY <2>3, SentIs DEF Sends
    <3>3. CASE ByHash(run.v) /\ c \in run.files
      <4>1. run.gens[c] # <<>> /\ run.gens[c][1] = Content(c, run.v)
        BY <1>2, <3>1, <3>3 DEF Sound, HistoryKept, Syncing
      <4> QED BY <1>a, <1>d, <2>1, <3>2, <3>3, <4>1, BeginsAgain
    <3>4. CASE ~(ByHash(run.v) /\ c \in run.files)
      BY <1>a, <3>2, <3>4, BeginsEmpty
    <3> QED BY <3>3, <3>4
  <2> QED BY <2>2, <2>3, PastIs
<1>3. ASSUME run' = run, ~Renames, ~PruneForm, run.op = "sync"
      PROVE  /\ run'.pc \notin Renaming \cup {"commit", "history"} => Covers(run.gens)'
             /\ run'.pc \in Renaming => Covers(run.gens)' \/ Covers(NewGens)'
             /\ run'.pc \in {"commit", "history"} => Covers(NewGens)'
  <2>1. Trims
    BY <1>3, PastIs DEF Sends
  <2>2. Covers(run.gens) => Covers(run.gens)'
    BY <1>3, <1>a, <1>d, <1>g, <2>1
  <2>3. run.pc \notin {"idle", "fetch"} /\ Covers(NewGens) => Covers(NewGens)'
    BY <1>3, <1>e, <1>f, <1>g, <2>1
  <2> QED BY <1>3, <1>c, <2>2, <2>3 DEF Remembered, Renaming
<1>4. CASE Renames
  <2>1. /\ Syncing(Renaming) /\ run'.files = run.files /\ run'.gens = run.gens /\ Continues
        /\ run'.pc \in {"inline", "signature", "commit"}
        /\ run'.pc = "commit" => Served' = run.v
        /\ Served' = run.v => past' = UpdateHistory(past, run.v, run.files)
        /\ Served' # run.v => past' = past
    BY <1>4, Renamed, ContinuePublish DEF Renames
  <2>2. run.pc \in Renaming /\ run.op = "sync" /\ ~run.protect /\ run'.v = run.v
        /\ run.pc \notin {"idle", "fetch"}
    BY <2>1 DEF Syncing, Continues, Renaming
  <2>3. Covers(run.gens) \/ Covers(NewGens)
    BY <1>c, <2>2 DEF Remembered
  <2>4. CASE Served' = run.v
    <3>1. ASSUME NEW c \in Canon
          PROVE  Begins(past'[c], NewGens[c])
      <4> DEFINE x == Content(c, run.v)
      <4>1. past'[c] = IF ByHash(run.v) /\ c \in run.files THEN Remember(past[c], x) ELSE <<>>
        BY <2>1, <2>4, SentIs
      <4>2. NewGens[c] = IF ByHash(run.v) /\ c \in run.files THEN Remember(run.gens[c], x) ELSE <<>>
        BY SentIs DEF NewGens
      <4>3. Good(NewGens[c]) /\ (c \in run.files => x \in Contents)
        BY <1>f, <2>2
      <4> HIDE DEF x
      <4>4. CASE ~(ByHash(run.v) /\ c \in run.files)
        BY <4>1, <4>3, <4>4, BeginsEmpty
      <4>5. CASE ByHash(run.v) /\ c \in run.files /\ Covers(run.gens)
        BY <1>a, <1>d, <4>1, <4>2, <4>3, <4>5, BeginsRemember
      <4>6. CASE ByHash(run.v) /\ c \in run.files /\ Covers(NewGens)
        <5>1. NewGens[c] # <<>> /\ NewGens[c][1] = x
          BY <1>a, <4>2, <4>3, <4>6, RememberFirst
        <5> QED BY <1>a, <1>d, <4>1, <4>3, <4>6, <5>1, BeginsAgain
      <4> QED BY <2>3, <4>4, <4>5, <4>6
    <3>2. Covers(NewGens)'
      BY <1>e, <2>1, <2>2, <3>1
    <3> QED BY <2>1, <3>2 DEF Renaming
  <2>5. CASE Served' # run.v
    <3>1. run'.pc \in Renaming /\ past' = past
      BY <2>1, <2>5 DEF Renaming
    <3>2. Covers(run.gens) => Covers(run.gens)'
      BY <1>d, <2>1, <3>1
    <3>3. Covers(NewGens) => Covers(NewGens)'
      BY <1>d, <1>e, <2>1, <2>2, <3>1
    <3> QED BY <2>3, <3>1, <3>2, <3>3 DEF Renaming
  <2> QED BY <2>4, <2>5
<1>5. CASE Commit
  <2>1. /\ run.pc = "commit" /\ run'.pc = "history" /\ past' = past
        /\ run'.gens = run.gens /\ run'.v = run.v /\ run'.files = run.files
        /\ run.op = "sync" /\ ~run.protect
    BY <1>5, ContinuePublish, Ops DEF Commit, Continues
  <2>2. Covers(NewGens)
    BY <1>c, <2>1 DEF Remembered
  <2> QED BY <1>d, <1>e, <2>1, <2>2 DEF Renaming
<1>6. CASE WriteHistory
  <2>1. /\ run.pc = "history" /\ run'.pc = "walk" /\ past' = past
        /\ run'.gens = NewGens /\ run.op = "sync" /\ ~run.protect
    BY <1>6, ContinuePublish, Ops DEF WriteHistory, Continues, NewGens, ghosts
  <2>2. Covers(NewGens)
    BY <1>c, <2>1 DEF Remembered
  <2> QED BY <1>d, <2>1, <2>2 DEF Renaming
<1> QED BY <1>1, <1>2, <1>3, <1>4, <1>5, <1>6, SyncGoesOn DEF Renaming

(* Every step keeps HistoryKept. *)
LEMMA StepHistoryKept ==
  ASSUME TypeOK, Control, Placed, SyncedSoFar, KeepsInRelease, Sound, Next
  PROVE  HistoryKept'
<1>1. /\ run'.lost => run'.protect
      /\ run'.op = "sync" /\ history'.st = "corrupt" => run'.lost
      /\ run'.op = "prune" => run'.gens = history'.gens /\ (history'.st = "corrupt" => run'.protect)
      /\ inRelease' = Absent /\ release' = Absent => past' = NoGens
  BY StepHistory1, StepHistory2, StepHistory3, StepHistory4
<1>2. Served' # Absent => \A c \in Canon : past'[c] # <<>> =>
        ByHash(Served)' /\ c \in offered' /\ past'[c][1] = Content(c, Served')
  BY StepHistory5, Frame DEF ByHash
<1>3. Syncing({"walk"})' /\ ByHash(run.v)' => \A c \in run'.files :
        run'.gens[c] # <<>> /\ run'.gens[c][1] = Content(c, run'.v)
  BY StepHistory6, Frame DEF ByHash
<1>4. abandoned' \/ lapse' \/ Remembered'
  <2> SUFFICES ASSUME ~abandoned', ~lapse' PROVE Remembered'
    OBVIOUS
  <2>1. Recalls(history.gens, past)' <=> Recalls(history'.gens, past')
    BY DEF Recalls, Newest, Remember
  <2> QED BY <2>1, StepRecalls, StepCovers, StepRetained DEF Remembered
<1> QED BY <1>1, <1>2, <1>3, <1>4 DEF HistoryKept

-----------------------------------------------------------------------------
(* The invariant holds. *)

(* The initial states: nothing is published. *)
LEMMA InitInv ==
  ASSUME Init
  PROVE  IInv
<1>1. /\ inRelease = Absent /\ release = Absent /\ sig = Absent /\ Served = Absent
      /\ run = Idle /\ offered = {} /\ past = NoGens /\ byhash = {} /\ pool = {}
      /\ manifest = NoManifest("missing") /\ history = [st |-> "missing", gens |-> NoGens]
      /\ seen = 1 /\ canon = [c \in Canon |-> NoContent]
      /\ ~abandoned /\ ~amnesia /\ ~lapse
  BY ServedIs DEF Init
<1>2. /\ Idle.op = "none" /\ Idle.pc = "idle" /\ Idle.v = Absent /\ Idle.files = {}
      /\ Idle.todo = {} /\ Idle.oldv = Absent /\ ~Idle.lost
  BY DEF Idle
<1>3. 1 \in Versions /\ Absent <= 1 /\ Absent \notin Versions
  BY AptAssumption DEF Versions, Absent
<1>4. TypeOK
  <2>1. /\ upstream \in Upstreams /\ config \in Configs /\ mishaps \in 0..MaxMishaps
        /\ abandoned \in BOOLEAN /\ amnesia \in BOOLEAN /\ lapse \in BOOLEAN
    BY DEF Init
  <2>2. /\ manifest \in [st : {"missing", "valid", "corrupt"}, known : SUBSET Versions,
                         selected : [Versions -> SUBSET Canon], resolved : [Versions -> SUBSET Canon]]
        /\ \A v \in Versions : manifest.resolved[v] \subseteq manifest.selected[v]
    BY <1>1 DEF NoManifest, Nothing
  <2>3. /\ history \in [st : {"missing", "valid", "corrupt"}, gens : [Canon -> Seq(Contents)]]
        /\ GensOK(history.gens)
    BY <1>1, NoGensType
  <2>4. run \in RunState /\ GensOK(run.gens)
    BY <1>1, IdleType
  <2>5. canon \in [Canon -> Contents \cup {NoContent}]
    BY <1>1
  <2> QED BY <1>1, <1>3, <2>1, <2>2, <2>3, <2>4, <2>5, NoGensType DEF TypeOK
<1>5. Control
  BY <1>1, <1>2 DEF Control, Shape, Manifests, NoManifest
<1>6. Placed
  BY <1>1, <1>2, <1>3 DEF Placed, Fetched
<1>7. Asked
  <2>1. Recording /\ FoundNow
    BY <1>1, <1>2 DEF Recording, FoundNow, Fetched, Syncing
  <2>2. \A v \in Versions : manifest.selected[v] = {}
    BY <1>1 DEF NoManifest, Nothing
  <2> QED BY <2>1, <2>2 DEF Asked, FoundBefore
<1>8. SyncedSoFar /\ InlineFirst
  BY <1>1, <1>2 DEF SyncedSoFar, Syncing, InlineFirst
<1>9. OfferedKept /\ OfferedOnDisk
  BY <1>1, <1>2 DEF OfferedKept, OfferedOnDisk, ByHashServed, Syncing, Fetched
<1>10. HistoryKept
  <2>1. \A c \in Canon : past[c] = <<>>
    BY <1>1 DEF NoGens
  <2>2. Recalls(history.gens, past)
    BY <2>1 DEF Recalls
  <2>3. Retained
    BY <2>1, GoodEmpty, GoodFacts DEF Retained
  <2> QED BY <1>1, <1>2, <2>1, <2>2, <2>3 DEF HistoryKept, Remembered, Syncing
<1> QED BY <1>4, <1>5, <1>6, <1>7, <1>8, <1>9, <1>10 DEF IInv, Sound

(* Every step keeps the invariant. *)
LEMMA NextInv ==
  ASSUME IInv, Next
  PROVE  IInv'
<1>1. TypeOK' /\ Control' /\ Placed' /\ Asked' /\ SyncedSoFar' /\ InlineFirst'
  BY StepTypes, StepControl, StepPlaced, StepAsked, StepSynced, StepInlineFirst DEF IInv
<1>2. ASSUME KeepsInRelease' PROVE Sound'
  <2>1. KeepsInRelease
    BY <1>2, Frame DEF IInv
  <2> QED BY <2>1, StepOffered, StepOnDisk, StepHistoryKept DEF IInv, Sound
<1> QED BY <1>1, <1>2 DEF IInv

(* So does a step that changes nothing. *)
LEMMA StutterInv ==
  ASSUME IInv, UNCHANGED vars
  PROVE  IInv'
<1>1. /\ upstream' = upstream /\ config' = config /\ seen' = seen
      /\ inRelease' = inRelease /\ release' = release /\ sig' = sig
      /\ canon' = canon /\ byhash' = byhash /\ pool' = pool
      /\ manifest' = manifest /\ history' = history /\ mishaps' = mishaps /\ run' = run
      /\ offered' = offered /\ past' = past /\ abandoned' = abandoned
      /\ amnesia' = amnesia /\ lapse' = lapse
  BY DEF vars, served, disk, state, ghosts
<1>2. /\ Served' = Served
      /\ \A v : Selection(v)' = Selection(v) /\ Forms(v)' = Forms(v) /\ ByHash(v)' = ByHash(v)
      /\ \A v : Steady(v)' = Steady(v)
      /\ \A v, s : ByHashFiles(v, s)' = ByHashFiles(v, s)
      /\ \A s : Syncing(s)' = Syncing(s)
  BY <1>1 DEF Served, Selection, Forms, ByHash, ByHashFiles, Steady, Syncing
<1>3. KeepsInRelease' = KeepsInRelease /\ AllInline' = AllInline /\ Fetched' = Fetched /\ Wanted' = Wanted
  BY <1>1 DEF KeepsInRelease, AllInline, Forms, Fetched, Wanted
<1>4. TypeOK'
  BY <1>1 DEF IInv, TypeOK
<1>5. Control'
  BY <1>1 DEF IInv, Control, Shape, Manifests, Selection
<1>6. Placed' /\ InlineFirst'
  BY <1>1, <1>2, <1>3 DEF IInv, Placed, InlineFirst
<1>7. Asked'
  BY <1>1, <1>2, <1>3 DEF IInv, Asked, Recording, FoundBefore, FoundNow, Syncing, Steady
<1>8. SyncedSoFar'
  BY <1>1 DEF IInv, SyncedSoFar, Syncing, InPlace, ByHashFiles, ByHash
<1>9. ASSUME Sound PROVE Sound'
  <2>1. OfferedKept'
    BY <1>1, <1>3, <1>9 DEF Sound, OfferedKept, Syncing, Served, Selection
  <2>2. OfferedOnDisk'
    BY <1>1, <1>3, <1>9 DEF Sound, OfferedOnDisk, ByHashServed, InPlace, Served, ByHashFiles, ByHash
  <2>3. Remembered' = Remembered
    BY <1>1 DEF Remembered, Covers, NewGens, Retained, UpdateHistory, ByHash
  <2>4. HistoryKept'
    BY <1>1, <1>9, <2>3 DEF Sound, HistoryKept, Syncing, Served, ByHash
  <2> QED BY <2>1, <2>2, <2>4 DEF Sound
<1> QED BY <1>3, <1>4, <1>5, <1>6, <1>7, <1>8, <1>9 DEF IInv

(* Both together. *)
LEMMA StepInv == IInv /\ [Next]_vars => IInv'
BY NextInv, StutterInv

(* The invariant holds at every moment. *)
LEMMA Invariance == Spec => []IInv
BY InitInv, StepInv, PTL DEF Spec

(* What upstream is does not change. *)
LEMMA KeptUp == IInv /\ KeepsInRelease /\ [Next]_vars => KeepsInRelease'
<1> SUFFICES ASSUME IInv, KeepsInRelease, [Next]_vars PROVE KeepsInRelease'
  OBVIOUS
<1>1. CASE Next
  BY <1>1, Frame DEF IInv
<1>2. CASE UNCHANGED vars
  BY <1>2 DEF vars, KeepsInRelease, Forms
<1> QED BY <1>1, <1>2

(* With an upstream that keeps its InRelease, so does the conditional     *)
(* part.                                                                  *)
LEMMA Soundness == Spec /\ KeepsInRelease => []Sound
<1>1. IInv /\ KeepsInRelease => Sound
  BY DEF IInv
<1> QED BY <1>1, KeptUp, Invariance, PTL DEF Spec

-----------------------------------------------------------------------------
(* What follows. *)

(* Every variable keeps its type through all operations, failures and     *)
(* mishaps; in particular the by-hash history that updateByHashHistory    *)
(* writes is one that validateByHashHistory accepts: at most three        *)
(* generations of each index, with distinct digests.                      *)
THEOREM TypeCorrect == Spec => []TypeOK
<1>1. IInv => TypeOK
  BY DEF IInv
<1> QED BY <1>1, Invariance, PTL

(* A client of the published Release finds by hash every index that it    *)
(* was published with, at every moment: while EnsureRepaired replaces     *)
(* index files in place, between the renames of PublishMetadata, during   *)
(* a prune, and after a crash at any point.                               *)
THEOREM ServedByHash == Spec /\ KeepsInRelease => []ByHashServed
<1>1. Sound => ByHashServed
  BY DEF Sound, OfferedOnDisk
<1> QED BY <1>1, Soundness, PTL

(* prepareResolvedReleaseState before the renames and                     *)
(* commitResolvedReleaseState after them leave, at every moment, a        *)
(* manifest that knows the published Release, so that verify and prune    *)
(* can read it after a crash anywhere between.                            *)
THEOREM ManifestKnows == Spec /\ KeepsInRelease => []PublishedIsKnown
<1>1. Sound => PublishedIsKnown
  BY DEF Sound, OfferedKept, PublishedIsKnown
<1> QED BY <1>1, Soundness, PTL

(* The by-hash copies of the latest three contents that clients were      *)
(* sent to survive every prune (pruneStateWithHistory), also when the     *)
(* history was damaged or one sync stopped between publishing and         *)
(* writeByHashHistory.                                                    *)
THEOREM GenerationsStay == Spec /\ KeepsInRelease => []ThreeGenerations
<1>1. Sound => ThreeGenerations
  BY DEF Sound, HistoryKept, Remembered, ThreeGenerations
<1> QED BY <1>1, Soundness, PTL

(* Before an operation has fetched a Release it leaves what is published. *)
LEMMA FetchesFirst ==
  ASSUME Next, run.pc \in {"idle", "fetch"}
  PROVE  UNCHANGED <<served, disk>>
BY Changes DEF disk, Renames, PublishRelease, PublishInRelease, PublishSignature, PruneForm, Pruning,
   EnsureIndex, PruneIndex, Preserve, Materialize, PruneByHash, EnsurePayload, PrunePayload

(* While the resolved-release manifest cannot be decoded, no operation    *)
(* changes the published tree: loadResolvedReleaseState fails in          *)
(* fetchState and in readPublishedReleaseState, and both come before any  *)
(* write.                                                                 *)
THEOREM UnreadableIsSafe == Spec => UnreadableManifestIsSafe
<1>1. IInv /\ [Next]_vars => [manifest.st = "corrupt" => UNCHANGED <<served, disk>>]_vars
  <2> SUFFICES ASSUME IInv, Next, manifest.st = "corrupt"
               PROVE  UNCHANGED <<served, disk>>
    BY DEF vars
  <2> QED BY FetchesFirst DEF IInv, Control, Manifests
<1> QED BY <1>1, Invariance, PTL DEF Spec, UnreadableManifestIsSafe

(* A sync that returns without an error has published the Release it      *)
(* fetched, with every selected index that upstream has had all the       *)
(* time, whatever the manifest recorded under an earlier configuration.   *)
(* The hypothesis excludes the case of the run apt_switch: upstream       *)
(* stops signing inline and sync.prune is off, so nothing removes the     *)
(* old InRelease.                                                         *)
THEOREM SyncIsComplete == Spec /\ (PruneOnSync \/ KeepsInRelease) => SyncPublishes
<1>1. ASSUME IInv, PruneOnSync \/ KeepsInRelease, PruneReturns, run.op = "sync", ~abandoned
      PROVE  /\ Served = run.v
             /\ config \cap Steady(run.v) \subseteq run.files
             /\ \A c \in run.files : canon[c] = Content(c, run.v)
  <2>1. run.pc = "walk" /\ (Pruning => ~StaleForm) /\ Fetched /\ Syncing(After) /\ Syncing({"byhash"} \cup Done)
    BY <1>1 DEF PruneReturns, Fetched, Syncing, After, Done
  <2>2. Served = run.v
    <3>1. CASE KeepsInRelease
      BY <1>1, <2>1, <3>1, AfterServed DEF IInv
    <3>2. CASE PruneOnSync
      <4>1. ~StaleForm
        BY <2>1, <3>2 DEF Pruning
      <4>2. /\ run.inl \/ run.det
            /\ run.inl => inRelease = run.v
            /\ run.det => release = run.v /\ sig = run.v
        BY <1>1, <2>1 DEF IInv, Placed, After
      <4>3. run.v # Absent
        BY <1>1, <2>1, RunFacts DEF IInv
      <4> QED BY <4>1, <4>2, <4>3, ServedIs DEF StaleForm
    <3> QED BY <1>1, <3>1, <3>2
  <2>3. config \cap Steady(run.v) \subseteq run.files
    BY <1>1, <2>1 DEF IInv, Asked, FoundNow, Wanted
  <2>4. \A c \in run.files : canon[c] = Content(c, run.v)
    BY <1>1, <2>1 DEF IInv, SyncedSoFar, InPlace
  <2> QED BY <2>2, <2>3, <2>4
<1>2. IInv /\ (PruneOnSync \/ KeepsInRelease) /\ [Next]_vars =>
        [PruneReturns /\ run.op = "sync" /\ ~abandoned =>
           /\ Served = run.v
           /\ config \cap Steady(run.v) \subseteq run.files
           /\ \A c \in run.files : canon[c] = Content(c, run.v)]_vars
  BY <1>1
<1>3. IInv /\ (PruneOnSync \/ KeepsInRelease) /\ [Next]_vars => (PruneOnSync \/ KeepsInRelease)'
  BY KeptUp
<1> QED BY <1>2, <1>3, Invariance, PTL DEF Spec, SyncPublishes

-----------------------------------------------------------------------------
(* The repository implements the abstract mirror. *)

(* When every Release has an InRelease, clients never find none again. *)
LEMMA StaysServed ==
  ASSUME IInv, KeepsInRelease, AllInline, Next, Served # Absent
  PROVE  Served' # Absent
<1>1. CASE Served' = run.v /\ Syncing(Renaming \cup After)
  BY <1>1, RunFacts DEF IInv, Syncing, Renaming, After
<1>2. CASE Served' = Absent
  <2>1. Served' # Absent => FALSE
    BY <1>2
  <2>2. inRelease # Absent
    BY ServedIs DEF IInv, InlineFirst
  <2>3. CASE Renames
    <3>1. run.v # Absent
      BY <2>3, Renamed DEF IInv
    <3>2. inRelease' # Absent
      BY <2>2, <2>3, <3>1 DEF Renames, PublishRelease, PublishInRelease, PublishSignature
    <3> QED BY <3>2, ServedIs
  <2>4. CASE PruneForm
    BY <2>4, FormPruned DEF IInv
  <2>5. CASE UNCHANGED served
    BY <2>5, Frame DEF IInv
  <2> QED BY <2>3, <2>4, <2>5, Frame DEF IInv, Renames
<1> QED BY <1>1, <1>2, OfferedIs DEF IInv

(* The abstract mirror has one index: the suite. *)
LEMMA SuiteIs ==
  /\ [i \in {"suite"} |-> <<Served, offered>>]["suite"] = <<Served, offered>>
  /\ NamedBy("suite", <<Served, offered>>) = Named(Served, offered)
  /\ NamedBy("suite", <<Served', offered'>>) = Named(Served', offered')
BY DEF NamedBy

(* A step that publishes is Advance, a package that appears Put, one      *)
(* that goes Remove; everything else stutters.                            *)
LEMMA StepRefines ==
  ASSUME IInv, [Next]_vars
  PROVE  [Mirror!Next \/ abandoned' \/ \E v \in Versions : "inline" \notin Forms(v)]_(Mirror!mirror)
<1> SUFFICES ASSUME AllInline, ~abandoned'
             PROVE  [Mirror!Next]_(Mirror!mirror)
  BY DEF AllInline
<1>1. KeepsInRelease
  BY DEF AllInline, KeepsInRelease
<1>2. CASE UNCHANGED vars
  <2>1. Served' = Served /\ offered' = offered /\ pool' = pool
    BY <1>2 DEF vars, served, disk, ghosts, Served
  <2> QED BY <2>1 DEF Mirror!mirror
<1>3. ASSUME Next
      PROVE  [Mirror!Next]_(Mirror!mirror)
  <2>a. Sound /\ ~abandoned
    BY <1>1, <1>3, StepEnv DEF IInv
  <2>1. ASSUME NEW p \in Payloads, EnsurePayload(p)
        PROVE  Mirror!Next
    <3>1. UNCHANGED served /\ offered' = offered /\ pool' = pool \cup {p}
      BY <2>1 DEF EnsurePayload, ghosts
    <3>2. Served' = Served
      BY <1>3, <3>1, Frame DEF IInv
    <3>3. Mirror!Put(p)
      BY <3>1, <3>2 DEF Mirror!Put
    <3> QED BY <3>3 DEF Mirror!Next
  <2>2. ASSUME NEW p \in Payloads, PrunePayload(p)
        PROVE  Mirror!Next
    <3>1. /\ UNCHANGED served /\ offered' = offered /\ pool' = pool \ {p}
          /\ Pruning /\ p \notin Named(run.v, run.files)
      BY <2>2 DEF PrunePayload, StalePayloads, ghosts
    <3>2. Served' = Served
      BY <1>3, <3>1, Frame DEF IInv
    <3>3. p \notin Named(Served, offered)
      BY <1>1, <2>a, <3>1, WalkKeeps, NamedMonotone DEF IInv
    <3>4. Mirror!Remove(p)
      BY <3>1, <3>2, <3>3, SuiteIs DEF Mirror!Remove
    <3> QED BY <3>4 DEF Mirror!Next
  <2>3. CASE pool' = pool /\ Served' = Served /\ offered' = offered
    BY <2>3 DEF Mirror!mirror
  <2>4. CASE pool' = pool /\ Served' # Absent
    <3> DEFINE x == <<Served', offered'>>
    <3>1. x \in Versions \X SUBSET Canon
      <4>1. Served' \in Versions \cup {Absent}
        BY <1>3, StepEnv, ServedIs DEF IInv
      <4>2. offered' \in SUBSET Canon
        BY <1>3, StepPast DEF IInv
      <4> QED BY <2>4, <4>1, <4>2
    <3>2. NamedBy("suite", x) \subseteq pool
      BY <1>1, <1>3, <2>a, <2>4, StepNamedInPool, SuiteIs DEF IInv
    <3>3. [i \in {"suite"} |-> x] = [[i \in {"suite"} |-> <<Served, offered>>] EXCEPT !["suite"] = x]
      OBVIOUS
    <3>4. Mirror!Advance("suite", x)
      BY <2>4, <3>2, <3>3 DEF Mirror!Advance
    <3> HIDE DEF x
    <3> QED BY <3>1, <3>4 DEF Mirror!Next
  <2>5. CASE Served' = Absent
    <3>1. Served = Absent
      BY <1>1, <1>3, <2>5, StaysServed
    <3>2. offered = {} /\ offered' = {}
      BY <1>1, <1>3, <2>a, <2>5, <3>1, StepOffered1 DEF IInv, Sound, OfferedKept
    <3> QED BY <1>3, <2>1, <2>2, <2>3, <2>5, <3>1, <3>2, DiskSteps
  <2> QED BY <1>3, <2>1, <2>2, <2>4, <2>5, DiskSteps
<1> QED BY <1>2, <1>3

(* Every step is one of PublishedMirror's or changes nothing there, as    *)
(* long as every Release has an InRelease and no cancelled pool call      *)
(* dropped files: clients move to a Release whose packages are all        *)
(* there, and no package goes while an offered index names it.            *)
THEOREM Refinement == Spec => RefinesMirror
<1>1. Init => Mirror!Init
  <2> SUFFICES ASSUME Init PROVE Mirror!Init
    OBVIOUS
  <2>1. Served = Absent /\ offered = {} /\ pool = {}
    BY ServedIs DEF Init
  <2> QED BY <2>1 DEF Mirror!Init, Mirror!Complete
<1>2. IInv /\ [Next]_vars =>
        [Mirror!Next \/ abandoned' \/ \E v \in Versions : "inline" \notin Forms(v)]_(Mirror!mirror)
  BY StepRefines
<1> QED BY <1>1, <1>2, Invariance, PTL DEF Spec, RefinesMirror

================================================================================
