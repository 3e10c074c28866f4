--------------------------- MODULE OpenText_proofs ---------------------------
(***************************************************************************)
(* Proofs about the pages and the chapters of a text, for any texts,       *)
(* headings and requests and characters of any width, and about the        *)
(* sections that are made of a plain text or of GROBID's document.         *)
(*                                                                         *)
(* PageInv says that a reader of a text that is not replaced holds a       *)
(* prefix of it, and the offset where this prefix ends: it needs that the  *)
(* bytes of longer prefixes are more.  The chapters are proved about as    *)
(* functions of the text, the two recursive ones by the least              *)
(* counterexample.  SectionsInv and TeiInv say what the lines, or the tags *)
(* and texts, read so far have become.                                     *)
(***************************************************************************)
EXTENDS OpenText, TeiParser, TextSections, SequenceTheorems, FiniteSetTheorems,
        WellFoundedInduction, TLAPS

-----------------------------------------------------------------------------
(* Least and greatest numbers.                                             *)

LEMMA LeastNumber ==
  ASSUME NEW S \in SUBSET Nat, S # {}
  PROVE  \E x \in S : \A y \in S : x =< y
<1>. DEFINE R == {p \in Nat \X Nat : p[1] < p[2]}
<1>1. IsWellFoundedOn(R, Nat)
  BY NatLessThanWellFounded, Zenon DEF OpToRel
<1>2. \A x, y \in Nat : <<y, x>> \in R <=> y < x
  OBVIOUS
<1>. HIDE DEF R
<1>3. PICK x \in S : \A y \in S : ~(<<y, x>> \in R)
  BY <1>1, WFMin
<1>4. ASSUME NEW y \in S PROVE x =< y
  <2>1. x \in Nat /\ y \in Nat /\ ~(y < x)
    BY <1>2, <1>3
  <2>. QED BY <2>1
<1>. QED BY <1>4

LEMMA MinIsLeast ==
  ASSUME NEW S \in SUBSET Nat, S # {}
  PROVE  Min(S) \in S /\ \A y \in S : Min(S) =< y
BY LeastNumber DEF Min

LEMMA MaxIsGreatest ==
  ASSUME NEW S \in SUBSET Nat, S # {}, NEW n \in Nat, \A y \in S : y =< n
  PROVE  Max(S) \in S /\ \A y \in S : y =< Max(S)
<1> DEFINE Bounds == {b \in Nat : \A y \in S : y =< b}
<1>1. PICK b \in Bounds : \A c \in Bounds : b =< c
  BY LeastNumber, n \in Bounds, Bounds \in SUBSET Nat
<1>2. b \in S
  <2>1. SUFFICES ASSUME b \notin S PROVE FALSE
    OBVIOUS
  <2>2. \A y \in S : y \in Nat /\ y =< b /\ y # b
    BY <2>1
  <2>3. \A y \in S : y =< b - 1
    BY <2>2
  <2>4. PICK y \in S : TRUE
    OBVIOUS
  <2>5. b - 1 \in Nat
    BY <2>2, <2>4
  <2>6. b - 1 \in Bounds
    BY <2>3, <2>5
  <2> QED BY <1>1, <2>5, <2>6
<1>3. \A y \in S : b >= y
  OBVIOUS
<1>4. Max(S) \in S /\ \A y \in S : Max(S) >= y
  BY <1>2, <1>3 DEF Max
<1> QED BY <1>4

LEMMA MinOfTwo ==
  ASSUME NEW a \in Nat, NEW b \in Nat
  PROVE  Min({a, b}) = IF a =< b THEN a ELSE b
<1>1. Min({a, b}) \in {a, b} /\ \A y \in {a, b} : Min({a, b}) =< y
  BY MinIsLeast, {a, b} \in SUBSET Nat
<1> QED BY <1>1

-----------------------------------------------------------------------------
(* Bytes.                                                                  *)

BytesOf(text) == {b \in (DOMAIN text) \X (1..4) : b[2] <= Width(text[b[1]])}

LEMMA WidthIsPositive ==
  ASSUME NEW ch
  PROVE  Width(ch) \in 1..4
BY OpenTextAssumption DEF Width

LEMMA BytesFinite ==
  ASSUME NEW S, NEW text \in Seq(S)
  PROVE  IsFiniteSet(BytesOf(text)) /\ Bytes(text) = Cardinality(BytesOf(text))
         /\ Bytes(text) \in Nat
<1>1. IsFiniteSet(1..Len(text)) /\ IsFiniteSet(1..4)
  <2>1. Len(text) \in Int /\ 1 \in Int /\ 4 \in Int
    OBVIOUS
  <2> QED BY <2>1, FS_Interval
<1>2. IsFiniteSet((1..Len(text)) \X (1..4))
  BY <1>1, FS_Product
<1>3. DOMAIN text = 1..Len(text)
  OBVIOUS
<1>4. BytesOf(text) \in SUBSET ((1..Len(text)) \X (1..4))
  BY <1>3 DEF BytesOf
<1>5. IsFiniteSet(BytesOf(text))
  BY <1>2, <1>4, FS_Subset
<1> QED BY <1>5, FS_CardinalityType DEF Bytes, BytesOf

(* A longer prefix has more bytes.                                         *)
LEMMA PrefixBytes ==
  ASSUME NEW S, NEW text \in Seq(S), NEW j \in 0..Len(text), NEW k \in 0..Len(text), j < k
  PROVE  Bytes(SubSeq(text, 1, j)) < Bytes(SubSeq(text, 1, k))
<1> DEFINE short == SubSeq(text, 1, j)
           long == SubSeq(text, 1, k)
<1>1. /\ short \in Seq(S) /\ Len(short) = j /\ DOMAIN short = 1..j
      /\ \A i \in 1..j : short[i] = text[i]
  OBVIOUS
<1>2. /\ long \in Seq(S) /\ Len(long) = k /\ DOMAIN long = 1..k
      /\ \A i \in 1..k : long[i] = text[i]
  OBVIOUS
<1> HIDE DEF short, long
<1>3. \A i \in 1..j : i \in 1..k /\ short[i] = long[i]
  BY <1>1, <1>2
<1>4. BytesOf(short) \in SUBSET BytesOf(long)
  BY <1>1, <1>2, <1>3 DEF BytesOf
<1>5. <<k, 1>> \in BytesOf(long)
  BY <1>2, WidthIsPositive DEF BytesOf
<1>6. <<k, 1>> \notin BytesOf(short)
  BY <1>1 DEF BytesOf
<1>7. /\ IsFiniteSet(BytesOf(long)) /\ Bytes(long) = Cardinality(BytesOf(long))
      /\ Bytes(short) = Cardinality(BytesOf(short)) /\ Bytes(long) \in Nat /\ Bytes(short) \in Nat
  BY <1>1, <1>2, BytesFinite
<1>8. Bytes(short) <= Bytes(long) /\ Bytes(short) # Bytes(long)
  BY <1>4, <1>5, <1>6, <1>7, FS_Subset
<1>9. Bytes(short) < Bytes(long)
  BY <1>7, <1>8
<1> QED BY <1>9 DEF short, long

LEMMA PrefixBytesNat ==
  ASSUME NEW S, NEW text \in Seq(S), NEW k \in 0..Len(text)
  PROVE  BytesBefore(text, k) \in Nat
<1>1. SubSeq(text, 1, k) \in Seq(S)
  OBVIOUS
<1> QED BY <1>1, BytesFinite DEF BytesBefore

LEMMA NoBytes ==
  ASSUME NEW S, NEW text \in Seq(S)
  PROVE  BytesBefore(text, 0) = 0
<1>1. SubSeq(text, 1, 0) = << >>
  OBVIOUS
<1>2. BytesOf(<< >>) = {}
  BY DOMAIN << >> = {} DEF BytesOf
<1>3. Bytes(<< >>) = 0
  BY <1>2, FS_EmptySet DEF Bytes, BytesOf
<1> QED BY <1>1, <1>3 DEF BytesBefore

(* A page at the bytes of a prefix begins where the prefix ends.           *)
LEMMA PageAt ==
  ASSUME NEW S, NEW text \in Seq(S), NEW k \in 0..Len(text), NEW max \in Nat \ {0},
         NEW last, last = Min({k + max, Len(text)})
  PROVE  PaginateFulltext(text, max, BytesBefore(text, k))
           = [said |-> "page", page |-> SubSeq(text, k + 1, last),
              next |-> IF last < Len(text) THEN BytesBefore(text, last) ELSE 0]
<1>1. Len(text) \in Nat
  OBVIOUS
<1>2. SubSeq(text, 1, Len(text)) = text
  BY SubSeqFull
<1>3. BytesBefore(text, k) \in Nat /\ Bytes(text) \in Nat
  BY PrefixBytesNat, BytesFinite
<1>4. BytesBefore(text, k) <= Bytes(text)
  <2>1. BytesBefore(text, Len(text)) = Bytes(text)
    BY <1>2, Zenon DEF BytesBefore
  <2>2. CASE k = Len(text)
    BY <1>3, <2>1, <2>2
  <2>3. CASE k # Len(text)
    <3>1. k < Len(text) /\ Len(text) \in 0..Len(text)
      BY <1>1, <2>3
    <3>2. BytesBefore(text, k) < BytesBefore(text, Len(text))
      BY <3>1, PrefixBytes DEF BytesBefore
    <3> QED BY <1>3, <2>1, <3>2
  <2> QED BY <2>2, <2>3
<1>5. Min({BytesBefore(text, k), Bytes(text)}) = BytesBefore(text, k)
  BY <1>3, <1>4, MinOfTwo
<1> DEFINE at == {i \in 0..Len(text) : Bytes(SubSeq(text, 1, i)) = BytesBefore(text, k)}
<1>6. at = {k}
  <2>1. k \in at
    BY DEF BytesBefore
  <2>2. ASSUME NEW i \in at, i # k PROVE FALSE
    <3>1. i \in 0..Len(text) /\ Bytes(SubSeq(text, 1, i)) = Bytes(SubSeq(text, 1, k))
      BY DEF BytesBefore
    <3>2. i < k \/ k < i
      BY <1>1, <2>2, <3>1
    <3>3. Bytes(SubSeq(text, 1, k)) \in Nat
      BY <1>3 DEF BytesBefore
    <3> QED BY <3>1, <3>2, <3>3, PrefixBytes
  <2> QED BY <2>1, <2>2
<1>7. (CHOOSE i \in at : TRUE) = k
  BY <1>6
<1> HIDE DEF at
<1>8. at # {}
  BY <1>6
<1> QED BY <1>5, <1>7, <1>8 DEF PaginateFulltext, at

-----------------------------------------------------------------------------
(* Headings.                                                               *)

(* Headings in a text of n characters.                                     *)
HeadingsIn(h, n) == DOMAIN h \in SUBSET (1..n) /\ \A p \in DOMAIN h : h[p] \in Nat

LEMMA CandidatesAreHeadings ==
  ASSUME NEW S, NEW text \in Seq(S)
  PROVE  HeadingsIn(Candidates(text), Len(text))
<1> DEFINE found == {p \in LineStarts(text) :
                       IsHeading(LineAt(text, p)) /\ PrecededCleanly(text, p)}
<1>1. Candidates(text) = [p \in found |-> NumberOf(LineAt(text, p))]
  BY DEF Candidates
<1>2. found \in SUBSET (1..Len(text))
  BY DEF LineStarts
<1>3. ASSUME NEW p \in found PROVE NumberOf(LineAt(text, p)) \in Nat
  <2>1. IsHeading(LineAt(text, p))
    OBVIOUS
  <2>2. Trim(LineAt(text, p))[1] \in DOMAIN Headings
    BY <2>1, Zenon DEF IsHeading
  <2> QED BY <2>2, HeadingAssumption DEF NumberOf
<1> HIDE DEF found
<1> QED BY <1>1, <1>2, <1>3 DEF HeadingsIn

LEMMA PartOfHeadings ==
  ASSUME NEW n \in Nat, NEW h, HeadingsIn(h, n), NEW D \in SUBSET DOMAIN h
  PROVE  /\ DOMAIN Restrict(h, D) = D /\ \A p \in D : Restrict(h, D)[p] = h[p]
         /\ HeadingsIn(Restrict(h, D), n)
BY DEF Restrict, HeadingsIn

LEMMA PartitionOfHeadings ==
  ASSUME NEW n \in Nat, NEW raw, HeadingsIn(raw, n)
  PROVE  /\ HeadingsIn(Partition(raw).toc, n) /\ HeadingsIn(Partition(raw).body, n)
         /\ \A p \in DOMAIN Partition(raw).toc, q \in DOMAIN Partition(raw).body : p < q
<1> DEFINE toc == IF Restarts(raw) = {} THEN {} ELSE Before(raw, Min(Restarts(raw)))
<1>1. /\ Partition(raw).toc = Restrict(raw, toc)
      /\ Partition(raw).body = Restrict(raw, DOMAIN raw \ toc)
  BY DEF Partition
<1>2. toc \in SUBSET DOMAIN raw /\ DOMAIN raw \ toc \in SUBSET DOMAIN raw
  BY DEF Before
<1>3. ASSUME NEW p \in toc, NEW q \in DOMAIN raw \ toc PROVE p < q
  <2>1. Restarts(raw) # {} /\ p \in Before(raw, Min(Restarts(raw)))
        /\ q \notin Before(raw, Min(Restarts(raw)))
    OBVIOUS
  <2>2. Restarts(raw) \in SUBSET Nat
    BY DEF Restarts, HeadingsIn
  <2>3. Min(Restarts(raw)) \in Nat
    BY <2>1, <2>2, MinIsLeast
  <2>4. p \in Nat /\ q \in Nat
    BY <1>2 DEF HeadingsIn
  <2> QED BY <2>1, <2>3, <2>4 DEF Before
<1> HIDE DEF toc
<1> QED BY <1>1, <1>2, <1>3, PartOfHeadings

-----------------------------------------------------------------------------
(* The length of the longest sequence of headings up to one.               *)

LongestUpTo(f, found, m) ==
  f = [p \in {q \in DOMAIN found : q =< m} |->
         1 + Max({0} \cup {f[q] : q \in Earlier(found, p)})]

LEMMA LongestExists ==
  ASSUME NEW n \in Nat, NEW found, HeadingsIn(found, n), NEW m \in Nat
  PROVE  \E f : LongestUpTo(f, found, m)
<1> DEFINE Bad == {k \in Nat : ~\E f : LongestUpTo(f, found, k)}
<1>1. SUFFICES ASSUME Bad # {} PROVE FALSE
  OBVIOUS
<1>2. PICK k \in Bad : \A i \in Bad : k =< i
  BY <1>1, LeastNumber, Bad \in SUBSET Nat
<1>3. k \in Nat /\ ~\E f : LongestUpTo(f, found, k)
  OBVIOUS
<1> DEFINE D(i) == {q \in DOMAIN found : q =< i}
<1>4. DOMAIN found \in SUBSET Nat
  BY DEF HeadingsIn
<1>5. PICK g : g = [p \in D(k) \ {k} |->
                      1 + Max({0} \cup {g[q] : q \in Earlier(found, p)})]
  <2>1. CASE k = 0
    <3>1. D(k) \ {k} = {}
      BY <1>4, <2>1 DEF HeadingsIn
    <3> DEFINE none == [p \in {} |-> 0]
               same == [p \in {} |-> 1 + Max({0} \cup {none[q] : q \in Earlier(found, p)})]
    <3>2. none = same
      OBVIOUS
    <3>3. same = [p \in D(k) \ {k} |-> 1 + Max({0} \cup {none[q] : q \in Earlier(found, p)})]
      BY <3>1
    <3>4. none = [p \in D(k) \ {k} |-> 1 + Max({0} \cup {none[q] : q \in Earlier(found, p)})]
      BY <3>2, <3>3, Zenon
    <3> HIDE DEF none, same
    <3> QED BY <3>4
  <2>2. CASE k # 0
    <3>1. k - 1 \in Nat /\ ~(k =< k - 1)
      BY <1>3, <2>2
    <3>2. PICK f : LongestUpTo(f, found, k - 1)
      BY <1>2, <3>1
    <3>3. D(k) \ {k} = {q \in DOMAIN found : q =< k - 1}
      BY <1>3, <1>4, <2>2
    <3>4. f = [p \in {q \in DOMAIN found : q =< k - 1} |->
                 1 + Max({0} \cup {f[q] : q \in Earlier(found, p)})]
      BY <3>2 DEF LongestUpTo
    <3> HIDE DEF D
    <3>5. f = [p \in D(k) \ {k} |-> 1 + Max({0} \cup {f[q] : q \in Earlier(found, p)})]
      BY <3>3, <3>4, Zenon
    <3> QED BY <3>5, Zenon
  <2> QED BY <2>1, <2>2
<1> DEFINE f == [p \in D(k) |-> IF p = k
                                THEN 1 + Max({0} \cup {g[q] : q \in Earlier(found, p)}) ELSE g[p]]
           h == [p \in D(k) |-> 1 + Max({0} \cup {f[q] : q \in Earlier(found, p)})]
<1>6. ASSUME NEW p \in D(k) PROVE f[p] = h[p]
  <2>1. ASSUME NEW q \in Earlier(found, p) PROVE f[q] = g[q]
    <3>1. q \in DOMAIN found /\ q < p /\ q \in Nat /\ p \in Nat /\ p =< k
      BY <1>4 DEF Earlier, Before
    <3>2. q \in D(k) /\ q # k
      BY <1>3, <3>1
    <3> QED BY <3>2
  <2>2. {f[q] : q \in Earlier(found, p)} = {g[q] : q \in Earlier(found, p)}
    BY <2>1
  <2>3. h[p] = 1 + Max({0} \cup {g[q] : q \in Earlier(found, p)})
    BY <2>2
  <2>4. p # k => g[p] = 1 + Max({0} \cup {g[q] : q \in Earlier(found, p)})
    BY <1>5
  <2>5. f[p] = IF p = k THEN 1 + Max({0} \cup {g[q] : q \in Earlier(found, p)}) ELSE g[p]
    OBVIOUS
  <2> HIDE DEF f, h, D
  <2> QED BY <2>3, <2>4, <2>5
<1>7. f = [p \in D(k) |-> f[p]] /\ h = [p \in D(k) |-> h[p]]
  OBVIOUS
<1>8. h = [p \in D(k) |-> 1 + Max({0} \cup {f[q] : q \in Earlier(found, p)})]
  OBVIOUS
<1> HIDE DEF f, h
<1>9. f = h
  BY <1>6, <1>7
<1>10. LongestUpTo(f, found, k)
  BY <1>8, <1>9 DEF LongestUpTo
<1> QED BY <1>3, <1>10

LEMMA LongestIsDefined ==
  ASSUME NEW n \in Nat, NEW found, HeadingsIn(found, n)
  PROVE  \A p \in DOMAIN found :
           LongestTo(found)[p] = 1 + Max({0} \cup {LongestTo(found)[q] : q \in Earlier(found, p)})
<1>1. PICK f : LongestUpTo(f, found, n)
  BY LongestExists
<1>2. {q \in DOMAIN found : q =< n} = DOMAIN found
  BY DEF HeadingsIn
<1>3. f = [p \in DOMAIN found |-> 1 + Max({0} \cup {f[q] : q \in Earlier(found, p)})]
  BY <1>1, <1>2 DEF LongestUpTo
<1> DEFINE Is(g) == g = [p \in DOMAIN found |-> 1 + Max({0} \cup {g[q] : q \in Earlier(found, p)})]
<1>4. LongestTo(found) = CHOOSE g : Is(g)
  BY DEF LongestTo
<1>5. Is(f)
  BY <1>3
<1> HIDE DEF Is
<1>6. Is(LongestTo(found))
  BY <1>4, <1>5
<1> DEFINE f1 == LongestTo(found)
<1>7. f1 = [p \in DOMAIN found |-> 1 + Max({0} \cup {f1[q] : q \in Earlier(found, p)})]
  BY <1>6, Zenon DEF Is
<1> HIDE DEF f1
<1>8. \A p \in DOMAIN found : f1[p] = 1 + Max({0} \cup {f1[q] : q \in Earlier(found, p)})
  BY <1>7
<1> QED BY <1>8, Zenon DEF f1

(* A heading's length is one more than the greatest of those before it     *)
(* that it may follow.                                                     *)
LengthsOf(f, found) ==
  \A p \in DOMAIN found :
    /\ f[p] \in 1..p
    /\ \A q \in Earlier(found, p) : f[q] + 1 =< f[p]
    /\ f[p] = 1 \/ \E q \in Earlier(found, p) : f[q] + 1 = f[p]

LEMMA LongestHasLengths ==
  ASSUME NEW n \in Nat, NEW found, HeadingsIn(found, n)
  PROVE  LengthsOf(LongestTo(found), found)
<1> DEFINE f == LongestTo(found)
           Values(p) == {0} \cup {f[q] : q \in Earlier(found, p)}
           Right(p) == /\ f[p] \in 1..p
                       /\ \A q \in Earlier(found, p) : f[q] + 1 =< f[p]
                       /\ f[p] = 1 \/ \E q \in Earlier(found, p) : f[q] + 1 = f[p]
           Bad == {p \in DOMAIN found : ~Right(p)}
<1>1. DOMAIN found \in SUBSET (1..n)
  BY DEF HeadingsIn
<1>2. SUFFICES ASSUME Bad # {} PROVE FALSE
  BY Zenon DEF LengthsOf
<1>3. Bad \in SUBSET Nat
  BY <1>1
<1>4. PICK p \in Bad : \A q \in Bad : p =< q
  BY <1>2, <1>3, LeastNumber
<1>5. p \in DOMAIN found /\ ~Right(p) /\ p \in 1..n
  BY <1>1
<1>6. ASSUME NEW q \in Earlier(found, p) PROVE f[q] \in 1..p - 1
  <2>1. q \in DOMAIN found /\ q < p /\ q \in 1..n
    BY <1>1 DEF Earlier, Before
  <2>2. q \notin Bad
    BY <1>4, <1>5, <2>1
  <2>3. f[q] \in 1..q
    BY <2>1, <2>2
  <2> HIDE DEF f
  <2> QED BY <1>5, <2>1, <2>3
<1>7. f[p] = 1 + Max(Values(p))
  BY <1>5, LongestIsDefined
<1> HIDE DEF f
<1>8. Values(p) \in SUBSET (0..p - 1) /\ Values(p) # {}
  BY <1>5, <1>6
<1>9. Max(Values(p)) \in Values(p) /\ \A v \in Values(p) : v =< Max(Values(p))
  <2>1. p - 1 \in Nat /\ Values(p) \in SUBSET Nat /\ \A v \in Values(p) : v =< p - 1
    BY <1>5, <1>8
  <2> HIDE DEF Values
  <2> QED BY <1>8, <2>1, MaxIsGreatest
<1>10. f[p] \in 1..p
  <2>1. Max(Values(p)) \in 0..p - 1
    BY <1>8, <1>9
  <2> HIDE DEF Values
  <2> QED BY <1>5, <1>7, <2>1
<1>11. ASSUME NEW q \in Earlier(found, p) PROVE f[q] + 1 =< f[p]
  <2>1. f[q] =< Max(Values(p)) /\ f[q] \in Nat /\ Max(Values(p)) \in Nat
    BY <1>5, <1>6, <1>8, <1>9
  <2> HIDE DEF Values
  <2> QED BY <1>7, <2>1
<1>12. f[p] = 1 \/ \E q \in Earlier(found, p) : f[q] + 1 = f[p]
  <2>1. Max(Values(p)) = 0 \/ \E q \in Earlier(found, p) : Max(Values(p)) = f[q]
    BY <1>9
  <2> HIDE DEF Values
  <2>2. \A q \in Earlier(found, p) : f[q] \in Nat
    BY <1>5, <1>6
  <2> QED BY <1>7, <2>1, <2>2
<1> QED BY <1>5, <1>10, <1>11, <1>12

(* No sequence of headings that never drops, up to p, is longer than that. *)
AscendsIn(found, S) == \A p, q \in S : p < q => found[p] <= found[q]

LEMMA FiniteHeadings ==
  ASSUME NEW n \in Nat, NEW found, HeadingsIn(found, n), NEW D \in SUBSET DOMAIN found
  PROVE  IsFiniteSet(D) /\ Cardinality(D) \in Nat
<1>1. D \in SUBSET Nat /\ \A p \in D : p =< n
  BY DEF HeadingsIn
<1>2. IsFiniteSet(D)
  BY <1>1, FS_BoundedSetOfNaturals
<1> QED BY <1>2, FS_CardinalityType

LEMMA NoLongerUpTo ==
  ASSUME NEW n \in Nat, NEW found, HeadingsIn(found, n),
         NEW f, LengthsOf(f, found),
         NEW p \in DOMAIN found, NEW D \in SUBSET DOMAIN found,
         p \in D, \A q \in D : q =< p, AscendsIn(found, D)
  PROVE  Cardinality(D) =< f[p]
<1> DEFINE Longer(r) == \E E \in SUBSET DOMAIN found :
                          /\ r \in E /\ \A q \in E : q =< r
                          /\ AscendsIn(found, E) /\ ~(Cardinality(E) =< f[r])
           Bad == {r \in DOMAIN found : Longer(r)}
<1>1. DOMAIN found \in SUBSET Nat /\ \A r \in DOMAIN found : r =< n
  BY DEF HeadingsIn
<1>2. SUFFICES ASSUME Bad # {} PROVE FALSE
  OBVIOUS
<1>3. PICK r \in Bad : \A q \in Bad : r =< q
  BY <1>1, <1>2, LeastNumber, Bad \in SUBSET Nat
<1>4. PICK E \in SUBSET DOMAIN found :
        /\ r \in E /\ \A q \in E : q =< r
        /\ AscendsIn(found, E) /\ ~(Cardinality(E) =< f[r])
  OBVIOUS
<1>5. r \in DOMAIN found /\ r \in Nat
  BY <1>1
<1> DEFINE E1 == E \ {r}
<1>6. /\ IsFiniteSet(E) /\ Cardinality(E) \in Nat /\ IsFiniteSet(E1) /\ Cardinality(E1) \in Nat
      /\ Cardinality(E1) = Cardinality(E) - 1
  <2>1. IsFiniteSet(E) /\ Cardinality(E) \in Nat /\ IsFiniteSet(E1) /\ Cardinality(E1) \in Nat
    BY FiniteHeadings, E1 \in SUBSET DOMAIN found
  <2> QED BY <1>4, <2>1, FS_RemoveElement
<1>7. f[r] \in Nat /\ f[r] >= 1
  BY <1>5 DEF LengthsOf
<1>8. CASE E1 = {}
  BY <1>4, <1>6, <1>7, <1>8, FS_EmptySet
<1>9. CASE E1 # {}
  <2>1. E1 \in SUBSET Nat /\ \A q \in E1 : q =< n
    BY <1>1
  <2> DEFINE q == Max(E1)
  <2>2. q \in E1 /\ \A x \in E1 : x =< q
    BY <1>9, <2>1, MaxIsGreatest
  <2> HIDE DEF q
  <2>3. q \in DOMAIN found /\ q \in Nat /\ q < r
    BY <1>1, <1>4, <1>5, <2>2
  <2>4. q \in Earlier(found, r)
    BY <1>4, <2>2, <2>3 DEF Earlier, Before, AscendsIn
  <2>5. AscendsIn(found, E1)
    BY <1>4 DEF AscendsIn
  <2>6. q \notin Bad
    BY <1>3, <1>5, <2>3
  <2>7. Cardinality(E1) =< f[q]
    BY <2>2, <2>3, <2>5, <2>6
  <2>8. f[q] + 1 =< f[r] /\ f[q] \in Nat
    BY <1>5, <2>3, <2>4 DEF LengthsOf
  <2> QED BY <1>4, <1>6, <1>7, <2>7, <2>8
<1> QED BY <1>8, <1>9

-----------------------------------------------------------------------------
(* The sequence that has this length.                                      *)

Followed(c, found, f, p) ==
  {p} \cup IF Parents(found, f, p) = {} THEN {} ELSE c[Max(Parents(found, f, p))]

LEMMA ParentIsEarlier ==
  ASSUME NEW n \in Nat, NEW found, HeadingsIn(found, n), NEW f,
         NEW p \in DOMAIN found, Parents(found, f, p) # {}
  PROVE  /\ Max(Parents(found, f, p)) \in Earlier(found, p)
         /\ f[Max(Parents(found, f, p))] + 1 = f[p]
         /\ Max(Parents(found, f, p)) \in DOMAIN found
         /\ Max(Parents(found, f, p)) < p
<1>1. /\ Parents(found, f, p) \in SUBSET Nat
      /\ \A q \in Parents(found, f, p) : q =< n
  BY DEF Parents, Earlier, Before, HeadingsIn
<1>2. Max(Parents(found, f, p)) \in Parents(found, f, p)
  BY <1>1, MaxIsGreatest
<1> QED BY <1>2 DEF Parents, Earlier, Before

ChainUpTo(c, found, f, m) ==
  c = [p \in {q \in DOMAIN found : q =< m} |-> Followed(c, found, f, p)]

LEMMA ChainExists ==
  ASSUME NEW n \in Nat, NEW found, HeadingsIn(found, n), NEW f, NEW m \in Nat
  PROVE  \E c : ChainUpTo(c, found, f, m)
<1> DEFINE Bad == {k \in Nat : ~\E c : ChainUpTo(c, found, f, k)}
<1>1. SUFFICES ASSUME Bad # {} PROVE FALSE
  OBVIOUS
<1>2. PICK k \in Bad : \A i \in Bad : k =< i
  BY <1>1, LeastNumber, Bad \in SUBSET Nat
<1>3. k \in Nat /\ ~\E c : ChainUpTo(c, found, f, k)
  OBVIOUS
<1> DEFINE D(i) == {q \in DOMAIN found : q =< i}
<1>4. DOMAIN found \in SUBSET (1..n)
  BY DEF HeadingsIn
<1>5. PICK g : g = [p \in D(k) \ {k} |-> Followed(g, found, f, p)]
  <2>1. CASE k = 0
    <3>1. D(k) \ {k} = {}
      BY <1>4, <2>1
    <3> DEFINE none == [p \in {} |-> 0]
               same == [p \in {} |-> Followed(none, found, f, p)]
    <3>2. none = same
      OBVIOUS
    <3>3. same = [p \in D(k) \ {k} |-> Followed(none, found, f, p)]
      BY <3>1
    <3>4. none = [p \in D(k) \ {k} |-> Followed(none, found, f, p)]
      BY <3>2, <3>3, Zenon
    <3> HIDE DEF none, same
    <3> QED BY <3>4
  <2>2. CASE k # 0
    <3>1. k - 1 \in Nat /\ ~(k =< k - 1)
      BY <1>3, <2>2
    <3>2. PICK c : ChainUpTo(c, found, f, k - 1)
      BY <1>2, <3>1
    <3>3. D(k) \ {k} = {q \in DOMAIN found : q =< k - 1}
      BY <1>3, <1>4, <2>2
    <3> HIDE DEF D
    <3> QED BY <3>2, <3>3 DEF ChainUpTo
  <2> QED BY <2>1, <2>2
<1> DEFINE c == [p \in D(k) |-> IF p = k THEN Followed(g, found, f, p) ELSE g[p]]
           h == [p \in D(k) |-> Followed(c, found, f, p)]
<1>6. ASSUME NEW p \in D(k) PROVE c[p] = h[p]
  <2>1. p \in DOMAIN found /\ p =< k /\ p \in Nat
    BY <1>4
  <2>2. Followed(c, found, f, p) = Followed(g, found, f, p)
    <3>1. CASE Parents(found, f, p) = {}
      BY <3>1 DEF Followed
    <3>2. CASE Parents(found, f, p) # {}
      <4> DEFINE q == Max(Parents(found, f, p))
      <4>1. q \in DOMAIN found /\ q < p
        BY <2>1, <3>2, ParentIsEarlier
      <4> HIDE DEF q
      <4>2. q \in D(k) /\ q # k
        BY <1>3, <1>4, <2>1, <4>1
      <4>3. c[q] = g[q]
        BY <4>2
      <4> HIDE DEF c
      <4> QED BY <4>3 DEF Followed, q
    <3> QED BY <3>1, <3>2
  <2>3. h[p] = Followed(c, found, f, p)
    OBVIOUS
  <2>4. c[p] = IF p = k THEN Followed(g, found, f, p) ELSE g[p]
    OBVIOUS
  <2>5. p # k => g[p] = Followed(g, found, f, p)
    <3>1. p # k => p \in D(k) \ {k}
      OBVIOUS
    <3> HIDE DEF D
    <3> QED BY <1>5, <3>1
  <2> HIDE DEF c, h, D
  <2> QED BY <2>2, <2>3, <2>4, <2>5
<1>7. c = [p \in D(k) |-> c[p]] /\ h = [p \in D(k) |-> h[p]]
  OBVIOUS
<1>8. h = [p \in D(k) |-> Followed(c, found, f, p)]
  OBVIOUS
<1> HIDE DEF c, h
<1>9. c = h
  BY <1>6, <1>7
<1>10. ChainUpTo(c, found, f, k)
  BY <1>8, <1>9 DEF ChainUpTo
<1> QED BY <1>3, <1>10

LEMMA ChainIsDefined ==
  ASSUME NEW n \in Nat, NEW found, HeadingsIn(found, n), NEW f
  PROVE  \A p \in DOMAIN found :
           ChainTo(found, f)[p] = Followed(ChainTo(found, f), found, f, p)
<1>1. PICK c : ChainUpTo(c, found, f, n)
  BY ChainExists
<1>2. {q \in DOMAIN found : q =< n} = DOMAIN found
  BY DEF HeadingsIn
<1>3. c = [p \in DOMAIN found |-> Followed(c, found, f, p)]
  BY <1>1, <1>2 DEF ChainUpTo
<1> DEFINE Is(g) == g = [p \in DOMAIN found |-> Followed(g, found, f, p)]
<1>4. ChainTo(found, f) = CHOOSE g : Is(g)
  BY DEF ChainTo, Followed
<1>5. Is(c)
  BY <1>3
<1> HIDE DEF Is
<1>6. Is(ChainTo(found, f))
  BY <1>4, <1>5
<1> DEFINE c1 == ChainTo(found, f)
<1>7. c1 = [p \in DOMAIN found |-> Followed(c1, found, f, p)]
  BY <1>6, Zenon DEF Is
<1> HIDE DEF c1
<1>8. \A p \in DOMAIN found : c1[p] = Followed(c1, found, f, p)
  BY <1>7
<1> QED BY <1>8, Zenon DEF c1

(* It ends at the heading, never drops, and has the length of the longest. *)
ChainRight(C, found, f, p) ==
  /\ C \in SUBSET DOMAIN found
  /\ p \in C /\ \A q \in C : q =< p /\ found[q] =< found[p]
  /\ AscendsIn(found, C)
  /\ Cardinality(C) = f[p]

LEMMA ChainsAreRight ==
  ASSUME NEW n \in Nat, NEW found, HeadingsIn(found, n), NEW f, LengthsOf(f, found),
         NEW p \in DOMAIN found
  PROVE  ChainRight(ChainTo(found, f)[p], found, f, p)
<1> DEFINE c == ChainTo(found, f)
           Bad == {r \in DOMAIN found : ~ChainRight(c[r], found, f, r)}
<1>1. DOMAIN found \in SUBSET Nat /\ \A r \in DOMAIN found : found[r] \in Nat
  BY DEF HeadingsIn
<1>2. SUFFICES ASSUME Bad # {} PROVE FALSE
  OBVIOUS
<1>3. PICK r \in Bad : \A q \in Bad : r =< q
  BY <1>1, <1>2, LeastNumber, Bad \in SUBSET Nat
<1>4. r \in DOMAIN found /\ r \in Nat /\ found[r] \in Nat /\ ~ChainRight(c[r], found, f, r)
  BY <1>1
<1>5. c[r] = Followed(c, found, f, r)
  BY <1>4, ChainIsDefined
<1> HIDE DEF c
<1>6. CASE Parents(found, f, r) = {}
  <2>1. c[r] = {r}
    BY <1>5, <1>6 DEF Followed
  <2>2. ~\E q \in Earlier(found, r) : f[q] + 1 = f[r]
    BY <1>6 DEF Parents
  <2>3. f[r] = 1
    BY <1>4, <2>2 DEF LengthsOf
  <2>4. Cardinality(c[r]) = f[r]
    BY <2>1, <2>3, FS_Singleton
  <2>5. AscendsIn(found, c[r])
    BY <1>4, <2>1 DEF AscendsIn
  <2> QED BY <1>4, <2>1, <2>4, <2>5 DEF ChainRight
<1>7. CASE Parents(found, f, r) # {}
  <2> DEFINE q == Max(Parents(found, f, r))
  <2>1. q \in Earlier(found, r) /\ f[q] + 1 = f[r] /\ q \in DOMAIN found /\ q < r
    BY <1>4, <1>7, ParentIsEarlier
  <2>2. c[r] = {r} \cup c[q]
    BY <1>5, <1>7 DEF Followed
  <2> HIDE DEF q
  <2>3. q \in Nat /\ q \notin Bad
    BY <1>1, <1>3, <1>4, <2>1
  <2>4. ChainRight(c[q], found, f, q)
    BY <2>1, <2>3
  <2>5. found[q] =< found[r] /\ found[q] \in Nat
    BY <1>1, <2>1 DEF Earlier
  <2>6. \A x \in c[q] : x \in DOMAIN found /\ x \in Nat /\ found[x] \in Nat /\ x =< q /\ found[x] =< found[q]
    BY <1>1, <2>4 DEF ChainRight
  <2>7. \A x \in c[q] : x < r /\ found[x] =< found[r]
    BY <1>4, <2>1, <2>3, <2>5, <2>6
  <2>8. c[r] \in SUBSET DOMAIN found /\ r \in c[r]
    BY <1>4, <2>2, <2>6
  <2>9. \A x \in c[r] : x =< r /\ found[x] =< found[r]
    BY <1>4, <2>2, <2>6, <2>7
  <2>10. AscendsIn(found, c[r])
    <3> SUFFICES ASSUME NEW x \in c[r], NEW y \in c[r], x < y PROVE found[x] <= found[y]
      BY DEF AscendsIn
    <3>1. CASE y = r
      BY <2>9, <3>1
    <3>2. CASE y # r
      <4>1. y \in c[q] /\ y < r /\ y \in Nat
        BY <2>2, <2>6, <2>7, <3>2
      <4>2. x # r
        BY <1>4, <4>1
      <4>3. x \in c[q]
        BY <2>2, <4>2
      <4> QED BY <2>4, <4>1, <4>3 DEF ChainRight, AscendsIn
    <3> QED BY <3>1, <3>2
  <2>11. Cardinality(c[r]) = f[r]
    <3>1. IsFiniteSet(c[q]) /\ c[q] \in SUBSET DOMAIN found
      BY <2>4, FiniteHeadings DEF ChainRight
    <3>2. r \notin c[q]
      BY <1>4, <2>7
    <3>3. Cardinality(c[q] \cup {r}) = Cardinality(c[q]) + 1
      BY <3>1, <3>2, FS_AddElement
    <3>4. c[r] = c[q] \cup {r}
      BY <2>2
    <3>5. Cardinality(c[q]) = f[q]
      BY <2>4 DEF ChainRight
    <3> QED BY <2>1, <3>3, <3>4, <3>5
  <2> QED BY <1>4, <2>8, <2>9, <2>10, <2>11 DEF ChainRight
<1> QED BY <1>6, <1>7

-----------------------------------------------------------------------------
(* What is kept of the headings.                                           *)
KeptRight(kept, found) ==
  /\ DOMAIN kept \in SUBSET DOMAIN found
  /\ \A p \in DOMAIN kept : kept[p] = found[p]
  /\ \A p, q \in DOMAIN kept : p < q => kept[p] =< kept[q]
  /\ \A D \in SUBSET DOMAIN found :
       AscendsIn(found, D) => Cardinality(D) =< Cardinality(DOMAIN kept)

LEMMA FilteredAreRight ==
  ASSUME NEW n \in Nat, NEW found, HeadingsIn(found, n)
  PROVE  KeptRight(FilterMonotonic(found), found)
<1> DEFINE f == LongestTo(found)
           best == {p \in DOMAIN found : \A q \in DOMAIN found : f[q] <= f[p]}
           C == IF best = {} THEN {} ELSE ChainTo(found, f)[Max(best)]
<1>1. FilterMonotonic(found) = Restrict(found, C)
  BY DEF FilterMonotonic
<1>2. LengthsOf(f, found)
  BY LongestHasLengths
<1>3. DOMAIN found \in SUBSET (1..n)
  BY DEF HeadingsIn
<1>4. best = {} => DOMAIN found = {}
  <2> DEFINE Lengths == {f[q] : q \in DOMAIN found}
  <2>1. SUFFICES ASSUME DOMAIN found # {} PROVE best # {}
    OBVIOUS
  <2>2. \A q \in DOMAIN found : f[q] \in Nat /\ f[q] =< n
    BY <1>2, <1>3 DEF LengthsOf
  <2> HIDE DEF f
  <2>3. Lengths \in SUBSET Nat /\ Lengths # {} /\ \A l \in Lengths : l =< n
    BY <2>1, <2>2
  <2>4. Max(Lengths) \in Lengths /\ \A l \in Lengths : l =< Max(Lengths)
    <3> HIDE DEF Lengths
    <3> QED BY <2>3, MaxIsGreatest
  <2>5. PICK p \in DOMAIN found : f[p] = Max(Lengths)
    BY <2>4
  <2>6. \A q \in DOMAIN found : f[q] =< f[p]
    BY <2>4, <2>5
  <2> QED BY <2>6
<1>5. CASE best = {}
  <2>1. C = {} /\ DOMAIN found = {}
    BY <1>4, <1>5
  <2>2. DOMAIN FilterMonotonic(found) = {}
    BY <1>1, <2>1 DEF Restrict
  <2> QED BY <2>1, <2>2, FS_EmptySet DEF KeptRight
<1>6. CASE best # {}
  <2> DEFINE b == Max(best)
  <2>1. best \in SUBSET Nat /\ \A p \in best : p =< n
    BY <1>3
  <2>2. b \in best
    <3> HIDE DEF best
    <3> QED BY <1>6, <2>1, MaxIsGreatest
  <2>3. b \in DOMAIN found /\ \A q \in DOMAIN found : f[q] <= f[b]
    <3> HIDE DEF b
    <3> QED BY <2>2
  <2>4. C = ChainTo(found, f)[b]
    BY <1>6
  <2> HIDE DEF b, best, f, C
  <2>5. ChainRight(C, found, f, b)
    BY <1>2, <2>3, <2>4, ChainsAreRight
  <2>6. /\ DOMAIN Restrict(found, C) = C /\ \A p \in C : Restrict(found, C)[p] = found[p]
    BY DEF Restrict
  <2>7. ASSUME NEW D \in SUBSET DOMAIN found, AscendsIn(found, D)
        PROVE  Cardinality(D) =< Cardinality(C)
    <3>1. Cardinality(C) = f[b] /\ f[b] \in Nat
      BY <1>2, <2>3, <2>5 DEF ChainRight, LengthsOf
    <3>2. CASE D = {}
      BY <3>1, <3>2, FS_EmptySet
    <3>3. CASE D # {}
      <4>1. D \in SUBSET Nat /\ \A p \in D : p =< n
        BY <1>3
      <4>2. Max(D) \in D /\ \A q \in D : q =< Max(D)
        BY <3>3, <4>1, MaxIsGreatest
      <4>3. Cardinality(D) =< f[Max(D)]
        BY <1>2, <2>7, <4>2, NoLongerUpTo
      <4>4. f[Max(D)] =< f[b] /\ f[Max(D)] \in Nat /\ Cardinality(D) \in Nat
        BY <1>2, <2>3, <4>2, FiniteHeadings DEF LengthsOf
      <4> QED BY <3>1, <4>3, <4>4
    <3> QED BY <3>2, <3>3
  <2>8. \A p, q \in C : p < q => found[p] =< found[q]
    BY <2>5 DEF ChainRight, AscendsIn
  <2>9. C \in SUBSET DOMAIN found
    BY <2>5 DEF ChainRight
  <2> QED BY <1>1, <2>6, <2>7, <2>8, <2>9 DEF KeptRight
<1> QED BY <1>5, <1>6

-----------------------------------------------------------------------------
(* Lines, and what is left of a text that is trimmed.                      *)

LineEnd(text, p) == Min({q \in p..Len(text) : text[q] = Break} \cup {Len(text)})

LEMMA LineEndIsLater ==
  ASSUME NEW S, NEW text \in Seq(S), NEW p \in 1..Len(text), NEW q \in p..Len(text)
  PROVE  /\ LineEnd(text, p) \in p..Len(text) /\ LineEnd(text, p) =< LineEnd(text, q)
         /\ Len(LineAt(text, p)) = LineEnd(text, p) - p + 1
<1> DEFINE Ends(r) == {x \in r..Len(text) : text[x] = Break} \cup {Len(text)}
<1>1. Len(text) \in Nat /\ p \in Nat /\ q \in Nat /\ p =< q /\ q =< Len(text) /\ p >= 1
  OBVIOUS
<1>2. /\ Ends(p) \in SUBSET Nat /\ Ends(p) # {} /\ Ends(q) \in SUBSET Nat /\ Ends(q) # {}
      /\ Ends(q) \in SUBSET Ends(p) /\ Ends(p) \in SUBSET (p..Len(text))
  BY <1>1
<1> HIDE DEF Ends
<1>3. Min(Ends(p)) \in Ends(p) /\ \A y \in Ends(p) : Min(Ends(p)) =< y
  BY <1>2, MinIsLeast
<1>4. Min(Ends(q)) \in Ends(q)
  BY <1>2, MinIsLeast
<1>5. LineEnd(text, p) = Min(Ends(p)) /\ LineEnd(text, q) = Min(Ends(q))
  BY DEF LineEnd, Ends
<1>6. LineEnd(text, p) \in p..Len(text) /\ LineEnd(text, p) =< LineEnd(text, q)
  BY <1>2, <1>3, <1>4, <1>5
<1>7. LineAt(text, p) = SubSeq(text, p, LineEnd(text, p))
  BY DEF LineAt, LineEnd
<1>8. Len(SubSeq(text, p, LineEnd(text, p))) = LineEnd(text, p) - p + 1
  BY <1>1, <1>6
<1> QED BY <1>6, <1>7, <1>8

LEMMA InkedBounds ==
  ASSUME NEW S, NEW text \in Seq(S), Inked(text) # {}
  PROVE  /\ Min(Inked(text)) \in Inked(text) /\ Max(Inked(text)) \in Inked(text)
         /\ \A i \in Inked(text) : Min(Inked(text)) =< i /\ i =< Max(Inked(text))
         /\ Len(Trim(text)) = Max(Inked(text)) - Min(Inked(text)) + 1
<1>1. Inked(text) \in SUBSET (1..Len(text)) /\ Len(text) \in Nat
  BY DEF Inked
<1>2. Inked(text) \in SUBSET Nat /\ \A i \in Inked(text) : i =< Len(text)
  BY <1>1
<1>3. /\ Min(Inked(text)) \in Inked(text) /\ \A i \in Inked(text) : Min(Inked(text)) =< i
      /\ Max(Inked(text)) \in Inked(text) /\ \A i \in Inked(text) : i =< Max(Inked(text))
  BY <1>1, <1>2, MinIsLeast, MaxIsGreatest
<1>4. Trim(text) = SubSeq(text, Min(Inked(text)), Max(Inked(text)))
  BY DEF Trim
<1>5. /\ Min(Inked(text)) \in 1..Len(text) /\ Max(Inked(text)) \in 1..Len(text)
      /\ Min(Inked(text)) =< Max(Inked(text))
  BY <1>1, <1>3
<1> HIDE DEF Inked
<1>6. Len(SubSeq(text, Min(Inked(text)), Max(Inked(text)))) = Max(Inked(text)) - Min(Inked(text)) + 1
  BY <1>5
<1> QED BY <1>3, <1>4, <1>6

(* What follows later is, trimmed, no longer.                              *)
LEMMA TrimmedSuffix ==
  ASSUME NEW S, NEW text \in Seq(S), NEW i \in 1..Len(text) + 1, NEW j \in i..Len(text) + 1,
         NEW e \in 0..Len(text)
  PROVE  /\ Len(Trim(SubSeq(text, i, e))) \in 0..Len(text)
         /\ Len(Trim(SubSeq(text, j, e))) =< Len(Trim(SubSeq(text, i, e)))
<1> DEFINE t == SubSeq(text, i, e)
           u == SubSeq(text, j, e)
<1>1. Len(text) \in Nat /\ i \in Nat /\ j \in Nat /\ e \in Nat /\ i >= 1 /\ i =< j /\ e =< Len(text)
  OBVIOUS
<1>2. /\ t \in Seq(S) /\ Len(t) = IF i =< e THEN e - i + 1 ELSE 0
      /\ \A x \in 1..Len(t) : t[x] = text[i + x - 1]
  BY <1>1, SubSeqProperties
<1>3. /\ u \in Seq(S) /\ Len(u) = IF j =< e THEN e - j + 1 ELSE 0
      /\ \A x \in 1..Len(u) : u[x] = text[j + x - 1]
  BY <1>1, SubSeqProperties
<1> HIDE DEF t, u
<1>4. DOMAIN t = 1..Len(t) /\ DOMAIN u = 1..Len(u)
  BY <1>2, <1>3
<1>5. ASSUME NEW x \in Inked(u) PROVE x + (j - i) \in Inked(t) /\ x \in 1..Len(u)
  <2>1. x \in 1..Len(u) /\ ~Blank(u[x])
    BY <1>4 DEF Inked
  <2>2. x + (j - i) \in 1..Len(t)
    BY <1>1, <1>2, <1>3, <2>1
  <2>3. t[x + (j - i)] = u[x]
    <3>1. u[x] = text[j + x - 1]
      BY <1>3, <2>1
    <3>2. t[x + (j - i)] = text[i + (x + (j - i)) - 1]
      BY <1>2, <2>2
    <3>3. i + (x + (j - i)) - 1 = j + x - 1
      <4>1. x \in Nat /\ i \in Nat /\ j \in Nat
        BY <1>1, <2>1
      <4> QED BY <4>1
    <3> QED BY <3>1, <3>2, <3>3
  <2> QED BY <1>4, <2>1, <2>2, <2>3 DEF Inked
<1>6. Inked(t) = {} => Len(Trim(t)) = 0
  BY DEF Trim
<1>7. Inked(t) \in SUBSET (1..Len(t)) /\ Inked(u) \in SUBSET (1..Len(u)) /\ Len(t) \in 0..Len(text)
  BY <1>1, <1>2, <1>4 DEF Inked
<1>8. Len(Trim(t)) \in 0..Len(text)
  <2>1. CASE Inked(t) = {}
    BY <1>1, <1>6, <2>1
  <2>2. CASE Inked(t) # {}
    <3>1. /\ Min(Inked(t)) \in 1..Len(t) /\ Max(Inked(t)) \in 1..Len(t)
          /\ Min(Inked(t)) =< Max(Inked(t)) /\ Len(Trim(t)) = Max(Inked(t)) - Min(Inked(t)) + 1
      BY <1>2, <1>7, <2>2, InkedBounds
    <3> QED BY <1>1, <1>7, <3>1
  <2> QED BY <2>1, <2>2
<1>9. Len(Trim(u)) =< Len(Trim(t))
  <2>1. CASE Inked(u) = {}
    <3>1. Len(Trim(u)) = 0
      BY <2>1 DEF Trim
    <3> QED BY <1>8, <3>1
  <2>2. CASE Inked(u) # {}
    <3>1. /\ Min(Inked(u)) \in Inked(u) /\ Max(Inked(u)) \in Inked(u)
          /\ Len(Trim(u)) = Max(Inked(u)) - Min(Inked(u)) + 1
      BY <1>3, <2>2, InkedBounds
    <3>2. /\ Min(Inked(u)) + (j - i) \in Inked(t) /\ Max(Inked(u)) + (j - i) \in Inked(t)
          /\ Min(Inked(u)) \in Nat /\ Max(Inked(u)) \in Nat
      <4>1. /\ Min(Inked(u)) + (j - i) \in Inked(t)
            /\ Max(Inked(u)) + (j - i) \in Inked(t)
        BY <1>5, <3>1, Zenon
      <4>2. Min(Inked(u)) \in Nat /\ Max(Inked(u)) \in Nat
        BY <1>7, <3>1
      <4> QED BY <4>1, <4>2, Zenon
    <3>3. /\ Min(Inked(t)) =< Min(Inked(u)) + (j - i) /\ Max(Inked(u)) + (j - i) =< Max(Inked(t))
          /\ Len(Trim(t)) = Max(Inked(t)) - Min(Inked(t)) + 1
          /\ Min(Inked(t)) \in Nat /\ Max(Inked(t)) \in Nat
      <4>1. Inked(t) # {}
        BY <3>2
      <4>2. /\ Min(Inked(t)) \in Inked(t) /\ Max(Inked(t)) \in Inked(t)
            /\ \A x \in Inked(t) : Min(Inked(t)) =< x /\ x =< Max(Inked(t))
            /\ Len(Trim(t)) = Max(Inked(t)) - Min(Inked(t)) + 1
        BY <1>2, <4>1, InkedBounds
      <4>3. Min(Inked(t)) \in Nat /\ Max(Inked(t)) \in Nat
        BY <1>7, <4>2
      <4>4. /\ Min(Inked(t)) =< Min(Inked(u)) + (j - i)
            /\ Max(Inked(u)) + (j - i) =< Max(Inked(t))
        BY <3>2, <4>2, Zenon
      <4> QED BY <4>2, <4>3, <4>4, Zenon
    <3> DEFINE a == Min(Inked(u))
               b == Max(Inked(u))
               c == Min(Inked(t))
               d == Max(Inked(t))
    <3>4. /\ a \in Nat /\ b \in Nat /\ c \in Nat /\ d \in Nat
          /\ c =< a + (j - i) /\ b + (j - i) =< d
      BY <3>2, <3>3, Zenon
    <3>5. Len(Trim(u)) = b - a + 1 /\ Len(Trim(t)) = d - c + 1
      BY <3>1, <3>3, Zenon
    <3> HIDE DEF a, b, c, d
    <3> QED BY <1>1, <3>4, <3>5
  <2> QED BY <2>1, <2>2
<1> QED BY <1>8, <1>9 DEF t, u

-----------------------------------------------------------------------------
(* Chapters.                                                               *)

(* Headings kept of a text, in the order of their numbers.                 *)
KeptIn(kept, text) ==
  /\ HeadingsIn(kept, Len(text))
  /\ \A p, q \in DOMAIN kept : p < q => kept[p] =< kept[q]

ChapterFrom(kept, n) == {p \in DOMAIN kept : kept[p] >= n}
ChapterEnd(kept, n, text) == Min(ChapterFrom(kept, n + 1) \cup {Len(text) + 1}) - 1

(* All headings of a chapter share its end.                                *)
LEMMA SharedEnd ==
  ASSUME NEW S, NEW text \in Seq(S), NEW kept, KeptIn(kept, text),
         NEW p \in DOMAIN kept
  PROVE  /\ NextChapter(kept, p) = ChapterFrom(kept, kept[p] + 1)
         /\ ChapterEnd(kept, kept[p], text) \in p..Len(text)
         /\ Slice(text, kept, p) = SubSeq(text, p, ChapterEnd(kept, kept[p], text))
<1> DEFINE n == kept[p]
           Later == ChapterFrom(kept, n + 1)
<1>1. /\ DOMAIN kept \in SUBSET (1..Len(text)) /\ \A q \in DOMAIN kept : kept[q] \in Nat
      /\ \A q, r \in DOMAIN kept : q < r => kept[q] =< kept[r]
  BY DEF KeptIn, HeadingsIn
<1>2. Len(text) \in Nat /\ p \in 1..Len(text) /\ n \in Nat
  BY <1>1
<1>3. ASSUME NEW q \in DOMAIN kept PROVE (q > p /\ kept[q] # n) <=> kept[q] >= n + 1
  <2>1. q \in Nat /\ kept[q] \in Nat
    BY <1>1
  <2>2. ASSUME q > p, kept[q] # n PROVE kept[q] >= n + 1
    <3>1. n =< kept[q]
      BY <1>1, <1>2, <2>1, <2>2
    <3> HIDE DEF n
    <3> QED BY <1>2, <2>1, <2>2, <3>1
  <2>3. ASSUME kept[q] >= n + 1 PROVE q > p /\ kept[q] # n
    <3>1. ~(kept[q] =< n) /\ kept[q] # n
      BY <1>2, <2>1, <2>3
    <3>2. ~(q < p) /\ q # p
      BY <1>1, <3>1
    <3> QED BY <1>2, <2>1, <3>1, <3>2
  <2> QED BY <2>2, <2>3
<1>4. NextChapter(kept, p) = Later
  BY <1>3 DEF NextChapter, ChapterFrom
<1>5. \A q \in Later : q > p /\ q \in 1..Len(text)
  BY <1>1, <1>3 DEF ChapterFrom
<1> DEFINE Ends == Later \cup {Len(text) + 1}
<1>6. Ends \in SUBSET Nat /\ Ends # {} /\ \A q \in Ends : q > p /\ q =< Len(text) + 1
  BY <1>2, <1>5
<1>7. Min(Ends) \in Ends
  <2> HIDE DEF Ends
  <2> QED BY <1>6, MinIsLeast
<1>8. Min(Ends) \in Nat /\ Min(Ends) > p /\ Min(Ends) =< Len(text) + 1
  <2> HIDE DEF Ends
  <2> QED BY <1>6, <1>7
<1>9. ChapterEnd(kept, n, text) = Min(Ends) - 1
  BY DEF ChapterEnd
<1>10. Slice(text, kept, p) = SubSeq(text, p, Min(Ends) - 1)
  BY <1>4 DEF Slice
<1> HIDE DEF Ends
<1>11. ChapterEnd(kept, n, text) \in p..Len(text)
  BY <1>2, <1>8, <1>9
<1> QED BY <1>4, <1>9, <1>10, <1>11

LEMMA BodyIsSuffix ==
  ASSUME NEW S, NEW text \in Seq(S), NEW kept, KeptIn(kept, text),
         NEW p \in DOMAIN kept
  PROVE  BodyLength(text, kept, p)
           = Len(Trim(SubSeq(text, LineEnd(text, p) + 1, ChapterEnd(kept, kept[p], text))))
<1> DEFINE e == ChapterEnd(kept, kept[p], text)
           l == LineEnd(text, p)
           slice == Slice(text, kept, p)
           heading == Len(LineAt(text, p))
<1>1. p \in 1..Len(text) /\ Len(text) \in Nat
  BY DEF KeptIn, HeadingsIn
<1>2. e \in p..Len(text) /\ slice = SubSeq(text, p, e)
  BY SharedEnd
<1>3. l \in p..Len(text) /\ heading = l - p + 1
  <2>1. p \in p..Len(text)
    BY <1>1
  <2> QED BY <1>1, <2>1, LineEndIsLater
<1>4. BodyLength(text, kept, p) = Len(Trim(Between(slice, heading + 1, Len(slice))))
  BY DEF BodyLength
<1> HIDE DEF e, l, slice, heading
<1>5. p \in Nat /\ e \in Nat /\ l \in Nat /\ heading \in Nat /\ p >= 1 /\ p =< e /\ e =< Len(text)
      /\ p =< l /\ l =< Len(text)
  BY <1>1, <1>2, <1>3
<1>6. Len(slice) = e - p + 1 /\ slice \in Seq(S) /\ \A x \in 1..e - p + 1 : slice[x] = text[p + x - 1]
  BY <1>2, <1>5, SubSeqProperties
<1>7. Between(slice, heading + 1, Len(slice)) = SubSeq(text, l + 1, e)
  <2>1. CASE heading + 1 > Len(slice)
    <3>1. l + 1 > e
      BY <1>3, <1>5, <1>6, <2>1
    <3>2. SubSeq(text, l + 1, e) = << >>
      BY <1>5, <3>1, SubSeqEmpty
    <3> QED BY <2>1, <3>2 DEF Between
  <2>2. CASE ~(heading + 1 > Len(slice))
    <3>1. l + 1 =< e
      BY <1>3, <1>5, <1>6, <2>2
    <3> DEFINE a == SubSeq(slice, heading + 1, Len(slice))
               b == SubSeq(text, l + 1, e)
    <3>2. heading + 1 \in 1..Len(slice) + 1 /\ Len(slice) \in 0..Len(slice)
      BY <1>3, <1>5, <1>6, <2>2
    <3>3. /\ a \in Seq(S) /\ Len(a) = Len(slice) - heading
          /\ \A x \in 1..Len(slice) - heading : a[x] = slice[heading + x]
      <4>1. a \in Seq(S) /\ Len(a) = Len(slice) - (heading + 1) + 1
            /\ \A x \in 1..Len(slice) - (heading + 1) + 1 : a[x] = slice[(heading + 1) + x - 1]
        <5>1. heading + 1 =< Len(slice) /\ slice \in Seq(S)
          BY <1>5, <1>6, <2>2
        <5> HIDE DEF a
        <5>2. /\ a \in Seq(S)
              /\ Len(a) = IF heading + 1 =< Len(slice) THEN Len(slice) - (heading + 1) + 1 ELSE 0
              /\ \A x \in 1..Len(slice) - (heading + 1) + 1 : a[x] = slice[(heading + 1) + x - 1]
          BY <3>2, <5>1, SubSeqProperties DEF a
        <5> QED BY <5>1, <5>2
      <4>2. Len(slice) - (heading + 1) + 1 = Len(slice) - heading
        BY <1>5, <1>6
      <4>3. \A x \in 1..Len(slice) - heading : (heading + 1) + x - 1 = heading + x
        BY <1>5
      <4> HIDE DEF a
      <4> QED BY <4>1, <4>2, <4>3
    <3>4. /\ b \in Seq(S) /\ Len(b) = e - l
          /\ \A x \in 1..e - l : b[x] = text[l + x]
      <4>1. l + 1 \in 1..Len(text) + 1 /\ e \in 0..Len(text)
        BY <1>1, <1>5
      <4>2. /\ b \in Seq(S) /\ Len(b) = e - (l + 1) + 1
            /\ \A x \in 1..e - (l + 1) + 1 : b[x] = text[(l + 1) + x - 1]
        BY <3>1, <4>1, SubSeqProperties
      <4>3. e - (l + 1) + 1 = e - l /\ \A x \in 1..e - l : (l + 1) + x - 1 = l + x
        BY <1>5
      <4> HIDE DEF b
      <4> QED BY <4>2, <4>3
    <3> HIDE DEF a, b
    <3>5. Len(slice) - heading = e - l
      BY <1>3, <1>5, <1>6
    <3>6. ASSUME NEW x \in 1..e - l PROVE a[x] = b[x]
      <4>1. heading + x \in 1..e - p + 1 /\ p + (heading + x) - 1 = l + x
        BY <1>3, <1>5
      <4>2. slice[heading + x] = text[p + (heading + x) - 1]
        BY <1>6, <4>1
      <4> QED BY <3>3, <3>4, <3>5, <4>1, <4>2
    <3>7. a = b
      BY <3>3, <3>4, <3>5, <3>6, SeqEqual
    <3> QED BY <2>2, <3>7 DEF Between, a, b
  <2> QED BY <2>1, <2>2
<1> QED BY <1>4, <1>7 DEF e, l

(* The first heading of a chapter has most text behind it.                 *)
LEMMA FirstHasMost ==
  ASSUME NEW S, NEW text \in Seq(S), NEW kept, KeptIn(kept, text),
         NEW p \in DOMAIN kept, NEW q \in DOMAIN kept, kept[p] = kept[q], p =< q
  PROVE  /\ BodyLength(text, kept, p) \in Nat
         /\ BodyLength(text, kept, q) =< BodyLength(text, kept, p)
<1> DEFINE e == ChapterEnd(kept, kept[p], text)
           i == LineEnd(text, p)
           j == LineEnd(text, q)
<1>1. p \in 1..Len(text) /\ q \in p..Len(text) /\ Len(text) \in Nat
  BY DEF KeptIn, HeadingsIn
<1>2. e \in 0..Len(text)
  <2>1. e \in p..Len(text)
    BY SharedEnd
  <2> HIDE DEF e
  <2> QED BY <1>1, <2>1
<1>3. i \in p..Len(text) /\ i =< j
  BY <1>1, LineEndIsLater
<1>4. j \in q..Len(text)
  <2>1. q \in 1..Len(text) /\ q \in q..Len(text)
    BY <1>1
  <2> QED BY <2>1, LineEndIsLater
<1>5. BodyLength(text, kept, p) = Len(Trim(SubSeq(text, i + 1, e)))
  BY BodyIsSuffix
<1>6. BodyLength(text, kept, q) = Len(Trim(SubSeq(text, j + 1, e)))
  BY BodyIsSuffix
<1> HIDE DEF i, j, e
<1>7. i + 1 \in 1..Len(text) + 1 /\ j + 1 \in i + 1..Len(text) + 1
  BY <1>1, <1>3, <1>4
<1>8. /\ Len(Trim(SubSeq(text, i + 1, e))) \in 0..Len(text)
      /\ Len(Trim(SubSeq(text, j + 1, e))) =< Len(Trim(SubSeq(text, i + 1, e)))
  BY <1>2, <1>7, TrimmedSuffix
<1> QED BY <1>1, <1>5, <1>6, <1>8

LEMMA FirstOfChapter ==
  ASSUME NEW S, NEW text \in Seq(S), NEW kept, KeptIn(kept, text),
         NEW p \in DOMAIN kept
  PROVE  LET first == Min(ChapterFrom(kept, kept[p]))
         IN  first \in DOMAIN kept /\ kept[first] = kept[p]
             /\ \A q \in DOMAIN kept : kept[q] = kept[p] => first =< q
<1> DEFINE F == ChapterFrom(kept, kept[p])
           first == Min(F)
<1>1. /\ DOMAIN kept \in SUBSET Nat /\ \A q \in DOMAIN kept : kept[q] \in Nat
      /\ \A q, r \in DOMAIN kept : q < r => kept[q] =< kept[r]
  BY DEF KeptIn, HeadingsIn
<1>2. F \in SUBSET Nat /\ p \in F
  BY <1>1 DEF ChapterFrom
<1>3. first \in F /\ \A q \in F : first =< q
  <2> HIDE DEF F
  <2> QED BY <1>2, MinIsLeast
<1>4. first \in DOMAIN kept /\ kept[first] >= kept[p] /\ first =< p
  BY <1>2, <1>3 DEF ChapterFrom
<1>5. \A q \in DOMAIN kept : kept[q] = kept[p] => first =< q
  <2>1. \A q \in DOMAIN kept : kept[q] = kept[p] => q \in F
    BY <1>1 DEF ChapterFrom
  <2> QED BY <1>3, <2>1
<1> HIDE DEF first
<1>6. kept[first] = kept[p]
  <2>1. first = p \/ first < p
    BY <1>1, <1>4
  <2>2. kept[first] =< kept[p]
    BY <1>1, <1>4, <2>1
  <2> QED BY <1>1, <1>4, <2>2
<1> QED BY <1>4, <1>5, <1>6 DEF first

LEMMA SliceIsChapter ==
  ASSUME NEW S, NEW text \in Seq(S), NEW kept, KeptIn(kept, text), NEW n
  PROVE  \/ SliceAmong(text, kept, n) = NoText
         \/ /\ SliceAmong(text, kept, n)
                  = SubSeq(text, Min(ChapterFrom(kept, n)), ChapterEnd(kept, n, text))
            /\ SliceAmong(text, kept, n) \in Seq(S)
<1> DEFINE Extent(p) == BodyLength(text, kept, p)
           full == {p \in DOMAIN kept : kept[p] = n /\ Extent(p) > 0}
           most == {p \in full : \A q \in full : Extent(q) <= Extent(p)}
           first == Min(ChapterFrom(kept, n))
<1>1. SliceAmong(text, kept, n) = IF full = {} THEN NoText ELSE Slice(text, kept, Min(most))
  BY DEF SliceAmong
<1>2. SUFFICES ASSUME full # {}
               PROVE  /\ Slice(text, kept, Min(most)) = SubSeq(text, first, ChapterEnd(kept, n, text))
                      /\ Slice(text, kept, Min(most)) \in Seq(S)
  BY <1>1
<1>3. PICK p \in full : TRUE
  BY <1>2
<1>4. p \in DOMAIN kept /\ kept[p] = n /\ Extent(p) > 0
  OBVIOUS
<1>5. first \in DOMAIN kept /\ kept[first] = n /\ \A q \in DOMAIN kept : kept[q] = n => first =< q
  BY <1>4, FirstOfChapter
<1> HIDE DEF first
<1>6. \A q \in DOMAIN kept : kept[q] = n => Extent(q) =< Extent(first) /\ Extent(q) \in Nat
  <2> TAKE q \in DOMAIN kept
  <2> SUFFICES ASSUME kept[q] = n PROVE Extent(q) =< Extent(first) /\ Extent(q) \in Nat
    OBVIOUS
  <2>1. Extent(q) =< Extent(first)
    BY <1>5, FirstHasMost
  <2>2. q =< q
    BY DEF KeptIn, HeadingsIn
  <2>3. Extent(q) \in Nat
    BY <2>2, FirstHasMost
  <2> QED BY <2>1, <2>3
<1> HIDE DEF Extent
<1>7. first \in full
  BY <1>4, <1>5, <1>6
<1>8. first \in most
  BY <1>6, <1>7
<1>9. most \in SUBSET DOMAIN kept /\ \A q \in most : first =< q
  BY <1>5
<1> HIDE DEF full, most
<1>10. DOMAIN kept \in SUBSET (1..Len(text))
  BY DEF KeptIn, HeadingsIn
<1>11. most \in SUBSET Nat /\ most # {}
  BY <1>8, <1>9, <1>10
<1>12. Min(most) = first
  <2>1. Min(most) \in most /\ \A q \in most : Min(most) =< q
    BY <1>11, MinIsLeast
  <2>2. Min(most) \in Nat /\ first \in Nat /\ first =< Min(most) /\ Min(most) =< first
    BY <1>8, <1>9, <1>11, <2>1
  <2> QED BY <2>2
<1>13. /\ Slice(text, kept, first) = SubSeq(text, first, ChapterEnd(kept, n, text))
       /\ ChapterEnd(kept, n, text) \in first..Len(text)
  BY <1>5, SharedEnd
<1>14. SubSeq(text, first, ChapterEnd(kept, n, text)) \in Seq(S)
  <2>1. first \in 1..Len(text) + 1 /\ ChapterEnd(kept, n, text) \in 0..Len(text)
    BY <1>5, <1>10, <1>13
  <2> QED BY <2>1, SubSeqProperties
<1> QED BY <1>12, <1>13, <1>14

-----------------------------------------------------------------------------
(* The table of contents.                                                  *)

LEMMA TocAscends ==
  ASSUME NEW n \in Nat, NEW raw, HeadingsIn(raw, n)
  PROVE  \A p, q \in DOMAIN Partition(raw).toc :
           p < q => Partition(raw).toc[p] < Partition(raw).toc[q]
<1> DEFINE m == Min(Restarts(raw))
           toc == IF Restarts(raw) = {} THEN {} ELSE Before(raw, m)
           Bad == {q \in toc : \E p \in toc : p < q /\ ~(raw[p] < raw[q])}
<1>1. DOMAIN raw \in SUBSET Nat /\ (\A p \in DOMAIN raw : raw[p] \in Nat /\ p =< n)
  BY DEF HeadingsIn
<1>2. toc \in SUBSET DOMAIN raw
  BY DEF Before
<1>3. Partition(raw).toc = Restrict(raw, toc)
  BY DEF Partition
<1>4. SUFFICES ASSUME Bad # {} PROVE FALSE
  <2> HIDE DEF toc
  <2>1. DOMAIN Restrict(raw, toc) = toc /\ \A p \in toc : Restrict(raw, toc)[p] = raw[p]
    BY <1>2 DEF Restrict
  <2>2. Bad = {} => \A p, q \in toc : p < q => raw[p] < raw[q]
    OBVIOUS
  <2> QED BY <1>3, <2>1, <2>2
<1>5. PICK q \in Bad : \A x \in Bad : q =< x
  BY <1>1, <1>2, <1>4, LeastNumber, Bad \in SUBSET Nat
<1>6. PICK p \in toc : p < q /\ ~(raw[p] < raw[q])
  OBVIOUS
<1>7. Restarts(raw) # {} /\ q \in Before(raw, m) /\ p \in Before(raw, m)
  OBVIOUS
<1>8. m \in Restarts(raw)
  <2>1. Restarts(raw) \in SUBSET Nat
    BY <1>1 DEF Restarts
  <2> QED BY <1>7, <2>1, MinIsLeast
<1> HIDE DEF m
<1>9. p \in DOMAIN raw /\ p \in Nat /\ q \in DOMAIN raw /\ q \in Nat /\ m \in Nat /\ q < m
      /\ raw[p] \in Nat /\ raw[q] \in Nat
  BY <1>1, <1>7, <1>8 DEF Before, Restarts
<1>10. p \in Before(raw, q)
  BY <1>6, <1>9 DEF Before
<1> DEFINE r == Max(Before(raw, q))
<1>11. r \in Before(raw, q) /\ p =< r
  <2>1. Before(raw, q) \in SUBSET Nat /\ \A x \in Before(raw, q) : x =< n
    BY <1>1 DEF Before
  <2> QED BY <1>10, <2>1, MaxIsGreatest
<1>12. raw[r] < raw[q]
  <2>1. \A x \in Before(raw, m) : Before(raw, x) # {} => raw[Max(Before(raw, x))] < raw[x]
    BY <1>8 DEF Restarts
  <2> QED BY <1>7, <1>10, <2>1
<1> HIDE DEF r
<1>13. r \in DOMAIN raw /\ r \in Nat /\ r < q /\ raw[r] \in Nat
  BY <1>1, <1>11 DEF Before
<1>14. r \in toc
  BY <1>7, <1>9, <1>13 DEF Before
<1>15. r \notin Bad
  BY <1>5, <1>9, <1>13
<1>16. p = r \/ raw[p] < raw[r]
  BY <1>9, <1>11, <1>13, <1>14, <1>15
<1> QED BY <1>6, <1>9, <1>12, <1>13, <1>16

LEMMA ListedAscend ==
  ASSUME NEW n \in Nat, NEW toc, HeadingsIn(toc, n), NEW kept, HeadingsIn(kept, n),
         \A p \in DOMAIN toc, q \in DOMAIN kept : p < q,
         \A p, q \in DOMAIN toc : p < q => toc[p] < toc[q],
         \A p, q \in DOMAIN kept : p < q => kept[p] =< kept[q],
         NEW p \in Firsts(Listed(toc, kept)), NEW q \in Firsts(Listed(toc, kept)), p < q
  PROVE  Listed(toc, kept)[p] < Listed(toc, kept)[q]
<1> DEFINE K == {x \in DOMAIN kept : \A y \in DOMAIN toc : toc[y] < kept[x]}
           listed == Listed(toc, kept)
<1>1. /\ DOMAIN toc \in SUBSET Nat /\ DOMAIN kept \in SUBSET Nat
      /\ \A x \in DOMAIN toc : toc[x] \in Nat
      /\ \A x \in DOMAIN kept : kept[x] \in Nat
  BY DEF HeadingsIn
<1>2. listed = [x \in (DOMAIN toc) \cup K |-> IF x \in DOMAIN toc THEN toc[x] ELSE kept[x]]
  BY DEF Listed
<1>3. K \in SUBSET DOMAIN kept
  OBVIOUS
<1> HIDE DEF K, listed
<1>4. DOMAIN listed = (DOMAIN toc) \cup K
  BY <1>2
<1>5. ASSUME NEW x \in K PROVE x \notin DOMAIN toc
  BY <1>1, <1>3
<1>6. \A x \in DOMAIN toc : listed[x] = toc[x]
  BY <1>2
<1>7. \A x \in K : listed[x] = kept[x]
  BY <1>2, <1>5
<1>8. p \in DOMAIN listed /\ q \in DOMAIN listed
  BY DEF Firsts, listed
<1>9. CASE p \in DOMAIN toc /\ q \in DOMAIN toc
  BY <1>6, <1>9 DEF listed
<1>10. CASE p \in DOMAIN toc /\ q \in K
  BY <1>6, <1>7, <1>10 DEF listed, K
<1>11. CASE p \in K /\ q \in DOMAIN toc
  <2>1. q < p /\ p \in Nat /\ q \in Nat
    BY <1>1, <1>3, <1>11
  <2> QED BY <2>1
<1>12. CASE p \in K /\ q \in K
  <2>1. p \in Before(listed, q)
    BY <1>8 DEF Before
  <2>2. listed[p] # listed[q]
    BY <2>1 DEF Firsts, listed
  <2>3. kept[p] =< kept[q] /\ kept[p] \in Nat /\ kept[q] \in Nat
    BY <1>1, <1>3, <1>12
  <2>4. kept[p] < kept[q]
    BY <1>7, <1>12, <2>2, <2>3
  <2> QED BY <1>7, <1>12, <2>4 DEF listed
<1> QED BY <1>4, <1>8, <1>9, <1>10, <1>11, <1>12

-----------------------------------------------------------------------------
(* The chapters of a text.                                                 *)

LEMMA ChaptersAreKept ==
  ASSUME NEW S, NEW text \in Seq(S)
  PROVE  /\ KeptIn(Chapters(text), text)
         /\ KeptRight(Chapters(text), Partition(Candidates(text)).body)
         /\ HeadingsIn(Partition(Candidates(text)).body, Len(text))
<1> DEFINE body == Partition(Candidates(text)).body
<1>1. Len(text) \in Nat
  OBVIOUS
<1>2. HeadingsIn(Candidates(text), Len(text))
  BY CandidatesAreHeadings
<1>3. HeadingsIn(body, Len(text))
  BY <1>1, <1>2, PartitionOfHeadings
<1>4. Chapters(text) = FilterMonotonic(body)
  BY DEF Chapters
<1> HIDE DEF body
<1>5. KeptRight(Chapters(text), body)
  BY <1>1, <1>3, <1>4, FilteredAreRight
<1>6. KeptIn(Chapters(text), text)
  BY <1>3, <1>5 DEF KeptRight, KeptIn, HeadingsIn
<1> QED BY <1>3, <1>5, <1>6 DEF body

LEMMA SourceIsText ==
  ASSUME NEW S, NEW text \in Seq(S), NEW chapter
  PROVE  Source(text, chapter) = NoText \/ Source(text, chapter) \in Seq(S)
BY ChaptersAreKept, SliceIsChapter DEF Source, ExtractChapterSlice

(* Whatever the text, its chapters divide it.                              *)
LEMMA ChaptersTileAlways ==
  ASSUME NEW S, content \in Seq(S)
  PROVE  ChaptersTile
<1> DEFINE raw == Candidates(content)
           found == Partition(raw).body
           toc0 == Partition(raw).toc
           kept == Chapters(content)
           toc == ExtractToc(content)
           Ascends(D) == \A p, q \in D : p < q => found[p] <= found[q]
           From(n) == {p \in DOMAIN kept : kept[p] >= n}
<1>1. KeptIn(kept, content) /\ KeptRight(kept, found) /\ Len(content) \in Nat
  BY ChaptersAreKept
<1>2. Ascends(DOMAIN kept)
  BY <1>1 DEF KeptRight
<1>3. \A D \in SUBSET DOMAIN found : Ascends(D) => Cardinality(D) <= Cardinality(DOMAIN kept)
  BY <1>1 DEF KeptRight, AscendsIn
<1>4. ASSUME NEW n
      PROVE  \/ ExtractChapterSlice(content, n) = NoText
             \/ ExtractChapterSlice(content, n)
                  = SubSeq(content, Min(From(n)), Min(From(n + 1) \cup {Len(content) + 1}) - 1)
  <2>1. From(n) = ChapterFrom(kept, n) /\ From(n + 1) = ChapterFrom(kept, n + 1)
    BY DEF ChapterFrom
  <2>2. ExtractChapterSlice(content, n) = SliceAmong(content, kept, n)
    BY DEF ExtractChapterSlice
  <2> HIDE DEF kept, From
  <2>3. \/ SliceAmong(content, kept, n) = NoText
        \/ SliceAmong(content, kept, n)
             = SubSeq(content, Min(ChapterFrom(kept, n)), ChapterEnd(kept, n, content))
    BY <1>1, SliceIsChapter
  <2> QED BY <2>1, <2>2, <2>3 DEF ChapterEnd
<1>5. \A p, q \in DOMAIN toc : p < q => toc[p] < toc[q]
  <2> DEFINE listed == Listed(toc0, kept)
  <2>1. HeadingsIn(raw, Len(content))
    BY CandidatesAreHeadings
  <2>2. /\ HeadingsIn(toc0, Len(content)) /\ HeadingsIn(found, Len(content))
        /\ \A p \in DOMAIN toc0, q \in DOMAIN found : p < q
    BY <1>1, <2>1, PartitionOfHeadings
  <2>3. \A p, q \in DOMAIN toc0 : p < q => toc0[p] < toc0[q]
    BY <1>1, <2>1, TocAscends
  <2>4. toc = Restrict(listed, Firsts(listed))
    BY DEF ExtractToc, Chapters
  <2> HIDE DEF kept, found, toc0, raw, toc
  <2>5. /\ HeadingsIn(kept, Len(content))
        /\ \A p, q \in DOMAIN kept : p < q => kept[p] =< kept[q]
        /\ \A p \in DOMAIN toc0, q \in DOMAIN kept : p < q
    BY <1>1, <2>2 DEF KeptIn, KeptRight
  <2>6. \A p, q \in Firsts(listed) : p < q => listed[p] < listed[q]
    BY <1>1, <2>2, <2>3, <2>5, ListedAscend
  <2>7. DOMAIN toc = Firsts(listed) /\ \A p \in Firsts(listed) : toc[p] = listed[p]
    BY <2>4 DEF Restrict
  <2> HIDE DEF listed
  <2> QED BY <2>6, <2>7
<1> QED BY <1>2, <1>3, <1>4, <1>5 DEF ChaptersTile

-----------------------------------------------------------------------------
(* A reader.                                                               *)

IsText(text) == text \in Seq(Range(text))

RequestsMade ==
  [chapter : Nat, max : Nat \ {0}, size : Nat, crumb : {r.crumb : r \in Requests}, offset : Nat]

(* It has read k characters of the text, and if there are more, the next   *)
(* request continues there.                                                *)
ReadUpTo(text, k) ==
  /\ read = SubSeq(text, 1, k)
  /\ answer.next = 0 => k = Len(text)
  /\ answer.next # 0 =>
       /\ k < Len(text) /\ request.offset = BytesBefore(text, k)
       /\ Len(answer.page) = request.max

ReadsOn(text) == /\ text # NoText /\ text \in Seq(Range(content))
                 /\ \E k \in 0..Len(text) : ReadUpTo(text, k)

PageInv ==
  /\ content \in Contents \cup {Beside}
  /\ answer = Silent => read = << >>
  /\ ~replaced /\ answer.said = "page" =>
       request \in RequestsMade /\ ReadsOn(Source(content, request.chapter))
  /\ ~replaced /\ read # << >> => answer.said # "error"

LEMMA ContentIsText ==
  ASSUME PageInv
  PROVE  IsText(content)
BY OpenTextAssumption DEF PageInv, IsText

LEMMA RequestsAreMade ==
  ASSUME NEW r \in Requests
  PROVE  r \in RequestsMade /\ r.offset = 0
<1>1. r \in [chapter : Nat, max : Nat \ {0}, size : Nat,
             crumb : {q.crumb : q \in Requests}, offset : {0}]
  BY OpenTextAssumption
<1> QED BY <1>1 DEF RequestsMade

(* An answer from where the reader stands takes it on.                     *)
LEMMA GiveReadsOn ==
  ASSUME NEW r \in RequestsMade, Give(r), Source(content, r.chapter) # NoText,
         Source(content, r.chapter) \in Seq(Range(content)),
         NEW k \in 0..Len(Source(content, r.chapter)),
         read = SubSeq(Source(content, r.chapter), 1, k),
         r.offset = BytesBefore(Source(content, r.chapter), k)
  PROVE  /\ request' \in RequestsMade /\ answer'.said = "page"
         /\ ReadsOn(Source(content, request.chapter))'
<1> DEFINE text == Source(content, r.chapter)
           last == Min({k + r.max, Len(text)})
           p == PaginateFulltext(text, r.max, r.offset)
           next == IF last < Len(text) THEN BytesBefore(text, last) ELSE 0
<1>0. text # NoText /\ text \in Seq(Range(content)) /\ k \in 0..Len(text) /\ read = SubSeq(text, 1, k)
      /\ r.offset = BytesBefore(text, k) /\ r.max \in Nat \ {0}
  BY DEF RequestsMade
<1>a. answer' = Answered(text, r)
  BY DEF Give
<1>b. content' = content
  BY DEF Give
<1> HIDE DEF text
<1>1. r.max \in Nat \ {0} /\ k \in Nat /\ Len(text) \in Nat /\ k =< Len(text)
      /\ k + r.max \in Nat
  BY <1>0
<1>2. last = IF k + r.max =< Len(text) THEN k + r.max ELSE Len(text)
  BY <1>1, MinOfTwo
<1>3. p = [said |-> "page", page |-> SubSeq(text, k + 1, last), next |-> next]
  <2>1. /\ last = Min({k + r.max, Len(text)})
        /\ next = IF last < Len(text) THEN BytesBefore(text, last) ELSE 0
    OBVIOUS
  <2> HIDE DEF last, next
  <2>2. PaginateFulltext(text, r.max, BytesBefore(text, k))
          = [said |-> "page", page |-> SubSeq(text, k + 1, last),
             next |-> IF last < Len(text) THEN BytesBefore(text, last) ELSE 0]
    <3>1. /\ text \in Seq(Range(content)) /\ k \in 0..Len(text) /\ r.max \in Nat \ {0}
          /\ last = Min({k + r.max, Len(text)})
      BY <1>0, <2>1
    <3> QED BY <3>1, PageAt, Zenon
  <2> QED BY <1>0, <2>1, <2>2, Zenon DEF p
<1>4. answer' = [said |-> "page", page |-> p.page, next |-> p.next, chunks |-> Chunks(p.page, r)]
  <2> HIDE DEF p
  <2>1. p.said # "error"
    BY <1>3
  <2> QED BY <1>0, <1>a, <2>1 DEF Answered, p
<1> HIDE DEF p, last
<1>5. /\ answer'.said = "page" /\ answer'.page = SubSeq(text, k + 1, last)
      /\ answer'.next = next
  BY <1>3, <1>4
<1> HIDE DEF next
<1>6. request' = [r EXCEPT !.offset = answer'.next] /\ read' = read \o answer'.page /\ content' = content
  BY <1>5 DEF Give
<1>7. last \in k..Len(text) /\ last \in Nat
  BY <1>1, <1>2
<1>8. next \in Nat /\ (last < Len(text) => next # 0 /\ next = BytesBefore(text, last))
      /\ (~(last < Len(text)) => next = 0)
  <2>1. CASE last < Len(text)
    <3>1. last \in 0..Len(text) /\ 0 \in 0..Len(text) /\ 0 < last
      BY <1>1, <1>2, <1>7, <2>1
    <3>2. BytesBefore(text, last) \in Nat /\ BytesBefore(text, 0) = 0
      BY <1>0, <3>1, PrefixBytesNat, NoBytes
    <3>3. BytesBefore(text, 0) < BytesBefore(text, last)
      BY <1>0, <3>1, PrefixBytes DEF BytesBefore
    <3> QED BY <2>1, <3>2, <3>3 DEF next
  <2>2. CASE ~(last < Len(text))
    BY <2>2 DEF next
  <2> QED BY <2>1, <2>2
<1>9. /\ request' \in RequestsMade /\ request'.chapter = r.chapter /\ request'.max = r.max
      /\ request'.offset = next
  BY <1>5, <1>6, <1>8 DEF RequestsMade
<1>10. read' = SubSeq(text, 1, last)
  <2>1. 1 \in 1..Len(text) + 1 /\ k \in 1 - 1..Len(text) /\ last \in k..Len(text)
    BY <1>1, <1>7
  <2>2. SubSeq(text, 1, k) \o SubSeq(text, k + 1, last) = SubSeq(text, 1, last)
    BY <1>0, <2>1, ConcatAdjacentSubSeq
  <2> QED BY <1>0, <1>5, <1>6, <2>2
<1>11. next # 0 => Len(answer'.page) = r.max
  <2>1. SUFFICES ASSUME last < Len(text) PROVE Len(answer'.page) = r.max
    BY <1>8
  <2>2. last = k + r.max
    BY <1>1, <1>2, <2>1
  <2>3. Len(SubSeq(text, k + 1, last)) = last - k
    BY <1>0, <1>1, <1>7
  <2> QED BY <1>1, <1>5, <2>2, <2>3
<1>12. Source(content, request.chapter)' = text
  BY <1>9, <1>b DEF text
<1>13. /\ last \in Nat /\ last \in 0..Len(text) /\ read' = SubSeq(text, 1, last)
       /\ answer'.next = 0 => last = Len(text)
       /\ answer'.next # 0 =>
            /\ last < Len(text) /\ request'.offset = BytesBefore(text, last)
            /\ Len(answer'.page) = request'.max
  BY <1>1, <1>5, <1>7, <1>8, <1>9, <1>10, <1>11
<1> DEFINE after == Source(content, request.chapter)'
<1>14. /\ after # NoText /\ after \in Seq(Range(content'))
       /\ last \in 0..Len(after) /\ read' = SubSeq(after, 1, last)
       /\ answer'.next = 0 => last = Len(after)
       /\ answer'.next # 0 =>
            /\ last < Len(after) /\ request'.offset = BytesBefore(after, last)
            /\ Len(answer'.page) = request'.max
  <2>1. after = text
    BY <1>12
  <2> HIDE DEF after
  <2> QED BY <1>0, <1>b, <1>13, <2>1
<1>15. ReadsOn(Source(content, request.chapter))'
  BY <1>14, Zenon DEF ReadsOn, ReadUpTo
<1> QED BY <1>5, <1>9, <1>15

LEMMA PageInit ==
  Init => PageInv
BY DEF Init, PageInv, Silent

LEMMA PageStep ==
  ASSUME PageInv, [Next]_vars
  PROVE  PageInv'
<1> DEFINE text == Source(content, request.chapter)
<1>1. CASE AskToc
  <2>1. /\ read = << >> /\ UNCHANGED <<content, read, replaced>>
        /\ answer'.said \in {"error", "toc"}
    BY <1>1 DEF AskToc, PageInv
  <2>2. answer' # Silent
    BY <2>1 DEF Silent
  <2> QED BY <2>1, <2>2 DEF PageInv
<1>2. CASE OpenFirst
  <2>1. PICK r \in Requests : Give(r)
    BY <1>2 DEF OpenFirst
  <2>2. r \in RequestsMade /\ r.offset = 0 /\ read = << >> /\ IsText(content)
    BY <1>2, RequestsAreMade, ContentIsText DEF OpenFirst, PageInv
  <2> DEFINE source == Source(content, r.chapter)
  <2>3. content' = content /\ replaced' = replaced
    BY <2>1 DEF Give
  <2>4. CASE source = NoText
    <3>1. answer' = [said |-> "error"]
      BY <2>1, <2>4 DEF Give, Answered
    <3>2. read' = read /\ answer' # Silent
      BY <2>1, <3>1 DEF Give, Silent
    <3> QED BY <2>2, <2>3, <3>1, <3>2 DEF PageInv
  <2>5. CASE source # NoText
    <3>1. source \in Seq(Range(content))
      BY <2>2, <2>5, SourceIsText DEF IsText
    <3> HIDE DEF source
    <3>2. 0 \in 0..Len(source) /\ SubSeq(source, 1, 0) = << >> /\ BytesBefore(source, 0) = 0
      BY <3>1, NoBytes
    <3>3. /\ request' \in RequestsMade /\ answer'.said = "page"
          /\ ReadsOn(Source(content, request.chapter))'
      BY <2>1, <2>2, <2>5, <3>1, <3>2, GiveReadsOn DEF source
    <3>4. answer' # Silent
      BY <3>3 DEF Silent
    <3> QED BY <2>3, <3>3, <3>4 DEF PageInv
  <2> QED BY <2>4, <2>5
<1>3. CASE OpenNext
  <2>1. answer.said = "page" /\ answer.next # 0 /\ Give(request)
    BY <1>3 DEF OpenNext
  <2>2. content' = content /\ replaced' = replaced
    BY <2>1 DEF Give
  <2>3. answer' # Silent
    <3>1. answer' = Answered(text, request)
      BY <2>1 DEF Give
    <3>2. PaginateFulltext(text, request.max, request.offset).said = "error"
            => PaginateFulltext(text, request.max, request.offset) = [said |-> "error"]
      BY DEF PaginateFulltext
    <3>3. answer'.said \in {"error", "page"}
      BY <3>1, <3>2 DEF Answered
    <3> QED BY <3>3 DEF Silent
  <2>4. CASE replaced
    BY <2>2, <2>3, <2>4 DEF PageInv
  <2>5. CASE ~replaced
    <3>1. request \in RequestsMade /\ text # NoText /\ text \in Seq(Range(content))
      BY <2>1, <2>5 DEF PageInv, ReadsOn
    <3>2. PICK k \in 0..Len(text) : ReadUpTo(text, k)
      BY <2>1, <2>5 DEF PageInv, ReadsOn
    <3> HIDE DEF text
    <3>3. k \in 0..Len(text) /\ read = SubSeq(text, 1, k) /\ request.offset = BytesBefore(text, k)
      BY <2>1, <3>2 DEF ReadUpTo
    <3>4. /\ request' \in RequestsMade /\ answer'.said = "page"
          /\ ReadsOn(Source(content, request.chapter))'
      BY <2>1, <3>1, <3>3, GiveReadsOn DEF text
    <3> QED BY <2>2, <2>3, <3>4 DEF PageInv
  <2> QED BY <2>4, <2>5
<1>4. CASE Replace
  BY <1>4 DEF Replace, PageInv, Silent
<1>5. CASE UNCHANGED vars
  BY <1>5 DEF vars, PageInv, ReadsOn, ReadUpTo
<1> QED BY <1>1, <1>2, <1>3, <1>4, <1>5 DEF Next

(* Every reachable state satisfies the invariant of a reader.              *)
THEOREM ReaderInvariant == Spec => []PageInv
BY PageInit, PageStep, PTL DEF Spec

LEMMA PagesFromInvariant ==
  PageInv => PagesCover
<1> SUFFICES ASSUME PageInv, ~replaced PROVE PagesCover
  BY DEF PagesCover
<1> DEFINE text == Source(content, request.chapter)
<1>1. ASSUME answer.said = "page"
      PROVE  /\ IsPrefix(read, text)
             /\ answer.next = 0 => read = text
             /\ answer.next # 0 => Len(answer.page) = request.max
  <2>1. text \in Seq(Range(content)) /\ \E k \in 0..Len(text) : ReadUpTo(text, k)
    BY <1>1 DEF PageInv, ReadsOn
  <2> HIDE DEF text
  <2>2. PICK k \in 0..Len(text) : ReadUpTo(text, k)
    BY <2>1
  <2>3. read = SubSeq(text, 1, k) /\ k \in 0..Len(text) /\ Len(text) \in Nat
    BY <2>1, <2>2 DEF ReadUpTo
  <2>4. Len(read) = k /\ SubSeq(read, 1, k) = SubSeq(text, 1, k)
    <3>1. Len(SubSeq(text, 1, k)) = k /\ SubSeq(text, 1, k) \in Seq(Range(content))
      BY <2>1, <2>3
    <3>2. SubSeq(read, 1, Len(read)) = read
      BY <2>3, <3>1, SubSeqFull
    <3> QED BY <2>3, <3>1, <3>2
  <2>5. IsPrefix(read, text)
    <3>1. Len(read) =< Len(text) /\ SubSeq(read, 1, Len(read)) = SubSeq(text, 1, Len(read))
      BY <2>3, <2>4
    <3> QED BY <3>1, Zenon DEF IsPrefix
  <2>6. answer.next = 0 => read = text
    <3>1. SubSeq(text, 1, Len(text)) = text
      BY <2>1, SubSeqFull
    <3> QED BY <2>2, <2>3, <3>1 DEF ReadUpTo
  <2> QED BY <2>2, <2>5, <2>6 DEF ReadUpTo
<1> HIDE DEF text
<1>2. read # << >> => answer.said # "error"
  BY DEF PageInv
<1> QED BY <1>1, <1>2 DEF PagesCover, text

(* Whatever the text and its characters, pages asked for one after another *)
(* give it once and whole, without an error (paginate_fulltext).           *)
THEOREM PagesAlwaysCover == Spec => []PagesCover
<1>1. Spec => []PageInv
  BY ReaderInvariant
<1>2. PageInv => PagesCover
  BY PagesFromInvariant
<1> QED BY <1>1, <1>2, PTL

(* Whatever the text and the headings in it, a chapter that has text goes  *)
(* from its first heading to the next chapter, no longer sequence of       *)
(* headings would do, and the table of contents ascends                    *)
(* (filter_monotonic_candidates, extract_toc_from_text,                    *)
(* extract_chapter_slice).                                                 *)
THEOREM ChaptersAlwaysTile == Spec => []ChaptersTile
<1>1. Spec => []PageInv
  BY ReaderInvariant
<1>2. PageInv => ChaptersTile
  BY ContentIsText, ChaptersTileAlways DEF IsText
<1> QED BY <1>1, <1>2, PTL

-----------------------------------------------------------------------------
(* Lines and sections                                                      *)

(* The sections f are of lines before top, each from its heading to the    *)
(* next, and have ids of their own.                                        *)
Sound(f, top) ==
  /\ DOMAIN f \subseteq Nat \ {0}
  /\ \A k \in DOMAIN f :
       /\ k < top /\ f[k].kind \in HeadingKinds
       /\ f[k].lines \subseteq Nat
       /\ \A n \in f[k].lines : k =< n /\ n < top
       /\ \E m \in 1..k : f[k].id = <<f[k].kind, m>>
  /\ \A k, l \in DOMAIN f : k < l =>
       f[k].id # f[l].id /\ \A n \in f[k].lines : n < l

(* While lines are read.                                                   *)
SectionsType ==
  /\ abstract \in BOOLEAN /\ lines \in Seq(LineForms)
  /\ current \in [at : Nat, kind : HeadingKinds \cup {"body"}, lines : SUBSET Nat]
  /\ preamble \subseteq Nat

InProgress ==
  /\ IF Begun
     THEN /\ current.at =< Len(lines) /\ current.kind \in HeadingKinds
          /\ \A n \in current.lines : current.at =< n /\ n =< Len(lines)
          /\ \A n \in preamble : n < current.at
          /\ Sound(cut, current.at)
     ELSE current.kind = "body" /\ current.lines = {} /\ DOMAIN cut = {}
  /\ \A n \in preamble : n # 0 /\ n =< Len(lines) /\ \A k \in DOMAIN cut : n < k

Accounted ==
  \A n \in DOMAIN lines :
    \/ n \in preamble \cup current.lines
    \/ \E k \in DOMAIN cut : n \in cut[k].lines
    \/ lines[n].form \in {"blank", "end"}
    \/ ~lines[n].more /\ n \in DOMAIN cut \cup {current.at}

SectionsInv == SectionsType /\ (~ended => InProgress /\ Accounted) /\ LinesSectioned

LEMMA FreshId ==
  ASSUME current.at \in Nat \ {0}, Sound(cut, current.at), NEW kind
  PROVE  \E m \in 1..current.at :
           /\ UniqueSectionId(kind) = <<kind, m>>
           /\ \A k \in DOMAIN cut : cut[k].id # <<kind, m>>
<1>. DEFINE fresh == {n \in 1..current.at : \A k \in DOMAIN cut : cut[k].id # <<kind, n>>}
<1>1. current.at \in fresh
  <2>. SUFFICES ASSUME NEW k \in DOMAIN cut PROVE cut[k].id # <<kind, current.at>>
    OBVIOUS
  <2>1. k \in Nat /\ k < current.at
    BY DEF Sound
  <2>2. PICK m \in 1..k : cut[k].id = <<cut[k].kind, m>>
    BY DEF Sound
  <2>3. m # current.at
    BY <2>1
  <2>. QED BY <2>2, <2>3
<1>2. \E x \in fresh : \A y \in fresh : x =< y
  BY <1>1, LeastNumber, fresh \in SUBSET Nat
<1>3. DEFINE m == CHOOSE n \in fresh : \A y \in fresh : n =< y
<1>4. m \in fresh
  <2>. HIDE DEF fresh
  <2>. QED BY <1>2
<1>5. UniqueSectionId(kind) = <<kind, m>>
  BY DEF UniqueSectionId
<1>6. m \in 1..current.at /\ \A k \in DOMAIN cut : cut[k].id # <<kind, m>>
  BY <1>4
<1>. HIDE DEF m, fresh
<1>. QED BY <1>5, <1>6

(* A section that is put to the others.                                    *)
LEMMA FlushSound ==
  ASSUME SectionsType, InProgress, NEW top \in Nat, Len(lines) < top
  PROVE  Sound(Flush, top)
<1>0. Len(lines) \in Nat
  BY DEF SectionsType
<1>1. CASE ~Begun
  <2>1. Flush = cut /\ DOMAIN cut = {}
    BY <1>1 DEF Flush, InProgress
  <2>. QED BY <2>1 DEF Sound
<1>2. CASE Begun
  <2>. DEFINE at == current.at  S == Sound(cut, at)
  <2>1. at \in Nat \ {0} /\ at < top /\ Sound(cut, at)
    BY <1>0, <1>2 DEF SectionsType, InProgress, Begun
  <2>2. PICK m \in 1..at : /\ UniqueSectionId(current.kind) = <<current.kind, m>>
                           /\ \A k \in DOMAIN cut : cut[k].id # <<current.kind, m>>
    BY <2>1, FreshId
  <2>3. DEFINE s == [id |-> <<current.kind, m>>, kind |-> current.kind, lines |-> current.lines]
  <2>4. Flush = [k \in DOMAIN cut \cup {at} |-> IF k = at THEN s ELSE cut[k]]
    BY <1>2, <2>2 DEF Flush
  <2>5. at \notin DOMAIN cut
    BY <2>1 DEF Sound
  <2>6. /\ DOMAIN Flush = DOMAIN cut \cup {at}
        /\ Flush[at] = s
        /\ \A k \in DOMAIN cut : Flush[k] = cut[k]
    BY <2>4, <2>5
  <2>7. current.kind \in HeadingKinds /\ current.lines \subseteq Nat
        /\ \A n \in current.lines : at =< n /\ n =< Len(lines)
    BY <1>2 DEF SectionsType, InProgress
  <2>8. DOMAIN Flush \subseteq Nat \ {0}
    BY <2>1, <2>6 DEF Sound
  <2>9. ASSUME NEW k \in DOMAIN Flush
        PROVE  /\ k < top /\ Flush[k].kind \in HeadingKinds
               /\ Flush[k].lines \subseteq Nat
               /\ \A n \in Flush[k].lines : k =< n /\ n < top
               /\ \E j \in 1..k : Flush[k].id = <<Flush[k].kind, j>>
    <3>1. CASE k = at
      <4>1. Flush[k].kind = current.kind /\ Flush[k].lines = current.lines /\ Flush[k].id = <<current.kind, m>>
        BY <2>6, <3>1
      <4>. QED BY <1>0, <2>1, <2>7, <3>1, <4>1
    <3>2. CASE k \in DOMAIN cut
      <4>1. /\ k < at /\ cut[k].kind \in HeadingKinds /\ cut[k].lines \subseteq Nat
            /\ \A n \in cut[k].lines : k =< n /\ n < at
            /\ \E j \in 1..k : cut[k].id = <<cut[k].kind, j>>
        BY <2>1, <3>2 DEF Sound
      <4>2. k \in Nat
        BY <2>8
      <4>. QED BY <2>1, <2>6, <3>2, <4>1, <4>2
    <3>. QED BY <2>6, <3>1, <3>2
  <2>10. ASSUME NEW k \in DOMAIN Flush, NEW l \in DOMAIN Flush, k < l
         PROVE  Flush[k].id # Flush[l].id /\ \A n \in Flush[k].lines : n < l
    <3>1. k \in DOMAIN cut
      BY <2>1, <2>6, <2>8, <2>10 DEF Sound
    <3>2. CASE l = at
      BY <2>1, <2>2, <2>6, <3>1, <3>2 DEF Sound
    <3>3. CASE l \in DOMAIN cut
      BY <2>1, <2>6, <2>10, <3>1, <3>3 DEF Sound
    <3>. QED BY <2>6, <3>2, <3>3
  <2>. QED BY <2>8, <2>9, <2>10 DEF Sound
<1>. QED BY <1>1, <1>2

(* And nothing of them is lost.                                            *)
LEMMA FlushKeeps ==
  ASSUME SectionsType, InProgress
  PROVE  /\ DOMAIN Flush = DOMAIN cut \cup (IF Begun THEN {current.at} ELSE {})
         /\ \A k \in DOMAIN cut : Flush[k].lines = cut[k].lines /\ Flush[k].kind = cut[k].kind
         /\ Begun => Flush[current.at].lines = current.lines
<1>1. CASE ~Begun
  BY <1>1 DEF Flush
<1>2. CASE Begun
  <2>1. current.at \notin DOMAIN cut
    BY <1>2 DEF InProgress, SectionsType, Sound
  <2>. QED BY <1>2, <2>1 DEF Flush
<1>. QED BY <1>1, <1>2

LEMMA LineFormsType ==
  \A line \in LineForms : /\ line.form \in {"blank", "end", "said", "plain", "latex"}
                          /\ line.kind \in HeadingKinds \cup {"body"} /\ line.more \in BOOLEAN
                          /\ line.form \in {"plain", "latex"} => line.kind \in HeadingKinds
                          /\ line.more => line.form = "latex"
BY DEF LineForms, PlainHeadings, LatexHeadings

LEMMA InitSectionsInv == InitSections => SectionsInv
<1>. SUFFICES ASSUME InitSections PROVE SectionsInv
  OBVIOUS
<1>1. DOMAIN cut = {} /\ lines = <<>> /\ DOMAIN lines = {} /\ Len(lines) = 0
  BY DEF InitSections
<1>. QED BY <1>1 DEF InitSections, SectionsInv, SectionsType, InProgress, Accounted, Begun, NotBegun, LinesSectioned

LEMMA ReadLineInv == SectionsInv /\ ReadLine => SectionsInv'
<1>. SUFFICES ASSUME SectionsInv, ReadLine PROVE SectionsInv'
  OBVIOUS
<1>1. PICK line \in LineForms :
        LET n == Len(lines) + 1
            told == ~Heads(line) /\ line.form \notin {"blank", "end"} IN
        /\ lines' = Append(lines, line)
        /\ cut' = IF Heads(line) THEN Flush ELSE cut
        /\ current' =
             IF Heads(line) THEN [at |-> n, kind |-> line.kind, lines |-> IF line.more THEN {n} ELSE {}]
             ELSE IF told /\ Begun THEN [current EXCEPT !.lines = @ \cup {n}]
             ELSE current
        /\ preamble' = IF told /\ ~Begun THEN preamble \cup {n} ELSE preamble
  BY DEF ReadLine
<1>. DEFINE n == Len(lines) + 1
<1>2. SectionsType /\ InProgress /\ Accounted /\ ~ended /\ ~ended'
  BY DEF SectionsInv, ReadLine
<1>3. /\ n \in Nat \ {0} /\ Len(lines) \in Nat /\ DOMAIN lines = 1..Len(lines)
      /\ lines' \in Seq(LineForms) /\ Len(lines') = n /\ DOMAIN lines' = 1..n
      /\ lines'[n] = line /\ \A k \in 1..Len(lines) : lines'[k] = lines[k]
  BY <1>1, <1>2 DEF SectionsType
<1>4. LinesSectioned'
  BY <1>2 DEF LinesSectioned
<1>5. abstract' \in BOOLEAN
  BY <1>2 DEF SectionsType, ReadLine
<1>6. /\ line.form \in {"blank", "end", "said", "plain", "latex"}
      /\ line.kind \in HeadingKinds \cup {"body"} /\ line.more \in BOOLEAN
      /\ line.form \in {"plain", "latex"} => line.kind \in HeadingKinds
      /\ line.more => line.form = "latex"
  BY LineFormsType
<1>7. CASE Heads(line)
  <2>1. /\ cut' = Flush /\ preamble' = preamble
        /\ current' = [at |-> n, kind |-> line.kind, lines |-> IF line.more THEN {n} ELSE {}]
    BY <1>1, <1>7
  <2>2. line.kind \in HeadingKinds
    BY <1>6, <1>7 DEF Heads
  <2>3. SectionsType'
    BY <1>2, <1>3, <1>5, <2>1, <2>2 DEF SectionsType
  <2>4. Sound(Flush, n)
    BY <1>2, <1>3, FlushSound
  <2>5. Begun' /\ current'.at = n
    BY <1>3, <2>1 DEF Begun
  <2>6. /\ DOMAIN Flush = DOMAIN cut \cup (IF Begun THEN {current.at} ELSE {})
        /\ \A k \in DOMAIN cut : Flush[k].lines = cut[k].lines /\ Flush[k].kind = cut[k].kind
        /\ Begun => Flush[current.at].lines = current.lines
    BY <1>2, FlushKeeps
  <2>7. \A p \in preamble : p \in Nat /\ p # 0 /\ p =< Len(lines) /\ \A k \in DOMAIN Flush : p < k
    BY <1>2, <2>6 DEF InProgress, SectionsType
  <2>8. InProgress'
    <3>1. current'.kind \in HeadingKinds /\ \A j \in current'.lines : j = n
      BY <2>1, <2>2
    <3>2. Sound(cut, current.at)'
      BY <2>1, <2>4, <2>5 DEF Sound
    <3>. QED BY <1>3, <2>1, <2>5, <2>7, <3>1, <3>2 DEF InProgress
  <2>9. Accounted'
    <3>. SUFFICES ASSUME NEW j \in 1..n
                  PROVE  \/ j \in preamble' \cup current'.lines
                         \/ \E k \in DOMAIN cut' : j \in cut'[k].lines
                         \/ lines'[j].form \in {"blank", "end"}
                         \/ ~lines'[j].more /\ j \in DOMAIN cut' \cup {current'.at}
      BY <1>3 DEF Accounted
    <3>1. CASE j = n
      BY <1>3, <1>6, <2>1, <2>5, <3>1
    <3>2. CASE j \in 1..Len(lines)
      <4>1. lines'[j] = lines[j]
        BY <1>3, <3>2
      <4>2. \/ j \in preamble \cup current.lines
            \/ \E k \in DOMAIN cut : j \in cut[k].lines
            \/ lines[j].form \in {"blank", "end"}
            \/ ~lines[j].more /\ j \in DOMAIN cut \cup {current.at}
        BY <1>2, <1>3, <3>2 DEF Accounted
      <4>3. CASE j \in current.lines
        <5>1. Begun
          BY <1>2, <4>3 DEF InProgress
        <5>. QED BY <2>1, <2>6, <4>3, <5>1
      <4>4. CASE j = current.at
        <5>1. Begun
          BY <3>2, <4>4 DEF Begun
        <5>. QED BY <2>1, <2>6, <4>1, <4>2, <4>3, <4>4, <5>1
      <4>. QED BY <2>1, <2>6, <4>1, <4>2, <4>3, <4>4
    <3>. QED BY <1>3, <3>1, <3>2
  <2>. QED BY <1>2, <1>4, <2>3, <2>8, <2>9 DEF SectionsInv
<1>8. CASE ~Heads(line)
  <2>. DEFINE told == line.form \notin {"blank", "end"}
  <2>1. /\ cut' = cut
        /\ current' = IF told /\ Begun THEN [current EXCEPT !.lines = @ \cup {n}] ELSE current
        /\ preamble' = IF told /\ ~Begun THEN preamble \cup {n} ELSE preamble
    BY <1>1, <1>8
  <2>2. /\ current'.at = current.at /\ current'.kind = current.kind
        /\ current'.lines = IF told /\ Begun THEN current.lines \cup {n} ELSE current.lines
        /\ current' \in [at : Nat, kind : HeadingKinds \cup {"body"}, lines : SUBSET Nat]
    BY <1>2, <1>3, <2>1 DEF SectionsType
  <2>3. SectionsType'
    BY <1>2, <1>3, <1>5, <2>1, <2>2 DEF SectionsType
  <2>4. Begun' = Begun
    BY <2>2 DEF Begun
  <2>5. InProgress'
    <3>1. CASE Begun
      <4>1. /\ current.at =< Len(lines) /\ current.kind \in HeadingKinds
            /\ \A j \in current.lines : current.at =< j /\ j =< Len(lines)
            /\ \A j \in preamble : j < current.at
            /\ Sound(cut, current.at)
            /\ \A j \in preamble : j # 0 /\ j =< Len(lines) /\ \A k \in DOMAIN cut : j < k
        BY <1>2, <3>1 DEF InProgress
      <4>2. preamble' = preamble /\ Sound(cut, current.at)'
        BY <2>1, <2>2, <3>1, <4>1 DEF Sound
      <4>3. \A j \in current'.lines : current'.at =< j /\ j =< n
        BY <1>2, <1>3, <2>2, <4>1 DEF SectionsType
      <4>4. \A j \in preamble : j =< n
        BY <1>2, <1>3, <4>1 DEF SectionsType
      <4>5. current'.at =< n
        BY <1>2, <1>3, <2>2, <4>1 DEF SectionsType
      <4>. QED BY <1>3, <2>1, <2>2, <2>4, <3>1, <4>1, <4>2, <4>3, <4>4, <4>5 DEF InProgress
    <3>2. CASE ~Begun
      <4>1. /\ current.kind = "body" /\ current.lines = {} /\ DOMAIN cut = {}
            /\ \A j \in preamble : j # 0 /\ j =< Len(lines)
        BY <1>2, <3>2 DEF InProgress
      <4>2. \A j \in preamble' : j # 0 /\ j =< n
        BY <1>2, <1>3, <2>1, <4>1 DEF SectionsType
      <4>. QED BY <1>3, <2>1, <2>2, <2>4, <3>2, <4>1, <4>2 DEF InProgress
    <3>. QED BY <3>1, <3>2
  <2>6. Accounted'
    <3>. SUFFICES ASSUME NEW j \in 1..n
                  PROVE  \/ j \in preamble' \cup current'.lines
                         \/ \E k \in DOMAIN cut' : j \in cut'[k].lines
                         \/ lines'[j].form \in {"blank", "end"}
                         \/ ~lines'[j].more /\ j \in DOMAIN cut' \cup {current'.at}
      BY <1>3 DEF Accounted
    <3>1. CASE j = n
      BY <1>3, <2>1, <2>2, <3>1
    <3>2. CASE j \in 1..Len(lines)
      <4>1. lines'[j] = lines[j]
        BY <1>3, <3>2
      <4>2. \/ j \in preamble \cup current.lines
            \/ \E k \in DOMAIN cut : j \in cut[k].lines
            \/ lines[j].form \in {"blank", "end"}
            \/ ~lines[j].more /\ j \in DOMAIN cut \cup {current.at}
        BY <1>2, <1>3, <3>2 DEF Accounted
      <4>. QED BY <2>1, <2>2, <4>1, <4>2
    <3>. QED BY <1>3, <3>1, <3>2
  <2>. QED BY <1>2, <1>4, <2>3, <2>5, <2>6 DEF SectionsInv
<1>. QED BY <1>7, <1>8

(* The sections split, of which all are those with a heading.              *)
Parted(split, all) ==
  /\ DOMAIN split \subseteq Nat
  /\ \A k \in DOMAIN split :
       /\ split[k].lines \subseteq Nat /\ \A n \in split[k].lines : k =< n
       /\ split[k].id = <<"abstract", 1>> => split[k].kind = "abstract"
       /\ split[k].kind = "abstract" => k \in DOMAIN all /\ split[k] = all[k]
  /\ \A k, l \in DOMAIN split : k < l =>
       split[k].id # split[l].id /\ \A m \in split[k].lines, n \in split[l].lines : m < n
  /\ \A n \in DOMAIN lines :
       \/ \E k \in DOMAIN split : n \in split[k].lines
       \/ lines[n].form \in {"blank", "end"}
       \/ ~lines[n].more /\ n \in DOMAIN all

(* What the lines became, with the body before the first heading.          *)
LEMMA SplitSound ==
  ASSUME SectionsType, InProgress, Accounted
  PROVE  Parted(Split(Flush), Flush)
<1>. DEFINE all == Flush  split == Split(Flush)  body == Body(Flush)
            zero == [id |-> <<"body", 1>>, kind |-> "body", lines |-> body]
<1>. SUFFICES Parted(split, all)
  OBVIOUS
<1>0. zero.id = <<"body", 1>> /\ zero.kind = "body" /\ zero.lines = body
  OBVIOUS
<1>1. Len(lines) \in Nat /\ DOMAIN lines = 1..Len(lines)
  BY DEF SectionsType
<1>2. Sound(all, Len(lines) + 1)
  BY <1>1, FlushSound
<1>3. /\ DOMAIN all = DOMAIN cut \cup (IF Begun THEN {current.at} ELSE {})
      /\ \A k \in DOMAIN cut : all[k].lines = cut[k].lines /\ all[k].kind = cut[k].kind
      /\ Begun => all[current.at].lines = current.lines
  BY FlushKeeps
<1>4. body \subseteq Nat /\ \A n \in body : n # 0 /\ \A k \in DOMAIN all : n < k
  <2>1. CASE DOMAIN all = {}
    BY <1>1, <2>1 DEF Body
  <2>2. CASE DOMAIN all # {}
    <3>1. body = preamble
      BY <2>2 DEF Body
    <3>2. /\ \A n \in preamble : n \in Nat /\ n # 0 /\ \A k \in DOMAIN cut : n < k
          /\ Begun => \A n \in preamble : n < current.at
      BY DEF InProgress, SectionsType
    <3>. HIDE DEF all, body
    <3>. QED BY <1>3, <3>1, <3>2
  <2>. QED BY <2>1, <2>2
<1>5. \A n \in DOMAIN lines :
        \/ n \in body
        \/ \E k \in DOMAIN all : n \in all[k].lines
        \/ lines[n].form \in {"blank", "end"}
        \/ ~lines[n].more /\ n \in DOMAIN all
  <2>. SUFFICES ASSUME NEW n \in DOMAIN lines
                PROVE  \/ n \in body
                       \/ \E k \in DOMAIN all : n \in all[k].lines
                       \/ lines[n].form \in {"blank", "end"}
                       \/ ~lines[n].more /\ n \in DOMAIN all
    OBVIOUS
  <2>1. CASE DOMAIN all = {}
    BY <2>1 DEF Body
  <2>2. CASE DOMAIN all # {}
    <3>1. body = preamble
      BY <2>2 DEF Body
    <3>2. \/ n \in preamble \cup current.lines
          \/ \E k \in DOMAIN cut : n \in cut[k].lines
          \/ lines[n].form \in {"blank", "end"}
          \/ ~lines[n].more /\ n \in DOMAIN cut \cup {current.at}
      BY DEF Accounted
    <3>3. n \in current.lines => Begun
      BY DEF InProgress
    <3>4. n = current.at => Begun
      BY <1>1 DEF Begun
    <3>. QED BY <1>3, <3>1, <3>2, <3>3, <3>4
  <2>. QED BY <2>1, <2>2
<1>6. /\ "body" \notin HeadingKinds /\ "abstract" \in HeadingKinds
      /\ zero.kind # "abstract" /\ zero.id # <<"abstract", 1>>
  <2>1. <<"body", 1>>[1] = "body" /\ <<"abstract", 1>>[1] = "abstract" /\ "body" # "abstract"
    OBVIOUS
  <2>. QED BY <1>0, <2>1, TextSectionsAssumption
<1>7. CASE \A n \in body : lines[n].form = "blank"
  <2>1. split = all
    BY <1>7 DEF Split
  <2>2. DOMAIN split \subseteq Nat
    BY <1>2, <2>1 DEF Sound
  <2>3. \A k \in DOMAIN split :
          /\ split[k].lines \subseteq Nat /\ \A n \in split[k].lines : k =< n
          /\ split[k].id = <<"abstract", 1>> => split[k].kind = "abstract"
          /\ split[k].kind = "abstract" => k \in DOMAIN all /\ split[k] = all[k]
    BY <1>2, <2>1 DEF Sound
  <2>4. ASSUME NEW k \in DOMAIN split, NEW l \in DOMAIN split, k < l
        PROVE  split[k].id # split[l].id /\ \A m \in split[k].lines, n \in split[l].lines : m < n
    <3>1. /\ split[k].id # split[l].id /\ \A m \in split[k].lines : m \in Nat /\ m < l
          /\ l \in Nat /\ \A n \in split[l].lines : n \in Nat /\ l =< n
      BY <1>2, <2>1, <2>4 DEF Sound
    <3>. QED BY <3>1
  <2>5. \A n \in DOMAIN lines :
          \/ \E k \in DOMAIN split : n \in split[k].lines
          \/ lines[n].form \in {"blank", "end"}
          \/ ~lines[n].more /\ n \in DOMAIN all
    BY <1>5, <1>7, <2>1
  <2>. HIDE DEF split, all, body, zero
  <2>. QED BY <2>2, <2>3, <2>4, <2>5 DEF Parted
<1>8. CASE ~\A n \in body : lines[n].form = "blank"
  <2>1. split = [k \in DOMAIN all \cup {0} |-> IF k = 0 THEN zero ELSE all[k]]
    BY <1>8 DEF Split
  <2>. HIDE DEF split, all, body, zero
  <2>2. 0 \notin DOMAIN all
    BY <1>2 DEF Sound
  <2>3. /\ DOMAIN split = DOMAIN all \cup {0} /\ split[0] = zero
        /\ \A k \in DOMAIN all : split[k] = all[k]
    BY <2>1, <2>2
  <2>4. DOMAIN split \subseteq Nat
    BY <1>2, <2>3 DEF Sound
  <2>5. ASSUME NEW k \in DOMAIN split
        PROVE  /\ split[k].lines \subseteq Nat /\ \A n \in split[k].lines : k =< n
               /\ split[k].id = <<"abstract", 1>> => split[k].kind = "abstract"
               /\ split[k].kind = "abstract" => k \in DOMAIN all /\ split[k] = all[k]
    <3>1. CASE k = 0
      <4>1. split[k] = zero /\ k = 0
        BY <2>3, <3>1
      <4>2. zero.lines \subseteq Nat /\ \A n \in zero.lines : 0 =< n
        <5>1. zero.lines = body
          BY <1>0
        <5>2. body \subseteq Nat /\ \A n \in Nat : 0 =< n
          BY <1>4
        <5>. QED BY <5>1, <5>2, Zenon
      <4>. HIDE DEF zero
      <4>. QED BY <1>6, <4>1, <4>2
    <3>2. CASE k \in DOMAIN all
      BY <1>2, <2>3, <3>2 DEF Sound
    <3>. QED BY <2>3, <3>1, <3>2
  <2>6. ASSUME NEW k \in DOMAIN split, NEW l \in DOMAIN split, k < l
        PROVE  split[k].id # split[l].id /\ \A m \in split[k].lines, n \in split[l].lines : m < n
    <3>1. l \in DOMAIN all /\ l \in Nat
      BY <2>3, <2>4, <2>6
    <3>2. split[l] = all[l] /\ \A n \in all[l].lines : n \in Nat /\ l =< n
      BY <1>2, <2>3, <3>1 DEF Sound
    <3>3. CASE k = 0
      <4>1. \A m \in body : m \in Nat /\ m < l
        BY <1>4, <3>1
      <4>2. all[l].id # <<"body", 1>>
        BY <1>2, <1>6, <3>1 DEF Sound
      <4>3. split[k].id = <<"body", 1>> /\ split[k].lines = body
        BY <1>0, <2>3, <3>3
      <4>. QED BY <3>1, <3>2, <4>1, <4>2, <4>3
    <3>4. CASE k \in DOMAIN all
      <4>1. all[k].id # all[l].id /\ \A m \in all[k].lines : m \in Nat /\ m < l
        BY <1>2, <2>6, <3>1, <3>4 DEF Sound
      <4>. QED BY <2>3, <3>1, <3>2, <3>4, <4>1
    <3>. QED BY <2>3, <3>3, <3>4
  <2>7. \A n \in DOMAIN lines :
          \/ \E k \in DOMAIN split : n \in split[k].lines
          \/ lines[n].form \in {"blank", "end"}
          \/ ~lines[n].more /\ n \in DOMAIN all
    <3>. SUFFICES ASSUME NEW n \in DOMAIN lines
                  PROVE  \/ \E k \in DOMAIN split : n \in split[k].lines
                         \/ lines[n].form \in {"blank", "end"}
                         \/ ~lines[n].more /\ n \in DOMAIN all
      OBVIOUS
    <3>1. split[0].lines = body /\ 0 \in DOMAIN split
      BY <1>0, <2>3
    <3>. QED BY <1>5, <2>3, <3>1
  <2>. QED BY <2>4, <2>5, <2>6, <2>7 DEF Parted
<1>. QED BY <1>7, <1>8

LEMMA ReadAllInv == SectionsInv /\ ReadAll => SectionsInv'
<1>. SUFFICES ASSUME SectionsInv, ReadAll PROVE SectionsInv'
  OBVIOUS
<1>. DEFINE split == Split(Flush)
<1>1. SectionsType /\ InProgress /\ Accounted
  BY DEF SectionsInv, ReadAll
<1>2. /\ ended' = TRUE /\ cut' = Flush /\ current' = NotBegun
      /\ sectioned' = [k \in {k \in DOMAIN split : abstract => split[k].kind # "abstract"} |-> split[k]]
      /\ abstract' = abstract /\ lines' = lines /\ preamble' = preamble
  <2>1. cut' = Flush /\ Split(cut') = Split(Flush)
    BY DEF ReadAll
  <2>. QED BY <2>1 DEF ReadAll
<1>3. SectionsType'
  BY <1>1, <1>2 DEF SectionsType, NotBegun
<1>4. Parted(split, Flush)
  BY <1>1, SplitSound
<1>. HIDE DEF split
<1>5. /\ DOMAIN sectioned' = {k \in DOMAIN split : abstract => split[k].kind # "abstract"}
      /\ \A k \in DOMAIN sectioned' : sectioned'[k] = split[k] /\ k \in DOMAIN split
  BY <1>2
<1>6. LinesSectioned'
  <2>1. ASSUME NEW n \in DOMAIN lines
        PROVE  \/ \E k \in DOMAIN sectioned' : n \in sectioned'[k].lines
               \/ lines[n].form \in {"blank", "end"}
               \/ ~lines[n].more /\ n \in DOMAIN cut'
               \/ abstract /\ \E k \in DOMAIN cut' : cut'[k].kind = "abstract" /\ n \in cut'[k].lines
    <3>1. CASE \E k \in DOMAIN split : n \in split[k].lines
      <4>1. PICK k \in DOMAIN split : n \in split[k].lines
        BY <3>1
      <4>2. CASE k \in DOMAIN sectioned'
        BY <1>5, <4>1, <4>2
      <4>3. CASE k \notin DOMAIN sectioned'
        BY <1>2, <1>4, <1>5, <4>1, <4>3 DEF Parted
      <4>. QED BY <4>2, <4>3
    <3>. QED BY <1>2, <1>4, <3>1 DEF Parted
  <2>2. ASSUME NEW k \in DOMAIN sectioned'
        PROVE  /\ abstract => sectioned'[k].id # <<"abstract", 1>>
               /\ \A n \in sectioned'[k].lines : k =< n
    BY <1>4, <1>5 DEF Parted
  <2>3. ASSUME NEW k \in DOMAIN sectioned', NEW l \in DOMAIN sectioned', k < l
        PROVE  /\ sectioned'[k].id # sectioned'[l].id
               /\ \A m \in sectioned'[k].lines, n \in sectioned'[l].lines : m < n
    BY <1>4, <1>5, <2>3 DEF Parted
  <2>. QED BY <1>2, <2>1, <2>2, <2>3 DEF LinesSectioned
<1>. QED BY <1>2, <1>3, <1>6 DEF SectionsInv

(* However headings, references and abstracts follow one another in a text, *)
(* its lines are said once and in order, in sections with ids of their own. *)
THEOREM LinesAlwaysSectioned == SpecSections => []LinesSectioned
<1>1. InitSections => SectionsInv
  BY InitSectionsInv
<1>2. SectionsInv /\ [NextSections]_sectionVars => SectionsInv'
  <2>1. SectionsInv /\ UNCHANGED sectionVars => SectionsInv'
    BY DEF SectionsInv, SectionsType, InProgress, Accounted, LinesSectioned, sectionVars, Begun, Sound
  <2>. QED BY <2>1, ReadLineInv, ReadAllInv DEF NextSections
<1>3. SectionsInv => LinesSectioned
  BY DEF SectionsInv
<1>. QED BY <1>1, <1>2, <1>3, PTL DEF SpecSections

-----------------------------------------------------------------------------
(* Documents of GROBID. What is proved of the state of the parser: the      *)
(* flags say what is open (PathInv); the section and the reference at hand  *)
(* are those the path is in, and hold its texts so far (SectionInv,         *)
(* ReferenceInv); the ones before are kept, in order, and hold all texts of *)
(* theirs (SectionsKept, ReferencesKept); and what is captured for the      *)
(* paper is the paper's (TitleInv, AuthorsInv).                             *)
Element == [name : STRING, marked : BOOLEAN, at : Nat]

TeiTypes ==
  /\ elements \in Nat /\ grammar \in Grammars
  /\ path \in Seq(Element) /\ said \in Seq(Seq(Element))
  /\ on \subseteq Slots \ {"text", "raw"}
  /\ buf \in [Slots -> SUBSET Nat]
  /\ section \in [of : Nat, heading : SUBSET Nat]
  /\ sections \in Seq([of : Nat, heading : SUBSET Nat, text : SUBSET Nat])
  /\ reference \in [of : Nat, title : SUBSET Nat, doi : SUBSET Nat, year : Nat,
                    authors : Seq(SUBSET Nat)]
  /\ references \in Seq([of : Nat, raw : SUBSET Nat, title : SUBSET Nat, doi : SUBSET Nat,
                         year : Nat, authors : Seq(SUBSET Nat)])
  /\ meta \in [title : SUBSET Nat, doi : SUBSET Nat, year : Nat, authors : Seq(SUBSET Nat)]
  /\ person \in [forenames : SUBSET Nat, surname : SUBSET Nat]

(* The open elements are of the grammar and none but div and p is in one of *)
(* its name, so that a flag is set while its element is open.               *)
PathInv ==
  /\ \A i \in DOMAIN path : path[i].name \in DOMAIN grammar /\ path[i].at \in 1..elements
  /\ \A n \in DOMAIN said : \A i \in DOMAIN said[n] : said[n][i].at \in 1..elements
  /\ \A i, j \in DOMAIN path : path[i].name = path[j].name => i = j \/ path[i].name \in {"div", "p"}
  /\ \A name \in {"body", "listBibl", "persName"} : name \in inside <=> Within(name)

HeadingTexts == section.heading \cup (IF "heading" \in on THEN buf["heading"] ELSE {})

SectionInv ==
  /\ InASection => InSection(path, section.of)
  /\ ~InASection => \A i \in DOMAIN path : path[i].name = "div" => ~InBody(path, i)
  /\ "heading" \in on =>
       /\ InASection /\ "heading" \notin known
       /\ \E i, j \in DOMAIN path : i < j /\ OutermostDiv(path, i) /\ path[j].name = "head"
  /\ "heading" \notin known => section.heading = {}
  /\ InASection =>
       /\ HeadingTexts \cup buf["text"] = {n \in DOMAIN said : InSection(said[n], section.of)}
       /\ HeadingTexts \cap buf["text"] = {}

SectionsKept ==
  /\ \A k \in DOMAIN sections :
       /\ sections[k].heading \cup sections[k].text = {n \in DOMAIN said : InSection(said[n], sections[k].of)}
       /\ sections[k].heading \cap sections[k].text = {}
       /\ sections[k].of =< elements
       /\ InASection => sections[k].of < section.of
  /\ \A k, l \in DOMAIN sections : k < l => sections[k].of < sections[l].of
  /\ \A n \in DOMAIN said : \A i \in DOMAIN said[n] : OutermostDiv(said[n], i) =>
       said[n][i].at = section.of \/ \E k \in DOMAIN sections : sections[k].of = said[n][i].at

ReferenceInv ==
  /\ InAReference => InReference(path, reference.of)
  /\ ~InAReference => \A i \in DOMAIN path : ~OfList(path, i)
  /\ InAReference => buf["raw"] = {n \in DOMAIN said : InReference(said[n], reference.of)}

ReferencesKept ==
  /\ \A k \in DOMAIN references :
       /\ references[k].raw = {n \in DOMAIN said : InReference(said[n], references[k].of)}
       /\ references[k].of =< elements
       /\ InAReference => references[k].of < reference.of
  /\ \A k, l \in DOMAIN references : k < l => references[k].of < references[l].of
  /\ \A n \in DOMAIN said : \A i \in DOMAIN said[n] : OfList(said[n], i) =>
       said[n][i].at = reference.of \/ \E k \in DOMAIN references : references[k].of = said[n][i].at

SaidOfPaper(texts, name) == \A n \in texts : n \in DOMAIN said /\ OfPaper(said[n], name)

PersonTexts ==
  person.forenames \cup person.surname
    \cup UNION {buf[slot] : slot \in on \cap {"forename", "surname"}}

(* p begins as q does up to the place i.                                    *)
Shares(p, q, i) == Len(p) >= i /\ \A j \in 1..i : p[j] = q[j]

TitleInv ==
  /\ "title" \in on => OfPaper(path, "title") /\ SaidOfPaper(buf["title"], "title")
  /\ "doi" \in on => OfPaper(path, "idno") /\ SaidOfPaper(buf["doi"], "idno")
  /\ SaidOfPaper(meta.title, "title") /\ SaidOfPaper(meta.doi, "idno")

AuthorsInv ==
  /\ \A name \in on \cap {"forename", "surname"} :
       \E i, j \in DOMAIN path : i < j /\ path[i].name = "persName" /\ path[j].name = name
  /\ \A n \in PersonTexts :
       /\ n \in DOMAIN said
       /\ \A i \in DOMAIN path : path[i].name = "persName" => Shares(said[n], path, i)
  /\ \A k \in DOMAIN meta.authors : SaidOfPaper(meta.authors[k], "persName")

TeiInv ==
  /\ TeiTypes /\ PathInv /\ SectionInv /\ SectionsKept /\ ReferenceInv /\ ReferencesKept
  /\ TitleInv /\ AuthorsInv

-----------------------------------------------------------------------------
(* What stands before a place decides what it is a part of.                *)
LEMMA SamePlaces ==
  ASSUME NEW p, NEW q, NEW m \in Nat, \A i \in 1..m : p[i] = q[i], NEW i \in 1..m
  PROVE  /\ InBody(p, i) <=> InBody(q, i)
         /\ OutermostDiv(p, i) <=> OutermostDiv(q, i)
         /\ OfList(p, i) <=> OfList(q, i)
<1>1. \A k \in 1..m : InBody(p, k) <=> InBody(q, k)
  BY DEF InBody
<1>2. \A k \in 1..(i - 1) : k \in 1..m
  OBVIOUS
<1>3. OutermostDiv(p, i) <=> OutermostDiv(q, i)
  BY <1>1, <1>2 DEF OutermostDiv
<1>4. OfList(p, i) <=> OfList(q, i)
  BY <1>2 DEF OfList
<1>. QED BY <1>1, <1>3, <1>4

LEMMA OneOutermost ==
  ASSUME NEW p \in Seq(Element), NEW i \in DOMAIN p, NEW j \in DOMAIN p,
         OutermostDiv(p, i), OutermostDiv(p, j)
  PROVE  i = j
BY DEF OutermostDiv

(* A step of the parser with the path longer by one element, or shorter.   *)
LEMMA LongerPath ==
  ASSUME NEW p \in Seq(Element), NEW e \in Element
  PROVE  /\ Append(p, e) \in Seq(Element) /\ Len(Append(p, e)) = Len(p) + 1
         /\ \A i \in 1..Len(p) : Append(p, e)[i] = p[i]
         /\ Append(p, e)[Len(p) + 1] = e
         /\ DOMAIN p = 1..Len(p) /\ DOMAIN Append(p, e) = 1..(Len(p) + 1)
OBVIOUS

LEMMA ShorterPath ==
  ASSUME NEW p \in Seq(Element), p # <<>>
  PROVE  /\ SubSeq(p, 1, Len(p) - 1) \in Seq(Element) /\ Len(SubSeq(p, 1, Len(p) - 1)) = Len(p) - 1
         /\ \A i \in 1..(Len(p) - 1) : SubSeq(p, 1, Len(p) - 1)[i] = p[i]
         /\ Len(p) \in DOMAIN p
         /\ DOMAIN p = 1..Len(p) /\ DOMAIN SubSeq(p, 1, Len(p) - 1) = 1..(Len(p) - 1)
<1>1. Len(p) \in Nat \ {0} /\ DOMAIN p = 1..Len(p)
  OBVIOUS
<1>2. \A i \in 1..(Len(p) - 1) : p[i] \in Element
  BY <1>1
<1>3. 1 \in Int /\ Len(p) - 1 \in Int
  BY <1>1
<1>. DEFINE q == SubSeq(p, 1, Len(p) - 1)
<1>. SUFFICES /\ q \in Seq(Element) /\ Len(q) = Len(p) - 1
              /\ \A i \in 1..(Len(p) - 1) : q[i] = p[i]
              /\ DOMAIN q = 1..(Len(p) - 1)
  BY <1>1
<1>4. /\ q \in Seq(Element)
      /\ Len(q) = IF 1 <= Len(p) - 1 THEN Len(p) - 1 - 1 + 1 ELSE 0
      /\ \A i \in 1..(Len(p) - 1 - 1 + 1) : q[i] = p[1 + i - 1]
  BY <1>2, <1>3, SubSeqProperties
<1>. HIDE DEF q
<1>5. Len(q) = Len(p) - 1
  <2>1. CASE Len(p) = 1
    <3>1. ~(1 <= Len(p) - 1)
      BY <2>1
    <3>. QED BY <1>4, <2>1, <3>1
  <2>2. CASE Len(p) # 1
    <3>1. 1 <= Len(p) - 1 /\ Len(p) - 1 - 1 + 1 = Len(p) - 1
      BY <1>1, <2>2
    <3>. QED BY <1>4, <3>1
  <2>. QED BY <2>1, <2>2
<1>6. \A i \in 1..(Len(p) - 1) : q[i] = p[i]
  <2>. TAKE i \in 1..(Len(p) - 1)
  <2>1. i \in 1..(Len(p) - 1 - 1 + 1) /\ 1 + i - 1 = i
    BY <1>1
  <2>. QED BY <1>4, <2>1
<1>7. q \in Seq(Element)
  BY <1>4
<1>8. DOMAIN q = 1..(Len(p) - 1)
  BY <1>5, <1>7
<1>. QED BY <1>5, <1>6, <1>7, <1>8

(* The numbers that order sections and references.                         *)
LEMMA NumbersOfParts ==
  ASSUME TeiTypes
  PROVE  /\ section.of \in Nat /\ reference.of \in Nat
         /\ \A k \in DOMAIN sections : sections[k].of \in Nat
         /\ \A k \in DOMAIN references : references[k].of \in Nat
<1>. DEFINE S == [of : Nat, heading : SUBSET Nat, text : SUBSET Nat]
            R == [of : Nat, raw : SUBSET Nat, title : SUBSET Nat, doi : SUBSET Nat, year : Nat,
                  authors : Seq(SUBSET Nat)]
<1>1. sections \in Seq(S) /\ references \in Seq(R)
  BY DEF TeiTypes
<1>2. \A x \in S : x.of \in Nat
  OBVIOUS
<1>3. \A x \in R : x.of \in Nat
  OBVIOUS
<1>. HIDE DEF S, R
<1>4. \A k \in DOMAIN sections : sections[k] \in S
  BY <1>1
<1>5. \A k \in DOMAIN references : references[k] \in R
  BY <1>1
<1>6. section.of \in Nat /\ reference.of \in Nat
  BY DEF TeiTypes
<1>. QED BY <1>2, <1>3, <1>4, <1>5, <1>6

-----------------------------------------------------------------------------
(* An element that starts is one of the grammar, as what it starts in is.  *)
LEMMA StartsAre ==
  ASSUME TeiTypes, PathInv, Start
  PROVE  \E e \in [name : DOMAIN grammar, marked : BOOLEAN] :
           /\ e.name \in STRING /\ (e.name \notin {"div", "p"} => ~Within(e.name)) /\ HandleStart(e)
<1>. DEFINE last == IF path = <<>> THEN "document" ELSE path[Len(path)].name
<1>1. last \in DOMAIN grammar
  <2>1. CASE path = <<>>
    BY <2>1, TeiAssumption DEF TeiTypes
  <2>2. CASE path # <<>>
    <3>1. Len(path) \in DOMAIN path
      BY <2>2 DEF TeiTypes
    <3>. QED BY <2>2, <3>1 DEF PathInv
  <2>. QED BY <2>1, <2>2
<1>2. grammar[last] \subseteq [name : DOMAIN grammar, marked : BOOLEAN] /\ DOMAIN grammar \subseteq STRING
  BY <1>1, TeiAssumption DEF TeiTypes
<1>3. \E e \in grammar[last] : (e.name \notin {"div", "p"} => ~Within(e.name)) /\ HandleStart(e)
  BY DEF Start
<1>. HIDE DEF last
<1>4. PICK e \in grammar[last] : (e.name \notin {"div", "p"} => ~Within(e.name)) /\ HandleStart(e)
  BY <1>3
<1>5. e \in [name : DOMAIN grammar, marked : BOOLEAN] /\ e.name \in STRING
  BY <1>2
<1>. QED BY <1>4, <1>5

(* What the start of an element, its end and a text do to the path.        *)
LEMMA StartPath ==
  ASSUME TeiTypes, NEW e \in [name : DOMAIN grammar, marked : BOOLEAN], e.name \in STRING, HandleStart(e)
  PROVE  LET n == Len(path) + 1 IN
         /\ elements' = elements + 1 /\ elements' \in Nat
         /\ path' \in Seq(Element) /\ Len(path) \in Nat /\ n \in Nat
         /\ DOMAIN path = 1..Len(path) /\ DOMAIN path' = 1..n
         /\ \A i \in 1..Len(path) : path'[i] = path[i]
         /\ path'[n].name = e.name /\ path'[n].at = elements + 1
         /\ said' = said
<1>1. [name |-> e.name, marked |-> e.marked, at |-> elements + 1] \in Element
  BY DEF TeiTypes, Element
<1>. QED BY <1>1, LongerPath DEF TeiTypes, HandleStart

LEMMA EndPath ==
  ASSUME TeiTypes, path # <<>>, NEW name, HandleEnd(name)
  PROVE  /\ Len(path) \in Nat \ {0} /\ path' \in Seq(Element)
         /\ DOMAIN path = 1..Len(path) /\ DOMAIN path' = 1..(Len(path) - 1)
         /\ \A i \in 1..(Len(path) - 1) : path'[i] = path[i]
         /\ said' = said /\ elements' = elements /\ buf' = buf /\ grammar' = grammar
<1>1. Len(path) \in Nat \ {0}
  BY DEF TeiTypes
<1>. QED BY <1>1, ShorterPath DEF TeiTypes, HandleEnd, document

LEMMA TextPath ==
  ASSUME TeiTypes, HandleText
  PROVE  LET n == Len(said) + 1 IN
         /\ n \in Nat /\ n \notin DOMAIN said /\ DOMAIN said = 1..Len(said)
         /\ DOMAIN said' = DOMAIN said \cup {n}
         /\ \A k \in DOMAIN said : said'[k] = said[k]
         /\ said'[n] = path
         /\ said' \in Seq(Seq(Element))
         /\ path' = path /\ elements' = elements
BY DEF TeiTypes, HandleText

-----------------------------------------------------------------------------
(* TypesStart to AuthorsText: what each step does to each part of TeiInv.  *)
LEMMA TypesStart ==
  ASSUME TeiTypes, NEW e \in [name : DOMAIN grammar, marked : BOOLEAN], e.name \in STRING, HandleStart(e)
  PROVE  TeiTypes'
<1>1. elements' \in Nat /\ grammar' \in Grammars /\ path' \in Seq(Element) /\ said' \in Seq(Seq(Element))
  BY StartPath DEF TeiTypes, HandleStart
<1>2. on' \subseteq Slots \ {"text", "raw"}
  <2>1. Begins(e) \subseteq Slots \ {"text", "raw"}
    BY DEF Begins, Slots
  <2>. QED BY <2>1 DEF HandleStart, TeiTypes
<1>3. buf' \in [Slots -> SUBSET Nat]
  BY DEF HandleStart, TeiTypes
<1>0. elements + 1 \in Nat
  BY DEF TeiTypes
<1>4. section' \in [of : Nat, heading : SUBSET Nat]
  <2>1. [NoSection EXCEPT !.of = elements + 1] = [of |-> elements + 1, heading |-> {}]
    BY DEF NoSection
  <2>2. [of |-> elements + 1, heading |-> {}] \in [of : Nat, heading : SUBSET Nat]
    BY <1>0
  <2>3. section \in [of : Nat, heading : SUBSET Nat]
    BY DEF TeiTypes
  <2>. QED BY <2>1, <2>2, <2>3 DEF HandleStart
<1>5. reference' \in [of : Nat, title : SUBSET Nat, doi : SUBSET Nat, year : Nat, authors : Seq(SUBSET Nat)]
  <2>. DEFINE R == [of : Nat, title : SUBSET Nat, doi : SUBSET Nat, year : Nat, authors : Seq(SUBSET Nat)]
  <2>1. NoReference \in R
    <3>1. <<>> \in Seq(SUBSET Nat)
      OBVIOUS
    <3>. QED BY <3>1 DEF NoReference
  <2>2. [NoReference EXCEPT !.of = elements + 1] \in R
    BY <1>0, <2>1
  <2>3. reference \in R
    BY DEF TeiTypes
  <2>4. [reference EXCEPT !.year = elements + 1] \in R
    BY <1>0, <2>3
  <2>. HIDE DEF R
  <2>5. reference' \in R
    BY <2>1, <2>2, <2>3, <2>4 DEF HandleStart
  <2>. QED BY <2>5 DEF R
<1>6. meta' \in [title : SUBSET Nat, doi : SUBSET Nat, year : Nat, authors : Seq(SUBSET Nat)]
  BY <1>0 DEF HandleStart, TeiTypes
<1>7. person' \in [forenames : SUBSET Nat, surname : SUBSET Nat]
  BY DEF HandleStart, TeiTypes, NoNames
<1>. QED BY <1>1, <1>2, <1>3, <1>4, <1>5, <1>6, <1>7 DEF TeiTypes, HandleStart

LEMMA TypesEnd ==
  ASSUME TeiTypes, path # <<>>, NEW name, HandleEnd(name)
  PROVE  TeiTypes'
<1>. DEFINE M == [title : SUBSET Nat, doi : SUBSET Nat, year : Nat, authors : Seq(SUBSET Nat)]
            R == [of : Nat, title : SUBSET Nat, doi : SUBSET Nat, year : Nat, authors : Seq(SUBSET Nat)]
            L == [of : Nat, raw : SUBSET Nat, title : SUBSET Nat, doi : SUBSET Nat, year : Nat,
                  authors : Seq(SUBSET Nat)]
<1>1. elements' \in Nat /\ grammar' \in Grammars /\ path' \in Seq(Element) /\ said' \in Seq(Seq(Element))
  BY EndPath DEF TeiTypes
<1>2. on' \subseteq Slots \ {"text", "raw"}
  BY DEF HandleEnd, TeiTypes
<1>3. buf' \in [Slots -> SUBSET Nat]
  BY DEF HandleEnd, TeiTypes
<1>a. \A slot \in Slots : buf[slot] \subseteq Nat
  BY DEF TeiTypes
<1>b. buf["title"] \subseteq Nat /\ buf["doi"] \subseteq Nat /\ buf["refTitle"] \subseteq Nat
        /\ buf["refDoi"] \subseteq Nat /\ buf["heading"] \subseteq Nat /\ buf["text"] \subseteq Nat
        /\ buf["raw"] \subseteq Nat /\ buf["forename"] \subseteq Nat /\ buf["surname"] \subseteq Nat
  BY <1>a DEF Slots
<1>c. person.forenames \cup person.surname \in SUBSET Nat
  BY DEF TeiTypes
<1>4. section' \in [of : Nat, heading : SUBSET Nat]
  BY <1>b DEF HandleEnd, TeiTypes, NoSection
<1>5. sections' \in Seq([of : Nat, heading : SUBSET Nat, text : SUBSET Nat])
  <2>1. [of |-> section.of, heading |-> section.heading, text |-> buf["text"]]
          \in [of : Nat, heading : SUBSET Nat, text : SUBSET Nat]
    BY <1>b DEF TeiTypes
  <2>2. FinalizeSection \in Seq([of : Nat, heading : SUBSET Nat, text : SUBSET Nat])
    BY <2>1 DEF TeiTypes, FinalizeSection
  <2>. QED BY <2>2 DEF HandleEnd, TeiTypes
<1>6. reference' \in R
  <2>1. NoReference \in R
    <3>1. <<>> \in Seq(SUBSET Nat)
      OBVIOUS
    <3>. QED BY <3>1 DEF NoReference
  <2>2. reference \in R
    BY DEF TeiTypes
  <2>3. [reference EXCEPT !.title = buf["refTitle"]] \in R /\ [reference EXCEPT !.doi = buf["refDoi"]] \in R
    BY <1>b, <2>2
  <2>4. [reference EXCEPT !.authors = Append(@, person.forenames \cup person.surname)] \in R
    <3>1. Append(reference.authors, person.forenames \cup person.surname) \in Seq(SUBSET Nat)
      BY <1>c, <2>2
    <3>. QED BY <2>2, <3>1
  <2>. HIDE DEF R
  <2>. QED BY <2>1, <2>2, <2>3, <2>4 DEF HandleEnd
<1>7. references' \in Seq(L)
  <2>1. [of |-> reference.of, raw |-> buf["raw"], title |-> reference.title, doi |-> reference.doi,
         year |-> reference.year, authors |-> reference.authors] \in L
    BY <1>b DEF TeiTypes
  <2>2. references \in Seq(L)
    BY DEF TeiTypes
  <2>. HIDE DEF L
  <2>. QED BY <2>1, <2>2 DEF HandleEnd
<1>8. meta' \in M
  <2>2. meta \in M
    BY DEF TeiTypes
  <2>3. [meta EXCEPT !.title = buf["title"]] \in M /\ [meta EXCEPT !.doi = buf["doi"]] \in M
    BY <1>b, <2>2
  <2>4. [meta EXCEPT !.authors = Append(@, person.forenames \cup person.surname)] \in M
    <3>1. Append(meta.authors, person.forenames \cup person.surname) \in Seq(SUBSET Nat)
      BY <1>c, <2>2
    <3>. QED BY <2>2, <3>1
  <2>. HIDE DEF M
  <2>. QED BY <2>2, <2>3, <2>4 DEF HandleEnd
<1>9. person' \in [forenames : SUBSET Nat, surname : SUBSET Nat]
  BY <1>b DEF HandleEnd, TeiTypes, NoNames
<1>. QED BY <1>1, <1>2, <1>3, <1>4, <1>5, <1>6, <1>7, <1>8, <1>9 DEF TeiTypes

LEMMA TypesText ==
  ASSUME TeiTypes, HandleText
  PROVE  TeiTypes'
<1>1. said' \in Seq(Seq(Element)) /\ Len(said) + 1 \in Nat
  BY TextPath
<1>2. buf' \in [Slots -> SUBSET Nat]
  BY <1>1 DEF HandleText, TeiTypes
<1>. QED BY <1>1, <1>2 DEF TeiTypes, HandleText, metadata, parts

-----------------------------------------------------------------------------
LEMMA PathStart ==
  ASSUME TeiTypes, PathInv, NEW e \in [name : DOMAIN grammar, marked : BOOLEAN], e.name \in STRING,
         e.name \notin {"div", "p"} => ~Within(e.name), HandleStart(e)
  PROVE  PathInv'
<1>. DEFINE n == Len(path) + 1
<1>1. /\ elements' = elements + 1 /\ elements \in Nat /\ Len(path) \in Nat
      /\ DOMAIN path = 1..Len(path) /\ DOMAIN path' = 1..n
      /\ \A i \in 1..Len(path) : path'[i] = path[i]
      /\ path'[n].name = e.name /\ path'[n].at = elements + 1
      /\ said' = said /\ grammar' = grammar
  BY StartPath DEF HandleStart, TeiTypes
<1>. HIDE DEF n
<1>2. \A i \in DOMAIN path' : i \in DOMAIN path \/ i = n
  BY <1>1 DEF n
<1>3. \A i \in DOMAIN path : i \in DOMAIN path' /\ path'[i] = path[i] /\ i # n
  BY <1>1 DEF n
<1>4. n \in DOMAIN path'
  BY <1>1 DEF n
<1>5. \A i \in DOMAIN path' : path'[i].name \in DOMAIN grammar' /\ path'[i].at \in 1..elements'
  BY <1>1, <1>2, <1>3 DEF PathInv
<1>6. \A k \in DOMAIN said' : \A i \in DOMAIN said'[k] : said'[k][i].at \in 1..elements'
  BY <1>1 DEF PathInv
<1>7. \A i, j \in DOMAIN path' : path'[i].name = path'[j].name => i = j \/ path'[i].name \in {"div", "p"}
  BY <1>1, <1>2, <1>3 DEF PathInv, Within
<1>8. \A name : Within(name)' <=> Within(name) \/ name = e.name
  BY <1>1, <1>2, <1>3, <1>4 DEF Within
<1>9. \A name \in {"body", "listBibl", "persName"} : name \in inside' <=> name \in inside \/ name = e.name
  BY DEF HandleStart, Enters
<1>10. \A name \in {"body", "listBibl", "persName"} : name \in inside' <=> Within(name)'
  BY <1>8, <1>9 DEF PathInv
<1>. QED BY <1>5, <1>6, <1>7, <1>10 DEF PathInv

LEMMA PathEnd ==
  ASSUME TeiTypes, PathInv, path # <<>>, HandleEnd(path[Len(path)].name)
  PROVE  PathInv'
<1>. DEFINE n == Len(path)  name == path[n].name
<1>1. /\ n \in Nat \ {0} /\ DOMAIN path = 1..n /\ DOMAIN path' = 1..(n - 1)
      /\ \A i \in 1..(n - 1) : path'[i] = path[i]
      /\ said' = said /\ elements' = elements /\ grammar' = grammar
  BY EndPath
<1>2. inside' = inside \ ({name} \cap {"body", "listBibl", "analytic", "persName", "figure"})
  BY DEF HandleEnd
<1>. HIDE DEF n
<1>3. \A i \in DOMAIN path' : i \in DOMAIN path /\ i # n /\ path'[i] = path[i]
  BY <1>1
<1>4. \A i \in DOMAIN path : i \in DOMAIN path' \/ i = n
  BY <1>1
<1>5. n \in DOMAIN path
  BY <1>1
<1>. HIDE DEF name
<1>6. \A i \in DOMAIN path' : path'[i].name \in DOMAIN grammar' /\ path'[i].at \in 1..elements'
  BY <1>1, <1>3 DEF PathInv
<1>7. \A k \in DOMAIN said' : \A i \in DOMAIN said'[k] : said'[k][i].at \in 1..elements'
  BY <1>1 DEF PathInv
<1>8. \A i, j \in DOMAIN path' : path'[i].name = path'[j].name => i = j \/ path'[i].name \in {"div", "p"}
  BY <1>3 DEF PathInv
<1>9. ASSUME NEW x \in {"body", "listBibl", "persName"}
      PROVE  x \in inside' <=> Within(x)'
  <2>1. CASE x = name
    <3>1. \A i \in DOMAIN path : path[i].name = x => i = n
      BY <1>5, <2>1 DEF PathInv, name
    <3>. QED BY <1>2, <1>3, <2>1, <3>1 DEF Within
  <2>2. CASE x # name
    <3>1. Within(x)' <=> Within(x)
      BY <1>3, <1>4, <2>2 DEF Within, name
    <3>. QED BY <1>2, <2>2, <3>1 DEF PathInv
  <2>. QED BY <2>1, <2>2
<1>. QED BY <1>6, <1>7, <1>8, <1>9 DEF PathInv

LEMMA PathText ==
  ASSUME TeiTypes, PathInv, HandleText
  PROVE  PathInv'
<1>1. /\ \A k \in DOMAIN said' : k \in DOMAIN said \/ said'[k] = path
      /\ \A k \in DOMAIN said : said'[k] = said[k]
  BY TextPath
<1>2. UNCHANGED <<grammar, elements, path, inside>>
  BY DEF HandleText
<1>3. \A k \in DOMAIN said' : \A i \in DOMAIN said'[k] : said'[k][i].at \in 1..elements'
  BY <1>1, <1>2 DEF PathInv
<1>4. \A name : Within(name)' <=> Within(name)
  BY <1>2 DEF Within
<1>. QED BY <1>2, <1>3, <1>4 DEF PathInv

-----------------------------------------------------------------------------
(* Which elements of the path are sections and references, before and      *)
(* after a step.                                                           *)
LEMMA PlacesStart ==
  ASSUME TeiTypes, PathInv, NEW e \in [name : DOMAIN grammar, marked : BOOLEAN], e.name \in STRING, HandleStart(e)
  PROVE  LET n == Len(path) + 1 IN
         /\ \A i \in DOMAIN path : /\ OutermostDiv(path', i) <=> OutermostDiv(path, i)
                                   /\ InBody(path', i) <=> InBody(path, i)
                                   /\ OfList(path', i) <=> OfList(path, i)
         /\ InBody(path', n) <=> "body" \in inside
         /\ OfList(path', n) <=> BeginsReference(e)
<1>. DEFINE n == Len(path) + 1
<1>1. /\ Len(path) \in Nat /\ DOMAIN path = 1..Len(path)
      /\ \A i \in 1..Len(path) : path'[i] = path[i]
      /\ path'[n].name = e.name
  BY StartPath
<1>2. ASSUME NEW i \in DOMAIN path
      PROVE  /\ OutermostDiv(path', i) <=> OutermostDiv(path, i)
             /\ InBody(path', i) <=> InBody(path, i)
             /\ OfList(path', i) <=> OfList(path, i)
  BY <1>1, SamePlaces
<1>3. \A name : Within(name) <=> \E j \in 1..(n - 1) : path'[j].name = name
  BY <1>1 DEF Within
<1>4. InBody(path', n) <=> "body" \in inside
  BY <1>3 DEF InBody, PathInv
<1>5. OfList(path', n) <=> BeginsReference(e)
  BY <1>1, <1>3 DEF OfList, BeginsReference, PathInv
<1>. QED BY <1>2, <1>4, <1>5

LEMMA PlacesEnd ==
  ASSUME TeiTypes, path # <<>>, NEW name, HandleEnd(name)
  PROVE  \A i \in DOMAIN path' :
           /\ OutermostDiv(path', i) <=> OutermostDiv(path, i)
           /\ InBody(path', i) <=> InBody(path, i)
           /\ OfList(path', i) <=> OfList(path, i)
<1>1. /\ Len(path) - 1 \in Nat /\ DOMAIN path' = 1..(Len(path) - 1)
      /\ \A i \in 1..(Len(path) - 1) : path'[i] = path[i]
  BY EndPath
<1>. QED BY <1>1, SamePlaces

(* Only the end of the outermost div ends a section.                       *)
LEMMA SectionEnds ==
  ASSUME TeiTypes, PathInv, SectionInv, path # <<>>
  PROVE  EndsSection(path[Len(path)].name) <=> InASection /\ OutermostDiv(path, Len(path))
<1>. DEFINE n == Len(path)  name == path[n].name
<1>1. n \in Nat \ {0} /\ DOMAIN path = 1..n
  BY DEF TeiTypes
<1>. HIDE DEF n
<1>2. ASSUME InASection PROVE name # "body"
  <2>1. \E i \in DOMAIN path : OutermostDiv(path, i)
    BY <1>2 DEF SectionInv, InSection
  <2>2. \E i \in DOMAIN path : \E j \in 1..(i - 1) : path[j].name = "body"
    BY <2>1 DEF OutermostDiv, InBody
  <2>3. \E j \in DOMAIN path : path[j].name = "body" /\ j # n
    BY <1>1, <2>2
  <2>. QED BY <1>1, <2>3 DEF PathInv
<1>3. ASSUME NEW i \in 1..(n - 1), path[i].name = "body", name = "div",
             \A k \in i..(n - 1) : path[k].name # "div"
      PROVE  OutermostDiv(path, n)
  <2>1. InBody(path, n)
    BY <1>1, <1>3 DEF InBody
  <2>2. ASSUME NEW k \in 1..(n - 1), path[k].name = "div", NEW j \in 1..(k - 1), path[j].name = "body"
        PROVE  FALSE
    <3>1. i = j
      BY <1>1, <1>3, <2>2 DEF PathInv
    <3>2. k \in i..(n - 1)
      BY <1>1, <3>1
    <3>. QED BY <1>3, <2>2, <3>2
  <2>. QED BY <1>3, <2>1, <2>2 DEF OutermostDiv, InBody, name
<1>4. ASSUME OutermostDiv(path, n)
      PROVE  \E i \in 1..(n - 1) : path[i].name = "body" /\ \A k \in i..(n - 1) : path[k].name # "div"
  <2>1. PICK i \in 1..(n - 1) : path[i].name = "body"
    BY <1>4 DEF OutermostDiv, InBody
  <2>2. ASSUME NEW k \in i..(n - 1), path[k].name = "div" PROVE FALSE
    <3>1. k # i
      BY <2>1, <2>2
    <3>2. i \in 1..(k - 1) /\ k \in 1..(n - 1)
      BY <1>1, <3>1
    <3>. QED BY <1>4, <2>1, <2>2, <3>2 DEF OutermostDiv, InBody
  <2>. QED BY <2>1, <2>2
<1>5. OutermostDiv(path, n) => name = "div"
  BY DEF OutermostDiv
<1>. QED BY <1>2, <1>3, <1>4, <1>5 DEF EndsSection, n

-----------------------------------------------------------------------------
LEMMA SectionStart ==
  ASSUME TeiTypes, PathInv, SectionInv,
         NEW e \in [name : DOMAIN grammar, marked : BOOLEAN], e.name \in STRING,
         e.name \notin {"div", "p"} => ~Within(e.name), HandleStart(e)
  PROVE  SectionInv'
<1>. DEFINE n == Len(path) + 1
<1>1. /\ elements' = elements + 1 /\ elements \in Nat /\ Len(path) \in Nat
      /\ DOMAIN path = 1..Len(path) /\ DOMAIN path' = 1..n
      /\ \A i \in 1..Len(path) : path'[i] = path[i]
      /\ path'[n].name = e.name /\ path'[n].at = elements + 1
      /\ said' = said
  BY StartPath DEF TeiTypes
<1>2. /\ \A i \in DOMAIN path : /\ OutermostDiv(path', i) <=> OutermostDiv(path, i)
                                /\ InBody(path', i) <=> InBody(path, i)
      /\ InBody(path', n) <=> "body" \in inside
  BY PlacesStart
<1>. HIDE DEF n
<1>3. /\ \A i \in DOMAIN path' : i \in DOMAIN path \/ i = n
      /\ \A i \in DOMAIN path : i \in DOMAIN path' /\ path'[i] = path[i] /\ i < n
      /\ n \in DOMAIN path' /\ \A i \in 1..(n - 1) : i \in DOMAIN path
  BY <1>1 DEF n
<1>4. /\ buf'["text"] = IF "text" \in Cleared(e) THEN {} ELSE buf["text"]
      /\ buf'["heading"] = IF "heading" \in Cleared(e) THEN {} ELSE buf["heading"]
      /\ "text" \in Cleared(e) <=> BeginsSection(e)
      /\ "heading" \in Cleared(e) <=> "heading" \in Begins(e)
  BY DEF HandleStart, Slots, Cleared, Begins
<1>5. /\ "heading" \in on' <=> "heading" \in on \/ "heading" \in Begins(e)
      /\ "heading" \in known' <=> "heading" \in known
  BY DEF HandleStart
<1>6. "heading" \in Begins(e) <=> e.name = "head" /\ InASection /\ "heading" \notin known
  BY DEF Begins
<1>7. CASE BeginsSection(e)
  <2>1. section' = [of |-> elements + 1, heading |-> {}]
    BY <1>7 DEF HandleStart, NoSection
  <2>2. e.name = "div" /\ "body" \in inside /\ ~InASection
    BY <1>7 DEF BeginsSection
  <2>3. InASection' /\ section'.of = elements + 1 /\ section'.heading = {}
    BY <1>1, <2>1 DEF InASection
  <2>4. "heading" \notin on'
    BY <1>5, <1>6, <2>2 DEF SectionInv
  <2>5. OutermostDiv(path', n)
    BY <1>1, <1>2, <1>3, <2>2 DEF OutermostDiv, SectionInv
  <2>6. InSection(path', section'.of)
    BY <1>1, <1>3, <2>3, <2>5 DEF InSection
  <2>7. HeadingTexts' = {} /\ buf'["text"] = {}
    BY <1>4, <1>7, <2>3, <2>4 DEF HeadingTexts
  <2>8. \A k \in DOMAIN said' : ~InSection(said'[k], section'.of)
    <3>1. \A k \in DOMAIN said : \A i \in DOMAIN said[k] : said[k][i].at # elements + 1
      BY <1>1 DEF PathInv
    <3>. QED BY <1>1, <2>3, <3>1 DEF InSection
  <2>9. HeadingTexts' \cup buf'["text"] = {k \in DOMAIN said' : InSection(said'[k], section'.of)}
    BY <2>7, <2>8
  <2>. QED BY <2>3, <2>4, <2>6, <2>7, <2>9 DEF SectionInv
<1>8. CASE ~BeginsSection(e)
  <2>1. section' = section /\ (InASection' <=> InASection) /\ buf'["text"] = buf["text"]
    BY <1>4, <1>8 DEF HandleStart, InASection
  <2>2. ASSUME InASection PROVE InSection(path', section'.of)
    BY <1>2, <1>3, <2>1, <2>2 DEF SectionInv, InSection
  <2>3. ASSUME ~InASection, NEW i \in DOMAIN path', path'[i].name = "div"
        PROVE  ~InBody(path', i)
    <3>1. CASE i \in DOMAIN path
      BY <1>2, <1>3, <2>3, <3>1 DEF SectionInv
    <3>2. CASE i = n
      BY <1>1, <1>2, <1>8, <2>3, <3>2 DEF BeginsSection
    <3>. QED BY <1>3, <3>1, <3>2
  <2>4. ASSUME "heading" \in on'
        PROVE  /\ InASection /\ "heading" \notin known'
               /\ \E i, j \in DOMAIN path' : i < j /\ OutermostDiv(path', i) /\ path'[j].name = "head"
    <3>1. CASE "heading" \in on
      <4>1. PICK i, j \in DOMAIN path : i < j /\ OutermostDiv(path, i) /\ path[j].name = "head"
        BY <3>1 DEF SectionInv
      <4>2. i \in DOMAIN path' /\ j \in DOMAIN path' /\ OutermostDiv(path', i) /\ path'[j].name = "head"
        BY <1>2, <1>3, <4>1
      <4>3. InASection /\ "heading" \notin known'
        BY <1>5, <3>1 DEF SectionInv
      <4>. QED BY <4>1, <4>2, <4>3
    <3>2. CASE "heading" \in Begins(e)
      <4>1. e.name = "head" /\ InASection /\ "heading" \notin known'
        BY <1>5, <1>6, <3>2
      <4>2. PICK i \in DOMAIN path : OutermostDiv(path, i)
        BY <4>1 DEF SectionInv, InSection
      <4>3. i \in DOMAIN path' /\ i < n /\ OutermostDiv(path', i) /\ path'[n].name = "head"
        BY <1>1, <1>2, <1>3, <4>1, <4>2
      <4>. QED BY <1>3, <4>1, <4>3
    <3>. QED BY <1>5, <2>4, <3>1, <3>2
  <2>5. HeadingTexts' = HeadingTexts
    <3>1. CASE "heading" \in Begins(e)
      <4>1. "heading" \notin on
        BY <1>6, <3>1 DEF SectionInv, Within
      <4>2. section.heading = {}
        BY <1>6, <3>1 DEF SectionInv
      <4>3. buf'["heading"] = {}
        BY <1>4, <3>1
      <4>. QED BY <2>1, <4>1, <4>2, <4>3 DEF HeadingTexts
    <3>2. CASE "heading" \notin Begins(e)
      BY <1>4, <1>5, <2>1, <3>2 DEF HeadingTexts
    <3>. QED BY <3>1, <3>2
  <2>6. "heading" \notin known' => section'.heading = {}
    BY <1>5, <2>1 DEF SectionInv
  <2>7. ASSUME InASection
        PROVE  /\ HeadingTexts' \cup buf'["text"] = {k \in DOMAIN said' : InSection(said'[k], section'.of)}
               /\ HeadingTexts' \cap buf'["text"] = {}
    BY <1>1, <2>1, <2>5, <2>7 DEF SectionInv
  <2>. QED BY <2>1, <2>2, <2>3, <2>4, <2>6, <2>7 DEF SectionInv
<1>. QED BY <1>7, <1>8

LEMMA SectionsStart ==
  ASSUME TeiTypes, PathInv, SectionInv, SectionsKept,
         NEW e \in [name : DOMAIN grammar, marked : BOOLEAN], e.name \in STRING, HandleStart(e)
  PROVE  SectionsKept'
<1>1. /\ elements' = elements + 1 /\ elements \in Nat /\ said' = said /\ sections' = sections
  BY StartPath DEF TeiTypes, HandleStart
<1>2. /\ section'.of = IF BeginsSection(e) THEN elements + 1 ELSE section.of
      /\ BeginsSection(e) => section.of = 0
  <2>1. [NoSection EXCEPT !.of = elements + 1] = [of |-> elements + 1, heading |-> {}]
    BY DEF NoSection
  <2>2. section' = IF BeginsSection(e) THEN [of |-> elements + 1, heading |-> {}] ELSE section
    BY <2>1 DEF HandleStart
  <2>. QED BY <2>2 DEF BeginsSection, InASection
<1>3. \A k \in DOMAIN sections : sections[k].of \in Nat
  BY NumbersOfParts
<1>4. ASSUME NEW k \in DOMAIN sections'
      PROVE  sections'[k].of =< elements' /\ (InASection' => sections'[k].of < section'.of)
  <2>1. k \in DOMAIN sections /\ sections'[k] = sections[k] /\ sections[k].of \in Nat
    BY <1>1, <1>3
  <2>2. sections[k].of =< elements /\ (section.of # 0 => sections[k].of < section.of)
    BY <2>1 DEF SectionsKept, InASection
  <2>3. sections[k].of =< elements'
    BY <1>1, <2>1, <2>2
  <2>4. CASE BeginsSection(e)
    BY <1>1, <1>2, <2>1, <2>2, <2>3, <2>4
  <2>5. CASE ~BeginsSection(e)
    BY <1>2, <2>1, <2>2, <2>3, <2>5 DEF InASection
  <2>. QED BY <2>4, <2>5
<1>5. ASSUME NEW k \in DOMAIN said', NEW i \in DOMAIN said'[k], OutermostDiv(said'[k], i)
      PROVE  said'[k][i].at = section'.of \/ \E l \in DOMAIN sections' : sections'[l].of = said'[k][i].at
  <2>1. said[k][i].at # 0
    BY <1>1 DEF PathInv
  <2>. QED BY <1>1, <1>2, <1>5, <2>1 DEF SectionsKept
<1>. QED BY <1>1, <1>4, <1>5 DEF SectionsKept

-----------------------------------------------------------------------------
LEMMA SectionEnd ==
  ASSUME TeiTypes, PathInv, SectionInv, path # <<>>, HandleEnd(path[Len(path)].name)
  PROVE  SectionInv'
<1>. DEFINE n == Len(path)  name == path[n].name
<1>1. /\ n \in Nat \ {0} /\ DOMAIN path = 1..n /\ DOMAIN path' = 1..(n - 1)
      /\ \A i \in 1..(n - 1) : path'[i] = path[i]
      /\ said' = said /\ buf' = buf
  BY EndPath
<1>2. \A i \in DOMAIN path' : /\ OutermostDiv(path', i) <=> OutermostDiv(path, i)
                              /\ InBody(path', i) <=> InBody(path, i)
  BY PlacesEnd
<1>3. EndsSection(name) <=> InASection /\ OutermostDiv(path, n)
  BY SectionEnds
<1>4. /\ "heading" \in on' <=> "heading" \in on /\ name # "head" /\ ~EndsSection(name)
      /\ "heading" \in known' <=> ("heading" \in known \/ ("heading" \in on /\ name = "head")) /\ ~EndsSection(name)
      /\ EndsSection(name) => section' = NoSection
      /\ ~EndsSection(name) /\ "heading" \in on /\ name = "head" =>
           section' = [section EXCEPT !.heading = buf["heading"]]
      /\ ~EndsSection(name) /\ ~("heading" \in on /\ name = "head") => section' = section
  <2>1. "heading" \in SlotsOf(name) <=> name = "head"
    BY DEF SlotsOf
  <2>. HIDE DEF name
  <2>2. on' = on \ (SlotsOf(name) \cup (IF EndsSection(name) THEN {"heading"} ELSE {})
                     \cup (IF name = "biblStruct" THEN {"refTitle", "refDoi"} ELSE {}))
    BY DEF HandleEnd, name
  <2>3. known' = (known \cup (on \cap SlotsOf(name)))
                   \ ((IF EndsSection(name) THEN {"heading"} ELSE {})
                        \cup (IF name = "biblStruct" THEN {"refTitle"} ELSE {}))
    BY DEF HandleEnd, name
  <2>4. section' = CASE EndsSection(name) -> NoSection
                     [] "heading" \in on \cap SlotsOf(name) -> [section EXCEPT !.heading = buf["heading"]]
                     [] OTHER -> section
    BY DEF HandleEnd, name
  <2>5. EndsSection(name) => name # "head"
    BY DEF EndsSection
  <2>6. "heading" \in on' <=> "heading" \in on /\ name # "head" /\ ~EndsSection(name)
    BY <2>1, <2>2
  <2>7. "heading" \in known' <=> ("heading" \in known \/ ("heading" \in on /\ name = "head")) /\ ~EndsSection(name)
    BY <2>1, <2>3
  <2>8. EndsSection(name) => section' = NoSection
    BY <2>1, <2>4, <2>5
  <2>9. /\ ~EndsSection(name) /\ "heading" \in on /\ name = "head" =>
             section' = [section EXCEPT !.heading = buf["heading"]]
        /\ ~EndsSection(name) /\ ~("heading" \in on /\ name = "head") => section' = section
    BY <2>1, <2>4
  <2>. QED BY <2>6, <2>7, <2>8, <2>9
<1>. HIDE DEF n
<1>5. /\ \A i \in DOMAIN path' : i \in DOMAIN path /\ i < n /\ path'[i] = path[i]
      /\ \A i \in DOMAIN path : i \in DOMAIN path' \/ i = n
      /\ n \in DOMAIN path
  BY <1>1
<1>6. CASE EndsSection(name)
  <2>1. section' = NoSection /\ ~InASection' /\ section'.heading = {}
    <3>1. name # "head"
      BY <1>6 DEF EndsSection
    <3>2. section' = NoSection
      BY <1>4, <1>6, <3>1
    <3>. QED BY <3>2 DEF NoSection, InASection
  <2>2. ASSUME NEW i \in DOMAIN path', path'[i].name = "div" PROVE ~InBody(path', i)
    <3>1. i \in 1..(n - 1)
      BY <1>1
    <3>. QED BY <1>2, <1>3, <1>5, <1>6, <2>2, <3>1 DEF OutermostDiv
  <2>3. "heading" \notin on'
    BY <1>4, <1>6
  <2>. QED BY <2>1, <2>2, <2>3 DEF SectionInv
<1>7. CASE ~EndsSection(name)
  <2>1. section'.of = section.of /\ (InASection' <=> InASection)
    BY <1>4, <1>7 DEF TeiTypes, InASection
  <2>2. ASSUME InASection PROVE InSection(path', section'.of)
    <3>1. PICK i \in DOMAIN path : path[i].at = section.of /\ OutermostDiv(path, i)
      BY <2>2 DEF SectionInv, InSection
    <3>2. i \in DOMAIN path'
      BY <1>3, <1>5, <1>7, <2>2, <3>1
    <3>. QED BY <1>2, <1>5, <2>1, <3>1, <3>2 DEF InSection
  <2>3. ASSUME ~InASection, NEW i \in DOMAIN path', path'[i].name = "div"
        PROVE  ~InBody(path', i)
    BY <1>2, <1>5, <2>3 DEF SectionInv
  <2>4. ASSUME "heading" \in on'
        PROVE  /\ InASection /\ "heading" \notin known'
               /\ \E i, j \in DOMAIN path' : i < j /\ OutermostDiv(path', i) /\ path'[j].name = "head"
    <3>1. "heading" \in on /\ name # "head"
      BY <1>4, <2>4
    <3>2. PICK i, j \in DOMAIN path : i < j /\ OutermostDiv(path, i) /\ path[j].name = "head"
      BY <3>1 DEF SectionInv
    <3>3. j # n
      BY <3>1, <3>2
    <3>4. j \in DOMAIN path' /\ i \in DOMAIN path'
      BY <1>1, <3>2, <3>3
    <3>5. OutermostDiv(path', i) /\ path'[j].name = "head"
      BY <1>2, <1>5, <3>2, <3>4
    <3>6. InASection /\ "heading" \notin known'
      BY <1>4, <3>1 DEF SectionInv
    <3>. QED BY <3>2, <3>4, <3>5, <3>6
  <2>5. ("heading" \notin known' => section'.heading = {}) /\ HeadingTexts' = HeadingTexts
    <3>1. CASE "heading" \in on /\ name = "head"
      <4>1. section' = [section EXCEPT !.heading = buf["heading"]]
        BY <1>4, <1>7, <3>1
      <4>2. section'.heading = buf["heading"]
        BY <4>1 DEF TeiTypes
      <4>3. section.heading = {}
        BY <3>1 DEF SectionInv
      <4>4. "heading" \notin on' /\ "heading" \in known'
        BY <1>4, <1>7, <3>1
      <4>. QED BY <1>1, <3>1, <4>2, <4>3, <4>4 DEF HeadingTexts
    <3>2. CASE ~("heading" \in on /\ name = "head")
      <4>. HIDE DEF name
      <4>1. section' = section /\ ("heading" \in on' <=> "heading" \in on)
              /\ ("heading" \in known' <=> "heading" \in known)
        BY <1>4, <1>7, <3>2
      <4>. QED BY <1>1, <4>1 DEF HeadingTexts, SectionInv
    <3>. QED BY <3>1, <3>2
  <2>6. ASSUME InASection
        PROVE  /\ HeadingTexts' \cup buf'["text"] = {k \in DOMAIN said' : InSection(said'[k], section'.of)}
               /\ HeadingTexts' \cap buf'["text"] = {}
    BY <1>1, <2>1, <2>5, <2>6 DEF SectionInv
  <2>. QED BY <2>1, <2>2, <2>3, <2>4, <2>5, <2>6 DEF SectionInv
<1>. QED BY <1>6, <1>7

LEMMA SectionsEnd ==
  ASSUME TeiTypes, PathInv, SectionInv, SectionsKept, path # <<>>, HandleEnd(path[Len(path)].name)
  PROVE  SectionsKept'
<1>. DEFINE n == Len(path)  name == path[n].name
<1>1. /\ n \in Nat \ {0} /\ DOMAIN path = 1..n
      /\ said' = said /\ buf' = buf /\ elements' = elements
  BY EndPath
<1>2. EndsSection(name) <=> InASection /\ OutermostDiv(path, n)
  BY SectionEnds
<1>3. /\ sections' = IF EndsSection(name) THEN FinalizeSection ELSE sections
      /\ EndsSection(name) => section' = NoSection
      /\ ~EndsSection(name) => section'.of = section.of
  <2>1. "heading" \in SlotsOf(name) <=> name = "head"
    BY DEF SlotsOf
  <2>2. EndsSection(name) => name # "head"
    BY DEF EndsSection
  <2>3. section' = CASE EndsSection(name) -> NoSection
                     [] "heading" \in on \cap SlotsOf(name) -> [section EXCEPT !.heading = buf["heading"]]
                     [] OTHER -> section
    BY DEF HandleEnd
  <2>4. [section EXCEPT !.heading = buf["heading"]].of = section.of
    BY DEF TeiTypes
  <2>5. sections' = IF EndsSection(name) THEN FinalizeSection ELSE sections
    BY DEF HandleEnd
  <2>. HIDE DEF name
  <2>. QED BY <2>1, <2>2, <2>3, <2>4, <2>5
<1>. HIDE DEF n
<1>4. CASE ~EndsSection(name)
  BY <1>1, <1>3, <1>4 DEF SectionsKept, InASection
<1>5. CASE EndsSection(name)
  <2>. DEFINE m == Len(sections) + 1
              last == [of |-> section.of, heading |-> section.heading, text |-> buf["text"]]
  <2>1. /\ m \in Nat /\ DOMAIN sections = 1..Len(sections) /\ DOMAIN sections' = 1..m
        /\ \A k \in DOMAIN sections : k < m /\ sections'[k] = sections[k] /\ k \in DOMAIN sections'
        /\ sections'[m] = last
    BY <1>3, <1>5 DEF TeiTypes, FinalizeSection
  <2>2. ~InASection' /\ InASection
    BY <1>2, <1>3, <1>5 DEF InASection, NoSection
  <2>3. "heading" \notin on
    <3>1. ASSUME NEW i \in DOMAIN path, NEW j \in DOMAIN path, i < j, OutermostDiv(path, i), path[j].name = "head"
          PROVE  FALSE
      <4>1. i = n
        <5>1. n \in DOMAIN path /\ OutermostDiv(path, n)
          BY <1>1, <1>2, <1>5
        <5>. QED BY <3>1, <5>1, OneOutermost DEF TeiTypes
      <4>. QED BY <1>1, <3>1, <4>1
    <3>. QED BY <3>1 DEF SectionInv
  <2>4. /\ last.heading \cup last.text = {k \in DOMAIN said : InSection(said[k], last.of)}
        /\ last.heading \cap last.text = {}
    BY <2>2, <2>3 DEF SectionInv, HeadingTexts
  <2>5. last.of =< elements /\ last.of \in Nat /\ elements \in Nat
    <3>1. PICK i \in DOMAIN path : path[i].at = section.of
      BY <2>2 DEF SectionInv, InSection
    <3>2. section.of \in 1..elements /\ elements \in Nat
      BY <3>1 DEF PathInv, TeiTypes
    <3>. QED BY <3>2
  <2>6. \A k \in DOMAIN sections : sections[k].of < last.of /\ sections[k].of \in Nat
    BY <2>2, NumbersOfParts DEF SectionsKept
  <2>. HIDE DEF m, last
  <2>7. m \in DOMAIN sections' /\ \A k \in DOMAIN sections' : k \in DOMAIN sections \/ k = m
    BY <2>1 DEF m
  <2>8. ASSUME NEW k \in DOMAIN sections'
        PROVE  /\ sections'[k].heading \cup sections'[k].text
                    = {i \in DOMAIN said' : InSection(said'[i], sections'[k].of)}
               /\ sections'[k].heading \cap sections'[k].text = {}
               /\ sections'[k].of =< elements'
    <3>1. CASE k \in DOMAIN sections
      BY <1>1, <2>1, <3>1 DEF SectionsKept
    <3>2. CASE k = m
      BY <1>1, <2>1, <2>4, <2>5, <3>2
    <3>. QED BY <2>7, <3>1, <3>2
  <2>9. \A k, l \in DOMAIN sections' : k < l => sections'[k].of < sections'[l].of
    <3>. SUFFICES ASSUME NEW k \in DOMAIN sections', NEW l \in DOMAIN sections', k < l
                  PROVE  sections'[k].of < sections'[l].of
      OBVIOUS
    <3>1. k \in DOMAIN sections
      BY <2>1, <2>7
    <3>2. CASE l \in DOMAIN sections
      BY <2>1, <3>1, <3>2 DEF SectionsKept
    <3>3. CASE l = m
      BY <2>1, <2>6, <3>1, <3>3
    <3>. QED BY <2>7, <3>2, <3>3
  <2>10. ASSUME NEW k \in DOMAIN said', NEW i \in DOMAIN said'[k], OutermostDiv(said'[k], i)
         PROVE  \E l \in DOMAIN sections' : sections'[l].of = said'[k][i].at
    <3>1. CASE said[k][i].at = section.of
      BY <1>1, <2>1, <2>7, <3>1 DEF last
    <3>2. CASE \E l \in DOMAIN sections : sections[l].of = said[k][i].at
      BY <1>1, <2>1, <3>2
    <3>. QED BY <1>1, <2>10, <3>1, <3>2 DEF SectionsKept
  <2>. QED BY <2>2, <2>8, <2>9, <2>10 DEF SectionsKept
<1>. QED BY <1>4, <1>5

-----------------------------------------------------------------------------
LEMMA SectionText ==
  ASSUME TeiTypes, PathInv, SectionInv, HandleText
  PROVE  SectionInv'
<1>. DEFINE n == Len(said) + 1
<1>1. /\ n \notin DOMAIN said /\ DOMAIN said' = DOMAIN said \cup {n}
      /\ \A k \in DOMAIN said : said'[k] = said[k]
      /\ said'[n] = path /\ path' = path
  BY TextPath
<1>2. section' = section /\ on' = on /\ known' = known
  BY DEF HandleText, parts
<1>3. /\ buf'["text"] = IF InASection /\ "heading" \notin on THEN buf["text"] \cup {n} ELSE buf["text"]
      /\ "heading" \in on => buf'["heading"] = buf["heading"] \cup {n}
  BY DEF HandleText, Hears, TeiTypes, Slots
<1>. HIDE DEF n
<1>4. /\ InASection' <=> InASection
      /\ InASection => InSection(path', section'.of)
      /\ ~InASection => \A i \in DOMAIN path' : path'[i].name = "div" => ~InBody(path', i)
      /\ "heading" \in on' =>
           /\ InASection /\ "heading" \notin known'
           /\ \E i, j \in DOMAIN path' : i < j /\ OutermostDiv(path', i) /\ path'[j].name = "head"
      /\ "heading" \notin known' => section'.heading = {}
  BY <1>1, <1>2 DEF SectionInv, InASection
<1>5. ASSUME InASection
      PROVE  /\ HeadingTexts' \cup buf'["text"] = {k \in DOMAIN said' : InSection(said'[k], section'.of)}
             /\ HeadingTexts' \cap buf'["text"] = {}
  <2>1. /\ HeadingTexts \cup buf["text"] = {k \in DOMAIN said : InSection(said[k], section.of)}
        /\ HeadingTexts \cap buf["text"] = {}
    BY <1>5 DEF SectionInv
  <2>2. n \notin HeadingTexts /\ n \notin buf["text"]
    BY <1>1, <2>1
  <2>3. InSection(said'[n], section'.of)
    BY <1>1, <1>2, <1>5 DEF SectionInv
  <2>4. {k \in DOMAIN said' : InSection(said'[k], section'.of)}
          = {k \in DOMAIN said : InSection(said[k], section.of)} \cup {n}
    BY <1>1, <1>2, <2>3
  <2>5. CASE "heading" \in on
    <3>1. HeadingTexts' = HeadingTexts \cup {n} /\ buf'["text"] = buf["text"]
      BY <1>2, <1>3, <2>5 DEF HeadingTexts
    <3>. QED BY <2>1, <2>2, <2>4, <3>1
  <2>6. CASE "heading" \notin on
    <3>1. HeadingTexts' = HeadingTexts /\ buf'["text"] = buf["text"] \cup {n}
      BY <1>2, <1>3, <1>5, <2>6 DEF HeadingTexts
    <3>. QED BY <2>1, <2>2, <2>4, <3>1
  <2>. QED BY <2>5, <2>6
<1>. QED BY <1>4, <1>5 DEF SectionInv

LEMMA SectionsText ==
  ASSUME TeiTypes, PathInv, SectionInv, SectionsKept, HandleText
  PROVE  SectionsKept'
<1>. DEFINE n == Len(said) + 1
<1>1. /\ n \notin DOMAIN said /\ DOMAIN said' = DOMAIN said \cup {n}
      /\ \A k \in DOMAIN said : said'[k] = said[k]
      /\ said'[n] = path
  BY TextPath
<1>2. section' = section /\ sections' = sections /\ elements' = elements
  BY DEF HandleText, parts
<1>. HIDE DEF n
<1>3. \A i \in DOMAIN path : OutermostDiv(path, i) => InASection /\ path[i].at = section.of
  <2>. SUFFICES ASSUME NEW i \in DOMAIN path, OutermostDiv(path, i)
                PROVE  InASection /\ path[i].at = section.of
    OBVIOUS
  <2>1. InASection
    BY DEF SectionInv, OutermostDiv
  <2>2. PICK j \in DOMAIN path : path[j].at = section.of /\ OutermostDiv(path, j)
    BY <2>1 DEF SectionInv, InSection
  <2>3. i = j
    BY <2>2, OneOutermost DEF TeiTypes
  <2>. QED BY <2>1, <2>2, <2>3
<1>4. ASSUME NEW k \in DOMAIN sections
      PROVE  {i \in DOMAIN said' : InSection(said'[i], sections[k].of)}
               = {i \in DOMAIN said : InSection(said[i], sections[k].of)}
  <2>1. sections[k].of \in Nat /\ section.of \in Nat
    BY NumbersOfParts
  <2>a. InASection => sections[k].of < section.of
    BY DEF SectionsKept
  <2>2. InASection => sections[k].of # section.of
    BY <2>1, <2>a
  <2>3. ~InSection(path, sections[k].of)
    BY <1>3, <2>2 DEF InSection
  <2>. QED BY <1>1, <2>3
<1>5. \A k \in DOMAIN said' : \A i \in DOMAIN said'[k] : OutermostDiv(said'[k], i) =>
        said'[k][i].at = section'.of \/ \E l \in DOMAIN sections' : sections'[l].of = said'[k][i].at
  BY <1>1, <1>2, <1>3 DEF SectionsKept
<1>6. InASection' <=> InASection
  BY <1>2 DEF InASection
<1>. QED BY <1>2, <1>4, <1>5, <1>6 DEF SectionsKept

-----------------------------------------------------------------------------
(* A biblStruct of the list is the only one that is open.                  *)
LEMMA OneOfList ==
  ASSUME TeiTypes, PathInv, NEW i \in DOMAIN path, NEW j \in DOMAIN path, OfList(path, i),
         path[j].name = "biblStruct"
  PROVE  i = j
BY DEF OfList, PathInv

LEMMA ReferenceStart ==
  ASSUME TeiTypes, PathInv, ReferenceInv,
         NEW e \in [name : DOMAIN grammar, marked : BOOLEAN], e.name \in STRING, HandleStart(e)
  PROVE  ReferenceInv'
<1>. DEFINE n == Len(path) + 1
<1>1. /\ elements' = elements + 1 /\ elements \in Nat /\ Len(path) \in Nat
      /\ DOMAIN path = 1..Len(path) /\ DOMAIN path' = 1..n
      /\ \A i \in 1..Len(path) : path'[i] = path[i]
      /\ path'[n].name = e.name /\ path'[n].at = elements + 1
      /\ said' = said
  BY StartPath DEF TeiTypes
<1>2. /\ \A i \in DOMAIN path : OfList(path', i) <=> OfList(path, i)
      /\ OfList(path', n) <=> BeginsReference(e)
  BY PlacesStart
<1>. HIDE DEF n
<1>3. /\ \A i \in DOMAIN path' : i \in DOMAIN path \/ i = n
      /\ \A i \in DOMAIN path : i \in DOMAIN path' /\ path'[i] = path[i]
      /\ n \in DOMAIN path'
  BY <1>1 DEF n
<1>4. /\ buf'["raw"] = IF "raw" \in Cleared(e) THEN {} ELSE buf["raw"]
      /\ "raw" \in Cleared(e) <=> BeginsReference(e)
  BY DEF HandleStart, Slots, Cleared, Begins
<1>5. /\ BeginsReference(e) => reference'.of = elements + 1
      /\ ~BeginsReference(e) => reference'.of = reference.of
  <2>1. [NoReference EXCEPT !.of = elements + 1].of = elements + 1
    BY DEF NoReference
  <2>2. [reference EXCEPT !.year = elements + 1].of = reference.of
    BY DEF TeiTypes
  <2>. QED BY <2>1, <2>2 DEF HandleStart
<1>6. CASE BeginsReference(e)
  <2>1. InAReference' /\ reference'.of = elements + 1
    BY <1>1, <1>5, <1>6 DEF InAReference
  <2>2. InReference(path', reference'.of)
    BY <1>1, <1>2, <1>3, <1>6, <2>1 DEF InReference
  <2>3. \A k \in DOMAIN said' : ~InReference(said'[k], reference'.of)
    <3>1. \A k \in DOMAIN said : \A i \in DOMAIN said[k] : said[k][i].at # elements + 1
      BY <1>1 DEF PathInv
    <3>. QED BY <1>1, <2>1, <3>1 DEF InReference
  <2>4. buf'["raw"] = {k \in DOMAIN said' : InReference(said'[k], reference'.of)}
    BY <1>4, <1>6, <2>3
  <2>. QED BY <2>1, <2>2, <2>4 DEF ReferenceInv
<1>7. CASE ~BeginsReference(e)
  <2>1. (InAReference' <=> InAReference) /\ reference'.of = reference.of /\ buf'["raw"] = buf["raw"]
    BY <1>4, <1>5, <1>7 DEF InAReference
  <2>2. ASSUME InAReference PROVE InReference(path', reference'.of)
    BY <1>2, <1>3, <2>1, <2>2 DEF ReferenceInv, InReference
  <2>3. ASSUME ~InAReference, NEW i \in DOMAIN path' PROVE ~OfList(path', i)
    BY <1>2, <1>3, <1>7, <2>3 DEF ReferenceInv
  <2>. QED BY <1>1, <2>1, <2>2, <2>3 DEF ReferenceInv
<1>. QED BY <1>6, <1>7

LEMMA ReferencesStart ==
  ASSUME TeiTypes, PathInv, ReferenceInv, ReferencesKept,
         NEW e \in [name : DOMAIN grammar, marked : BOOLEAN], e.name \in STRING,
         e.name \notin {"div", "p"} => ~Within(e.name), HandleStart(e)
  PROVE  ReferencesKept'
<1>1. /\ elements' = elements + 1 /\ elements \in Nat /\ said' = said /\ references' = references
  BY StartPath DEF TeiTypes, HandleStart
<1>2. /\ BeginsReference(e) => reference'.of = elements + 1 /\ reference.of = 0
      /\ ~BeginsReference(e) => reference'.of = reference.of
  <2>1. [NoReference EXCEPT !.of = elements + 1].of = elements + 1
    BY DEF NoReference
  <2>2. [reference EXCEPT !.year = elements + 1].of = reference.of
    BY DEF TeiTypes
  <2>3. ASSUME BeginsReference(e), InAReference PROVE FALSE
    <3>1. e.name = "biblStruct" /\ ~Within("biblStruct")
      BY <2>3 DEF BeginsReference
    <3>2. \E i \in DOMAIN path : path[i].name = "biblStruct"
      BY <2>3 DEF ReferenceInv, InReference, OfList
    <3>. QED BY <3>1, <3>2 DEF Within
  <2>. QED BY <2>1, <2>2, <2>3 DEF HandleStart, InAReference
<1>3. \A k \in DOMAIN references : references[k].of \in Nat
  BY NumbersOfParts
<1>4. ASSUME NEW k \in DOMAIN references'
      PROVE  references'[k].of =< elements' /\ (InAReference' => references'[k].of < reference'.of)
  <2>1. k \in DOMAIN references /\ references'[k] = references[k] /\ references[k].of \in Nat
    BY <1>1, <1>3
  <2>2. references[k].of =< elements /\ (reference.of # 0 => references[k].of < reference.of)
    BY <2>1 DEF ReferencesKept, InAReference
  <2>3. references[k].of =< elements'
    BY <1>1, <2>1, <2>2
  <2>4. CASE BeginsReference(e)
    BY <1>1, <1>2, <2>1, <2>2, <2>3, <2>4
  <2>5. CASE ~BeginsReference(e)
    BY <1>2, <2>1, <2>2, <2>3, <2>5 DEF InAReference
  <2>. QED BY <2>4, <2>5
<1>5. ASSUME NEW k \in DOMAIN said', NEW i \in DOMAIN said'[k], OfList(said'[k], i)
      PROVE  said'[k][i].at = reference'.of \/ \E l \in DOMAIN references' : references'[l].of = said'[k][i].at
  <2>1. said[k][i].at # 0
    BY <1>1 DEF PathInv
  <2>. QED BY <1>1, <1>2, <1>5, <2>1 DEF ReferencesKept
<1>. QED BY <1>1, <1>4, <1>5 DEF ReferencesKept

(* The end of a biblStruct ends the reference at hand, and nothing else    *)
(* does.                                                                   *)
LEMMA ReferenceAfterEnd ==
  ASSUME TeiTypes, path # <<>>, NEW name, HandleEnd(name)
  PROVE  /\ name = "biblStruct" => reference'.of = 0
         /\ name # "biblStruct" => reference'.of = reference.of
<1>1. NoReference.of = 0
  BY DEF NoReference
<1>2. /\ [reference EXCEPT !.title = buf["refTitle"]].of = reference.of
      /\ [reference EXCEPT !.doi = buf["refDoi"]].of = reference.of
      /\ [reference EXCEPT !.authors = Append(@, person.forenames \cup person.surname)].of = reference.of
  BY DEF TeiTypes
<1>3. name = "biblStruct" => reference' = NoReference
  BY DEF HandleEnd, SlotsOf
<1>4. name # "biblStruct" =>
        \/ reference' = [reference EXCEPT !.title = buf["refTitle"]]
        \/ reference' = [reference EXCEPT !.doi = buf["refDoi"]]
        \/ reference' = [reference EXCEPT !.authors = Append(@, person.forenames \cup person.surname)]
        \/ reference' = reference
  BY DEF HandleEnd
<1>. QED BY <1>1, <1>2, <1>3, <1>4

LEMMA ReferenceEnd ==
  ASSUME TeiTypes, PathInv, ReferenceInv, path # <<>>, HandleEnd(path[Len(path)].name)
  PROVE  ReferenceInv'
<1>. DEFINE n == Len(path)  name == path[n].name
<1>1. /\ n \in Nat \ {0} /\ DOMAIN path = 1..n /\ DOMAIN path' = 1..(n - 1)
      /\ \A i \in 1..(n - 1) : path'[i] = path[i]
      /\ said' = said /\ buf' = buf
  BY EndPath
<1>2. \A i \in DOMAIN path' : OfList(path', i) <=> OfList(path, i)
  BY PlacesEnd
<1>3. /\ name = "biblStruct" => reference'.of = 0
      /\ name # "biblStruct" => reference'.of = reference.of
  BY ReferenceAfterEnd
<1>. HIDE DEF n
<1>4. /\ \A i \in DOMAIN path' : i \in DOMAIN path /\ i # n /\ path'[i] = path[i]
      /\ \A i \in DOMAIN path : i \in DOMAIN path' \/ i = n
      /\ n \in DOMAIN path
  BY <1>1
<1>5. CASE name = "biblStruct"
  <2>1. ~InAReference'
    BY <1>3, <1>5 DEF InAReference
  <2>2. ASSUME NEW i \in DOMAIN path', OfList(path', i) PROVE FALSE
    <3>1. OfList(path, i) /\ i \in DOMAIN path /\ i # n
      BY <1>2, <1>4, <2>2
    <3>. QED BY <1>4, <1>5, <3>1, OneOfList
  <2>. QED BY <2>1, <2>2 DEF ReferenceInv
<1>6. CASE name # "biblStruct"
  <2>1. (InAReference' <=> InAReference) /\ reference'.of = reference.of
    BY <1>3, <1>6 DEF InAReference
  <2>2. ASSUME InAReference PROVE InReference(path', reference'.of)
    <3>1. PICK i \in DOMAIN path : path[i].at = reference.of /\ OfList(path, i)
      BY <2>2 DEF ReferenceInv, InReference
    <3>2. i \in DOMAIN path'
      BY <1>4, <1>6, <3>1 DEF OfList
    <3>. QED BY <1>2, <1>4, <2>1, <3>1, <3>2 DEF InReference
  <2>3. ASSUME ~InAReference, NEW i \in DOMAIN path' PROVE ~OfList(path', i)
    BY <1>2, <1>4, <2>3 DEF ReferenceInv
  <2>. QED BY <1>1, <2>1, <2>2, <2>3 DEF ReferenceInv
<1>. QED BY <1>5, <1>6

LEMMA ReferencesEnd ==
  ASSUME TeiTypes, PathInv, ReferenceInv, ReferencesKept, path # <<>>, HandleEnd(path[Len(path)].name)
  PROVE  ReferencesKept'
<1>. DEFINE name == path[Len(path)].name
            ends == name = "biblStruct" /\ InAReference
            last == [of |-> reference.of, raw |-> buf["raw"], title |-> reference.title,
                     doi |-> reference.doi, year |-> reference.year, authors |-> reference.authors]
<1>1. said' = said /\ elements' = elements
  BY EndPath
<1>2. /\ name = "biblStruct" => reference'.of = 0
      /\ name # "biblStruct" => reference'.of = reference.of
  BY ReferenceAfterEnd
<1>3. references' = IF ends THEN Append(references, last) ELSE references
  BY DEF HandleEnd
<1>4. CASE ~ends
  <2>1. references' = references /\ reference'.of = reference.of
    BY <1>2, <1>3, <1>4 DEF InAReference
  <2>. QED BY <1>1, <2>1 DEF ReferencesKept, InAReference
<1>5. CASE ends
  <2>. DEFINE m == Len(references) + 1
  <2>1. ~InAReference' /\ InAReference
    BY <1>2, <1>5 DEF InAReference
  <2>2. /\ m \in Nat /\ DOMAIN references = 1..Len(references) /\ DOMAIN references' = 1..m
        /\ \A k \in DOMAIN references : k < m /\ references'[k] = references[k] /\ k \in DOMAIN references'
        /\ references'[m] = last
    <3>1. references' = Append(references, last)
      BY <1>3, <1>5
    <3>. DEFINE R == [of : Nat, raw : SUBSET Nat, title : SUBSET Nat, doi : SUBSET Nat, year : Nat,
                      authors : Seq(SUBSET Nat)]
    <3>2. references \in Seq(R)
      BY DEF TeiTypes
    <3>. HIDE DEF last, R
    <3>3. Len(references) \in Nat /\ DOMAIN references = 1..Len(references)
      BY <3>2
    <3>. QED BY <3>1, <3>2, <3>3
  <2>3. last.of = reference.of /\ last.raw = {k \in DOMAIN said : InReference(said[k], last.of)}
    BY <2>1 DEF ReferenceInv
  <2>4. last.of =< elements /\ last.of \in Nat /\ elements \in Nat
    <3>1. PICK i \in DOMAIN path : path[i].at = reference.of
      BY <2>1 DEF ReferenceInv, InReference
    <3>2. reference.of \in 1..elements /\ elements \in Nat
      BY <3>1 DEF PathInv, TeiTypes
    <3>. QED BY <3>2
  <2>5. \A k \in DOMAIN references : references[k].of < last.of /\ references[k].of \in Nat
    BY <2>1, NumbersOfParts DEF ReferencesKept
  <2>. HIDE DEF m, last
  <2>6. m \in DOMAIN references' /\ \A k \in DOMAIN references' : k \in DOMAIN references \/ k = m
    BY <2>2 DEF m
  <2>7. ASSUME NEW k \in DOMAIN references'
        PROVE  /\ references'[k].raw = {i \in DOMAIN said' : InReference(said'[i], references'[k].of)}
               /\ references'[k].of =< elements'
    <3>1. CASE k \in DOMAIN references
      BY <1>1, <2>2, <3>1 DEF ReferencesKept
    <3>2. CASE k = m
      BY <1>1, <2>2, <2>3, <2>4, <3>2
    <3>. QED BY <2>6, <3>1, <3>2
  <2>8. \A k, l \in DOMAIN references' : k < l => references'[k].of < references'[l].of
    <3>. SUFFICES ASSUME NEW k \in DOMAIN references', NEW l \in DOMAIN references', k < l
                  PROVE  references'[k].of < references'[l].of
      OBVIOUS
    <3>1. k \in DOMAIN references
      BY <2>2, <2>6
    <3>2. CASE l \in DOMAIN references
      BY <2>2, <3>1, <3>2 DEF ReferencesKept
    <3>3. CASE l = m
      BY <2>2, <2>5, <3>1, <3>3
    <3>. QED BY <2>6, <3>2, <3>3
  <2>9. ASSUME NEW k \in DOMAIN said', NEW i \in DOMAIN said'[k], OfList(said'[k], i)
        PROVE  \E l \in DOMAIN references' : references'[l].of = said'[k][i].at
    <3>1. CASE said[k][i].at = reference.of
      BY <1>1, <2>2, <2>3, <2>6, <3>1
    <3>2. CASE \E l \in DOMAIN references : references[l].of = said[k][i].at
      BY <1>1, <2>2, <3>2
    <3>. QED BY <1>1, <2>9, <3>1, <3>2 DEF ReferencesKept
  <2>. QED BY <2>1, <2>7, <2>8, <2>9 DEF ReferencesKept
<1>. QED BY <1>4, <1>5

LEMMA ReferenceText ==
  ASSUME TeiTypes, PathInv, ReferenceInv, HandleText
  PROVE  ReferenceInv'
<1>. DEFINE n == Len(said) + 1
<1>1. /\ n \notin DOMAIN said /\ DOMAIN said' = DOMAIN said \cup {n}
      /\ \A k \in DOMAIN said : said'[k] = said[k]
      /\ said'[n] = path /\ path' = path
  BY TextPath
<1>2. reference' = reference
  BY DEF HandleText, parts
<1>3. InAReference => buf'["raw"] = buf["raw"] \cup {n}
  BY DEF HandleText, Hears, TeiTypes, Slots
<1>. HIDE DEF n
<1>4. InAReference' <=> InAReference
  BY <1>2 DEF InAReference
<1>5. ASSUME InAReference
      PROVE  buf'["raw"] = {k \in DOMAIN said' : InReference(said'[k], reference'.of)}
  <2>1. InReference(said'[n], reference'.of)
    BY <1>1, <1>2, <1>5 DEF ReferenceInv
  <2>2. buf["raw"] = {k \in DOMAIN said : InReference(said[k], reference.of)}
    BY <1>5 DEF ReferenceInv
  <2>. QED BY <1>1, <1>2, <1>3, <1>5, <2>1, <2>2
<1>. QED BY <1>1, <1>2, <1>4, <1>5 DEF ReferenceInv

LEMMA ReferencesText ==
  ASSUME TeiTypes, PathInv, ReferenceInv, ReferencesKept, HandleText
  PROVE  ReferencesKept'
<1>. DEFINE n == Len(said) + 1
<1>1. /\ n \notin DOMAIN said /\ DOMAIN said' = DOMAIN said \cup {n}
      /\ \A k \in DOMAIN said : said'[k] = said[k]
      /\ said'[n] = path
  BY TextPath
<1>2. reference' = reference /\ references' = references /\ elements' = elements
  BY DEF HandleText, parts
<1>. HIDE DEF n
<1>3. \A i \in DOMAIN path : OfList(path, i) => InAReference /\ path[i].at = reference.of
  <2>. SUFFICES ASSUME NEW i \in DOMAIN path, OfList(path, i)
                PROVE  InAReference /\ path[i].at = reference.of
    OBVIOUS
  <2>1. InAReference
    BY DEF ReferenceInv
  <2>2. PICK j \in DOMAIN path : path[j].at = reference.of /\ OfList(path, j)
    BY <2>1 DEF ReferenceInv, InReference
  <2>3. i = j
    BY <2>2, OneOfList DEF OfList
  <2>. QED BY <2>1, <2>2, <2>3
<1>4. ASSUME NEW k \in DOMAIN references
      PROVE  {i \in DOMAIN said' : InReference(said'[i], references[k].of)}
               = {i \in DOMAIN said : InReference(said[i], references[k].of)}
  <2>1. references[k].of \in Nat /\ reference.of \in Nat
    BY NumbersOfParts
  <2>2. InAReference => references[k].of < reference.of
    BY DEF ReferencesKept
  <2>3. InAReference => references[k].of # reference.of
    BY <2>1, <2>2
  <2>4. ~InReference(path, references[k].of)
    BY <1>3, <2>3 DEF InReference
  <2>. QED BY <1>1, <2>4
<1>5. \A k \in DOMAIN said' : \A i \in DOMAIN said'[k] : OfList(said'[k], i) =>
        said'[k][i].at = reference'.of \/ \E l \in DOMAIN references' : references'[l].of = said'[k][i].at
  BY <1>1, <1>2, <1>3 DEF ReferencesKept
<1>6. InAReference' <=> InAReference
  BY <1>2 DEF InAReference
<1>. QED BY <1>2, <1>4, <1>5, <1>6 DEF ReferencesKept

-----------------------------------------------------------------------------
(* An element of the paper stays one of the paper while it is open.         *)
LEMMA OfPaperStart ==
  ASSUME TeiTypes, PathInv, NEW e \in [name : DOMAIN grammar, marked : BOOLEAN], e.name \in STRING,
         HandleStart(e), NEW name
  PROVE  /\ OfPaper(path, name) => OfPaper(path', name)
         /\ e.name = name /\ (\A i \in DOMAIN path : ~OfList(path, i)) => OfPaper(path', name)
<1>. DEFINE n == Len(path) + 1
<1>1. /\ Len(path) \in Nat /\ DOMAIN path = 1..Len(path) /\ DOMAIN path' = 1..n
      /\ \A i \in 1..Len(path) : path'[i] = path[i]
      /\ path'[n].name = e.name
  BY StartPath
<1>2. \A i \in DOMAIN path : OfList(path', i) <=> OfList(path, i)
  BY PlacesStart
<1>3. /\ n \in DOMAIN path' /\ \A i \in 1..(n - 1) : i \in DOMAIN path
      /\ \A i \in DOMAIN path : i \in DOMAIN path' /\ \A j \in 1..(i - 1) : j \in DOMAIN path
  BY <1>1
<1>. QED BY <1>1, <1>2, <1>3 DEF OfPaper

LEMMA OfPaperEnd ==
  ASSUME TeiTypes, path # <<>>, HandleEnd(path[Len(path)].name), NEW name, name # path[Len(path)].name,
         OfPaper(path, name)
  PROVE  OfPaper(path', name)
<1>1. /\ Len(path) \in Nat /\ DOMAIN path = 1..Len(path) /\ DOMAIN path' = 1..(Len(path) - 1)
      /\ \A i \in 1..(Len(path) - 1) : path'[i] = path[i]
  BY EndPath
<1>2. \A i \in DOMAIN path' : OfList(path', i) <=> OfList(path, i)
  BY PlacesEnd
<1>3. PICK i \in DOMAIN path : path[i].name = name /\ \A j \in 1..(i - 1) : ~OfList(path, j)
  BY DEF OfPaper
<1>4. i \in DOMAIN path' /\ path'[i].name = name /\ \A j \in 1..(i - 1) : j \in DOMAIN path'
  BY <1>1, <1>3
<1>. QED BY <1>2, <1>3, <1>4 DEF OfPaper

LEMMA TitleStart ==
  ASSUME TeiTypes, PathInv, ReferenceInv, TitleInv,
         NEW e \in [name : DOMAIN grammar, marked : BOOLEAN], e.name \in STRING, HandleStart(e)
  PROVE  TitleInv'
<1>1. said' = said /\ meta'.title = meta.title /\ meta'.doi = meta.doi
  BY DEF HandleStart, TeiTypes
<1>2. /\ buf'["title"] = IF "title" \in Begins(e) THEN {} ELSE buf["title"]
      /\ buf'["doi"] = IF "doi" \in Begins(e) THEN {} ELSE buf["doi"]
      /\ "title" \in on' <=> "title" \in on \/ "title" \in Begins(e)
      /\ "doi" \in on' <=> "doi" \in on \/ "doi" \in Begins(e)
  BY DEF HandleStart, Slots, Cleared
<1>3. "title" \in Begins(e) => e.name = "title" /\ "listBibl" \notin inside
  BY DEF Begins
<1>4. "doi" \in Begins(e) => e.name = "idno" /\ ~InAReference
  BY DEF Begins
<1>5. "listBibl" \notin inside => \A i \in DOMAIN path : ~OfList(path, i)
  <2>1. ASSUME NEW i \in DOMAIN path, OfList(path, i) PROVE Within("listBibl")
    <3>1. \A j \in 1..(i - 1) : j \in DOMAIN path
      BY DEF TeiTypes
    <3>. QED BY <2>1, <3>1 DEF OfList, Within
  <2>. QED BY <2>1 DEF PathInv
<1>6. "title" \in on' => OfPaper(path', "title")
  BY <1>2, <1>3, <1>5, OfPaperStart DEF TitleInv
<1>7. "doi" \in on' => OfPaper(path', "idno")
  BY <1>2, <1>4, OfPaperStart DEF TitleInv, ReferenceInv
<1>. QED BY <1>1, <1>2, <1>6, <1>7 DEF TitleInv, SaidOfPaper

LEMMA TitleEnd ==
  ASSUME TeiTypes, TitleInv, path # <<>>, HandleEnd(path[Len(path)].name)
  PROVE  TitleInv'
<1>. DEFINE name == path[Len(path)].name
<1>1. said' = said /\ buf' = buf
  BY EndPath
<1>2. /\ "title" \in SlotsOf(name) <=> name = "title"
      /\ "doi" \in SlotsOf(name) <=> name = "idno"
  BY DEF SlotsOf
<1>3. on' \subseteq on \ SlotsOf(name)
  BY DEF HandleEnd
<1>4. /\ "title" \in on' => "title" \in on /\ name # "title"
      /\ "doi" \in on' => "doi" \in on /\ name # "idno"
  BY <1>2, <1>3
<1>5. "title" \in on' => OfPaper(path', "title")
  BY <1>4, OfPaperEnd DEF TitleInv
<1>6. "doi" \in on' => OfPaper(path', "idno")
  BY <1>4, OfPaperEnd DEF TitleInv
<1>7. /\ meta'.title = meta.title \/ ("title" \in on /\ meta'.title = buf["title"])
      /\ meta'.doi = meta.doi \/ ("doi" \in on /\ meta'.doi = buf["doi"])
  <2>1. \/ "title" \in on /\ meta' = [meta EXCEPT !.title = buf["title"]]
        \/ "doi" \in on /\ meta' = [meta EXCEPT !.doi = buf["doi"]]
        \/ meta' = [meta EXCEPT !.authors = Append(@, person.forenames \cup person.surname)]
        \/ meta' = meta
    <3>. HIDE DEF name
    <3>1. meta' =
            CASE "title" \in on \cap SlotsOf(name) -> [meta EXCEPT !.title = buf["title"]]
              [] "doi" \in on \cap SlotsOf(name) -> [meta EXCEPT !.doi = buf["doi"]]
              [] name = "persName" /\ "persName" \in inside /\ Named
                   /\ ~InAReference /\ "analytic" \in inside ->
                   [meta EXCEPT !.authors = Append(@, person.forenames \cup person.surname)]
              [] OTHER -> meta
      BY DEF HandleEnd, name
    <3>. QED BY <3>1
  <2>. QED BY <2>1 DEF TeiTypes
<1>8. SaidOfPaper(meta.title, "title")' /\ SaidOfPaper(meta.doi, "idno")'
  BY <1>1, <1>7 DEF TitleInv, SaidOfPaper
<1>. QED BY <1>1, <1>4, <1>5, <1>6, <1>8 DEF TitleInv, SaidOfPaper

LEMMA TitleText ==
  ASSUME TeiTypes, TitleInv, HandleText
  PROVE  TitleInv'
<1>. DEFINE n == Len(said) + 1
<1>1. /\ DOMAIN said' = DOMAIN said \cup {n} /\ \A k \in DOMAIN said : said'[k] = said[k]
      /\ said'[n] = path /\ path' = path
  BY TextPath
<1>2. on' = on /\ meta' = meta
  BY DEF HandleText, metadata
<1>3. buf'["title"] \subseteq buf["title"] \cup {n} /\ buf'["doi"] \subseteq buf["doi"] \cup {n}
  BY DEF HandleText, Slots
<1>. HIDE DEF n
<1>. QED BY <1>1, <1>2, <1>3 DEF TitleInv, SaidOfPaper

-----------------------------------------------------------------------------
LEMMA AuthorsStart ==
  ASSUME TeiTypes, PathInv, AuthorsInv,
         NEW e \in [name : DOMAIN grammar, marked : BOOLEAN], e.name \in STRING,
         e.name \notin {"div", "p"} => ~Within(e.name), HandleStart(e)
  PROVE  AuthorsInv'
<1>. DEFINE n == Len(path) + 1
<1>1. /\ Len(path) \in Nat /\ DOMAIN path = 1..Len(path) /\ DOMAIN path' = 1..n
      /\ \A i \in 1..Len(path) : path'[i] = path[i]
      /\ path'[n].name = e.name
      /\ said' = said
  BY StartPath
<1>2. meta'.authors = meta.authors
  BY DEF HandleStart, TeiTypes
<1>3. \A x \in {"forename", "surname"} :
        /\ x \in on' <=> x \in on \/ x \in Begins(e)
        /\ buf'[x] = IF x \in Begins(e) THEN {} ELSE buf[x]
        /\ x \in Begins(e) => e.name = x /\ "persName" \in inside
  BY DEF HandleStart, Slots, Cleared, Begins
<1>. HIDE DEF n
<1>4. /\ \A i \in DOMAIN path' : i \in DOMAIN path \/ i = n
      /\ \A i \in DOMAIN path : i \in DOMAIN path' /\ path'[i] = path[i] /\ i < n
      /\ n \in DOMAIN path'
  BY <1>1 DEF n
<1>5. ASSUME NEW x \in on' \cap {"forename", "surname"}
      PROVE  \E i, j \in DOMAIN path' : i < j /\ path'[i].name = "persName" /\ path'[j].name = x
  <2>1. CASE x \in on
    <3>1. PICK i, j \in DOMAIN path : i < j /\ path[i].name = "persName" /\ path[j].name = x
      BY <1>5, <2>1 DEF AuthorsInv
    <3>. QED BY <1>4, <3>1
  <2>2. CASE x \in Begins(e)
    <3>1. PICK i \in DOMAIN path : path[i].name = "persName"
      BY <1>3, <1>5, <2>2 DEF PathInv, Within
    <3>2. path'[n].name = x
      BY <1>1, <1>3, <1>5, <2>2
    <3>. QED BY <1>4, <3>1, <3>2
  <2>. QED BY <1>3, <1>5, <2>1, <2>2
<1>6. CASE e.name = "persName"
  <2>1. person' = NoNames
    BY <1>6 DEF HandleStart
  <2>2. on' \cap {"forename", "surname"} = {}
    <3>1. ASSUME NEW x \in on' \cap {"forename", "surname"} PROVE FALSE
      <4>1. x \in on
        BY <1>3, <1>6, <3>1
      <4>2. Within("persName")
        BY <3>1, <4>1 DEF AuthorsInv, Within
      <4>. QED BY <1>6, <4>2
    <3>. QED BY <3>1
  <2>3. PersonTexts' = {}
    BY <2>1, <2>2 DEF PersonTexts, NoNames
  <2>. QED BY <1>1, <1>2, <1>5, <2>3 DEF AuthorsInv, SaidOfPaper
<1>7. CASE e.name # "persName"
  <2>1. person' = person
    BY <1>7 DEF HandleStart
  <2>2. PersonTexts' \subseteq PersonTexts
    <3>1. ASSUME NEW x \in on' \cap {"forename", "surname"}
          PROVE  buf'[x] = {} \/ (x \in on /\ buf'[x] = buf[x])
      BY <1>3, <3>1
    <3>. QED BY <2>1, <3>1 DEF PersonTexts
  <2>3. ASSUME NEW k \in PersonTexts', NEW i \in DOMAIN path', path'[i].name = "persName"
        PROVE  Shares(said'[k], path', i)
    <3>1. i \in DOMAIN path /\ path[i].name = "persName"
      BY <1>1, <1>4, <1>7, <2>3
    <3>2. Shares(said[k], path, i)
      BY <2>2, <2>3, <3>1 DEF AuthorsInv
    <3>3. \A j \in 1..i : path'[j] = path[j]
      BY <1>1, <3>1
    <3>. QED BY <1>1, <3>2, <3>3 DEF Shares
  <2>. QED BY <1>1, <1>2, <1>5, <2>2, <2>3 DEF AuthorsInv, SaidOfPaper
<1>. QED BY <1>6, <1>7

(* The end of an element adds no text to the names of a person.            *)
LEMMA PersonAfterEnd ==
  ASSUME TeiTypes, path # <<>>, NEW name, HandleEnd(name)
  PROVE  /\ name = "persName" => person' = NoNames
         /\ on' \subseteq on \ SlotsOf(name)
         /\ PersonTexts' \subseteq PersonTexts
<1>1. buf' = buf /\ on' \subseteq on \ SlotsOf(name)
  BY EndPath DEF HandleEnd
<1>2. /\ "forename" \in SlotsOf(name) => name = "forename"
      /\ "surname" \in SlotsOf(name) => name = "surname"
  BY DEF SlotsOf
<1>3. person' = CASE name = "persName" -> NoNames
                  [] "forename" \in on \cap SlotsOf(name) ->
                       [person EXCEPT !.forenames = @ \cup buf["forename"]]
                  [] "surname" \in on \cap SlotsOf(name) /\ buf["surname"] # {} ->
                       [person EXCEPT !.surname = buf["surname"]]
                  [] OTHER -> person
  BY DEF HandleEnd
<1>4. name = "persName" => person' = NoNames
  BY <1>2, <1>3
<1>5. \/ person' = NoNames
      \/ person' = person
      \/ "forename" \in on /\ person' = [person EXCEPT !.forenames = @ \cup buf["forename"]]
      \/ "surname" \in on /\ person' = [person EXCEPT !.surname = buf["surname"]]
  BY <1>3
<1>6. person'.forenames \cup person'.surname \subseteq PersonTexts
  <2>1. CASE person' = NoNames
    BY <2>1 DEF NoNames
  <2>2. CASE person' = person
    BY <2>2 DEF PersonTexts
  <2>3. CASE "forename" \in on /\ person' = [person EXCEPT !.forenames = @ \cup buf["forename"]]
    <3>1. person'.forenames = person.forenames \cup buf["forename"] /\ person'.surname = person.surname
      BY <2>3 DEF TeiTypes
    <3>. QED BY <2>3, <3>1 DEF PersonTexts
  <2>4. CASE "surname" \in on /\ person' = [person EXCEPT !.surname = buf["surname"]]
    <3>1. person'.forenames = person.forenames /\ person'.surname = buf["surname"]
      BY <2>4 DEF TeiTypes
    <3>. QED BY <2>4, <3>1 DEF PersonTexts
  <2>. QED BY <1>5, <2>1, <2>2, <2>3, <2>4
<1>7. UNION {buf'[x] : x \in on' \cap {"forename", "surname"}} \subseteq PersonTexts
  BY <1>1 DEF PersonTexts
<1>. QED BY <1>1, <1>4, <1>6, <1>7 DEF PersonTexts

LEMMA AuthorsEnd ==
  ASSUME TeiTypes, PathInv, ReferenceInv, AuthorsInv, path # <<>>, HandleEnd(path[Len(path)].name)
  PROVE  AuthorsInv'
<1>. DEFINE n == Len(path)  name == path[n].name
<1>1. /\ n \in Nat \ {0} /\ DOMAIN path = 1..n /\ DOMAIN path' = 1..(n - 1)
      /\ \A i \in 1..(n - 1) : path'[i] = path[i]
      /\ said' = said
  BY EndPath
<1>2. /\ name = "persName" => person' = NoNames
      /\ on' \subseteq on \ SlotsOf(name)
      /\ PersonTexts' \subseteq PersonTexts
  BY PersonAfterEnd
<1>3. \A x \in {"forename", "surname"} : x \in SlotsOf(x)
  BY DEF SlotsOf
<1>4. \/ meta'.authors = meta.authors
      \/ /\ name = "persName" /\ ~InAReference
         /\ meta'.authors = Append(meta.authors, person.forenames \cup person.surname)
  <2>1. \/ meta' = [meta EXCEPT !.title = buf["title"]]
        \/ meta' = [meta EXCEPT !.doi = buf["doi"]]
        \/ /\ name = "persName" /\ ~InAReference
           /\ meta' = [meta EXCEPT !.authors = Append(@, person.forenames \cup person.surname)]
        \/ meta' = meta
    <3>. HIDE DEF name
    <3>1. meta' =
            CASE "title" \in on \cap SlotsOf(name) -> [meta EXCEPT !.title = buf["title"]]
              [] "doi" \in on \cap SlotsOf(name) -> [meta EXCEPT !.doi = buf["doi"]]
              [] name = "persName" /\ "persName" \in inside /\ Named
                   /\ ~InAReference /\ "analytic" \in inside ->
                   [meta EXCEPT !.authors = Append(@, person.forenames \cup person.surname)]
              [] OTHER -> meta
      BY DEF HandleEnd, name
    <3>. QED BY <3>1
  <2>. QED BY <2>1 DEF TeiTypes
<1>. HIDE DEF n
<1>5. ASSUME NEW x \in on' \cap {"forename", "surname"}
      PROVE  \E i, j \in DOMAIN path' : i < j /\ path'[i].name = "persName" /\ path'[j].name = x
  <2>1. x \in on /\ x # name
    BY <1>2, <1>3, <1>5
  <2>2. PICK i, j \in DOMAIN path : i < j /\ path[i].name = "persName" /\ path[j].name = x
    BY <1>5, <2>1 DEF AuthorsInv
  <2>3. j # n
    BY <2>1, <2>2
  <2>4. i \in 1..(n - 1) /\ j \in 1..(n - 1)
    BY <1>1, <2>2, <2>3
  <2>. QED BY <1>1, <2>2, <2>4
<1>6. ASSUME NEW k \in PersonTexts'
      PROVE  /\ k \in DOMAIN said'
             /\ \A i \in DOMAIN path' : path'[i].name = "persName" => Shares(said'[k], path', i)
  <2>1. k \in DOMAIN said /\ \A i \in DOMAIN path : path[i].name = "persName" => Shares(said[k], path, i)
    BY <1>2, <1>6 DEF AuthorsInv
  <2>2. ASSUME NEW i \in DOMAIN path', path'[i].name = "persName" PROVE Shares(said'[k], path', i)
    <3>1. i \in DOMAIN path /\ path[i].name = "persName" /\ \A j \in 1..i : path'[j] = path[j]
      BY <1>1, <2>2
    <3>. QED BY <1>1, <2>1, <3>1 DEF Shares
  <2>. QED BY <1>1, <2>1, <2>2
<1>7. ASSUME name = "persName", ~InAReference, NEW k \in person.forenames \cup person.surname
      PROVE  k \in DOMAIN said /\ OfPaper(said[k], "persName")
  <2>1. n \in DOMAIN path /\ path[n].name = "persName"
    BY <1>1, <1>7
  <2>2. k \in DOMAIN said /\ Shares(said[k], path, n)
    BY <1>7, <2>1 DEF AuthorsInv, PersonTexts
  <2>3. said[k] \in Seq(Element)
    BY <2>2 DEF TeiTypes
  <2>4. n \in DOMAIN said[k] /\ said[k][n].name = "persName" /\ \A j \in 1..n : said[k][j] = path[j]
    BY <1>1, <2>1, <2>2, <2>3 DEF Shares
  <2>5. \A j \in 1..(n - 1) : j \in 1..n /\ j \in DOMAIN path
    BY <1>1
  <2>6. \A j \in 1..(n - 1) : ~OfList(said[k], j)
    <3>1. \A j \in 1..(n - 1) : OfList(said[k], j) <=> OfList(path, j)
      BY <1>1, <2>4, <2>5, SamePlaces
    <3>. QED BY <1>7, <2>5, <3>1 DEF ReferenceInv
  <2>. QED BY <2>2, <2>4, <2>6 DEF OfPaper
<1>8. ASSUME NEW k \in DOMAIN meta'.authors, NEW m \in meta'.authors[k]
      PROVE  m \in DOMAIN said' /\ OfPaper(said'[m], "persName")
  <2>1. CASE meta'.authors = meta.authors
    BY <1>1, <2>1, <1>8 DEF AuthorsInv, SaidOfPaper
  <2>2. CASE /\ name = "persName" /\ ~InAReference
             /\ meta'.authors = Append(meta.authors, person.forenames \cup person.surname)
    <3>1. meta.authors \in Seq(SUBSET Nat)
      BY DEF TeiTypes
    <3>2. \/ k \in DOMAIN meta.authors /\ meta'.authors[k] = meta.authors[k]
          \/ meta'.authors[k] = person.forenames \cup person.surname
      BY <1>8, <2>2, <3>1
    <3>. QED BY <1>1, <1>7, <2>2, <3>2 DEF AuthorsInv, SaidOfPaper
  <2>. QED BY <1>4, <2>1, <2>2
<1>. QED BY <1>5, <1>6, <1>8 DEF AuthorsInv, SaidOfPaper

LEMMA AuthorsText ==
  ASSUME TeiTypes, AuthorsInv, HandleText
  PROVE  AuthorsInv'
<1>. DEFINE n == Len(said) + 1
<1>1. /\ DOMAIN said' = DOMAIN said \cup {n} /\ \A k \in DOMAIN said : said'[k] = said[k]
      /\ said'[n] = path /\ path' = path
  BY TextPath
<1>2. on' = on /\ meta' = meta /\ person' = person
  BY DEF HandleText, metadata
<1>3. \A x \in {"forename", "surname"} : buf'[x] \subseteq buf[x] \cup {n}
  BY DEF HandleText, Slots
<1>4. \A i \in DOMAIN path : Shares(path, path, i)
  BY DEF Shares, TeiTypes
<1>. HIDE DEF n
<1>5. PersonTexts' \subseteq PersonTexts \cup {n}
  BY <1>2, <1>3 DEF PersonTexts
<1>6. \A k \in DOMAIN meta.authors : \A m \in meta.authors[k] :
        m \in DOMAIN said' /\ OfPaper(said'[m], "persName")
  BY <1>1 DEF AuthorsInv, SaidOfPaper
<1>7. ASSUME NEW k \in PersonTexts'
      PROVE  /\ k \in DOMAIN said'
             /\ \A i \in DOMAIN path' : path'[i].name = "persName" => Shares(said'[k], path', i)
  <2>1. CASE k = n
    BY <1>1, <1>4, <2>1
  <2>2. CASE k # n
    <3>1. k \in PersonTexts
      BY <1>5, <1>7, <2>2
    <3>. QED BY <1>1, <3>1 DEF AuthorsInv
  <2>. QED BY <2>1, <2>2
<1>. QED BY <1>1, <1>2, <1>6, <1>7 DEF AuthorsInv, SaidOfPaper

-----------------------------------------------------------------------------
LEMMA InitTeiInv == InitTei => TeiInv
<1>. SUFFICES ASSUME InitTei PROVE TeiInv
  OBVIOUS
<1>1. said = <<>> /\ path = <<>> /\ elements = 0 /\ on = {} /\ buf = [s \in Slots |-> {}] /\ inside = {}
  BY DEF InitTei
<1>2. DOMAIN said = {} /\ DOMAIN path = {}
  BY <1>1
<1>3. section.of = 0 /\ section.heading = {} /\ reference.of = 0 /\ sections = <<>> /\ references = <<>>
  BY DEF InitTei, NoSection, NoReference
<1>4. meta = [title |-> {}, doi |-> {}, year |-> 0, authors |-> <<>>] /\ person = NoNames
  BY DEF InitTei
<1>5. TeiTypes
  <2>1. <<>> \in Seq(SUBSET Nat)
    OBVIOUS
  <2>2. section \in [of : Nat, heading : SUBSET Nat]
    BY DEF InitTei, NoSection
  <2>3. reference \in [of : Nat, title : SUBSET Nat, doi : SUBSET Nat, year : Nat, authors : Seq(SUBSET Nat)]
    BY <2>1 DEF InitTei, NoReference
  <2>4. meta \in [title : SUBSET Nat, doi : SUBSET Nat, year : Nat, authors : Seq(SUBSET Nat)]
    BY <1>4, <2>1
  <2>5. person \in [forenames : SUBSET Nat, surname : SUBSET Nat]
    BY <1>4 DEF NoNames
  <2>6. /\ path \in Seq(Element) /\ said \in Seq(Seq(Element))
        /\ sections \in Seq([of : Nat, heading : SUBSET Nat, text : SUBSET Nat])
        /\ references \in Seq([of : Nat, raw : SUBSET Nat, title : SUBSET Nat, doi : SUBSET Nat,
                               year : Nat, authors : Seq(SUBSET Nat)])
    BY <1>1, <1>3
  <2>7. grammar \in Grammars /\ buf \in [Slots -> SUBSET Nat]
    BY <1>1 DEF InitTei
  <2>. QED BY <1>1, <2>2, <2>3, <2>4, <2>5, <2>6, <2>7 DEF TeiTypes
<1>6. PathInv
  BY <1>1, <1>2 DEF PathInv, Within
<1>7. SectionInv /\ ReferenceInv
  BY <1>1, <1>2, <1>3 DEF SectionInv, ReferenceInv, InASection, InAReference
<1>8. SectionsKept /\ ReferencesKept
  <2>1. DOMAIN sections = {} /\ DOMAIN references = {}
    BY <1>3
  <2>. QED BY <1>2, <2>1 DEF SectionsKept, ReferencesKept
<1>9. TitleInv
  BY <1>1, <1>4 DEF TitleInv, SaidOfPaper
<1>10. AuthorsInv
  <2>1. DOMAIN meta.authors = {}
    BY <1>4
  <2>2. PersonTexts = {}
    BY <1>1, <1>4 DEF PersonTexts, NoNames
  <2>. QED BY <1>1, <2>1, <2>2 DEF AuthorsInv
<1>. QED BY <1>5, <1>6, <1>7, <1>8, <1>9, <1>10 DEF TeiInv

LEMMA StepTeiInv == TeiInv /\ [NextTei]_teiVars => TeiInv'
<1>. SUFFICES ASSUME TeiInv, [NextTei]_teiVars PROVE TeiInv'
  OBVIOUS
<1>0. /\ TeiTypes /\ PathInv /\ SectionInv /\ SectionsKept /\ ReferenceInv /\ ReferencesKept
      /\ TitleInv /\ AuthorsInv
  BY DEF TeiInv
<1>1. CASE Start
  <2>1. \E e \in [name : DOMAIN grammar, marked : BOOLEAN] :
          /\ e.name \in STRING /\ (e.name \notin {"div", "p"} => ~Within(e.name)) /\ HandleStart(e)
    BY <1>0, <1>1, StartsAre
  <2>2. PICK e \in [name : DOMAIN grammar, marked : BOOLEAN] :
          /\ e.name \in STRING /\ (e.name \notin {"div", "p"} => ~Within(e.name)) /\ HandleStart(e)
    BY <2>1
  <2>3. TeiTypes' /\ PathInv'
    BY <1>0, <2>2, TypesStart, PathStart
  <2>4. SectionInv' /\ SectionsKept'
    BY <1>0, <2>2, SectionStart, SectionsStart
  <2>5. ReferenceInv' /\ ReferencesKept'
    BY <1>0, <2>2, ReferenceStart, ReferencesStart
  <2>6. TitleInv' /\ AuthorsInv'
    BY <1>0, <2>2, TitleStart, AuthorsStart
  <2>. QED BY <2>3, <2>4, <2>5, <2>6 DEF TeiInv
<1>2. CASE End
  <2>1. path # <<>> /\ HandleEnd(path[Len(path)].name)
    BY <1>2 DEF End
  <2>2. TeiTypes' /\ PathInv'
    BY <1>0, <2>1, TypesEnd, PathEnd
  <2>3. SectionInv' /\ SectionsKept'
    BY <1>0, <2>1, SectionEnd, SectionsEnd
  <2>4. ReferenceInv' /\ ReferencesKept'
    BY <1>0, <2>1, ReferenceEnd, ReferencesEnd
  <2>5. TitleInv' /\ AuthorsInv'
    BY <1>0, <2>1, TitleEnd, AuthorsEnd
  <2>. QED BY <2>2, <2>3, <2>4, <2>5 DEF TeiInv
<1>3. CASE HandleText
  <2>1. TeiTypes' /\ PathInv'
    BY <1>0, <1>3, TypesText, PathText
  <2>2. SectionInv' /\ SectionsKept'
    BY <1>0, <1>3, SectionText, SectionsText
  <2>3. ReferenceInv' /\ ReferencesKept'
    BY <1>0, <1>3, ReferenceText, ReferencesText
  <2>4. TitleInv' /\ AuthorsInv'
    BY <1>0, <1>3, TitleText, AuthorsText
  <2>. QED BY <2>1, <2>2, <2>3, <2>4 DEF TeiInv
<1>4. CASE Eof \/ UNCHANGED teiVars
  <2>1. UNCHANGED <<document, path, inside, on, known, buf, metadata, parts>>
    BY <1>4 DEF Eof, teiVars
  <2>2. UNCHANGED <<grammar, elements, said, path, inside, on, known, buf, meta, person, section, sections,
                    reference, references>>
    BY <2>1 DEF document, metadata, parts
  <2>3. TeiTypes' /\ PathInv'
    BY <1>0, <2>2 DEF TeiTypes, PathInv, Within
  <2>4. SectionInv' /\ SectionsKept' /\ ReferenceInv' /\ ReferencesKept'
    BY <1>0, <2>2 DEF SectionInv, SectionsKept, ReferenceInv, ReferencesKept, HeadingTexts, InASection, InAReference
  <2>5. TitleInv' /\ AuthorsInv'
    BY <1>0, <2>2 DEF TitleInv, AuthorsInv, SaidOfPaper, PersonTexts
  <2>. QED BY <2>3, <2>4, <2>5 DEF TeiInv
<1>. QED BY <1>1, <1>2, <1>3, <1>4 DEF NextTei

LEMMA KeptFromInvariant == TeiInv => StructureKept
<1>. SUFFICES ASSUME TeiInv PROVE StructureKept
  OBVIOUS
<1>0. /\ TeiTypes /\ PathInv /\ SectionInv /\ SectionsKept /\ ReferenceInv /\ ReferencesKept
      /\ TitleInv /\ AuthorsInv
  BY DEF TeiInv
<1>1. \A k \in DOMAIN sections :
        /\ sections[k].heading \cup sections[k].text = {n \in DOMAIN said : InSection(said[n], sections[k].of)}
        /\ sections[k].heading \cap sections[k].text = {}
  BY <1>0 DEF SectionsKept
<1>2. \A k \in DOMAIN references :
        references[k].raw = {n \in DOMAIN said : InReference(said[n], references[k].of)}
  BY <1>0 DEF ReferencesKept
<1>3. \A p \in {sections, references} : \A k, l \in DOMAIN p : k < l => p[k].of < p[l].of
  BY <1>0 DEF SectionsKept, ReferencesKept
<1>4. ASSUME path = <<>>, NEW n \in DOMAIN said, NEW i \in DOMAIN said[n]
      PROVE  /\ OutermostDiv(said[n], i) => \E k \in DOMAIN sections : sections[k].of = said[n][i].at
             /\ OfList(said[n], i) => \E k \in DOMAIN references : references[k].of = said[n][i].at
  <2>1. DOMAIN path = {}
    BY <1>4
  <2>2. section.of = 0 /\ reference.of = 0
    BY <1>0, <2>1 DEF SectionInv, ReferenceInv, InSection, InReference, InASection, InAReference
  <2>3. said[n][i].at # 0
    BY <1>0 DEF PathInv, TeiTypes
  <2>. QED BY <1>0, <2>2, <2>3 DEF SectionsKept, ReferencesKept
<1>5. \A slot \in {"title", "doi"} :
        \A n \in meta[slot] : OfPaper(said[n], IF slot = "title" THEN "title" ELSE "idno")
  BY <1>0 DEF TitleInv, SaidOfPaper
<1>6. \A k \in DOMAIN meta.authors : \A n \in meta.authors[k] : OfPaper(said[n], "persName")
  BY <1>0 DEF AuthorsInv, SaidOfPaper
<1>. QED BY <1>1, <1>2, <1>3, <1>4, <1>5, <1>6 DEF StructureKept

(* For documents of any grammar and size the structure that parse_tei      *)
(* makes has the texts of every div of the body and of every reference,    *)
(* each once, and says of the paper what no reference contains.            *)
THEOREM StructureAlwaysKept == SpecTei => []StructureKept
<1>1. InitTei => TeiInv
  BY InitTeiInv
<1>2. TeiInv /\ [NextTei]_teiVars => TeiInv'
  BY StepTeiInv
<1>3. TeiInv => StructureKept
  BY KeptFromInvariant
<1>. QED BY <1>1, <1>2, <1>3, PTL DEF SpecTei

=============================================================================
