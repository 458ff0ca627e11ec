---------------------------- MODULE Channels_proofs ----------------------------
(***************************************************************************)
(* Proofs about Channels, for documents of any number of rows in any       *)
(* order: what a list of channels means to the caller who gets it.         *)
(***************************************************************************)
EXTENDS Channels, FiniteSetTheorems, SequenceTheorems, WellFoundedInduction, TLAPS

-----------------------------------------------------------------------------
(* Sorting. *)

\* R puts the elements of S in a strict order.
Orders(R, S) ==
  /\ \A x \in S : <<x, x>> \notin R
  /\ \A x, y \in S : x # y => <<x, y>> \in R \/ <<y, x>> \in R
  /\ \A x, y, z \in S : <<x, y>> \in R /\ <<y, z>> \in R => <<x, z>> \in R

\* The elements of S before x.
Before(S, R, x) == {j \in S : <<j, x>> \in R}

\* What comes later has more before it.
LEMMA LaterHasMore ==
  ASSUME NEW S, IsFiniteSet(S), NEW R, Orders(R, S),
         NEW x \in S, NEW y \in S, <<x, y>> \in R
  PROVE  Cardinality(Before(S, R, x)) < Cardinality(Before(S, R, y))
<1>1. Before(S, R, x) \subseteq Before(S, R, y)
  BY DEF Orders, Before
<1>2. x \in Before(S, R, y) /\ x \notin Before(S, R, x)
  BY DEF Orders, Before
<1>3. IsFiniteSet(Before(S, R, y))
  BY FS_Subset DEF Before
<1>4. /\ IsFiniteSet(Before(S, R, x))
      /\ Cardinality(Before(S, R, x)) <= Cardinality(Before(S, R, y))
      /\ Cardinality(Before(S, R, y)) # Cardinality(Before(S, R, x))
  BY <1>1, <1>2, <1>3, FS_Subset
<1>5. QED
  BY <1>3, <1>4, FS_CardinalityType

\* Each place is taken by exactly one element.
LEMMA PlaceIsTaken ==
  ASSUME NEW S, IsFiniteSet(S), NEW R, Orders(R, S)
  PROVE  /\ Cardinality(S) \in Nat
         /\ \A n \in 1 .. Cardinality(S) :
              \E x \in S : Cardinality(Before(S, R, x)) = n - 1
         /\ \A x \in S : Cardinality(Before(S, R, x)) + 1 \in 1 .. Cardinality(S)
<1> DEFINE N == Cardinality(S)
           place == [x \in S |-> Cardinality(Before(S, R, x)) + 1]
<1>1. N \in Nat
  BY FS_CardinalityType
<1>2. ASSUME NEW x \in S
      PROVE  /\ Cardinality(Before(S, R, x)) \in Nat
             /\ Cardinality(Before(S, R, x)) + 1 \in 1 .. N
  <2>1. IsFiniteSet(S \ {x}) /\ Cardinality(S \ {x}) = N - 1
    BY FS_RemoveElement
  <2>2. Before(S, R, x) \in SUBSET (S \ {x})
    BY DEF Orders, Before
  <2>3. /\ IsFiniteSet(Before(S, R, x))
        /\ Cardinality(Before(S, R, x)) <= N - 1
    BY <2>1, <2>2, FS_Subset
  <2>4. Cardinality(Before(S, R, x)) \in Nat
    BY <2>3, FS_CardinalityType
  <2>5. QED
    BY <1>1, <2>3, <2>4
<1>3. place \in Injection(S, 1 .. N)
  <2>1. place \in [S -> 1 .. N]
    BY <1>2
  <2>2. ASSUME NEW x \in S, NEW y \in S, place[x] = place[y] PROVE x = y
    <3>1. Cardinality(Before(S, R, x)) = Cardinality(Before(S, R, y))
      BY <1>2, <2>2
    <3>2. <<x, y>> \notin R /\ <<y, x>> \notin R
      BY <1>2, <3>1, LaterHasMore
    <3>3. QED
      BY <3>2 DEF Orders
  <2>3. QED
    BY <2>1, <2>2 DEF Injection, IsInjective
<1>4. IsFiniteSet(1 .. N) /\ Cardinality(1 .. N) = N
  BY <1>1, FS_Interval
<1>5. place \in Surjection(S, 1 .. N)
  BY <1>3, <1>4, FS_Injection
<1>6. ASSUME NEW n \in 1 .. N PROVE \E x \in S : Cardinality(Before(S, R, x)) = n - 1
  <2>1. PICK x \in S : place[x] = n
    BY <1>5 DEF Surjection
  <2>2. QED
    BY <1>1, <1>2, <2>1
<1>7. QED
  BY <1>1, <1>2, <1>6

\* InOrder lists every element of S once, in the order of R.
LEMMA InOrderSorts ==
  ASSUME NEW S, IsFiniteSet(S), NEW R, Orders(R, S)
  PROVE  /\ Cardinality(S) \in Nat
         /\ InOrder(S, R) \in [1 .. Cardinality(S) -> S]
         /\ \A x \in S : \E n \in 1 .. Cardinality(S) : InOrder(S, R)[n] = x
         /\ \A m, n \in 1 .. Cardinality(S) :
              m < n => <<InOrder(S, R)[m], InOrder(S, R)[n]>> \in R
<1> DEFINE N == Cardinality(S)
           f == InOrder(S, R)
<1>1. /\ N \in Nat
      /\ \A n \in 1 .. N : \E x \in S : Cardinality(Before(S, R, x)) = n - 1
      /\ \A x \in S : Cardinality(Before(S, R, x)) + 1 \in 1 .. N
  BY PlaceIsTaken
<1>2. f = [n \in 1 .. N |->
             CHOOSE i \in S : Cardinality(Before(S, R, i)) = n - 1]
  BY DEF InOrder, Before
<1>3. ASSUME NEW n \in 1 .. N
      PROVE  f[n] \in S /\ Cardinality(Before(S, R, f[n])) = n - 1
  BY <1>1, <1>2
<1>4. f \in [1 .. N -> S]
  BY <1>2, <1>3
<1>5. ASSUME NEW m \in 1 .. N, NEW n \in 1 .. N, m < n
      PROVE  <<f[m], f[n]>> \in R
  <2>1. /\ f[m] \in S /\ Cardinality(Before(S, R, f[m])) = m - 1
        /\ f[n] \in S /\ Cardinality(Before(S, R, f[n])) = n - 1
    BY <1>3
  <2>2. f[m] # f[n]
    BY <1>1, <1>5, <2>1
  <2>3. <<f[n], f[m]>> \notin R
    <3>1. ~ (n - 1 < m - 1)
      BY <1>1, <1>5
    <3>2. QED
      BY <2>1, <3>1, LaterHasMore
  <2>4. QED
    BY <2>1, <2>2, <2>3 DEF Orders
<1>6. ASSUME NEW x \in S PROVE \E n \in 1 .. N : f[n] = x
  <2>1. PICK n \in 1 .. N : n = Cardinality(Before(S, R, x)) + 1
    BY <1>1
  <2>2. f[n] \in S /\ Cardinality(Before(S, R, f[n])) = n - 1
    BY <1>3
  <2>3. PICK k \in Int : k = Cardinality(Before(S, R, x))
    <3>1. Before(S, R, x) \in SUBSET S
      BY DEF Before
    <3>2. IsFiniteSet(Before(S, R, x))
      BY <3>1, FS_Subset
    <3>3. QED
      BY <3>2, FS_CardinalityType
  <2>4. Cardinality(Before(S, R, f[n])) = Cardinality(Before(S, R, x))
    BY <1>1, <2>1, <2>2, <2>3
  <2>5. <<x, f[n]>> \notin R /\ <<f[n], x>> \notin R
    <3>1. ~ (k < k)
      OBVIOUS
    <3>2. QED
      BY <2>2, <2>3, <2>4, <3>1, LaterHasMore
  <2>6. QED
    BY <2>2, <2>5 DEF Orders
<1>7. QED
  BY <1>1, <1>4, <1>5, <1>6

\* In a set of natural numbers, one comes first.
LEMMA First ==
  ASSUME NEW S \in SUBSET Nat, S # {}
  PROVE  \E i \in S : \A j \in S : i <= j
<1>1. PICK i \in S : \A j \in S : ~ (<<j, i>> \in OpToRel(<, Nat))
  BY NatLessThanWellFounded, WFMin
<1>2. \A j \in S : ~ (j < i)
  BY <1>1 DEF OpToRel
<1>3. QED
  BY <1>2

\* A range, turned over.
LEMMA Mirror ==
  ASSUME NEW n \in Nat, NEW j \in 0 .. n
  PROVE  n - j \in 0 .. n /\ n - (n - j) = j
<1>1. n - (n - j) = j + 0
  OBVIOUS
<1>2. j + 0 = j
  OBVIOUS
<1>3. QED
  BY <1>1, <1>2

\* Among those up to n, one comes last: what Max chooses.
LEMMA Last ==
  ASSUME NEW n \in Nat, NEW S \in SUBSET (0 .. n), S # {}
  PROVE  Max(S) \in S /\ \A j \in S : Max(S) >= j
<1> DEFINE left == {i \in 0 .. n : n - i \in S}
<1>1. left \in SUBSET Nat /\ left # {}
  <2>1. PICK j \in S : j \in 0 .. n
    OBVIOUS
  <2>2. n - j \in left
    BY <2>1, Mirror
  <2>3. left \subseteq 0 .. n /\ 0 .. n \subseteq Nat
    OBVIOUS
  <2>4. QED
    BY <2>2, <2>3
<1>2. PICK i \in left : \A j \in left : i <= j
  BY <1>1, First
<1>3. ASSUME NEW j \in S PROVE n - i >= j
  <2>1. n - j \in left
    BY Mirror
  <2>2. i \in Int /\ j \in Int /\ i <= n - j
    BY <1>2, <2>1
  <2>3. QED
    BY <2>2
<1>4. QED
  BY <1>2, <1>3 DEF Max

-----------------------------------------------------------------------------
(* Lists of channels. *)

\* A document as _parse_channel_list sees it, and the ids it can use.
Document(body) ==
  IsSequence(body) /\ \A k \in DOMAIN body : body[k].id \in Int \cup {None}
Ids(body) == {id \in {body[k].id : k \in DOMAIN body} : id # None}

IsChannel(c) ==
  c = [kind |-> c.kind, id |-> c.id, name |-> c.name, online |-> c.online]
IsList(s) ==
  /\ s \in Seq({s[k] : k \in DOMAIN s})
  /\ \A k \in DOMAIN s :
       IsChannel(s[k]) /\ s[k].kind \in Families /\ s[k].id \in Int

\* The channels of one family that a document lists, in ascending order.
Listed(s, family, body) ==
  /\ IsList(s)
  /\ \A k \in DOMAIN s : s[k].kind = family
  /\ {s[k].id : k \in DOMAIN s} = Ids(body)
  /\ \A i, j \in DOMAIN s : i < j => s[i].id <= s[j].id

\* What is made of values one after another is a sequence.
LEMMA Enumeration ==
  ASSUME NEW n \in Nat, NEW s, DOMAIN s = 1 .. n, s = [k \in DOMAIN s |-> s[k]]
  PROVE  s \in Seq({s[k] : k \in DOMAIN s})
<1>1. s \in [1 .. n -> {s[k] : k \in DOMAIN s}]
  OBVIOUS
<1>2. QED
  BY <1>1, SeqDef

\* The positions of a list are those of a sequence.
LEMMA ListDomain ==
  ASSUME NEW s, IsList(s)
  PROVE  Len(s) \in Nat /\ DOMAIN s = 1 .. Len(s) /\ (DOMAIN s = {} => s = <<>>)
<1>1. s \in Seq({s[k] : k \in DOMAIN s})
  BY DEF IsList
<1>2. Len(s) \in Nat /\ DOMAIN s = 1 .. Len(s)
  BY <1>1, LenProperties
<1>3. DOMAIN s = {} => Len(s) = 0
  BY <1>2
<1>4. QED
  BY <1>1, <1>2, <1>3, EmptySeq

\* The empty list is what the empty document lists.
LEMMA NothingListed == ASSUME NEW family PROVE Listed(<<>>, family, <<>>)
<1>1. DOMAIN <<>> = {}
  OBVIOUS
<1>2. <<>> \in Seq({<<>>[k] : k \in DOMAIN <<>>})
  BY EmptySeq
<1>3. QED
  BY <1>1, <1>2 DEF Listed, IsList, Ids

\* _parse_channel_list lists the document's usable rows in ascending order,
\* with their status unknown.
LEMMA ParsedIsListed ==
  ASSUME NEW body, Document(body), NEW family \in Families
  PROVE  /\ Listed(ParseChannelList(body, family), family, body)
         /\ \A k \in DOMAIN ParseChannelList(body, family) :
              ParseChannelList(body, family)[k].online = None
<1> DEFINE usable == {k \in DOMAIN body : body[k].id # None}
           before == {p \in usable \X usable :
                        \/ body[p[1]].id < body[p[2]].id
                        \/ body[p[1]].id = body[p[2]].id /\ p[1] < p[2]}
           order == InOrder(usable, before)
           N == Cardinality(usable)
           s == ParseChannelList(body, family)
<1>1. usable \subseteq Nat /\ IsFiniteSet(usable)
  <2>1. Len(body) \in Nat /\ usable \in SUBSET (1 .. Len(body))
    BY DEF Document, IsSequence
  <2>2. IsFiniteSet(1 .. Len(body)) /\ 1 .. Len(body) \subseteq Nat
    BY <2>1, FS_Interval
  <2> HIDE DEF usable
  <2>3. QED
    BY <2>1, <2>2, FS_Subset
<1>2. \A k \in usable : body[k].id \in Int
  BY DEF Document
<1>3. \A x, y \in usable :
        <<x, y>> \in before <=>
          \/ body[x].id < body[y].id
          \/ body[x].id = body[y].id /\ x < y
  OBVIOUS
<1>4. Orders(before, usable)
  <2>1. \A x \in usable : <<x, x>> \notin before
    BY <1>1, <1>2, <1>3
  <2>2. \A x, y \in usable : x # y => <<x, y>> \in before \/ <<y, x>> \in before
    BY <1>1, <1>2, <1>3
  <2>3. \A x, y, z \in usable :
          <<x, y>> \in before /\ <<y, z>> \in before => <<x, z>> \in before
    BY <1>1, <1>2, <1>3
  <2>4. QED
    BY <2>1, <2>2, <2>3 DEF Orders
<1>5. /\ N \in Nat /\ order \in [1 .. N -> usable]
      /\ \A x \in usable : \E n \in 1 .. N : order[n] = x
      /\ \A m, n \in 1 .. N : m < n => <<order[m], order[n]>> \in before
  <2> HIDE DEF before, usable
  <2>1. QED
    BY <1>1, <1>4, InOrderSorts
<1>6. s = [n \in 1 .. N |->
             [kind |-> family, id |-> body[order[n]].id,
              name |-> body[order[n]].name, online |-> None]]
  <2>1. s = [n \in DOMAIN order |->
               [kind |-> family, id |-> body[order[n]].id,
                name |-> body[order[n]].name, online |-> None]]
    BY Zenon DEF ParseChannelList
  <2>2. QED
    BY <1>5, <2>1
<1> HIDE DEF before, order, N, s
<1>7. IsList(s)
  <2>1. DOMAIN s = 1 .. N /\ s = [k \in DOMAIN s |-> s[k]]
    BY <1>6
  <2>2. s \in Seq({s[k] : k \in DOMAIN s})
    BY <1>5, <2>1, Enumeration
  <2>3. \A k \in DOMAIN s :
          IsChannel(s[k]) /\ s[k].kind \in Families /\ s[k].id \in Int
    BY <1>2, <1>5, <1>6 DEF IsChannel
  <2>4. QED
    BY <2>2, <2>3 DEF IsList
<1>8. {s[k].id : k \in DOMAIN s} = Ids(body)
  <2>1. DOMAIN s = 1 .. N /\ \A k \in 1 .. N : order[k] \in usable /\ s[k].id = body[order[k]].id
    BY <1>5, <1>6
  <2>2. {s[k].id : k \in DOMAIN s} = {body[k].id : k \in usable}
    BY <1>5, <2>1
  <2>3. QED
    BY <2>2 DEF Ids
<1>9. ASSUME NEW i \in DOMAIN s, NEW j \in DOMAIN s, i < j PROVE s[i].id <= s[j].id
  <2>1. /\ i \in 1 .. N /\ j \in 1 .. N
        /\ s[i].id = body[order[i]].id /\ s[j].id = body[order[j]].id
    BY <1>6
  <2>2. order[i] \in usable /\ order[j] \in usable /\ <<order[i], order[j]>> \in before
    BY <1>5, <1>9, <2>1
  <2>3. QED
    BY <1>2, <1>3, <2>1, <2>2
<1>10. \A k \in DOMAIN s : s[k].kind = family /\ s[k].online = None
  BY <1>6
<1>11. QED
  BY <1>7, <1>8, <1>9, <1>10 DEF Listed, s

Keys(s) == {Key(s[k]) : k \in DOMAIN s}

\* Unique keeps, of the channels of a list, the first of each key, in place.
LEMMA UniqueKeepsFirst ==
  ASSUME NEW s, IsList(s)
  PROVE  /\ \A n \in DOMAIN Unique(s) : \E k \in DOMAIN s : Unique(s)[n] = s[k]
         /\ Keys(Unique(s)) = Keys(s)
         /\ \A m, n \in DOMAIN Unique(s) : m < n =>
              \E j, k \in DOMAIN s :
                /\ j < k /\ Key(s[j]) # Key(s[k])
                /\ Unique(s)[m] = s[j] /\ Unique(s)[n] = s[k]
<1> DEFINE first == {k \in DOMAIN s : \A j \in 1 .. (k - 1) : Key(s[j]) # Key(s[k])}
           less == {p \in first \X first : p[1] < p[2]}
           order == InOrder(first, less)
           N == Cardinality(first)
           u == Unique(s)
<1>1. /\ Len(s) \in Nat /\ DOMAIN s = 1 .. Len(s) /\ DOMAIN s \subseteq Nat
      /\ IsFiniteSet(DOMAIN s)
  <2>1. Len(s) \in Nat /\ DOMAIN s = 1 .. Len(s)
    BY ListDomain
  <2>2. IsFiniteSet(1 .. Len(s))
    BY <2>1, FS_Interval
  <2>3. QED
    BY <2>1, <2>2
<1>2. first \in SUBSET (DOMAIN s) /\ first \subseteq Nat
  BY <1>1
<1>3. \A x, y \in first : <<x, y>> \in less <=> x < y
  OBVIOUS
<1>4. u = [n \in DOMAIN order |-> s[order[n]]]
  BY Zenon DEF Unique, At
<1>5. /\ \A j, k \in first : j < k => Key(s[j]) # Key(s[k])
      /\ \A k \in DOMAIN s : \E j \in first : Key(s[j]) = Key(s[k])
  <2>1. ASSUME NEW j \in first, NEW k \in first, j < k PROVE Key(s[j]) # Key(s[k])
    <3>1. j \in 1 .. (k - 1)
      BY <1>1, <2>1
    <3>2. QED
      BY <3>1
  <2>2. ASSUME NEW k \in DOMAIN s PROVE \E j \in first : Key(s[j]) = Key(s[k])
    <3> DEFINE same == {j \in DOMAIN s : Key(s[j]) = Key(s[k])}
    <3>1. same \in SUBSET Nat /\ same # {}
      BY <1>1
    <3>2. PICK j \in same : \A i \in same : j <= i
      BY <3>1, First
    <3>3. \A i \in 1 .. (j - 1) : i \in DOMAIN s /\ i \notin same
      BY <1>1, <3>2
    <3>4. j \in first
      BY <3>2, <3>3
    <3>5. QED
      BY <3>2, <3>4
  <2>3. QED
    BY <2>1, <2>2
<1> HIDE DEF first, less, u
<1>6. Orders(less, first)
  BY <1>2, <1>3 DEF Orders
<1>7. IsFiniteSet(first)
  BY <1>1, <1>2, FS_Subset
<1>8. /\ N \in Nat /\ order \in [1 .. N -> first]
      /\ \A x \in first : \E n \in 1 .. N : order[n] = x
      /\ \A m, n \in 1 .. N : m < n => <<order[m], order[n]>> \in less
  BY <1>6, <1>7, InOrderSorts
<1> HIDE DEF order, N
<1>9. /\ DOMAIN u = 1 .. N
      /\ \A n \in 1 .. N : order[n] \in first /\ order[n] \in DOMAIN s /\ u[n] = s[order[n]]
  BY <1>2, <1>4, <1>8
<1>10. \A n \in DOMAIN u : \E k \in DOMAIN s : u[n] = s[k]
  BY <1>9
<1>11. Keys(u) = Keys(s)
  <2>1. \A n \in DOMAIN u : \E k \in DOMAIN s : Key(u[n]) = Key(s[k])
    BY <1>10
  <2>2. ASSUME NEW k \in DOMAIN s PROVE \E n \in DOMAIN u : Key(u[n]) = Key(s[k])
    <3>1. PICK j \in first : Key(s[j]) = Key(s[k])
      BY <1>5
    <3>2. PICK n \in 1 .. N : order[n] = j
      BY <1>8
    <3>3. QED
      BY <1>9, <3>1, <3>2
  <2>3. QED
    BY <2>1, <2>2 DEF Keys
<1>12. ASSUME NEW m \in DOMAIN u, NEW n \in DOMAIN u, m < n
       PROVE  \E j, k \in DOMAIN s : /\ j < k /\ Key(s[j]) # Key(s[k])
                                    /\ u[m] = s[j] /\ u[n] = s[k]
  <2>1. /\ order[m] \in first /\ order[n] \in first
        /\ order[m] \in DOMAIN s /\ order[n] \in DOMAIN s
        /\ u[m] = s[order[m]] /\ u[n] = s[order[n]]
    BY <1>9
  <2>2. order[m] < order[n]
    BY <1>3, <1>8, <1>9, <1>12, <2>1
  <2>3. QED
    BY <1>5, <2>1, <2>2
<1>13. QED
  BY <1>10, <1>11, <1>12 DEF u

\* Ascending, but for channels that are listed twice.
WeaklyAscending(s) ==
  \A i, j \in DOMAIN s : i < j =>
    \/ s[i].kind = "input_proxy" /\ s[j].kind = "video_input"
    \/ s[i].kind = s[j].kind /\ s[i].id <= s[j].id

\* An ascending list without its repetitions is strictly ascending.
LEMMA UniqueAscends ==
  ASSUME NEW s, IsList(s), WeaklyAscending(s)
  PROVE  Ascending(Unique(s)) /\ Keys(Unique(s)) = Keys(s)
<1>1. ASSUME NEW m \in DOMAIN Unique(s), NEW n \in DOMAIN Unique(s), m < n
      PROVE  \/ /\ Unique(s)[m].kind = "input_proxy"
                /\ Unique(s)[n].kind = "video_input"
             \/ /\ Unique(s)[m].kind = Unique(s)[n].kind
                /\ Unique(s)[m].id < Unique(s)[n].id
  <2>1. PICK j \in DOMAIN s, k \in DOMAIN s :
          /\ j < k /\ Key(s[j]) # Key(s[k])
          /\ Unique(s)[m] = s[j] /\ Unique(s)[n] = s[k]
    BY <1>1, UniqueKeepsFirst
  <2>2. s[j].kind # s[k].kind \/ s[j].id # s[k].id
    BY <2>1 DEF Key
  <2>3. s[j].id \in Int /\ s[k].id \in Int
    BY DEF IsList
  <2>4. QED
    BY <2>1, <2>2, <2>3 DEF WeaklyAscending
<1>2. QED
  BY <1>1, UniqueKeepsFirst DEF Ascending

\* The lists of both families, one after the other.
LEMMA Joined ==
  ASSUME NEW s, NEW t, IsList(s), IsList(t)
  PROVE  /\ IsList(s \o t)
         /\ Len(s) \in Nat /\ Len(t) \in Nat
         /\ DOMAIN s = 1 .. Len(s) /\ DOMAIN t = 1 .. Len(t)
         /\ DOMAIN (s \o t) = 1 .. Len(s) + Len(t)
         /\ \A k \in 1 .. Len(s) + Len(t) :
              (s \o t)[k] = IF k <= Len(s) THEN s[k] ELSE t[k - Len(s)]
<1> DEFINE all == {s[k] : k \in DOMAIN s} \cup {t[k] : k \in DOMAIN t}
           st == s \o t
<1>1. s \in Seq(all) /\ t \in Seq(all)
  <2>1. /\ s \in Seq({s[k] : k \in DOMAIN s})
        /\ t \in Seq({t[k] : k \in DOMAIN t})
    BY DEF IsList
  <2>2. QED
    BY <2>1, SeqMonotonic
<1>2. /\ Len(s) \in Nat /\ DOMAIN s = 1 .. Len(s)
      /\ Len(t) \in Nat /\ DOMAIN t = 1 .. Len(t)
  BY ListDomain
<1> HIDE DEF all
<1>3. /\ st \in Seq(all) /\ Len(st) = Len(s) + Len(t)
      /\ \A k \in 1 .. Len(s) + Len(t) :
           st[k] = IF k <= Len(s) THEN s[k] ELSE t[k - Len(s)]
  BY <1>1, ConcatProperties
<1>4. st \in [1 .. Len(st) -> all] /\ DOMAIN st = 1 .. Len(st)
  BY <1>3, LenProperties
<1> HIDE DEF st
<1>5. st \in Seq({st[k] : k \in DOMAIN st})
  <2>1. Len(st) \in Nat /\ st = [k \in DOMAIN st |-> st[k]]
    BY <1>2, <1>3, <1>4
  <2>2. QED
    BY <1>4, <2>1, Enumeration
<1>6. ASSUME NEW k \in DOMAIN st
      PROVE  \/ k \in DOMAIN s /\ st[k] = s[k]
             \/ (k - Len(s)) \in DOMAIN t /\ st[k] = t[k - Len(s)]
  BY <1>2, <1>3, <1>4
<1>7. IsList(st)
  BY <1>5, <1>6 DEF IsList
<1>8. QED
  BY <1>2, <1>3, <1>4, <1>7 DEF st

\* One after the other they are ascending, and name what both documents do.
LEMMA JoinedFamilies ==
  ASSUME NEW s, NEW a, Listed(s, "input_proxy", a),
         NEW t, NEW b, Listed(t, "video_input", b)
  PROVE  /\ IsList(s \o t) /\ WeaklyAscending(s \o t)
         /\ Keys(s \o t) = ({"input_proxy"} \X Ids(a)) \cup ({"video_input"} \X Ids(b))
<1> DEFINE st == s \o t
<1>1. /\ IsList(st) /\ Len(s) \in Nat /\ Len(t) \in Nat
      /\ DOMAIN s = 1 .. Len(s) /\ DOMAIN t = 1 .. Len(t)
      /\ DOMAIN st = 1 .. Len(s) + Len(t)
      /\ \A k \in 1 .. Len(s) + Len(t) :
           st[k] = IF k <= Len(s) THEN s[k] ELSE t[k - Len(s)]
  BY Joined DEF Listed
<1> HIDE DEF st
<1>2. /\ \A k \in DOMAIN s : k \in DOMAIN st /\ st[k] = s[k]
      /\ \A k \in DOMAIN t :
           Len(s) + k \in DOMAIN st /\ st[Len(s) + k] = t[(Len(s) + k) - Len(s)]
  BY <1>1
<1>3. \A k \in DOMAIN t : (Len(s) + k) - Len(s) = k
  BY <1>1
<1>4. \A k \in DOMAIN st :
        \/ k <= Len(s) /\ k \in DOMAIN s /\ st[k] = s[k]
        \/ k > Len(s) /\ (k - Len(s)) \in DOMAIN t /\ st[k] = t[k - Len(s)]
  BY <1>1
<1>5. WeaklyAscending(st)
  <2>1. SUFFICES ASSUME NEW i \in DOMAIN st, NEW j \in DOMAIN st, i < j
                 PROVE  \/ st[i].kind = "input_proxy" /\ st[j].kind = "video_input"
                        \/ st[i].kind = st[j].kind /\ st[i].id <= st[j].id
    BY DEF WeaklyAscending
  <2>2. i \in Int /\ j \in Int
    BY <1>1
  <2>3. CASE j <= Len(s)
    BY <1>1, <1>4, <2>1, <2>2, <2>3 DEF Listed
  <2>4. CASE i > Len(s)
    <3>1. /\ (i - Len(s)) \in DOMAIN t /\ (j - Len(s)) \in DOMAIN t
          /\ i - Len(s) < j - Len(s)
          /\ st[i] = t[i - Len(s)] /\ st[j] = t[j - Len(s)]
      BY <1>1, <1>4, <2>1, <2>2, <2>4
    <3>2. QED
      BY <3>1 DEF Listed
  <2>5. CASE i <= Len(s) /\ j > Len(s)
    BY <1>1, <1>4, <2>2, <2>5 DEF Listed
  <2>6. QED
    BY <1>1, <2>2, <2>3, <2>4, <2>5
<1>6. Keys(st) = ({"input_proxy"} \X Ids(a)) \cup ({"video_input"} \X Ids(b))
  <2>1. Keys(s) = {"input_proxy"} \X Ids(a) /\ Keys(t) = {"video_input"} \X Ids(b)
    <3>1. ASSUME NEW r, NEW f, NEW d, Listed(r, f, d) PROVE Keys(r) = {f} \X Ids(d)
      <4>1. Ids(d) = {r[k].id : k \in DOMAIN r} /\ \A k \in DOMAIN r : Key(r[k]) = <<f, r[k].id>>
        BY <3>1 DEF Listed, Key
      <4>2. QED
        BY <4>1 DEF Keys
    <3>2. QED
      BY <3>1
  <2>2. Keys(st) = Keys(s) \cup Keys(t)
    <3>1. \A k \in DOMAIN st : Key(st[k]) \in Keys(s) \cup Keys(t)
      BY <1>4 DEF Keys
    <3>2. \A k \in DOMAIN s : Key(s[k]) \in Keys(st)
      BY <1>2 DEF Keys
    <3>3. \A k \in DOMAIN t : Key(t[k]) \in Keys(st)
      BY <1>2, <1>3 DEF Keys
    <3>4. QED
      BY <3>1, <3>2, <3>3 DEF Keys
  <2>3. QED
    BY <2>1, <2>2
<1>7. QED
  BY <1>1, <1>5, <1>6 DEF st

\* What the status document says of a channel, and what is made of it.
Said(id, body) ==
  {body[j].online : j \in {j \in DOMAIN body : body[j].id = id}} \ {None}

\* A status is known when some row says one, and is then the one of some row.
LEMMA OnlineIsSaid ==
  ASSUME NEW body, IsSequence(body), NEW id
  PROVE  /\ OnlineById(id, body) # None <=> Said(id, body) # {}
         /\ OnlineById(id, body) = TRUE => "true" \in Said(id, body)
         /\ OnlineById(id, body) = FALSE => Said(id, body) # {"true"}
<1> DEFINE says == {k \in DOMAIN body : body[k].id = id /\ body[k].online # None}
<1>1. Said(id, body) = {body[k].online : k \in says}
  BY DEF Said
<1>2. CASE says = {}
  BY <1>1, <1>2, ChannelsAssumption DEF OnlineById
<1>3. CASE says # {}
  <2>1. says \in SUBSET (0 .. Len(body)) /\ Len(body) \in Nat
    BY DEF IsSequence
  <2>2. Max(says) \in says
    <3> HIDE DEF says
    <3>1. QED
      BY <1>3, <2>1, Last
  <2>3. OnlineById(id, body) = (body[Max(says)].online = "true")
    BY <1>3, Zenon DEF OnlineById
  <2>4. OnlineById(id, body) \in BOOLEAN /\ None \notin BOOLEAN
    BY <2>3, ChannelsAssumption
  <2>5. body[Max(says)].online \in Said(id, body)
    BY <1>1, <2>2
  <2>6. QED
    BY <2>3, <2>4, <2>5
<1>4. QED
  BY <1>2, <1>3

\* Without a status document nothing is known.
LEMMA NothingSaid == ASSUME NEW id PROVE OnlineById(id, <<>>) = None
<1>1. DOMAIN <<>> = {}
  OBVIOUS
<1>2. QED
  BY <1>1 DEF OnlineById

\* _apply_channel_status changes nothing but the status.
LEMMA StatusApplied ==
  ASSUME NEW s, NEW family, NEW d, Listed(s, family, d), NEW body
  PROVE  /\ Listed(ApplyStatus(s, body), family, d)
         /\ DOMAIN ApplyStatus(s, body) = DOMAIN s
         /\ \A k \in DOMAIN s :
              ApplyStatus(s, body)[k].online = OnlineById(ApplyStatus(s, body)[k].id, body)
<1> DEFINE t == ApplyStatus(s, body)
<1>1. t = [k \in DOMAIN s |-> [s[k] EXCEPT !.online = OnlineById(s[k].id, body)]]
  BY Zenon DEF ApplyStatus
<1> HIDE DEF t
<1>2. ASSUME NEW k \in DOMAIN s
      PROVE  /\ IsChannel(t[k]) /\ t[k].kind = s[k].kind /\ t[k].id = s[k].id
             /\ t[k].online = OnlineById(t[k].id, body)
  <2>1. PICK kind, id, name, online :
          s[k] = [kind |-> kind, id |-> id, name |-> name, online |-> online]
    BY DEF Listed, IsList, IsChannel
  <2>2. t[k] = [kind |-> kind, id |-> id, name |-> name,
                online |-> OnlineById(id, body)]
    BY <1>1, <2>1
  <2>3. QED
    BY <2>1, <2>2 DEF IsChannel
<1>3. DOMAIN t = DOMAIN s
  BY <1>1
<1>4. IsList(t)
  <2>1. Len(s) \in Nat /\ DOMAIN s = 1 .. Len(s)
    BY ListDomain DEF Listed
  <2>2. t \in Seq({t[k] : k \in DOMAIN t})
    BY <1>1, <1>3, <2>1, Enumeration
  <2>3. QED
    BY <1>2, <1>3, <2>2 DEF IsList, Listed
<1>5. Listed(t, family, d)
  <2>1. {t[k].id : k \in DOMAIN t} = {s[k].id : k \in DOMAIN s}
    BY <1>2, <1>3
  <2>2. QED
    BY <1>2, <1>3, <1>4, <2>1 DEF Listed
<1>6. QED
  BY <1>2, <1>3, <1>5 DEF t

-----------------------------------------------------------------------------
(* The inductive invariant. *)

Requests == Families \cup {"status"}

\* What was answered, and what no request was made for.
AnswerInv ==
  /\ answer \in [Requests -> [end : Endings \cup {"unasked"},
                             body : ProxyBodies \cup InputBodies \cup StatusBodies \cup {<<>>}]]
  /\ \A family \in Families : Document(answer[family].body)
  /\ IsSequence(answer["status"].body)
  /\ pc = "input_proxy" =>
       answer = [q \in Requests |-> [end |-> "unasked", body |-> <<>>]]
  /\ pc = "status" => answer["status"].body = <<>>
  /\ call = "video_input" => answer["input_proxy"].end = "unasked"
  /\ pc \in {"status", "video_input"} => answer["video_input"].body = <<>>

\* Where a call stands; only channels() collects, and counts errors.
CourseInv ==
  /\ call \in Calls /\ errors \in Seq({"http", "xml"})
  /\ pc \in Families \cup {"status", "merge", "done"}
  /\ pc = "done" <=> outcome # "pending"
  /\ pc # "done" => result = <<>>
  /\ call = "input_proxy" => pc \in {"input_proxy", "status", "done"}
  /\ call = "video_input" => pc \in {"video_input", "done"}
  /\ call # "channels" => collected = <<>> /\ errors = <<>>
  /\ pc \in {"input_proxy", "status"} => collected = <<>> /\ errors = <<>>

\* What a request that failed makes a loader raise.
Failure(e) == IF e = "malformed" THEN "xml" ELSE e

\* Only a family that answered has rows; when the first did not, what it failed
\* with is the first error; a list was answered for, an error was met.
ErrorInv ==
  /\ \A family \in Families : answer[family].end # "ok" => answer[family].body = <<>>
  /\ pc = "status" => answer["input_proxy"].end = "ok"
  /\ call = "channels" /\ pc \in {"video_input", "merge"}
       /\ answer["input_proxy"].end # "ok" =>
       errors # <<>> /\ Head(errors) = Failure(answer["input_proxy"].end)
  /\ outcome = "ok" => \E family \in Families : answer[family].end = "ok"
  /\ call = "channels" /\ outcome # "pending"
       /\ (\A family \in Families : answer[family].end \in {"http", "malformed"}) =>
       outcome = Failure(answer["input_proxy"].end)
  /\ call = "channels" /\ outcome \notin {"pending", "ok"} =>
       \/ \A family \in Families : Ids(answer[family].body) = {}
       \/ answer["status"].end \notin {"unasked", "ok", "http", "unreachable"}
       \/ \E family \in Families : answer[family].end \notin {"ok", "http", "malformed"}

\* What was collected is what the families asked so far have listed.
Inventory == UNION {{family} \X Ids(answer[family].body) : family \in Families}
CollectedInv ==
  /\ pc = "status" => Listed(rows, "input_proxy", answer["input_proxy"].body)
  /\ call = "channels" =>
       /\ pc = "video_input" =>
            Listed(collected, "input_proxy", answer["input_proxy"].body)
       /\ pc = "merge" =>
            IsList(collected) /\ WeaklyAscending(collected) /\ Keys(collected) = Inventory
       /\ outcome = "ok" => Ascending(result) /\ Keys(result) = Inventory

\* A channel's status is what the status document says of it.
Tells(s, body) ==
  \A k \in DOMAIN s :
    /\ s[k].kind \in Families
    /\ s[k].online = IF s[k].kind = "input_proxy" THEN OnlineById(s[k].id, body) ELSE None
ToldInv ==
  /\ pc = "status" => Tells(rows, answer["status"].body)
  /\ Tells(collected, answer["status"].body)
  /\ Tells(result, answer["status"].body)

\* An empty document is a document, without usable rows.
LEMMA EmptyDocument == Document(<<>>) /\ IsSequence(<<>>) /\ Ids(<<>>) = {}
<1>1. DOMAIN <<>> = {} /\ Len(<<>>) = 0 /\ 1 .. 0 = {}
  BY EmptySeq
<1>2. QED
  BY <1>1 DEF Document, IsSequence, Ids

\* The invariant holds when an enumeration is called.
LEMMA InitChannels == Init => AnswerInv /\ CourseInv /\ ErrorInv /\ CollectedInv /\ ToldInv
<1> SUFFICES ASSUME Init
             PROVE  AnswerInv /\ CourseInv /\ ErrorInv /\ CollectedInv /\ ToldInv
  OBVIOUS
<1>1. AnswerInv
  <2>1. answer = [q \in Requests |-> [end |-> "unasked", body |-> <<>>]]
    BY DEF Init, Requests
  <2>2. \A q \in Requests : answer[q].body = <<>> /\ answer[q].end = "unasked"
    BY <2>1
  <2>3. QED
    BY <2>1, <2>2, EmptyDocument DEF AnswerInv, Requests, Families, Init
<1>2. CourseInv
  BY EmptySeq DEF Init, CourseInv, Calls, Families
<1>3. ErrorInv
  BY <1>1 DEF Init, ErrorInv, AnswerInv, Families, Requests
<1>4. CollectedInv /\ ToldInv
  <2>1. DOMAIN <<>> = {}
    OBVIOUS
  <2>2. \A f : Listed(<<>>, f, <<>>)
    BY NothingListed
  <2>3. QED
    BY <2>1, <2>2 DEF Init, CollectedInv, ToldInv, Tells
<1>5. QED
  BY <1>1, <1>2, <1>3, <1>4

\* A recorded answer takes the place of the one before, for that request only.
LEMMA Recorded ==
  ASSUME AnswerInv, NEW q \in Requests, NEW e \in Endings,
         NEW body \in ProxyBodies \cup InputBodies \cup StatusBodies \cup {<<>>},
         Record(q, e, body)
  PROVE  /\ answer' \in [Requests -> [end : Endings \cup {"unasked"},
                   body : ProxyBodies \cup InputBodies \cup StatusBodies \cup {<<>>}]]
         /\ answer'[q].end = e /\ answer'[q].body = body
         /\ \A r \in Requests : r # q => answer'[r] = answer[r]
BY DEF AnswerInv, Record

\* The steps of an enumeration: a family fails, delivers or waits for the status
\* of its cameras; the status comes or does not; the families are merged.
Step ==
  \/ \E f \in Families, e \in Endings \ {"ok"} :
       /\ pc = f /\ Record(f, e, <<>>) /\ UNCHANGED <<arguments, rows>>
       /\ LoaderFails(f, IF e = "malformed" THEN "xml" ELSE e)
  \/ \E f \in Families, body \in ProxyBodies \cup InputBodies :
       /\ pc = f /\ Record(f, "ok", body) /\ UNCHANGED <<arguments, rows>>
       /\ Deliver(f, ParseChannelList(body, f))
  \/ \E body \in ProxyBodies :
       /\ pc = "input_proxy" /\ Record("input_proxy", "ok", body)
       /\ rows' = ParseChannelList(body, "input_proxy") /\ pc' = "status"
       /\ UNCHANGED <<arguments, collected, errors, outcome, result>>
  \/ \E body \in StatusBodies :
       /\ pc = "status" /\ Record("status", "ok", body) /\ UNCHANGED <<arguments, rows>>
       /\ Deliver("input_proxy", ApplyStatus(rows, body))
  \/ \E e \in {"http", "unreachable"} :
       /\ pc = "status" /\ Record("status", e, <<>>) /\ UNCHANGED <<arguments, rows>>
       /\ Deliver("input_proxy", rows)
  \/ \E e \in {"malformed", "auth", "other"}, r \in {"parse", "auth", "other"} :
       /\ pc = "status" /\ Record("status", e, <<>>) /\ UNCHANGED <<arguments, rows>>
       /\ Raise(r)
  \/ Merge
  \/ UNCHANGED vars

\* The actions of the module take no other steps.
LEMMA Steps == [Enumerate]_vars => Step
<1> SUFFICES ASSUME [Enumerate]_vars PROVE Step
  OBVIOUS
<1> USE DEF Step
<1>1. ASSUME NEW f \in Families, FamilyFails(f) PROVE Step
  BY <1>1 DEF FamilyFails
<1>2. CASE ProxyChannels
  BY <1>2, Zenon DEF ProxyChannels, Families
<1>3. CASE VideoInputs
  BY <1>3, Zenon DEF VideoInputs, Families
<1>4. CASE ChannelStatus
  BY <1>4, Zenon DEF ChannelStatus
<1>5. CASE StatusFails
  <2>1. PICK e \in Endings \ {"ok"} :
          /\ pc = "status" /\ Record("status", e, <<>>) /\ UNCHANGED <<arguments, rows>>
          /\ CASE e \in {"http", "unreachable"} -> Deliver("input_proxy", rows)
               [] e = "malformed" -> LoaderFails("input_proxy", "parse")
               [] OTHER -> LoaderFails("input_proxy", e)
    BY <1>5 DEF StatusFails
  <2>2. e \in {"http", "unreachable", "malformed", "auth", "other"}
    BY DEF Endings, Outcomes
  <2>3. CASE e \in {"http", "unreachable"}
    BY <2>1, <2>3
  <2>4. CASE e = "malformed"
    BY <2>1, <2>4 DEF LoaderFails
  <2>5. CASE e \in {"auth", "other"}
    BY <2>1, <2>5 DEF LoaderFails
  <2>6. QED
    BY <2>2, <2>3, <2>4, <2>5
<1>6. CASE Merge \/ UNCHANGED vars
  BY <1>6
<1>7. QED
  BY <1>1, <1>2, <1>3, <1>4, <1>5, <1>6 DEF Enumerate

\* Where a call goes when a family has delivered or failed.
LEMMA Onwards ==
  ASSUME CourseInv, NEW f \in Families, pc = f \/ (pc = "status" /\ f = "input_proxy"),
         UNCHANGED arguments,
         \/ \E s : Deliver(f, s)
         \/ \E e \in {"http", "auth", "unreachable", "other", "xml"} : LoaderFails(f, e)
         \/ \E e \in {"parse", "auth", "other"} : Raise(e)
  PROVE  /\ CourseInv' /\ pc' \in {"done", "video_input", "merge"}
         /\ pc' = "video_input" => f = "input_proxy" /\ call = "channels"
<1> USE DEF CourseInv, arguments, Families, Calls, After
<1>1. ASSUME NEW s, Deliver(f, s)
      PROVE  /\ CourseInv' /\ pc' \in {"done", "video_input", "merge"}
             /\ pc' = "video_input" => f = "input_proxy" /\ call = "channels"
  BY <1>1 DEF Deliver, Return
<1>2. ASSUME NEW e \in {"http", "auth", "unreachable", "other", "xml"}, LoaderFails(f, e)
      PROVE  /\ CourseInv' /\ pc' \in {"done", "video_input", "merge"}
             /\ pc' = "video_input" => f = "input_proxy" /\ call = "channels"
  <2>1. e \in {"http", "xml"} => Append(errors, e) \in Seq({"http", "xml"})
    BY AppendProperties
  <2>2. QED
    BY <1>2, <2>1 DEF LoaderFails, Raise
<1>3. ASSUME NEW e \in {"parse", "auth", "other"}, Raise(e)
      PROVE  /\ CourseInv' /\ pc' \in {"done", "video_input", "merge"}
             /\ pc' = "video_input" => f = "input_proxy" /\ call = "channels"
  BY <1>3 DEF Raise
<1>4. QED
  BY <1>1, <1>2, <1>3

\* What channels() raises again is one of the errors it has counted.
LEMMA HeadOfErrors ==
  ASSUME errors \in Seq({"http", "xml"}), errors # <<>>
  PROVE  Head(errors) \in {"http", "xml"}
BY HeadTailProperties

\* What is raised for an answer that is not "ok".
LEMMA NotOk ==
  ASSUME NEW e \in Endings \ {"ok"}
  PROVE  /\ e \in {"http", "auth", "unreachable", "other", "malformed"}
         /\ (IF e = "malformed" THEN "xml" ELSE e)
              \in {"http", "auth", "unreachable", "other", "xml"}
BY DEF Endings, Outcomes

\* Every step keeps the course of a call.
LEMMA StepCourse == CourseInv /\ Step => CourseInv'
<1> SUFFICES ASSUME CourseInv, Step PROVE CourseInv'
  OBVIOUS
<1>1. CASE Merge
  <2>1. errors # <<>> => Head(errors) \in {"http", "xml"}
    BY HeadOfErrors DEF CourseInv
  <2>2. QED
    BY <1>1, <2>1 DEF Merge, Raise, Return, CourseInv, arguments, Families, Calls
<1>2. CASE UNCHANGED vars
  BY <1>2 DEF vars, CourseInv, arguments
<1>3. ASSUME NEW body \in ProxyBodies, pc = "input_proxy", pc' = "status",
             UNCHANGED <<arguments, collected, errors, outcome, result>>
      PROVE  CourseInv'
  BY <1>3 DEF CourseInv, arguments
<1>4. ASSUME NEW f \in Families, pc = f, UNCHANGED arguments,
             \/ \E s : Deliver(f, s)
             \/ \E e \in Endings \ {"ok"} :
                  LoaderFails(f, IF e = "malformed" THEN "xml" ELSE e)
      PROVE  CourseInv'
  BY <1>4, Onwards, NotOk
<1>5. ASSUME pc = "status", UNCHANGED arguments,
             \/ \E s : Deliver("input_proxy", s)
             \/ \E r \in {"parse", "auth", "other"} : Raise(r)
      PROVE  CourseInv'
  BY <1>5, Onwards DEF Families
<1>6. QED
  BY <1>1, <1>2, <1>3, <1>4, <1>5 DEF Step

\* Every step keeps what was answered a set of documents.
LEMMA StepAnswer == AnswerInv /\ CourseInv /\ Step => AnswerInv'
<1> SUFFICES ASSUME AnswerInv, CourseInv, Step PROVE AnswerInv'
  OBVIOUS
<1>0. /\ "input_proxy" \in Requests /\ "video_input" \in Requests /\ "status" \in Requests
      /\ Families \subseteq Requests /\ "ok" \in Endings /\ "http" \in Endings
      /\ {"http", "unreachable", "malformed", "auth", "other"} \subseteq Endings
      /\ "status" \notin Families
  BY DEF Requests, Families, Endings, Outcomes
<1>b. /\ \A body \in ProxyBodies \cup InputBodies : Document(body)
      /\ \A body \in StatusBodies : IsSequence(body)
      /\ Document(<<>>) /\ IsSequence(<<>>)
  BY ChannelsAssumption, EmptyDocument DEF Document
<1>1. ASSUME NEW f \in Families, NEW e \in Endings,
             NEW body \in ProxyBodies \cup InputBodies \cup {<<>>}, Document(body),
             pc = f, Record(f, e, body), UNCHANGED arguments,
             \/ pc' \in {"done", "merge"}
             \/ pc' \in {"video_input", "status"} /\ f = "input_proxy"
      PROVE  AnswerInv'
  <2>1. /\ answer' \in [Requests -> [end : Endings \cup {"unasked"},
              body : ProxyBodies \cup InputBodies \cup StatusBodies \cup {<<>>}]]
        /\ answer'[f].end = e /\ answer'[f].body = body
        /\ \A r \in Requests : r # f => answer'[r] = answer[r]
    BY <1>0, <1>1, Recorded
  <2>2. /\ \A family \in Families : Document(answer'[family].body)
        /\ IsSequence(answer'["status"].body)
    BY <1>0, <1>1, <2>1 DEF AnswerInv
  <2>3. pc' # "input_proxy" /\ call' = call
    BY <1>1 DEF arguments
  <2>4. pc' = "status" => answer'["status"].body = <<>>
    BY <1>0, <1>1, <2>1 DEF AnswerInv
  <2>5. call = "video_input" => answer'["input_proxy"].end = "unasked"
    BY <1>0, <1>1, <2>1 DEF AnswerInv, CourseInv
  <2>6. pc' \in {"status", "video_input"} => answer'["video_input"].body = <<>>
    BY <1>0, <1>1, <2>1 DEF AnswerInv
  <2>7. QED
    BY <2>1, <2>2, <2>3, <2>4, <2>5, <2>6 DEF AnswerInv
<1>2. ASSUME NEW e \in Endings, NEW body \in StatusBodies \cup {<<>>}, pc = "status",
             Record("status", e, body), UNCHANGED arguments,
             pc' \in {"done", "video_input", "merge"}
      PROVE  AnswerInv'
  <2>1. /\ answer' \in [Requests -> [end : Endings \cup {"unasked"},
              body : ProxyBodies \cup InputBodies \cup StatusBodies \cup {<<>>}]]
        /\ answer'["status"].body = body
        /\ \A r \in Requests : r # "status" => answer'[r] = answer[r]
    BY <1>0, <1>2, Recorded
  <2>2. QED
    BY <1>0, <1>b, <1>2, <2>1 DEF AnswerInv, arguments
<1>3. CASE Merge
  BY <1>3 DEF Merge, Raise, Return, AnswerInv, arguments
<1>4. CASE UNCHANGED vars
  BY <1>4 DEF vars, AnswerInv, arguments
<1>5. ASSUME NEW f \in Families, NEW e \in Endings \ {"ok"}, pc = f, Record(f, e, <<>>),
             UNCHANGED arguments, LoaderFails(f, IF e = "malformed" THEN "xml" ELSE e)
      PROVE  AnswerInv'
  <2>1. pc' \in {"done", "video_input", "merge"} /\ (pc' = "video_input" => f = "input_proxy")
    BY <1>5, Onwards, NotOk
  <2>2. QED
    BY <1>1, <1>b, <1>5, <2>1
<1>6. ASSUME NEW f \in Families, NEW body \in ProxyBodies \cup InputBodies, pc = f,
             Record(f, "ok", body), UNCHANGED arguments,
             Deliver(f, ParseChannelList(body, f))
      PROVE  AnswerInv'
  <2>1. pc' \in {"done", "video_input", "merge"} /\ (pc' = "video_input" => f = "input_proxy")
    BY <1>6, Onwards
  <2>2. QED
    BY <1>0, <1>1, <1>b, <1>6, <2>1
<1>7. ASSUME NEW body \in ProxyBodies, pc = "input_proxy",
             Record("input_proxy", "ok", body), pc' = "status", UNCHANGED arguments
      PROVE  AnswerInv'
  BY <1>0, <1>1, <1>b, <1>7 DEF Families
<1>8. ASSUME NEW e \in Endings, NEW body \in StatusBodies \cup {<<>>}, pc = "status",
             Record("status", e, body), UNCHANGED arguments,
             \/ \E s : Deliver("input_proxy", s)
             \/ \E r \in {"parse", "auth", "other"} : Raise(r)
      PROVE  AnswerInv'
  <2>1. pc' \in {"done", "video_input", "merge"}
    BY <1>8, Onwards DEF Families
  <2>2. QED
    BY <1>2, <1>8, <2>1
<1>9. QED
  BY <1>0, <1>3, <1>4, <1>5, <1>6, <1>7, <1>8 DEF Step

\* What a family has delivered, or nothing when it failed, is collected.
LEMMA Collecting ==
  ASSUME CourseInv, CollectedInv, AnswerInv, AnswerInv',
         NEW f \in Families, pc = f \/ (pc = "status" /\ f = "input_proxy"),
         UNCHANGED arguments,
         \A g \in Families : g # f => answer'[g] = answer[g],
         NEW s, Listed(s, f, answer'[f].body),
         \/ Deliver(f, s)
         \/ s = <<>> /\ \E e \in {"http", "auth", "unreachable", "other", "xml"} : LoaderFails(f, e)
  PROVE  CollectedInv'
<1>0. /\ pc' \in {"done", "video_input", "merge"} /\ call' = call /\ outcome = "pending"
      /\ pc' = "video_input" => f = "input_proxy"
      /\ f \in {"input_proxy", "video_input"}
  BY Onwards DEF arguments, CourseInv, Families
<1>1. CASE call # "channels"
  BY <1>0, <1>1 DEF CollectedInv
<1>2. CASE call = "channels" /\ pc' = "done"
  <2>1. outcome' # "ok"
    BY <1>2 DEF Deliver, LoaderFails, Raise, After
  <2>2. QED
    BY <1>0, <1>2, <2>1 DEF CollectedInv
<1>3. CASE call = "channels" /\ pc' # "done"
  <2>1. /\ pc' = After(f) /\ outcome' = "pending"
        /\ collected' = collected \o s \/ (s = <<>> /\ collected' = collected)
    BY <1>0, <1>3 DEF Deliver, LoaderFails, Raise
  <2>2. s \in Seq({s[k] : k \in DOMAIN s})
    BY DEF Listed, IsList
  <2>3. CASE f = "input_proxy"
    <3>1. collected = <<>> /\ pc' = "video_input"
      BY <2>1, <2>3 DEF CourseInv, After
    <3>2. collected' = s
      BY <2>1, <2>2, <3>1, ConcatEmptySeq
    <3>3. QED
      BY <1>0, <2>1, <2>3, <3>1, <3>2 DEF CollectedInv
  <2>4. CASE f = "video_input"
    <3>1. pc = "video_input" /\ pc' = "merge"
      BY <2>1, <2>4 DEF After
    <3>2. Listed(collected, "input_proxy", answer'["input_proxy"].body)
      BY <1>3, <2>4, <3>1 DEF CollectedInv, Families
    <3>3. collected' = collected \o s
      <4>1. collected \in Seq({collected[k] : k \in DOMAIN collected})
        BY <3>2 DEF Listed, IsList
      <4>2. QED
        BY <2>1, <4>1, ConcatEmptySeq
    <3>4. /\ IsList(collected') /\ WeaklyAscending(collected')
          /\ Keys(collected') = ({"input_proxy"} \X Ids(answer'["input_proxy"].body))
                                \cup ({"video_input"} \X Ids(answer'["video_input"].body))
      BY <2>4, <3>2, <3>3, JoinedFamilies
    <3>5. Inventory' = ({"input_proxy"} \X Ids(answer'["input_proxy"].body))
                      \cup ({"video_input"} \X Ids(answer'["video_input"].body))
      BY DEF Inventory, Families
    <3>6. Keys(collected)' = Inventory'
      BY <3>4, <3>5 DEF Keys
    <3>7. IsList(collected)' /\ WeaklyAscending(collected)'
      BY <3>4 DEF IsList, WeaklyAscending
    <3>8. QED
      BY <2>1, <3>1, <3>6, <3>7 DEF CollectedInv
  <2>5. QED
    BY <1>0, <2>3, <2>4
<1>4. QED
  BY <1>1, <1>2, <1>3

\* Every step keeps what was collected the families' lists.
LEMMA StepCollected ==
  CollectedInv /\ AnswerInv /\ AnswerInv' /\ CourseInv /\ Step => CollectedInv'
<1> SUFFICES ASSUME CollectedInv, AnswerInv, AnswerInv', CourseInv, Step PROVE CollectedInv'
  OBVIOUS
<1>0. /\ "input_proxy" \in Families /\ "status" \in Requests /\ "status" \notin Families
      /\ Families \subseteq Requests /\ "ok" \in Endings
      /\ {"http", "unreachable", "malformed", "auth", "other"} \subseteq Endings
  BY DEF Requests, Families, Endings, Outcomes
<1>1. ASSUME NEW f \in Families, NEW e \in Endings \ {"ok"}, pc = f, Record(f, e, <<>>),
             UNCHANGED arguments, LoaderFails(f, IF e = "malformed" THEN "xml" ELSE e)
      PROVE  CollectedInv'
  <2>1. /\ answer'[f].body = <<>>
        /\ \A g \in Families : g # f => answer'[g] = answer[g]
    BY <1>0, <1>1, Recorded
  <2>2. Listed(<<>>, f, answer'[f].body)
    BY <2>1, NothingListed
  <2>3. QED
    BY <1>1, <2>1, <2>2, NotOk, Collecting
<1>2. ASSUME NEW f \in Families, NEW body \in ProxyBodies \cup InputBodies, pc = f,
             Record(f, "ok", body), UNCHANGED arguments,
             Deliver(f, ParseChannelList(body, f))
      PROVE  CollectedInv'
  <2>1. /\ answer'[f].body = body
        /\ \A g \in Families : g # f => answer'[g] = answer[g]
    BY <1>0, <1>2, Recorded
  <2>2. Listed(ParseChannelList(body, f), f, answer'[f].body)
    BY <2>1, ChannelsAssumption, ParsedIsListed DEF Document
  <2>3. QED
    BY <1>2, <2>1, <2>2, Collecting
<1>3. ASSUME NEW body \in ProxyBodies, pc = "input_proxy",
             Record("input_proxy", "ok", body),
             rows' = ParseChannelList(body, "input_proxy"), pc' = "status",
             UNCHANGED <<arguments, collected, errors, outcome, result>>
      PROVE  CollectedInv'
  <2>1. answer'["input_proxy"].body = body
    BY <1>0, <1>3, Recorded
  <2>2. Listed(ParseChannelList(body, "input_proxy"), "input_proxy", body)
    BY <1>0, ChannelsAssumption, ParsedIsListed DEF Document
  <2>3. outcome' = "pending"
    BY <1>3 DEF CourseInv
  <2>4. QED
    BY <1>3, <2>1, <2>2, <2>3 DEF CollectedInv
<1>4. ASSUME NEW e \in Endings, NEW body \in StatusBodies \cup {<<>>}, pc = "status",
             Record("status", e, body), UNCHANGED arguments, NEW s,
             Listed(s, "input_proxy", answer["input_proxy"].body),
             Deliver("input_proxy", s)
      PROVE  CollectedInv'
  <2>1. \A g \in Families : answer'[g] = answer[g]
    BY <1>0, <1>4, Recorded
  <2>2. Listed(s, "input_proxy", answer'["input_proxy"].body)
    BY <1>0, <1>4, <2>1
  <2>3. QED
    BY <1>0, <1>4, <2>1, <2>2, Collecting
<1>5. ASSUME NEW body \in StatusBodies, pc = "status", Record("status", "ok", body),
             UNCHANGED arguments, Deliver("input_proxy", ApplyStatus(rows, body))
      PROVE  CollectedInv'
  <2>1. Listed(ApplyStatus(rows, body), "input_proxy", answer["input_proxy"].body)
    BY <1>5, StatusApplied DEF CollectedInv
  <2>2. QED
    BY <1>0, <1>4, <1>5, <2>1
<1>6. ASSUME NEW e \in {"http", "unreachable"}, pc = "status", Record("status", e, <<>>),
             UNCHANGED arguments, Deliver("input_proxy", rows)
      PROVE  CollectedInv'
  BY <1>0, <1>4, <1>6 DEF CollectedInv
<1>7. ASSUME NEW r \in {"parse", "auth", "other"}, Raise(r) PROVE CollectedInv'
  BY <1>7 DEF Raise, CollectedInv
<1>8. CASE Merge
  <2>1. call = "channels" /\ answer' = answer /\ call' = call /\ pc' = "done"
    BY <1>8 DEF Merge, CourseInv, arguments, Families, Calls, Raise, Return
  <2>2. IsList(collected) /\ WeaklyAscending(collected) /\ Keys(collected) = Inventory
    BY <1>8, <2>1 DEF CollectedInv, Merge
  <2>3. outcome' = "ok" => result' = Unique(collected)
    <3>1. errors # <<>> => Head(errors) \in {"http", "xml"}
      BY HeadOfErrors DEF CourseInv
    <3>2. QED
      BY <1>8, <3>1 DEF Merge, Raise, Return
  <2>4. outcome' = "ok" => Ascending(result') /\ Keys(result') = Inventory
    BY <2>2, <2>3, UniqueAscends
  <2>5. outcome' = "ok" => Ascending(result)' /\ Keys(result)' = Inventory'
    BY <2>1, <2>4 DEF Ascending, Keys, Inventory
  <2>6. QED
    BY <2>1, <2>5 DEF CollectedInv
<1>9. CASE UNCHANGED vars
  BY <1>9 DEF vars, arguments, CollectedInv, Listed, IsList, WeaklyAscending, Ascending,
              Keys, Inventory
<1>10. QED
  BY <1>1, <1>2, <1>3, <1>5, <1>6, <1>7, <1>8, <1>9 DEF Step

\* An empty list says no more of a status than any document does.
LEMMA TellsNothing == ASSUME NEW body PROVE Tells(<<>>, body)
<1>1. DOMAIN <<>> = {}
  OBVIOUS
<1>2. QED
  BY <1>1 DEF Tells

\* Nor does one list after another.
LEMMA TellsBoth ==
  ASSUME NEW s, IsList(s), NEW t, IsList(t), NEW body, Tells(s, body), Tells(t, body)
  PROVE  Tells(s \o t, body)
<1> DEFINE st == s \o t
<1>1. /\ Len(s) \in Nat /\ Len(t) \in Nat
      /\ DOMAIN s = 1 .. Len(s) /\ DOMAIN t = 1 .. Len(t)
      /\ DOMAIN st = 1 .. Len(s) + Len(t)
      /\ \A k \in 1 .. Len(s) + Len(t) :
           st[k] = IF k <= Len(s) THEN s[k] ELSE t[k - Len(s)]
  BY Joined
<1> HIDE DEF st
<1>2. \A k \in DOMAIN st :
        \/ k \in DOMAIN s /\ st[k] = s[k]
        \/ (k - Len(s)) \in DOMAIN t /\ st[k] = t[k - Len(s)]
  BY <1>1
<1>3. Tells(st, body)
  BY <1>2 DEF Tells
<1>4. QED
  BY <1>3 DEF st

\* Nor does a list without its repetitions.
LEMMA TellsOnce ==
  ASSUME NEW s, IsList(s), NEW body, Tells(s, body)
  PROVE  Tells(Unique(s), body)
<1>1. \A n \in DOMAIN Unique(s) : \E k \in DOMAIN s : Unique(s)[n] = s[k]
  BY UniqueKeepsFirst
<1>2. QED
  BY <1>1 DEF Tells

\* What is collected or returned says what the delivered list says.
LEMMA TellsDelivered ==
  ASSUME CourseInv, CollectedInv, NEW f \in Families,
         pc = f \/ (pc = "status" /\ f = "input_proxy"),
         NEW s, IsList(s), Deliver(f, s),
         NEW body, Tells(s, body), Tells(collected, body), Tells(result, body)
  PROVE  Tells(collected', body) /\ Tells(result', body)
<1>1. CASE call # "channels"
  BY <1>1 DEF Deliver, Return
<1>2. CASE call = "channels"
  <2>1. IsList(collected)
    <3>1. CASE f = "input_proxy"
      <4>1. collected = <<>>
        BY <3>1 DEF CourseInv
      <4>2. QED
        BY <4>1, NothingListed DEF Listed
    <3>2. CASE f = "video_input"
      BY <1>2, <3>2 DEF CollectedInv, Listed
    <3>3. QED
      BY <3>1, <3>2 DEF Families
  <2>2. Tells(collected \o s, body)
    BY <2>1, TellsBoth
  <2>3. QED
    BY <1>2, <2>2 DEF Deliver
<1>3. QED
  BY <1>1, <1>2

\* Every step keeps what is said of a status what the document says.
LEMMA StepTold ==
  AnswerInv /\ CourseInv /\ CollectedInv /\ ToldInv /\ Step => ToldInv'
<1> SUFFICES ASSUME AnswerInv, CourseInv, CollectedInv, ToldInv, Step PROVE ToldInv'
  OBVIOUS
<1> DEFINE body0 == answer["status"].body
<1>0. /\ "input_proxy" \in Families /\ "status" \in Requests /\ "status" \notin Families
      /\ Families \subseteq Requests /\ "ok" \in Endings /\ "http" \in Endings
      /\ {"http", "unreachable", "malformed", "auth", "other"} \subseteq Endings
  BY DEF Requests, Families, Endings, Outcomes
<1>p. Tells(collected, body0) /\ Tells(result, body0)
  BY DEF ToldInv
<1>e. pc = "status" =>
        \A body : Tells(collected, body) /\ Tells(result, body)
  BY TellsNothing DEF CourseInv
<1>1. ASSUME NEW f \in Families, NEW e \in Endings \ {"ok"}, pc = f, Record(f, e, <<>>),
             UNCHANGED arguments, LoaderFails(f, IF e = "malformed" THEN "xml" ELSE e)
      PROVE  ToldInv'
  <2>1. answer'["status"] = answer["status"]
    BY <1>0, <1>1, Recorded
  <2>2. pc' # "status"
    BY <1>1, NotOk, Onwards
  <2>3. collected' = collected /\ result' = result
    BY <1>1 DEF LoaderFails, Raise
  <2>4. QED
    BY <1>p, <2>1, <2>2, <2>3 DEF ToldInv
<1>2. ASSUME NEW f \in Families, NEW body \in ProxyBodies \cup InputBodies, pc = f,
             Record(f, "ok", body), UNCHANGED arguments,
             Deliver(f, ParseChannelList(body, f))
      PROVE  ToldInv'
  <2> DEFINE s == ParseChannelList(body, f)
  <2>1. answer'["status"] = answer["status"]
    BY <1>0, <1>2, Recorded
  <2>2. pc' # "status"
    BY <1>2, Onwards
  <2>3. /\ IsList(s)
        /\ \A k \in DOMAIN s : s[k].kind = f /\ s[k].online = None
    BY ChannelsAssumption, ParsedIsListed DEF Document, Listed
  <2>4. f = "input_proxy" => body0 = <<>>
    <3>1. ASSUME f = "input_proxy" PROVE body0 = <<>>
      <4>1. answer = [q \in Requests |-> [end |-> "unasked", body |-> <<>>]]
        BY <1>2, <3>1 DEF AnswerInv
      <4>2. QED
        BY <1>0, <4>1
    <3>2. QED
      BY <3>1
  <2> HIDE DEF s
  <2>5. Tells(s, body0)
    BY <2>3, <2>4, NothingSaid DEF Tells
  <2>6. Tells(collected', body0) /\ Tells(result', body0)
    BY <1>2, <1>p, <2>3, <2>5, TellsDelivered DEF s
  <2>7. QED
    BY <2>1, <2>2, <2>6 DEF ToldInv
<1>3. ASSUME NEW body \in ProxyBodies, pc = "input_proxy",
             Record("input_proxy", "ok", body),
             rows' = ParseChannelList(body, "input_proxy"), pc' = "status",
             UNCHANGED <<arguments, collected, errors, outcome, result>>
      PROVE  ToldInv'
  <2>1. answer'["status"] = answer["status"]
    BY <1>0, <1>3, Recorded
  <2>2. body0 = <<>>
    <3>1. answer = [q \in Requests |-> [end |-> "unasked", body |-> <<>>]]
      BY <1>3 DEF AnswerInv
    <3>2. QED
      BY <1>0, <3>1
  <2>3. \A k \in DOMAIN rows' : rows'[k].kind = "input_proxy" /\ rows'[k].online = None
    BY <1>0, <1>3, ChannelsAssumption, ParsedIsListed DEF Document, Listed
  <2>4. Tells(rows', body0)
    BY <1>0, <2>2, <2>3, NothingSaid DEF Tells
  <2>5. QED
    BY <1>3, <1>p, <2>1, <2>4 DEF ToldInv
<1>4. ASSUME NEW e \in Endings, NEW body \in StatusBodies \cup {<<>>}, pc = "status",
             Record("status", e, body), UNCHANGED arguments,
             \/ \E s : IsList(s) /\ Tells(s, body) /\ Deliver("input_proxy", s)
             \/ \E r \in {"parse", "auth", "other"} : Raise(r)
      PROVE  ToldInv'
  <2>1. answer'["status"].body = body
    BY <1>0, <1>4, Recorded
  <2>2. pc' # "status"
    BY <1>0, <1>4, Onwards
  <2>3. CASE \E r \in {"parse", "auth", "other"} : Raise(r)
    BY <1>4, <1>e, <2>1, <2>2, <2>3 DEF Raise, ToldInv
  <2>4. CASE \E s : IsList(s) /\ Tells(s, body) /\ Deliver("input_proxy", s)
    <3>1. Tells(collected', body) /\ Tells(result', body)
      BY <1>0, <1>4, <1>e, <2>4, TellsDelivered
    <3>2. QED
      BY <2>1, <2>2, <3>1 DEF ToldInv
  <2>5. QED
    BY <1>4, <2>3, <2>4
<1>5. ASSUME NEW body \in StatusBodies, pc = "status", Record("status", "ok", body),
             UNCHANGED arguments, Deliver("input_proxy", ApplyStatus(rows, body))
      PROVE  ToldInv'
  <2> DEFINE s == ApplyStatus(rows, body)
  <2>1. Listed(rows, "input_proxy", answer["input_proxy"].body)
    BY <1>5 DEF CollectedInv
  <2>2. /\ Listed(s, "input_proxy", answer["input_proxy"].body) /\ DOMAIN s = DOMAIN rows
        /\ \A k \in DOMAIN rows : s[k].online = OnlineById(s[k].id, body)
    BY <2>1, StatusApplied
  <2> HIDE DEF s
  <2>3. IsList(s) /\ Tells(s, body)
    BY <1>0, <2>2 DEF Tells, Listed
  <2>4. QED
    BY <1>0, <1>4, <1>5, <2>3 DEF s
<1>6. ASSUME NEW e \in {"http", "unreachable"}, pc = "status", Record("status", e, <<>>),
             UNCHANGED arguments, Deliver("input_proxy", rows)
      PROVE  ToldInv'
  <2>1. IsList(rows) /\ Tells(rows, <<>>)
    BY <1>6 DEF ToldInv, CollectedInv, Listed, AnswerInv
  <2>2. QED
    BY <1>0, <1>4, <1>6, <2>1
<1>7. CASE Merge
  <2>1. answer' = answer /\ pc' = "done" /\ collected' = collected
    BY <1>7 DEF Merge, Raise, Return
  <2>2. IsList(collected)
    BY <1>7 DEF CollectedInv, Merge, CourseInv, Families, Calls
  <2>3. Tells(Unique(collected), body0)
    BY <1>p, <2>2, TellsOnce
  <2>4. Tells(result', body0)
    BY <1>7, <1>p, <2>3 DEF Merge, Raise, Return
  <2>5. QED
    BY <1>p, <2>1, <2>4 DEF ToldInv
<1>8. CASE UNCHANGED vars
  BY <1>8 DEF vars, ToldInv, Tells
<1>9. QED
  BY <1>0, <1>1, <1>2, <1>3, <1>4, <1>5, <1>6, <1>7, <1>8 DEF Step

\* The first of the errors stays the first.
LEMMA FirstErrorStays ==
  ASSUME errors \in Seq({"http", "xml"}), NEW r \in {"http", "xml"}
  PROVE  /\ Append(errors, r) # <<>>
         /\ errors # <<>> => Head(Append(errors, r)) = Head(errors)
         /\ errors = <<>> => Head(Append(errors, r)) = r
<1>1. /\ Append(errors, r) \in Seq({"http", "xml"}) /\ Append(errors, r) # <<>>
      /\ Len(Append(errors, r)) = Len(errors) + 1 /\ Len(errors) \in Nat
      /\ \A i \in 1 .. Len(errors) : Append(errors, r)[i] = errors[i]
      /\ Append(errors, r)[Len(errors) + 1] = r
  BY AppendProperties, LenProperties
<1>2. Head(Append(errors, r)) = Append(errors, r)[1]
  BY <1>1, HeadTailProperties
<1>3. CASE errors = <<>>
  <2>1. Len(errors) = 0
    BY <1>3, EmptySeq
  <2>2. QED
    BY <1>1, <1>2, <1>3, <2>1
<1>4. CASE errors # <<>>
  <2>1. Len(errors) # 0 /\ Head(errors) = errors[1]
    BY <1>4, EmptySeq, HeadTailProperties
  <2>2. QED
    BY <1>1, <1>2, <1>4, <2>1
<1>5. QED
  BY <1>3, <1>4

\* Every step keeps the first failure as the first error, returns only what some
\* family answered, and raises it when neither did.
LEMMA StepError ==
  AnswerInv /\ CourseInv /\ CollectedInv /\ ErrorInv /\ Step => ErrorInv'
<1> SUFFICES ASSUME AnswerInv, CourseInv, CollectedInv, ErrorInv, Step PROVE ErrorInv'
  OBVIOUS
<1>0. /\ "input_proxy" \in Families /\ "status" \in Requests /\ "status" \notin Families
      /\ Families \subseteq Requests /\ "ok" \in Endings /\ "http" \in Endings
      /\ {"http", "unreachable", "malformed", "auth", "other"} \subseteq Endings
      /\ Families = {"input_proxy", "video_input"}
  BY DEF Requests, Families, Endings, Outcomes
<1>1. ASSUME NEW f \in Families, NEW e \in Endings \ {"ok"}, pc = f, Record(f, e, <<>>),
             UNCHANGED arguments, LoaderFails(f, IF e = "malformed" THEN "xml" ELSE e)
      PROVE  ErrorInv'
  <2> DEFINE r == Failure(e)
  <2>1. /\ answer'[f].end = e /\ answer'[f].body = <<>>
        /\ \A g \in Families : g # f => answer'[g] = answer[g]
    BY <1>0, <1>1, Recorded
  <2>2. outcome = "pending" /\ call' = call
    BY <1>1 DEF CourseInv, Families, arguments
  <2>3. \A g \in Families : answer'[g].end # "ok" => answer'[g].body = <<>>
    BY <2>1 DEF ErrorInv
  <2>4. pc' # "status" /\ (pc' = "merge" => f = "video_input")
    BY <1>0, <1>1, <2>2 DEF LoaderFails, Raise, After
  <2>5. CASE call = "channels" /\ r \in {"http", "xml"}
    <3>1. errors' = Append(errors, r) /\ outcome' = outcome
      BY <1>1, <2>5 DEF LoaderFails, Failure
    <3>2. errors \in Seq({"http", "xml"}) /\ (f = "input_proxy" => errors = <<>>)
      BY <1>1 DEF CourseInv
    <3>3. errors' # <<>>
      BY <2>5, <3>1, <3>2, FirstErrorStays
    <3>4. answer'["input_proxy"].end # "ok" =>
            Head(errors') = Failure(answer'["input_proxy"].end)
      <4>1. CASE f = "input_proxy"
        BY <2>1, <2>5, <3>1, <3>2, <4>1, FirstErrorStays
      <4>2. CASE f = "video_input"
        <5>1. answer'["input_proxy"] = answer["input_proxy"]
          BY <1>0, <2>1, <4>2
        <5>2. answer["input_proxy"].end # "ok" =>
                errors # <<>> /\ Head(errors) = Failure(answer["input_proxy"].end)
          BY <1>1, <2>5, <4>2 DEF ErrorInv
        <5>3. QED
          BY <2>5, <3>1, <3>2, <5>1, <5>2, FirstErrorStays
      <4>3. QED
        BY <1>0, <4>1, <4>2
    <3>5. QED
      BY <2>2, <2>3, <2>4, <3>1, <3>3, <3>4 DEF ErrorInv
  <2>6. CASE ~ (call = "channels" /\ r \in {"http", "xml"})
    <3>1. outcome' = r /\ pc' = "done"
      BY <1>1, <2>6 DEF LoaderFails, Raise, Failure
    <3>2. r \notin {"pending", "ok"}
      BY NotOk DEF Failure
    <3>3. call = "channels" => e \notin {"ok", "http", "malformed"}
      BY <2>6 DEF Failure
    <3>4. QED
      BY <2>1, <2>2, <2>3, <3>1, <3>2, <3>3 DEF ErrorInv
  <2>7. QED
    BY <2>5, <2>6
<1>2. ASSUME NEW f \in Families, NEW body \in ProxyBodies \cup InputBodies, pc = f,
             Record(f, "ok", body), UNCHANGED arguments,
             \/ \E s : Deliver(f, s)
             \/ pc' = "status" /\ f = "input_proxy"
                /\ UNCHANGED <<collected, errors, outcome, result>>
      PROVE  ErrorInv'
  <2>1. /\ answer'[f].end = "ok"
        /\ \A g \in Families : g # f => answer'[g] = answer[g]
    BY <1>0, <1>2, Recorded
  <2>2. /\ outcome = "pending" /\ errors' = errors /\ call' = call
        /\ outcome' \in {"pending", "ok"}
    BY <1>2 DEF CourseInv, Families, arguments, Deliver, Return
  <2>3. f = "video_input" => pc' \in {"merge", "done"}
    BY <1>0, <1>2 DEF Deliver, Return, After
  <2>4. f = "video_input" => pc = "video_input"
    BY <1>2
  <2>5. (pc' = "status") => f = "input_proxy"
    BY <1>0, <2>3
  <2>6. QED
    BY <1>0, <2>1, <2>2, <2>4, <2>5 DEF ErrorInv
<1>3. ASSUME NEW e \in Endings, NEW body \in StatusBodies \cup {<<>>}, pc = "status",
             Record("status", e, body), UNCHANGED arguments,
             \E s : Deliver("input_proxy", s)
      PROVE  ErrorInv'
  <2>1. \A g \in Families : answer'[g] = answer[g]
    BY <1>0, <1>3, Recorded
  <2>2. outcome' \in {"pending", "ok"} /\ call' = call /\ pc' # "status"
    BY <1>3 DEF CourseInv, Families, arguments, Deliver, Return, After
  <2>3. answer["input_proxy"].end = "ok"
    BY <1>3 DEF ErrorInv
  <2>4. QED
    BY <1>0, <2>1, <2>2, <2>3 DEF ErrorInv
<1>4. ASSUME NEW e \in {"malformed", "auth", "other"}, NEW r \in {"parse", "auth", "other"},
             pc = "status", Record("status", e, <<>>), UNCHANGED arguments, Raise(r)
      PROVE  ErrorInv'
  <2>1. answer'["status"].end = e /\ \A g \in Families : answer'[g] = answer[g]
    BY <1>0, <1>4, Recorded
  <2>2. answer["input_proxy"].end = "ok"
    BY <1>4 DEF ErrorInv
  <2>3. outcome' = r /\ pc' = "done"
    BY <1>4 DEF Raise
  <2>4. QED
    BY <1>0, <2>1, <2>2, <2>3 DEF ErrorInv
<1>5. CASE Merge
  <2>1. /\ call = "channels" /\ answer' = answer /\ call' = call /\ pc' = "done"
        /\ outcome = "pending" /\ pc = "merge"
    BY <1>5 DEF Merge, CourseInv, arguments, Families, Calls, Raise, Return
  <2>2. IsList(collected) /\ Keys(collected) = Inventory
    BY <1>5, <2>1 DEF CollectedInv, Merge
  <2>3. ASSUME NEW family \in Families, answer[family].end # "ok"
        PROVE  Ids(answer[family].body) = {}
    BY <2>3, EmptyDocument DEF ErrorInv
  <2>4. (\A family \in Families : answer[family].end # "ok") => collected = <<>>
    <3>1. ASSUME \A family \in Families : answer[family].end # "ok"
          PROVE  collected = <<>>
      <4>1. Inventory = {}
        BY <2>3, <3>1 DEF Inventory
      <4>2. DOMAIN collected = {}
        BY <2>2, <4>1 DEF Keys
      <4>3. QED
        BY <2>2, <4>2, ListDomain
    <3>2. QED
      BY <3>1
  <2>5. answer["input_proxy"].end # "ok" =>
          errors # <<>> /\ Head(errors) = Failure(answer["input_proxy"].end)
    BY <2>1 DEF ErrorInv
  <2>6. CASE errors # <<>> /\ collected = <<>>
    <3>1. Head(errors) \in {"http", "xml"}
      BY <2>6, HeadOfErrors DEF CourseInv
    <3>2. outcome' = Head(errors)
      BY <1>5, <2>6 DEF Merge, Raise
    <3>3. Inventory = {}
      BY <2>2, <2>6 DEF Keys
    <3>4. \A family \in Families : Ids(answer[family].body) = {}
      <4>1. ASSUME NEW family \in Families, NEW id \in Ids(answer[family].body)
            PROVE  FALSE
        <5>1. <<family, id>> \in Inventory
          BY DEF Inventory
        <5>2. QED
          BY <3>3, <5>1
      <4>2. QED
        BY <4>1
    <3>5. (\A family \in Families : answer[family].end \in {"http", "malformed"}) =>
            outcome' = Failure(answer["input_proxy"].end)
      BY <1>0, <2>5, <3>2
    <3>6. QED
      BY <2>1, <3>1, <3>2, <3>4, <3>5 DEF ErrorInv
  <2>7. CASE ~ (errors # <<>> /\ collected = <<>>)
    <3>1. outcome' = "ok"
      BY <1>5, <2>7 DEF Merge, Return
    <3>2. \E family \in Families : answer[family].end = "ok"
      BY <1>0, <2>4, <2>5, <2>7
    <3>3. ~ \A family \in Families : answer[family].end \in {"http", "malformed"}
      BY <3>2
    <3>4. QED
      BY <2>1, <3>1, <3>2, <3>3 DEF ErrorInv
  <2>8. QED
    BY <2>6, <2>7
<1>6. CASE UNCHANGED vars
  BY <1>6 DEF vars, arguments, ErrorInv
<1>7. QED
  BY <1>0, <1>1, <1>2, <1>3, <1>4, <1>5, <1>6 DEF Step

-----------------------------------------------------------------------------
(* What is proved. *)

ChannelsInv == AnswerInv /\ CourseInv /\ ErrorInv /\ CollectedInv /\ ToldInv

\* The inductive invariant: what was answered, collected, counted and returned
\* go together in every state of an enumeration (client.py, 518-561).
THEOREM ChannelsInvariant == Spec => []ChannelsInv
<1>1. Init => ChannelsInv
  BY InitChannels DEF ChannelsInv
<1>2. ChannelsInv /\ [Enumerate]_vars => ChannelsInv'
  <2> SUFFICES ASSUME ChannelsInv, [Enumerate]_vars PROVE ChannelsInv'
    OBVIOUS
  <2>1. Step
    BY Steps
  <2>2. AnswerInv'
    BY <2>1, StepAnswer DEF ChannelsInv
  <2>3. CourseInv'
    BY <2>1, StepCourse DEF ChannelsInv
  <2>4. ErrorInv'
    BY <2>1, StepError DEF ChannelsInv
  <2>5. CollectedInv'
    BY <2>1, <2>2, StepCollected DEF ChannelsInv
  <2>6. ToldInv'
    BY <2>1, StepTold DEF ChannelsInv
  <2>7. QED
    BY <2>2, <2>3, <2>4, <2>5, <2>6 DEF ChannelsInv
<1>3. QED
  BY <1>1, <1>2, PTL DEF Spec

\* A list that channels() returns is the device's inventory, whatever the two
\* documents list and in whatever order: every identity a family listed appears
\* exactly once, adopted cameras first, in ascending order (client.py, 545-561
\* and 802-849).
THEOREM ChannelsListIsInventory == Spec => []ListIsInventory
<1>1. ChannelsInv => ListIsInventory
  <2>1. \A family \in Families : Usable(family) = Ids(answer[family].body)
    BY DEF Usable, Ids
  <2>2. UNION {{family} \X Usable(family) : family \in Families} = Inventory
    BY <2>1 DEF Inventory
  <2>3. QED
    BY <2>2 DEF ChannelsInv, CollectedInv, ListIsInventory, Keys
<1>2. QED
  BY <1>1, ChannelsInvariant, PTL

\* A list comes only from a device that answered for some family, and when
\* channels() could read neither, it raises what the first family failed with
\* (client.py, 535-551).
THEOREM ChannelsBrokenIsNotEmpty == Spec => []BrokenIsNotEmpty
<1>1. ChannelsInv => BrokenIsNotEmpty
  <2> SUFFICES ASSUME ChannelsInv PROVE BrokenIsNotEmpty
    OBVIOUS
  <2>1. "input_proxy" \in Families
    BY DEF Families
  <2>2. pc = "done" => outcome # "pending"
    BY DEF ChannelsInv, CourseInv
  <2>3. QED
    BY <2>1, <2>2 DEF ChannelsInv, ErrorInv, BrokenIsNotEmpty, Failure
<1>2. QED
  BY <1>1, ChannelsInvariant, PTL

\* When one family has channels, a missing or unreadable other one does not keep
\* them from the caller, nor does a status that is not to be had (client.py,
\* 535-561 and 759-799).
THEOREM ChannelsOneFamilyIsEnough == Spec => []OneFamilyIsEnough
<1>1. ChannelsInv => OneFamilyIsEnough
  <2>1. \A family \in Families : Usable(family) = Ids(answer[family].body)
    BY DEF Usable, Ids
  <2>2. QED
    BY <2>1 DEF ChannelsInv, ErrorInv, CourseInv, OneFamilyIsEnough
<1>2. QED
  BY <1>1, ChannelsInvariant, PTL

\* A channel is online or offline only when a row of the status document with
\* its id says so; otherwise it is unknown (client.py, 759-799).
THEOREM ChannelsStatusIsReported == Spec => []StatusIsReported
<1>1. ChannelsInv => StatusIsReported
  <2>1. SUFFICES
          ASSUME ChannelsInv, outcome = "ok", NEW k \in DOMAIN result
          PROVE  LET said == Said(result[k].id, answer["status"].body)
                     told == result[k].kind = "input_proxy" /\ said # {}
                 IN /\ (result[k].online # None) <=> told
                    /\ result[k].online = TRUE => "true" \in said
                    /\ result[k].online = FALSE => said # {"true"}
    BY Zenon DEF StatusIsReported, Said
  <2>2. result[k].online = IF result[k].kind = "input_proxy"
                             THEN OnlineById(result[k].id, answer["status"].body)
                             ELSE None
    BY <2>1 DEF ChannelsInv, ToldInv, Tells
  <2>3. IsSequence(answer["status"].body) /\ None \notin BOOLEAN
    BY <2>1, ChannelsAssumption DEF ChannelsInv, AnswerInv
  <2>4. QED
    BY <2>2, <2>3, OnlineIsSaid
<1>2. QED
  BY <1>1, ChannelsInvariant, PTL
=============================================================================
