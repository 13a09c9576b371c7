------------------------- MODULE AddressOrderProofs --------------------------
(***************************************************************************)
(* The operator< of RelAddr orders every relative address a message can    *)
(* hold by its values, whichever of its fields are set: a weak order, not  *)
(* a total one.  So the map finds an entry with the same values, and stays *)
(* in order; and the set, of absolute addresses only, drops no breakpoint. *)
(***************************************************************************)
EXTENDS AddressOrder, WellFoundedInduction, FiniteSetTheorems, TLAPS

LEMMA OffsetTypes ==
    ASSUME NEW x \in OffsetOrSymbol
    PROVE  x.offset \in Int /\ x.symbol \in Int
BY OrderAssumption DEF OffsetOrSymbol

LEMMA OffsetTransitive ==
    ASSUME NEW x \in OffsetOrSymbol, NEW y \in OffsetOrSymbol, NEW z \in OffsetOrSymbol,
           OffsetLess(x, y), OffsetLess(y, z)
    PROVE  OffsetLess(x, z)
BY OffsetTypes DEF OffsetLess

LEMMA OffsetIrreflexive ==
    ASSUME NEW x \in OffsetOrSymbol
    PROVE  ~OffsetLess(x, x)
BY OffsetTypes DEF OffsetLess

LEMMA RelTypes ==
    ASSUME NEW x \in RelAddr
    PROVE  x.modulename \in Int /\ x.offset \in OffsetOrSymbol
BY OrderAssumption DEF RelAddr

\* RelAddr's operator< is what std::map asks of one on all the relative addresses
\* that a client may send, whether they follow the IDL or not; and two addresses
\* are the same key of deferred_breakpoints exactly when their values agree.
THEOREM RelLessIsWeakOrder ==
    /\ \A x \in RelAddr : ~RelLess(x, x)
    /\ \A x, y, z \in RelAddr : RelLess(x, y) /\ RelLess(y, z) => RelLess(x, z)
    /\ \A x, y \in RelAddr : ~RelLess(x, y) /\ ~RelLess(y, x) <=> SameKey(x, y)
<1>1. \A x \in RelAddr : ~RelLess(x, x)
  BY RelTypes DEF RelLess
<1>2. ASSUME NEW x \in RelAddr, NEW y \in RelAddr, NEW z \in RelAddr,
             RelLess(x, y), RelLess(y, z)
      PROVE  RelLess(x, z)
  <2>1. CASE x.modulename = y.modulename /\ y.modulename = z.modulename
    <3>1. OffsetLess(x.offset, z.offset)
      BY <1>2, <2>1, RelTypes, OffsetTransitive DEF RelLess
    <3>2. x.offset # z.offset
      BY <3>1, RelTypes, OffsetIrreflexive
    <3>3. QED
      BY <2>1, <3>1, <3>2 DEF RelLess
  <2>2. CASE ~(x.modulename = y.modulename /\ y.modulename = z.modulename)
    BY <1>2, <2>2, RelTypes DEF RelLess
  <2>3. QED
    BY <2>1, <2>2
<1>3. ASSUME NEW x \in RelAddr, NEW y \in RelAddr
      PROVE  ~RelLess(x, y) /\ ~RelLess(y, x) <=> SameKey(x, y)
  <2>1. /\ x.modulename \in Int /\ y.modulename \in Int
        /\ x.offset.offset \in Int /\ y.offset.offset \in Int
        /\ x.offset.symbol \in Int /\ y.offset.symbol \in Int
    BY RelTypes, OffsetTypes
  <2>2. OffsetLess(x.offset, y.offset) => x.offset # y.offset
    BY RelTypes, OffsetIrreflexive
  <2>3. OffsetLess(y.offset, x.offset) => x.offset # y.offset
    BY RelTypes, OffsetIrreflexive
  <2>4. QED
    BY <2>1, <2>2, <2>3 DEF RelLess, OffsetLess, SameKey
<1>4. QED
  BY <1>1, <1>2, <1>3

\* What the IDL asks of a client: exactly one of the two fields.
FollowsIDL(x) == x.offset.isset \in {{"offset"}, {"symbol"}}

\* Of the addresses that follow the IDL, different ones share an entry of the
\* map only where one is offset 0 of a module and the other its empty symbol.
THEOREM IDLAddressesTie ==
    ASSUME NEW x \in RelAddr, NEW y \in RelAddr, x # y, FollowsIDL(x), FollowsIDL(y)
    PROVE  ~RelLess(x, y) /\ ~RelLess(y, x) <=>
              /\ x.modulename = y.modulename
              /\ x.offset.isset # y.offset.isset
              /\ x.offset.offset = 0 /\ x.offset.symbol = 0
              /\ y.offset.offset = 0 /\ y.offset.symbol = 0
<1>1. /\ x = [modulename |-> x.modulename, offset |-> x.offset]
      /\ y = [modulename |-> y.modulename, offset |-> y.offset]
  BY DEF RelAddr
<1>2. /\ x.offset = [offset |-> x.offset.offset, symbol |-> x.offset.symbol, isset |-> x.offset.isset]
      /\ y.offset = [offset |-> y.offset.offset, symbol |-> y.offset.symbol, isset |-> y.offset.isset]
  BY RelTypes DEF OffsetOrSymbol
<1>3. /\ x.offset.isset = {"offset"} => x.offset.symbol = 0
      /\ x.offset.isset = {"symbol"} => x.offset.offset = 0
      /\ y.offset.isset = {"offset"} => y.offset.symbol = 0
      /\ y.offset.isset = {"symbol"} => y.offset.offset = 0
  <2>1. \A z \in OffsetOrSymbol : /\ z.isset = {"offset"} => z.symbol = 0
                                  /\ z.isset = {"symbol"} => z.offset = 0
    BY DEF OffsetOrSymbol
  <2>2. QED
    BY <2>1, RelTypes
<1>4. SameKey(x, y) => x.offset.isset # y.offset.isset
  BY <1>1, <1>2 DEF SameKey
<1>5. SameKey(x, y) <=> /\ x.modulename = y.modulename
                        /\ x.offset.isset # y.offset.isset
                        /\ x.offset.offset = 0 /\ x.offset.symbol = 0
                        /\ y.offset.offset = 0 /\ y.offset.symbol = 0
  BY <1>3, <1>4 DEF SameKey, FollowsIDL
<1>6. QED
  BY <1>5, RelLessIsWeakOrder

-----------------------------------------------------------------------------
(* Sequences.                                                              *)

\* A nonempty set of positions has a first one.
LEMMA LeastPosition ==
    ASSUME NEW T, T \subseteq Nat, T # {}
    PROVE  \E x \in T : \A y \in T : x <= y
<1> DEFINE R == OpToRel(<, Nat)
<1>1. IsWellFoundedOn(R, Nat)
  BY NatLessThanWellFounded
<1>2. \A x, y \in Nat : x < y => <<x, y>> \in R
  BY DEF OpToRel
<1> HIDE DEF R
<1>3. PICK x \in T : \A y \in T : ~(<<y, x>> \in R)
  BY <1>1, WFMin
<1>4. ASSUME NEW y \in T
      PROVE  x <= y
  <2>1. x \in Nat /\ y \in Nat
    OBVIOUS
  <2>2. ~(y < x)
    BY <1>2, <1>3, <2>1
  <2>3. QED
    BY <2>1, <2>2
<1>5. QED
  BY <1>4

\* What the concatenation of two sequences holds.
LEMMA Concat ==
    ASSUME NEW S, NEW p \in Seq(S), NEW q \in Seq(S)
    PROVE  /\ p \o q \in Seq(S)
           /\ Len(p \o q) = Len(p) + Len(q)
           /\ \A n \in 1 .. Len(p) + Len(q) :
                 (p \o q)[n] = IF n <= Len(p) THEN p[n] ELSE q[n - Len(p)]
OBVIOUS

LEMMA Single ==
    ASSUME NEW S, NEW k \in S
    PROVE  <<k>> \in Seq(S) /\ Len(<<k>>) = 1 /\ <<k>>[1] = k
OBVIOUS

\* A sequence's ends.
LEMMA Ends ==
    ASSUME NEW S, NEW s \in Seq(S), NEW i \in 1 .. Len(s) + 1
    PROVE  /\ SubSeq(s, 1, i - 1) \in Seq(S) /\ Len(SubSeq(s, 1, i - 1)) = i - 1
           /\ \A n \in 1 .. i - 1 : SubSeq(s, 1, i - 1)[n] = s[n]
           /\ SubSeq(s, i, Len(s)) \in Seq(S) /\ Len(SubSeq(s, i, Len(s))) = Len(s) + 1 - i
           /\ \A n \in 1 .. Len(s) + 1 - i : SubSeq(s, i, Len(s))[n] = s[i + n - 1]
OBVIOUS

\* What inserting and removing at a position leaves where.
LEMMA Inserted ==
    ASSUME NEW S, NEW s \in Seq(S), NEW k \in S, NEW i \in 1 .. Len(s) + 1
    PROVE  /\ InsertAt(s, i, k) \in Seq(S)
           /\ Len(InsertAt(s, i, k)) = Len(s) + 1
           /\ \A n \in 1 .. i - 1 : InsertAt(s, i, k)[n] = s[n]
           /\ InsertAt(s, i, k)[i] = k
           /\ \A n \in i + 1 .. Len(s) + 1 : InsertAt(s, i, k)[n] = s[n - 1]
<1>0. Len(s) \in Nat /\ i \in Int /\ 1 <= i /\ i <= Len(s) + 1 /\ k \in S
  OBVIOUS
<1> DEFINE a == SubSeq(s, 1, i - 1)
           b == SubSeq(s, i, Len(s))
<1>1. /\ a \in Seq(S) /\ Len(a) = i - 1
      /\ \A n \in 1 .. i - 1 : a[n] = s[n]
  BY Ends, Zenon
<1>2. /\ b \in Seq(S) /\ Len(b) = Len(s) + 1 - i
      /\ \A n \in 1 .. Len(s) + 1 - i : b[n] = s[i + n - 1]
  BY Ends, Zenon
<1>3. a = SubSeq(s, 1, i - 1) /\ b = SubSeq(s, i, Len(s))
  OBVIOUS
<1> HIDE DEF a, b
<1>4. a \in Seq(S) /\ b \in Seq(S) /\ k \in S
  BY <1>1, <1>2
<1> DEFINE u == <<k>>
<1>5. u \in Seq(S) /\ Len(u) = 1 /\ u[1] = k
  BY Single
<1> HIDE DEF u
<1> DEFINE c == a \o u
           t == c \o b
<1>6. /\ c \in Seq(S) /\ Len(c) = Len(a) + Len(u)
      /\ \A n \in 1 .. Len(a) + Len(u) :
            c[n] = IF n <= Len(a) THEN a[n] ELSE u[n - Len(a)]
  BY <1>4, <1>5, Concat, Zenon
<1>7. t = InsertAt(s, i, k)
  BY DEF InsertAt, a, b, c, u
<1> HIDE DEF c
<1>8. c \in Seq(S)
  BY <1>6
<1>9. /\ t \in Seq(S) /\ Len(t) = Len(c) + Len(b)
      /\ \A n \in 1 .. Len(c) + Len(b) :
            t[n] = IF n <= Len(c) THEN c[n] ELSE b[n - Len(c)]
  BY <1>4, <1>8, Concat, Zenon
<1> HIDE DEF t
<1>10. Len(c) = i /\ Len(a) + Len(u) = i /\ Len(t) = Len(s) + 1 /\ Len(c) + Len(b) = Len(s) + 1
  BY <1>0, <1>1, <1>2, <1>5, <1>6, <1>9
<1>11. ASSUME NEW n \in 1 .. Len(s) + 1
      PROVE  t[n] = IF n < i THEN s[n] ELSE IF n = i THEN k ELSE s[n - 1]
  <2>0. t[n] = IF n <= i THEN c[n] ELSE b[n - i]
    <3>1. n \in 1 .. Len(c) + Len(b) /\ Len(c) = i
      BY <1>10
    <3>2. t[n] = IF n <= Len(c) THEN c[n] ELSE b[n - Len(c)]
      BY <1>9, <3>1, Zenon
    <3>3. QED
      BY <3>1, <3>2
  <2>1. CASE n < i
    <3>1. n \in 1 .. Len(a) + Len(u) /\ n <= Len(a) /\ n \in 1 .. i - 1
      BY <1>0, <1>1, <1>10, <2>1
    <3>2. c[n] = a[n]
      BY <1>6, <3>1, Zenon
    <3>3. a[n] = s[n]
      BY <1>1, <3>1, Zenon
    <3>4. QED
      BY <1>0, <2>0, <2>1, <3>2, <3>3
  <2>2. CASE n = i
    <3>1. i \in 1 .. Len(a) + Len(u) /\ ~(i <= Len(a)) /\ i - Len(a) = 1
      BY <1>0, <1>1, <1>10
    <3>2. c[i] = IF i <= Len(a) THEN a[i] ELSE u[i - Len(a)]
      BY <1>6, <3>1, Zenon
    <3>3. c[i] = k
      BY <1>5, <3>1, <3>2
    <3>4. QED
      BY <1>0, <2>0, <2>2, <3>3
  <2>3. CASE n > i
    <3>1. n - i \in 1 .. Len(s) + 1 - i /\ i + (n - i) - 1 = n - 1
      BY <1>0, <2>3
    <3>2. b[n - i] = s[n - 1]
      BY <1>2, <3>1
    <3>3. QED
      BY <1>0, <2>0, <2>3, <3>2
  <2>4. QED
    BY <1>0, <2>1, <2>2, <2>3
<1>12. /\ \A n \in 1 .. i - 1 : t[n] = s[n]
      /\ t[i] = k
      /\ \A n \in i + 1 .. Len(s) + 1 : t[n] = s[n - 1]
  BY <1>0, <1>11
<1>13. QED
  BY <1>7, <1>9, <1>10, <1>12, Zenon

LEMMA Removed ==
    ASSUME NEW S, NEW s \in Seq(S), NEW i \in 1 .. Len(s)
    PROVE  /\ RemoveAt(s, i) \in Seq(S)
           /\ Len(RemoveAt(s, i)) = Len(s) - 1
           /\ \A n \in 1 .. i - 1 : RemoveAt(s, i)[n] = s[n]
           /\ \A n \in i .. Len(s) - 1 : RemoveAt(s, i)[n] = s[n + 1]
<1>0. Len(s) \in Nat /\ i \in Int /\ 1 <= i /\ i <= Len(s)
  OBVIOUS
<1> DEFINE a == SubSeq(s, 1, i - 1)
           b == SubSeq(s, i + 1, Len(s))
<1>1. i \in 1 .. Len(s) + 1 /\ i + 1 \in 1 .. Len(s) + 1
  BY <1>0
<1>2. /\ a \in Seq(S) /\ Len(a) = i - 1
      /\ \A n \in 1 .. i - 1 : a[n] = s[n]
  BY <1>1, Ends, Zenon
<1>3. /\ b \in Seq(S) /\ Len(b) = Len(s) + 1 - (i + 1)
      /\ \A n \in 1 .. Len(s) + 1 - (i + 1) : b[n] = s[(i + 1) + n - 1]
  BY <1>1, Ends, Zenon
<1> DEFINE t == a \o b
<1>4. t = RemoveAt(s, i)
  BY DEF RemoveAt
<1> HIDE DEF a, b
<1>5. /\ t \in Seq(S) /\ Len(t) = Len(a) + Len(b)
      /\ \A n \in 1 .. Len(a) + Len(b) :
               t[n] = IF n <= Len(a) THEN a[n] ELSE b[n - Len(a)]
  BY <1>2, <1>3, Concat, Zenon
<1> HIDE DEF t
<1>6. Len(t) = Len(s) - 1 /\ Len(a) + Len(b) = Len(s) - 1
  BY <1>0, <1>2, <1>3, <1>5
<1>7. ASSUME NEW n \in 1 .. Len(s) - 1
      PROVE  t[n] = IF n < i THEN s[n] ELSE s[n + 1]
  <2>0. t[n] = IF n <= Len(a) THEN a[n] ELSE b[n - Len(a)]
    BY <1>5, <1>6
  <2>1. CASE n < i
    BY <1>0, <1>2, <2>0, <2>1
  <2>2. CASE n >= i
    <3>1. n - (i - 1) \in 1 .. Len(s) + 1 - (i + 1) /\ (i + 1) + (n - (i - 1)) - 1 = n + 1
      BY <1>0, <2>2
    <3>2. t[n] = b[n - (i - 1)]
      BY <1>0, <1>2, <2>0, <2>2
    <3>3. b[n - (i - 1)] = s[n + 1]
      BY <1>3, <3>1
    <3>4. QED
      BY <1>0, <2>2, <3>2, <3>3
  <2>3. QED
    BY <1>0, <2>1, <2>2
<1>8. /\ \A n \in 1 .. i - 1 : t[n] = s[n]
      /\ \A n \in i .. Len(s) - 1 : t[n] = s[n + 1]
  BY <1>0, <1>7
<1>9. QED
  BY <1>4, <1>5, <1>6, <1>8, Zenon

-----------------------------------------------------------------------------
(* The map.                                                                *)

Sorted(s) == \A i, j \in 1 .. Len(s) : i < j => RelLess(s[i], s[j])
Elements(s) == {s[i] : i \in 1 .. Len(s)}

\* The tree is in order and holds what is stored: the invariant of the map.
MapInv == keys \in Seq(RelAddr) /\ Sorted(keys) /\ stored = Elements(keys)

\* An element inserted between the smaller and the greater ones keeps the order.
LEMMA InsertSorted ==
    ASSUME NEW s \in Seq(RelAddr), Sorted(s), NEW k \in RelAddr, NEW i \in 1 .. Len(s) + 1,
           \A j \in 1 .. i - 1 : RelLess(s[j], k),
           \A j \in i .. Len(s) : RelLess(k, s[j])
    PROVE  /\ InsertAt(s, i, k) \in Seq(RelAddr)
           /\ Sorted(InsertAt(s, i, k))
           /\ Elements(InsertAt(s, i, k)) = Elements(s) \cup {k}
<1>0. Len(s) \in Nat /\ i \in Int /\ 1 <= i /\ i <= Len(s) + 1
  OBVIOUS
<1>1. /\ InsertAt(s, i, k) \in Seq(RelAddr)
      /\ Len(InsertAt(s, i, k)) = Len(s) + 1
      /\ \A n \in 1 .. i - 1 : InsertAt(s, i, k)[n] = s[n]
      /\ InsertAt(s, i, k)[i] = k
      /\ \A n \in i + 1 .. Len(s) + 1 : InsertAt(s, i, k)[n] = s[n - 1]
  BY Inserted
<1>2. PICK t : t = InsertAt(s, i, k)
  OBVIOUS
<1>3. /\ t \in Seq(RelAddr)
      /\ Len(t) = Len(s) + 1
      /\ \A n \in 1 .. i - 1 : t[n] = s[n]
      /\ t[i] = k
      /\ \A n \in i + 1 .. Len(s) + 1 : t[n] = s[n - 1]
  BY <1>2, <1>1, Zenon
<1>4. ASSUME NEW m \in 1 .. Len(t), NEW n \in 1 .. Len(t), m < n
      PROVE  RelLess(t[m], t[n])
  <2>1. m \in 1 .. Len(s) + 1 /\ n \in 1 .. Len(s) + 1 /\ m \in Int /\ n \in Int
    BY <1>0, <1>3
  <2>2. CASE n < i
    <3>1. t[m] = s[m] /\ t[n] = s[n] /\ m \in 1 .. Len(s) /\ n \in 1 .. Len(s)
      BY <1>0, <1>3, <1>4, <2>1, <2>2
    <3>2. QED
      BY <1>4, <3>1 DEF Sorted
  <2>3. CASE n = i
    BY <1>0, <1>3, <1>4, <2>1, <2>3
  <2>4. CASE m < i /\ i < n
    <3>1. t[m] = s[m] /\ t[n] = s[n - 1] /\ m \in 1 .. Len(s) /\ n - 1 \in 1 .. Len(s)
          /\ m < n - 1
      BY <1>0, <1>3, <1>4, <2>1, <2>4
    <3>2. QED
      BY <3>1 DEF Sorted
  <2>5. CASE m = i
    BY <1>0, <1>3, <1>4, <2>1, <2>5
  <2>6. CASE i < m
    <3>1. t[m] = s[m - 1] /\ t[n] = s[n - 1] /\ m - 1 \in 1 .. Len(s) /\ n - 1 \in 1 .. Len(s)
          /\ m - 1 < n - 1
      BY <1>0, <1>3, <1>4, <2>1, <2>6
    <3>2. QED
      BY <3>1 DEF Sorted
  <2>7. QED
    BY <1>0, <1>4, <2>1, <2>2, <2>3, <2>4, <2>5, <2>6
<1>5. Elements(t) = Elements(s) \cup {k}
  <2>1. ASSUME NEW n \in 1 .. Len(t)
        PROVE  t[n] \in Elements(s) \cup {k}
    <3>1. n \in 1 .. Len(s) + 1
      BY <1>3
    <3>2. CASE n < i
      BY <1>0, <1>3, <3>1, <3>2 DEF Elements
    <3>3. CASE n = i
      BY <1>0, <1>3, <3>1, <3>3
    <3>4. CASE n > i
      <4>1. t[n] = s[n - 1] /\ n - 1 \in 1 .. Len(s)
        BY <1>0, <1>3, <3>1, <3>4
      <4>2. QED
        BY <4>1 DEF Elements
    <3>5. QED
      BY <1>0, <3>1, <3>2, <3>3, <3>4
  <2>2. ASSUME NEW n \in 1 .. Len(s)
        PROVE  s[n] \in Elements(t)
    <3>1. CASE n < i
      <4>1. t[n] = s[n] /\ n \in 1 .. Len(t)
        BY <1>0, <1>3, <3>1
      <4>2. QED
        BY <4>1 DEF Elements
    <3>2. CASE n >= i
      <4>1. t[n + 1] = s[(n + 1) - 1] /\ n + 1 \in 1 .. Len(t) /\ (n + 1) - 1 = n
        BY <1>0, <1>3, <3>2
      <4>2. QED
        BY <4>1 DEF Elements
    <3>3. QED
      BY <1>0, <3>1, <3>2
  <2>3. k \in Elements(t)
    <3>1. t[i] = k /\ i \in 1 .. Len(t)
      BY <1>0, <1>3
    <3>2. QED
      BY <3>1 DEF Elements
  <2>4. QED
    BY <2>1, <2>2, <2>3 DEF Elements
<1>6. Sorted(t)
  BY <1>4 DEF Sorted
<1>7. QED
  BY <1>2, <1>3, <1>5, <1>6, Zenon

\* Removing an element of a tree in order removes no other.
LEMMA RemoveSorted ==
    ASSUME NEW s \in Seq(RelAddr), Sorted(s), NEW i \in 1 .. Len(s)
    PROVE  /\ RemoveAt(s, i) \in Seq(RelAddr)
           /\ Sorted(RemoveAt(s, i))
           /\ Elements(RemoveAt(s, i)) = Elements(s) \ {s[i]}
<1>0. Len(s) \in Nat /\ i \in Int /\ 1 <= i /\ i <= Len(s)
  OBVIOUS
<1>1. PICK t : t = RemoveAt(s, i)
  OBVIOUS
<1>2. /\ t \in Seq(RelAddr)
      /\ Len(t) = Len(s) - 1
      /\ \A n \in 1 .. i - 1 : t[n] = s[n]
      /\ \A n \in i .. Len(s) - 1 : t[n] = s[n + 1]
  BY <1>1, Removed, Zenon
<1>3. ASSUME NEW m \in 1 .. Len(t), NEW n \in 1 .. Len(t), m < n
      PROVE  RelLess(t[m], t[n])
  <2>1. m \in 1 .. Len(s) - 1 /\ n \in 1 .. Len(s) - 1 /\ m \in Int /\ n \in Int
    BY <1>0, <1>2
  <2>2. PICK p \in 1 .. Len(s), q \in 1 .. Len(s) : p < q /\ t[m] = s[p] /\ t[n] = s[q]
    <3>1. CASE n < i
      BY <1>0, <1>2, <1>3, <2>1, <3>1
    <3>2. CASE m < i /\ n >= i
      <4>1. t[m] = s[m] /\ t[n] = s[n + 1]
        BY <1>0, <1>2, <2>1, <3>2
      <4>2. m \in 1 .. Len(s) /\ n + 1 \in 1 .. Len(s) /\ m < n + 1
        BY <1>0, <2>1, <3>2
      <4>3. QED
        BY <4>1, <4>2
    <3>3. CASE m >= i
      BY <1>0, <1>2, <1>3, <2>1, <3>3
    <3>4. QED
      BY <1>0, <1>3, <2>1, <3>1, <3>2, <3>3
  <2>3. QED
    BY <2>2 DEF Sorted
<1>4. \A n \in 1 .. Len(s) : n # i => s[n] # s[i]
  <2>1. \A n \in 1 .. Len(s) : s[n] \in RelAddr
    OBVIOUS
  <2>2. \A n \in 1 .. Len(s) : n < i \/ i < n \/ n = i
    BY <1>0
  <2>3. QED
    BY <2>1, <2>2, RelLessIsWeakOrder DEF Sorted
<1>5. Elements(t) = Elements(s) \ {s[i]}
  <2>1. ASSUME NEW n \in 1 .. Len(t)
        PROVE  t[n] \in Elements(s) \ {s[i]}
    <3>1. PICK p \in 1 .. Len(s) : p # i /\ t[n] = s[p]
      <4>1. CASE n < i
        BY <1>0, <1>2, <4>1
      <4>2. CASE n >= i
        BY <1>0, <1>2, <4>2
      <4>3. QED
        BY <1>0, <1>2, <4>1, <4>2
    <3>2. QED
      BY <1>4, <3>1 DEF Elements
  <2>2. ASSUME NEW n \in 1 .. Len(s), n # i
        PROVE  s[n] \in Elements(t)
    <3>1. CASE n < i
      <4>1. t[n] = s[n] /\ n \in 1 .. Len(t)
        BY <1>0, <1>2, <3>1
      <4>2. QED
        BY <4>1 DEF Elements
    <3>2. CASE n > i
      <4>1. t[n - 1] = s[(n - 1) + 1] /\ n - 1 \in 1 .. Len(t) /\ (n - 1) + 1 = n
        BY <1>0, <1>2, <3>2
      <4>2. QED
        BY <4>1 DEF Elements
    <3>3. QED
      BY <1>0, <2>2, <3>1, <3>2
  <2>3. QED
    BY <2>1, <2>2 DEF Elements
<1>6. Sorted(t)
  BY <1>3 DEF Sorted
<1>7. QED
  BY <1>1, <1>2, <1>5, <1>6, Zenon

\* What the search for a lower bound finds in a tree that is in order.
LEMMA LowerBoundFacts ==
    ASSUME NEW k \in RelAddr, keys \in Seq(RelAddr)
    PROVE  /\ LowerBound(k) \in 1 .. Len(keys) + 1
           /\ \A j \in 1 .. LowerBound(k) - 1 : RelLess(keys[j], k)
           /\ LowerBound(k) <= Len(keys) => ~RelLess(keys[LowerBound(k)], k)
<1>0. Len(keys) \in Nat
  OBVIOUS
<1> DEFINE T == {i \in 1 .. Len(keys) + 1 : i <= Len(keys) => ~RelLess(keys[i], k)}
<1>1. T \subseteq Nat /\ Len(keys) + 1 \in T
  BY <1>0
<1>2. \A i \in 1 .. Len(keys) + 1 : i \in T <=> (i <= Len(keys) => ~RelLess(keys[i], k))
  OBVIOUS
<1>3. T \subseteq 1 .. Len(keys) + 1
  OBVIOUS
<1> HIDE DEF T
<1>4. PICK i \in T : \A j \in T : i <= j
  BY <1>1, LeastPosition
<1>5. ASSUME NEW j \in 1 .. i - 1
      PROVE  RelLess(keys[j], k)
  <2>1. j \in 1 .. Len(keys) + 1 /\ j < i
    BY <1>0, <1>4, <1>3
  <2>2. j \notin T
    BY <1>4, <1>3, <2>1
  <2>3. QED
    BY <1>2, <2>1, <2>2
<1>6. \E n \in 1 .. Len(keys) + 1 :
         /\ \A j \in 1 .. n - 1 : RelLess(keys[j], k)
         /\ n <= Len(keys) => ~RelLess(keys[n], k)
  BY <1>2, <1>4, <1>5, <1>3
<1>7. QED
  BY <1>6, Zenon DEF LowerBound

\* Finding by order is finding by value, and what is found is at the bound.
LEMMA CountMeans ==
    ASSUME NEW k \in RelAddr, MapInv
    PROVE  /\ Count(k) <=> \E x \in stored : SameKey(x, k)
           /\ Count(k) => /\ LowerBound(k) \in 1 .. Len(keys)
                          /\ SameKey(keys[LowerBound(k)], k)
           /\ ~Count(k) => \A j \in LowerBound(k) .. Len(keys) : RelLess(k, keys[j])
<1>0. Len(keys) \in Nat /\ keys \in Seq(RelAddr) /\ \A j \in 1 .. Len(keys) : keys[j] \in RelAddr
  BY DEF MapInv
<1>1. PICK i \in 1 .. Len(keys) + 1 :
         /\ i = LowerBound(k)
         /\ \A j \in 1 .. i - 1 : RelLess(keys[j], k)
         /\ i <= Len(keys) => ~RelLess(keys[i], k)
  BY <1>0, LowerBoundFacts
<1>2. Count(k) <=> i <= Len(keys) /\ ~RelLess(k, keys[i])
  BY <1>1, Zenon DEF Count
<1>3. Count(k) => i \in 1 .. Len(keys) /\ SameKey(keys[i], k)
  BY <1>0, <1>1, <1>2, RelLessIsWeakOrder
<1>4. ASSUME NEW n \in 1 .. Len(keys), SameKey(keys[n], k)
      PROVE  Count(k)
  <2>1. keys[n] \in RelAddr /\ ~RelLess(keys[n], k) /\ ~RelLess(k, keys[n])
    BY <1>0, <1>4, RelLessIsWeakOrder
  <2>2. ~(n \in 1 .. i - 1)
    BY <1>1, <2>1
  <2>3. i <= n /\ i \in 1 .. Len(keys)
    BY <1>0, <2>2
  <2>4. ~RelLess(k, keys[i])
    <3>1. CASE i = n
      BY <2>1, <3>1
    <3>2. CASE i < n
      <4>1. RelLess(keys[i], keys[n])
        BY <2>3, <3>2 DEF MapInv, Sorted
      <4>2. RelLess(k, keys[i]) => RelLess(k, keys[n])
        BY <1>0, <2>3, <4>1, RelLessIsWeakOrder
      <4>3. QED
        BY <2>1, <4>2
    <3>3. QED
      BY <1>0, <2>3, <3>1, <3>2
  <2>5. QED
    BY <1>2, <2>3, <2>4
<1>5. ASSUME ~Count(k), NEW j \in i .. Len(keys)
      PROVE  RelLess(k, keys[j])
  <2>1. i \in 1 .. Len(keys) /\ j \in 1 .. Len(keys) /\ RelLess(k, keys[i])
    BY <1>0, <1>2, <1>5
  <2>2. CASE i = j
    BY <2>1, <2>2
  <2>3. CASE i < j
    <3>1. RelLess(keys[i], keys[j])
      BY <2>1, <2>3 DEF MapInv, Sorted
    <3>2. QED
      BY <1>0, <2>1, <3>1, RelLessIsWeakOrder
  <2>4. QED
    BY <2>1, <2>2, <2>3
<1>6. (\E x \in stored : SameKey(x, k)) <=> \E n \in 1 .. Len(keys) : SameKey(keys[n], k)
  BY DEF MapInv, Elements
<1>7. QED
  BY <1>1, <1>3, <1>4, <1>5, <1>6

\* Of the elements of a tree in order, one alone has a key's values.
LEMMA OneHasKey ==
    ASSUME NEW s \in Seq(RelAddr), Sorted(s), NEW k \in RelAddr,
           NEW i \in 1 .. Len(s), SameKey(s[i], k)
    PROVE  {x \in Elements(s) : ~SameKey(x, k)} = Elements(s) \ {s[i]}
<1>1. ASSUME NEW n \in 1 .. Len(s), SameKey(s[n], k)
      PROVE  n = i
  <2>1. s[n] \in RelAddr /\ s[i] \in RelAddr /\ SameKey(s[n], s[i])
    BY <1>1 DEF SameKey
  <2>2. ~RelLess(s[n], s[i]) /\ ~RelLess(s[i], s[n])
    BY <2>1, RelLessIsWeakOrder
  <2>3. ~(n < i) /\ ~(i < n)
    BY <2>2 DEF Sorted
  <2>4. QED
    BY <2>3
<1>2. QED
  BY <1>1 DEF Elements

\* Every operation keeps the tree in order and its contents those stored.
LEMMA MapInvariant == Spec => []MapInv
<1>1. Init => MapInv
  BY DEF Init, MapInv, Sorted, Elements
<1>2. MapInv /\ [Next]_vars => MapInv'
  <2> SUFFICES ASSUME MapInv, [Next]_vars
               PROVE  MapInv'
    OBVIOUS
  <2>0. keys \in Seq(RelAddr) /\ Sorted(keys) /\ stored = Elements(keys)
    BY DEF MapInv
  <2>1. ASSUME NEW k \in RelAddr, Defer(k)
        PROVE  MapInv'
    <3>1. PICK i : i = LowerBound(k)
      OBVIOUS
    <3>2. /\ i \in 1 .. Len(keys) + 1
          /\ \A j \in 1 .. i - 1 : RelLess(keys[j], k)
      BY <2>0, <3>1, LowerBoundFacts, Zenon
    <3>3. \A j \in i .. Len(keys) : RelLess(k, keys[j])
      BY <2>1, <3>1, CountMeans, Zenon DEF Defer
    <3>4. keys' = InsertAt(keys, i, k)
      BY <2>1, <3>1, Zenon DEF Defer
    <3>5. keys' \in Seq(RelAddr) /\ Sorted(keys') /\ Elements(keys') = Elements(keys) \cup {k}
      BY <2>0, <3>2, <3>3, <3>4, InsertSorted, Zenon
    <3>6. QED
      BY <2>0, <2>1, <3>5, Zenon DEF Defer, MapInv
  <2>2. ASSUME NEW k \in RelAddr, Withdraw(k)
        PROVE  MapInv'
    <3>1. PICK i : i = LowerBound(k)
      OBVIOUS
    <3>2. i \in 1 .. Len(keys) /\ SameKey(keys[i], k)
      BY <2>2, <3>1, CountMeans, Zenon DEF Withdraw
    <3>3. keys' = RemoveAt(keys, i)
      BY <2>2, <3>1, Zenon DEF Withdraw
    <3>4. /\ keys' \in Seq(RelAddr) /\ Sorted(keys')
          /\ Elements(keys') = Elements(keys) \ {keys[i]}
      BY <2>0, <3>2, <3>3, RemoveSorted, Zenon
    <3>5. {x \in Elements(keys) : ~SameKey(x, k)} = Elements(keys) \ {keys[i]}
      BY <2>0, <3>2, OneHasKey, Zenon
    <3>6. stored' = {x \in Elements(keys) : ~SameKey(x, k)}
      BY <2>0, <2>2, Zenon DEF Withdraw
    <3>7. QED
      BY <3>4, <3>5, <3>6, Zenon DEF MapInv
  <2>3. ASSUME UNCHANGED <<keys, stored>>
        PROVE  MapInv'
    BY <2>0, <2>3, Zenon DEF MapInv, Sorted, Elements
  <2>4. QED
    BY <2>1, <2>2, <2>3 DEF Next, vars, SetCount, Erase
<1>3. QED
  BY <1>1, <1>2, PTL DEF Spec

\* Whatever clients defer and withdraw, deferred_breakpoints holds the addresses
\* that were stored and finds one by its operator< exactly when one with the same
\* values was.
THEOREM MapAgreesHolds == Spec => []MapAgrees
<1>1. MapInv => MapAgrees
  <2>1. MapInv => {keys[i] : i \in DOMAIN keys} = stored
    BY DEF MapInv, Elements
  <2>2. QED
    BY <2>1, CountMeans DEF MapAgrees
<1>2. QED
  BY <1>1, MapInvariant, PTL

-----------------------------------------------------------------------------
(* The set.                                                                *)

\* The breakpoints getBreakpoints makes: absolute ones.
Absolute ==
    [addr  : [absaddr : Int, reladdr : {NoRelAddr}, isset : {{"absaddr"}}],
     count : Int]

LEMMA AbsoluteFields ==
    ASSUME NEW x \in Absolute
    PROVE  /\ x.addr.absaddr \in Int /\ x.count \in Int
           /\ x = [addr |-> x.addr, count |-> x.count]
           /\ x.addr = [absaddr |-> x.addr.absaddr, reladdr |-> NoRelAddr, isset |-> {"absaddr"}]
BY DEF Absolute

\* On the absolute breakpoints, which are all that getBreakpoints makes, the
\* operator< of Breakpoint is a strict total order: two are neither less only if
\* they are equal, so the set keeps different ones apart.
THEOREM BreakpointLessIsTotalOrder ==
    /\ \A x \in Absolute : ~BreakpointLess(x, x)
    /\ \A x, y, z \in Absolute :
           BreakpointLess(x, y) /\ BreakpointLess(y, z) => BreakpointLess(x, z)
    /\ \A x, y \in Absolute : x # y => BreakpointLess(x, y) \/ BreakpointLess(y, x)
<1>1. \A x \in Absolute : x.addr.absaddr \in Int /\ x.count \in Int
  BY AbsoluteFields
<1>2. ASSUME NEW x \in Absolute, NEW y \in Absolute
      PROVE  BreakpointLess(x, y) <=>
                \/ x.addr.absaddr < y.addr.absaddr
                \/ x.addr.absaddr = y.addr.absaddr /\ x.count < y.count
  <2>1. x.addr = y.addr <=> x.addr.absaddr = y.addr.absaddr
    BY AbsoluteFields
  <2>2. x.addr.reladdr = y.addr.reladdr
    BY DEF Absolute
  <2>3. AddrLess(x.addr, y.addr) <=> x.addr.absaddr < y.addr.absaddr
    BY <2>2, Zenon DEF AddrLess
  <2>4. x.addr.absaddr < y.addr.absaddr => x.addr.absaddr # y.addr.absaddr
    BY <1>1
  <2>5. QED
    BY <2>1, <2>3, <2>4, Zenon DEF BreakpointLess
<1>3. \A x \in Absolute : ~BreakpointLess(x, x)
  <2>1. ASSUME NEW x \in Absolute
        PROVE  ~(x.addr.absaddr < x.addr.absaddr) /\ ~(x.count < x.count)
    BY <1>1
  <2>2. QED
    BY <1>2, <2>1, Zenon
<1>4. ASSUME NEW x \in Absolute, NEW y \in Absolute, NEW z \in Absolute,
             BreakpointLess(x, y), BreakpointLess(y, z)
      PROVE  BreakpointLess(x, z)
  <2>1. /\ \/ x.addr.absaddr < y.addr.absaddr
           \/ x.addr.absaddr = y.addr.absaddr /\ x.count < y.count
        /\ \/ y.addr.absaddr < z.addr.absaddr
           \/ y.addr.absaddr = z.addr.absaddr /\ y.count < z.count
    <3>1. BreakpointLess(x, y) => \/ x.addr.absaddr < y.addr.absaddr
                                  \/ x.addr.absaddr = y.addr.absaddr /\ x.count < y.count
      BY <1>2, Zenon
    <3>2. BreakpointLess(y, z) => \/ y.addr.absaddr < z.addr.absaddr
                                  \/ y.addr.absaddr = z.addr.absaddr /\ y.count < z.count
      BY <1>2, Zenon
    <3>3. QED
      BY <1>4, <3>1, <3>2, Zenon
  <2>2. \/ x.addr.absaddr < z.addr.absaddr
        \/ x.addr.absaddr = z.addr.absaddr /\ x.count < z.count
    <3>1. /\ x.addr.absaddr \in Int /\ y.addr.absaddr \in Int /\ z.addr.absaddr \in Int
          /\ x.count \in Int /\ y.count \in Int /\ z.count \in Int
      BY <1>1
    <3>2. QED
      BY <2>1, <3>1
  <2>3. QED
    BY <1>2, <2>2, Zenon
<1>5. ASSUME NEW x \in Absolute, NEW y \in Absolute, x # y
      PROVE  BreakpointLess(x, y) \/ BreakpointLess(y, x)
  <2>1. x.addr.absaddr # y.addr.absaddr \/ x.count # y.count
    BY <1>5, AbsoluteFields
  <2>2. \/ x.addr.absaddr < y.addr.absaddr \/ y.addr.absaddr < x.addr.absaddr
        \/ x.addr.absaddr = y.addr.absaddr /\ (x.count < y.count \/ y.count < x.count)
    BY <1>1, <2>1
  <2>3. QED
    BY <1>2, <2>2, Zenon
<1>6. QED
  BY <1>3, <1>4, <1>5

\* So an insertion drops none.
LEMMA InsertAdds ==
    ASSUME NEW S \in SUBSET Absolute, NEW b \in Absolute, b \notin S
    PROVE  Insert(b, S) = S \cup {b}
<1>1. ASSUME NEW x \in S
      PROVE  BreakpointLess(x, b) \/ BreakpointLess(b, x)
  BY BreakpointLessIsTotalOrder
<1>2. QED
  BY <1>1 DEF Insert

\* The fold takes some element first, and inserts it into the answer of the rest.
Some(S) == CHOOSE b \in S : TRUE
InsertSome(S, g) ==
    [s \in SUBSET S |-> IF s = {} THEN {} ELSE Insert(Some(s), g[s \ {Some(s)}])]

\* A set built by insertions from the breakpoints of a finite set has all of them.
LEMMA InsertAll ==
    ASSUME NEW S \in SUBSET Absolute, IsFiniteSet(S)
    PROVE  FoldSet(Insert, {}, S) = S
<1> DEFINE g == CHOOSE h : h = InsertSome(S, h)
<1>1. FoldSet(Insert, {}, S) = g[S]
  BY Zenon DEF FoldSet, MapThenFoldSet, InsertSome, Some
<1>2. ASSUME NEW s \in SUBSET S, s # {}
      PROVE  Some(s) \in s /\ Insert(Some(s), s \ {Some(s)}) = s
  <2>1. Some(s) \in s
    BY <1>2, Zenon DEF Some
  <2>2. QED
    BY <2>1, InsertAdds
<1>3. g = InsertSome(S, g)
  <2> DEFINE same == [s \in SUBSET S |-> s]
  <2>1. ASSUME NEW s \in SUBSET S
        PROVE  same[s] = IF s = {} THEN {} ELSE Insert(Some(s), same[s \ {Some(s)}])
    <3>1. same[s] = s /\ same[s \ {Some(s)}] = s \ {Some(s)}
      OBVIOUS
    <3>2. QED
      BY <1>2, <3>1
  <2>2. same = InsertSome(S, same)
    BY <2>1, Zenon DEF InsertSome
  <2>3. QED
    BY <2>2, Zenon
<1> HIDE DEF g
<1>4. ASSUME NEW s \in SUBSET S
      PROVE  g[s] = IF s = {} THEN {} ELSE Insert(Some(s), g[s \ {Some(s)}])
  BY <1>3, Zenon DEF InsertSome
<1> DEFINE Wrong == {s \in SUBSET S : g[s] # s}
<1>5. Wrong = {}
  <2> SUFFICES ASSUME Wrong # {}
               PROVE  FALSE
    OBVIOUS
  <2> DEFINE Sizes == {Cardinality(s) : s \in Wrong}
  <2>1. \A s \in SUBSET S : IsFiniteSet(s) /\ Cardinality(s) \in Nat
    BY FS_Subset, FS_CardinalityType
  <2>2. Sizes \subseteq Nat /\ Sizes # {}
    BY <2>1
  <2>3. PICK n \in Sizes : \A m \in Sizes : n <= m
    <3> HIDE DEF Sizes
    <3>1. QED
      BY <2>2, LeastPosition
  <2>4. PICK s \in Wrong : Cardinality(s) = n
    OBVIOUS
  <2>5. s # {}
    BY <1>4
  <2>6. Some(s) \in s
    BY <1>2, <2>5
  <2>7. Cardinality(s \ {Some(s)}) = Cardinality(s) - 1
    BY <2>1, <2>6, FS_RemoveElement
  <2>8. s \ {Some(s)} \notin Wrong
    <3>1. Cardinality(s) \in Nat /\ ~(n <= Cardinality(s \ {Some(s)}))
      BY <2>1, <2>4, <2>7
    <3>2. Cardinality(s \ {Some(s)}) \notin Sizes
      BY <2>3, <3>1, Zenon
    <3>3. QED
      BY <3>2
  <2>9. g[s] = s
    BY <1>2, <1>4, <2>5, <2>6, <2>8
  <2>10. QED
    BY <2>9
<1>6. g[S] = S
  BY <1>5
<1>7. QED
  BY <1>1, <1>6

\* A pointer or a count that went over the wire as an i64 comes back unchanged.
LEMMA CastsBack ==
    ASSUME NEW n \in 0 .. Word - 1
    PROVE  Signed(n) \in Int /\ Pointer(Signed(n)) = n
<1>1. Word \in Nat \ {0}
  BY WordAssumption
<1>2. n % Word = n
  BY <1>1
<1>3. (n - Word) % Word = n
  BY <1>1
<1>4. QED
  BY <1>1, <1>2, <1>3 DEF Signed, Pointer

BreakpointsInv ==
    DOMAIN breakpoints \subseteq Pointers /\ \A p \in DOMAIN breakpoints : breakpoints[p] \in Counts

LEMMA BreakpointsInvariant == Spec => []BreakpointsInv
<1>1. Init => BreakpointsInv
  BY DEF Init, BreakpointsInv
<1>2. BreakpointsInv /\ [Next]_vars => BreakpointsInv'
  <2> SUFFICES ASSUME BreakpointsInv, [Next]_vars
               PROVE  BreakpointsInv'
    OBVIOUS
  <2>1. ASSUME NEW p \in Pointers, NEW n \in Counts, SetCount(p, n)
        PROVE  BreakpointsInv'
    BY <2>1 DEF SetCount, BreakpointsInv
  <2>2. ASSUME NEW p \in Pointers, Erase(p)
        PROVE  BreakpointsInv'
    BY <2>2 DEF Erase, BreakpointsInv
  <2>3. ASSUME UNCHANGED breakpoints
        PROVE  BreakpointsInv'
    BY <2>3 DEF BreakpointsInv
  <2>4. QED
    BY <2>1, <2>2, <2>3 DEF Next, vars, Defer, Withdraw
<1>3. QED
  BY <1>1, <1>2, PTL DEF Spec

\* Whatever is set and counted down, getBreakpoints answers with every breakpoint
\* of the table, and with its address and its count.
THEOREM AnswerCompleteHolds == Spec => []AnswerComplete
<1>1. ASSUME BreakpointsInv
      PROVE  AnswerComplete
  <2> DEFINE P == DOMAIN breakpoints
             E == {Entry(p) : p \in P}
  <2>1. \A p \in P : p \in 0 .. Word - 1 /\ breakpoints[p] \in 0 .. Word - 1
    BY <1>1, WordAssumption DEF BreakpointsInv
  <2>2. IsFiniteSet(E)
    <3> DEFINE f == [p \in P |-> Entry(p)]
    <3>1. IsFiniteSet(P)
      <4>1. IsFiniteSet(0 .. Word - 1)
        BY WordAssumption, FS_Interval
      <4>2. P \in SUBSET (0 .. Word - 1)
        BY <2>1
      <4>3. QED
        BY <4>1, <4>2, FS_Subset, Zenon
    <3>2. f \in [P -> E] /\ \A e \in E : \E p \in P : f[p] = e
      OBVIOUS
    <3>3. f \in Surjection(P, E)
      BY <3>2, Zenon DEF Surjection
    <3>4. QED
      BY <3>1, <3>3, FS_Surjection, Zenon
  <2>3. ASSUME NEW p \in P
        PROVE  /\ Entry(p) \in Absolute
               /\ Pointer(Entry(p).addr.absaddr) = p
               /\ Pointer(Entry(p).count) = breakpoints[p]
    BY <2>1, CastsBack DEF Entry, Absolute
  <2>4. E \in SUBSET Absolute
    BY <2>3
  <2>5. getBreakpoints = E
    BY <2>2, <2>4, InsertAll, Zenon DEF getBreakpoints
  <2> HIDE DEF P
  <2>6. {<<Pointer(b.addr.absaddr), Pointer(b.count)>> : b \in E}
          = {<<p, breakpoints[p]>> : p \in P}
    BY <2>3
  <2>7. QED
    BY <2>5, <2>6, Zenon DEF AnswerComplete, P
<1>2. QED
  BY <1>1, BreakpointsInvariant, PTL

=============================================================================
