------------------------------ MODULE TupleProofs ------------------------------
(***************************************************************************)
(* Proofs about module Tuple: for any values, any number of buckets and    *)
(* any range of the hash, a match is found in the bucket that is searched. *)
(***************************************************************************)
EXTENDS Tuple, TLAPS, WellFoundedInduction

(* A match compares lists of the same length whose types agree pairwise,   *)
(* so the names that are joined and hashed are the same.                   *)
LEMMA MatchSameTypes ==
  ASSUME NEW t, NEW p, does_tuple_match_pattern(t, p)
  PROVE  TypesOf(t) = TypesOf(p)
BY DEF does_tuple_match_pattern, does_tuple_element_match_pattern_element, TypesOf

LEMMA MatchSameBucket ==
  ASSUME NEW t, NEW p, does_tuple_match_pattern(t, p)
  PROVE  bucket(t) = bucket(p)
BY MatchSameTypes DEF bucket, hash_tuple

(* Every match is stored in the bucket that get_from_hash_table searches.  *)
THEOREM TupleMatchInSameBucket == TupleSpec => []MatchInSameBucket
<1>1. MatchInSameBucket
  BY MatchSameBucket DEF MatchInSameBucket
<1> QED
  BY <1>1, PTL

-----------------------------------------------------------------------------
(***************************************************************************)
(* add_element keeps the counters in step with the list: the elements have *)
(* one of the two types, so exactly one of iCount and sCount grows.        *)
(***************************************************************************)
Counted(S) == [len : Nat, iCount : Nat, sCount : Nat, elements : Seq(S)]

LEMMA AddElement ==
  ASSUME NEW S, NEW t \in Counted(S), NEW element \in S, WellCounted(t),
         element.valueType \in ValueTypes
  PROVE  add_element(t, element) \in Counted(S) /\ WellCounted(add_element(t, element))
<1> DEFINE u == add_element(t, element)
           ints == IF element.valueType = "INTEGER" THEN t.iCount + 1 ELSE t.iCount
           strings == IF element.valueType = "STRING" THEN t.sCount + 1 ELSE t.sCount
           appended == Append(t.elements, element)
<1>1. t.elements \in Seq(S) /\ t.len \in Nat /\ t.iCount \in Nat /\ t.sCount \in Nat
  BY DEF Counted
<1>2. appended \in Seq(S) /\ Len(appended) = Len(t.elements) + 1
  BY <1>1
<1>3. t.len + 1 \in Nat /\ ints \in Nat /\ strings \in Nat
  BY <1>1
<1>4. ints + strings = t.iCount + t.sCount + 1
  BY <1>1 DEF ValueTypes
<1>5. u = [len |-> t.len + 1, iCount |-> ints, sCount |-> strings, elements |-> appended]
  BY DEF add_element
<1> HIDE DEF u, ints, strings, appended
<1>6. u \in Counted(S)
  BY <1>2, <1>3, <1>5 DEF Counted
<1>7. WellCounted(u)
  BY <1>1, <1>2, <1>3, <1>4, <1>5 DEF WellCounted
<1> QED
  BY <1>6, <1>7 DEF u

(* The counters agree with the elements of every tuple and pattern built.  *)
THEOREM TupleTypes == TupleSpec => []TupleTypeOK
<1>1. TupleTypeOK <=> /\ tuple \in Counted(TupleElements) /\ WellCounted(tuple)
                      /\ pattern \in Counted(PatternElements) /\ WellCounted(pattern)
  BY DEF TupleTypeOK, Counted
<1>2. TupleInit => TupleTypeOK
  BY DEF TupleInit, TupleTypeOK, Empty, WellCounted
<1>3. TupleTypeOK /\ [TupleNext]_tvars => TupleTypeOK'
  <2> SUFFICES ASSUME TupleTypeOK, [TupleNext]_tvars PROVE TupleTypeOK'
    OBVIOUS
  <2>1. CASE \E element \in TupleElements : add_to_tuple(element)
    <3>1. PICK element \in TupleElements : add_to_tuple(element)
      BY <2>1
    <3>2. element.valueType \in ValueTypes
      BY DEF TupleElements
    <3>3. tuple' \in Counted(TupleElements) /\ WellCounted(tuple')
      BY <1>1, <3>1, <3>2, AddElement DEF add_to_tuple
    <3> QED
      BY <1>1, <3>1, <3>3 DEF add_to_tuple, TupleTypeOK, Counted, WellCounted
  <2>2. CASE \E element \in PatternElements : add_to_pattern(element)
    <3>1. PICK element \in PatternElements : add_to_pattern(element)
      BY <2>2
    <3>2. element.valueType \in ValueTypes
      BY DEF PatternElements
    <3>3. pattern' \in Counted(PatternElements) /\ WellCounted(pattern')
      BY <1>1, <3>1, <3>2, AddElement DEF add_to_pattern
    <3> QED
      BY <1>1, <3>1, <3>3 DEF add_to_pattern, TupleTypeOK, Counted, WellCounted
  <2>3. CASE UNCHANGED tvars
    BY <2>3 DEF TupleTypeOK, tvars, WellCounted
  <2> QED
    BY <2>1, <2>2, <2>3 DEF TupleNext
<1> QED
  BY <1>2, <1>3, PTL DEF TupleSpec

-----------------------------------------------------------------------------
(* The two comparisons of the code agree: a pattern of EQUAL conditions    *)
(* matches exactly the tuples that put_into_hash_table takes for equal.    *)
THEOREM TupleEqualPatternIsEquality == TupleSpec => []EqualPatternIsEquality
<1>1. ASSUME \A i \in 1..Len(pattern.elements) :
               pattern.elements[i].conditionType = "EQUAL",
             Len(tuple.elements) = Len(pattern.elements),
             NEW i \in 1..Len(tuple.elements)
      PROVE  does_tuple_element_match_pattern_element(tuple.elements[i], pattern.elements[i])
               <=> do_tuple_elements_match(tuple.elements[i], pattern.elements[i])
  BY <1>1 DEF does_tuple_element_match_pattern_element, do_tuple_elements_match, Compares
<1>2. EqualPatternIsEquality
  BY <1>1 DEF EqualPatternIsEquality, does_tuple_match_pattern, do_tuples_match
<1> QED
  BY <1>2, PTL

-----------------------------------------------------------------------------
(***************************************************************************)
(* The signature that hash_tuple joins and hashes: its length is a sum     *)
(* over the elements, which grows with each element that is added.         *)
(***************************************************************************)
(* Any non-empty set of naturals has a least element.                      *)
LEMMA LeastNatural ==
  ASSUME NEW T \in SUBSET Nat, T # {}
  PROVE  \E m \in T : \A n \in T : m <= n
<1> DEFINE R == OpToRel(<, Nat)
<1>1. \E m \in T : \A n \in T : ~ (<<n, m>> \in R)
  <2>1. IsWellFoundedOn(R, Nat)
    BY NatLessThanWellFounded
  <2> HIDE DEF R
  <2> QED
    BY <2>1, WFMin
<1>2. \E m \in T : \A n \in T : ~ (n < m)
  BY <1>1 DEF OpToRel
<1> QED
  BY <1>2

(* f[i] is the join of the first i of the n parts, as FlattenSeq computes  *)
(* it.                                                                     *)
IsJoin(f, n, parts) ==
  f = [i \in 1..n |-> IF i = 1 THEN parts[i] ELSE f[i - 1] \o parts[i]]

(* Such a function exists, by extension from one part to the next.         *)
LEMMA JoinExists ==
  ASSUME NEW S, NEW parts, NEW n \in Nat, \A i \in 1..n : parts[i] \in Seq(S)
  PROVE  \E f \in [1..n -> Seq(S)] : IsJoin(f, n, parts)
<1> DEFINE P(m) == \E f \in [1..m -> Seq(S)] : IsJoin(f, m, parts)
           T == {m \in 0..n : ~ P(m)}
<1>1. SUFFICES ASSUME T # {} PROVE FALSE
  OBVIOUS
<1>2. PICK m \in T : \A k \in T : m <= k
  <2>1. T \in SUBSET Nat
    OBVIOUS
  <2> HIDE DEF T
  <2> QED
    BY <1>1, <2>1, LeastNatural
<1>3. m # 0
  <2>1. [i \in 1..0 |-> <<>>] \in [1..0 -> Seq(S)] /\ IsJoin([i \in 1..0 |-> <<>>], 0, parts)
    BY DEF IsJoin
  <2> QED
    BY <2>1
<1>4. m - 1 \in 0..n /\ m - 1 \notin T
  BY <1>2, <1>3
<1>5. PICK f \in [1..(m - 1) -> Seq(S)] : IsJoin(f, m - 1, parts)
  BY <1>4
<1> DEFINE last == IF m = 1 THEN parts[1] ELSE f[m - 1] \o parts[m]
           g == [i \in 1..m |-> IF i < m THEN f[i] ELSE last]
<1>6. last \in Seq(S)
  <2>1. m \in 1..n /\ parts[m] \in Seq(S)
    BY <1>3
  <2>2. CASE m # 1
    <3>1. f[m - 1] \in Seq(S)
      BY <1>3, <1>5, <2>2
    <3> QED
      BY <2>1, <2>2, <3>1
  <2> QED
    BY <2>1, <2>2
<1>7. g \in [1..m -> Seq(S)]
  BY <1>5, <1>6
<1>8. ASSUME NEW i \in 1..m
      PROVE  g[i] = IF i = 1 THEN parts[i] ELSE g[i - 1] \o parts[i]
  <2>1. CASE i < m
    <3>1. i \in 1..(m - 1)
      BY <1>3, <2>1
    <3>2. f[i] = IF i = 1 THEN parts[i] ELSE f[i - 1] \o parts[i]
      BY <1>5, <3>1 DEF IsJoin
    <3>3. g[i] = f[i] /\ (i # 1 => g[i - 1] = f[i - 1])
      BY <2>1, <3>1
    <3> QED
      BY <3>2, <3>3
  <2>2. CASE i = m
    BY <2>2
  <2> QED
    BY <2>1, <2>2
<1>9. IsJoin(g, m, parts)
  BY <1>8 DEF IsJoin
<1> QED
  BY <1>7, <1>9

(* f and g are the same on the first n places.                             *)
Agree(f, g, n) == \A i \in 1..n : f[i] = g[i]

(* Joins of the same parts agree, also when one goes on further.           *)
LEMMA JoinsAgree ==
  ASSUME NEW parts, NEW more, NEW n \in Nat, NEW m \in Nat, n <= m,
         NEW f, NEW g, IsJoin(f, n, parts), IsJoin(g, m, more),
         Agree(parts, more, n)
  PROVE  Agree(f, g, n)
<1> DEFINE T == {i \in 1..n : f[i] # g[i]}
<1>1. SUFFICES ASSUME T # {} PROVE FALSE
  BY DEF Agree
<1>2. PICK i \in T : \A k \in T : i <= k
  <2>1. T \in SUBSET Nat
    OBVIOUS
  <2> HIDE DEF T
  <2> QED
    BY <1>1, <2>1, LeastNatural
<1>3. i \in 1..n /\ i \in 1..m
  OBVIOUS
<1>4. /\ f[i] = IF i = 1 THEN parts[i] ELSE f[i - 1] \o parts[i]
      /\ g[i] = IF i = 1 THEN more[i] ELSE g[i - 1] \o more[i]
  BY <1>3 DEF IsJoin
<1>5. i # 1 => f[i - 1] = g[i - 1]
  <2>1. i # 1 => i - 1 \in 1..n /\ i - 1 \notin T
    BY <1>2, <1>3
  <2> QED
    BY <2>1
<1> QED
  BY <1>3, <1>4, <1>5 DEF Agree

LEMMA JoinIs ==
  ASSUME NEW S, NEW parts \in Seq(Seq(S)), Len(parts) > 0
  PROVE  \E f \in [1..Len(parts) -> Seq(S)] :
           IsJoin(f, Len(parts), parts) /\ FlattenSeq(parts) = f[Len(parts)]
<1> DEFINE flatten == CHOOSE f : f = [i \in 1..Len(parts) |->
                        IF i = 1 THEN parts[i] ELSE f[i - 1] \o parts[i]]
<1>1. FlattenSeq(parts) = flatten[Len(parts)]
  BY DEF FlattenSeq
<1>2. Len(parts) \in Nat /\ \A i \in 1..Len(parts) : parts[i] \in Seq(S)
  OBVIOUS
<1>3. \E f : IsJoin(f, Len(parts), parts)
  BY <1>2, JoinExists
<1>4. IsJoin(flatten, Len(parts), parts)
  BY <1>3 DEF IsJoin
<1> HIDE DEF flatten
<1>5. PICK f \in [1..Len(parts) -> Seq(S)] : IsJoin(f, Len(parts), parts)
  BY <1>2, JoinExists
<1>6. \A i \in 1..Len(parts) : flatten[i] = f[i]
  <2>1. Agree(parts, parts, Len(parts)) /\ Len(parts) <= Len(parts)
    BY <1>2 DEF Agree
  <2>2. Agree(flatten, f, Len(parts))
    BY <1>2, <1>4, <1>5, <2>1, JoinsAgree
  <2> QED
    BY <2>2 DEF Agree
<1>7. Len(parts) \in 1..Len(parts)
  BY <1>2
<1> QED
  BY <1>1, <1>5, <1>6, <1>7

(* What hash_tuple joins for elements of the given types.                  *)
Parts(types) == [i \in 1..Len(types) |-> Characters(types[i])]

LEMMA CharactersType ==
  ASSUME NEW v
  PROVE  /\ Characters(v) \in Seq(Nat)
         /\ Len(Characters(v)) = IF v = "INTEGER" THEN 7 ELSE 6
BY DEF Characters

LEMMA PartsType ==
  ASSUME NEW types \in Seq(ValueTypes)
  PROVE  /\ Len(types) \in Nat
         /\ Parts(types) \in Seq(Seq(Nat)) /\ Len(Parts(types)) = Len(types)
         /\ \A i \in 1..Len(types) : Parts(types)[i] = Characters(types[i])
<1>1. \A i \in 1..Len(types) : Characters(types[i]) \in Seq(Nat)
  BY CharactersType
<1>2. Len(types) \in Nat
  OBVIOUS
<1> QED
  BY <1>1, <1>2 DEF Parts

(* One element more joins its type's name to the signature.                *)
LEMMA JoinedAppend ==
  ASSUME NEW types \in Seq(ValueTypes), NEW v \in ValueTypes
  PROVE  /\ Joined(types) \in Seq(Nat)
         /\ Len(Joined(Append(types, v))) = Len(Joined(types)) + Len(Characters(v))
<1> DEFINE longer == Append(types, v)
           n == Len(types)
<1>1. /\ longer \in Seq(ValueTypes) /\ Len(longer) = n + 1 /\ longer[n + 1] = v
      /\ \A i \in 1..n : longer[i] = types[i]
      /\ n \in Nat
  OBVIOUS
<1> HIDE DEF longer, n
<1>2. /\ Parts(types) \in Seq(Seq(Nat)) /\ Len(Parts(types)) = n
      /\ Parts(longer) \in Seq(Seq(Nat)) /\ Len(Parts(longer)) = n + 1
      /\ \A i \in 1..n : Parts(types)[i] = Parts(longer)[i]
      /\ Parts(longer)[n + 1] = Characters(v)
  <2>1. n + 1 \in 1..Len(longer) /\ \A i \in 1..n : i \in 1..Len(longer)
    BY <1>1
  <2> QED
    BY <1>1, <2>1, PartsType DEF n
<1>3. PICK g \in [1..(n + 1) -> Seq(Nat)] :
        IsJoin(g, n + 1, Parts(longer)) /\ Joined(longer) = g[n + 1]
  <2>1. Joined(longer) = FlattenSeq(Parts(longer))
    BY DEF Joined, Parts
  <2>2. n + 1 > 0
    BY <1>1
  <2>3. PICK g \in [1..Len(Parts(longer)) -> Seq(Nat)] :
          /\ IsJoin(g, Len(Parts(longer)), Parts(longer))
          /\ FlattenSeq(Parts(longer)) = g[Len(Parts(longer))]
    BY <1>2, <2>2, JoinIs
  <2> QED
    BY <1>2, <2>1, <2>3
<1>4. g[n + 1] = IF n + 1 = 1 THEN Parts(longer)[n + 1]
                 ELSE g[n] \o Parts(longer)[n + 1]
  <2>1. n + 1 \in 1..(n + 1) /\ (n + 1) - 1 = n
    <3>1. n \in Nat
      BY <1>1
    <3> QED
      BY ONLY <3>1
  <2> QED
    BY <1>3, <2>1 DEF IsJoin
<1>5. Characters(v) \in Seq(Nat)
  BY CharactersType
<1>6. CASE n = 0
  <2>1. Joined(types) = Parts(types)
    BY <1>2, <1>6 DEF Joined, Parts, FlattenSeq
  <2>2. Joined(types) = <<>>
    BY <1>2, <1>6, <2>1
  <2> QED
    BY <1>2, <1>3, <1>4, <1>5, <1>6, <2>2 DEF longer
<1>7. CASE n > 0
  <2>1. PICK f \in [1..n -> Seq(Nat)] :
          IsJoin(f, n, Parts(types)) /\ Joined(types) = f[n]
    BY <1>2, <1>7, JoinIs DEF Joined, Parts
  <2>2. n <= n + 1 /\ n \in 1..n /\ n + 1 \in Nat /\ n + 1 # 1
    BY <1>1, <1>7
  <2>3. f[n] = g[n]
    <3>1. Agree(Parts(types), Parts(longer), n)
      BY <1>2 DEF Agree
    <3>2. Agree(f, g, n)
      BY <1>1, <1>3, <2>1, <2>2, <3>1, JoinsAgree
    <3> QED
      BY <2>2, <3>2 DEF Agree
  <2>4. Joined(longer) = Joined(types) \o Characters(v)
    BY <1>2, <1>3, <1>4, <2>1, <2>2, <2>3
  <2>5. Joined(types) \in Seq(Nat)
    BY <2>1, <2>2
  <2> QED
    BY <1>5, <2>4, <2>5 DEF longer
<1> QED
  BY <1>1, <1>6, <1>7

(* The names take seven characters for an integer and six for a string.    *)
Signed(t) == Len(Joined(TypesOf(t))) = 7 * t.iCount + 6 * t.sCount

LEMMA AddSigned ==
  ASSUME NEW S, NEW t \in Counted(S), Signed(t), NEW element \in S,
         \A e \in S : e.valueType \in ValueTypes
  PROVE  Signed(add_element(t, element))
<1> DEFINE u == add_element(t, element)
           v == element.valueType
<1>1. t.elements \in Seq(S) /\ t.iCount \in Nat /\ t.sCount \in Nat /\ v \in ValueTypes
  BY DEF Counted
<1>2. TypesOf(t) \in Seq(ValueTypes)
  <2>1. \A i \in 1..Len(t.elements) : t.elements[i].valueType \in ValueTypes
    BY <1>1
  <2>2. Len(t.elements) \in Nat
    BY <1>1
  <2> QED
    BY <2>1, <2>2 DEF TypesOf
<1>3. TypesOf(u) = Append(TypesOf(t), v)
  <2>1. u.elements = Append(t.elements, element)
    BY DEF add_element
  <2>2. /\ Len(u.elements) = Len(t.elements) + 1 /\ Len(t.elements) \in Nat
        /\ \A i \in 1..Len(t.elements) : u.elements[i] = t.elements[i]
        /\ u.elements[Len(t.elements) + 1] = element
    BY <1>1, <2>1
  <2> HIDE DEF u
  <2>3. Len(TypesOf(t)) = Len(t.elements)
    BY <1>1 DEF TypesOf
  <2> QED
    BY <1>2, <2>2, <2>3 DEF TypesOf
<1>4. Len(Joined(TypesOf(u))) = Len(Joined(TypesOf(t))) + (IF v = "INTEGER" THEN 7 ELSE 6)
  BY <1>1, <1>2, <1>3, JoinedAppend, CharactersType
<1>5. /\ u.iCount = IF v = "INTEGER" THEN t.iCount + 1 ELSE t.iCount
      /\ u.sCount = IF v = "STRING" THEN t.sCount + 1 ELSE t.sCount
  BY DEF add_element
<1> HIDE DEF u, v
<1>6. ASSUME v = "INTEGER" PROVE Signed(u)
  BY <1>1, <1>4, <1>5, <1>6 DEF Signed
<1>7. ASSUME v = "STRING" PROVE Signed(u)
  BY <1>1, <1>4, <1>5, <1>7 DEF Signed
<1> QED
  BY <1>1, <1>6, <1>7 DEF ValueTypes, u

(* Every tuple and pattern that is built has a signature of that length.   *)
SignedInv == TupleTypeOK /\ Signed(tuple) /\ Signed(pattern)

LEMMA SignedInvariant == TupleSpec => []SignedInv
<1>1. ASSUME TupleInit PROVE Signed(tuple) /\ Signed(pattern)
  <2>1. TypesOf(Empty) = <<>>
    BY DEF TypesOf, Empty
  <2>2. Len(Joined(<<>>)) = 0
    BY DEF Joined, FlattenSeq
  <2>3. Empty.iCount = 0 /\ Empty.sCount = 0
    BY DEF Empty
  <2> QED
    BY <1>1, <2>1, <2>2, <2>3 DEF TupleInit, Signed
<1>2. ASSUME TupleTypeOK, Signed(tuple), Signed(pattern), [TupleNext]_tvars
      PROVE  Signed(tuple)' /\ Signed(pattern)'
  <2>0. tuple \in Counted(TupleElements) /\ pattern \in Counted(PatternElements)
    BY <1>2 DEF TupleTypeOK, Counted
  <2>1. CASE \E element \in TupleElements : add_to_tuple(element)
    <3>1. PICK element \in TupleElements : add_to_tuple(element)
      BY <2>1
    <3>2. \A e \in TupleElements : e.valueType \in ValueTypes
      BY DEF TupleElements
    <3>3. Signed(add_element(tuple, element))
      BY <1>2, <2>0, <3>2, AddSigned
    <3> QED
      BY <1>2, <3>1, <3>3 DEF add_to_tuple, Signed, TypesOf
  <2>2. CASE \E element \in PatternElements : add_to_pattern(element)
    <3>1. PICK element \in PatternElements : add_to_pattern(element)
      BY <2>2
    <3>2. \A e \in PatternElements : e.valueType \in ValueTypes
      BY DEF PatternElements
    <3>3. Signed(add_element(pattern, element))
      BY <1>2, <2>0, <3>2, AddSigned
    <3> QED
      BY <1>2, <3>1, <3>3 DEF add_to_pattern, Signed, TypesOf
  <2>3. CASE UNCHANGED tvars
    BY <1>2, <2>3 DEF tvars, Signed, TypesOf
  <2> QED
    BY <1>2, <2>1, <2>2, <2>3 DEF TupleNext
<1> QED
  BY <1>1, <1>2, TupleTypes, PTL DEF TupleSpec, SignedInv

(* hash_tuple's buffer holds the joined names and the final NUL, for       *)
(* tuples and patterns of any length.                                      *)
THEOREM TupleSignatureFits == TupleSpec => []SignatureFits
<1>1. SignedInv => SignatureFits
  <2> SUFFICES ASSUME SignedInv, NEW t \in {tuple, pattern}, t.len > 0
               PROVE  Len(Joined(TypesOf(t))) + 1
                        <= t.iCount * Width("INTEGER") + t.sCount * Width("STRING")
    BY DEF SignatureFits
  <2>1. /\ t.iCount \in Nat /\ t.sCount \in Nat /\ t.iCount + t.sCount > 0
        /\ Signed(t)
    BY DEF SignedInv, TupleTypeOK, WellCounted
  <2>2. Width("INTEGER") = 8 /\ Width("STRING") = 7
    BY DEF Width
  <2> QED
    BY <2>1, <2>2 DEF Signed
<1> QED
  BY <1>1, SignedInvariant, PTL

=============================================================================
