-------------------------- MODULE TupleMemoryProofs --------------------------
(***************************************************************************)
(* Proofs about module TupleMemory: for any values, any number of elements *)
(* and any memories, every block has one owner and clones are equal.       *)
(***************************************************************************)
EXTENDS TupleMemory, TLAPS, FiniteSetTheorems, WellFoundedInduction

Places == Local \cup Remote

TupleRecords ==
  [kind : {"tuple"}, len : Nat, iCount : Nat, sCount : Nat, head : Places \cup {Null}]
ElementRecords == [kind : {"element"}, value : Places, next : Places \cup {Null}]
ValueRecords == [kind : {"value"}, is : Values]

(* The i-th element, and the null pointer behind the last one.             *)
At(s, i) == IF i \in 1..Len(s) THEN s[i] ELSE Null

(* In the memory M the list that starts at f is the elements of the tuple  *)
(* at a: they are s.                                                       *)
Shape(M, f, a, s) ==
  /\ s \in Seq(Places) /\ Len(s) <= MaxLen
  /\ f = At(s, 1)
  /\ M[a] \in TupleRecords
  /\ \A i \in 1..Len(s) :
       /\ M[s[i]] \in ElementRecords /\ M[s[i]].next = At(s, i + 1)
       /\ M[M[s[i]].value] \in ValueRecords
       /\ \A j \in 1..Len(s) : i # j => s[i] # s[j] /\ M[s[i]].value # M[s[j]].value

BlocksIn(M, a, s) == {a} \cup {s[i] : i \in 1..Len(s)} \cup {M[s[i]].value : i \in 1..Len(s)}

ContentIn(M, s) == [i \in 1..Len(s) |-> M[M[s[i]].value].is]

CountsIn(M, a, s) ==
  LET OfType(t) == {i \in 1..Len(s) : ContentIn(M, s)[i].valueType = t} IN
  /\ M[a].len = Len(s)
  /\ M[a].iCount = Cardinality(OfType("INTEGER"))
  /\ M[a].sCount = Cardinality(OfType("STRING"))

Tuples == (Owned \cup {source, copy}) \ {Null}

(* The first element that has not been freed.                              *)
First(a) == IF pc = "destroy" /\ a = source THEN curr ELSE mem[a].head

(* own gives each allocated block the tuple that it is part of, and chain  *)
(* gives each tuple its elements.                                          *)
OwnInv(own, chain) ==
  /\ own \in [Places -> Places \cup {Null}] /\ chain \in [Places -> Seq(Places)]
  /\ live = {b \in Places : own[b] # Null}
  /\ Tuples \subseteq Places
  /\ \A b \in live : own[b] \in Tuples /\ (b \in Local <=> own[b] \in Local)
  /\ \A a \in Tuples :
       /\ Shape(mem, First(a), a, chain[a])
       /\ \A b \in Places : own[b] = a <=> b \in BlocksIn(mem, a, chain[a])

(* The counters, except of a tuple that is being cloned or destroyed.      *)
CountInv(chain) ==
  \A a \in Tuples :
    (pc = "clone" => a # copy) /\ (pc = "destroy" => a # source)
      => CountsIn(mem, a, chain[a])

(* The clone has the elements before the one that the loop is at.          *)
CloneInv(chain) ==
  pc \in {"clone", "cloned"} =>
    LET s == chain[source]
        r == chain[copy]
    IN  /\ Counts(copy) = Counts(source)
        /\ Len(r) <= Len(s)
        /\ \A i \in 1..Len(r) : ContentIn(mem, r)[i] = ContentIn(mem, s)[i]
        /\ curr = At(s, Len(r) + 1)
        /\ prev = At(r, Len(r))
        /\ pc = "cloned" => curr = Null

(* Where the tuples are that each call works on.                           *)
CallInv ==
  /\ hand \in Local \cup {Null} /\ got \in Local \cup {Null} /\ stored \subseteq Remote
  /\ hand = got => hand = Null
  /\ mO = IF pc = "destroy" /\ op \in {"pop", "destroy"} THEN "remote" ELSE "local"
  /\ pc \in {"idle", "clone", "cloned", "destroy"}
  /\ pc = "idle" => source = Null /\ copy = Null
  /\ pc \in {"clone", "cloned"} =>
       /\ copy \in Pool(Target) \ Owned /\ source # copy
       /\ \/ op = "push" /\ source = hand /\ hand # Null
          \/ op = "peek" /\ source \in stored /\ got = Null
          \/ op = "pop" /\ source \in Remote \ stored /\ got = Null
  /\ pc = "destroy" =>
       /\ op \in {"pop", "destroy", "drop"}
       /\ source \in Pool(mO) \ Owned
       /\ copy \in Owned \cup {Null}

MemoryInv ==
  /\ DOMAIN mem = Places
  /\ CallInv
  /\ \E own, chain : OwnInv(own, chain) /\ CountInv(chain) /\ CloneInv(chain)

LEMMA PlaceFacts ==
  /\ Null \notin Places /\ Places \in SUBSET Nat
  /\ Local \subseteq Places /\ Remote \subseteq Places
  /\ Local \cap Remote = {} /\ Null \notin Local /\ Null \notin Remote
BY TupleMemoryAssumption DEF Places, Null

(* Any non-empty set of naturals has a least element.                      *)
LEMMA LeastNatural ==
  ASSUME NEW T \in SUBSET Nat, T # {}
  PROVE  \E m \in T : \A n \in T : m <= n
<1> DEFINE R == OpToRel(<, Nat)
<1>1. \E m \in T : \A n \in T : ~ (<<n, m>> \in R)
  <2>1. IsWellFoundedOn(R, Nat)
    BY NatLessThanWellFounded
  <2> HIDE DEF R
  <2> QED
    BY <2>1, WFMin
<1>2. \E m \in T : \A n \in T : ~ (n < m)
  BY <1>1 DEF OpToRel
<1> QED
  BY <1>2

(* malloc and balloc return a block of their memory that is not in use.    *)
LEMMA AllocFresh ==
  ASSUME NEW m \in {"local", "remote"}, NEW used, HasRoom(m, used)
  PROVE  Alloc(m, used) \in Pool(m) \ used /\ Alloc(m, used) \in Places
<1> DEFINE T == Pool(m) \ used
<1>1. T \in SUBSET Nat /\ T # {} /\ Pool(m) \subseteq Places
  BY PlaceFacts DEF HasRoom, Pool
<1>2. \E a \in T : \A b \in T : a <= b
  BY <1>1, LeastNatural
<1>3. Alloc(m, used) \in T
  BY <1>2 DEF Alloc
<1> QED
  BY <1>1, <1>3

(* Elements follows a list from its head by a recursive function, which    *)
(* has a closed form on a chain and no other value.                        *)
Followed(a, f) ==
  f = [i \in 1..(MaxLen + 1) |->
         IF i = 1 THEN mem[a].head ELSE IF f[i - 1] = Null THEN Null ELSE mem[f[i - 1]].next]

LEMMA ChainFollowed ==
  ASSUME NEW a, NEW s, Shape(mem, mem[a].head, a, s)
  PROVE  Followed(a, [i \in 1..(MaxLen + 1) |-> At(s, i)])
<1> DEFINE f == [i \in 1..(MaxLen + 1) |-> At(s, i)]
<1>1. MaxLen \in Nat /\ Null \notin Places
  BY TupleMemoryAssumption, PlaceFacts
<1>2. /\ s \in Seq(Places) /\ mem[a].head = At(s, 1)
      /\ \A i \in 1..Len(s) : mem[s[i]].next = At(s, i + 1)
  BY DEF Shape
<1>3. ASSUME NEW i \in 1..(MaxLen + 1), i # 1
      PROVE  f[i] = IF f[i - 1] = Null THEN Null ELSE mem[f[i - 1]].next
  <2>1. i - 1 \in 1..(MaxLen + 1) /\ (i - 1) + 1 = i /\ Len(s) \in Nat
    BY <1>1, <1>2, <1>3
  <2>2. f[i] = At(s, i) /\ f[i - 1] = At(s, i - 1)
    BY <2>1
  <2>3. CASE i - 1 \in 1..Len(s)
    <3>1. At(s, i - 1) = s[i - 1] /\ s[i - 1] \in Places
      BY <1>2, <2>3 DEF At
    <3>2. mem[s[i - 1]].next = At(s, i)
      BY <1>2, <2>1, <2>3
    <3> QED
      BY <1>1, <2>2, <3>1, <3>2
  <2>4. CASE i - 1 \notin 1..Len(s)
    <3>1. At(s, i - 1) = Null /\ At(s, i) = Null
      BY <1>3, <2>1, <2>4 DEF At
    <3> QED
      BY <2>2, <3>1
  <2> QED
    BY <2>3, <2>4
<1>4. 1 \in 1..(MaxLen + 1) => f[1] = mem[a].head
  BY <1>2
<1>5. f = [i \in 1..(MaxLen + 1) |->
         IF i = 1 THEN mem[a].head ELSE IF f[i - 1] = Null THEN Null ELSE mem[f[i - 1]].next]
  BY <1>3, <1>4
<1> QED
  BY <1>5 DEF Followed

LEMMA FollowedOnce ==
  ASSUME NEW a, NEW f, NEW g, Followed(a, f), Followed(a, g)
  PROVE  f = g
<1> DEFINE T == {i \in 1..(MaxLen + 1) : f[i] # g[i]}
<1>1. MaxLen \in Nat
  BY TupleMemoryAssumption
<1>2. ASSUME NEW h, Followed(a, h)
      PROVE  /\ h = [i \in 1..(MaxLen + 1) |-> h[i]]
             /\ \A i \in 1..(MaxLen + 1) : h[i] = IF i = 1 THEN mem[a].head
                  ELSE IF h[i - 1] = Null THEN Null ELSE mem[h[i - 1]].next
  <2> DEFINE step(i) == IF i = 1 THEN mem[a].head
                          ELSE IF h[i - 1] = Null THEN Null ELSE mem[h[i - 1]].next
  <2>1. h = [i \in 1..(MaxLen + 1) |-> step(i)]
    BY <1>2 DEF Followed
  <2> HIDE DEF step
  <2>2. \A i \in 1..(MaxLen + 1) : h[i] = step(i)
    BY <2>1
  <2>3. h = [i \in 1..(MaxLen + 1) |-> h[i]]
    BY <2>1
  <2> QED
    BY <2>2, <2>3 DEF step
<1>3. ASSUME T # {} PROVE FALSE
  <2>1. T \in SUBSET Nat
    BY <1>1
  <2>2. PICK i \in T : \A j \in T : i <= j
    BY <1>3, <2>1, LeastNatural
  <2>3. i \in 1..(MaxLen + 1) /\ f[i] # g[i]
    OBVIOUS
  <2>4. i # 1
    BY <1>2, <2>3
  <2>5. i - 1 \in 1..(MaxLen + 1) /\ i - 1 \notin T
    BY <1>1, <2>2, <2>3, <2>4
  <2>6. f[i - 1] = g[i - 1]
    BY <2>5
  <2> QED
    BY <1>2, <2>3, <2>4, <2>6
<1>4. \A i \in 1..(MaxLen + 1) : f[i] = g[i]
  BY <1>3
<1>5. f = [i \in 1..(MaxLen + 1) |-> f[i]] /\ g = [i \in 1..(MaxLen + 1) |-> g[i]]
  BY <1>2
<1> QED
  BY <1>4, <1>5

LEMMA ElementsAre ==
  ASSUME NEW a, NEW s, Shape(mem, mem[a].head, a, s)
  PROVE  Elements(a) = s
<1> DEFINE at == CHOOSE f : Followed(a, f)
           len == Cardinality({i \in 1..(MaxLen + 1) : at[i] # Null})
<1>1. Elements(a) = [i \in 1..len |-> at[i]]
  BY DEF Elements, Followed
<1>2. at = [i \in 1..(MaxLen + 1) |-> At(s, i)]
  BY ChainFollowed, FollowedOnce
<1> HIDE DEF at
<1>3. s \in Seq(Places) /\ Len(s) \in Nat /\ Len(s) <= MaxLen
  BY DEF Shape
<1>4. \A i \in 1..Len(s) : s[i] \in Places /\ At(s, i) = s[i] /\ s[i] # Null
  BY <1>3, PlaceFacts DEF At
<1>5. {i \in 1..(MaxLen + 1) : at[i] # Null} = 1..Len(s)
  <2>1. \A i : i \in 1..Len(s) => i \in 1..(MaxLen + 1)
    BY <1>3, TupleMemoryAssumption
  <2>2. \A i \in 1..(MaxLen + 1) : at[i] = At(s, i)
    BY <1>2
  <2>3. \A i : i \notin 1..Len(s) => At(s, i) = Null
    BY DEF At
  <2> QED
    BY <1>4, <2>1, <2>2, <2>3
<1>6. len = Len(s)
  <2>1. PICK n \in Nat : n = Len(s)
    BY <1>3
  <2>2. Cardinality(1..n) = n
    BY FS_Interval
  <2> QED
    BY <1>5, <2>1, <2>2
<1> HIDE DEF len
<1>7. \A i \in 1..Len(s) : at[i] = s[i]
  BY <1>2, <1>3, <1>4, TupleMemoryAssumption
<1>8. Elements(a) = [i \in 1..Len(s) |-> s[i]]
  BY <1>1, <1>6, <1>7
<1> QED
  BY <1>3, <1>8

LEMMA SameBlocks ==
  ASSUME NEW M, NEW N, NEW f, NEW a, NEW s, Shape(M, f, a, s),
         \A b \in BlocksIn(M, a, s) : N[b] = M[b]
  PROVE  /\ Shape(N, f, a, s)
         /\ BlocksIn(N, a, s) = BlocksIn(M, a, s)
         /\ ContentIn(N, s) = ContentIn(M, s)
         /\ CountsIn(M, a, s) => CountsIn(N, a, s)
<1>1. N[a] = M[a]
  BY DEF BlocksIn
<1>2. \A i \in 1..Len(s) : N[s[i]] = M[s[i]] /\ N[M[s[i]].value] = M[M[s[i]].value]
  BY DEF BlocksIn
<1>3. Shape(N, f, a, s)
  BY <1>1, <1>2 DEF Shape
<1>4. BlocksIn(N, a, s) = BlocksIn(M, a, s)
  BY <1>2 DEF BlocksIn
<1>5. ContentIn(N, s) = ContentIn(M, s)
  BY <1>2 DEF ContentIn
<1>6. CountsIn(M, a, s) => CountsIn(N, a, s)
  BY <1>1, <1>5 DEF CountsIn
<1> QED
  BY <1>3, <1>4, <1>5, <1>6

LEMMA BlocksPlaces ==
  ASSUME NEW M, NEW f, NEW a \in Places, NEW s, Shape(M, f, a, s)
  PROVE  /\ BlocksIn(M, a, s) \subseteq Places
         /\ \A i \in 1..Len(s) : s[i] \in Places /\ M[s[i]].value \in Places
         /\ Len(s) \in Nat
<1>1. \A i \in 1..Len(s) : s[i] \in Places /\ M[s[i]] \in ElementRecords
  BY DEF Shape
<1>2. \A i \in 1..Len(s) : M[s[i]].value \in Places
  BY <1>1 DEF ElementRecords
<1>3. Len(s) \in Nat
  BY DEF Shape
<1> QED
  BY <1>1, <1>2, <1>3 DEF BlocksIn

(* A step that writes only into free blocks and blocks of the tuple t      *)
(* leaves the others as they are.                                          *)
WritesOnly(own, t) == \A b \in Places : own[b] \notin {Null, t} => mem'[b] = mem[b]

LEMMA OthersKeep ==
  ASSUME NEW own, NEW chain, OwnInv(own, chain), NEW t, WritesOnly(own, t),
         NEW a \in Tuples, a # t
  PROVE  /\ Shape(mem', First(a), a, chain[a])
         /\ BlocksIn(mem', a, chain[a]) = BlocksIn(mem, a, chain[a])
         /\ ContentIn(mem', chain[a]) = ContentIn(mem, chain[a])
         /\ mem'[a] = mem[a]
         /\ CountsIn(mem, a, chain[a]) => CountsIn(mem', a, chain[a])
<1>1. Shape(mem, First(a), a, chain[a]) /\ a \in Places /\ Null \notin Places
  BY PlaceFacts DEF OwnInv
<1>2. BlocksIn(mem, a, chain[a]) \subseteq Places
  BY <1>1, BlocksPlaces
<1>3. \A b \in BlocksIn(mem, a, chain[a]) : own[b] = a
  BY <1>2 DEF OwnInv
<1>4. \A b \in BlocksIn(mem, a, chain[a]) : mem'[b] = mem[b]
  BY <1>1, <1>2, <1>3 DEF WritesOnly
<1>5. a \in BlocksIn(mem, a, chain[a])
  BY DEF BlocksIn
<1> QED
  BY <1>1, <1>4, <1>5, SameBlocks

Kept(chain, z, T) ==
  \A a \in T :
    /\ mem'[a] = mem[a] /\ z[a] = chain[a]
    /\ ContentIn(mem', z[a]) = ContentIn(mem, chain[a])
    /\ CountsIn(mem, a, chain[a]) => CountsIn(mem', a, z[a])

LEMMA BlocksAre ==
  ASSUME NEW own, NEW chain, OwnInv(own, chain), CallInv, NEW a \in Owned
  PROVE  /\ a \in Tuples /\ Shape(mem, mem[a].head, a, chain[a])
         /\ Elements(a) = chain[a]
         /\ Blocks(a) = BlocksIn(mem, a, chain[a])
         /\ Contents(a) = ContentIn(mem, chain[a])
<1>1. a \in Tuples
  BY PlaceFacts DEF Owned, Tuples, CallInv
<1>2. First(a) = mem[a].head
  BY DEF First, CallInv
<1>3. Shape(mem, mem[a].head, a, chain[a])
  BY <1>1, <1>2 DEF OwnInv
<1>4. Elements(a) = chain[a]
  BY <1>3, ElementsAre
<1>5. chain[a] \in Seq(Places)
  BY <1>3 DEF Shape
<1>6. ToSet(Elements(a)) = {chain[a][i] : i \in 1..Len(chain[a])}
  BY <1>4, <1>5 DEF ToSet
<1>7. Blocks(a) = BlocksIn(mem, a, chain[a])
  BY <1>6 DEF Blocks, BlocksIn
<1>8. Contents(a) = ContentIn(mem, chain[a])
  BY <1>4 DEF Contents, ContentIn, Value
<1> QED
  BY <1>1, <1>3, <1>4, <1>7, <1>8

LEMMA MemoryTyped == MemoryInv => MemoryTypeOK
<1>1. SUFFICES ASSUME MemoryInv PROVE MemoryTypeOK
  OBVIOUS
<1>2. PICK own, chain : OwnInv(own, chain) /\ CountInv(chain) /\ CloneInv(chain)
  BY <1>1 DEF MemoryInv
<1>3. CallInv
  BY <1>1 DEF MemoryInv
<1>4. live \subseteq Local \cup Remote
  BY <1>2 DEF OwnInv, Places
<1>5. mO \in {"local", "remote"} /\ pc \in {"idle", "clone", "cloned", "destroy"}
  BY <1>3 DEF CallInv
<1>6. ASSUME NEW a \in Owned
      PROVE  LET OfType(t) == {i \in DOMAIN Contents(a) : Contents(a)[i].valueType = t} IN
             Counts(a) = [len |-> Len(Contents(a)),
                          iCount |-> Cardinality(OfType("INTEGER")),
                          sCount |-> Cardinality(OfType("STRING"))]
  <2>1. CountsIn(mem, a, chain[a])
    BY <1>2, <1>3, <1>6, BlocksAre DEF CountInv, CallInv
  <2>2. Contents(a) = ContentIn(mem, chain[a]) /\ chain[a] \in Seq(Places)
    BY <1>2, <1>3, <1>6, BlocksAre DEF Shape
  <2>3. DOMAIN Contents(a) = 1..Len(chain[a]) /\ Len(Contents(a)) = Len(chain[a])
    BY <2>2 DEF ContentIn
  <2> QED
    BY <2>1, <2>2, <2>3 DEF CountsIn, Counts
<1> QED
  BY <1>4, <1>5, <1>6 DEF MemoryTypeOK

LEMMA MemoryOwned == MemoryInv => BlocksOwnedOnce
<1>1. SUFFICES ASSUME MemoryInv PROVE BlocksOwnedOnce
  OBVIOUS
<1>2. PICK own, chain : OwnInv(own, chain) /\ CountInv(chain) /\ CloneInv(chain)
  BY <1>1 DEF MemoryInv
<1>3. CallInv
  BY <1>1 DEF MemoryInv
<1>4. \A a \in Owned : \A b \in Places : own[b] = a <=> b \in Blocks(a)
  BY <1>2, <1>3, BlocksAre DEF OwnInv
<1>5. \A a \in Owned : Blocks(a) \subseteq Places
  <2>1. ASSUME NEW a \in Owned PROVE Blocks(a) \subseteq Places
    <3>1. a \in Places
      BY <1>2, <1>3, BlocksAre DEF OwnInv
    <3>2. Shape(mem, mem[a].head, a, chain[a]) /\ Blocks(a) = BlocksIn(mem, a, chain[a])
      BY <1>2, <1>3, BlocksAre
    <3> QED
      BY <3>1, <3>2, BlocksPlaces
  <2> QED
    BY <2>1
<1>6. ASSUME pc = "idle"
      PROVE  /\ live = UNION {Blocks(a) : a \in Owned}
             /\ \A a, b \in Owned : a # b => Blocks(a) \cap Blocks(b) = {}
  <2>1. Tuples = Owned
    BY <1>3, <1>6, PlaceFacts DEF Tuples, CallInv, Owned
  <2>2. \A b \in live : b \in Places /\ own[b] \in Owned
    BY <1>2, <2>1 DEF OwnInv
  <2>3. \A a \in Owned : a # Null
    BY <2>1 DEF Tuples
  <2>4. \A a \in Owned : \A b \in Blocks(a) : b \in live
    BY <1>2, <1>4, <1>5, <2>3 DEF OwnInv
  <2>5. \A b \in live : b \in Blocks(own[b])
    BY <1>4, <2>2
  <2>6. live = UNION {Blocks(a) : a \in Owned}
    BY <2>2, <2>4, <2>5
  <2> QED
    BY <1>4, <1>5, <2>6
<1>7. ASSUME pc = "destroy"
      PROVE  /\ source \in live \cap Pool(mO)
             /\ curr # Null => {curr, mem[curr].value} \subseteq live \cap Pool(mO)
  <2>1. source \in Tuples /\ source \in Places /\ source # Null /\ source \in Pool(mO)
    BY <1>2, <1>3, <1>7, PlaceFacts DEF CallInv, Tuples, Pool, Places
  <2>2. /\ Shape(mem, curr, source, chain[source])
        /\ \A b \in Places : own[b] = source <=> b \in BlocksIn(mem, source, chain[source])
    BY <1>2, <1>7, <2>1 DEF OwnInv, First
  <2>3. BlocksIn(mem, source, chain[source]) \subseteq live \cap Pool(mO)
    <3>1. SUFFICES ASSUME NEW b \in BlocksIn(mem, source, chain[source])
                   PROVE  b \in live \cap Pool(mO)
      OBVIOUS
    <3>2. b \in Places /\ own[b] = source
      BY <2>1, <2>2, BlocksPlaces
    <3>3. b \in live /\ (b \in Local <=> source \in Local)
      BY <1>2, <2>1, <3>2 DEF OwnInv
    <3> QED
      BY <2>1, <3>2, <3>3, PlaceFacts DEF Pool, Places
  <2>4. source \in BlocksIn(mem, source, chain[source])
    BY DEF BlocksIn
  <2>5. ASSUME curr # Null
        PROVE  {curr, mem[curr].value} \subseteq BlocksIn(mem, source, chain[source])
    <3>1. 1 \in 1..Len(chain[source]) /\ curr = chain[source][1]
      BY <2>2, <2>5 DEF Shape, At
    <3> QED
      BY <3>1 DEF BlocksIn
  <2> QED
    BY <2>3, <2>4, <2>5
<1> QED
  BY <1>6, <1>7 DEF BlocksOwnedOnce

LEMMA MemoryCloned == MemoryInv => ClonesAreEqual
<1>1. SUFFICES ASSUME MemoryInv, pc = "cloned"
               PROVE  Contents(copy) = Contents(source) /\ Counts(copy) = Counts(source)
  BY DEF ClonesAreEqual
<1>2. PICK own, chain : OwnInv(own, chain) /\ CountInv(chain) /\ CloneInv(chain)
  BY <1>1 DEF MemoryInv
<1>3. CallInv
  BY <1>1 DEF MemoryInv
<1>4. \A a \in {source, copy} : a \in Tuples /\ First(a) = mem[a].head
  BY <1>1, <1>3, PlaceFacts DEF CallInv, Tuples, First, Pool
<1>5. \A a \in {source, copy} : Shape(mem, mem[a].head, a, chain[a])
  BY <1>2, <1>4 DEF OwnInv
<1>6. \A a \in {source, copy} : Contents(a) = ContentIn(mem, chain[a])
  BY <1>5, ElementsAre DEF Contents, ContentIn, Value
<1>7. /\ Counts(copy) = Counts(source)
      /\ Len(chain[copy]) <= Len(chain[source])
      /\ \A i \in 1..Len(chain[copy]) :
           ContentIn(mem, chain[copy])[i] = ContentIn(mem, chain[source])[i]
      /\ At(chain[source], Len(chain[copy]) + 1) = Null
  BY <1>1, <1>2 DEF CloneInv
<1>8. \A a \in {source, copy} : chain[a] \in Seq(Places) /\ Len(chain[a]) \in Nat
  BY <1>5 DEF Shape
<1>9. Len(chain[copy]) = Len(chain[source])
  <2>1. SUFFICES ASSUME Len(chain[copy]) < Len(chain[source]) PROVE FALSE
    BY <1>7, <1>8
  <2>2. Len(chain[copy]) + 1 \in 1..Len(chain[source])
    BY <1>8, <2>1
  <2>3. chain[source][Len(chain[copy]) + 1] = Null
    BY <1>7, <2>2 DEF At
  <2> QED
    BY <1>8, <2>2, <2>3, PlaceFacts
<1>10. ContentIn(mem, chain[copy]) = ContentIn(mem, chain[source])
  BY <1>7, <1>9 DEF ContentIn
<1> QED
  BY <1>6, <1>7, <1>10

(***************************************************************************)
(* What a step can do to the tuples and their blocks.                      *)
(***************************************************************************)
LEMMA Relabelled ==
  ASSUME NEW own, NEW chain, OwnInv(own, chain), UNCHANGED <<mem, live>>,
         Tuples' = Tuples, pc # "destroy", pc' = "destroy" => curr' = mem[source'].head
  PROVE  OwnInv(own, chain)'
<1>1. mem' = mem /\ live' = live
  OBVIOUS
<1>2. \A a : First(a) = mem[a].head /\ First(a)' = mem[a].head
  BY <1>1 DEF First
<1> QED
  BY <1>1, <1>2 DEF OwnInv

(* A tuple without elements is made.                                       *)
LEMMA Created ==
  ASSUME NEW own, NEW chain, OwnInv(own, chain), DOMAIN mem = Places,
         NEW n \in Places, n \notin live, NEW r \in TupleRecords, r.head = Null,
         live' = live \cup {n}, mem' = [mem EXCEPT ![n] = r],
         Tuples' = Tuples \cup {n}, pc # "destroy", pc' # "destroy"
  PROVE  /\ n \notin Tuples /\ mem'[n] = r
         /\ \E o, z : OwnInv(o, z)' /\ z[n] = <<>> /\ Kept(chain, z, Tuples)
<1> DEFINE o == [own EXCEPT ![n] = n]
           z == [chain EXCEPT ![n] = <<>>]
<1>1. /\ own \in [Places -> Places \cup {Null}] /\ chain \in [Places -> Seq(Places)]
      /\ live = {b \in Places : own[b] # Null} /\ Tuples \subseteq Places
      /\ \A b \in live : own[b] \in Tuples /\ (b \in Local <=> own[b] \in Local)
      /\ \A a \in Tuples :
           /\ Shape(mem, First(a), a, chain[a])
           /\ \A b \in Places : own[b] = a <=> b \in BlocksIn(mem, a, chain[a])
  BY DEF OwnInv
<1>2. own[n] = Null /\ n # Null
  BY <1>1, PlaceFacts
<1>3. \A a \in Tuples : a \in BlocksIn(mem, a, chain[a]) /\ a # Null
  BY <1>1, PlaceFacts DEF BlocksIn
<1>4. \A a \in Tuples : a # n
  BY <1>1, <1>2, <1>3
<1>5. \A b \in Places : (b # n => mem'[b] = mem[b]) /\ mem'[n] = r
  OBVIOUS
<1>6. WritesOnly(own, n)
  BY <1>2, <1>5 DEF WritesOnly
<1>7. /\ o \in [Places -> Places \cup {Null}] /\ z \in [Places -> Seq(Places)]
      /\ o[n] = n /\ \A b \in Places : b # n => o[b] = own[b]
      /\ z[n] = <<>> /\ \A a \in Places : a # n => z[a] = chain[a]
  <2>1. <<>> \in Seq(Places)
    OBVIOUS
  <2> QED
    BY <1>1, <2>1
<1> HIDE DEF o, z
<1>8. \A a : First(a) = mem[a].head /\ First(a)' = mem'[a].head
  BY DEF First
<1>9. ASSUME NEW a \in Tuples
      PROVE  /\ Shape(mem', First(a)', a, z[a])
             /\ BlocksIn(mem', a, z[a]) = BlocksIn(mem, a, chain[a])
             /\ mem'[a] = mem[a] /\ z[a] = chain[a]
             /\ ContentIn(mem', z[a]) = ContentIn(mem, chain[a])
             /\ CountsIn(mem, a, chain[a]) => CountsIn(mem', a, z[a])
  <2>1. z[a] = chain[a] /\ a # n
    BY <1>1, <1>4, <1>7
  <2>2. /\ Shape(mem', First(a), a, chain[a])
        /\ BlocksIn(mem', a, chain[a]) = BlocksIn(mem, a, chain[a])
        /\ ContentIn(mem', chain[a]) = ContentIn(mem, chain[a])
        /\ mem'[a] = mem[a]
        /\ CountsIn(mem, a, chain[a]) => CountsIn(mem', a, chain[a])
    BY <1>6, <1>9, <2>1, OthersKeep
  <2> QED
    BY <1>8, <2>1, <2>2
<1>10. Shape(mem', First(n)', n, z[n]) /\ BlocksIn(mem', n, z[n]) = {n}
  <2>1. Len(z[n]) = 0 /\ z[n] \in Seq(Places)
    BY <1>7
  <2>2. MaxLen \in Nat
    BY TupleMemoryAssumption
  <2>3. \A i : i \notin 1..Len(z[n])
    BY <2>1
  <2> QED
    BY <1>5, <1>8, <2>1, <2>2, <2>3 DEF Shape, At, BlocksIn
<1>11. OwnInv(o, z)'
  <2>1. live' = {b \in Places : o[b] # Null}
    BY <1>1, <1>2, <1>7
  <2>2. \A b \in live' : o[b] \in Tuples' /\ (b \in Local <=> o[b] \in Local)
    BY <1>1, <1>7
  <2>3. \A a \in Tuples' :
          /\ Shape(mem', First(a)', a, z[a])
          /\ \A b \in Places : o[b] = a <=> b \in BlocksIn(mem', a, z[a])
    <3>1. SUFFICES ASSUME NEW a \in Tuples'
                   PROVE  /\ Shape(mem', First(a)', a, z[a])
                          /\ \A b \in Places : o[b] = a <=> b \in BlocksIn(mem', a, z[a])
      OBVIOUS
    <3>2. CASE a = n
      <4>1. \A b \in Places : b # n => own[b] # n
        BY <1>1, <1>2, <1>4
      <4> QED
        BY <1>7, <1>10, <3>2, <4>1
    <3>3. CASE a \in Tuples
      <4>1. \A b \in Places : own[b] = a <=> b \in BlocksIn(mem', a, z[a])
        BY <1>1, <1>9, <3>3
      <4>2. a # n /\ a # Null
        BY <1>3, <1>4, <3>3
      <4>3. \A b \in Places : o[b] = a <=> own[b] = a
        BY <1>2, <1>7, <4>2
      <4> QED
        BY <1>9, <3>3, <4>1, <4>3
    <3> QED
      BY <3>1, <3>2, <3>3
  <2>4. Tuples' \subseteq Places
    BY <1>1
  <2> QED
    BY <1>7, <2>1, <2>2, <2>3, <2>4 DEF OwnInv
<1>12. Kept(chain, z, Tuples)
  BY <1>9 DEF Kept
<1> QED
  BY <1>4, <1>5, <1>7, <1>11, <1>12

(* The element e, with the value v in d, is appended to the tuple at a: it *)
(* becomes the next of the last one, or the head.                          *)
Appended(M, N, f, g, a, s, e, d, v) ==
  /\ Len(s) < MaxLen
  /\ {e, d} \subseteq Places \ BlocksIn(M, a, s) /\ e # d
  /\ v \in ValueRecords /\ N[d] = v
  /\ N[e] = [kind |-> "element", value |-> d, next |-> Null]
  /\ N[a] \in TupleRecords /\ g = IF Len(s) = 0 THEN e ELSE f
  /\ \A i \in 1..Len(s) :
       /\ N[s[i]] = IF i = Len(s) THEN [M[s[i]] EXCEPT !.next = e] ELSE M[s[i]]
       /\ N[M[s[i]].value] = M[M[s[i]].value]

Longer(M, N, a, s, e, d, v) ==
  /\ BlocksIn(N, a, Append(s, e)) = BlocksIn(M, a, s) \cup {e, d}
  /\ \A i \in 1..Len(s) : ContentIn(N, Append(s, e))[i] = ContentIn(M, s)[i]
  /\ ContentIn(N, Append(s, e))[Len(s) + 1] = v.is

LEMMA Grown ==
  ASSUME NEW M, NEW N, NEW f, NEW g, NEW a \in Places, NEW s, NEW e, NEW d, NEW v,
         Shape(M, f, a, s), Appended(M, N, f, g, a, s, e, d, v)
  PROVE  Shape(N, g, a, Append(s, e)) /\ Longer(M, N, a, s, e, d, v)
<1> DEFINE n == Len(s)
           z == Append(s, e)
<1>0. /\ n < MaxLen /\ e \in Places /\ d \in Places /\ e # d
      /\ e \notin BlocksIn(M, a, s) /\ d \notin BlocksIn(M, a, s)
      /\ v \in ValueRecords /\ N[d] = v
      /\ N[e] = [kind |-> "element", value |-> d, next |-> Null]
      /\ N[a] \in TupleRecords /\ g = IF n = 0 THEN e ELSE f
  BY DEF Appended
<1>1. /\ s \in Seq(Places) /\ n \in Nat /\ MaxLen \in Nat /\ f = At(s, 1)
      /\ Null \notin Places
  BY TupleMemoryAssumption, PlaceFacts DEF Shape
<1>2. /\ z \in Seq(Places) /\ Len(z) = n + 1 /\ z[n + 1] = e
      /\ \A i \in 1..n : z[i] = s[i]
  BY <1>0, <1>1
<1>3. \A i \in 1..n :
        /\ s[i] \in Places /\ M[s[i]] \in ElementRecords
        /\ M[s[i]].next = At(s, i + 1) /\ M[s[i]].value \in Places
        /\ M[M[s[i]].value] \in ValueRecords
        /\ s[i] \notin {e, d} /\ M[s[i]].value \notin {e, d}
        /\ \A j \in 1..n : i # j => s[i] # s[j] /\ M[s[i]].value # M[s[j]].value
  <2>1. \A i \in 1..n : s[i] \in BlocksIn(M, a, s) /\ M[s[i]].value \in BlocksIn(M, a, s)
    BY DEF BlocksIn
  <2>2. \A i \in 1..n : s[i] \in Places /\ M[s[i]].value \in Places
    BY BlocksPlaces
  <2> QED
    BY <1>0, <2>1, <2>2 DEF Shape
<1> HIDE DEF n, z
<1>4. \A i : i \in 1..(n + 1) <=> i \in 1..n \/ i = n + 1
  BY <1>1
<1>5. ASSUME NEW i \in 1..n
      PROVE  /\ N[z[i]] \in ElementRecords /\ N[z[i]].value = M[s[i]].value
             /\ N[z[i]].next = At(z, i + 1)
             /\ N[N[z[i]].value] = M[M[s[i]].value]
  <2>1. N[s[i]] = IF i = n THEN [M[s[i]] EXCEPT !.next = e] ELSE M[s[i]]
    BY DEF n, Appended
  <2>2. N[s[i]] \in ElementRecords /\ N[s[i]].value = M[s[i]].value
    <3>1. M[s[i]] \in ElementRecords
      BY <1>3
    <3> QED
      BY ONLY <1>0, <2>1, <3>1 DEF ElementRecords
  <2>3. N[s[i]].next = At(z, i + 1)
    <3>1. CASE i = n
      <4>1. N[s[i]].next = e
        BY <1>3, <2>1, <3>1 DEF ElementRecords
      <4> QED
        BY <1>2, <1>4, <3>1, <4>1 DEF At
    <3>2. CASE i # n
      <4>1. i + 1 \in 1..n
        BY <1>1, <3>2
      <4>2. M[s[i]].next = s[i + 1]
        BY <1>3, <4>1 DEF At, n
      <4> QED
        BY <1>2, <1>4, <2>1, <3>2, <4>1, <4>2 DEF At
    <3> QED
      BY <3>1, <3>2
  <2>4. N[M[s[i]].value] = M[M[s[i]].value]
    BY DEF n, Appended
  <2> QED
    BY <1>2, <2>2, <2>3, <2>4
<1>6. /\ N[z[n + 1]] \in ElementRecords /\ N[z[n + 1]].value = d
      /\ N[z[n + 1]].next = At(z, n + 1 + 1) /\ N[d] = v
  <2>1. n + 1 + 1 \notin 1..Len(z)
    BY <1>1, <1>2
  <2>2. N[e] \in ElementRecords /\ N[e].value = d /\ N[e].next = Null
    BY <1>0 DEF ElementRecords
  <2> QED
    BY <1>0, <1>2, <2>1, <2>2 DEF At
<1>7. g = At(z, 1)
  <2>1. CASE n = 0
    BY <1>0, <1>1, <1>2, <2>1 DEF At, n
  <2>2. CASE n # 0
    <3>1. 1 \in 1..n
      BY <1>1, <2>2
    <3>2. f = s[1]
      BY <1>1, <3>1 DEF At, n
    <3> QED
      BY <1>0, <1>2, <1>4, <2>2, <3>1, <3>2 DEF At
  <2> QED
    BY <2>1, <2>2
<1>8. ASSUME NEW i \in 1..(n + 1), NEW j \in 1..(n + 1), i # j
      PROVE  z[i] # z[j] /\ N[z[i]].value # N[z[j]].value
  <2>1. CASE i \in 1..n /\ j \in 1..n
    BY <1>2, <1>3, <1>5, <1>8, <2>1
  <2>2. CASE i = n + 1 /\ j \in 1..n
    BY <1>2, <1>3, <1>5, <1>6, <2>2
  <2>3. CASE j = n + 1 /\ i \in 1..n
    BY <1>2, <1>3, <1>5, <1>6, <2>3
  <2> QED
    BY <1>4, <1>8, <2>1, <2>2, <2>3
<1>9. Shape(N, g, a, z)
  <2>1. Len(z) <= MaxLen
    BY <1>0, <1>1, <1>2
  <2>2. \A i \in 1..(n + 1) :
          /\ N[z[i]] \in ElementRecords /\ N[z[i]].next = At(z, i + 1)
          /\ N[N[z[i]].value] \in ValueRecords
    <3>1. \A i \in 1..n : N[N[z[i]].value] \in ValueRecords
      BY <1>3, <1>5
    <3>2. N[N[z[n + 1]].value] \in ValueRecords
      BY <1>0, <1>6
    <3> QED
      BY ONLY <1>4, <1>5, <1>6, <3>1, <3>2
  <2> QED
    BY <1>0, <1>2, <1>7, <1>8, <2>1, <2>2 DEF Shape
<1>10. BlocksIn(N, a, z) = BlocksIn(M, a, s) \cup {e, d}
  <2>1. {z[i] : i \in 1..(n + 1)} = {s[i] : i \in 1..n} \cup {e}
    BY <1>2, <1>4
  <2>2. {N[z[i]].value : i \in 1..(n + 1)} = {M[s[i]].value : i \in 1..n} \cup {d}
    BY <1>4, <1>5, <1>6
  <2> QED
    BY <1>2, <2>1, <2>2 DEF BlocksIn, n
<1>11. /\ \A i \in 1..n : ContentIn(N, z)[i] = ContentIn(M, s)[i]
       /\ ContentIn(N, z)[n + 1] = v.is
  <2>1. \A i \in 1..(n + 1) : ContentIn(N, z)[i] = N[N[z[i]].value].is
    BY <1>2 DEF ContentIn
  <2>2. \A i \in 1..n : ContentIn(M, s)[i] = M[M[s[i]].value].is
    BY DEF ContentIn, n
  <2>3. n + 1 \in 1..(n + 1) /\ \A i \in 1..n : i \in 1..(n + 1)
    BY <1>1
  <2>4. ContentIn(N, z)[n + 1] = N[N[z[n + 1]].value].is
    BY <2>1, <2>3
  <2>5. \A i \in 1..n : ContentIn(N, z)[i] = N[N[z[i]].value].is
    BY <2>1, <2>3
  <2> QED
    BY <1>5, <1>6, <2>2, <2>4, <2>5
<1> QED
  BY <1>9, <1>10, <1>11 DEF Longer, n, z

Appends(t, s, e, d, v) ==
  /\ Len(s) < MaxLen
  /\ {e, d} \subseteq Places \ live /\ e # d /\ live' = live \cup {e, d}
  /\ (e \in Local <=> t \in Local) /\ (d \in Local <=> t \in Local)
  /\ v \in ValueRecords /\ mem'[d] = v
  /\ mem'[e] = [kind |-> "element", value |-> d, next |-> Null]
  /\ mem'[t] \in TupleRecords
  /\ mem'[t].head = IF Len(s) = 0 THEN e ELSE mem[t].head
  /\ Len(s) # 0 => mem'[s[Len(s)]] = [mem[s[Len(s)]] EXCEPT !.next = e]
  /\ \A b \in Places \ {t, e, d} : (Len(s) # 0 => b # s[Len(s)]) => mem'[b] = mem[b]

LEMMA Extended ==
  ASSUME NEW own, NEW chain, OwnInv(own, chain), NEW t \in Tuples, NEW e, NEW d, NEW v,
         Appends(t, chain[t], e, d, v), Tuples' = Tuples, pc # "destroy", pc' # "destroy"
  PROVE  \E o, z :
           /\ OwnInv(o, z)' /\ z[t] = Append(chain[t], e)
           /\ Longer(mem, mem', t, chain[t], e, d, v) /\ Kept(chain, z, Tuples \ {t})
<1> DEFINE s == chain[t]
           n == Len(s)
           o == [own EXCEPT ![e] = t, ![d] = t]
           z == [chain EXCEPT ![t] = Append(s, e)]
           blocks == BlocksIn(mem, t, s)
<1>p. /\ e \in Places /\ d \in Places /\ e \notin live /\ d \notin live
      /\ e # d /\ live' = live \cup {e, d}
      /\ (e \in Local <=> t \in Local) /\ (d \in Local <=> t \in Local)
  BY DEF Appends
<1>m. /\ n < MaxLen /\ v \in ValueRecords /\ mem'[d] = v
      /\ mem'[e] = [kind |-> "element", value |-> d, next |-> Null]
      /\ mem'[t] \in TupleRecords
      /\ mem'[t].head = IF n = 0 THEN e ELSE mem[t].head
      /\ n # 0 => mem'[s[n]] = [mem[s[n]] EXCEPT !.next = e]
      /\ \A b \in Places \ {t, e, d} : (n # 0 => b # s[n]) => mem'[b] = mem[b]
  BY DEF Appends
<1>1. /\ own \in [Places -> Places \cup {Null}] /\ chain \in [Places -> Seq(Places)]
      /\ live = {b \in Places : own[b] # Null} /\ Tuples \subseteq Places
      /\ \A b \in live : own[b] \in Tuples /\ (b \in Local <=> own[b] \in Local)
      /\ \A a \in Tuples :
           /\ Shape(mem, First(a), a, chain[a])
           /\ \A b \in Places : own[b] = a <=> b \in BlocksIn(mem, a, chain[a])
  BY DEF OwnInv
<1>2. /\ own[e] = Null /\ own[d] = Null /\ Null \notin Places /\ t \in Places
      /\ \A a \in Tuples : a # Null
  BY <1>p, <1>1, PlaceFacts
<1>3. \A a : First(a) = mem[a].head /\ First(a)' = mem'[a].head
  BY DEF First
<1>4. /\ Shape(mem, mem[t].head, t, s) /\ \A b \in Places : own[b] = t <=> b \in blocks
      /\ mem[t] \in TupleRecords
  BY <1>1, <1>3 DEF Shape
<1>5. e \notin blocks /\ d \notin blocks
  BY <1>p, <1>2, <1>4
<1>6. /\ blocks \subseteq Places /\ n \in Nat
      /\ \A i \in 1..n : s[i] \in Places /\ mem[s[i]].value \in Places
  BY <1>2, <1>4, BlocksPlaces
<1>7. \A i \in 1..n :
        /\ mem[s[i]].kind = "element" /\ mem[mem[s[i]].value].kind = "value"
        /\ s[i] \in blocks /\ mem[s[i]].value \in blocks
  <2>1. \A i \in 1..n : mem[s[i]] \in ElementRecords /\ mem[mem[s[i]].value] \in ValueRecords
    BY <1>4 DEF Shape
  <2> QED
    BY <2>1 DEF ElementRecords, ValueRecords, BlocksIn
<1>8. mem[t].kind = "tuple"
  BY <1>4 DEF TupleRecords
<1>9. \A i \in 1..n : \A j \in 1..n : i # j => s[i] # s[j]
  BY <1>4 DEF Shape
<1>10. \A i \in 1..n :
         /\ mem'[s[i]] = IF i = n THEN [mem[s[i]] EXCEPT !.next = e] ELSE mem[s[i]]
         /\ mem'[mem[s[i]].value] = mem[mem[s[i]].value]
  <2>1. SUFFICES ASSUME NEW i \in 1..n
                 PROVE  /\ mem'[s[i]] = IF i = n THEN [mem[s[i]] EXCEPT !.next = e]
                                                 ELSE mem[s[i]]
                        /\ mem'[mem[s[i]].value] = mem[mem[s[i]].value]
    OBVIOUS
  <2>2. n # 0 /\ n \in 1..n
    BY <1>6
  <2>3. s[i] \notin {t, e, d} /\ mem[s[i]].value \notin {t, e, d}
    BY <1>5, <1>7, <1>8
  <2>4. mem[s[i]].value # s[n]
    BY <1>7, <2>2
  <2>5. mem'[mem[s[i]].value] = mem[mem[s[i]].value]
    BY <1>m, <1>6, <2>3, <2>4
  <2>6. CASE i = n
    BY <1>m, <2>2, <2>5, <2>6
  <2>7. CASE i # n
    BY <1>m, <1>6, <1>9, <2>2, <2>3, <2>5, <2>7
  <2> QED
    BY <2>6, <2>7
<1>11. WritesOnly(own, t)
  <2>1. n # 0 => s[n] \in Places /\ own[s[n]] = t
    <3>1. n # 0 => n \in 1..n
      BY <1>6
    <3> QED
      BY <1>4, <1>6, <1>7, <3>1
  <2>2. own[t] = t
    BY <1>2, <1>4 DEF BlocksIn
  <2> QED
    BY <1>p, <1>m, <1>2, <2>1, <2>2 DEF WritesOnly
<1>12. /\ o \in [Places -> Places \cup {Null}] /\ z \in [Places -> Seq(Places)]
       /\ o[e] = t /\ o[d] = t /\ \A b \in Places \ {e, d} : o[b] = own[b]
       /\ z[t] = Append(s, e) /\ \A a \in Places \ {t} : z[a] = chain[a]
  <2>1. s \in Seq(Places) /\ Append(s, e) \in Seq(Places)
    BY <1>p, <1>1, <1>2
  <2>2. /\ o \in [Places -> Places \cup {Null}]
        /\ o[e] = t /\ o[d] = t /\ \A b \in Places \ {e, d} : o[b] = own[b]
    BY <1>p, <1>1, <1>2
  <2>3. /\ z \in [Places -> Seq(Places)]
        /\ z[t] = Append(s, e) /\ \A a \in Places \ {t} : z[a] = chain[a]
    BY <1>1, <1>2, <2>1
  <2> QED
    BY <2>2, <2>3
<1> HIDE DEF o, z
<1>13. /\ Shape(mem', mem'[t].head, t, z[t])
       /\ BlocksIn(mem', t, z[t]) = blocks \cup {e, d}
       /\ Longer(mem, mem', t, s, e, d, v)
  <2>1. Appended(mem, mem', mem[t].head, mem'[t].head, t, s, e, d, v)
    BY <1>p, <1>m, <1>5, <1>10 DEF Appended
  <2> HIDE DEF s, n, blocks
  <2>2. Shape(mem', mem'[t].head, t, Append(s, e)) /\ Longer(mem, mem', t, s, e, d, v)
    BY <1>2, <1>4, <2>1, Grown
  <2> QED
    BY <1>12, <2>2 DEF Longer, n, blocks
<1>14. ASSUME NEW a \in Tuples, a # t
       PROVE  /\ Shape(mem', First(a)', a, z[a])
              /\ BlocksIn(mem', a, z[a]) = BlocksIn(mem, a, chain[a])
              /\ mem'[a] = mem[a] /\ z[a] = chain[a]
              /\ ContentIn(mem', z[a]) = ContentIn(mem, chain[a])
              /\ CountsIn(mem, a, chain[a]) => CountsIn(mem', a, z[a])
  <2>1. z[a] = chain[a]
    BY <1>1, <1>12, <1>14
  <2>2. /\ Shape(mem', First(a), a, chain[a])
        /\ BlocksIn(mem', a, chain[a]) = BlocksIn(mem, a, chain[a])
        /\ ContentIn(mem', chain[a]) = ContentIn(mem, chain[a])
        /\ mem'[a] = mem[a]
        /\ CountsIn(mem, a, chain[a]) => CountsIn(mem', a, chain[a])
    BY <1>11, <1>14, OthersKeep
  <2> QED
    BY <1>3, <2>1, <2>2
<1>15. OwnInv(o, z)'
  <2>1. live' = {b \in Places : o[b] # Null}
    BY <1>p, <1>1, <1>2, <1>12
  <2>2. \A b \in live' : o[b] \in Tuples' /\ (b \in Local <=> o[b] \in Local)
    BY <1>p, <1>1, <1>12
  <2>3. \A a \in Tuples' :
          /\ Shape(mem', First(a)', a, z[a])
          /\ \A b \in Places : o[b] = a <=> b \in BlocksIn(mem', a, z[a])
    <3>1. SUFFICES ASSUME NEW a \in Tuples
                   PROVE  /\ Shape(mem', First(a)', a, z[a])
                          /\ \A b \in Places : o[b] = a <=> b \in BlocksIn(mem', a, z[a])
      OBVIOUS
    <3>2. CASE a = t
      BY <1>3, <1>4, <1>12, <1>13, <3>2
    <3>3. CASE a # t
      <4>1. \A b \in Places : own[b] = a <=> b \in BlocksIn(mem', a, z[a])
        BY <1>1, <1>14, <3>3
      <4>2. \A b \in Places : o[b] = a <=> own[b] = a
        BY <1>2, <1>12, <3>3
      <4> QED
        BY <1>14, <3>3, <4>1, <4>2
    <3> QED
      BY <3>2, <3>3
  <2> QED
    BY <1>1, <1>12, <2>1, <2>2, <2>3 DEF OwnInv
<1>16. Kept(chain, z, Tuples \ {t})
  BY <1>14 DEF Kept
<1> QED
  BY <1>12, <1>13, <1>15, <1>16

SameOn(blocks, M, N) == \A b \in blocks : N[b] = M[b]

(* The first element of a list is freed.                                   *)
FirstGone(M, N, f, a, s) ==
  BlocksIn(N, a, Tail(s)) = BlocksIn(M, a, s) \ {f, M[f].value}

LEMMA Shorter ==
  ASSUME NEW M, NEW N, NEW f, NEW a \in Places, NEW s, Shape(M, f, a, s), f # Null,
         SameOn(BlocksIn(M, a, s) \ {f, M[f].value}, M, N)
  PROVE  Shape(N, M[f].next, a, Tail(s)) /\ FirstGone(M, N, f, a, s)
<1> DEFINE n == Len(s)
           z == Tail(s)
<1>1. /\ s \in Seq(Places) /\ n \in Nat /\ n <= MaxLen /\ MaxLen \in Nat /\ f = At(s, 1)
      /\ M[a] \in TupleRecords
  BY TupleMemoryAssumption DEF Shape
<1>2. 1 \in 1..n /\ f = s[1] /\ n - 1 \in Nat
  BY <1>1 DEF At
<1>3. /\ z \in Seq(Places) /\ Len(z) = n - 1 /\ \A i \in 1..(n - 1) : z[i] = s[i + 1]
  BY <1>1, <1>2
<1>4. \A i \in 1..n : At(s, i + 1) = At(z, i)
  <2>1. ASSUME NEW i \in 1..n PROVE At(s, i + 1) = At(z, i)
    <3>1. CASE i = n
      <4>1. i + 1 \notin 1..n /\ i \notin 1..(n - 1)
        BY <1>1, <3>1
      <4> QED
        BY <1>3, <4>1 DEF At
    <3>2. CASE i # n
      <4>1. i + 1 \in 1..n /\ i \in 1..(n - 1)
        BY <1>1, <3>2
      <4> QED
        BY <1>3, <4>1 DEF At
    <3> QED
      BY <3>1, <3>2
  <2> QED
    BY <2>1
<1> HIDE DEF n, z
<1>5. /\ \A i \in 1..(n - 1) : i + 1 \in 1..n /\ i + 1 # 1
      /\ \A i \in 1..n : i = 1 \/ (i - 1 \in 1..(n - 1) /\ (i - 1) + 1 = i)
  BY <1>1
<1>6. \A i \in 1..n :
        /\ M[s[i]] \in ElementRecords
        /\ M[s[i]].next = At(s, i + 1) /\ M[M[s[i]].value] \in ValueRecords
        /\ s[i] \in BlocksIn(M, a, s) /\ M[s[i]].value \in BlocksIn(M, a, s)
        /\ \A j \in 1..n : i # j => s[i] # s[j] /\ M[s[i]].value # M[s[j]].value
  BY DEF Shape, BlocksIn, n
<1>7. \A i \in 1..n : M[s[i]].kind = "element" /\ M[M[s[i]].value].kind = "value"
  BY <1>6 DEF ElementRecords, ValueRecords
<1>8. a \notin {f, M[f].value} /\ a \in BlocksIn(M, a, s) /\ N[a] = M[a]
  <2>1. M[a].kind = "tuple"
    BY <1>1 DEF TupleRecords
  <2>2. a \notin {f, M[f].value} /\ a \in BlocksIn(M, a, s)
    BY <1>2, <1>7, <2>1 DEF BlocksIn
  <2> QED
    BY <2>2 DEF SameOn
<1>9. ASSUME NEW i \in 1..n, i # 1
      PROVE  /\ s[i] \notin {f, M[f].value} /\ M[s[i]].value \notin {f, M[f].value}
             /\ N[s[i]] = M[s[i]] /\ N[M[s[i]].value] = M[M[s[i]].value]
  <2>1. s[i] # f /\ M[s[i]].value # M[f].value
    BY <1>2, <1>6, <1>9
  <2>2. s[i] # M[f].value /\ M[s[i]].value # f
    BY <1>2, <1>7
  <2> QED
    BY <1>6, <2>1, <2>2 DEF SameOn
<1>10. ASSUME NEW i \in 1..(n - 1)
      PROVE  /\ N[z[i]] = M[s[i + 1]] /\ z[i] = s[i + 1]
             /\ N[z[i]].next = At(z, i + 1)
             /\ N[N[z[i]].value] = M[M[s[i + 1]].value]
  <2>1. z[i] = s[i + 1] /\ i + 1 \in 1..n /\ i + 1 # 1
    BY <1>3, <1>5
  <2>2. N[z[i]] = M[s[i + 1]] /\ N[N[z[i]].value] = M[M[s[i + 1]].value]
    BY <1>9, <2>1
  <2>3. M[s[i + 1]].next = At(s, i + 1 + 1)
    BY <1>6, <2>1
  <2>4. At(s, i + 1 + 1) = At(z, i + 1)
    BY <1>4, <2>1
  <2> QED
    BY <2>1, <2>2, <2>3, <2>4
<1>11. M[f].next = At(z, 1)
  <2>1. M[f].next = At(s, 1 + 1)
    BY <1>2, <1>6
  <2>2. At(s, 1 + 1) = At(z, 1)
    BY <1>2, <1>4
  <2> QED
    BY <2>1, <2>2
<1>12. Shape(N, M[f].next, a, z)
  <2>1. \A i \in 1..(n - 1) :
          /\ N[z[i]] \in ElementRecords /\ N[z[i]].next = At(z, i + 1)
          /\ N[N[z[i]].value] \in ValueRecords
    BY <1>5, <1>6, <1>10
  <2>2. ASSUME NEW i \in 1..(n - 1), NEW j \in 1..(n - 1), i # j
        PROVE  z[i] # z[j] /\ N[z[i]].value # N[z[j]].value
    <3>1. i + 1 \in 1..n /\ j + 1 \in 1..n /\ i + 1 # j + 1
      BY <1>1, <1>5, <2>2
    <3> QED
      BY <1>6, <1>10, <3>1
  <2>3. Len(z) <= MaxLen
    BY <1>1, <1>3
  <2> QED
    BY <1>1, <1>3, <1>8, <1>11, <2>1, <2>2, <2>3 DEF Shape
<1>13. BlocksIn(N, a, z) = BlocksIn(M, a, s) \ {f, M[f].value}
  <2>1. ASSUME NEW b \in BlocksIn(N, a, z)
        PROVE  b \in BlocksIn(M, a, s) \ {f, M[f].value}
    <3>1. b = a \/ \E i \in 1..(n - 1) : b = z[i] \/ b = N[z[i]].value
      BY <1>3 DEF BlocksIn
    <3>2. ASSUME NEW i \in 1..(n - 1), b = z[i] \/ b = N[z[i]].value
          PROVE  b \in BlocksIn(M, a, s) \ {f, M[f].value}
      <4>1. i + 1 \in 1..n /\ i + 1 # 1
        BY <1>5
      <4> QED
        BY <1>6, <1>9, <1>10, <3>2, <4>1
    <3> QED
      BY <1>8, <3>1, <3>2
  <2>2. ASSUME NEW b \in BlocksIn(M, a, s) \ {f, M[f].value}
        PROVE  b \in BlocksIn(N, a, z)
    <3>1. SUFFICES ASSUME NEW i \in 1..n, b = s[i] \/ b = M[s[i]].value
                   PROVE  b \in BlocksIn(N, a, z)
      BY DEF BlocksIn, n
    <3>2. i # 1
      BY <1>2, <2>2, <3>1
    <3>3. i - 1 \in 1..(n - 1) /\ (i - 1) + 1 = i
      BY <1>5, <3>2
    <3>4. z[i - 1] = s[i] /\ N[z[i - 1]].value = M[s[i]].value
      BY <1>10, <3>3
    <3>5. i - 1 \in 1..Len(z)
      BY <1>3, <3>3
    <3> QED
      BY <3>1, <3>4, <3>5 DEF BlocksIn
  <2> QED
    BY <2>1, <2>2
<1> QED
  BY <1>12, <1>13 DEF FirstGone, z

LEMMA Shortened ==
  ASSUME NEW own, NEW chain, OwnInv(own, chain), DOMAIN mem = Places,
         source \in Tuples, pc = "destroy", curr # Null,
         live' = live \ {mem[curr].value, curr}, mem' = Wiped({mem[curr].value, curr}),
         curr' = mem[curr].next, pc' = "destroy", source' = source, Tuples' = Tuples
  PROVE  \E o, z : OwnInv(o, z)' /\ Kept(chain, z, Tuples \ {source})
<1> PICK t : t = source
  OBVIOUS
<1> PICK f : f = curr
  OBVIOUS
<1> PICK d : d = mem[curr].value
  OBVIOUS
<1> DEFINE s == chain[t]
           o == [own EXCEPT ![f] = Null, ![d] = Null]
           z == [chain EXCEPT ![t] = Tail(s)]
           blocks == BlocksIn(mem, t, s)
<1>1. /\ own \in [Places -> Places \cup {Null}] /\ chain \in [Places -> Seq(Places)]
      /\ live = {b \in Places : own[b] # Null} /\ Tuples \subseteq Places
      /\ \A b \in live : own[b] \in Tuples /\ (b \in Local <=> own[b] \in Local)
      /\ \A a \in Tuples :
           /\ Shape(mem, First(a), a, chain[a])
           /\ \A b \in Places : own[b] = a <=> b \in BlocksIn(mem, a, chain[a])
  BY DEF OwnInv
<1>2. t \in Tuples /\ t \in Places /\ t # Null /\ f # Null /\ d = mem[f].value
  BY <1>1, PlaceFacts
<1>3. Shape(mem, f, t, s) /\ \A b \in Places : own[b] = t <=> b \in blocks
  BY <1>1, <1>2 DEF First
<1>4. f \in blocks /\ d \in blocks /\ f \in Places /\ d \in Places
  <2>1. 1 \in 1..Len(s) /\ f = s[1]
    BY <1>2, <1>3 DEF Shape, At
  <2> QED
    BY <1>2, <1>3, <2>1, BlocksPlaces DEF BlocksIn
<1>5. own[f] = t /\ own[d] = t
  BY <1>3, <1>4
<1>6. /\ \A b \in Places \ {f, d} : mem'[b] = mem[b]
      /\ live' = live \ {f, d}
  BY DEF Wiped
<1>7. WritesOnly(own, t)
  BY <1>5, <1>6 DEF WritesOnly
<1>8. /\ Shape(mem', mem[f].next, t, Tail(s))
      /\ BlocksIn(mem', t, Tail(s)) = blocks \ {f, d}
  <2>1. SameOn(blocks \ {f, mem[f].value}, mem, mem')
    BY <1>2, <1>3, <1>6, BlocksPlaces DEF SameOn
  <2> HIDE DEF s
  <2>2. Shape(mem', mem[f].next, t, Tail(s)) /\ FirstGone(mem, mem', f, t, s)
    BY <1>2, <1>3, <2>1, Shorter
  <2> QED
    BY <1>2, <2>2 DEF FirstGone
<1>9. /\ o \in [Places -> Places \cup {Null}] /\ z \in [Places -> Seq(Places)]
      /\ o[f] = Null /\ o[d] = Null /\ \A b \in Places \ {f, d} : o[b] = own[b]
      /\ z[t] = Tail(s) /\ \A a \in Places \ {t} : z[a] = chain[a]
  <2>1. Tail(s) \in Seq(Places)
    BY <1>8 DEF Shape
  <2> QED
    BY <1>1, <1>2, <1>4, <2>1
<1> HIDE DEF o, z
<1>10. /\ First(t)' = mem[f].next
       /\ \A a : a # t => First(a)' = mem'[a].head /\ First(a) = mem[a].head
  BY DEF First
<1>11. ASSUME NEW a \in Tuples, a # t
       PROVE  /\ Shape(mem', First(a)', a, z[a])
              /\ BlocksIn(mem', a, z[a]) = BlocksIn(mem, a, chain[a])
              /\ mem'[a] = mem[a] /\ z[a] = chain[a]
              /\ ContentIn(mem', z[a]) = ContentIn(mem, chain[a])
              /\ CountsIn(mem, a, chain[a]) => CountsIn(mem', a, z[a])
  <2>1. z[a] = chain[a]
    BY <1>1, <1>9, <1>11
  <2>2. /\ Shape(mem', First(a), a, chain[a])
        /\ BlocksIn(mem', a, chain[a]) = BlocksIn(mem, a, chain[a])
        /\ mem'[a] = mem[a]
        /\ ContentIn(mem', chain[a]) = ContentIn(mem, chain[a])
        /\ CountsIn(mem, a, chain[a]) => CountsIn(mem', a, chain[a])
    BY <1>7, <1>11, OthersKeep
  <2> QED
    BY <1>10, <1>11, <2>1, <2>2
<1>12. OwnInv(o, z)'
  <2>1. live' = {b \in Places : o[b] # Null}
    BY <1>1, <1>6, <1>9
  <2>2. \A b \in live' : o[b] \in Tuples' /\ (b \in Local <=> o[b] \in Local)
    BY <1>1, <1>6, <1>9
  <2>3. \A a \in Tuples' :
          /\ Shape(mem', First(a)', a, z[a])
          /\ \A b \in Places : o[b] = a <=> b \in BlocksIn(mem', a, z[a])
    <3>1. SUFFICES ASSUME NEW a \in Tuples
                   PROVE  /\ Shape(mem', First(a)', a, z[a])
                          /\ \A b \in Places : o[b] = a <=> b \in BlocksIn(mem', a, z[a])
      OBVIOUS
    <3>2. CASE a = t
      BY <1>2, <1>3, <1>8, <1>9, <1>10, <3>2
    <3>3. CASE a # t
      <4>1. a # Null
        BY <1>1, PlaceFacts
      <4>2. \A b \in Places : o[b] = a <=> own[b] = a
        BY <1>5, <1>9, <3>3, <4>1
      <4> QED
        BY <1>1, <1>11, <3>3, <4>2
    <3> QED
      BY <3>2, <3>3
  <2> QED
    BY <1>1, <1>9, <2>1, <2>2, <2>3 DEF OwnInv
<1>13. Kept(chain, z, Tuples \ {source})
  BY <1>11 DEF Kept
<1> QED
  BY <1>12, <1>13

(* A tuple without elements is freed.                                      *)
LEMMA Removed ==
  ASSUME NEW own, NEW chain, OwnInv(own, chain), DOMAIN mem = Places,
         source \in Tuples, pc = "destroy", curr = Null,
         live' = live \ {source}, mem' = Wiped({source}),
         pc' # "destroy", Tuples' = Tuples \ {source}
  PROVE  \E o : OwnInv(o, chain)' /\ Kept(chain, chain, Tuples \ {source})
<1> PICK t : t = source
  OBVIOUS
<1> DEFINE o == [own EXCEPT ![t] = Null]
<1>1. /\ own \in [Places -> Places \cup {Null}] /\ chain \in [Places -> Seq(Places)]
      /\ live = {b \in Places : own[b] # Null} /\ Tuples \subseteq Places
      /\ \A b \in live : own[b] \in Tuples /\ (b \in Local <=> own[b] \in Local)
      /\ \A a \in Tuples :
           /\ Shape(mem, First(a), a, chain[a])
           /\ \A b \in Places : own[b] = a <=> b \in BlocksIn(mem, a, chain[a])
  BY DEF OwnInv
<1>2. t \in Tuples /\ t \in Places /\ t # Null
  BY <1>1, PlaceFacts
<1>3. \A b \in Places : own[b] = t <=> b = t
  <2>1. Shape(mem, Null, t, chain[t])
    BY <1>1, <1>2 DEF First
  <2>2. \A i \in 1..Len(chain[t]) : FALSE
    <3>1. SUFFICES ASSUME NEW i \in 1..Len(chain[t]) PROVE FALSE
      OBVIOUS
    <3>2. 1 \in 1..Len(chain[t]) /\ chain[t] \in Seq(Places)
      BY <2>1 DEF Shape
    <3> QED
      BY <2>1, <3>2, PlaceFacts DEF Shape, At
  <2>3. BlocksIn(mem, t, chain[t]) = {t}
    BY <2>2 DEF BlocksIn
  <2> QED
    BY <1>1, <1>2, <2>3
<1>4. (\A b \in Places \ {t} : mem'[b] = mem[b]) /\ live' = live \ {t}
  BY DEF Wiped
<1>5. WritesOnly(own, t)
  BY <1>3, <1>4 DEF WritesOnly
<1>6. /\ o \in [Places -> Places \cup {Null}]
      /\ o[t] = Null /\ \A b \in Places \ {t} : o[b] = own[b]
  BY <1>1, <1>2
<1> HIDE DEF o
<1>7. \A a : a # t => First(a)' = mem'[a].head /\ First(a) = mem[a].head
  BY DEF First
<1>8. ASSUME NEW a \in Tuples, a # t
      PROVE  /\ Shape(mem', First(a)', a, chain[a])
             /\ BlocksIn(mem', a, chain[a]) = BlocksIn(mem, a, chain[a])
             /\ mem'[a] = mem[a]
             /\ ContentIn(mem', chain[a]) = ContentIn(mem, chain[a])
             /\ CountsIn(mem, a, chain[a]) => CountsIn(mem', a, chain[a])
  <2>1. /\ Shape(mem', First(a), a, chain[a])
        /\ BlocksIn(mem', a, chain[a]) = BlocksIn(mem, a, chain[a])
        /\ mem'[a] = mem[a]
        /\ ContentIn(mem', chain[a]) = ContentIn(mem, chain[a])
        /\ CountsIn(mem, a, chain[a]) => CountsIn(mem', a, chain[a])
    BY <1>5, <1>8, OthersKeep
  <2> QED
    BY <1>7, <1>8, <2>1
<1>9. OwnInv(o, chain)'
  <2>1. live' = {b \in Places : o[b] # Null}
    BY <1>1, <1>4, <1>6
  <2>2. \A b \in live' : o[b] \in Tuples' /\ (b \in Local <=> o[b] \in Local)
    BY <1>1, <1>3, <1>4, <1>6
  <2>3. ASSUME NEW a \in Tuples, a # t
        PROVE  /\ Shape(mem', First(a)', a, chain[a])
               /\ \A b \in Places : o[b] = a <=> b \in BlocksIn(mem', a, chain[a])
    <3>1. a # Null
      BY <1>1, PlaceFacts
    <3>2. \A b \in Places : o[b] = a <=> own[b] = a
      BY <1>3, <1>6, <2>3, <3>1
    <3> QED
      BY <1>1, <1>8, <2>3, <3>2
  <2> QED
    BY <1>1, <1>6, <2>1, <2>2, <2>3 DEF OwnInv
<1>10. Kept(chain, chain, Tuples \ {source})
  BY <1>8 DEF Kept
<1> QED
  BY <1>9, <1>10

(***************************************************************************)
(* Every step keeps the invariant.                                         *)
(***************************************************************************)
LEMMA TuplesLive ==
  ASSUME NEW own, NEW chain, OwnInv(own, chain)
  PROVE  Tuples \subseteq live
<1>1. \A a \in Tuples : a \in Places /\ a # Null /\ a \in BlocksIn(mem, a, chain[a])
  BY PlaceFacts DEF OwnInv, BlocksIn
<1> QED
  BY <1>1 DEF OwnInv

LEMMA MemoryInitially == Init => MemoryInv
<1>1. SUFFICES ASSUME Init PROVE MemoryInv
  OBVIOUS
<1> DEFINE own == [b \in Places |-> Null]
           chain == [b \in Places |-> <<>>]
<1>2. Tuples = {}
  BY <1>1 DEF Init, Tuples, Owned
<1>3. OwnInv(own, chain)
  <2>1. own \in [Places -> Places \cup {Null}] /\ chain \in [Places -> Seq(Places)]
    OBVIOUS
  <2>2. live = {b \in Places : own[b] # Null}
    BY <1>1 DEF Init
  <2> QED
    BY <1>1, <1>2, <2>1, <2>2 DEF OwnInv, Init
<1>4. CountInv(chain) /\ CloneInv(chain)
  BY <1>1, <1>2 DEF CountInv, CloneInv, Init
<1>5. CallInv
  BY <1>1 DEF CallInv, Init, Owned
<1>6. DOMAIN mem = Places
  BY <1>1 DEF Init, Places
<1> QED
  BY <1>3, <1>4, <1>5, <1>6 DEF MemoryInv

(* A call ends, or begins to destroy a tuple: no block is touched.         *)
LEMMA Moved ==
  ASSUME MemoryInv, UNCHANGED <<mem, live>>, CallInv', Tuples' = Tuples,
         pc \in {"idle", "cloned"}, pc' \in {"idle", "destroy"},
         pc' = "destroy" => curr' = mem[source'].head
  PROVE  MemoryInv'
<1>1. PICK own, chain : OwnInv(own, chain) /\ CountInv(chain) /\ CloneInv(chain)
  BY DEF MemoryInv
<1>2. OwnInv(own, chain)'
  BY <1>1, Relabelled
<1>3. CountInv(chain)'
  <2>1. mem' = mem /\ \A a \in Tuples : CountsIn(mem, a, chain[a])
    BY <1>1 DEF CountInv
  <2> QED
    BY <2>1 DEF CountInv
<1>4. CloneInv(chain)'
  BY DEF CloneInv
<1>5. DOMAIN mem' = Places
  BY DEF MemoryInv
<1> QED
  BY <1>2, <1>3, <1>4, <1>5 DEF MemoryInv

LEMMA PushReturns ==
  ASSUME MemoryInv, push_returns
  PROVE  MemoryInv'
<1> USE DEF push_returns, returns
<1>1. CallInv
  BY DEF MemoryInv
<1>2. Tuples' = Tuples
  BY <1>1, PlaceFacts DEF Tuples, Owned, CallInv, Pool
<1>3. CallInv'
  BY <1>1, PlaceFacts DEF CallInv, Pool, Target, Owned
<1> QED
  BY <1>2, <1>3, Moved

LEMMA PeekReturns ==
  ASSUME MemoryInv, peek_returns
  PROVE  MemoryInv'
<1> USE DEF peek_returns, returns
<1>1. CallInv
  BY DEF MemoryInv
<1>2. Tuples' = Tuples
  BY <1>1, PlaceFacts DEF Tuples, Owned, CallInv, Pool
<1>3. CallInv'
  BY <1>1, PlaceFacts DEF CallInv, Pool, Target, Owned
<1> QED
  BY <1>2, <1>3, Moved

LEMMA PopDestroys ==
  ASSUME MemoryInv, pop_destroys
  PROVE  MemoryInv'
<1> USE DEF pop_destroys, destroy
<1>1. CallInv
  BY DEF MemoryInv
<1>2. Tuples' = Tuples
  BY <1>1, PlaceFacts DEF Tuples, Owned, CallInv, Pool
<1>3. CallInv'
  BY <1>1, PlaceFacts DEF CallInv, Pool, Target, Owned
<1> QED
  BY <1>2, <1>3, Moved

LEMMA DestroyList ==
  ASSUME MemoryInv, destroy_list
  PROVE  MemoryInv'
<1> USE DEF destroy
<1>1. CallInv
  BY DEF MemoryInv
<1>2. PICK a \in stored : destroy(a) /\ stored' = stored \ {a}
  BY DEF destroy_list
<1>3. pc = "idle" /\ op' = "destroy" /\ mO' = "remote" /\ UNCHANGED <<hand, got>>
  BY DEF destroy_list
<1>4. Tuples' = Tuples
  BY <1>1, <1>2, <1>3, PlaceFacts DEF Tuples, Owned, CallInv
<1>5. CallInv'
  BY <1>1, <1>2, <1>3, PlaceFacts DEF CallInv, Pool, Owned
<1> QED
  BY <1>2, <1>3, <1>4, <1>5, Moved

LEMMA DropHand ==
  ASSUME MemoryInv, drop_hand
  PROVE  MemoryInv'
<1> USE DEF drop_hand, destroy
<1>1. CallInv
  BY DEF MemoryInv
<1>2. Tuples' = Tuples
  BY <1>1, PlaceFacts DEF Tuples, Owned, CallInv
<1>3. CallInv'
  BY <1>1, PlaceFacts DEF CallInv, Pool, Owned
<1> QED
  BY <1>2, <1>3, Moved

LEMMA DropGot ==
  ASSUME MemoryInv, drop_got
  PROVE  MemoryInv'
<1> USE DEF drop_got, destroy
<1>1. CallInv
  BY DEF MemoryInv
<1>2. Tuples' = Tuples
  BY <1>1, PlaceFacts DEF Tuples, Owned, CallInv
<1>3. CallInv'
  BY <1>1, PlaceFacts DEF CallInv, Pool, Owned
<1> QED
  BY <1>2, <1>3, Moved

LEMMA NoElements ==
  ASSUME NEW M, NEW a, M[a].len = 0, M[a].iCount = 0, M[a].sCount = 0
  PROVE  CountsIn(M, a, <<>>)
<1>1. \A t : {i \in 1..Len(<<>>) : ContentIn(M, <<>>)[i].valueType = t} = {}
  OBVIOUS
<1> QED
  BY <1>1, FS_EmptySet DEF CountsIn

LEMMA CreateTuple ==
  ASSUME MemoryInv, create_tuple
  PROVE  MemoryInv'
<1>1. CallInv /\ DOMAIN mem = Places
  BY DEF MemoryInv
<1>2. PICK own, chain : OwnInv(own, chain) /\ CountInv(chain) /\ CloneInv(chain)
  BY DEF MemoryInv
<1>3. PICK n : n = Alloc(mO, live)
  OBVIOUS
<1>4. PICK r : r = [kind |-> "tuple", len |-> 0, iCount |-> 0, sCount |-> 0, head |-> Null]
  OBVIOUS
<1>5. /\ pc = "idle" /\ hand = Null /\ HasRoom(mO, live)
      /\ live' = live \cup {n} /\ mem' = [mem EXCEPT ![n] = r] /\ hand' = n
      /\ UNCHANGED <<mO, got, stored, pc, op, source, copy, curr, prev>>
  BY <1>3, <1>4 DEF create_tuple, loop
<1>6. n \in Local /\ n \in Places /\ n \notin live /\ mO = "local"
  <2>1. mO = "local"
    BY <1>1, <1>5 DEF CallInv
  <2> QED
    BY <1>3, <1>5, <2>1, AllocFresh DEF Pool
<1>7. r \in TupleRecords /\ r.head = Null
  BY <1>4 DEF TupleRecords
<1>8. Tuples' = Tuples \cup {n}
  BY <1>1, <1>5, <1>6, PlaceFacts DEF Tuples, Owned, CallInv
<1>9. /\ n \notin Tuples /\ mem'[n] = r
      /\ \E o, z : OwnInv(o, z)' /\ z[n] = <<>> /\ Kept(chain, z, Tuples)
  BY <1>1, <1>2, <1>5, <1>6, <1>7, <1>8, Created
<1> PICK o, z : OwnInv(o, z)' /\ z[n] = <<>> /\ Kept(chain, z, Tuples)
  BY <1>9
<1>10. CountInv(z)'
  <2>1. CountsIn(mem', n, z[n])
    BY <1>4, <1>9, NoElements
  <2>2. \A a \in Tuples : CountsIn(mem', a, z[a])
    BY <1>2, <1>5, <1>9 DEF CountInv, Kept
  <2> QED
    BY <1>8, <2>1, <2>2 DEF CountInv
<1>11. CallInv'
  <2>1. got # n
    BY <1>2, <1>6, TuplesLive, PlaceFacts DEF Tuples, Owned
  <2> QED
    BY <1>1, <1>5, <1>6, <2>1 DEF CallInv
<1>12. CloneInv(z)'
  BY <1>5 DEF CloneInv
<1>13. DOMAIN mem' = Places
  BY <1>1, <1>5
<1> QED
  BY <1>9, <1>10, <1>11, <1>12, <1>13 DEF MemoryInv

(* A clone is begun with the counters of its original and no elements.     *)
LEMMA CloneBegins ==
  ASSUME MemoryInv, NEW f \in Tuples, NEW c, NEW to \in {"local", "remote"},
         clone(c, f, to), CallInv', Tuples' = Tuples \cup {copy'}
  PROVE  MemoryInv'
<1>1. CallInv /\ DOMAIN mem = Places
  BY DEF MemoryInv
<1>2. PICK own, chain : OwnInv(own, chain) /\ CountInv(chain) /\ CloneInv(chain)
  BY DEF MemoryInv
<1>3. PICK n : n = Alloc(to, live)
  OBVIOUS
<1>4. PICK r : r = [mem[f] EXCEPT !.head = Null]
  OBVIOUS
<1>5. /\ pc = "idle" /\ pc' = "clone" /\ HasRoom(to, live)
      /\ live' = live \cup {n} /\ mem' = [mem EXCEPT ![n] = r]
      /\ source' = f /\ copy' = n /\ curr' = mem[f].head /\ prev' = Null
  BY <1>3, <1>4 DEF clone
<1>6. n \in Places /\ n \notin live
  BY <1>3, <1>5, AllocFresh
<1>7. Shape(mem, mem[f].head, f, chain[f])
  BY <1>2, <1>5 DEF OwnInv, First
<1>8. r \in TupleRecords /\ r.head = Null
      /\ r.len = mem[f].len /\ r.iCount = mem[f].iCount /\ r.sCount = mem[f].sCount
  BY <1>4, <1>7 DEF TupleRecords, Shape
<1>9. /\ n \notin Tuples /\ mem'[n] = r
      /\ \E o, z : OwnInv(o, z)' /\ z[n] = <<>> /\ Kept(chain, z, Tuples)
  BY <1>1, <1>2, <1>5, <1>6, <1>8, Created
<1> PICK o, z : OwnInv(o, z)' /\ z[n] = <<>> /\ Kept(chain, z, Tuples)
  BY <1>9
<1>10. CountInv(z)'
  <2>1. \A a \in Tuples : CountsIn(mem', a, z[a])
    BY <1>2, <1>5, <1>9 DEF CountInv, Kept
  <2> QED
    BY <1>5, <2>1 DEF CountInv
<1>11. CloneInv(z)'
  <2>1. Counts(copy)' = Counts(source)'
    BY <1>5, <1>8, <1>9 DEF Counts, Kept
  <2>2. z[n] = <<>> /\ z[f] = chain[f] /\ chain[f] \in Seq(Places)
    BY <1>7, <1>9 DEF Shape, Kept
  <2>3. Len(z[n]) = 0 /\ Len(z[n]) <= Len(z[f]) /\ \A i : i \notin 1..Len(z[n])
    BY <2>2
  <2>4. curr' = At(z[f], Len(z[n]) + 1)
    BY <1>5, <1>7, <2>2, <2>3 DEF Shape
  <2>5. prev' = At(z[n], Len(z[n]))
    BY <1>5, <2>3 DEF At
  <2> QED
    BY <1>5, <2>1, <2>3, <2>4, <2>5 DEF CloneInv
<1>12. DOMAIN mem' = Places
  BY <1>1, <1>5
<1> QED
  BY <1>9, <1>10, <1>11, <1>12 DEF MemoryInv

LEMMA CopyFresh ==
  ASSUME MemoryInv, NEW f, NEW c, NEW to \in {"local", "remote"}, clone(c, f, to)
  PROVE  copy' \in Pool(to) /\ copy' \notin Tuples /\ copy' # Null
<1>1. PICK own, chain : OwnInv(own, chain)
  BY DEF MemoryInv
<1>2. copy' \in Pool(to) \ live /\ copy' \in Places
  BY AllocFresh DEF clone
<1> QED
  BY <1>1, <1>2, TuplesLive, PlaceFacts

LEMMA PushTuple ==
  ASSUME MemoryInv, push_tuple
  PROVE  MemoryInv'
<1>1. CallInv
  BY DEF MemoryInv
<1>2. hand # Null /\ clone("push", hand, "remote") /\ UNCHANGED <<mO, hand, got, stored>>
  BY DEF push_tuple, owners
<1>3. pc = "idle" /\ pc' = "clone" /\ op' = "push" /\ source' = hand
  BY <1>2 DEF clone
<1>4. copy' \in Remote /\ copy' \notin Tuples /\ copy' # Null
  BY <1>2, CopyFresh DEF Pool
<1>5. hand \in Tuples /\ hand \in Local
  BY <1>1, <1>2 DEF Tuples, Owned, CallInv
<1>6. CallInv'
  BY <1>1, <1>2, <1>3, <1>4, <1>5, PlaceFacts DEF CallInv, Pool, Target, Owned, Tuples
<1>7. Tuples' = Tuples \cup {copy'}
  BY <1>1, <1>2, <1>3, <1>4 DEF Tuples, Owned, CallInv
<1> QED
  BY <1>2, <1>5, <1>6, <1>7, CloneBegins

LEMMA PeekTuple ==
  ASSUME MemoryInv, peek_tuple
  PROVE  MemoryInv'
<1>1. CallInv
  BY DEF MemoryInv
<1>2. PICK a \in stored : clone("peek", a, "local")
  BY DEF peek_tuple
<1>3. got = Null /\ UNCHANGED <<mO, hand, got, stored>>
  BY DEF peek_tuple, owners
<1>4. pc = "idle" /\ pc' = "clone" /\ op' = "peek" /\ source' = a
  BY <1>2 DEF clone
<1>5. copy' \in Local /\ copy' \notin Tuples /\ copy' # Null
  BY <1>2, CopyFresh DEF Pool
<1>6. a \in Tuples /\ a \in Remote
  BY <1>1, PlaceFacts DEF Tuples, Owned, CallInv
<1>7. CallInv'
  BY <1>1, <1>3, <1>4, <1>5, <1>6, PlaceFacts DEF CallInv, Pool, Target, Owned, Tuples
<1>8. Tuples' = Tuples \cup {copy'}
  BY <1>1, <1>3, <1>4, <1>5, <1>6 DEF Tuples, Owned, CallInv
<1> QED
  BY <1>2, <1>6, <1>7, <1>8, CloneBegins

LEMMA PopTuple ==
  ASSUME MemoryInv, pop_tuple
  PROVE  MemoryInv'
<1>1. CallInv
  BY DEF MemoryInv
<1>2. PICK a \in stored : clone("pop", a, "local") /\ stored' = stored \ {a}
  BY DEF pop_tuple
<1>3. got = Null /\ UNCHANGED <<mO, hand, got>>
  BY DEF pop_tuple
<1>4. pc = "idle" /\ pc' = "clone" /\ op' = "pop" /\ source' = a
  BY <1>2 DEF clone
<1>5. copy' \in Local /\ copy' \notin Tuples /\ copy' # Null
  BY <1>2, CopyFresh DEF Pool
<1>6. a \in Tuples /\ a \in Remote
  BY <1>1, PlaceFacts DEF Tuples, Owned, CallInv
<1>7. CallInv'
  BY <1>1, <1>2, <1>3, <1>4, <1>5, <1>6, PlaceFacts DEF CallInv, Pool, Target, Owned, Tuples
<1>8. Tuples' = Tuples \cup {copy'}
  BY <1>1, <1>2, <1>3, <1>4, <1>5, <1>6 DEF Tuples, Owned, CallInv
<1> QED
  BY <1>2, <1>6, <1>7, <1>8, CloneBegins

(***************************************************************************)
(* Elements are appended, by the program and by the loop of a clone.       *)
(***************************************************************************)
SamePrefix(n, C, E) == \A i \in 1..n : E[i] = C[i]

TypeCount(n, C, t) == Cardinality({i \in 1..n : C[i].valueType = t})

LEMMA CountGrows ==
  ASSUME NEW n \in Nat, NEW C, NEW E, SamePrefix(n, C, E), NEW t
  PROVE  TypeCount(n + 1, E, t) =
           IF E[n + 1].valueType = t THEN TypeCount(n, C, t) + 1 ELSE TypeCount(n, C, t)
<1> DEFINE A == {i \in 1..n : C[i].valueType = t}
           B == {i \in 1..(n + 1) : E[i].valueType = t}
<1>1. IsFiniteSet(A) /\ Cardinality(A) \in Nat
  <2>1. IsFiniteSet(1..n)
    BY FS_Interval
  <2> QED
    BY <2>1, FS_Subset, FS_CardinalityType
<1>2. \A i : i \in 1..(n + 1) <=> i \in 1..n \/ i = n + 1
  OBVIOUS
<1>3. n + 1 \notin A
  OBVIOUS
<1>4. B = IF E[n + 1].valueType = t THEN A \cup {n + 1} ELSE A
  BY <1>2 DEF SamePrefix
<1> HIDE DEF A, B
<1>5. Cardinality(A \cup {n + 1}) = Cardinality(A) + 1
  BY <1>1, <1>3, FS_AddElement
<1>6. Cardinality(B) = IF E[n + 1].valueType = t THEN Cardinality(A) + 1 ELSE Cardinality(A)
  BY <1>4, <1>5
<1> QED
  BY <1>6 DEF A, B, TypeCount

LEMMA CountsGrow ==
  ASSUME NEW M, NEW N, NEW a, NEW s \in Seq(Places), NEW e, NEW d, NEW v, NEW x \in Values,
         CountsIn(M, a, s), Longer(M, N, a, s, e, d, v), v.is = x,
         N[a].len = M[a].len + 1,
         N[a].iCount = IF x.valueType = "INTEGER" THEN M[a].iCount + 1 ELSE M[a].iCount,
         N[a].sCount = IF x.valueType = "STRING" THEN M[a].sCount + 1 ELSE M[a].sCount
  PROVE  CountsIn(N, a, Append(s, e))
<1> DEFINE n == Len(s)
           z == Append(s, e)
           C == ContentIn(M, s)
           E == ContentIn(N, z)
<1>1. n \in Nat /\ Len(z) = n + 1
  OBVIOUS
<1>2. SamePrefix(n, C, E) /\ E[n + 1] = x
  BY DEF Longer, SamePrefix
<1>3. /\ M[a].len = n /\ M[a].iCount = TypeCount(n, C, "INTEGER")
      /\ M[a].sCount = TypeCount(n, C, "STRING")
  BY DEF CountsIn, TypeCount
<1> HIDE DEF n, z, C, E
<1>4. \A t : TypeCount(n + 1, E, t) =
               IF x.valueType = t THEN TypeCount(n, C, t) + 1 ELSE TypeCount(n, C, t)
  BY <1>1, <1>2, CountGrows
<1>5. /\ TypeCount(n + 1, E, "INTEGER") = N[a].iCount
      /\ TypeCount(n + 1, E, "STRING") = N[a].sCount
  BY <1>3, <1>4
<1>6. N[a].len = n + 1
  BY <1>3
<1> QED
  BY <1>1, <1>5, <1>6 DEF CountsIn, TypeCount, E, z

LEMMA AddElement ==
  ASSUME MemoryInv, NEW x \in Values, add_element_to_tuple(x)
  PROVE  MemoryInv'
<1>1. CallInv /\ DOMAIN mem = Places
  BY DEF MemoryInv
<1>2. PICK own, chain : OwnInv(own, chain) /\ CountInv(chain) /\ CloneInv(chain)
  BY DEF MemoryInv
<1>3. PICK e : e = Alloc(mO, live)
  OBVIOUS
<1>4. PICK d : d = Alloc(mO, live \cup {e})
  OBVIOUS
<1>5. PICK v : v = [kind |-> "value", is |-> x]
  OBVIOUS
<1>6. PICK t : t = hand
  OBVIOUS
<1> DEFINE s == chain[t]
           n == Len(s)
           filled == [mem EXCEPT ![e] = [kind |-> "element", value |-> d, next |-> Null],
                                 ![d] = v]
           grown == CountsWith(t, x)
<1>7. /\ pc = "idle" /\ t # Null /\ mem[t].len < MaxLen /\ HasRoom(mO, live \cup {e})
      /\ live' = live \cup {e, d}
      /\ mem' = IF mem[t].head = Null
                  THEN [filled EXCEPT ![t] = [grown EXCEPT !.head = e]]
                  ELSE [filled EXCEPT ![t] = grown, ![Last(Elements(t))].next = e]
      /\ UNCHANGED <<mO, hand, got, stored, pc, op, source, copy, curr, prev>>
  BY <1>3, <1>4, <1>5, <1>6 DEF add_element_to_tuple, owners, loop
<1>8. t \in Owned /\ t \in Tuples /\ t \in Local /\ mO = "local"
  BY <1>1, <1>6, <1>7, PlaceFacts DEF Owned, Tuples, CallInv
<1>9. /\ e \in Local /\ d \in Local /\ e \notin live /\ d \notin live /\ e # d
      /\ e \in Places /\ d \in Places
  <2>1. HasRoom("local", live)
    BY <1>7, <1>8 DEF HasRoom
  <2>2. e \in Local \ live /\ d \in Local \ (live \cup {e})
    BY <1>3, <1>4, <1>7, <1>8, <2>1, AllocFresh DEF Pool
  <2> QED
    BY <2>2, PlaceFacts
<1>10. /\ Shape(mem, mem[t].head, t, s) /\ Elements(t) = s
       /\ t \in live /\ t \in Places /\ CountsIn(mem, t, s)
  <2>1. Shape(mem, mem[t].head, t, s) /\ Elements(t) = s
    BY <1>1, <1>2, <1>8, BlocksAre
  <2>2. t \in live /\ t \in Places
    BY <1>2, <1>8, TuplesLive DEF OwnInv
  <2>3. CountsIn(mem, t, s)
    BY <1>2, <1>7, <1>8 DEF CountInv
  <2> QED
    BY <2>1, <2>2, <2>3
<1>11. /\ s \in Seq(Places) /\ n \in Nat /\ n < MaxLen /\ mem[t] \in TupleRecords
       /\ mem[t].head = At(s, 1)
  BY <1>7, <1>10 DEF Shape, CountsIn
<1>12. v \in ValueRecords /\ v.is = x
  BY <1>5 DEF ValueRecords
<1> HIDE DEF s, n
<1>13. mem[t].head = Null <=> n = 0
  <2>1. n # 0 => 1 \in 1..n /\ s[1] \in Places
    BY <1>11 DEF n
  <2> QED
    BY <1>11, <2>1, PlaceFacts DEF At, n
<1>14. n # 0 => n \in 1..n /\ s[n] \in Places /\ mem[s[n]] \in ElementRecords /\ s[n] # t
                /\ s[n] \in live
  <2>1. SUFFICES ASSUME n # 0
                 PROVE  /\ n \in 1..n /\ s[n] \in Places /\ mem[s[n]] \in ElementRecords
                        /\ s[n] # t /\ s[n] \in live
    OBVIOUS
  <2>2. n \in 1..n
    BY <1>11, <2>1
  <2>3. s[n] \in Places /\ mem[s[n]] \in ElementRecords /\ s[n] \in BlocksIn(mem, t, s)
    BY <1>10, <1>11, <2>2 DEF Shape, BlocksIn, n
  <2>4. s[n] # t
    BY <1>11, <2>3 DEF TupleRecords, ElementRecords
  <2>5. own[s[n]] = t
    BY <1>2, <1>8, <2>3 DEF OwnInv, s
  <2> QED
    BY <1>2, <1>7, <2>2, <2>3, <2>4, <2>5 DEF OwnInv
<1>15. /\ grown \in TupleRecords /\ grown.head = mem[t].head
       /\ grown.len = mem[t].len + 1
       /\ grown.iCount = IF x.valueType = "INTEGER" THEN mem[t].iCount + 1 ELSE mem[t].iCount
       /\ grown.sCount = IF x.valueType = "STRING" THEN mem[t].sCount + 1 ELSE mem[t].sCount
  <2>1. PICK r : r = mem[t]
    OBVIOUS
  <2>2. r \in TupleRecords
    BY <1>11, <2>1
  <2>3. PICK j : j = IF x.valueType = "INTEGER" THEN r.iCount + 1 ELSE r.iCount
    OBVIOUS
  <2>4. PICK k : k = IF x.valueType = "STRING" THEN r.sCount + 1 ELSE r.sCount
    OBVIOUS
  <2>5. grown = [r EXCEPT !.len = r.len + 1, !.iCount = j, !.sCount = k]
    BY <2>1, <2>3, <2>4 DEF CountsWith
  <2>6. r.len + 1 \in Nat /\ j \in Nat /\ k \in Nat
    BY <2>2, <2>3, <2>4 DEF TupleRecords
  <2> HIDE DEF grown
  <2>7. /\ grown \in TupleRecords /\ grown.head = r.head
        /\ grown.len = r.len + 1 /\ grown.iCount = j /\ grown.sCount = k
    BY <2>2, <2>5, <2>6 DEF TupleRecords
  <2> QED
    BY <2>1, <2>3, <2>4, <2>7
<1> HIDE DEF grown
<1>16. /\ mem'[e] = [kind |-> "element", value |-> d, next |-> Null] /\ mem'[d] = v
       /\ mem'[t] = IF n = 0 THEN [grown EXCEPT !.head = e] ELSE grown
       /\ n # 0 => mem'[s[n]] = [mem[s[n]] EXCEPT !.next = e]
       /\ \A b \in Places \ {t, e, d} : (n # 0 => b # s[n]) => mem'[b] = mem[b]
       /\ DOMAIN mem' = Places
  <2>1. CASE n = 0
    <3>1. mem' = [filled EXCEPT ![t] = [grown EXCEPT !.head = e]]
      BY <1>7, <1>13, <2>1
    <3> QED
      BY <1>1, <1>9, <1>10, <2>1, <3>1
  <2>2. CASE n # 0
    <3>1. mem' = [filled EXCEPT ![t] = grown, ![s[n]].next = e]
      BY <1>7, <1>10, <1>13, <2>2 DEF Last, n
    <3>2. s[n] \notin {t, e, d} /\ s[n] \in Places
      BY <1>9, <1>14, <2>2
    <3> QED
      BY <1>1, <1>9, <1>10, <2>2, <3>1, <3>2
  <2> QED
    BY <2>1, <2>2
<1>17. /\ mem'[t] \in TupleRecords
       /\ mem'[t].head = IF n = 0 THEN e ELSE mem[t].head
       /\ mem'[t].len = grown.len /\ mem'[t].iCount = grown.iCount
       /\ mem'[t].sCount = grown.sCount
  BY <1>9, <1>15, <1>16 DEF TupleRecords
<1>18. Appends(t, s, e, d, v)
  BY <1>7, <1>8, <1>9, <1>11, <1>12, <1>16, <1>17 DEF Appends, n
<1>19. Tuples' = Tuples
  BY <1>7 DEF Tuples, Owned
<1> PICK o, z : /\ OwnInv(o, z)' /\ z[t] = Append(s, e)
                /\ Longer(mem, mem', t, s, e, d, v) /\ Kept(chain, z, Tuples \ {t})
  <2>1. pc # "destroy" /\ pc' # "destroy"
    BY <1>7
  <2> QED
    BY <1>2, <1>8, <1>18, <1>19, <2>1, Extended DEF s
<1>20. CountInv(z)'
  <2>1. CountsIn(mem', t, z[t])
    BY <1>10, <1>11, <1>12, <1>15, <1>17, CountsGrow
  <2>2. \A a \in Tuples \ {t} : CountsIn(mem', a, z[a])
    BY <1>2, <1>7 DEF CountInv, Kept
  <2> QED
    BY <1>19, <2>1, <2>2 DEF CountInv
<1>21. CallInv'
  BY <1>1, <1>7 DEF CallInv
<1>22. CloneInv(z)'
  BY <1>7 DEF CloneInv
<1> QED
  BY <1>16, <1>20, <1>21, <1>22 DEF MemoryInv

LEMMA CloneElement ==
  ASSUME MemoryInv, clone_element
  PROVE  MemoryInv'
<1>1. CallInv /\ DOMAIN mem = Places
  BY DEF MemoryInv
<1>2. PICK own, chain : OwnInv(own, chain) /\ CountInv(chain) /\ CloneInv(chain)
  BY DEF MemoryInv
<1>3. PICK e : e = Alloc(Target, live)
  OBVIOUS
<1>4. PICK d : d = Alloc(Target, live \cup {e})
  OBVIOUS
<1>5. PICK v : v = mem[mem[curr].value]
  OBVIOUS
<1>6. PICK t : t = copy
  OBVIOUS
<1> DEFINE s == chain[source]
           r == chain[t]
           n == Len(r)
           filled == [mem EXCEPT ![e] = [kind |-> "element", value |-> d, next |-> Null],
                                 ![d] = v]
<1>7. /\ pc = "clone" /\ curr # Null /\ HasRoom(Target, live \cup {e})
      /\ live' = live \cup {e, d}
      /\ mem' = IF prev = Null THEN [filled EXCEPT ![t].head = e]
                ELSE [filled EXCEPT ![prev].next = e]
      /\ prev' = e /\ curr' = mem[curr].next
      /\ UNCHANGED <<mO, hand, got, stored, pc, op, source, copy>>
  BY <1>3, <1>4, <1>5, <1>6 DEF clone_element, owners
<1>8. /\ t \in Tuples /\ source \in Tuples /\ source # t /\ t \in Pool(Target)
      /\ Target \in {"local", "remote"}
  BY <1>1, <1>6, <1>7, PlaceFacts DEF Tuples, CallInv, Pool, Target, Owned
<1>9. /\ (e \in Local <=> t \in Local) /\ (d \in Local <=> t \in Local)
      /\ e \notin live /\ d \notin live /\ e # d /\ e \in Places /\ d \in Places
  <2>1. HasRoom(Target, live)
    BY <1>7 DEF HasRoom
  <2>2. e \in Pool(Target) \ live /\ d \in Pool(Target) \ (live \cup {e})
    BY <1>3, <1>4, <1>7, <1>8, <2>1, AllocFresh
  <2> QED
    BY <1>8, <2>2, PlaceFacts DEF Pool
<1>10. /\ Shape(mem, mem[t].head, t, r) /\ Shape(mem, mem[source].head, source, s)
       /\ t \in live /\ t \in Places
  <2>1. Shape(mem, First(t), t, r) /\ Shape(mem, First(source), source, s)
    BY <1>2, <1>8 DEF OwnInv
  <2>2. t \in live
    BY <1>2, <1>8, TuplesLive
  <2>3. t \in Places
    BY <1>2, <1>8 DEF OwnInv
  <2> QED
    BY <1>7, <2>1, <2>2, <2>3 DEF First
<1>11. /\ r \in Seq(Places) /\ n \in Nat /\ mem[t] \in TupleRecords
       /\ s \in Seq(Places) /\ Len(s) \in Nat /\ Len(s) <= MaxLen /\ MaxLen \in Nat
  BY <1>10, TupleMemoryAssumption DEF Shape
<1>12. /\ Counts(t) = Counts(source) /\ n <= Len(s)
       /\ \A i \in 1..n : ContentIn(mem, r)[i] = ContentIn(mem, s)[i]
       /\ curr = At(s, n + 1) /\ prev = At(r, n)
  BY <1>2, <1>6, <1>7 DEF CloneInv
<1> HIDE DEF s, r, n
<1>13. n + 1 \in 1..Len(s) /\ n < MaxLen /\ curr = s[n + 1]
  BY <1>7, <1>11, <1>12 DEF At
<1>14. /\ curr' = At(s, n + 2) /\ v \in ValueRecords /\ v.is = ContentIn(mem, s)[n + 1]
  <2>1. mem[curr].next = At(s, n + 1 + 1) /\ v \in ValueRecords
    BY <1>5, <1>10, <1>13 DEF Shape
  <2>2. v.is = ContentIn(mem, s)[n + 1]
    BY <1>5, <1>13 DEF ContentIn
  <2> QED
    BY <1>7, <1>11, <2>1, <2>2
<1>15. n # 0 => /\ n \in 1..n /\ prev = r[n] /\ prev \in Places /\ prev # Null
                /\ mem[prev] \in ElementRecords /\ prev # t /\ prev \in live
  <2>1. SUFFICES ASSUME n # 0
                 PROVE  /\ n \in 1..n /\ prev = r[n] /\ prev \in Places /\ prev # Null
                        /\ mem[prev] \in ElementRecords /\ prev # t /\ prev \in live
    OBVIOUS
  <2>2. n \in 1..n
    BY <1>11, <2>1
  <2>3. /\ r[n] \in Places /\ mem[r[n]] \in ElementRecords
        /\ r[n] \in BlocksIn(mem, t, r)
    BY <1>10, <1>11, <2>2 DEF Shape, BlocksIn, n
  <2>4. prev = r[n]
    BY <1>12, <2>2 DEF At, n
  <2>5. r[n] # t
    BY <1>11, <2>3 DEF TupleRecords, ElementRecords
  <2>6. own[r[n]] = t
    BY <1>2, <1>8, <2>3 DEF OwnInv, r
  <2>7. r[n] \in live
    BY <1>2, <1>8, <2>3, <2>6, PlaceFacts DEF OwnInv
  <2> QED
    BY <2>2, <2>3, <2>4, <2>5, <2>7, PlaceFacts
<1>16. n = 0 => prev = Null
  BY <1>11, <1>12 DEF At, n
<1>17. /\ mem'[e] = [kind |-> "element", value |-> d, next |-> Null] /\ mem'[d] = v
       /\ mem'[t] = IF n = 0 THEN [mem[t] EXCEPT !.head = e] ELSE mem[t]
       /\ n # 0 => mem'[r[n]] = [mem[r[n]] EXCEPT !.next = e]
       /\ \A b \in Places \ {t, e, d} : (n # 0 => b # r[n]) => mem'[b] = mem[b]
       /\ DOMAIN mem' = Places
  <2>1. CASE n = 0
    <3>1. mem' = [filled EXCEPT ![t].head = e]
      BY <1>7, <1>16, <2>1
    <3> QED
      BY <1>1, <1>9, <1>10, <2>1, <3>1
  <2>2. CASE n # 0
    <3>1. mem' = [filled EXCEPT ![r[n]].next = e]
      BY <1>7, <1>15, <2>2
    <3>2. r[n] \notin {t, e, d} /\ r[n] \in Places
      BY <1>9, <1>15, <2>2
    <3> QED
      BY <1>1, <1>9, <1>10, <2>2, <3>1, <3>2
  <2> QED
    BY <2>1, <2>2
<1>18. /\ mem'[t] \in TupleRecords
       /\ mem'[t].head = IF n = 0 THEN e ELSE mem[t].head
       /\ mem'[t].len = mem[t].len /\ mem'[t].iCount = mem[t].iCount
       /\ mem'[t].sCount = mem[t].sCount
  BY <1>9, <1>11, <1>17 DEF TupleRecords
<1>19. Appends(t, r, e, d, v)
  BY <1>7, <1>8, <1>9, <1>11, <1>13, <1>14, <1>17, <1>18 DEF Appends, n
<1>20. Tuples' = Tuples
  BY <1>7 DEF Tuples, Owned
<1> PICK o, z : /\ OwnInv(o, z)' /\ z[t] = Append(r, e)
                /\ Longer(mem, mem', t, r, e, d, v) /\ Kept(chain, z, Tuples \ {t})
  <2>1. pc # "destroy" /\ pc' # "destroy"
    BY <1>7
  <2> QED
    BY <1>2, <1>8, <1>19, <1>20, <2>1, Extended DEF r
<1>21. CountInv(z)'
  <2>1. \A a \in Tuples \ {t} : CountsIn(mem', a, z[a])
    BY <1>2, <1>6, <1>7 DEF CountInv, Kept
  <2> QED
    BY <1>6, <1>7, <1>20, <2>1 DEF CountInv
<1>22. CallInv'
  BY <1>1, <1>7 DEF CallInv, Target, Owned
<1>23. CloneInv(z)'
  <2>1. /\ mem'[source] = mem[source] /\ z[source] = s
        /\ ContentIn(mem', s) = ContentIn(mem, s)
    BY <1>8 DEF Kept, s
  <2>2. Counts(t)' = Counts(source)'
    BY <1>7, <1>12, <1>18, <2>1 DEF Counts
  <2>3. Len(z[t]) = n + 1 /\ z[t][n + 1] = e
    BY <1>9, <1>11 DEF n
  <2>4. \A i \in 1..(n + 1) : ContentIn(mem', z[t])[i] = ContentIn(mem', s)[i]
    <3>1. ContentIn(mem', z[t])[n + 1] = v.is
      BY DEF Longer, n
    <3>2. \A i \in 1..n : ContentIn(mem', z[t])[i] = ContentIn(mem, r)[i]
      BY DEF Longer, n
    <3>3. \A i \in 1..(n + 1) : i \in 1..n \/ i = n + 1
      BY <1>11
    <3> QED
      BY <1>12, <1>14, <2>1, <3>1, <3>2, <3>3
  <2>5. prev' = At(z[t], n + 1)
    BY <1>7, <1>11, <2>3 DEF At
  <2>6. curr' = At(s, n + 1 + 1) /\ n + 1 <= Len(s)
    BY <1>11, <1>13, <1>14
  <2> QED
    BY <1>6, <1>7, <2>1, <2>2, <2>3, <2>4, <2>5, <2>6 DEF CloneInv
<1> QED
  BY <1>17, <1>21, <1>22, <1>23 DEF MemoryInv

(* The loop of a clone ends behind the last element.                       *)
LEMMA CloneReturns ==
  ASSUME MemoryInv, clone_returns
  PROVE  MemoryInv'
<1>1. CallInv /\ DOMAIN mem = Places
  BY DEF MemoryInv
<1>2. PICK own, chain : OwnInv(own, chain) /\ CountInv(chain) /\ CloneInv(chain)
  BY DEF MemoryInv
<1> DEFINE s == chain[source]
           r == chain[copy]
<1>3. /\ pc = "clone" /\ curr = Null /\ pc' = "cloned" /\ mem' = mem /\ live' = live
      /\ UNCHANGED <<mO, hand, got, stored, op, source, copy, curr, prev>>
  BY DEF clone_returns, owners, loop
<1>4. Tuples' = Tuples /\ copy \in Tuples /\ source \in Tuples /\ source # copy
  BY <1>1, <1>3, PlaceFacts DEF Tuples, Owned, CallInv, Pool
<1>5. Shape(mem, First(copy), copy, r) /\ Shape(mem, First(source), source, s)
  BY <1>2, <1>4 DEF OwnInv
<1>6. r \in Seq(Places) /\ s \in Seq(Places) /\ Len(r) \in Nat /\ Len(s) \in Nat
  BY <1>5 DEF Shape
<1>7. /\ Counts(copy) = Counts(source) /\ Len(r) <= Len(s)
      /\ \A i \in 1..Len(r) : ContentIn(mem, r)[i] = ContentIn(mem, s)[i]
      /\ At(s, Len(r) + 1) = Null
  BY <1>2, <1>3 DEF CloneInv
<1> HIDE DEF s, r
<1>8. Len(r) = Len(s)
  <2>1. SUFFICES ASSUME Len(r) < Len(s) PROVE FALSE
    BY <1>6, <1>7
  <2>2. Len(r) + 1 \in 1..Len(s)
    BY <1>6, <2>1
  <2>3. s[Len(r) + 1] = Null
    BY <1>7, <2>2 DEF At
  <2> QED
    BY <1>6, <2>2, <2>3, PlaceFacts
<1>9. CountsIn(mem, copy, r)
  <2>1. CountsIn(mem, source, s)
    BY <1>2, <1>3, <1>4 DEF CountInv, s
  <2>2. /\ mem[copy].len = mem[source].len /\ mem[copy].iCount = mem[source].iCount
        /\ mem[copy].sCount = mem[source].sCount
    BY <1>7 DEF Counts
  <2>3. ContentIn(mem, r) = ContentIn(mem, s)
    BY <1>7, <1>8 DEF ContentIn
  <2> QED
    BY <1>8, <2>1, <2>2, <2>3 DEF CountsIn
<1>10. OwnInv(own, chain)'
  BY <1>2, <1>3, <1>4, Relabelled
<1>11. CountInv(chain)'
  BY <1>2, <1>3, <1>4, <1>9 DEF CountInv, r
<1>12. CallInv'
  BY <1>1, <1>3 DEF CallInv, Target, Owned
<1>13. CloneInv(chain)'
  BY <1>2, <1>3 DEF CloneInv, Counts
<1> QED
  BY <1>1, <1>3, <1>10, <1>11, <1>12, <1>13 DEF MemoryInv

LEMMA DestroyElement ==
  ASSUME MemoryInv, destroy_element
  PROVE  MemoryInv'
<1>1. CallInv /\ DOMAIN mem = Places
  BY DEF MemoryInv
<1>2. PICK own, chain : OwnInv(own, chain) /\ CountInv(chain) /\ CloneInv(chain)
  BY DEF MemoryInv
<1>3. /\ pc = "destroy" /\ curr # Null /\ live' = live \ {mem[curr].value, curr}
      /\ mem' = Wiped({mem[curr].value, curr}) /\ curr' = mem[curr].next
      /\ UNCHANGED <<mO, hand, got, stored, pc, op, source, copy, prev>>
  BY DEF destroy_element, owners
<1>4. Tuples' = Tuples /\ source \in Tuples
  BY <1>1, <1>3, PlaceFacts DEF Tuples, Owned, CallInv, Pool
<1> PICK o, z : OwnInv(o, z)' /\ Kept(chain, z, Tuples \ {source})
  BY <1>1, <1>2, <1>3, <1>4, Shortened
<1>5. CountInv(z)'
  BY <1>2, <1>3, <1>4 DEF CountInv, Kept
<1>6. CallInv'
  BY <1>1, <1>3 DEF CallInv, Owned
<1>7. CloneInv(z)'
  BY <1>3 DEF CloneInv
<1>8. DOMAIN mem' = Places
  BY <1>1, <1>3 DEF Wiped
<1> QED
  BY <1>5, <1>6, <1>7, <1>8 DEF MemoryInv

LEMMA DestroyReturns ==
  ASSUME MemoryInv, destroy_returns
  PROVE  MemoryInv'
<1>1. CallInv /\ DOMAIN mem = Places
  BY DEF MemoryInv
<1>2. PICK own, chain : OwnInv(own, chain) /\ CountInv(chain) /\ CloneInv(chain)
  BY DEF MemoryInv
<1>3. /\ pc = "destroy" /\ curr = Null /\ live' = live \ {source} /\ mem' = Wiped({source})
      /\ mO' = "local" /\ pc' = "idle" /\ op' = "none" /\ source' = Null /\ copy' = Null
      /\ UNCHANGED <<hand, got, stored>>
  BY DEF destroy_returns, returns, owners
<1>4. Tuples' = Tuples \ {source} /\ source \in Tuples
  BY <1>1, <1>3, PlaceFacts DEF Tuples, Owned, CallInv, Pool
<1> PICK o : OwnInv(o, chain)' /\ Kept(chain, chain, Tuples \ {source})
  BY <1>1, <1>2, <1>3, <1>4, Removed
<1>5. CountInv(chain)'
  BY <1>2, <1>3, <1>4 DEF CountInv, Kept
<1>6. CallInv'
  BY <1>1, <1>3 DEF CallInv
<1>7. CloneInv(chain)'
  BY <1>3 DEF CloneInv
<1>8. DOMAIN mem' = Places
  BY <1>1, <1>3 DEF Wiped
<1> QED
  BY <1>5, <1>6, <1>7, <1>8 DEF MemoryInv

LEMMA MemoryStep == MemoryInv /\ [Next]_vars => MemoryInv'
<1>1. SUFFICES ASSUME MemoryInv, [Next]_vars PROVE MemoryInv'
  OBVIOUS
<1>2. CASE UNCHANGED vars
  <2>1. UNCHANGED <<mem, live, mO, hand, got, stored, pc, op, source, copy, curr, prev>>
    BY <1>2 DEF vars, owners, loop
  <2>2. PICK own, chain : OwnInv(own, chain) /\ CountInv(chain) /\ CloneInv(chain)
    BY <1>1 DEF MemoryInv
  <2>3. Tuples' = Tuples /\ \A a : First(a)' = First(a)
    BY <2>1 DEF Tuples, Owned, First
  <2>4. OwnInv(own, chain)'
    BY <2>1, <2>2, <2>3 DEF OwnInv
  <2>5. CountInv(chain)' /\ CloneInv(chain)'
    BY <2>1, <2>2, <2>3 DEF CountInv, CloneInv, Counts
  <2>6. CallInv' /\ DOMAIN mem' = Places
    BY <1>1, <2>1 DEF MemoryInv, CallInv, Target, Owned
  <2> QED
    BY <2>4, <2>5, <2>6 DEF MemoryInv
<1>3. CASE create_tuple
  BY <1>1, <1>3, CreateTuple
<1>4. CASE \E v \in Values : add_element_to_tuple(v)
  BY <1>1, <1>4, AddElement
<1>5. CASE push_tuple
  BY <1>1, <1>5, PushTuple
<1>6. CASE push_returns
  BY <1>1, <1>6, PushReturns
<1>7. CASE peek_tuple
  BY <1>1, <1>7, PeekTuple
<1>8. CASE peek_returns
  BY <1>1, <1>8, PeekReturns
<1>9. CASE pop_tuple
  BY <1>1, <1>9, PopTuple
<1>10. CASE pop_destroys
  BY <1>1, <1>10, PopDestroys
<1>11. CASE destroy_list
  BY <1>1, <1>11, DestroyList
<1>12. CASE drop_hand
  BY <1>1, <1>12, DropHand
<1>13. CASE drop_got
  BY <1>1, <1>13, DropGot
<1>14. CASE clone_element
  BY <1>1, <1>14, CloneElement
<1>15. CASE clone_returns
  BY <1>1, <1>15, CloneReturns
<1>16. CASE destroy_element
  BY <1>1, <1>16, DestroyElement
<1>17. CASE destroy_returns
  BY <1>1, <1>17, DestroyReturns
<1> QED
  BY <1>1, <1>2, <1>3, <1>4, <1>5, <1>6, <1>7, <1>8, <1>9, <1>10, <1>11, <1>12, <1>13,
     <1>14, <1>15, <1>16, <1>17 DEF Next

(* The blocks of every tuple are its own and form its list of elements,    *)
(* whichever builder, clone or destroyer is running.                       *)
THEOREM MemoryInvHolds == Spec => []MemoryInv
<1>1. Init => MemoryInv
  BY MemoryInitially
<1>2. MemoryInv /\ [Next]_vars => MemoryInv'
  BY MemoryStep
<1> QED
  BY <1>1, <1>2, PTL DEF Spec

-----------------------------------------------------------------------------
(* Memory is typed, and the counters len, iCount and sCount of every tuple *)
(* count its elements: add_element_to_tuple and the clones keep them, so   *)
(* the signature that tuples are hashed by is that of the elements.        *)
THEOREM MemoryTypes == Spec => []MemoryTypeOK
BY MemoryInvHolds, MemoryTyped, PTL

(* Between calls each allocated block of either memory is part of exactly  *)
(* one tuple of the program or the space, and destroy_tuple frees, with    *)
(* the switch as pop_tuple, destroy_list and the program leave it, blocks  *)
(* of the memory they came from that have not been freed.                  *)
THEOREM BlocksHaveOneOwner == Spec => []BlocksOwnedOnce
BY MemoryInvHolds, MemoryOwned, PTL

(* What clone_into_shared_memory and clone_into_local_memory return has    *)
(* the values of the original in its order, and its counters.              *)
THEOREM ClonesEqualOriginals == Spec => []ClonesAreEqual
BY MemoryInvHolds, MemoryCloned, PTL

=============================================================================
