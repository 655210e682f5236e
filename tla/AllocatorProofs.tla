--------------------------- MODULE AllocatorProofs ---------------------------
(***************************************************************************)
(* Proofs about module Allocator: for all sizes of headers, segments and   *)
(* requests, the block list stays whole, free blocks have free neighbours  *)
(* only at seams, and the allocator implements module Heap.                *)
(***************************************************************************)
EXTENDS Allocator, TLAPS, FiniteSetTheorems, WellFoundedInduction

HeaderType ==
  [isFree : BOOLEAN, blockSize : Nat \ {0}, nextBlock : Nat, prevBlock : Nat]

-----------------------------------------------------------------------------
(***************************************************************************)
(* What find_first_fit_free_block finds.                                   *)
(***************************************************************************)

(* A set of natural numbers that is not empty has a least element.         *)
LEMMA LeastNatural ==
  ASSUME NEW T \in SUBSET Nat, T # {}
  PROVE  \E m \in T : \A n \in T : m <= n
<1> DEFINE R == OpToRel(<, Nat)
<1>1. \E m \in T : \A n \in T : ~ (<<n, m>> \in R)
  <2>1. IsWellFoundedOn(R, Nat)
    BY NatLessThanWellFounded
  <2> HIDE DEF R
  <2> QED
    BY <2>1, WFMin
<1>2. \E m \in T : \A n \in T : ~ (n < m)
  BY <1>1 DEF OpToRel
<1> QED
  BY <1>2

IsRun(f, g, a, S) ==
  f \in [Nat -> S] /\ f[0] = a /\ \A n \in Nat : f[n + 1] = g[f[n]]

(* Following a pointer from block to block visits a sequence of blocks:    *)
(* the runs of n steps agree with one another and can be extended.         *)
LEMMA Iteration ==
  ASSUME NEW S, NEW g \in [S -> S], NEW a \in S
  PROVE  \E f : IsRun(f, g, a, S)
<1> DEFINE Run(n) == {h \in [0..n -> S] :
                        h[0] = a /\ \A i \in 0..(n - 1) : h[i + 1] = g[h[i]]}
<1>1. ASSUME NEW n \in Nat, NEW m \in Nat, NEW h \in Run(n), NEW k \in Run(m)
      PROVE  \A i \in Nat : i <= n /\ i <= m => h[i] = k[i]
  <2> DEFINE T == {i \in Nat : i <= n /\ i <= m /\ h[i] # k[i]}
  <2>1. SUFFICES ASSUME T # {} PROVE FALSE
    OBVIOUS
  <2>2. PICK i \in T : \A j \in T : i <= j
    BY <2>1, LeastNatural
  <2>3. i # 0
    OBVIOUS
  <2>4. i - 1 \in Nat /\ i - 1 <= n /\ i - 1 <= m /\ i - 1 \notin T
    BY <2>2, <2>3
  <2>5. h[i - 1] = k[i - 1]
    BY <2>4
  <2>6. h[(i - 1) + 1] = g[h[i - 1]] /\ k[(i - 1) + 1] = g[k[i - 1]]
    BY <2>3
  <2>7. (i - 1) + 1 = i
    OBVIOUS
  <2> QED
    BY <2>5, <2>6, <2>7
<1>2. ASSUME NEW n \in Nat PROVE Run(n) # {}
  <2> DEFINE T == {i \in Nat : Run(i) = {}}
  <2>1. SUFFICES ASSUME T # {} PROVE FALSE
    OBVIOUS
  <2>2. PICK i \in T : \A j \in T : i <= j
    BY <2>1, LeastNatural
  <2>3. i # 0
    <3>1. [j \in 0..0 |-> a] \in Run(0)
      OBVIOUS
    <3> QED
      BY <3>1
  <2>4. PICK h \in Run(i - 1) : TRUE
    BY <2>2, <2>3
  <2> DEFINE k == [j \in 0..i |-> IF j < i THEN h[j] ELSE g[h[i - 1]]]
  <2>5. k \in [0..i -> S] /\ k[0] = a
    BY <2>3, <2>4
  <2>6. ASSUME NEW j \in 0..(i - 1) PROVE k[j + 1] = g[k[j]]
    <3>1. CASE j = i - 1
      BY <3>1
    <3>2. CASE j # i - 1
      BY <2>4, <3>2
    <3> QED
      BY <3>1, <3>2
  <2>7. k \in Run(i)
    BY <2>5, <2>6
  <2> QED
    BY <2>7
<1> DEFINE f == [n \in Nat |-> (CHOOSE h \in Run(n) : TRUE)[n]]
<1>3. ASSUME NEW n \in Nat
      PROVE  \E h \in Run(n) : f[n] = h[n]
  BY <1>2
<1>4. f \in [Nat -> S] /\ f[0] = a
  <2>1. ASSUME NEW n \in Nat PROVE f[n] \in S
    <3>1. PICK h \in Run(n) : f[n] = h[n]
      BY <1>3
    <3> QED
      BY <3>1
  <2>2. f[0] = a
    <3>1. PICK h \in Run(0) : f[0] = h[0]
      BY <1>3
    <3> QED
      BY <3>1
  <2> QED
    BY <2>1, <2>2
<1>5. ASSUME NEW n \in Nat PROVE f[n + 1] = g[f[n]]
  <2>0. n + 1 \in Nat /\ n <= n + 1
    OBVIOUS
  <2> HIDE DEF f
  <2>1. PICK h \in Run(n) : f[n] = h[n]
    BY <1>3
  <2>2. PICK k \in Run(n + 1) : f[n + 1] = k[n + 1]
    BY <1>3, <2>0
  <2>3. h[n] = k[n]
    <3> HIDE DEF Run
    <3> QED
      BY <1>1, <2>0
  <2>4. k[n + 1] = g[k[n]]
    OBVIOUS
  <2> QED
    BY <2>1, <2>2, <2>3, <2>4
<1> HIDE DEF f
<1> QED
  BY <1>4, <1>5 DEF IsRun

(* The scan visits blocks of the list, then 0 for ever.                    *)
LEMMA WalkType ==
  ASSUME NEW s, NEW B, firstBlock \in B, B \subseteq Nat,
         \A ptr \in B : IsBlock(ptr),
         \A ptr \in B : s.block[ptr].nextBlock \in B \cup {0}
  PROVE  Walk(s) \in [Nat -> B \cup {0}]
<1> DEFINE S == B \cup {0}
           G(x) == IF IsBlock(x) THEN s.block[x].nextBlock ELSE 0
           g == [x \in S |-> G(x)]
           Step(v) == [i \in Nat |-> IF i = 0 THEN firstBlock ELSE G(v[i - 1])]
<1>1. g \in [S -> S] /\ ~IsBlock(0)
  BY AllocatorAssumption DEF IsBlock, firstBlock
<1>2. PICK f : IsRun(f, g, firstBlock, S)
  <2>1. firstBlock \in S
    OBVIOUS
  <2> HIDE DEF S, g
  <2> QED
    BY <1>1, <2>1, Iteration
<1>a. /\ f \in [Nat -> S] /\ f[0] = firstBlock
      /\ \A n \in Nat : f[n + 1] = g[f[n]]
  BY <1>2 DEF IsRun
<1>3. f = Step(f)
  <2>1. ASSUME NEW i \in Nat PROVE f[i] = Step(f)[i]
    <3>1. CASE i = 0
      BY <1>a, <3>1
    <3>2. CASE i # 0
      <4>1. i - 1 \in Nat /\ (i - 1) + 1 = i
        BY <3>2
      <4>2. f[(i - 1) + 1] = G(f[i - 1])
        BY <1>a, <4>1
      <4> QED
        BY <3>2, <4>1, <4>2
    <3> QED
      BY <3>1, <3>2
  <2> QED
    BY <1>a, <2>1
<1>4. Walk(s) = Step(Walk(s))
  <2>1. Walk(s) = CHOOSE v : v = Step(v)
    BY DEF Walk
  <2> HIDE DEF Step
  <2> QED
    BY <1>3, <2>1
<1>5. ASSUME NEW i \in Nat PROVE Walk(s)[i] \in S
  <2> DEFINE T == {j \in Nat : Walk(s)[j] \notin S}
  <2>1. SUFFICES ASSUME T # {} PROVE FALSE
    OBVIOUS
  <2>2. PICK j \in T : \A k \in T : j <= k
    BY <2>1, LeastNatural
  <2>3. Walk(s)[j] = IF j = 0 THEN firstBlock ELSE G(Walk(s)[j - 1])
    BY <1>4
  <2>4. j # 0 /\ j - 1 \in Nat
    BY <2>3
  <2>5. Walk(s)[j - 1] \in S
    BY <2>2, <2>4
  <2>6. \A x \in S : G(x) \in S
    BY <1>1
  <2>7. G(Walk(s)[j - 1]) \in S
    <3> HIDE DEF G, S
    <3> QED
      BY <2>5, <2>6
  <2> QED
    BY <2>3, <2>4, <2>7
<1> QED
  BY <1>4, <1>5

(* What it returns, if it is not NULL, is a free block that is large       *)
(* enough.                                                                 *)
LEMMA FirstFitFits ==
  ASSUME NEW s, NEW B, firstBlock \in B, B \subseteq Nat,
         \A ptr \in B : IsBlock(ptr),
         \A ptr \in B : s.block[ptr].nextBlock \in B \cup {0},
         NEW bytes, IsBlock(FirstFit(s, bytes))
  PROVE  /\ FirstFit(s, bytes) \in B
         /\ s.block[FirstFit(s, bytes)].isFree
         /\ s.block[FirstFit(s, bytes)].blockSize >= bytes
<1> DEFINE visit == Walk(s)
           fitting == {i \in 0..s.blockCount : Fits(s, visit[i], bytes)}
           first == CHOOSE i \in fitting : \A j \in fitting : i <= j
<1>1. ~IsBlock(0)
  BY AllocatorAssumption DEF IsBlock, firstBlock
<1>2. FirstFit(s, bytes) = IF fitting = {} THEN 0 ELSE visit[first]
  BY DEF FirstFit
<1>3. fitting # {}
  BY <1>1, <1>2
<1>4. first \in fitting
  <2>1. fitting \in SUBSET Nat
    OBVIOUS
  <2>2. \E i \in fitting : \A j \in fitting : i <= j
    BY <1>3, <2>1, LeastNatural
  <2> QED
    BY <2>2
<1>5. visit[first] \in B \cup {0} /\ Fits(s, visit[first], bytes)
  <2>1. visit \in [Nat -> B \cup {0}]
    BY WalkType
  <2> QED
    BY <1>4, <2>1
<1> QED
  BY <1>1, <1>2, <1>3, <1>5 DEF Fits

-----------------------------------------------------------------------------
(***************************************************************************)
(* The inductive invariant.                                                *)
(***************************************************************************)
EndOf(b, p) == p + BlockHeader + b[p].blockSize

(* The blocks b, with headers at the addresses B, fill the bytes up to     *)
(* end: each is where its predecessor ends, its links say so, and whatever *)
(* is behind it starts at its end or later.                                *)
WholeAt(B, b, end, p) ==
  /\ p >= firstBlock
  /\ EndOf(b, p) <= end
  /\ EndOf(b, p) = end => b[p].nextBlock = 0
  /\ EndOf(b, p) # end => /\ EndOf(b, p) \in B
                          /\ b[p].nextBlock = EndOf(b, p)
                          /\ b[EndOf(b, p)].prevBlock = p
  /\ p = firstBlock => b[p].prevBlock = 0
  /\ p # firstBlock => /\ b[p].prevBlock \in B
                       /\ EndOf(b, b[p].prevBlock) = p
  /\ \A q \in B : p < q => EndOf(b, p) <= q

Whole(B, b, end) ==
  /\ IsFiniteSet(B) /\ B \subseteq Nat /\ firstBlock \in B /\ end \in Nat
  /\ b \in [B -> HeaderType]
  /\ \A p \in B : WholeAt(B, b, end, p)

(* A segment whose header agrees with its blocks.                          *)
WholeSegment(s) ==
  /\ s = [bytes |-> s.bytes, blockCount |-> s.blockCount,
          usedBlockCount |-> s.usedBlockCount, lastBlock |-> s.lastBlock,
          block |-> s.block]
  /\ s.bytes \in Nat /\ s.bytes > BlockHeader
  /\ Whole(DOMAIN s.block, s.block, SegmentHeader + s.bytes)
  /\ s.lastBlock \in DOMAIN s.block
  /\ EndOf(s.block, s.lastBlock) = SegmentHeader + s.bytes
  /\ s.blockCount = Cardinality(DOMAIN s.block)

(* The used blocks are the live allocations r.                             *)
UsedBy(s, r) ==
  /\ DOMAIN r \subseteq DOMAIN s.block
  /\ \A p \in DOMAIN r : r[p] \in Nat \ {0}
  /\ s.usedBlockCount = Cardinality(DOMAIN r)
  /\ \A p \in DOMAIN s.block :
       IF p \in DOMAIN r
         THEN ~s.block[p].isFree /\ s.block[p].blockSize >= r[p]
         ELSE s.block[p].isFree

(* Free neighbours p and n: only where n is a seam, except when p is in P  *)
(* or n in N.                                                              *)
Apart(s, seam, P, N) ==
  \A p \in DOMAIN s.block :
    LET n == s.block[p].nextBlock
    IN  IsBlock(n) /\ s.block[p].isFree /\ s.block[n].isFree
          => n \in seam \/ p \in P \/ n \in N

HeapInv ==
  /\ WholeSegment(segment)
  /\ UsedBy(segment, requested)
  /\ Apart(segment, seams, {}, {})
  /\ call \in Requests \cup {0}

(* Elementary facts about addresses.                                       *)
LEMMA Addresses ==
  /\ BlockHeader \in Nat \ {0} /\ firstBlock \in Nat \ {0}
  /\ SegmentHeader \in Nat \ {0}
  /\ \A n \in Nat : IsBlock(n) <=> n >= firstBlock
  /\ ~IsBlock(0)
BY AllocatorAssumption DEF firstBlock, IsBlock

(* What the list says of a block, in plain terms.                          *)
LEMMA WholeFacts ==
  ASSUME NEW B, NEW b, NEW end, Whole(B, b, end), NEW p \in B
  PROVE  /\ p \in Nat /\ p >= firstBlock /\ IsBlock(p)
         /\ b[p] \in HeaderType
         /\ b[p].isFree \in BOOLEAN /\ b[p].blockSize \in Nat \ {0}
         /\ b[p].nextBlock \in Nat /\ b[p].prevBlock \in Nat
         /\ EndOf(b, p) \in Nat /\ EndOf(b, p) > p
         /\ IsBlock(b[p].nextBlock) =>
              /\ b[p].nextBlock \in B /\ b[p].nextBlock = EndOf(b, p)
              /\ b[p].nextBlock > p /\ EndOf(b, p) # end
              /\ b[b[p].nextBlock].prevBlock = p
         /\ ~IsBlock(b[p].nextBlock) => b[p].nextBlock = 0 /\ EndOf(b, p) = end
         /\ IsBlock(b[p].prevBlock) =>
              /\ b[p].prevBlock \in B /\ b[p].prevBlock < p
              /\ b[b[p].prevBlock].nextBlock = p
         /\ ~IsBlock(b[p].prevBlock) => b[p].prevBlock = 0 /\ p = firstBlock
         /\ b[p].nextBlock \in B \cup {0}
<1>1. /\ B \subseteq Nat /\ b \in [B -> HeaderType]
      /\ WholeAt(B, b, end, p)
  BY DEF Whole
<1>2. /\ p \in Nat /\ p >= firstBlock /\ IsBlock(p)
      /\ b[p] \in HeaderType
      /\ b[p].isFree \in BOOLEAN /\ b[p].blockSize \in Nat \ {0}
      /\ b[p].nextBlock \in Nat /\ b[p].prevBlock \in Nat
  BY <1>1, Addresses DEF WholeAt, HeaderType
<1>3. EndOf(b, p) \in Nat /\ EndOf(b, p) > p
  BY <1>2, Addresses DEF EndOf
<1>4. /\ IsBlock(b[p].nextBlock) =>
           /\ b[p].nextBlock \in B /\ b[p].nextBlock = EndOf(b, p)
           /\ b[p].nextBlock > p /\ EndOf(b, p) # end
           /\ b[b[p].nextBlock].prevBlock = p
      /\ ~IsBlock(b[p].nextBlock) => b[p].nextBlock = 0 /\ EndOf(b, p) = end
  <2>1. CASE EndOf(b, p) = end
    BY <1>1, <2>1, Addresses DEF WholeAt
  <2>2. CASE EndOf(b, p) # end
    BY <1>1, <1>2, <1>3, <2>2, Addresses DEF WholeAt
  <2> QED
    BY <2>1, <2>2
<1>5. /\ IsBlock(b[p].prevBlock) =>
           /\ b[p].prevBlock \in B /\ b[p].prevBlock < p
           /\ b[b[p].prevBlock].nextBlock = p
      /\ ~IsBlock(b[p].prevBlock) => b[p].prevBlock = 0 /\ p = firstBlock
  <2>1. CASE p = firstBlock
    BY <1>1, <2>1, Addresses DEF WholeAt
  <2>2. CASE p # firstBlock
    <3> DEFINE q == b[p].prevBlock
    <3>1. q \in B /\ EndOf(b, q) = p
      BY <1>1, <2>2 DEF WholeAt
    <3>2. WholeAt(B, b, end, q) /\ q \in Nat /\ q >= firstBlock
          /\ b[q].blockSize \in Nat \ {0}
      BY <3>1, Addresses DEF Whole, WholeAt, HeaderType
    <3>3. IsBlock(q) /\ q < p
      BY <1>2, <3>1, <3>2, Addresses DEF EndOf
    <3>4. p # end
      BY <1>1, <1>2, <1>3 DEF WholeAt, Whole
    <3>5. b[q].nextBlock = p
      BY <3>1, <3>2, <3>4 DEF WholeAt
    <3> QED
      BY <3>1, <3>3, <3>5
  <2> QED
    BY <2>1, <2>2
<1> QED
  BY <1>1, <1>2, <1>3, <1>4, <1>5

(* The list only reads sizes and links.                                    *)
LEMMA SameList ==
  ASSUME NEW B, NEW b, NEW end, Whole(B, b, end), NEW c \in [B -> HeaderType],
         \A p \in B : /\ c[p].blockSize = b[p].blockSize
                      /\ c[p].nextBlock = b[p].nextBlock
                      /\ c[p].prevBlock = b[p].prevBlock
  PROVE  Whole(B, c, end)
<1>1. \A p \in B : EndOf(c, p) = EndOf(b, p)
  BY DEF EndOf
<1>2. ASSUME NEW p \in B PROVE WholeAt(B, c, end, p)
  <2>1. WholeAt(B, b, end, p)
    BY DEF Whole
  <2> QED
    BY <1>1, <2>1 DEF WholeAt
<1> QED
  BY <1>2 DEF Whole

(***************************************************************************)
(* Merging: the block n behind p becomes part of p.                        *)
(***************************************************************************)
Joined(b, p, n) ==
  LET nn == b[n].nextBlock
      longer == [b EXCEPT ![p].nextBlock = nn,
                          ![p].blockSize = @ + b[n].blockSize + BlockHeader]
      relinked == IF IsBlock(nn) THEN [longer EXCEPT ![nn].prevBlock = p]
                                 ELSE longer
  IN  Drop(relinked, n)

(* The headers after a merge: only p and the successor of n change.        *)
JoinedFrom(B, b, p, n, j) ==
  /\ j \in [B \ {n} -> HeaderType]
  /\ \A q \in B \ {n} :
       /\ j[q].isFree = b[q].isFree
       /\ j[q].blockSize = b[q].blockSize +
            (IF q = p THEN b[n].blockSize + BlockHeader ELSE 0)
       /\ j[q].nextBlock = IF q = p THEN b[n].nextBlock ELSE b[q].nextBlock
       /\ j[q].prevBlock = IF q = b[n].nextBlock THEN p ELSE b[q].prevBlock

LEMMA JoinedHeaders ==
  ASSUME NEW B, NEW b \in [B -> HeaderType], NEW p \in B, NEW n \in B, p # n,
         IsBlock(b[n].nextBlock) => b[n].nextBlock \in B \ {p, n},
         ~IsBlock(b[n].nextBlock) => b[n].nextBlock \notin B,
         B \subseteq Nat
  PROVE  JoinedFrom(B, b, p, n, Joined(b, p, n))
<1> DEFINE nn == b[n].nextBlock
           longer == [b EXCEPT ![p].nextBlock = nn,
                               ![p].blockSize = @ + b[n].blockSize + BlockHeader]
           relinked == IF IsBlock(nn) THEN [longer EXCEPT ![nn].prevBlock = p]
                                      ELSE longer
<1>1. /\ BlockHeader \in Nat
      /\ \A q \in B : /\ b[q] \in HeaderType /\ b[q].blockSize \in Nat \ {0}
                      /\ b[q].nextBlock \in Nat /\ b[q].prevBlock \in Nat
      /\ p \in Nat /\ nn \in Nat
  BY Addresses DEF HeaderType
<1>2. longer \in [B -> HeaderType]
  <2> DEFINE h == [b[p] EXCEPT !.nextBlock = nn,
                               !.blockSize = @ + b[n].blockSize + BlockHeader]
  <2>1. b[p].blockSize + b[n].blockSize + BlockHeader \in Nat \ {0}
    BY <1>1
  <2>2. h \in HeaderType
    BY <1>1, <2>1 DEF HeaderType
  <2>3. longer = [b EXCEPT ![p] = h]
    OBVIOUS
  <2> HIDE DEF h
  <2> QED
    BY <2>2, <2>3
<1>3. /\ \A q \in B \ {p} : longer[q] = b[q]
      /\ longer[p].isFree = b[p].isFree /\ longer[p].prevBlock = b[p].prevBlock
      /\ longer[p].nextBlock = nn
      /\ longer[p].blockSize = b[p].blockSize + b[n].blockSize + BlockHeader
  BY <1>1 DEF HeaderType
<1> HIDE DEF longer
<1>4. /\ relinked \in [B -> HeaderType]
      /\ \A q \in B : /\ relinked[q].isFree = longer[q].isFree
                      /\ relinked[q].blockSize = longer[q].blockSize
                      /\ relinked[q].nextBlock = longer[q].nextBlock
                      /\ relinked[q].prevBlock =
                           IF q = nn THEN p ELSE longer[q].prevBlock
  <2>1. CASE IsBlock(nn)
    <3>1. relinked = [longer EXCEPT ![nn].prevBlock = p] /\ nn \in B
      BY <2>1
    <3> HIDE DEF relinked, nn
    <3> QED
      BY <1>1, <1>2, <3>1 DEF HeaderType
  <2>2. CASE ~IsBlock(nn)
    BY <1>2, <2>2
  <2> QED
    BY <2>1, <2>2
<1> HIDE DEF relinked
<1>5. Joined(b, p, n) = Drop(relinked, n)
  BY DEF Joined, relinked, longer
<1>6. /\ Joined(b, p, n) \in [B \ {n} -> HeaderType]
      /\ \A q \in B \ {n} : Joined(b, p, n)[q] = relinked[q]
  BY <1>4, <1>5 DEF Drop
<1> QED
  BY <1>1, <1>3, <1>4, <1>6 DEF JoinedFrom

(* The list j that a merge makes of b.                                     *)
JoinedWell(B, b, end, p, n, j) ==
  /\ Whole(B \ {n}, j, end)
  /\ p \in B \ {n}
  /\ EndOf(j, p) = EndOf(b, n)
  /\ \A q \in B \ {n} :
       /\ j[q].isFree = b[q].isFree
       /\ j[q].blockSize >= b[q].blockSize
       /\ j[q].nextBlock = IF q = p THEN b[n].nextBlock ELSE b[q].nextBlock
       /\ q # p => EndOf(j, q) = EndOf(b, q)

(* A block and its successor make one block of the list.                   *)
LEMMA JoinedWhole ==
  ASSUME NEW B, NEW b, NEW end, Whole(B, b, end), NEW p \in B, NEW n \in B,
         b[p].nextBlock = n
  PROVE  JoinedWell(B, b, end, p, n, Joined(b, p, n))
<1> DEFINE j == Joined(b, p, n)
           nn == b[n].nextBlock
<1>0. /\ IsFiniteSet(B) /\ B \subseteq Nat /\ firstBlock \in B /\ end \in Nat
      /\ b \in [B -> HeaderType]
      /\ \A q \in B : WholeAt(B, b, end, q)
  BY DEF Whole
<1>1. \A q \in B : /\ q \in Nat /\ q >= firstBlock /\ b[q].blockSize \in Nat \ {0}
                   /\ EndOf(b, q) \in Nat /\ EndOf(b, q) > q
  BY WholeFacts
<1>2. /\ IsBlock(n) /\ n = EndOf(b, p) /\ n > p /\ b[n].prevBlock = p
      /\ n # firstBlock
  <2>1. IsBlock(n)
    BY WholeFacts
  <2>2. n = EndOf(b, p) /\ n > p /\ b[n].prevBlock = p
    BY <2>1, WholeFacts
  <2> QED
    BY <1>1, <2>1, <2>2
<1>3. /\ IsBlock(nn) => /\ nn \in B \ {p, n} /\ nn = EndOf(b, n) /\ nn > n
                        /\ b[nn].prevBlock = n /\ EndOf(b, n) # end
      /\ ~IsBlock(nn) => nn = 0 /\ nn \notin B /\ EndOf(b, n) = end
  <2>1. /\ IsBlock(nn) => /\ nn \in B /\ nn = EndOf(b, n) /\ nn > n
                          /\ b[nn].prevBlock = n /\ EndOf(b, n) # end
        /\ ~IsBlock(nn) => nn = 0 /\ EndOf(b, n) = end
    BY WholeFacts
  <2>2. 0 \notin B
    BY <1>1, Addresses
  <2> QED
    BY <1>1, <1>2, <2>1, <2>2
<1>4. /\ j \in [B \ {n} -> HeaderType]
      /\ \A q \in B \ {n} :
           /\ j[q].isFree = b[q].isFree
           /\ j[q].blockSize = b[q].blockSize +
                (IF q = p THEN b[n].blockSize + BlockHeader ELSE 0)
           /\ j[q].nextBlock = IF q = p THEN nn ELSE b[q].nextBlock
           /\ j[q].prevBlock = IF q = nn THEN p ELSE b[q].prevBlock
  <2>1. /\ p # n
        /\ IsBlock(b[n].nextBlock) => b[n].nextBlock \in B \ {p, n}
        /\ ~IsBlock(b[n].nextBlock) => b[n].nextBlock \notin B
    BY <1>1, <1>2, <1>3
  <2>2. JoinedFrom(B, b, p, n, j)
    BY <1>0, <2>1, JoinedHeaders
  <2> QED
    BY <2>2 DEF JoinedFrom
<1> HIDE DEF j, nn
<1>5. p \in B \ {n} /\ EndOf(j, p) = EndOf(b, n)
  <2>1. p \in B \ {n}
    BY <1>1, <1>2
  <2>2. j[p].blockSize = b[p].blockSize + (b[n].blockSize + BlockHeader)
    BY <1>4, <2>1
  <2> QED
    BY <1>1, <1>2, <2>1, <2>2, Addresses DEF EndOf
<1>6. \A q \in B \ {p, n} : EndOf(j, q) = EndOf(b, q)
  BY <1>1, <1>4 DEF EndOf
<1>7. ASSUME NEW q \in B \ {n} PROVE WholeAt(B \ {n}, j, end, q)
  <2>1. WholeAt(B, b, end, q) /\ WholeAt(B, b, end, n) /\ WholeAt(B, b, end, p)
    BY <1>0
  <2>2. q >= firstBlock /\ EndOf(j, q) <= end
    BY <1>5, <1>6, <2>1 DEF WholeAt
  <2>3. EndOf(j, q) = end => j[q].nextBlock = 0
    BY <1>3, <1>4, <1>5, <1>6, <2>1, Addresses DEF WholeAt
  <2>4. ASSUME EndOf(j, q) # end
        PROVE  /\ EndOf(j, q) \in B \ {n}
               /\ j[q].nextBlock = EndOf(j, q)
               /\ j[EndOf(j, q)].prevBlock = q
    <3>1. CASE q = p
      BY <1>3, <1>4, <1>5, <2>4, <3>1
    <3>2. CASE q # p
      <4> DEFINE e == EndOf(b, q)
      <4>1. /\ EndOf(j, q) = e /\ e \in B
            /\ b[q].nextBlock = e /\ b[e].prevBlock = q
        BY <1>6, <2>1, <2>4, <3>2 DEF WholeAt
      <4>2. e # n /\ e # nn
        BY <1>2, <1>3, <3>2, <4>1
      <4> HIDE DEF e
      <4> QED
        BY <1>4, <3>2, <4>1, <4>2
    <3> QED
      BY <3>1, <3>2
  <2>5. q = firstBlock => j[q].prevBlock = 0
    <3>1. q = firstBlock => q # nn
      BY <1>1, <1>2, <1>3
    <3> QED
      BY <1>4, <2>1, <3>1 DEF WholeAt
  <2>6. q # firstBlock => /\ j[q].prevBlock \in B \ {n}
                          /\ EndOf(j, j[q].prevBlock) = q
    <3>1. CASE q = nn
      BY <1>3, <1>4, <1>5, <3>1, Addresses
    <3>2. CASE q # nn
      <4> DEFINE e == b[q].prevBlock
      <4>1. SUFFICES ASSUME q # firstBlock
                     PROVE  e \in B \ {n} /\ EndOf(j, e) = q
        BY <1>4, <3>2
      <4>2. e \in B /\ EndOf(b, e) = q
        BY <2>1, <4>1 DEF WholeAt
      <4>3. e # n
        BY <1>1, <1>3, <2>1, <3>2, <4>2 DEF WholeAt
      <4>4. e # p
        BY <1>2, <4>2
      <4> QED
        BY <1>6, <4>2, <4>3, <4>4
    <3> QED
      BY <3>1, <3>2
  <2>7. \A r \in B \ {n} : q < r => EndOf(j, q) <= r
    <3>1. CASE q = p
      <4>1. SUFFICES ASSUME NEW r \in B \ {n}, p < r PROVE EndOf(b, n) <= r
        BY <1>5, <3>1
      <4>2. n <= r
        BY <1>2, <2>1, <4>1 DEF WholeAt
      <4>3. n < r
        BY <1>1, <4>1, <4>2
      <4> QED
        BY <2>1, <4>3 DEF WholeAt
    <3>2. CASE q # p
      BY <1>6, <2>1, <3>2 DEF WholeAt
    <3> QED
      BY <3>1, <3>2
  <2> QED
    BY <2>2, <2>3, <2>4, <2>5, <2>6, <2>7 DEF WholeAt
<1>8. Whole(B \ {n}, j, end)
  <2>1. IsFiniteSet(B \ {n})
    BY <1>0, FS_RemoveElement
  <2> QED
    BY <1>0, <1>2, <1>4, <1>7, <2>1 DEF Whole
<1>9. \A q \in B \ {n} : j[q].blockSize >= b[q].blockSize
  BY <1>1, <1>4, Addresses
<1> QED
  BY <1>4, <1>5, <1>6, <1>8, <1>9 DEF JoinedWell, j, nn

(* A merge, as both directions of bfree do it.                             *)
MergedInto(s, p, n) ==
  [s EXCEPT !.block = Joined(s.block, p, n),
            !.lastBlock = IF @ = n THEN p ELSE @,
            !.blockCount = @ - 1]

(* Both directions of bfree's merge are that one.                          *)
LEMMA MergesAreOne ==
  ASSUME NEW s, NEW p
  PROVE  /\ LET n == s.block[p].nextBlock
            IN  MergedWithNext(s, p) =
                  IF IsBlock(n) /\ s.block[n].isFree THEN MergedInto(s, p, n) ELSE s
         /\ LET q == s.block[p].prevBlock
            IN  MergedWithPrevious(s, p) =
                  IF IsBlock(q) /\ s.block[q].isFree THEN MergedInto(s, q, p) ELSE s
BY DEF MergedWithNext, MergedWithPrevious, MergedInto, Joined

(* The header stays in step with the list.                                 *)
LEMMA MergedSegment ==
  ASSUME NEW s, WholeSegment(s), NEW p \in DOMAIN s.block,
         NEW n \in DOMAIN s.block, s.block[p].nextBlock = n
  PROVE  LET m == MergedInto(s, p, n)
         IN  /\ WholeSegment(m)
             /\ m.bytes = s.bytes /\ m.usedBlockCount = s.usedBlockCount
             /\ m.block = Joined(s.block, p, n)
             /\ DOMAIN m.block = DOMAIN s.block \ {n}
<1> DEFINE m == MergedInto(s, p, n)
           B == DOMAIN s.block
           b == s.block
           j == Joined(b, p, n)
           end == SegmentHeader + s.bytes
<1>1. /\ m.bytes = s.bytes /\ m.usedBlockCount = s.usedBlockCount
      /\ m.block = j
      /\ m.lastBlock = IF s.lastBlock = n THEN p ELSE s.lastBlock
      /\ m.blockCount = s.blockCount - 1
      /\ m = [bytes |-> m.bytes, blockCount |-> m.blockCount,
              usedBlockCount |-> m.usedBlockCount, lastBlock |-> m.lastBlock,
              block |-> m.block]
  <2> DEFINE last == IF s.lastBlock = n THEN p ELSE s.lastBlock
  <2>1. s = [bytes |-> s.bytes, blockCount |-> s.blockCount,
             usedBlockCount |-> s.usedBlockCount, lastBlock |-> s.lastBlock,
             block |-> s.block]
    BY DEF WholeSegment
  <2> HIDE DEF j
  <2>2. m = [bytes |-> s.bytes, blockCount |-> s.blockCount - 1,
             usedBlockCount |-> s.usedBlockCount, lastBlock |-> last, block |-> j]
    <3>1. PICK a, c, u, l, k :
            s = [bytes |-> a, blockCount |-> c, usedBlockCount |-> u,
                 lastBlock |-> l, block |-> k]
      BY <2>1
    <3>2. m = [s EXCEPT !.block = j, !.lastBlock = last,
                        !.blockCount = s.blockCount - 1]
      BY <2>1 DEF MergedInto, j
    <3> HIDE DEF m, last
    <3> QED
      BY <3>1, <3>2
  <2> HIDE DEF m, last
  <2>3. /\ m.bytes = s.bytes /\ m.usedBlockCount = s.usedBlockCount
        /\ m.block = j /\ m.lastBlock = last
        /\ m.blockCount = s.blockCount - 1
    BY <2>2
  <2> QED
    BY <2>2, <2>3 DEF last
<1>2. /\ Whole(B, b, end) /\ IsFiniteSet(B)
      /\ s.lastBlock \in B /\ EndOf(b, s.lastBlock) = end
      /\ s.blockCount = Cardinality(B)
      /\ s.bytes \in Nat /\ s.bytes > BlockHeader
  BY DEF WholeSegment, Whole
<1> HIDE DEF m, j, b
<1>3. /\ Whole(B \ {n}, j, end)
      /\ p \in B \ {n}
      /\ EndOf(j, p) = EndOf(b, n)
      /\ \A q \in B \ {n, p} : EndOf(j, q) = EndOf(b, q)
  <2>1. JoinedWell(B, b, end, p, n, j)
    BY <1>2, JoinedWhole DEF j, b
  <2> QED
    BY <2>1 DEF JoinedWell
<1>4. DOMAIN j = B \ {n}
  BY <1>3 DEF Whole
<1>5. m.lastBlock \in B \ {n} /\ EndOf(j, m.lastBlock) = end
  <2>1. CASE s.lastBlock = n
    BY <1>1, <1>2, <1>3, <2>1
  <2>2. CASE s.lastBlock # n
    <3>1. s.lastBlock # p
      <4>1. IsBlock(b[p].nextBlock)
        BY <1>2, WholeFacts DEF b
      <4> QED
        BY <1>2, <4>1, WholeFacts DEF b
    <3> QED
      BY <1>1, <1>2, <1>3, <2>2, <3>1
  <2> QED
    BY <2>1, <2>2
<1>6. m.blockCount = Cardinality(B \ {n})
  <2>1. Cardinality(B \ {n}) = Cardinality(B) - 1
    BY <1>2, FS_RemoveElement
  <2> QED
    BY <1>1, <1>2, <2>1
<1> QED
  BY <1>1, <1>2, <1>3, <1>4, <1>5, <1>6 DEF WholeSegment, m, j, b

(* A free block that is merged away is nobody's.                           *)
LEMMA MergedUsed ==
  ASSUME NEW s, WholeSegment(s), NEW p \in DOMAIN s.block,
         NEW n \in DOMAIN s.block, s.block[p].nextBlock = n,
         s.block[n].isFree, NEW r, UsedBy(s, r)
  PROVE  UsedBy(MergedInto(s, p, n), r)
<1> DEFINE m == MergedInto(s, p, n)
           B == DOMAIN s.block
<1>1. /\ m.usedBlockCount = s.usedBlockCount
      /\ m.block = Joined(s.block, p, n)
      /\ DOMAIN m.block = B \ {n}
  BY MergedSegment
<1> HIDE DEF m
<1>2. \A q \in B \ {n} : /\ m.block[q].isFree = s.block[q].isFree
                         /\ m.block[q].blockSize >= s.block[q].blockSize
                         /\ m.block[q].blockSize \in Nat
                         /\ s.block[q].blockSize \in Nat
  <2>1. Whole(B, s.block, SegmentHeader + s.bytes)
    BY DEF WholeSegment
  <2>0. JoinedWell(B, s.block, SegmentHeader + s.bytes, p, n, m.block)
    BY <1>1, <2>1, JoinedWhole
  <2>2. Whole(B \ {n}, m.block, SegmentHeader + s.bytes)
    BY <2>0 DEF JoinedWell
  <2>3. \A q \in B \ {n} : /\ m.block[q].isFree = s.block[q].isFree
                           /\ m.block[q].blockSize >= s.block[q].blockSize
    BY <2>0 DEF JoinedWell
  <2>4. \A q \in B \ {n} : m.block[q].blockSize \in Nat /\ s.block[q].blockSize \in Nat
    BY <2>1, <2>2, WholeFacts
  <2> QED
    BY <2>3, <2>4
<1>3. n \notin DOMAIN r
  BY DEF UsedBy
<1>4. ASSUME NEW q \in B \ {n}
      PROVE  IF q \in DOMAIN r
               THEN ~m.block[q].isFree /\ m.block[q].blockSize >= r[q]
               ELSE m.block[q].isFree
  BY <1>2 DEF UsedBy
<1>5. UsedBy(m, r)
  BY <1>1, <1>3, <1>4 DEF UsedBy
<1> QED
  BY <1>5 DEF m

(* The pairs of free neighbours after a merge: those before, except that   *)
(* p takes the place of n.                                                 *)
LEMMA MergedApart ==
  ASSUME NEW s, WholeSegment(s), NEW p \in DOMAIN s.block,
         NEW n \in DOMAIN s.block, s.block[p].nextBlock = n,
         s.block[n].isFree, NEW S
  PROVE  /\ Apart(s, S, {p}, {p}) => Apart(MergedInto(s, p, n), S, {}, {p})
         /\ Apart(s, S, {}, {n}) => Apart(MergedInto(s, p, n), S, {}, {})
<1> DEFINE m == MergedInto(s, p, n)
           B == DOMAIN s.block
           b == s.block
<1>1. /\ m.block = Joined(b, p, n)
      /\ DOMAIN m.block = B \ {n}
      /\ Whole(B, b, SegmentHeader + s.bytes)
  BY MergedSegment DEF WholeSegment
<1> HIDE DEF m
<1>2. \A q \in B \ {n} :
        /\ m.block[q].isFree = b[q].isFree
        /\ m.block[q].nextBlock = IF q = p THEN b[n].nextBlock ELSE b[q].nextBlock
  <2>1. JoinedWell(B, b, SegmentHeader + s.bytes, p, n, m.block)
    BY <1>1, JoinedWhole
  <2> QED
    BY <2>1 DEF JoinedWell
<1>3. ASSUME NEW q \in B \ {n}, IsBlock(m.block[q].nextBlock),
             m.block[q].isFree, m.block[m.block[q].nextBlock].isFree
      PROVE  \E x \in B : /\ IsBlock(b[x].nextBlock)
                          /\ b[x].isFree /\ b[b[x].nextBlock].isFree
                          /\ b[x].nextBlock = m.block[q].nextBlock
                          /\ b[x].nextBlock # n
                          /\ x # p /\ (q # p => x = q)
                          /\ q = p => b[x].nextBlock # p
  <2>1. b[n].prevBlock = p /\ IsBlock(n) /\ p < n /\ p \in Nat /\ n \in Nat
    <3>1. IsBlock(n)
      BY <1>1, WholeFacts
    <3> QED
      BY <1>1, <3>1, WholeFacts
  <2>2. CASE q = p
    <3>1. m.block[q].nextBlock = b[n].nextBlock
      BY <1>2, <2>2
    <3>2. /\ b[n].nextBlock \in B /\ n < b[n].nextBlock
          /\ b[n].nextBlock \in Nat
      BY <1>1, <1>3, <3>1, WholeFacts
    <3>3. b[b[n].nextBlock].isFree
      BY <1>2, <1>3, <2>1, <3>1, <3>2
    <3> QED
      BY <1>3, <2>1, <2>2, <3>1, <3>2, <3>3
  <2>3. CASE q # p
    <3>1. m.block[q].nextBlock = b[q].nextBlock
      BY <1>2, <2>3
    <3>2. b[q].nextBlock \in B /\ b[b[q].nextBlock].prevBlock = q
      BY <1>1, <1>3, <3>1, WholeFacts
    <3>3. b[q].nextBlock # n
      BY <2>1, <2>3, <3>2
    <3> QED
      BY <1>2, <1>3, <2>3, <3>1, <3>2, <3>3
  <2> QED
    BY <2>2, <2>3
<1>4. ASSUME Apart(s, S, {p}, {p}) PROVE Apart(m, S, {}, {p})
  BY <1>1, <1>3, <1>4 DEF Apart
<1>5. ASSUME Apart(s, S, {}, {n}) PROVE Apart(m, S, {}, {})
  BY <1>1, <1>3, <1>5 DEF Apart
<1> QED
  BY <1>4, <1>5 DEF m

(***************************************************************************)
(* bfree.                                                                  *)
(***************************************************************************)
Freed(s, ptr) == [s EXCEPT !.block[ptr].isFree = TRUE, !.usedBlockCount = @ - 1]

(* The live allocations are finitely many.                                 *)
LEMMA UsedFinite ==
  ASSUME NEW s, WholeSegment(s), NEW r, UsedBy(s, r)
  PROVE  /\ IsFiniteSet(DOMAIN r) /\ Cardinality(DOMAIN r) \in Nat
         /\ DOMAIN r \in SUBSET DOMAIN s.block
<1>1. IsFiniteSet(DOMAIN s.block) /\ DOMAIN r \in SUBSET DOMAIN s.block
  BY DEF WholeSegment, Whole, UsedBy
<1> QED
  BY <1>1, FS_Subset, FS_CardinalityType

(* f is s with another flag on one block and another count of used blocks. *)
Tagged(s, ptr, flag, count, f) ==
  /\ WholeSegment(f) /\ f.bytes = s.bytes /\ f.usedBlockCount = count
  /\ f.lastBlock = s.lastBlock /\ f.blockCount = s.blockCount
  /\ DOMAIN f.block = DOMAIN s.block
  /\ \A p \in DOMAIN s.block :
       /\ f.block[p].isFree = IF p = ptr THEN flag ELSE s.block[p].isFree
       /\ f.block[p].blockSize = s.block[p].blockSize
       /\ f.block[p].nextBlock = s.block[p].nextBlock
       /\ f.block[p].prevBlock = s.block[p].prevBlock

(* A flag and a count do not change the list.                              *)
LEMMA Retagged ==
  ASSUME NEW s, WholeSegment(s), NEW ptr \in DOMAIN s.block,
         NEW flag \in BOOLEAN, NEW count,
         NEW f, f = [s EXCEPT !.block = [s.block EXCEPT ![ptr].isFree = flag],
                              !.usedBlockCount = count]
  PROVE  Tagged(s, ptr, flag, count, f)
<1> DEFINE B == DOMAIN s.block
           c == [s.block EXCEPT ![ptr].isFree = flag]
           end == SegmentHeader + s.bytes
<1>1. Whole(B, s.block, end) /\ s.block \in [B -> HeaderType]
  BY DEF WholeSegment, Whole
<1>2. /\ c \in [B -> HeaderType]
      /\ \A p \in B : /\ c[p].isFree = IF p = ptr THEN flag ELSE s.block[p].isFree
                      /\ c[p].blockSize = s.block[p].blockSize
                      /\ c[p].nextBlock = s.block[p].nextBlock
                      /\ c[p].prevBlock = s.block[p].prevBlock
  BY <1>1 DEF HeaderType
<1> HIDE DEF c
<1>3. Whole(B, c, end)
  BY <1>1, <1>2, SameList
<1>4. /\ f = [bytes |-> f.bytes, blockCount |-> f.blockCount,
              usedBlockCount |-> f.usedBlockCount, lastBlock |-> f.lastBlock,
              block |-> f.block]
      /\ f.bytes = s.bytes /\ f.usedBlockCount = count /\ f.block = c
      /\ f.lastBlock = s.lastBlock /\ f.blockCount = s.blockCount
  <2>1. PICK a, n, u, l, k :
          s = [bytes |-> a, blockCount |-> n, usedBlockCount |-> u,
               lastBlock |-> l, block |-> k]
    BY DEF WholeSegment
  <2>2. f = [s EXCEPT !.block = c, !.usedBlockCount = count]
    BY DEF c
  <2> QED
    BY <2>1, <2>2
<1>5. EndOf(c, s.lastBlock) = EndOf(s.block, s.lastBlock) /\ DOMAIN c = B
  BY <1>2 DEF EndOf, WholeSegment
<1> QED
  BY <1>2, <1>3, <1>4, <1>5 DEF WholeSegment, Tagged

(* bfree frees one allocation and keeps the list: it leaves a pair of free *)
(* neighbours only at a seam.                                              *)
LEMMA ReleasedHeap ==
  ASSUME NEW s, WholeSegment(s), NEW r, UsedBy(s, r), NEW S, Apart(s, S, {}, {}),
         NEW ptr \in DOMAIN r
  PROVE  LET m == Released(s, ptr)
         IN  /\ WholeSegment(m) /\ UsedBy(m, Drop(r, ptr))
             /\ Apart(m, S, {}, {}) /\ m.bytes = s.bytes
<1> DEFINE f == Freed(s, ptr)
           d == Drop(r, ptr)
           g == MergedWithNext(f, ptr)
           m == MergedWithPrevious(g, ptr)
<1>0. Released(s, ptr) = m
  BY DEF Released, Freed
<1>1. /\ IsFiniteSet(DOMAIN r) /\ ptr \in DOMAIN s.block
      /\ Whole(DOMAIN s.block, s.block, SegmentHeader + s.bytes)
  BY UsedFinite DEF WholeSegment
<1>2. /\ WholeSegment(f) /\ f.bytes = s.bytes
      /\ f.usedBlockCount = s.usedBlockCount - 1
      /\ DOMAIN f.block = DOMAIN s.block
      /\ \A p \in DOMAIN s.block :
           /\ f.block[p].isFree = IF p = ptr THEN TRUE ELSE s.block[p].isFree
           /\ f.block[p].blockSize = s.block[p].blockSize
           /\ f.block[p].nextBlock = s.block[p].nextBlock
  <2>1. f = [s EXCEPT !.block = [s.block EXCEPT ![ptr].isFree = TRUE],
                      !.usedBlockCount = s.usedBlockCount - 1]
    BY DEF Freed, WholeSegment
  <2> HIDE DEF f
  <2>2. Tagged(s, ptr, TRUE, s.usedBlockCount - 1, f)
    BY <1>1, <2>1, Retagged
  <2> QED
    BY <2>2 DEF Tagged
<1> HIDE DEF f
<1>3. UsedBy(f, d)
  <2>1. /\ DOMAIN d = DOMAIN r \ {ptr}
        /\ \A p \in DOMAIN d : d[p] = r[p]
    BY DEF Drop
  <2>2. Cardinality(DOMAIN r \ {ptr}) = Cardinality(DOMAIN r) - 1
    BY <1>1, FS_RemoveElement
  <2> HIDE DEF d
  <2>3. ASSUME NEW p \in DOMAIN s.block
        PROVE  IF p \in DOMAIN d
                 THEN ~f.block[p].isFree /\ f.block[p].blockSize >= d[p]
                 ELSE f.block[p].isFree
    BY <1>2, <2>1 DEF UsedBy
  <2> QED
    BY <1>2, <2>1, <2>2, <2>3 DEF UsedBy
<1>4. Apart(f, S, {ptr}, {ptr})
  <2>1. \A p \in DOMAIN s.block :
          IsBlock(s.block[p].nextBlock) => s.block[p].nextBlock \in DOMAIN s.block
    BY <1>1, WholeFacts
  <2> QED
    BY <1>2, <2>1 DEF Apart
<1>5. /\ WholeSegment(g) /\ UsedBy(g, d) /\ Apart(g, S, {}, {ptr})
      /\ g.bytes = s.bytes
      /\ ptr \in DOMAIN g.block /\ g.block[ptr].isFree
  <2> DEFINE n == f.block[ptr].nextBlock
  <2>0. Whole(DOMAIN f.block, f.block, SegmentHeader + f.bytes)
    BY <1>2 DEF WholeSegment
  <2>1. CASE IsBlock(n) /\ f.block[n].isFree
    <3>1. n \in DOMAIN f.block
      BY <1>1, <1>2, <2>0, <2>1, WholeFacts
    <3>2. g = MergedInto(f, ptr, n)
      BY <2>1, MergesAreOne
    <3>3. /\ WholeSegment(g) /\ g.bytes = s.bytes
          /\ g.block = Joined(f.block, ptr, n)
          /\ DOMAIN g.block = DOMAIN f.block \ {n}
      BY <1>1, <1>2, <3>1, <3>2, MergedSegment
    <3>4. UsedBy(g, d) /\ Apart(g, S, {}, {ptr})
      BY <1>1, <1>2, <1>3, <1>4, <2>1, <3>1, <3>2, MergedUsed, MergedApart
    <3>5. JoinedWell(DOMAIN f.block, f.block, SegmentHeader + f.bytes, ptr, n,
                     Joined(f.block, ptr, n))
      BY <1>1, <1>2, <2>0, <3>1, JoinedWhole
    <3>6. ptr \in DOMAIN g.block /\ g.block[ptr].isFree
      BY <1>1, <1>2, <3>3, <3>5 DEF JoinedWell
    <3> QED
      BY <3>3, <3>4, <3>6
  <2>2. CASE ~(IsBlock(n) /\ f.block[n].isFree)
    <3>1. g = f
      BY <2>2, MergesAreOne
    <3>2. Apart(f, S, {}, {ptr})
      BY <1>4, <2>2 DEF Apart
    <3> QED
      BY <1>1, <1>2, <1>3, <3>1, <3>2
  <2> QED
    BY <2>1, <2>2
<1> HIDE DEF g
<1>6. WholeSegment(m) /\ UsedBy(m, d) /\ Apart(m, S, {}, {}) /\ m.bytes = s.bytes
  <2> DEFINE q == g.block[ptr].prevBlock
  <2>0. Whole(DOMAIN g.block, g.block, SegmentHeader + g.bytes)
    BY <1>5 DEF WholeSegment
  <2>1. CASE IsBlock(q) /\ g.block[q].isFree
    <3>1. q \in DOMAIN g.block /\ g.block[q].nextBlock = ptr
      BY <1>5, <2>0, <2>1, WholeFacts
    <3>2. m = MergedInto(g, q, ptr)
      BY <2>1, MergesAreOne
    <3>3. WholeSegment(m) /\ m.bytes = s.bytes
      BY <1>5, <3>1, <3>2, MergedSegment
    <3>4. UsedBy(m, d) /\ Apart(m, S, {}, {})
      BY <1>5, <3>1, <3>2, MergedUsed, MergedApart
    <3> QED
      BY <3>3, <3>4
  <2>2. CASE ~(IsBlock(q) /\ g.block[q].isFree)
    <3>1. m = g
      BY <2>2, MergesAreOne
    <3>2. \A p \in DOMAIN g.block : g.block[p].nextBlock = ptr => p = q /\ IsBlock(p)
      <4>1. IsBlock(ptr)
        BY <1>5, <2>0, WholeFacts
      <4> QED
        BY <2>0, <4>1, WholeFacts
    <3>3. Apart(g, S, {}, {})
      BY <1>5, <2>2, <3>2 DEF Apart
    <3> QED
      BY <1>5, <3>1, <3>3
  <2> QED
    BY <2>1, <2>2
<1> HIDE DEF m
<1> QED
  BY <1>0, <1>6

(***************************************************************************)
(* balloc: a block is cut in two when it is too large.                     *)
(***************************************************************************)
CutBlocks(b, p, bytes, unused) ==
  LET old == b[p].nextBlock
      new == p + BlockHeader + bytes
      cut == [b EXCEPT ![p].blockSize = bytes, ![p].nextBlock = new]
      added == Put(cut, new, Header(TRUE, unused - BlockHeader, old, p))
  IN  IF IsBlock(old) THEN [added EXCEPT ![old].prevBlock = new] ELSE added

(* The headers after a cut: c has the header new behind p's n bytes.       *)
CutFrom(B, b, p, new, n, c) ==
  /\ c \in [B \cup {new} -> HeaderType]
  /\ \A q \in B :
       /\ c[q].isFree = b[q].isFree
       /\ c[q].blockSize = IF q = p THEN n ELSE b[q].blockSize
       /\ c[q].nextBlock = IF q = p THEN new ELSE b[q].nextBlock
       /\ c[q].prevBlock = IF q = b[p].nextBlock THEN new ELSE b[q].prevBlock
  /\ c[new].isFree /\ c[new].blockSize = b[p].blockSize - n - BlockHeader
  /\ c[new].nextBlock = b[p].nextBlock /\ c[new].prevBlock = p

(* make_new_block_with_unused_space writes these headers.                  *)
LEMMA CutHeaders ==
  ASSUME NEW B, NEW b \in [B -> HeaderType], NEW p \in B, B \subseteq Nat,
         NEW n \in Nat \ {0}, b[p].blockSize - n > BlockHeader,
         p + BlockHeader + n \notin B,
         IsBlock(b[p].nextBlock) => b[p].nextBlock \in B \ {p},
         ~IsBlock(b[p].nextBlock) => b[p].nextBlock \notin B
  PROVE  CutFrom(B, b, p, p + BlockHeader + n, n,
                 CutBlocks(b, p, n, b[p].blockSize - n))
<1> DEFINE old == b[p].nextBlock
           new == p + BlockHeader + n
           size == b[p].blockSize - n - BlockHeader
           h == Header(TRUE, size, old, p)
           cut == [b EXCEPT ![p].blockSize = n, ![p].nextBlock = new]
           added == Put(cut, new, h)
           c == IF IsBlock(old) THEN [added EXCEPT ![old].prevBlock = new]
                                ELSE added
<1>1. /\ BlockHeader \in Nat
      /\ \A q \in B : /\ b[q] \in HeaderType /\ b[q].blockSize \in Nat \ {0}
                      /\ b[q].nextBlock \in Nat /\ b[q].prevBlock \in Nat
      /\ p \in Nat /\ old \in Nat /\ new \in Nat /\ size \in Nat \ {0}
      /\ new \notin B
  BY Addresses DEF HeaderType
<1>2. /\ h \in HeaderType
      /\ h.isFree = TRUE /\ h.blockSize = size /\ h.nextBlock = old
      /\ h.prevBlock = p
  BY <1>1 DEF Header, HeaderType
<1> HIDE DEF h, new, size
<1>3. /\ cut \in [B -> HeaderType]
      /\ \A q \in B :
           /\ cut[q].isFree = b[q].isFree
           /\ cut[q].blockSize = IF q = p THEN n ELSE b[q].blockSize
           /\ cut[q].nextBlock = IF q = p THEN new ELSE b[q].nextBlock
           /\ cut[q].prevBlock = b[q].prevBlock
  <2> DEFINE x == [b[p] EXCEPT !.blockSize = n, !.nextBlock = new]
  <2>1. /\ x \in HeaderType /\ x.isFree = b[p].isFree /\ x.blockSize = n
        /\ x.nextBlock = new /\ x.prevBlock = b[p].prevBlock
    BY <1>1 DEF HeaderType
  <2>2. cut = [b EXCEPT ![p] = x]
    OBVIOUS
  <2> HIDE DEF x, cut
  <2> QED
    BY <2>1, <2>2
<1> HIDE DEF cut
<1>4. /\ added \in [B \cup {new} -> HeaderType]
      /\ added[new] = h /\ \A q \in B : added[q] = cut[q]
  BY <1>1, <1>2, <1>3 DEF Put
<1> HIDE DEF added
<1>5. /\ c \in [B \cup {new} -> HeaderType]
      /\ \A q \in B \cup {new} :
           /\ c[q].isFree = added[q].isFree
           /\ c[q].blockSize = added[q].blockSize
           /\ c[q].nextBlock = added[q].nextBlock
           /\ c[q].prevBlock = IF q = old /\ q \in B THEN new ELSE added[q].prevBlock
  <2>1. CASE IsBlock(old)
    <3>1. c = [added EXCEPT ![old].prevBlock = new] /\ old \in B
      BY <2>1
    <3> HIDE DEF c, old
    <3> QED
      BY <1>1, <1>4, <3>1 DEF HeaderType
  <2>2. CASE ~IsBlock(old)
    <3>1. c = added /\ old \notin B
      BY <2>2
    <3> HIDE DEF c, old
    <3> QED
      BY <1>4, <3>1
  <2> QED
    BY <2>1, <2>2
<1>6. CutBlocks(b, p, n, b[p].blockSize - n) = c
  BY DEF CutBlocks, c, added, cut, h, new, size
<1> HIDE DEF c
<1>7. CutFrom(B, b, p, new, n, c)
  BY <1>1, <1>2, <1>3, <1>4, <1>5 DEF CutFrom, size
<1> QED
  BY <1>6, <1>7 DEF new

(* The list c that a cut makes of b.                                       *)
CutWell(B, b, end, p, new, n, c) ==
  /\ Whole(B \cup {new}, c, end)
  /\ new \notin B
  /\ CutFrom(B, b, p, new, n, c)
  /\ EndOf(c, new) = EndOf(b, p)
  /\ \A q \in B \ {p} : EndOf(c, q) = EndOf(b, q)

(* A cut leaves a list.                                                    *)
LEMMA CutWhole ==
  ASSUME NEW B, NEW b, NEW end, Whole(B, b, end), NEW p \in B,
         NEW n \in Nat \ {0}, b[p].blockSize - n > BlockHeader
  PROVE  CutWell(B, b, end, p, p + BlockHeader + n, n,
                 CutBlocks(b, p, n, b[p].blockSize - n))
<1> DEFINE c == CutBlocks(b, p, n, b[p].blockSize - n)
           new == p + BlockHeader + n
           old == b[p].nextBlock
<1>0. /\ IsFiniteSet(B) /\ B \subseteq Nat /\ firstBlock \in B /\ end \in Nat
      /\ b \in [B -> HeaderType]
      /\ \A q \in B : WholeAt(B, b, end, q)
  BY DEF Whole
<1>1. \A q \in B : /\ q \in Nat /\ q >= firstBlock /\ b[q].blockSize \in Nat \ {0}
                   /\ EndOf(b, q) \in Nat /\ EndOf(b, q) > q
  BY WholeFacts
<1>2. /\ new \in Nat /\ p < new /\ new < EndOf(b, p) /\ new > firstBlock
  BY <1>1, Addresses DEF EndOf
<1>3. new \notin B
  <2>1. WholeAt(B, b, end, p)
    BY <1>0
  <2> QED
    BY <1>1, <1>2, <2>1 DEF WholeAt
<1>4. /\ IsBlock(old) => /\ old \in B \ {p} /\ old = EndOf(b, p) /\ old > p
                         /\ b[old].prevBlock = p /\ EndOf(b, p) # end
      /\ ~IsBlock(old) => old = 0 /\ old \notin B /\ EndOf(b, p) = end
  <2>1. /\ IsBlock(old) => /\ old \in B /\ old = EndOf(b, p) /\ old > p
                           /\ b[old].prevBlock = p /\ EndOf(b, p) # end
        /\ ~IsBlock(old) => old = 0 /\ EndOf(b, p) = end
    BY WholeFacts
  <2>2. 0 \notin B
    BY <1>1, Addresses
  <2> QED
    BY <1>1, <2>1, <2>2
<1>5. CutFrom(B, b, p, new, n, c)
  BY <1>0, <1>3, <1>4, CutHeaders
<1> HIDE DEF c, old
<1>6. /\ c \in [B \cup {new} -> HeaderType]
      /\ \A q \in B :
           /\ c[q].blockSize = IF q = p THEN n ELSE b[q].blockSize
           /\ c[q].nextBlock = IF q = p THEN new ELSE b[q].nextBlock
           /\ c[q].prevBlock = IF q = old THEN new ELSE b[q].prevBlock
      /\ c[new].blockSize = b[p].blockSize - n - BlockHeader
      /\ c[new].nextBlock = old /\ c[new].prevBlock = p
  BY <1>5 DEF CutFrom, old
<1>7. EndOf(c, p) = new /\ EndOf(c, new) = EndOf(b, p)
  BY <1>1, <1>2, <1>6, Addresses DEF EndOf
<1>8. \A q \in B \ {p} : EndOf(c, q) = EndOf(b, q)
  BY <1>6 DEF EndOf
<1> HIDE DEF new
<1>9. ASSUME NEW q \in B PROVE WholeAt(B \cup {new}, c, end, q)
  <2>1. WholeAt(B, b, end, q) /\ WholeAt(B, b, end, p)
    BY <1>0
  <2>2. q >= firstBlock /\ EndOf(c, q) <= end
    BY <1>0, <1>1, <1>2, <1>7, <1>8, <2>1 DEF WholeAt
  <2>3. EndOf(c, q) = end => c[q].nextBlock = 0
    <3>1. new # end
      BY <1>0, <1>1, <1>2, <2>1 DEF WholeAt
    <3> QED
      BY <1>6, <1>7, <1>8, <2>1, <3>1 DEF WholeAt
  <2>4. ASSUME EndOf(c, q) # end
        PROVE  /\ EndOf(c, q) \in B \cup {new}
               /\ c[q].nextBlock = EndOf(c, q)
               /\ c[EndOf(c, q)].prevBlock = q
    <3>1. CASE q = p
      BY <1>6, <1>7, <3>1
    <3>2. CASE q # p
      <4> DEFINE e == EndOf(b, q)
      <4>1. /\ EndOf(c, q) = e /\ e \in B
            /\ b[q].nextBlock = e /\ b[e].prevBlock = q
        BY <1>8, <2>1, <2>4, <3>2 DEF WholeAt
      <4>2. e # old
        BY <1>4, <3>2, <4>1
      <4> HIDE DEF e
      <4> QED
        BY <1>6, <3>2, <4>1, <4>2
    <3> QED
      BY <3>1, <3>2
  <2>5. q = firstBlock => c[q].prevBlock = 0
    <3>1. q = firstBlock => q # old
      BY <1>1, <1>4
    <3> QED
      BY <1>6, <2>1, <3>1 DEF WholeAt
  <2>6. q # firstBlock => /\ c[q].prevBlock \in B \cup {new}
                          /\ EndOf(c, c[q].prevBlock) = q
    <3>1. CASE q = old
      BY <1>1, <1>4, <1>6, <1>7, <3>1, Addresses
    <3>2. CASE q # old
      <4> DEFINE e == b[q].prevBlock
      <4>1. SUFFICES ASSUME q # firstBlock
                     PROVE  e \in B /\ EndOf(c, e) = q
        BY <1>6, <3>2
      <4>2. e \in B /\ EndOf(b, e) = q
        BY <2>1, <4>1 DEF WholeAt
      <4>3. e # p
        BY <1>1, <1>4, <2>1, <3>2, <4>2 DEF WholeAt
      <4> QED
        BY <1>8, <4>2, <4>3
    <3> QED
      BY <3>1, <3>2
  <2>7. \A r \in B \cup {new} : q < r => EndOf(c, q) <= r
    <3>1. CASE q = p
      <4>1. \A r \in B : p < r => new <= r
        BY <1>1, <1>2, <2>1 DEF WholeAt
      <4> QED
        BY <1>2, <1>7, <3>1, <4>1
    <3>2. CASE q # p
      <4>1. \A r \in B : q < r => EndOf(c, q) <= r
        BY <1>8, <2>1, <3>2 DEF WholeAt
      <4>2. q < new => EndOf(b, q) <= new
        <5>1. CASE q < p
          BY <1>1, <1>2, <2>1, <5>1 DEF WholeAt
        <5>2. CASE p < q
          BY <1>1, <1>2, <2>1, <5>2 DEF WholeAt
        <5> QED
          BY <1>1, <3>2, <5>1, <5>2
      <4> QED
        BY <1>8, <3>2, <4>1, <4>2
    <3> QED
      BY <3>1, <3>2
  <2> QED
    BY <2>2, <2>3, <2>4, <2>5, <2>6, <2>7 DEF WholeAt
<1>10. WholeAt(B \cup {new}, c, end, new)
  <2>1. WholeAt(B, b, end, p)
    BY <1>0
  <2>2. \A r \in B \cup {new} : new < r => EndOf(c, new) <= r
    BY <1>1, <1>2, <1>7, <2>1 DEF WholeAt
  <2>3. /\ new >= firstBlock /\ new # firstBlock /\ EndOf(c, new) <= end
        /\ c[new].prevBlock = p /\ EndOf(c, p) = new
    BY <1>1, <1>2, <1>6, <1>7, <2>1, Addresses DEF WholeAt
  <2>4. /\ EndOf(c, new) = end => c[new].nextBlock = 0
        /\ EndOf(c, new) # end => /\ EndOf(c, new) \in B
                                  /\ c[new].nextBlock = EndOf(c, new)
                                  /\ c[EndOf(c, new)].prevBlock = new
    BY <1>4, <1>6, <1>7
  <2> QED
    BY <2>2, <2>3, <2>4 DEF WholeAt
<1>11. Whole(B \cup {new}, c, end)
  <2>1. IsFiniteSet(B \cup {new})
    BY <1>0, FS_AddElement
  <2> QED
    BY <1>0, <1>2, <1>6, <1>9, <1>10, <2>1 DEF Whole
<1> QED
  BY <1>3, <1>5, <1>7, <1>8, <1>11 DEF CutWell, c, new

(* m is s with the block p cut behind its first n bytes.                   *)
SplitWell(s, p, n, m) ==
  LET new == p + BlockHeader + n
  IN  /\ WholeSegment(m)
      /\ m.bytes = s.bytes /\ m.usedBlockCount = s.usedBlockCount
      /\ DOMAIN m.block = DOMAIN s.block \cup {new}
      /\ new \notin DOMAIN s.block
      /\ CutFrom(DOMAIN s.block, s.block, p, new, n, m.block)

(* make_new_block_with_unused_space keeps the header in step with the      *)
(* list.                                                                   *)
LEMMA SplitSegment ==
  ASSUME NEW s, WholeSegment(s), NEW p \in DOMAIN s.block,
         NEW n \in Nat \ {0}, s.block[p].blockSize - n > BlockHeader
  PROVE  SplitWell(s, p, n, Split(s, p, n, s.block[p].blockSize - n))
<1> DEFINE m == Split(s, p, n, s.block[p].blockSize - n)
           B == DOMAIN s.block
           b == s.block
           new == p + BlockHeader + n
           c == CutBlocks(b, p, n, b[p].blockSize - n)
           end == SegmentHeader + s.bytes
           last == IF s.lastBlock = p THEN new ELSE s.lastBlock
<1>1. m = [s EXCEPT !.block = c, !.lastBlock = last,
                    !.blockCount = s.blockCount + 1]
  <2>1. PICK a, k, u, l, d :
          s = [bytes |-> a, blockCount |-> k, usedBlockCount |-> u,
               lastBlock |-> l, block |-> d]
    BY DEF WholeSegment
  <2> QED
    BY <2>1 DEF Split, CutBlocks
<1>2. /\ Whole(B, b, end) /\ IsFiniteSet(B)
      /\ s.lastBlock \in B /\ EndOf(b, s.lastBlock) = end
      /\ s.blockCount = Cardinality(B)
      /\ s.bytes \in Nat /\ s.bytes > BlockHeader
  BY DEF WholeSegment, Whole
<1>3. CutWell(B, b, end, p, new, n, c)
  BY <1>2, CutWhole
<1> HIDE DEF m, c, last, new
<1>4. /\ m = [bytes |-> m.bytes, blockCount |-> m.blockCount,
              usedBlockCount |-> m.usedBlockCount, lastBlock |-> m.lastBlock,
              block |-> m.block]
      /\ m.bytes = s.bytes /\ m.usedBlockCount = s.usedBlockCount
      /\ m.block = c /\ m.lastBlock = last /\ m.blockCount = s.blockCount + 1
  <2>1. PICK a, k, u, l, d :
          s = [bytes |-> a, blockCount |-> k, usedBlockCount |-> u,
               lastBlock |-> l, block |-> d]
    BY DEF WholeSegment
  <2> QED
    BY <1>1, <2>1
<1>5. DOMAIN c = B \cup {new} /\ new \notin B
  BY <1>3 DEF CutWell, Whole
<1>6. last \in B \cup {new} /\ EndOf(c, last) = end
  BY <1>2, <1>3 DEF CutWell, last
<1>7. m.blockCount = Cardinality(B \cup {new})
  <2>1. Cardinality(B \cup {new}) = Cardinality(B) + 1
    BY <1>2, <1>5, FS_AddElement
  <2> QED
    BY <1>2, <1>4, <2>1
<1>8. WholeSegment(m)
  BY <1>2, <1>3, <1>4, <1>5, <1>6, <1>7 DEF WholeSegment, CutWell
<1>9. SplitWell(s, p, n, m)
  BY <1>3, <1>4, <1>5, <1>8 DEF SplitWell, CutWell, new
<1> QED
  BY <1>9 DEF m

(* Another count of used blocks does not change the list.                  *)
LEMMA Recounted ==
  ASSUME NEW s, WholeSegment(s), NEW count,
         NEW f, f = [s EXCEPT !.usedBlockCount = count]
  PROVE  /\ WholeSegment(f) /\ f.bytes = s.bytes /\ f.block = s.block
         /\ f.usedBlockCount = count
<1>1. PICK a, n, u, l, k :
        s = [bytes |-> a, blockCount |-> n, usedBlockCount |-> u,
             lastBlock |-> l, block |-> k]
  BY DEF WholeSegment
<1>2. f = [bytes |-> a, blockCount |-> n, usedBlockCount |-> count,
           lastBlock |-> l, block |-> k]
  BY <1>1
<1>3. /\ f.bytes = s.bytes /\ f.blockCount = s.blockCount
      /\ f.lastBlock = s.lastBlock /\ f.block = s.block
      /\ f.usedBlockCount = count
      /\ f = [bytes |-> f.bytes, blockCount |-> f.blockCount,
              usedBlockCount |-> f.usedBlockCount, lastBlock |-> f.lastBlock,
              block |-> f.block]
  BY <1>1, <1>2
<1> QED
  BY <1>3 DEF WholeSegment

(* balloc of n bytes in the free block p keeps the list and makes no       *)
(* pair of free neighbours: what it cuts off takes p's place before p's    *)
(* old successor.                                                          *)
LEMMA TakenHeap ==
  ASSUME NEW s, WholeSegment(s), NEW r, UsedBy(s, r), NEW S, Apart(s, S, {}, {}),
         NEW p \in DOMAIN s.block, s.block[p].isFree,
         NEW n \in Nat \ {0}, s.block[p].blockSize >= n
  PROVE  LET m == Taken(s, p, n)
         IN  /\ WholeSegment(m) /\ UsedBy(m, Put(r, p, n))
             /\ Apart(m, S, {}, {}) /\ m.bytes = s.bytes
<1> DEFINE B == DOMAIN s.block
           f == [s EXCEPT !.block[p].isFree = FALSE]
           unused == s.block[p].blockSize - n
           g == IF unused >= BlockHeader + 1 THEN Split(f, p, n, unused) ELSE f
           m == [g EXCEPT !.usedBlockCount = @ + 1]
           d == Put(r, p, n)
           new == p + BlockHeader + n
<1>0. Taken(s, p, n) = m
  BY DEF Taken, MINIMAL_MEMORY_BLOCK_SIZE
<1>1. /\ IsFiniteSet(DOMAIN r) /\ DOMAIN r \in SUBSET B /\ p \notin DOMAIN r
      /\ Cardinality(DOMAIN r) \in Nat
      /\ Whole(B, s.block, SegmentHeader + s.bytes)
  BY UsedFinite DEF WholeSegment, UsedBy
<1>2. Tagged(s, p, FALSE, s.usedBlockCount, f)
  <2>1. PICK a, k, u, l, b :
          s = [bytes |-> a, blockCount |-> k, usedBlockCount |-> u,
               lastBlock |-> l, block |-> b]
    BY DEF WholeSegment
  <2>2. f = [s EXCEPT !.block = [s.block EXCEPT ![p].isFree = FALSE],
                      !.usedBlockCount = s.usedBlockCount]
    BY <2>1
  <2> HIDE DEF f
  <2> QED
    BY <2>2, Retagged
<1> HIDE DEF f
<1>3. \A q \in B : /\ s.block[q].blockSize \in Nat \ {0} /\ IsBlock(q)
                   /\ s.block[q].nextBlock \in B \cup {0}
                   /\ s.block[q].nextBlock # q
                   /\ s.block[q].isFree \in BOOLEAN
  <2>1. \A q \in B : IsBlock(s.block[q].nextBlock) => s.block[q].nextBlock > q
    BY <1>1, WholeFacts
  <2>2. \A q \in B : /\ s.block[q].blockSize \in Nat \ {0} /\ IsBlock(q)
                     /\ s.block[q].nextBlock \in B \cup {0} /\ q \in Nat
                     /\ s.block[q].isFree \in BOOLEAN
    BY <1>1, WholeFacts
  <2> QED
    BY <2>1, <2>2
<1>4. /\ DOMAIN d = DOMAIN r \cup {p} /\ d[p] = n
      /\ \A q \in DOMAIN r : d[q] = r[q]
      /\ Cardinality(DOMAIN d) = Cardinality(DOMAIN r) + 1
  <2>1. DOMAIN d = DOMAIN r \cup {p} /\ d[p] = n /\ \A q \in DOMAIN r : d[q] = r[q]
    BY <1>1 DEF Put
  <2> QED
    BY <1>1, <2>1, FS_AddElement
<1> HIDE DEF d
<1>5. /\ WholeSegment(g) /\ g.bytes = s.bytes
      /\ g.usedBlockCount = s.usedBlockCount
      /\ B \subseteq DOMAIN g.block
      /\ \A q \in DOMAIN g.block \ B :
           /\ q \notin DOMAIN r /\ g.block[q].isFree
           /\ g.block[q].nextBlock = s.block[p].nextBlock
      /\ \A q \in B : /\ g.block[q].isFree <=> s.block[q].isFree /\ q # p
                      /\ q # p => /\ g.block[q].blockSize = s.block[q].blockSize
                                  /\ g.block[q].nextBlock = s.block[q].nextBlock
      /\ g.block[p].blockSize >= n
  <2>1. CASE unused >= BlockHeader + 1
    <3>1. /\ WholeSegment(f) /\ p \in DOMAIN f.block
          /\ f.block[p].blockSize = s.block[p].blockSize
          /\ f.block[p].blockSize - n > BlockHeader
      <4>1. /\ WholeSegment(f) /\ p \in DOMAIN f.block
            /\ f.block[p].blockSize = s.block[p].blockSize
        BY <1>2 DEF Tagged
      <4>2. s.block[p].blockSize - n >= BlockHeader + 1
        BY <2>1
      <4>3. s.block[p].blockSize - n \in Int /\ BlockHeader \in Nat
        BY <1>3, Addresses
      <4> QED
        BY <4>1, <4>2, <4>3
    <3>2. SplitWell(f, p, n, g)
      BY <2>1, <3>1, SplitSegment
    <3> HIDE DEF g, new
    <3>3. /\ WholeSegment(g) /\ g.bytes = f.bytes
          /\ g.usedBlockCount = f.usedBlockCount
          /\ DOMAIN g.block = DOMAIN f.block \cup {new} /\ new \notin DOMAIN f.block
          /\ CutFrom(DOMAIN f.block, f.block, p, new, n, g.block)
      BY <3>2 DEF SplitWell, new
    <3>4. /\ \A q \in DOMAIN f.block :
               /\ g.block[q].isFree = f.block[q].isFree
               /\ g.block[q].blockSize = IF q = p THEN n ELSE f.block[q].blockSize
               /\ g.block[q].nextBlock = IF q = p THEN new ELSE f.block[q].nextBlock
          /\ g.block[new].isFree
          /\ g.block[new].nextBlock = f.block[p].nextBlock
      BY <3>3 DEF CutFrom
    <3>5. /\ f.bytes = s.bytes /\ f.usedBlockCount = s.usedBlockCount
          /\ DOMAIN f.block = B
          /\ \A q \in B : /\ f.block[q].isFree = IF q = p THEN FALSE ELSE s.block[q].isFree
                          /\ f.block[q].blockSize = s.block[q].blockSize
                          /\ f.block[q].nextBlock = s.block[q].nextBlock
      BY <1>2 DEF Tagged
    <3>6. \A q \in DOMAIN g.block \ B : q = new
      BY <3>3, <3>5
    <3>7. new \notin DOMAIN r
      BY <1>1, <3>3, <3>5
    <3>8. \A q \in B : /\ g.block[q].isFree <=> s.block[q].isFree /\ q # p
                       /\ q # p => /\ g.block[q].blockSize = s.block[q].blockSize
                                   /\ g.block[q].nextBlock = s.block[q].nextBlock
      <4>1. ASSUME NEW q \in B
            PROVE  g.block[q].isFree = IF q = p THEN FALSE ELSE s.block[q].isFree
        BY <3>4, <3>5
      <4>2. \A q \in B : q # p => /\ g.block[q].blockSize = s.block[q].blockSize
                                  /\ g.block[q].nextBlock = s.block[q].nextBlock
        BY <3>4, <3>5
      <4>3. \A q \in B : g.block[q].isFree <=> s.block[q].isFree /\ q # p
        BY <1>3, <4>1
      <4> QED
        BY <4>2, <4>3
    <3>9. g.block[p].blockSize >= n
      BY <3>4, <3>5
    <3>10. \A q \in DOMAIN g.block \ B :
             /\ q \notin DOMAIN r /\ g.block[q].isFree
             /\ g.block[q].nextBlock = s.block[p].nextBlock
      BY <3>4, <3>5, <3>6, <3>7
    <3>11. /\ WholeSegment(g) /\ g.bytes = s.bytes
           /\ g.usedBlockCount = s.usedBlockCount
           /\ B \subseteq DOMAIN g.block
      BY <3>3, <3>5
    <3> QED
      BY <3>8, <3>9, <3>10, <3>11
  <2>2. CASE ~(unused >= BlockHeader + 1)
    BY <1>2, <1>3, <2>2 DEF Tagged
  <2> QED
    BY <2>1, <2>2
<1> HIDE DEF g
<1>6. /\ WholeSegment(m) /\ m.bytes = g.bytes /\ m.block = g.block
      /\ m.usedBlockCount = s.usedBlockCount + 1
  <2>1. PICK a, k, u, l, b :
          g = [bytes |-> a, blockCount |-> k, usedBlockCount |-> u,
               lastBlock |-> l, block |-> b]
    BY <1>5 DEF WholeSegment
  <2>2. m = [g EXCEPT !.usedBlockCount = s.usedBlockCount + 1]
    BY <1>5, <2>1
  <2> HIDE DEF m
  <2> QED
    BY <1>5, <2>2, Recounted
<1> HIDE DEF m
<1>7. UsedBy(m, d)
  <2>1. ASSUME NEW q \in DOMAIN m.block
        PROVE  IF q \in DOMAIN d
                 THEN ~m.block[q].isFree /\ m.block[q].blockSize >= d[q]
                 ELSE m.block[q].isFree
    <3>1. CASE q \notin B
      BY <1>4, <1>5, <1>6, <3>1
    <3>2. CASE q = p
      BY <1>4, <1>5, <1>6, <3>2
    <3>3. CASE q \in B /\ q # p
      BY <1>4, <1>5, <1>6, <3>3 DEF UsedBy
    <3> QED
      BY <3>1, <3>2, <3>3
  <2>2. DOMAIN d \subseteq DOMAIN m.block /\ \A q \in DOMAIN d : d[q] \in Nat \ {0}
    BY <1>1, <1>4, <1>5, <1>6 DEF UsedBy
  <2>3. m.usedBlockCount = Cardinality(DOMAIN d)
    BY <1>4, <1>6 DEF UsedBy
  <2> QED
    BY <2>1, <2>2, <2>3 DEF UsedBy
<1>8. Apart(m, S, {}, {})
  <2>1. SUFFICES ASSUME NEW q \in DOMAIN g.block,
                        IsBlock(g.block[q].nextBlock), g.block[q].isFree,
                        g.block[g.block[q].nextBlock].isFree
                 PROVE  g.block[q].nextBlock \in S
    BY <1>6 DEF Apart
  <2> DEFINE x == IF q \in B THEN q ELSE p
  <2>2. x \in B /\ g.block[q].nextBlock = s.block[x].nextBlock /\ s.block[x].isFree
    BY <1>5, <2>1
  <2>3. g.block[q].nextBlock \in B
    BY <1>3, <2>1, <2>2, Addresses
  <2>4. s.block[s.block[x].nextBlock].isFree
    BY <1>5, <2>1, <2>2, <2>3
  <2> HIDE DEF x
  <2> QED
    BY <2>1, <2>2, <2>4 DEF Apart
<1> QED
  BY <1>0, <1>5, <1>6, <1>7, <1>8 DEF d

(***************************************************************************)
(* resize_allocation_segment: a block behind the last one.                 *)
(***************************************************************************)
Appended(b, last, new, size) ==
  Put([b EXCEPT ![last].nextBlock = new], new, Header(TRUE, size, 0, last))

(* The headers after a block has been appended.                            *)
AppendedTo(B, b, last, new, size, c) ==
  /\ c \in [B \cup {new} -> HeaderType]
  /\ \A q \in B :
       /\ c[q].isFree = b[q].isFree
       /\ c[q].blockSize = b[q].blockSize
       /\ c[q].nextBlock = IF q = last THEN new ELSE b[q].nextBlock
       /\ c[q].prevBlock = b[q].prevBlock
  /\ c[new].isFree /\ c[new].blockSize = size
  /\ c[new].nextBlock = 0 /\ c[new].prevBlock = last

(* copy_blocks_and_append_new_from_free_space_left writes these headers.   *)
LEMMA AppendedHeaders ==
  ASSUME NEW B, NEW b \in [B -> HeaderType], NEW last \in B, B \subseteq Nat,
         NEW new \in Nat, new \notin B, NEW size \in Nat \ {0}
  PROVE  AppendedTo(B, b, last, new, size, Appended(b, last, new, size))
<1> DEFINE h == Header(TRUE, size, 0, last)
           x == [b[last] EXCEPT !.nextBlock = new]
           longer == [b EXCEPT ![last] = x]
           c == Put(longer, new, h)
<1>0. Appended(b, last, new, size) = c
  BY DEF Appended
<1>1. /\ h \in HeaderType /\ h.isFree = TRUE /\ h.blockSize = size
      /\ h.nextBlock = 0 /\ h.prevBlock = last
  BY DEF Header, HeaderType
<1>2. /\ x \in HeaderType /\ x.isFree = b[last].isFree
      /\ x.blockSize = b[last].blockSize
      /\ x.nextBlock = new /\ x.prevBlock = b[last].prevBlock
  BY DEF HeaderType
<1> HIDE DEF h, x
<1>3. /\ longer \in [B -> HeaderType] /\ longer[last] = x
      /\ \A q \in B \ {last} : longer[q] = b[q]
  BY <1>2
<1> HIDE DEF longer
<1>4. /\ c \in [B \cup {new} -> HeaderType]
      /\ c[new] = h /\ \A q \in B : c[q] = longer[q]
  BY <1>1, <1>3 DEF Put
<1> HIDE DEF c
<1>5. \A q \in B : /\ c[q].isFree = b[q].isFree
                   /\ c[q].blockSize = b[q].blockSize
                   /\ c[q].nextBlock = IF q = last THEN new ELSE b[q].nextBlock
                   /\ c[q].prevBlock = b[q].prevBlock
  BY <1>2, <1>3, <1>4
<1>6. AppendedTo(B, b, last, new, size, c)
  BY <1>1, <1>4, <1>5 DEF AppendedTo
<1> QED
  BY <1>0, <1>6

(* A block that fills the bytes behind the old end makes a longer list.    *)
LEMMA AppendedWhole ==
  ASSUME NEW B, NEW b, NEW end, Whole(B, b, end), NEW last \in B,
         EndOf(b, last) = end, NEW size \in Nat \ {0}, NEW c,
         AppendedTo(B, b, last, end, size, c)
  PROVE  Whole(B \cup {end}, c, end + BlockHeader + size)
<1>0. /\ IsFiniteSet(B) /\ B \subseteq Nat /\ firstBlock \in B /\ end \in Nat
      /\ b \in [B -> HeaderType]
      /\ \A q \in B : WholeAt(B, b, end, q)
  BY DEF Whole
<1>1. \A q \in B : /\ q \in Nat /\ q >= firstBlock /\ b[q].blockSize \in Nat \ {0}
                   /\ EndOf(b, q) \in Nat /\ EndOf(b, q) > q /\ EndOf(b, q) <= end
  BY <1>0, WholeFacts DEF WholeAt
<1>2. /\ c \in [B \cup {end} -> HeaderType]
      /\ \A q \in B :
           /\ c[q].blockSize = b[q].blockSize
           /\ c[q].nextBlock = IF q = last THEN end ELSE b[q].nextBlock
           /\ c[q].prevBlock = b[q].prevBlock
      /\ c[end].blockSize = size /\ c[end].nextBlock = 0 /\ c[end].prevBlock = last
  BY DEF AppendedTo
<1> DEFINE far == end + BlockHeader + size
<1>3. /\ \A q \in B : EndOf(c, q) = EndOf(b, q)
      /\ EndOf(c, end) = far /\ far \in Nat /\ far > end
      /\ end \notin B
  BY <1>0, <1>1, <1>2, Addresses DEF EndOf
<1> HIDE DEF far
<1>4. \A q \in B : EndOf(b, q) = end => q = last
  <2>1. ASSUME NEW q \in B, EndOf(b, q) = end, q # last PROVE FALSE
    <3>1. WholeAt(B, b, end, q) /\ WholeAt(B, b, end, last)
      BY <1>0
    <3>2. CASE q < last
      BY <1>0, <1>1, <2>1, <3>1, <3>2 DEF WholeAt
    <3>3. CASE last < q
      BY <1>0, <1>1, <2>1, <3>1, <3>3 DEF WholeAt
    <3> QED
      BY <1>1, <2>1, <3>2, <3>3
  <2> QED
    BY <2>1
<1>5. ASSUME NEW q \in B PROVE WholeAt(B \cup {end}, c, far, q)
  <2>1. WholeAt(B, b, end, q)
    BY <1>0
  <2>2. /\ q >= firstBlock /\ EndOf(c, q) <= far /\ EndOf(c, q) # far
        /\ \A r \in B \cup {end} : q < r => EndOf(c, q) <= r
    BY <1>0, <1>1, <1>3, <2>1 DEF WholeAt
  <2>3. /\ EndOf(c, q) \in B \cup {end}
        /\ c[q].nextBlock = EndOf(c, q)
        /\ c[EndOf(c, q)].prevBlock = q
    <3>1. CASE q = last
      BY <1>2, <1>3, <3>1
    <3>2. CASE q # last
      <4>1. /\ EndOf(b, q) # end /\ EndOf(b, q) \in B
            /\ b[q].nextBlock = EndOf(b, q)
            /\ b[EndOf(b, q)].prevBlock = q
        BY <1>4, <2>1, <3>2 DEF WholeAt
      <4> QED
        BY <1>2, <1>3, <3>2, <4>1
    <3> QED
      BY <3>1, <3>2
  <2>4. /\ q = firstBlock => c[q].prevBlock = 0
        /\ q # firstBlock => /\ c[q].prevBlock \in B
                             /\ EndOf(c, c[q].prevBlock) = q
    BY <1>2, <1>3, <2>1 DEF WholeAt
  <2> QED
    BY <2>2, <2>3, <2>4 DEF WholeAt
<1>6. WholeAt(B \cup {end}, c, far, end)
  <2>1. \A r \in B : r < end
    BY <1>1, <1>0
  <2>2. end # firstBlock /\ end >= firstBlock
    BY <1>0, <1>1, <2>1, Addresses
  <2>3. ~ (end < end)
    BY <1>0
  <2> QED
    BY <1>0, <1>1, <1>2, <1>3, <2>1, <2>2, <2>3, Addresses DEF WholeAt
<1>7. IsFiniteSet(B \cup {end})
  BY <1>0, FS_AddElement
<1> QED
  BY <1>0, <1>2, <1>3, <1>5, <1>6, <1>7 DEF Whole, far

(* A resize keeps the list and the allocations, and doubles the segment.   *)
(* The new block is a seam: the block before it may be free too.           *)
LEMMA ResizedHeap ==
  ASSUME NEW s, WholeSegment(s), NEW r, UsedBy(s, r), NEW S, Apart(s, S, {}, {})
  PROVE  LET m == Resized(s)
         IN  /\ WholeSegment(m) /\ UsedBy(m, r)
             /\ Apart(m, S \cup {m.lastBlock}, {}, {})
             /\ m.bytes = 2 * s.bytes
<1> DEFINE m == Resized(s)
           B == DOMAIN s.block
           b == s.block
           last == s.lastBlock
           end == SegmentHeader + s.bytes
           size == s.bytes - BlockHeader
           c == Appended(b, last, end, size)
<1>1. /\ Whole(B, b, end) /\ IsFiniteSet(B) /\ B \subseteq Nat
      /\ end \in Nat /\ b \in [B -> HeaderType]
      /\ last \in B /\ EndOf(b, last) = end
      /\ s.blockCount = Cardinality(B)
      /\ s.bytes \in Nat /\ s.bytes > BlockHeader
  BY DEF WholeSegment, Whole
<1>2. /\ size \in Nat \ {0} /\ end + BlockHeader + size = SegmentHeader + 2 * s.bytes
      /\ end \notin B /\ IsBlock(end)
  <2>1. /\ \A q \in B : q # end
        /\ end > firstBlock
    <3>1. \A q \in B : q < EndOf(b, q) /\ EndOf(b, q) \in Nat /\ q >= firstBlock
      BY <1>1, WholeFacts
    <3>2. \A q \in B : EndOf(b, q) <= end
      BY <1>1 DEF Whole, WholeAt
    <3> QED
      BY <1>1, <3>1, <3>2, Addresses
  <2>2. IsBlock(end)
    BY <1>1, <2>1, Addresses
  <2>3. size \in Nat \ {0} /\ end + BlockHeader + size = SegmentHeader + 2 * s.bytes
    BY <1>1, Addresses
  <2> QED
    BY <2>1, <2>2, <2>3
<1>3. m = [s EXCEPT !.bytes = 2 * s.bytes, !.blockCount = s.blockCount + 1,
                    !.lastBlock = end, !.block = c]
  <2>1. last + BlockHeader + b[last].blockSize = end
    BY <1>1 DEF EndOf
  <2>2. s.bytes * RESIZE_FACTOR = 2 * s.bytes
        /\ s.bytes * RESIZE_FACTOR - s.bytes - BlockHeader = size
    BY <1>1, Addresses DEF RESIZE_FACTOR
  <2> DEFINE bytes == s.bytes * RESIZE_FACTOR
             new == last + BlockHeader + b[last].blockSize
             fresh == Put([b EXCEPT ![last].nextBlock = new], new,
                          Header(TRUE, bytes - s.bytes - BlockHeader, 0, last))
  <2>3. m = [s EXCEPT !.bytes = bytes, !.blockCount = @ + 1,
                      !.lastBlock = new, !.block = fresh]
    BY DEF Resized
  <2>4. bytes = 2 * s.bytes /\ new = end /\ fresh = c
    BY <2>1, <2>2 DEF Appended
  <2> HIDE DEF m, bytes, new, fresh, c
  <2>5. PICK a, k, u, l, d :
          s = [bytes |-> a, blockCount |-> k, usedBlockCount |-> u,
               lastBlock |-> l, block |-> d]
    BY DEF WholeSegment
  <2> QED
    BY <2>3, <2>4, <2>5
<1>4. AppendedTo(B, b, last, end, size, c)
  BY <1>1, <1>2, AppendedHeaders
<1>5. Whole(B \cup {end}, c, SegmentHeader + 2 * s.bytes)
  BY <1>1, <1>2, <1>4, AppendedWhole
<1> HIDE DEF m, c, size, end, last
<1>6. /\ m = [bytes |-> m.bytes, blockCount |-> m.blockCount,
              usedBlockCount |-> m.usedBlockCount, lastBlock |-> m.lastBlock,
              block |-> m.block]
      /\ m.bytes = 2 * s.bytes /\ m.usedBlockCount = s.usedBlockCount
      /\ m.block = c /\ m.lastBlock = end /\ m.blockCount = s.blockCount + 1
  <2>1. PICK a, k, u, l, d :
          s = [bytes |-> a, blockCount |-> k, usedBlockCount |-> u,
               lastBlock |-> l, block |-> d]
    BY DEF WholeSegment
  <2> QED
    BY <1>3, <2>1
<1>7. /\ DOMAIN c = B \cup {end}
      /\ \A q \in B :
           /\ c[q].isFree = b[q].isFree
           /\ c[q].blockSize = b[q].blockSize
           /\ c[q].nextBlock = IF q = last THEN end ELSE b[q].nextBlock
      /\ c[end].isFree /\ c[end].nextBlock = 0 /\ c[end].blockSize = size
  BY <1>4 DEF AppendedTo
<1>8. WholeSegment(m)
  <2>1. Cardinality(B \cup {end}) = Cardinality(B) + 1
    BY <1>1, <1>2, FS_AddElement
  <2>2. EndOf(c, end) = SegmentHeader + 2 * s.bytes
    BY <1>2, <1>7 DEF EndOf
  <2>3. 2 * s.bytes \in Nat /\ 2 * s.bytes > BlockHeader
    BY <1>1, Addresses
  <2> QED
    BY <1>1, <1>5, <1>6, <1>7, <2>1, <2>2, <2>3 DEF WholeSegment
<1>9. UsedBy(m, r)
  <2>1. ASSUME NEW q \in DOMAIN m.block
        PROVE  IF q \in DOMAIN r
                 THEN ~m.block[q].isFree /\ m.block[q].blockSize >= r[q]
                 ELSE m.block[q].isFree
    <3>1. CASE q \in B
      BY <1>6, <1>7, <3>1 DEF UsedBy
    <3>2. CASE q \notin B
      BY <1>6, <1>7, <3>2 DEF UsedBy
    <3> QED
      BY <3>1, <3>2
  <2> QED
    BY <1>6, <1>7, <2>1 DEF UsedBy
<1>10. Apart(m, S \cup {m.lastBlock}, {}, {})
  <2>1. \A q \in B : IsBlock(b[q].nextBlock) => b[q].nextBlock \in B
    BY <1>1, WholeFacts
  <2>2. ASSUME NEW q \in DOMAIN m.block, IsBlock(m.block[q].nextBlock),
               m.block[q].isFree, m.block[m.block[q].nextBlock].isFree
        PROVE  m.block[q].nextBlock \in S \cup {end}
    <3>1. CASE q = end \/ q = last
      BY <1>2, <1>6, <1>7, <2>2, <3>1, Addresses
    <3>2. CASE q # end /\ q # last
      <4>1. q \in B /\ m.block[q].nextBlock = b[q].nextBlock
        BY <1>6, <1>7, <3>2
      <4>2. b[b[q].nextBlock].isFree /\ b[q].isFree
        BY <1>6, <1>7, <2>1, <2>2, <4>1
      <4> QED
        BY <2>2, <4>1, <4>2 DEF Apart
    <3> QED
      BY <3>1, <3>2
  <2> QED
    BY <1>6, <2>2 DEF Apart
<1> QED
  BY <1>6, <1>8, <1>9, <1>10 DEF m

-----------------------------------------------------------------------------
(***************************************************************************)
(* The invariant holds initially and every call keeps it.                  *)
(***************************************************************************)

(* initialize_allocation_segment makes one free block.                     *)
LEMMA InitHeapInv == AllocatorInit => HeapInv
<1> SUFFICES ASSUME AllocatorInit PROVE HeapInv
  OBVIOUS
<1> DEFINE h == Header(TRUE, InitialSize - BlockHeader, 0, 0)
           B == {firstBlock}
           b == [ptr \in {firstBlock} |-> h]
           end == SegmentHeader + InitialSize
<1>1. /\ segment = [bytes |-> InitialSize, blockCount |-> 1, usedBlockCount |-> 0,
                    lastBlock |-> firstBlock, block |-> b]
      /\ requested = <<>> /\ call = 0
  BY DEF AllocatorInit, NewSegment
<1>2. /\ h \in HeaderType /\ h.isFree = TRUE
      /\ h.blockSize = InitialSize - BlockHeader
      /\ h.nextBlock = 0 /\ h.prevBlock = 0
  BY AllocatorAssumption DEF Header, HeaderType
<1> HIDE DEF h
<1>3. b[firstBlock] = h /\ DOMAIN b = B /\ b \in [B -> HeaderType]
  BY <1>2
<1> HIDE DEF b
<1>4. EndOf(b, firstBlock) = end /\ end \in Nat
  BY <1>2, <1>3, AllocatorAssumption DEF EndOf, firstBlock
<1>5. Whole(B, b, end)
  <2>1. WholeAt(B, b, end, firstBlock)
    BY <1>2, <1>3, <1>4, Addresses DEF WholeAt
  <2> QED
    BY <1>3, <1>4, <2>1, Addresses, FS_Singleton DEF Whole
<1>6. WholeSegment(segment)
  <2>1. Cardinality(B) = 1
    BY FS_Singleton
  <2> QED
    BY <1>1, <1>3, <1>4, <1>5, <2>1, AllocatorAssumption DEF WholeSegment
<1>7. UsedBy(segment, requested)
  BY <1>1, <1>2, <1>3, FS_EmptySet DEF UsedBy
<1>8. Apart(segment, seams, {}, {})
  BY <1>1, <1>2, <1>3, Addresses DEF Apart
<1> QED
  BY <1>1, <1>6, <1>7, <1>8 DEF HeapInv

(* The block that balloc finds can be taken.                               *)
LEMMA FoundBlock ==
  ASSUME NEW s, WholeSegment(s), NEW bytes, IsBlock(FirstFit(s, bytes))
  PROVE  /\ FirstFit(s, bytes) \in DOMAIN s.block
         /\ s.block[FirstFit(s, bytes)].isFree
         /\ s.block[FirstFit(s, bytes)].blockSize >= bytes
<1> DEFINE B == DOMAIN s.block
<1>1. Whole(B, s.block, SegmentHeader + s.bytes)
  BY DEF WholeSegment
<1>2. /\ firstBlock \in B /\ B \subseteq Nat
      /\ \A ptr \in B : IsBlock(ptr)
      /\ \A ptr \in B : s.block[ptr].nextBlock \in B \cup {0}
  BY <1>1, WholeFacts DEF Whole
<1> QED
  BY <1>2, FirstFitFits

(* The end of balloc takes a free block.                                   *)
LEMMA BallocTakes ==
  ASSUME HeapInv, NEW bytes \in Requests, balloc(bytes)
  PROVE  \E p \in DOMAIN segment.block :
           /\ segment.block[p].isFree /\ segment.block[p].blockSize >= bytes
           /\ segment' = Taken(segment, p, bytes)
           /\ requested' = Put(requested, p, bytes)
           /\ seams' = seams /\ call' = 0
<1> DEFINE p == FirstFit(segment, bytes)
<1>1. /\ IsBlock(p) /\ segment' = Taken(segment, p, bytes)
      /\ requested' = Put(requested, p, bytes)
      /\ seams' = seams /\ call' = 0
  BY DEF balloc, give
<1>2. /\ p \in DOMAIN segment.block /\ segment.block[p].isFree
      /\ segment.block[p].blockSize >= bytes
  BY <1>1, FoundBlock DEF HeapInv
<1> HIDE DEF p
<1> QED
  BY <1>1, <1>2

(* A resize keeps the list and makes the segment larger.                   *)
LEMMA ResizeGrows ==
  ASSUME HeapInv, NEW bytes \in Requests, NEW attachedByOthers \in BOOLEAN,
         resize(bytes, attachedByOthers)
  PROVE  /\ HeapInv'
         /\ requested' = requested
         /\ segment'.bytes \in Nat /\ segment'.bytes > segment.bytes
<1> DEFINE g == Resized(segment)
<1>1. /\ segment' = g /\ seams' = seams \cup {g.lastBlock}
      /\ requested' = requested /\ call' \in Requests \cup {0}
  BY DEF resize
<1>2. /\ WholeSegment(g) /\ UsedBy(g, requested)
      /\ Apart(g, seams \cup {g.lastBlock}, {}, {})
      /\ g.bytes = 2 * segment.bytes
  BY ResizedHeap DEF HeapInv
<1> HIDE DEF g
<1>3. segment.bytes \in Nat /\ segment.bytes > 0
  <2>1. /\ Whole(DOMAIN segment.block, segment.block, SegmentHeader + segment.bytes)
        /\ segment.bytes \in Nat
    BY DEF HeapInv, WholeSegment
  <2>2. firstBlock \in DOMAIN segment.block
    BY <2>1 DEF Whole
  <2>3. WholeAt(DOMAIN segment.block, segment.block, SegmentHeader + segment.bytes, firstBlock)
    BY <2>1, <2>2 DEF Whole
  <2>4. segment.block[firstBlock].blockSize \in Nat \ {0}
    BY <2>1, <2>2, WholeFacts
  <2>5. EndOf(segment.block, firstBlock) <= SegmentHeader + segment.bytes
    BY <2>3 DEF WholeAt
  <2> QED
    BY <2>1, <2>4, <2>5, Addresses DEF EndOf, firstBlock
<1>4. segment'.bytes \in Nat /\ segment'.bytes > segment.bytes
  BY <1>1, <1>2, <1>3
<1> QED
  BY <1>1, <1>2, <1>4 DEF HeapInv

(* Every step keeps the invariant.                                         *)
LEMMA HeapInvStep == HeapInv /\ [AllocatorNext]_avars => HeapInv'
<1> SUFFICES ASSUME HeapInv, [AllocatorNext]_avars PROVE HeapInv'
  OBVIOUS
<1>1. ASSUME NEW bytes \in Requests, balloc(bytes) PROVE HeapInv'
  <2>1. PICK p \in DOMAIN segment.block :
          /\ segment.block[p].isFree /\ segment.block[p].blockSize >= bytes
          /\ segment' = Taken(segment, p, bytes)
          /\ requested' = Put(requested, p, bytes)
          /\ seams' = seams /\ call' = 0
    BY <1>1, BallocTakes
  <2>2. bytes \in Nat \ {0}
    BY AllocatorAssumption
  <2>3. /\ WholeSegment(segment') /\ UsedBy(segment', requested')
        /\ Apart(segment', seams, {}, {})
    BY <2>1, <2>2, TakenHeap DEF HeapInv
  <2> QED
    BY <2>1, <2>3 DEF HeapInv
<1>4. ASSUME NEW bytes \in Requests, NEW attachedByOthers \in BOOLEAN,
             resize(bytes, attachedByOthers)
      PROVE  HeapInv'
  BY <1>4, ResizeGrows
<1>2. ASSUME NEW ptr \in DOMAIN requested, bfree(ptr) PROVE HeapInv'
  <2>1. /\ WholeSegment(segment') /\ UsedBy(segment', requested')
        /\ Apart(segment', seams, {}, {})
    BY <1>2, ReleasedHeap DEF HeapInv, bfree
  <2> QED
    BY <1>2, <2>1 DEF HeapInv, bfree
<1>3. CASE UNCHANGED avars
  BY <1>3 DEF HeapInv, avars
<1> QED
  BY <1>1, <1>2, <1>3, <1>4 DEF AllocatorNext

(* The invariant says what a run checks of the block list.                 *)
LEMMA HeapInvImplies == HeapInv => BlocksWellFormed /\ FreeNeighboursOnlyAtSeams
<1> SUFFICES ASSUME HeapInv PROVE BlocksWellFormed /\ FreeNeighboursOnlyAtSeams
  OBVIOUS
<1> DEFINE b == segment.block
           end == SegmentHeader + segment.bytes
<1>1. /\ WholeSegment(segment) /\ UsedBy(segment, requested)
      /\ Whole(Blocks, b, end) /\ segment.bytes \in Nat
      /\ segment.lastBlock \in Blocks /\ EndOf(b, segment.lastBlock) = end
      /\ segment.blockCount = Cardinality(Blocks)
      /\ Blocks \subseteq Nat /\ firstBlock \in Blocks
  BY DEF HeapInv, WholeSegment, Whole, Blocks
<1>2. \A ptr : After(ptr) = EndOf(b, ptr)
  BY DEF After, EndOf
<1>3. AllocatorTypeOK
  <2>1. \A ptr \in Blocks : b[ptr] \in HeaderType
    BY <1>1, WholeFacts
  <2> QED
    BY <1>1, <2>1 DEF AllocatorTypeOK, HeaderType, HeapInv, UsedBy, Blocks
<1>4. BlocksTile
  <2>1. \A ptr \in Blocks :
          /\ EndOf(b, ptr) <= end
          /\ b[ptr].nextBlock = IF EndOf(b, ptr) = end THEN 0 ELSE EndOf(b, ptr)
    BY <1>1 DEF Whole, WholeAt
  <2> QED
    BY <1>1, <1>2, <2>1 DEF BlocksTile
<1>5. BlocksLinked
  <2>1. \A ptr \in Blocks :
          IsBlock(b[ptr].nextBlock) =>
            b[ptr].nextBlock \in Blocks /\ b[b[ptr].nextBlock].prevBlock = ptr
    BY <1>1, WholeFacts
  <2>2. b[firstBlock].prevBlock = 0
    BY <1>1 DEF Whole, WholeAt
  <2> QED
    BY <2>1, <2>2 DEF BlocksLinked
<1>6. BlocksCounted
  BY <1>1 DEF BlocksCounted, UsedBy, Blocks
<1>7. FreeNeighboursOnlyAtSeams
  BY DEF FreeNeighboursOnlyAtSeams, Apart, HeapInv, Blocks
<1> QED
  BY <1>3, <1>4, <1>5, <1>6, <1>7 DEF BlocksWellFormed

(* HeapInv is an invariant of the allocator.                               *)
LEMMA HeapInvariant == AllocatorSpec => []HeapInv
<1> QED
  BY InitHeapInv, HeapInvStep, PTL DEF AllocatorSpec

(* The block list is whole after every call of balloc and bfree and after  *)
(* every resize: it tiles the segment, it is linked both ways, and its     *)
(* counters count, whatever the sizes of the headers, of the segment and   *)
(* of the requests are.                                                    *)
THEOREM HeapStaysWhole == AllocatorSpec => []BlocksWellFormed
<1>1. HeapInv => BlocksWellFormed
  BY HeapInvImplies
<1> QED
  BY <1>1, HeapInvariant, PTL

(* bfree leaves no two free neighbours but where a resize has appended a   *)
(* block: memory that has been freed can be allocated in one piece.        *)
THEOREM FreeBlocksMerge == AllocatorSpec => []FreeNeighboursOnlyAtSeams
<1>1. HeapInv => FreeNeighboursOnlyAtSeams
  BY HeapInvImplies
<1> QED
  BY <1>1, HeapInvariant, PTL

-----------------------------------------------------------------------------
(***************************************************************************)
(* The allocator implements module Heap.                                   *)
(***************************************************************************)

(* What the live allocations r own, as the refinement maps it.             *)
OwnedOf(r) ==
  [a \in {ptr + BlockHeader : ptr \in DOMAIN r} |-> r[a - BlockHeader]]

LEMMA OwnedFacts ==
  ASSUME NEW r, DOMAIN r \subseteq Nat
  PROVE  /\ DOMAIN OwnedOf(r) = {ptr + BlockHeader : ptr \in DOMAIN r}
         /\ \A ptr \in DOMAIN r : OwnedOf(r)[ptr + BlockHeader] = r[ptr]
<1>1. \A ptr \in DOMAIN r : (ptr + BlockHeader) - BlockHeader = ptr
  BY Addresses
<1> QED
  BY <1>1 DEF OwnedOf

(* A new allocation adds its address.                                      *)
LEMMA OwnedPut ==
  ASSUME NEW r, DOMAIN r \subseteq Nat, NEW p \in Nat, NEW n
  PROVE  OwnedOf(Put(r, p, n)) = Put(OwnedOf(r), p + BlockHeader, n)
<1> DEFINE d == Put(r, p, n)
           D == {ptr + BlockHeader : ptr \in DOMAIN d}
           E == {ptr + BlockHeader : ptr \in DOMAIN r} \cup {p + BlockHeader}
<1>1. /\ DOMAIN d = DOMAIN r \cup {p} /\ d[p] = n
      /\ \A q \in DOMAIN r \ {p} : d[q] = r[q]
  BY DEF Put
<1> HIDE DEF d
<1>2. D = E
  BY <1>1
<1>3. ASSUME NEW o \in D
      PROVE  d[o - BlockHeader] =
               IF o = p + BlockHeader THEN n ELSE OwnedOf(r)[o]
  <2>1. PICK q \in DOMAIN d : o = q + BlockHeader
    OBVIOUS
  <2>2. q \in Nat /\ o - BlockHeader = q /\ (o = p + BlockHeader <=> q = p)
    BY <1>1, <2>1, Addresses
  <2>3. CASE q = p
    BY <1>1, <2>2, <2>3
  <2>4. CASE q # p
    BY <1>1, <2>1, <2>2, <2>4, OwnedFacts
  <2> QED
    BY <2>3, <2>4
<1>4. OwnedOf(d) = [o \in D |-> d[o - BlockHeader]]
  BY DEF OwnedOf
<1>5. E = DOMAIN OwnedOf(r) \cup {p + BlockHeader}
  BY OwnedFacts
<1> HIDE DEF D, E
<1>6. OwnedOf(d) = [o \in DOMAIN OwnedOf(r) \cup {p + BlockHeader} |->
                      IF o = p + BlockHeader THEN n ELSE OwnedOf(r)[o]]
  BY <1>2, <1>3, <1>4, <1>5
<1> HIDE DEF d
<1>7. OwnedOf(d) = Put(OwnedOf(r), p + BlockHeader, n)
  BY <1>6 DEF Put
<1> QED
  BY <1>7 DEF d

(* Freeing one removes its address.                                        *)
LEMMA OwnedDrop ==
  ASSUME NEW r, DOMAIN r \subseteq Nat, NEW p \in DOMAIN r
  PROVE  OwnedOf(Drop(r, p)) = Drop(OwnedOf(r), p + BlockHeader)
<1> DEFINE d == Drop(r, p)
           D == {ptr + BlockHeader : ptr \in DOMAIN d}
           E == {ptr + BlockHeader : ptr \in DOMAIN r} \ {p + BlockHeader}
<1>1. DOMAIN d = DOMAIN r \ {p} /\ \A q \in DOMAIN r \ {p} : d[q] = r[q]
  BY DEF Drop
<1> HIDE DEF d
<1>2. D = E
  BY <1>1, Addresses
<1>3. ASSUME NEW o \in D PROVE d[o - BlockHeader] = OwnedOf(r)[o]
  <2>1. PICK q \in DOMAIN d : o = q + BlockHeader
    OBVIOUS
  <2>2. q \in DOMAIN r /\ o - BlockHeader = q
    BY <1>1, <2>1, Addresses
  <2> QED
    BY <1>1, <2>1, <2>2, OwnedFacts
<1>4. OwnedOf(d) = [o \in D |-> d[o - BlockHeader]]
  BY DEF OwnedOf
<1>5. E = DOMAIN OwnedOf(r) \ {p + BlockHeader}
  BY OwnedFacts
<1> HIDE DEF D, E
<1>6. OwnedOf(d) = [o \in DOMAIN OwnedOf(r) \ {p + BlockHeader} |-> OwnedOf(r)[o]]
  BY <1>2, <1>3, <1>4, <1>5
<1> HIDE DEF d
<1>7. OwnedOf(d) = Drop(OwnedOf(r), p + BlockHeader)
  BY <1>6 DEF Drop
<1> QED
  BY <1>7 DEF d

(* The bytes behind the header of a free block belong to nobody.           *)
LEMMA FreeBlockAvailable ==
  ASSUME NEW s, WholeSegment(s), NEW r, UsedBy(s, r),
         NEW p \in DOMAIN s.block, s.block[p].isFree,
         NEW n \in Nat \ {0}, s.block[p].blockSize >= n
  PROVE  LET a == p + BlockHeader
             end == SegmentHeader + s.bytes
         IN  /\ a \in 1..end /\ a + n <= end
             /\ \A o \in DOMAIN OwnedOf(r) : a + n <= o \/ o + OwnedOf(r)[o] <= a
<1> DEFINE b == s.block
           B == DOMAIN b
           a == p + BlockHeader
           end == SegmentHeader + s.bytes
<1>1. /\ Whole(B, b, end) /\ end \in Nat
      /\ \A q \in B : WholeAt(B, b, end, q)
      /\ DOMAIN r \subseteq B /\ B \subseteq Nat
  BY DEF WholeSegment, Whole, UsedBy
<1>2. \A q \in B : /\ q \in Nat /\ b[q].blockSize \in Nat \ {0}
                   /\ EndOf(b, q) \in Nat /\ EndOf(b, q) <= end
                   /\ EndOf(b, q) = q + BlockHeader + b[q].blockSize
  BY <1>1, WholeFacts DEF WholeAt, EndOf
<1>3. /\ a \in 1..end /\ a + n <= EndOf(b, p) /\ a + n <= end
  BY <1>1, <1>2, Addresses
<1>4. ASSUME NEW o \in DOMAIN OwnedOf(r)
      PROVE  a + n <= o \/ o + OwnedOf(r)[o] <= a
  <2>0. DOMAIN r \subseteq Nat
    BY <1>1
  <2>1. PICK q \in DOMAIN r : o = q + BlockHeader
    <3>1. DOMAIN OwnedOf(r) = {ptr + BlockHeader : ptr \in DOMAIN r}
      BY <2>0, OwnedFacts
    <3>2. o \in {ptr + BlockHeader : ptr \in DOMAIN r}
      BY <3>1, Zenon
    <3> QED
      BY <3>2
  <2>2. OwnedOf(r)[o] = r[q]
    BY <2>0, <2>1, OwnedFacts
  <2>3. q \in B /\ q # p /\ r[q] \in Nat \ {0} /\ b[q].blockSize >= r[q]
    BY <1>1 DEF UsedBy
  <2>4. CASE p < q
    <3>1. EndOf(b, p) <= q
      BY <1>1, <2>3, <2>4 DEF WholeAt
    <3> QED
      BY <1>1, <1>2, <1>3, <2>1, <2>3, <3>1, Addresses
  <2>5. CASE q < p
    <3>1. EndOf(b, q) <= p
      BY <1>1, <2>3, <2>5 DEF WholeAt
    <3> QED
      BY <1>1, <1>2, <2>1, <2>2, <2>3, <3>1, Addresses
  <2> QED
    BY <1>2, <2>3, <2>4, <2>5
<1> QED
  BY <1>1, <1>3, <1>4

(* The first segment is an empty heap.                                     *)
LEMMA HeapInitially == AllocatorInit => HeapImpl!Init
<1> SUFFICES ASSUME AllocatorInit PROVE HeapImpl!Init
  OBVIOUS
<1>1. requested = <<>> /\ segment.bytes = InitialSize
  BY DEF AllocatorInit, NewSegment
<1>2. DOMAIN requested = {}
  BY <1>1
<1>3. [a \in {ptr + BlockHeader : ptr \in DOMAIN requested} |->
         requested[a - BlockHeader]] = <<>>
  BY <1>2
<1>4. SegmentHeader + segment.bytes \in Nat
  BY <1>1, AllocatorAssumption
<1> QED
  BY <1>3, <1>4 DEF HeapImpl!Init

(* The end of balloc allocates, bfree frees and a resize grows the heap.   *)
LEMMA HeapSteps ==
  ASSUME HeapInv, HeapInv', [AllocatorNext]_avars
  PROVE  HeapImpl!Next \/ UNCHANGED <<OwnedOf(requested), SegmentHeader + segment.bytes>>
<1>0. DOMAIN requested \subseteq Nat /\ segment.bytes \in Nat
  BY DEF HeapInv, UsedBy, WholeSegment, Whole
<1>1. ASSUME NEW bytes \in Requests, balloc(bytes) PROVE HeapImpl!Alloc(bytes)
  <2>1. PICK p \in DOMAIN segment.block :
          /\ segment.block[p].isFree /\ segment.block[p].blockSize >= bytes
          /\ segment' = Taken(segment, p, bytes)
          /\ requested' = Put(requested, p, bytes)
          /\ seams' = seams /\ call' = 0
    BY <1>1, BallocTakes
  <2> DEFINE a == p + BlockHeader
             end == SegmentHeader + segment.bytes
  <2>2. bytes \in Nat \ {0} /\ p \in Nat
    BY <2>1, AllocatorAssumption DEF HeapInv, WholeSegment, Whole
  <2>3. segment'.bytes = segment.bytes
    BY <2>1, <2>2, TakenHeap DEF HeapInv
  <2>4. /\ a \in 1..end /\ a + bytes <= end
        /\ \A o \in DOMAIN OwnedOf(requested) :
             a + bytes <= o \/ o + OwnedOf(requested)[o] <= a
    BY <2>1, <2>2, FreeBlockAvailable DEF HeapInv
  <2>5. OwnedOf(requested') = [o \in DOMAIN OwnedOf(requested) \cup {a} |->
                                 IF o = a THEN bytes ELSE OwnedOf(requested)[o]]
    <3>1. OwnedOf(Put(requested, p, bytes)) = Put(OwnedOf(requested), a, bytes)
      BY <1>0, <2>2, OwnedPut
    <3> QED
      BY <2>1, <3>1 DEF Put
  <2>6. a > 0
    BY <2>2, Addresses
  <2> QED
    BY <2>3, <2>4, <2>5, <2>6 DEF HeapImpl!Alloc, HeapImpl!Available, OwnedOf
<1>2. ASSUME NEW ptr \in DOMAIN requested, bfree(ptr)
      PROVE  \E a \in DOMAIN OwnedOf(requested) : HeapImpl!Free(a)
  <2> DEFINE a == ptr + BlockHeader
  <2>1. a \in DOMAIN OwnedOf(requested)
    BY <1>0, OwnedFacts
  <2>2. segment'.bytes = segment.bytes
    BY <1>2, ReleasedHeap DEF HeapInv, bfree
  <2>3. OwnedOf(requested') =
          [o \in DOMAIN OwnedOf(requested) \ {a} |-> OwnedOf(requested)[o]]
    BY <1>0, <1>2, OwnedDrop DEF bfree, Drop
  <2>4. HeapImpl!Free(a)
    BY <2>1, <2>2, <2>3 DEF HeapImpl!Free, OwnedOf
  <2> QED
    BY <2>1, <2>4
<1>3. ASSUME NEW bytes \in Requests, NEW attachedByOthers \in BOOLEAN,
             resize(bytes, attachedByOthers)
      PROVE  HeapImpl!Grow
  <2>1. /\ requested' = requested
        /\ segment'.bytes \in Nat /\ segment'.bytes > segment.bytes
    BY <1>3, ResizeGrows
  <2>2. /\ SegmentHeader + segment'.bytes \in Nat
        /\ SegmentHeader + segment'.bytes > SegmentHeader + segment.bytes
    BY <1>0, <2>1, Addresses
  <2> QED
    BY <2>1, <2>2 DEF HeapImpl!Grow
<1>4. CASE \E ptr \in DOMAIN requested : bfree(ptr)
  BY <1>2, <1>4 DEF HeapImpl!Next, OwnedOf
<1>5. CASE UNCHANGED avars
  BY <1>5 DEF avars
<1> QED
  BY <1>1, <1>3, <1>4, <1>5 DEF AllocatorNext, HeapImpl!Next

(* The allocator is a heap: addresses handed out own the bytes asked for,  *)
(* no two live allocations overlap, and growing the segment, also by a     *)
(* process that then exits, moves nothing and gives nothing away.          *)
THEOREM AllocatorIsHeap == AllocatorSpec => IsHeap
<1>1. HeapInv /\ HeapInv' /\ [AllocatorNext]_avars
        => [HeapImpl!Next]_<<[a \in {ptr + BlockHeader : ptr \in DOMAIN requested} |->
                                requested[a - BlockHeader]],
                             SegmentHeader + segment.bytes>>
  BY HeapSteps DEF OwnedOf
<1> QED
  BY <1>1, HeapInitially, HeapInvariant, PTL DEF AllocatorSpec, IsHeap, HeapImpl!Spec

=============================================================================
