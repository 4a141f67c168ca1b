----------------------------- MODULE BgetProofs -----------------------------
(***************************************************************************)
(* Proofs about Bget, for any pool and any words as sizes.                 *)
(*                                                                         *)
(* The heap is in order when its blocks tile the pool, every free block is *)
(* known to the block behind it by its size, and the free list is a chain  *)
(* of all the free blocks: PoolOk.  bget() and brel() take a pool that is  *)
(* in order to another one, and each lemma on the way says what one helper *)
(* does to the blocks, to the tags and to the chain.  With a buffer for    *)
(* every block that is not free, HeapInv is inductive, and the invariants  *)
(* and the refinement of Bget follow from it.                              *)
(***************************************************************************)
EXTENDS Bget, FiniteSetTheorems, WellFoundedInduction, TLAPS

-----------------------------------------------------------------------------
(* Memory, as operators on the function m of all the headers.              *)

HeaderType == [prevfree : Int, bsize : Int, flink : Int, blink : Int]

BlocksOf(m)  == DOMAIN m \ {freelist}
FreeOf(m)    == {b \in BlocksOf(m) : m[b].bsize > 0}
LengthOf(m, b) == IF m[b].bsize < 0 THEN -m[b].bsize ELSE m[b].bsize
Behind(m, b) == b + LengthOf(m, b)

(* A header for each block of the pool, and the head of the free list. *)
Typed(m) ==
  /\ m \in [DOMAIN m -> HeaderType]
  /\ freelist \in DOMAIN m /\ m[freelist].bsize = 0 /\ m[freelist].prevfree = 0
  /\ BlocksOf(m) \subseteq heapStart..heapEnd

(* The blocks tile the pool. *)
Tiled(m) ==
  /\ heapStart \in BlocksOf(m) /\ heapEnd \in BlocksOf(m)
  /\ \A b \in BlocksOf(m) : b % 4 = 0
  /\ \A b \in BlocksOf(m) \ {heapEnd} :
       /\ LengthOf(m, b) >= 16
       /\ Behind(m, b) \in BlocksOf(m)
       /\ \A c \in BlocksOf(m) : b < c => Behind(m, b) <= c
  /\ \A b \in BlocksOf(m) \ {heapStart} :
       \E a \in BlocksOf(m) \ {heapEnd} : Behind(m, a) = b

(* The block behind b knows b by its size when b is free, and is not free  *)
(* then; the links of a block that is not free belong to the caller.       *)
TagRight(m, b) ==
  IF m[b].bsize > 0
    THEN m[Behind(m, b)].prevfree = m[b].bsize /\ m[Behind(m, b)].bsize < 0
    ELSE /\ m[Behind(m, b)].prevfree = 0
         /\ m[b].flink = Callers /\ m[b].blink = Callers

Tagged(m) ==
  /\ m[heapStart].prevfree = 0 /\ m[heapEnd].bsize = ESent
  /\ \A b \in BlocksOf(m) \ {heapEnd} : TagRight(m, b)

(* The free list is s, with the list's header before and behind it. *)
Chain(m, n, s) ==
  /\ s[0] = freelist /\ s[n + 1] = freelist
  /\ \A i \in 1..n : s[i] # freelist /\ s[i] \in DOMAIN m
  /\ \A i, j \in 1..n : s[i] = s[j] => i = j
  /\ \A i \in 0..n : m[s[i]].flink = s[i + 1] /\ m[s[i + 1]].blink = s[i]

Chained(m, F) ==
  \E n \in Nat : \E s \in [0..n + 1 -> Int] :
    Chain(m, n, s) /\ F = {s[i] : i \in 1..n}

PoolOk(m) == Typed(m) /\ Tiled(m) /\ Tagged(m) /\ Chained(m, FreeOf(m))

(* Numbers of the code. *)
LEMMA Numbers ==
  /\ NULL = 0 /\ freelist = -1 /\ SizeQuant = 4 /\ SizeQ = 8 /\ BhSize = 8
  /\ ESent \in Int /\ ESent < 0 /\ Callers \in Int
<1>1. Word \in Nat /\ Word >= 64
  <2>1. Word \div 2 > 32 /\ Word \in Nat
    BY BgetAssumption
  <2> QED
    BY <2>1
<1> QED
  BY <1>1 DEF NULL, freelist, SizeQuant, SizeQ, BhSize, ESent, Callers

(* The pool has room for a block and its sentinel, and is aligned. *)
LEMMA Bounds ==
  /\ heapStart \in Int /\ heapEnd \in Int /\ heapStart > 0 /\ heapStart % 4 = 0
  /\ heapEnd % 4 = 0 /\ heapEnd >= heapStart + 24
BY BgetAssumption DEF heapEnd, SizeQuant, BhSize

(* A word: half of it is a number of quanta, and the pool is below it. *)
LEMMA WordFacts ==
  /\ Half \in Int /\ Half % 4 = 0 /\ Word = 2 * Half /\ Half > 32
  /\ heapEnd <= Half
<1>1. Word \in Nat /\ Word % 8 = 0 /\ heapStart + heapSize <= Word \div 2
      /\ heapStart \in Nat /\ heapStart > 0 /\ heapSize \in Nat /\ heapSize > 32
  BY BgetAssumption
<1>2. Half = Word \div 2
  BY DEF Half
<1>3. Half \in Int /\ Half % 4 = 0 /\ Word = 2 * Half
  BY <1>1, <1>2
<1>4. heapEnd = heapStart + 4 * (heapSize \div 4) - 8
  BY DEF heapEnd, SizeQuant, BhSize
<1> QED
  BY <1>1, <1>2, <1>3, <1>4

-----------------------------------------------------------------------------
(* The free list.                                                          *)

(* A store to one field of a header. *)
LEMMA SetFlink ==
  ASSUME NEW D, NEW m \in [D -> HeaderType], NEW b \in D, NEW x \in Int
  PROVE  LET n == [m EXCEPT ![b].flink = x]
         IN  /\ n \in [D -> HeaderType]
             /\ \A a \in D :
                  /\ n[a].prevfree = m[a].prevfree /\ n[a].bsize = m[a].bsize
                  /\ n[a].flink = (IF a = b THEN x ELSE m[a].flink)
                  /\ n[a].blink = m[a].blink
BY DEF HeaderType

(* The same for the link to the block before it in the list. *)
LEMMA SetBlink ==
  ASSUME NEW D, NEW m \in [D -> HeaderType], NEW b \in D, NEW x \in Int
  PROVE  LET n == [m EXCEPT ![b].blink = x]
         IN  /\ n \in [D -> HeaderType]
             /\ \A a \in D :
                  /\ n[a].prevfree = m[a].prevfree /\ n[a].bsize = m[a].bsize
                  /\ n[a].flink = m[a].flink
                  /\ n[a].blink = (IF a = b THEN x ELSE m[a].blink)
BY DEF HeaderType

(* The same for the size. *)
LEMMA SetBsize ==
  ASSUME NEW D, NEW m \in [D -> HeaderType], NEW b \in D, NEW x \in Int
  PROVE  LET n == [m EXCEPT ![b].bsize = x]
         IN  /\ n \in [D -> HeaderType]
             /\ \A a \in D :
                  /\ n[a].prevfree = m[a].prevfree
                  /\ n[a].bsize = (IF a = b THEN x ELSE m[a].bsize)
                  /\ n[a].flink = m[a].flink /\ n[a].blink = m[a].blink
BY DEF HeaderType

(* The same for the tag that tells the size of the block in front. *)
LEMMA SetPrevfree ==
  ASSUME NEW D, NEW m \in [D -> HeaderType], NEW b \in D, NEW x \in Int
  PROVE  LET n == [m EXCEPT ![b].prevfree = x]
         IN  /\ n \in [D -> HeaderType]
             /\ \A a \in D :
                  /\ n[a].prevfree = (IF a = b THEN x ELSE m[a].prevfree)
                  /\ n[a].bsize = m[a].bsize
                  /\ n[a].flink = m[a].flink /\ n[a].blink = m[a].blink
BY DEF HeaderType

(* What Link() does to each header. *)
LEMMA LinkEffect ==
  ASSUME NEW m, Typed(m), NEW b \in BlocksOf(m), m[freelist].blink \in DOMAIN m \ {b}
  PROVE  /\ Link(m, b) \in [DOMAIN m -> HeaderType]
         /\ \A a \in DOMAIN m :
              /\ Link(m, b)[a].prevfree = m[a].prevfree
              /\ Link(m, b)[a].bsize = m[a].bsize
              /\ Link(m, b)[a].flink =
                   IF a = m[freelist].blink THEN b
                   ELSE IF a = b THEN freelist ELSE m[a].flink
              /\ Link(m, b)[a].blink =
                   IF a = b THEN m[freelist].blink
                   ELSE IF a = freelist THEN b ELSE m[a].blink
<1> DEFINE D == DOMAIN m
           last == m[freelist].blink
           m1 == [m EXCEPT ![b].flink = freelist]
           m2 == [m1 EXCEPT ![b].blink = last]
           m3 == [m2 EXCEPT ![freelist].blink = b]
           m4 == [m3 EXCEPT ![last].flink = b]
<1>0. /\ m \in [D -> HeaderType] /\ b \in D /\ freelist \in D /\ last \in D
      /\ b \in Int /\ freelist \in Int /\ last \in Int /\ b # freelist /\ last # b
  BY Numbers, Bounds DEF Typed, BlocksOf, HeaderType
<1>1. Link(m, b) = m4
  BY DEF Link
<1> HIDE DEF D, last
<1>2. /\ m1 \in [D -> HeaderType]
      /\ \A a \in D : /\ m1[a].prevfree = m[a].prevfree /\ m1[a].bsize = m[a].bsize
                      /\ m1[a].flink = (IF a = b THEN freelist ELSE m[a].flink)
                      /\ m1[a].blink = m[a].blink
  BY <1>0, SetFlink
<1> HIDE DEF m1
<1>3. /\ m2 \in [D -> HeaderType]
      /\ \A a \in D : /\ m2[a].prevfree = m1[a].prevfree /\ m2[a].bsize = m1[a].bsize
                      /\ m2[a].flink = m1[a].flink
                      /\ m2[a].blink = (IF a = b THEN last ELSE m1[a].blink)
  BY <1>0, <1>2, SetBlink
<1> HIDE DEF m2
<1>4. /\ m3 \in [D -> HeaderType]
      /\ \A a \in D : /\ m3[a].prevfree = m2[a].prevfree /\ m3[a].bsize = m2[a].bsize
                      /\ m3[a].flink = m2[a].flink
                      /\ m3[a].blink = (IF a = freelist THEN b ELSE m2[a].blink)
  BY <1>0, <1>3, SetBlink
<1> HIDE DEF m3
<1>5. /\ m4 \in [D -> HeaderType]
      /\ \A a \in D : /\ m4[a].prevfree = m3[a].prevfree /\ m4[a].bsize = m3[a].bsize
                      /\ m4[a].flink = (IF a = last THEN b ELSE m3[a].flink)
                      /\ m4[a].blink = m3[a].blink
  BY <1>0, <1>4, SetFlink
<1> HIDE DEF m4
<1> QED
  BY <1>0, <1>1, <1>2, <1>3, <1>4, <1>5 DEF D, last

(* What Unlink() does to each header. *)
LEMMA UnlinkEffect ==
  ASSUME NEW m, Typed(m), NEW b \in BlocksOf(m),
         m[b].flink \in DOMAIN m \ {b}, m[b].blink \in DOMAIN m \ {b}
  PROVE  /\ Unlink(m, b) \in [DOMAIN m -> HeaderType]
         /\ \A a \in DOMAIN m :
              /\ Unlink(m, b)[a].prevfree = m[a].prevfree
              /\ Unlink(m, b)[a].bsize = m[a].bsize
              /\ Unlink(m, b)[a].flink =
                   IF a = b THEN Callers
                   ELSE IF a = m[b].blink THEN m[b].flink ELSE m[a].flink
              /\ Unlink(m, b)[a].blink =
                   IF a = b THEN Callers
                   ELSE IF a = m[b].flink THEN m[b].blink ELSE m[a].blink
<1> DEFINE D == DOMAIN m
           f == m[b].flink
           p == m[b].blink
           m1 == [m EXCEPT ![p].flink = f]
           m2 == [m1 EXCEPT ![f].blink = p]
           m3 == [m2 EXCEPT ![b].flink = Callers]
           m4 == [m3 EXCEPT ![b].blink = Callers]
<1>0. /\ m \in [D -> HeaderType] /\ b \in D /\ f \in D /\ p \in D
      /\ f \in Int /\ p \in Int /\ Callers \in Int /\ f # b /\ p # b
  BY Numbers, Bounds DEF Typed, BlocksOf, HeaderType
<1>1. Unlink(m, b) = m4
  BY DEF Unlink
<1> HIDE DEF D, f, p
<1>2. /\ m1 \in [D -> HeaderType]
      /\ \A a \in D : /\ m1[a].prevfree = m[a].prevfree /\ m1[a].bsize = m[a].bsize
                      /\ m1[a].flink = (IF a = p THEN f ELSE m[a].flink)
                      /\ m1[a].blink = m[a].blink
  BY <1>0, SetFlink
<1> HIDE DEF m1
<1>3. /\ m2 \in [D -> HeaderType]
      /\ \A a \in D : /\ m2[a].prevfree = m1[a].prevfree /\ m2[a].bsize = m1[a].bsize
                      /\ m2[a].flink = m1[a].flink
                      /\ m2[a].blink = (IF a = f THEN p ELSE m1[a].blink)
  BY <1>0, <1>2, SetBlink
<1> HIDE DEF m2
<1>4. /\ m3 \in [D -> HeaderType]
      /\ \A a \in D : /\ m3[a].prevfree = m2[a].prevfree /\ m3[a].bsize = m2[a].bsize
                      /\ m3[a].flink = (IF a = b THEN Callers ELSE m2[a].flink)
                      /\ m3[a].blink = m2[a].blink
  BY <1>0, <1>3, SetFlink
<1> HIDE DEF m3
<1>5. /\ m4 \in [D -> HeaderType]
      /\ \A a \in D : /\ m4[a].prevfree = m3[a].prevfree /\ m4[a].bsize = m3[a].bsize
                      /\ m4[a].flink = m3[a].flink
                      /\ m4[a].blink = (IF a = b THEN Callers ELSE m3[a].blink)
  BY <1>0, <1>4, SetBlink
<1> HIDE DEF m4
<1> QED
  BY <1>0, <1>1, <1>2, <1>3, <1>4, <1>5 DEF D, f, p

(* The neighbours of an element, and of the list's header. *)
LEMMA ChainNeighbours ==
  ASSUME NEW m, NEW n \in Nat, NEW s \in [0..n + 1 -> Int], Chain(m, n, s),
         freelist \in DOMAIN m
  PROVE  /\ \A i \in 0..n + 1 : s[i] \in DOMAIN m
         /\ \A i \in 1..n : \A j \in 0..n + 1 : s[i] = s[j] => i = j
         /\ m[freelist].blink = s[n] /\ m[freelist].flink = s[1]
<1>1. \A i \in 0..n + 1 : i = 0 \/ i = n + 1 \/ i \in 1..n
  OBVIOUS
<1>2. \A i \in 0..n + 1 : s[i] \in DOMAIN m
  BY <1>1 DEF Chain
<1>3. ASSUME NEW i \in 1..n, NEW j \in 0..n + 1, s[i] = s[j] PROVE i = j
  <2>1. CASE j \in 1..n
    BY <1>3, <2>1 DEF Chain
  <2>2. CASE j = 0 \/ j = n + 1
    BY <1>3, <2>2 DEF Chain
  <2> QED
    BY <1>1, <2>1, <2>2
<1>4. m[s[0]].flink = s[0 + 1] /\ m[s[n + 1]].blink = s[n]
  BY DEF Chain
<1> QED
  BY <1>2, <1>3, <1>4 DEF Chain

(* Link() appends a block. *)
LEMMA LinkChains ==
  ASSUME NEW m, NEW F, NEW b \in BlocksOf(m) \ F, Typed(m), Chained(m, F)
  PROVE  /\ m[freelist].blink \in DOMAIN m \ {b}
         /\ Chained(Link(m, b), F \cup {b})
<1>0. PICK n \in Nat : \E s \in [0..n + 1 -> Int] : Chain(m, n, s) /\ F = {s[i] : i \in 1..n}
  BY DEF Chained
<1>1. PICK s \in [0..n + 1 -> Int] : Chain(m, n, s) /\ F = {s[i] : i \in 1..n}
  BY <1>0
<1>2. /\ \A i \in 0..n + 1 : s[i] \in DOMAIN m
      /\ \A i \in 1..n : \A j \in 0..n + 1 : s[i] = s[j] => i = j
      /\ m[freelist].blink = s[n] /\ m[freelist].flink = s[1]
  BY <1>1, ChainNeighbours DEF Typed
<1>3. b # freelist /\ b \in DOMAIN m /\ b \in Int
  BY Bounds DEF BlocksOf, Typed
<1>4. \A i \in 0..n + 1 : s[i] # b
  BY <1>1, <1>3 DEF Chain
<1>5. m[freelist].blink \in DOMAIN m \ {b}
  BY <1>2, <1>4
<1> DEFINE l == Link(m, b)
           z == [i \in 0..(n + 1) + 1 |->
                   IF i <= n THEN s[i] ELSE IF i = n + 1 THEN b ELSE freelist]
<1>6. /\ DOMAIN l = DOMAIN m
      /\ \A a \in DOMAIN m :
           /\ l[a].flink = IF a = s[n] THEN b ELSE IF a = b THEN freelist ELSE m[a].flink
           /\ l[a].blink = IF a = b THEN s[n] ELSE IF a = freelist THEN b ELSE m[a].blink
  BY <1>2, <1>5, LinkEffect
<1> HIDE DEF l
<1>7. z \in [0..(n + 1) + 1 -> Int] /\ n + 1 \in Nat
  BY <1>3, Numbers
<1>8. Chain(l, n + 1, z)
  <2>1. z[0] = freelist /\ z[(n + 1) + 1] = freelist
    BY <1>1 DEF Chain
  <2>2. \A i \in 1..n + 1 : z[i] # freelist /\ z[i] \in DOMAIN l
    BY <1>1, <1>2, <1>3, <1>6 DEF Chain
  <2>3. \A i, j \in 1..n + 1 : z[i] = z[j] => i = j
    BY <1>2, <1>4
  <2>4. ASSUME NEW i \in 0..n + 1
        PROVE  l[z[i]].flink = z[i + 1] /\ l[z[i + 1]].blink = z[i]
    <3>1. CASE i < n
      <4>1. z[i] = s[i] /\ z[i + 1] = s[i + 1] /\ i \in 0..n /\ i + 1 \in 1..n
        BY <3>1
      <4>2. s[i] # s[n] /\ s[i + 1] # freelist /\ s[i] # b /\ s[i + 1] # b
        BY <1>1, <1>2, <1>4, <3>1, <4>1 DEF Chain
      <4> QED
        BY <1>1, <1>2, <1>6, <4>1, <4>2 DEF Chain
    <3>2. CASE i = n
      <4>1. z[i] = s[n] /\ z[i + 1] = b
        BY <3>2
      <4> QED
        BY <1>2, <1>3, <1>6, <4>1
    <3>3. CASE i = n + 1
      <4>1. z[i] = b /\ z[i + 1] = freelist
        BY <3>3
      <4> QED
        BY <1>2, <1>3, <1>4, <1>6, <4>1 DEF Typed
    <3> QED
      BY <3>1, <3>2, <3>3
  <2> QED
    BY <2>1, <2>2, <2>3, <2>4 DEF Chain
<1>9. F \cup {b} = {z[i] : i \in 1..n + 1}
  <2>1. \A i \in 1..n : z[i] = s[i]
    OBVIOUS
  <2>2. z[n + 1] = b
    OBVIOUS
  <2> HIDE DEF z
  <2> QED
    BY <1>1, <2>1, <2>2
<1> QED
  BY <1>5, <1>7, <1>8, <1>9 DEF Chained, l

(* Unlink() takes any one out. *)
LEMMA UnlinkChains ==
  ASSUME NEW m, NEW F, NEW b \in BlocksOf(m) \cap F, Typed(m), Chained(m, F)
  PROVE  /\ m[b].flink \in DOMAIN m \ {b} /\ m[b].blink \in DOMAIN m \ {b}
         /\ LinksMatch(m, b)
         /\ Chained(Unlink(m, b), F \ {b})
<1>0. PICK n \in Nat : \E s \in [0..n + 1 -> Int] : Chain(m, n, s) /\ F = {s[i] : i \in 1..n}
  BY DEF Chained
<1>1. PICK s \in [0..n + 1 -> Int] : Chain(m, n, s) /\ F = {s[i] : i \in 1..n}
  BY <1>0
<1>2. /\ \A i \in 0..n + 1 : s[i] \in DOMAIN m
      /\ \A i \in 1..n : \A j \in 0..n + 1 : s[i] = s[j] => i = j
  BY <1>1, ChainNeighbours DEF Typed
<1>3. PICK k \in 1..n : b = s[k]
  BY <1>1
<1>4. /\ m[b].flink = s[k + 1] /\ m[b].blink = s[k - 1]
      /\ m[s[k - 1]].flink = b /\ m[s[k + 1]].blink = b
  <2>1. k \in 0..n /\ k - 1 \in 0..n /\ (k - 1) + 1 = k
    OBVIOUS
  <2>2. \A i \in 0..n : m[s[i]].flink = s[i + 1] /\ m[s[i + 1]].blink = s[i]
    BY <1>1 DEF Chain
  <2>3. m[s[k - 1]].flink = s[(k - 1) + 1] /\ m[s[(k - 1) + 1]].blink = s[k - 1]
    BY <2>1, <2>2
  <2> QED
    BY <1>3, <2>1, <2>2, <2>3
<1>5. /\ \A i \in 0..n + 1 : i # k => s[i] # b
      /\ m[b].flink \in DOMAIN m \ {b} /\ m[b].blink \in DOMAIN m \ {b}
  BY <1>2, <1>3, <1>4
<1> DEFINE u == Unlink(m, b)
           z == [i \in 0..(n - 1) + 1 |-> IF i < k THEN s[i] ELSE s[i + 1]]
<1>6. /\ DOMAIN u = DOMAIN m
      /\ \A a \in DOMAIN m \ {b} :
           /\ u[a].flink = IF a = s[k - 1] THEN s[k + 1] ELSE m[a].flink
           /\ u[a].blink = IF a = s[k + 1] THEN s[k - 1] ELSE m[a].blink
  BY <1>4, <1>5, UnlinkEffect
<1> HIDE DEF u
<1>7. z \in [0..(n - 1) + 1 -> Int] /\ n - 1 \in Nat
  OBVIOUS
<1>8. Chain(u, n - 1, z)
  <2>1. z[0] = freelist /\ z[(n - 1) + 1] = freelist
    BY <1>1 DEF Chain
  <2>2. \A i \in 1..n - 1 : z[i] # freelist /\ z[i] \in DOMAIN u
    BY <1>1, <1>2, <1>6 DEF Chain
  <2>3. \A i, j \in 1..n - 1 : z[i] = z[j] => i = j
    BY <1>2
  <2>4. ASSUME NEW i \in 0..n - 1
        PROVE  u[z[i]].flink = z[i + 1] /\ u[z[i + 1]].blink = z[i]
    <3>1. CASE i < k - 1
      <4>1. z[i] = s[i] /\ z[i + 1] = s[i + 1] /\ i \in 0..n /\ i + 1 \in 1..n
        BY <3>1
      <4>2. s[i + 1] # s[k + 1] /\ s[i] # s[k - 1] /\ s[i] # b /\ s[i + 1] # b
        <5>1. i + 1 # k + 1 /\ i # k - 1 /\ k + 1 \in 0..n + 1 /\ i \in 0..n + 1
          BY <3>1
        <5>4. k - 1 \in 1..n
          BY <3>1
        <5>2. s[i + 1] # s[k + 1]
          BY <1>2, <4>1, <5>1
        <5>3. s[i] # s[k - 1]
          BY <1>2, <5>1, <5>4
        <5> QED
          BY <1>5, <3>1, <4>1, <5>2, <5>3
      <4>3. m[s[i]].flink = s[i + 1] /\ m[s[i + 1]].blink = s[i]
        BY <1>1, <4>1 DEF Chain
      <4>4. s[i] \in DOMAIN m /\ s[i + 1] \in DOMAIN m
        BY <1>2, <4>1
      <4> QED
        BY <1>6, <4>1, <4>2, <4>3, <4>4
    <3>2. CASE i = k - 1
      <4>1. z[i] = s[k - 1] /\ z[i + 1] = s[k + 1]
        BY <3>2
      <4> QED
        BY <1>2, <1>5, <1>6, <4>1
    <3>3. CASE i > k - 1
      <4>1. /\ z[i] = s[i + 1] /\ z[i + 1] = s[(i + 1) + 1]
            /\ i + 1 \in 1..n /\ (i + 1) + 1 \in 0..n + 1
        BY <3>3
      <4>2. s[i + 1] # s[k - 1] /\ s[i + 1] # b /\ s[(i + 1) + 1] # b
        BY <1>2, <1>5, <3>3, <4>1
      <4>3. s[(i + 1) + 1] # s[k + 1]
        <5>1. k + 1 \in 1..n /\ (i + 1) + 1 # k + 1
          BY <3>3
        <5> QED
          BY <1>2, <4>1, <5>1
      <4>4. m[s[i + 1]].flink = s[(i + 1) + 1] /\ m[s[(i + 1) + 1]].blink = s[i + 1]
        BY <1>1, <4>1 DEF Chain
      <4> QED
        BY <1>2, <1>6, <4>1, <4>2, <4>3, <4>4
    <3> QED
      BY <3>1, <3>2, <3>3
  <2> QED
    BY <2>1, <2>2, <2>3, <2>4 DEF Chain
<1>9. F \ {b} = {z[i] : i \in 1..n - 1}
  <2>1. \A i \in 1..n - 1 : \E j \in 1..n : j # k /\ z[i] = s[j]
    <3> TAKE i \in 1..n - 1
    <3>1. CASE i < k
      <4>1. i \in 1..n /\ i # k /\ z[i] = s[i]
        BY <3>1
      <4> QED BY <4>1, Zenon
    <3>2. CASE i >= k
      <4>1. i + 1 \in 1..n /\ i + 1 # k /\ z[i] = s[i + 1]
        BY <3>2
      <4> QED BY <4>1, Zenon
    <3>3. i < k \/ i >= k
      OBVIOUS
    <3> QED
      BY <3>1, <3>2, <3>3, Zenon
  <2>2. \A j \in 1..n : j # k => \E i \in 1..n - 1 : z[i] = s[j]
    <3> SUFFICES ASSUME NEW j \in 1..n, j # k PROVE \E i \in 1..n - 1 : z[i] = s[j]
      OBVIOUS
    <3>1. CASE j < k
      <4>1. j \in 1..n - 1 /\ z[j] = s[j]
        BY <3>1
      <4> QED BY <4>1, Zenon
    <3>2. CASE j > k
      <4>1. j - 1 \in 1..n - 1 /\ z[j - 1] = s[j]
        BY <3>2
      <4> QED BY <4>1, Zenon
    <3>3. j < k \/ j > k
      OBVIOUS
    <3> QED
      BY <3>1, <3>2, <3>3, Zenon
  <2> HIDE DEF z
  <2>3. \A j \in 1..n : s[j] = b <=> j = k
    BY <1>3, <1>5
  <2>4. ASSUME NEW a PROVE a \in F \ {b} <=> \E i \in 1..n - 1 : a = z[i]
    <3>1. a \in F \ {b} <=> \E j \in 1..n : j # k /\ a = s[j]
      BY <1>1, <2>3
    <3> QED
      BY <2>1, <2>2, <3>1
  <2> QED
    BY <2>4
<1>10. LinksMatch(m, b)
  BY <1>4 DEF LinksMatch
<1> QED
  BY <1>5, <1>7, <1>8, <1>9, <1>10 DEF Chained, u

-----------------------------------------------------------------------------
(* Walking along the list, and the choice of a block.                      *)

(* The least of some numbers. *)
LEMMA LeastOne ==
  ASSUME NEW S \in SUBSET Nat, S # {}
  PROVE  \E i \in S : \A j \in S : i <= j
<1>1. PICK i \in S : \A j \in S : <<j, i>> \notin OpToRel(<, Nat)
  BY WFMin, NatLessThanWellFounded, Zenon
<1>2. \A j \in S : ~(j < i)
  BY <1>1, Zenon DEF OpToRel
<1> QED
  BY <1>2

(* The list is as long as there are free blocks, and memory is finite. *)
LEMMA ChainLength ==
  ASSUME NEW m, Typed(m), NEW n \in Nat, NEW s \in [0..n + 1 -> Int], Chain(m, n, s)
  PROVE  /\ IsFiniteSet(DOMAIN m) /\ Cardinality(DOMAIN m) \in Nat
         /\ n <= Cardinality(DOMAIN m)
         /\ Cardinality({s[i] : i \in 1..n}) = n
<1> DEFINE F == {s[i] : i \in 1..n}
           f == [i \in 1..n |-> s[i]]
<1>1. IsFiniteSet(DOMAIN m)
  <2>1. IsFiniteSet(heapStart..heapEnd)
    BY Bounds, FS_Interval
  <2>2. IsFiniteSet(BlocksOf(m))
    BY <2>1, FS_Subset DEF Typed
  <2>3. DOMAIN m = BlocksOf(m) \cup {freelist}
    BY DEF Typed, BlocksOf
  <2> QED
    BY <2>2, <2>3, FS_AddElement
<1>2. F \subseteq DOMAIN m
  BY DEF Chain
<1>3. f \in Bijection(1..n, F)
  <2>1. f \in [1..n -> F] /\ \A x \in F : \E i \in 1..n : f[i] = x
    OBVIOUS
  <2>2. \A i, j \in 1..n : f[i] = f[j] => i = j
    BY DEF Chain
  <2> HIDE DEF f, F
  <2> QED
    BY <2>1, <2>2 DEF Bijection, Injection, Surjection, IsInjective
<1>4. ExistsBijection(1..n, F)
  BY <1>3 DEF ExistsBijection
<1>5. Cardinality(F) = n
  BY <1>4, FS_CountingElements
<1>6. Cardinality(DOMAIN m) \in Nat /\ Cardinality(F) <= Cardinality(DOMAIN m)
  BY <1>1, <1>2, FS_Subset, FS_CardinalityType
<1> QED
  BY <1>1, <1>5, <1>6

(* Walk() goes along the list, and then stays at its head. *)
LEMMA WalkAlong ==
  ASSUME NEW m, Typed(m), NEW n \in Nat, NEW s \in [0..n + 1 -> Int], Chain(m, n, s)
  PROVE  Walk(m) = [k \in 0..Cardinality(DOMAIN m) |-> IF k < n THEN s[k + 1] ELSE freelist]
<1> DEFINE N == Cardinality(DOMAIN m)
           f == [k \in 0..N |-> IF k < n THEN s[k + 1] ELSE freelist]
           G(h) == [k \in 0..N |->
                      IF k = 0 THEN m[freelist].flink
                      ELSE IF h[k - 1] = freelist THEN freelist ELSE m[h[k - 1]].flink]
<1>1. Walk(m) = CHOOSE h : h = G(h)
  BY DEF Walk
<1>2. N \in Nat
  BY ChainLength
<1> HIDE DEF N
<1>3. f = G(f)
  <2> SUFFICES ASSUME NEW k \in 0..N PROVE f[k] = G(f)[k]
    BY DEF f, G
  <2>1. m[freelist].flink = s[1]
    BY ChainNeighbours DEF Typed
  <2>2. CASE k = 0
    BY <2>1, <2>2 DEF Chain
  <2>3. CASE k # 0 /\ k - 1 < n
    <3>1. k - 1 \in 0..N /\ f[k - 1] = s[k]
      BY <1>2, <2>3
    <3>2. k \in 1..n /\ s[k] # freelist /\ m[s[k]].flink = s[k + 1]
      BY <2>3 DEF Chain
    <3>3. f[k] = s[k + 1]
      <4>1. CASE k < n
        BY <4>1
      <4>2. CASE k = n
        BY <4>2 DEF Chain
      <4> QED
        BY <2>3, <4>1, <4>2
    <3> QED
      BY <2>3, <3>1, <3>2, <3>3
  <2>4. CASE k # 0 /\ ~(k - 1 < n)
    BY <1>2, <2>4
  <2> QED
    BY <2>2, <2>3, <2>4
<1>4. ASSUME NEW h, h = G(h) PROVE h = f
  <2> DEFINE D == {k \in 0..N : h[k] # f[k]}
  <2>1. CASE D # {}
    <3>0. D \in SUBSET Nat
      BY <1>2
    <3>1. PICK k \in D : \A j \in D : k <= j
      <4> HIDE DEF D
      <4> QED
        BY <2>1, <3>0, LeastOne
    <3>2. k \in 0..N /\ h[k] = G(h)[k] /\ f[k] = G(f)[k]
      BY <1>3, <1>4
    <3>3. k = 0 \/ (k - 1 \in 0..N /\ h[k - 1] = f[k - 1])
      <4>1. CASE k # 0
        <5>1. k - 1 \in 0..N /\ ~(k <= k - 1)
          BY <1>2, <3>2, <4>1
        <5> QED
          BY <3>1, <5>1
      <4> QED
        BY <4>1
    <3>4. G(h)[k] = G(f)[k]
      <4> HIDE DEF f
      <4> QED
        BY <3>2, <3>3
    <3> QED
      BY <3>1, <3>2, <3>4
  <2>2. CASE D = {}
    <3>1. h = [k \in 0..N |-> h[k]]
      BY <1>4
    <3>2. \A k \in 0..N : h[k] = f[k]
      BY <2>2
    <3> QED
      BY <3>1, <3>2
  <2> QED
    BY <2>1, <2>2
<1> HIDE DEF G, f
<1>5. Walk(m) = G(Walk(m))
  BY <1>1, <1>3
<1>6. Walk(m) = f
  BY <1>4, <1>5
<1> QED
  BY <1>6 DEF f, N

(* bget() finds a smallest free block that is large enough, if there is one. *)
LEMMA BestFits ==
  ASSUME NEW m, Typed(m), Chained(m, FreeOf(m)), NEW size \in Nat
  PROVE  \/ /\ Best(m, size) = freelist
            /\ \A c \in FreeOf(m) : m[c].bsize < size
         \/ /\ Best(m, size) \in FreeOf(m) /\ m[Best(m, size)].bsize >= size
            /\ \A c \in FreeOf(m) :
                 m[c].bsize >= size => m[Best(m, size)].bsize <= m[c].bsize
<1>0. PICK n \in Nat : \E s \in [0..n + 1 -> Int] :
                         Chain(m, n, s) /\ FreeOf(m) = {s[i] : i \in 1..n}
  BY DEF Chained
<1>1. PICK s \in [0..n + 1 -> Int] : Chain(m, n, s) /\ FreeOf(m) = {s[i] : i \in 1..n}
  BY <1>0
<1> DEFINE N == Cardinality(DOMAIN m)
           hop == Walk(m)
           fits == {k \in DOMAIN hop : hop[k] # freelist /\ m[hop[k]].bsize >= size}
           before(k, j) == \/ m[hop[k]].bsize < m[hop[j]].bsize
                           \/ m[hop[k]].bsize = m[hop[j]].bsize /\ k <= j
           first == CHOOSE k \in fits : \A j \in fits : before(k, j)
<1>2. Best(m, size) = IF fits = {} THEN freelist ELSE hop[first]
  BY DEF Best
<1>3. N \in Nat /\ n <= N /\ DOMAIN hop = 0..N
      /\ \A k \in 0..N : hop[k] = IF k < n THEN s[k + 1] ELSE freelist
  <2>1. N \in Nat /\ n <= N
    BY <1>1, ChainLength
  <2>2. hop = [k \in 0..N |-> IF k < n THEN s[k + 1] ELSE freelist]
    BY <1>1, WalkAlong
  <2> HIDE DEF hop, N
  <2> QED
    BY <2>1, <2>2
<1> HIDE DEF hop, N
<1>4. \A k \in fits : hop[k] \in FreeOf(m) /\ m[hop[k]].bsize \in Nat /\ k \in Nat
  <2> SUFFICES ASSUME NEW k \in fits
               PROVE  hop[k] \in FreeOf(m) /\ m[hop[k]].bsize \in Nat /\ k \in Nat
    OBVIOUS
  <2>1. k \in 0..N /\ k < n /\ hop[k] = s[k + 1] /\ k + 1 \in 1..n
    BY <1>3
  <2>2. hop[k] \in FreeOf(m)
    BY <1>1, <2>1
  <2> QED
    BY <1>3, <2>1, <2>2 DEF FreeOf, BlocksOf, Typed, HeaderType
<1>5. ASSUME NEW c \in FreeOf(m), m[c].bsize >= size
      PROVE  \E k \in fits : hop[k] = c
  <2>1. PICK i \in 1..n : c = s[i]
    BY <1>1
  <2>2. i - 1 \in 0..N /\ hop[i - 1] = c /\ c # freelist
    <3>1. i - 1 \in 0..N /\ i - 1 < n /\ (i - 1) + 1 = i
      BY <1>3
    <3> QED
      BY <1>1, <1>3, <2>1, <3>1 DEF Chain
  <2> QED
    BY <1>3, <1>5, <2>2
<1>6. CASE fits = {}
  <2>1. \A c \in FreeOf(m) : m[c].bsize \in Int
    BY DEF FreeOf, BlocksOf, Typed, HeaderType
  <2> HIDE DEF fits, first
  <2>2. Best(m, size) = freelist
    BY <1>2, <1>6
  <2>3. ASSUME NEW c \in FreeOf(m) PROVE m[c].bsize < size
    <3>1. ~(m[c].bsize >= size)
      BY <1>5, <1>6
    <3> QED
      BY <2>1, <3>1
  <2> QED
    BY <2>2, <2>3
<1>7. CASE fits # {}
  <2> DEFINE sizes == {m[hop[k]].bsize : k \in fits}
  <2> HIDE DEF fits
  <2>1. PICK v \in sizes : \A w \in sizes : v <= w
    BY <1>4, <1>7, LeastOne
  <2>2. v \in Nat /\ \A k \in fits : v <= m[hop[k]].bsize
    BY <1>4, <2>1
  <2> DEFINE least == {k \in fits : m[hop[k]].bsize = v}
  <2>3. PICK k \in least : \A j \in least : k <= j
    BY <1>4, <2>1, LeastOne
  <2>4. ASSUME NEW j \in fits PROVE before(k, j)
    BY <1>4, <2>2, <2>3
  <2>5. first \in fits /\ \A j \in fits : before(first, j)
    BY <2>3, <2>4
  <2> HIDE DEF first
  <2>6. \A j \in fits : m[hop[first]].bsize <= m[hop[j]].bsize
    BY <1>4, <2>5
  <2>7. m[hop[first]].bsize >= size
    BY <2>5 DEF fits
  <2> QED
    BY <1>2, <1>4, <1>5, <1>7, <2>5, <2>6, <2>7
<1> QED
  BY <1>6, <1>7

-----------------------------------------------------------------------------
(* Blocks that are divided and joined.                                     *)

(* Addresses and lengths of blocks are numbers. *)
LEMMA Lengths ==
  ASSUME NEW m, Typed(m)
  PROVE  /\ \A b \in BlocksOf(m) : b \in Int /\ b >= heapStart /\ b <= heapEnd
         /\ \A b \in BlocksOf(m) : LengthOf(m, b) \in Nat /\ Behind(m, b) = b + LengthOf(m, b)
         /\ \A b \in BlocksOf(m) : b \in DOMAIN m /\ b # freelist
         /\ heapStart \in Int /\ heapEnd \in Int
BY Bounds DEF LengthOf, Behind, BlocksOf, Typed, HeaderType

(* Only one block is in front of another. *)
LEMMA OneInFront ==
  ASSUME NEW m, Typed(m), Tiled(m),
         NEW a \in BlocksOf(m) \ {heapEnd}, NEW b \in BlocksOf(m) \ {heapEnd}
  PROVE  /\ Behind(m, a) = Behind(m, b) => a = b
         /\ b < Behind(m, b) /\ Behind(m, b) # heapStart /\ Behind(m, b) <= heapEnd
         /\ Behind(m, b) \in BlocksOf(m)
BY Lengths DEF Tiled

(* A block that is cut in two leaves a pool that is tiled. *)
LEMMA Divide ==
  ASSUME NEW m, NEW d, Typed(m), Tiled(m), Typed(d),
         NEW b \in BlocksOf(m) \ {heapEnd}, NEW a \in Int, a % 4 = 0,
         a - b >= 16, Behind(m, b) - a >= 16,
         BlocksOf(d) = BlocksOf(m) \cup {a},
         LengthOf(d, b) = a - b, LengthOf(d, a) = Behind(m, b) - a,
         \A c \in BlocksOf(m) \ {b, heapEnd} : LengthOf(d, c) = LengthOf(m, c)
  PROVE  /\ Tiled(d) /\ a \notin BlocksOf(m)
         /\ Behind(d, b) = a /\ Behind(d, a) = Behind(m, b)
         /\ \A c \in BlocksOf(m) \ {b, heapEnd} : Behind(d, c) = Behind(m, c)
<1>1. a \notin BlocksOf(m)
  BY Lengths DEF Tiled
<1>2. /\ Behind(d, b) = a /\ Behind(d, a) = Behind(m, b)
      /\ \A c \in BlocksOf(m) \ {b, heapEnd} : Behind(d, c) = Behind(m, c)
  BY Lengths DEF Behind
<1>3. heapStart \in BlocksOf(d) /\ heapEnd \in BlocksOf(d) /\ a # heapStart /\ a # heapEnd
  BY <1>1 DEF Tiled
<1>4. \A c \in BlocksOf(d) : c % 4 = 0
  BY DEF Tiled
<1>5. ASSUME NEW c \in BlocksOf(d) \ {heapEnd}
      PROVE  /\ LengthOf(d, c) >= 16 /\ Behind(d, c) \in BlocksOf(d)
             /\ \A e \in BlocksOf(d) : c < e => Behind(d, c) <= e
  <2>1. CASE c = b
    BY <1>2, <2>1, Lengths DEF Tiled
  <2>2. CASE c = a
    BY <1>2, <2>2, Lengths DEF Tiled
  <2>3. CASE c # b /\ c # a
    <3>1. c \in BlocksOf(m) /\ Behind(d, c) = Behind(m, c) /\ LengthOf(d, c) = LengthOf(m, c)
      BY <1>2, <2>3
    <3>2. c < a => Behind(m, c) <= a
      <4>1. CASE c < b
        <5>1. Behind(m, c) <= b
          BY <3>1, <4>1 DEF Tiled
        <5>2. Behind(m, c) \in Int /\ b \in Int /\ b < a
          BY <3>1, Lengths
        <5> QED
          BY <5>1, <5>2
      <4>2. CASE b < c
        <5>1. Behind(m, b) <= c
          BY <3>1, <4>2 DEF Tiled
        <5> QED
          BY <3>1, <5>1, Lengths
      <4> QED
        BY <2>3, <3>1, <4>1, <4>2, Lengths
    <3> QED
      BY <3>1, <3>2 DEF Tiled
  <2> QED
    BY <2>1, <2>2, <2>3
<1>6. ASSUME NEW c \in BlocksOf(d) \ {heapStart}
      PROVE  \E e \in BlocksOf(d) \ {heapEnd} : Behind(d, e) = c
  <2>1. CASE c = a
    BY <1>2, <2>1
  <2>2. CASE c # a
    <3>1. PICK e \in BlocksOf(m) \ {heapEnd} : Behind(m, e) = c
      BY <2>2 DEF Tiled
    <3>2. CASE e = b
      <4>1. Behind(d, a) = c /\ a \in BlocksOf(d) \ {heapEnd}
        BY <1>2, <1>3, <3>1, <3>2
      <4> QED
        BY <4>1
    <3>3. CASE e # b
      BY <1>2, <3>1, <3>3
    <3> QED
      BY <3>2, <3>3
  <2> QED
    BY <2>1, <2>2
<1> QED
  BY <1>1, <1>2, <1>3, <1>4, <1>5, <1>6 DEF Tiled

(* And so does a block that takes in the one behind it. *)
LEMMA Merge ==
  ASSUME NEW m, NEW d, Typed(m), Tiled(m), Typed(d),
         NEW b \in BlocksOf(m) \ {heapEnd}, Behind(m, b) # heapEnd,
         BlocksOf(d) = BlocksOf(m) \ {Behind(m, b)},
         LengthOf(d, b) = LengthOf(m, b) + LengthOf(m, Behind(m, b)),
         \A c \in BlocksOf(d) \ {b, heapEnd} : LengthOf(d, c) = LengthOf(m, c)
  PROVE  /\ Tiled(d) /\ b \in BlocksOf(d)
         /\ Behind(d, b) = Behind(m, Behind(m, b))
         /\ \A c \in BlocksOf(d) \ {b, heapEnd} : Behind(d, c) = Behind(m, c)
<1> DEFINE n == Behind(m, b)
<1>1. /\ n \in BlocksOf(m) \ {heapEnd} /\ b < n /\ n # heapStart /\ n < Behind(m, n)
      /\ n = b + LengthOf(m, b) /\ Behind(m, n) \in BlocksOf(m)
      /\ b \in BlocksOf(d) /\ LengthOf(m, b) >= 16 /\ LengthOf(m, n) >= 16
  BY OneInFront, Lengths DEF Tiled
<1>2. /\ Behind(d, b) = Behind(m, n)
      /\ \A c \in BlocksOf(d) \ {b, heapEnd} : Behind(d, c) = Behind(m, c)
  BY <1>1, Lengths DEF Behind
<1> HIDE DEF n
<1>3. heapStart \in BlocksOf(d) /\ heapEnd \in BlocksOf(d)
  BY <1>1 DEF Tiled, n
<1>4. \A c \in BlocksOf(d) : c % 4 = 0
  BY DEF Tiled
<1>5. ASSUME NEW c \in BlocksOf(d) \ {heapEnd}
      PROVE  /\ LengthOf(d, c) >= 16 /\ Behind(d, c) \in BlocksOf(d)
             /\ \A e \in BlocksOf(d) : c < e => Behind(d, c) <= e
  <2>1. CASE c = b
    <3>1. Behind(m, n) \in BlocksOf(d)
      <4>1. Behind(m, n) # n
        BY <1>1, Lengths
      <4> QED
        BY <1>1, <4>1 DEF n
    <3>2. ASSUME NEW e \in BlocksOf(d), b < e PROVE Behind(m, n) <= e
      <4>1. e \in BlocksOf(m) /\ e # n /\ n <= e
        BY <3>2 DEF Tiled, n
      <4>2. n < e
        BY <1>1, <4>1, Lengths
      <4> QED
        BY <1>1, <4>1, <4>2 DEF Tiled
    <3>3. LengthOf(d, b) >= 16
      BY <1>1, Lengths DEF n
    <3> QED
      BY <1>2, <2>1, <3>1, <3>2, <3>3
  <2>2. CASE c # b
    <3>1. c \in BlocksOf(m) /\ Behind(d, c) = Behind(m, c) /\ LengthOf(d, c) = LengthOf(m, c)
      BY <1>2, <2>2
    <3>2. Behind(m, c) # n
      BY <2>2, <3>1, OneInFront DEF n
    <3> QED
      BY <3>1, <3>2 DEF Tiled, n
  <2> QED
    BY <2>1, <2>2
<1>6. ASSUME NEW c \in BlocksOf(d) \ {heapStart}
      PROVE  \E e \in BlocksOf(d) \ {heapEnd} : Behind(d, e) = c
  <2>1. PICK e \in BlocksOf(m) \ {heapEnd} : Behind(m, e) = c
    BY DEF Tiled
  <2>2. CASE e = n
    BY <1>1, <1>2, <2>1, <2>2
  <2>3. CASE e # n /\ e # b
    BY <1>2, <2>1, <2>3 DEF n
  <2>4. CASE e = b
    BY <2>1, <2>4
  <2> QED
    BY <2>2, <2>3, <2>4
<1> QED
  BY <1>1, <1>2, <1>3, <1>4, <1>5, <1>6 DEF Tiled, n

(* Nothing but signs, tags and links has changed. *)
LEMMA SameBlocks ==
  ASSUME NEW m, NEW d, Typed(m), Tiled(m), Typed(d),
         BlocksOf(d) = BlocksOf(m),
         \A c \in BlocksOf(m) \ {heapEnd} : LengthOf(d, c) = LengthOf(m, c)
  PROVE  /\ Tiled(d)
         /\ \A c \in BlocksOf(m) \ {heapEnd} : Behind(d, c) = Behind(m, c)
<1>1. \A c \in BlocksOf(m) \ {heapEnd} : Behind(d, c) = Behind(m, c)
  BY DEF Behind
<1> QED
  BY <1>1 DEF Tiled

-----------------------------------------------------------------------------
(* bget().                                                                 *)

(* The buffers' blocks. *)
Held(m) == {b \in BlocksOf(m) \ {heapEnd} : m[b].bsize < 0}

(* The links of the list stay within it. *)
LEMMA ChainMembers ==
  ASSUME NEW m, NEW F, Typed(m), Chained(m, F)
  PROVE  /\ F \subseteq BlocksOf(m)
         /\ \A x \in F \cup {freelist} :
              /\ m[x].flink \in F \cup {freelist} /\ m[x].blink \in F \cup {freelist}
              /\ LinksMatch(m, x)
<1>0. PICK n \in Nat : \E s \in [0..n + 1 -> Int] : Chain(m, n, s) /\ F = {s[i] : i \in 1..n}
  BY DEF Chained
<1>1. PICK s \in [0..n + 1 -> Int] : Chain(m, n, s) /\ F = {s[i] : i \in 1..n}
  BY <1>0
<1>2. F \subseteq BlocksOf(m)
  BY <1>1 DEF Chain, BlocksOf
<1>3. \A i \in 0..n + 1 : s[i] \in F \cup {freelist}
  <2> SUFFICES ASSUME NEW i \in 0..n + 1 PROVE s[i] \in F \cup {freelist}
    OBVIOUS
  <2>1. i = 0 \/ i = n + 1 \/ i \in 1..n
    OBVIOUS
  <2> QED
    BY <1>1, <2>1 DEF Chain
<1>4. \A x \in F \cup {freelist} :
        /\ \E i \in 0..n : x = s[i] /\ m[x].flink = s[i + 1] /\ m[s[i + 1]].blink = x
        /\ \E i \in 0..n : x = s[i + 1] /\ m[x].blink = s[i] /\ m[s[i]].flink = x
  <2>1. \A i \in 0..n : m[s[i]].flink = s[i + 1] /\ m[s[i + 1]].blink = s[i]
    BY <1>1 DEF Chain
  <2>2. ASSUME NEW x \in F
        PROVE  \E i \in 0..n : i \in 1..n /\ x = s[i]
    BY <1>1
  <2>3. ASSUME NEW x \in F
        PROVE  \E i \in 0..n : x = s[i + 1]
    <3>1. PICK i \in 1..n : x = s[i]
      BY <1>1
    <3>2. i - 1 \in 0..n /\ (i - 1) + 1 = i
      OBVIOUS
    <3> QED
      BY <3>1, <3>2
  <2>4. 0 \in 0..n /\ n \in 0..n /\ freelist = s[0] /\ freelist = s[n + 1]
    BY <1>1 DEF Chain
  <2>5. ASSUME NEW x \in F \cup {freelist}
        PROVE  \E i \in 0..n : x = s[i] /\ m[x].flink = s[i + 1] /\ m[s[i + 1]].blink = x
    <3>1. \E i \in 0..n : x = s[i]
      BY <2>2, <2>4
    <3> QED
      BY <2>1, <3>1
  <2>6. ASSUME NEW x \in F \cup {freelist}
        PROVE  \E i \in 0..n : x = s[i + 1] /\ m[x].blink = s[i] /\ m[s[i]].flink = x
    <3>1. \E i \in 0..n : x = s[i + 1]
      BY <2>3, <2>4
    <3> QED
      BY <2>1, <3>1
  <2> QED
    BY <2>5, <2>6
<1>5. \A i \in 0..n : i \in 0..n + 1 /\ i + 1 \in 0..n + 1
  OBVIOUS
<1> QED
  BY <1>2, <1>3, <1>4, <1>5 DEF LinksMatch

(* The list is not touched by stores elsewhere. *)
LEMMA ChainKept ==
  ASSUME NEW m, NEW d, NEW F, Typed(m), Chained(m, F),
         \A x \in F \cup {freelist} :
           x \in DOMAIN d /\ d[x].flink = m[x].flink /\ d[x].blink = m[x].blink
  PROVE  Chained(d, F)
<1>0. PICK n \in Nat : \E s \in [0..n + 1 -> Int] : Chain(m, n, s) /\ F = {s[i] : i \in 1..n}
  BY DEF Chained
<1>1. PICK s \in [0..n + 1 -> Int] : Chain(m, n, s) /\ F = {s[i] : i \in 1..n}
  BY <1>0
<1>2. \A i \in 0..n + 1 : s[i] \in F \cup {freelist}
  <2> SUFFICES ASSUME NEW i \in 0..n + 1 PROVE s[i] \in F \cup {freelist}
    OBVIOUS
  <2>1. i = 0 \/ i = n + 1 \/ i \in 1..n
    OBVIOUS
  <2> QED
    BY <1>1, <2>1 DEF Chain
<1>3. \A i \in 0..n : i \in 0..n + 1 /\ i + 1 \in 0..n + 1
  OBVIOUS
<1>4. \A i \in 0..n : d[s[i]].flink = s[i + 1] /\ d[s[i + 1]].blink = s[i]
  BY <1>1, <1>2, <1>3 DEF Chain
<1>5. \A i \in 1..n : s[i] # freelist /\ s[i] \in DOMAIN d
  BY <1>1 DEF Chain
<1>6. Chain(d, n, s)
  BY <1>1, <1>4, <1>5 DEF Chain
<1> QED
  BY <1>1, <1>6 DEF Chained

(* The size of the block for a request that a bufsize can measure. *)
LEMMA SizeOf ==
  ASSUME NEW r \in Nat, r <= Half - 12
  PROVE  /\ SizeNeeded(r) \in Nat /\ SizeNeeded(r) % 4 = 0 /\ SizeNeeded(r) >= 16
         /\ SizeNeeded(r) >= r + 8
         /\ r >= 8 => SizeNeeded(r) <= r + 11
         /\ r < 8 => SizeNeeded(r) = 16
<1> DEFINE size == IF r < 8 THEN 8 ELSE r
           n == 4 * ((size + 3) \div 4) + 8
<1>1. SizeNeeded(r) = Bufsize(n)
  BY DEF SizeNeeded, SizeQ, SizeQuant, BhSize
<1>2. size \in Nat /\ size >= 8 /\ size >= r /\ size <= Half - 12
      /\ (r >= 8 => size = r) /\ (r < 8 => size = 8)
  BY WordFacts
<1> HIDE DEF size
<1>3. n \in Nat /\ n % 4 = 0 /\ n >= size + 8 /\ n <= size + 11
  BY <1>2
<1>4. size = 8 => n = 16
  OBVIOUS
<1> HIDE DEF n
<1>5. Bufsize(n) = n
  BY <1>2, <1>3, WordFacts DEF Bufsize
<1> QED
  BY <1>1, <1>2, <1>3, <1>4, <1>5

(* What a bufsize that measures its block is taken for. *)
LEMMA Measured ==
  ASSUME NEW r \in Nat, r <= Half - 12
  PROVE  Bufsize(r) = r
BY WordFacts DEF Bufsize

(* What holds of a block in the pool. *)
LEMMA BlockFacts ==
  ASSUME NEW m, Typed(m), Tiled(m), NEW b \in BlocksOf(m) \ {heapEnd}
  PROVE  /\ m[b].bsize > 0 \/ m[b].bsize < 0
         /\ b \in FreeOf(m) <=> m[b].bsize > 0
         /\ b \in Held(m) <=> m[b].bsize < 0
         /\ m[b].bsize > 0 => LengthOf(m, b) = m[b].bsize
         /\ m[b].bsize < 0 => LengthOf(m, b) = -m[b].bsize
         /\ m[b].bsize \in Int /\ LengthOf(m, b) >= 16
<1>1. m[b].bsize \in Int /\ LengthOf(m, b) >= 16
  BY Lengths DEF Typed, Tiled, HeaderType
<1> QED
  BY <1>1 DEF FreeOf, Held, LengthOf

(* Neither the sentinel nor the head of the list is free. *)
LEMMA FreeFacts ==
  ASSUME NEW m, Typed(m), Tiled(m), m[heapEnd].bsize = ESent
  PROVE  /\ FreeOf(m) \subseteq BlocksOf(m) \ {heapEnd} /\ freelist \notin FreeOf(m)
         /\ FreeOf(m) \cap Held(m) = {} /\ FreeOf(m) \cup Held(m) = BlocksOf(m) \ {heapEnd}
<1>1. FreeOf(m) \subseteq BlocksOf(m) \ {heapEnd} /\ freelist \notin FreeOf(m)
  BY Numbers DEF FreeOf, BlocksOf
<1>2. \A b \in BlocksOf(m) \ {heapEnd} :
        (b \in FreeOf(m) \/ b \in Held(m)) /\ ~(b \in FreeOf(m) /\ b \in Held(m))
  BY BlockFacts
<1> QED
  BY <1>1, <1>2 DEF Held

(* The end of a large block becomes the buffer. *)
LEMMA SplitPool ==
  ASSUME NEW m, PoolOk(m), NEW b \in FreeOf(m), NEW size \in Nat,
         size % 4 = 0, size >= 16, Splits(m, b, size),
         NEW a, a = b + m[b].bsize - size, NEW d, d = Split(m, b, size)
  PROVE  /\ PoolOk(d) /\ a \in Held(d) /\ a \notin Held(m) /\ Held(d) = Held(m) \cup {a}
         /\ LengthOf(d, a) = size /\ d[a].bsize = -size
         /\ \A c \in Held(m) : LengthOf(d, c) = LengthOf(m, c)
<1> DEFINE n == a + size
           m1 == [m EXCEPT ![b].bsize = m[b].bsize - size]
           m2 == [m1 EXCEPT ![n].prevfree = 0]
<1>1. /\ Typed(m) /\ Tiled(m) /\ Tagged(m) /\ Chained(m, FreeOf(m))
      /\ b \in BlocksOf(m) \ {heapEnd} /\ m[b].bsize > 0 /\ b \in Int /\ m[b].bsize \in Int
      /\ LengthOf(m, b) = m[b].bsize /\ m[b].bsize - size > 16
  BY FreeFacts, BlockFacts, Lengths, Numbers DEF PoolOk, Tagged, FreeOf, Splits
<1>2. /\ a \in Int /\ n = Behind(m, b) /\ a % 4 = 0 /\ a - b >= 16 /\ n - a >= 16
      /\ n \in BlocksOf(m) /\ n # heapStart
  <2>1. n = Behind(m, b)
    BY <1>1 DEF Behind
  <2>2. n \in BlocksOf(m) /\ n % 4 = 0 /\ n # heapStart
    BY <1>1, <2>1, OneInFront DEF Tiled
  <2>3. a \in Int /\ n \in Int /\ n = a + size
    BY <1>1
  <2> HIDE DEF n
  <2>4. a % 4 = 0
    BY <2>2, <2>3
  <2>5. a - b >= 16 /\ n - a >= 16
    BY <1>1, <2>3
  <2> QED
    BY <2>1, <2>2, <2>3, <2>4, <2>5
<1> HIDE DEF n
<1>3. DOMAIN m \subseteq Int /\ m \in [DOMAIN m -> HeaderType] /\ b \in DOMAIN m /\ n \in DOMAIN m
  BY <1>1, <1>2, Lengths, Numbers DEF Typed, BlocksOf
<1>4. /\ m1 \in [DOMAIN m -> HeaderType]
      /\ \A x \in DOMAIN m :
           /\ m1[x].prevfree = m[x].prevfree
           /\ m1[x].bsize = (IF x = b THEN m[b].bsize - size ELSE m[x].bsize)
           /\ m1[x].flink = m[x].flink /\ m1[x].blink = m[x].blink
  BY <1>1, <1>3, SetBsize
<1> HIDE DEF m1
<1>5. /\ m2 \in [DOMAIN m -> HeaderType]
      /\ \A x \in DOMAIN m :
           /\ m2[x].prevfree = (IF x = n THEN 0 ELSE m1[x].prevfree)
           /\ m2[x].bsize = m1[x].bsize
           /\ m2[x].flink = m1[x].flink /\ m2[x].blink = m1[x].blink
  <2>1. 0 \in Int
    OBVIOUS
  <2> DEFINE D == DOMAIN m
  <2>2. m1 \in [D -> HeaderType] /\ n \in D
    BY <1>3, <1>4
  <2> HIDE DEF D
  <2>3. /\ m2 \in [D -> HeaderType]
        /\ \A x \in D :
             /\ m2[x].prevfree = (IF x = n THEN 0 ELSE m1[x].prevfree)
             /\ m2[x].bsize = m1[x].bsize
             /\ m2[x].flink = m1[x].flink /\ m2[x].blink = m1[x].blink
    BY <2>1, <2>2, SetPrevfree
  <2> QED
    BY <2>3 DEF D
<1>6. d = [x \in DOMAIN m \cup {a} |->
             IF x = a THEN Header(m2[b].bsize, -size, Callers, Callers) ELSE m2[x]]
  <2> DEFINE z == b + m[b].bsize - size
             k == [m EXCEPT ![b].bsize = @ - size, ![z + size].prevfree = 0]
  <2>1. d = [x \in DOMAIN m \cup {z} |->
               IF x = z THEN Header(k[b].bsize, -size, Callers, Callers) ELSE k[x]]
    BY DEF Split
  <2>2. k = m2
    BY DEF m1, m2, n
  <2> HIDE DEF k
  <2> QED
    BY <2>1, <2>2
<1> HIDE DEF m2
<1>7. a \notin DOMAIN m
  <2>1. a \notin BlocksOf(m)
    BY <1>1, <1>2, Lengths DEF Tiled
  <2>2. a # freelist
    BY <1>1, <1>2, Numbers, Lengths, Bounds
  <2> QED
    BY <2>1, <2>2 DEF BlocksOf
<1>8. /\ d \in [DOMAIN m \cup {a} -> HeaderType]
      /\ d[a].prevfree = m[b].bsize - size /\ d[a].bsize = -size
      /\ d[a].flink = Callers /\ d[a].blink = Callers
      /\ \A x \in DOMAIN m :
           /\ d[x].prevfree = (IF x = n THEN 0 ELSE m[x].prevfree)
           /\ d[x].bsize = (IF x = b THEN m[b].bsize - size ELSE m[x].bsize)
           /\ d[x].flink = m[x].flink /\ d[x].blink = m[x].blink
  <2>1. /\ Header(m2[b].bsize, -size, Callers, Callers) \in HeaderType
        /\ m2[b].bsize = m[b].bsize - size
    BY <1>1, <1>3, <1>4, <1>5, Numbers DEF Header, HeaderType
  <2>2. d \in [DOMAIN m \cup {a} -> HeaderType]
    BY <1>5, <1>6, <2>1
  <2>3. d[a] = Header(m[b].bsize - size, -size, Callers, Callers)
    BY <1>6, <2>1
  <2>4. \A x \in DOMAIN m : d[x] = m2[x]
    BY <1>6, <1>7
  <2> QED
    BY <1>4, <1>5, <2>2, <2>3, <2>4 DEF Header
<1>9. Typed(d) /\ BlocksOf(d) = BlocksOf(m) \cup {a} /\ DOMAIN d = DOMAIN m \cup {a}
  <2>1. DOMAIN d = DOMAIN m \cup {a}
    BY <1>8
  <2>2. BlocksOf(d) = BlocksOf(m) \cup {a}
    BY <1>1, <1>2, <1>7, <2>1, Numbers, Bounds DEF BlocksOf, Typed
  <2>3. a \in heapStart..heapEnd
    BY <1>1, <1>2, Lengths
  <2>4. freelist \in DOMAIN m /\ freelist # n /\ freelist # b
    BY <1>1, <1>2 DEF Typed, BlocksOf
  <2> QED
    BY <1>1, <1>8, <2>1, <2>2, <2>3, <2>4 DEF Typed
<1>10. /\ LengthOf(d, b) = a - b /\ LengthOf(d, a) = size
       /\ \A c \in BlocksOf(m) \ {b} : LengthOf(d, c) = LengthOf(m, c)
  BY <1>1, <1>2, <1>3, <1>8 DEF LengthOf, BlocksOf
<1>11. /\ Tiled(d) /\ Behind(d, b) = a /\ Behind(d, a) = n
       /\ \A c \in BlocksOf(m) \ {b, heapEnd} : Behind(d, c) = Behind(m, c)
  <2>1. size = Behind(m, b) - a
    BY <1>1, <1>2 DEF n
  <2> QED
    BY <1>1, <1>2, <1>9, <1>10, <2>1, Divide
<1>12. Tagged(d)
  <2>1. d[heapStart].prevfree = 0 /\ d[heapEnd].bsize = ESent
    BY <1>1, <1>2, <1>8 DEF Tagged, TagRight, Tiled, BlocksOf
  <2>2. ASSUME NEW c \in BlocksOf(d) \ {heapEnd}
        PROVE  TagRight(d, c)
    <3>1. CASE c = b
      BY <1>1, <1>3, <1>8, <1>11, <3>1 DEF TagRight
    <3>2. CASE c = a
      BY <1>3, <1>8, <1>11, <3>2 DEF TagRight
    <3>3. CASE c # a /\ c # b
      <4>1. /\ c \in BlocksOf(m) \ {heapEnd} /\ Behind(d, c) = Behind(m, c) /\ c \in DOMAIN m
            /\ Behind(m, c) # n /\ Behind(m, c) \in DOMAIN m
        BY <1>1, <1>2, <1>9, <1>11, <3>3, OneInFront DEF BlocksOf
      <4>2. d[c].bsize = m[c].bsize /\ d[c].flink = m[c].flink /\ d[c].blink = m[c].blink
        BY <1>8, <3>3, <4>1
      <4>3. d[Behind(m, c)].prevfree = m[Behind(m, c)].prevfree
        BY <1>8, <4>1
      <4>4. m[Behind(m, c)].bsize < 0 => d[Behind(m, c)].bsize < 0
        BY <1>1, <1>8, <4>1
      <4> QED
        BY <1>1, <4>1, <4>2, <4>3, <4>4 DEF Tagged, TagRight
    <3> QED
      BY <3>1, <3>2, <3>3
  <2> QED
    BY <2>1, <2>2 DEF Tagged, TagRight
<1>13. FreeOf(d) = FreeOf(m) /\ Held(d) = Held(m) \cup {a} /\ a \notin Held(m)
  <2>1. d[b].bsize > 0 /\ ~(d[b].bsize < 0) /\ ~(m[b].bsize < 0) /\ d[a].bsize < 0 /\ ~(d[a].bsize > 0)
    BY <1>1, <1>3, <1>8
  <2>2. \A c \in BlocksOf(m) \ {b} : d[c].bsize = m[c].bsize
    BY <1>8 DEF BlocksOf
  <2>3. a # heapEnd /\ a \notin BlocksOf(m)
    BY <1>1, <1>7 DEF Tiled, BlocksOf
  <2> QED
    BY <1>1, <1>9, <2>1, <2>2, <2>3 DEF FreeOf, Held
<1>14. Chained(d, FreeOf(m))
  <2>1. \A x \in FreeOf(m) \cup {freelist} : x \in DOMAIN m
    BY <1>1 DEF FreeOf, BlocksOf, Typed
  <2> QED
    BY <1>1, <1>8, <1>9, <2>1, ChainKept
<1> QED
  BY <1>1, <1>8, <1>9, <1>10, <1>11, <1>12, <1>13, <1>14 DEF PoolOk, Held

(* A block without room for a remainder becomes the buffer. *)
LEMMA TakePool ==
  ASSUME NEW m, PoolOk(m), NEW b \in FreeOf(m), NEW d, d = TakeWhole(m, b)
  PROVE  /\ PoolOk(d) /\ b \in Held(d) /\ b \notin Held(m) /\ Held(d) = Held(m) \cup {b}
         /\ LengthOf(d, b) = m[b].bsize /\ d[b].bsize = -m[b].bsize
         /\ \A c \in Held(m) : LengthOf(d, c) = LengthOf(m, c)
<1> DEFINE D == DOMAIN m
           F == FreeOf(m) \ {b}
           n == b + m[b].bsize
           u == Unlink(m, b)
           u1 == [u EXCEPT ![b].bsize = -m[b].bsize]
           u2 == [u1 EXCEPT ![n].prevfree = 0]
<1>1. /\ Typed(m) /\ Tiled(m) /\ Tagged(m) /\ Chained(m, FreeOf(m))
      /\ b \in BlocksOf(m) \ {heapEnd} /\ m[b].bsize > 0 /\ b \in Int /\ m[b].bsize \in Int
      /\ LengthOf(m, b) = m[b].bsize /\ m \in [D -> HeaderType]
  BY FreeFacts, BlockFacts, Lengths, Numbers DEF PoolOk, Tagged, FreeOf, Typed
<1>2. /\ n = Behind(m, b) /\ n \in BlocksOf(m) /\ n # heapStart /\ n # b
      /\ b \in D /\ n \in D /\ freelist \in D /\ freelist # b /\ freelist # n
      /\ heapStart \in D /\ heapEnd \in D
  <2>1. n = Behind(m, b)
    BY <1>1 DEF Behind
  <2> HIDE DEF n
  <2>2. n \in BlocksOf(m) /\ n # heapStart /\ b < n
    BY <1>1, <2>1, OneInFront
  <2> QED
    BY <1>1, <2>1, <2>2 DEF BlocksOf, Typed, Tiled
<1>3. d = u2
  BY DEF TakeWhole
<1>4. /\ m[b].flink \in D \ {b} /\ m[b].blink \in D \ {b} /\ Chained(u, F)
  BY <1>1, UnlinkChains
<1>5. m[b].flink \in FreeOf(m) \cup {freelist} /\ m[b].blink \in FreeOf(m) \cup {freelist}
  BY <1>1, ChainMembers
<1>6. /\ u \in [D -> HeaderType]
      /\ \A x \in D :
           /\ u[x].prevfree = m[x].prevfree /\ u[x].bsize = m[x].bsize
           /\ x = b => u[x].flink = Callers /\ u[x].blink = Callers
           /\ x \notin FreeOf(m) \cup {freelist} =>
                u[x].flink = m[x].flink /\ u[x].blink = m[x].blink
  BY <1>1, <1>4, <1>5, UnlinkEffect
<1> HIDE DEF n, u, D, F
<1>7. /\ u1 \in [D -> HeaderType]
      /\ \A x \in D :
           /\ u1[x].prevfree = u[x].prevfree
           /\ u1[x].bsize = (IF x = b THEN -m[b].bsize ELSE u[x].bsize)
           /\ u1[x].flink = u[x].flink /\ u1[x].blink = u[x].blink
  <2>1. -m[b].bsize \in Int
    BY <1>1
  <2> QED
    BY <1>2, <1>6, <2>1, SetBsize
<1> HIDE DEF u1
<1>8. /\ d \in [D -> HeaderType]
      /\ \A x \in D :
           /\ d[x].prevfree = (IF x = n THEN 0 ELSE u1[x].prevfree)
           /\ d[x].bsize = u1[x].bsize
           /\ d[x].flink = u1[x].flink /\ d[x].blink = u1[x].blink
  <2>1. 0 \in Int
    OBVIOUS
  <2>2. /\ u2 \in [D -> HeaderType]
        /\ \A x \in D :
             /\ u2[x].prevfree = (IF x = n THEN 0 ELSE u1[x].prevfree)
             /\ u2[x].bsize = u1[x].bsize
             /\ u2[x].flink = u1[x].flink /\ u2[x].blink = u1[x].blink
    <3>1. u1 \in [D -> HeaderType] /\ n \in D
      BY <1>2, <1>7
    <3>2. ASSUME NEW e, NEW v \in [e -> HeaderType], NEW w \in e
          PROVE  LET y == [v EXCEPT ![w].prevfree = 0]
                 IN  /\ y \in [e -> HeaderType]
                     /\ \A x \in e :
                          /\ y[x].prevfree = (IF x = w THEN 0 ELSE v[x].prevfree)
                          /\ y[x].bsize = v[x].bsize
                          /\ y[x].flink = v[x].flink /\ y[x].blink = v[x].blink
      BY <2>1, SetPrevfree
    <3> QED
      BY <3>1, <3>2
  <2> QED
    BY <1>3, <2>2
<1>9. \A x \in D :
        /\ d[x].prevfree = (IF x = n THEN 0 ELSE m[x].prevfree)
        /\ d[x].bsize = (IF x = b THEN -m[b].bsize ELSE m[x].bsize)
        /\ d[x].flink = u[x].flink /\ d[x].blink = u[x].blink
  BY <1>6, <1>7, <1>8
<1>10. Typed(d) /\ BlocksOf(d) = BlocksOf(m) /\ DOMAIN d = D
  <2>1. DOMAIN d = D /\ BlocksOf(d) = BlocksOf(m)
    BY <1>8 DEF BlocksOf, D
  <2> QED
    BY <1>1, <1>2, <1>8, <1>9, <2>1 DEF Typed
<1>11. \A c \in BlocksOf(m) : LengthOf(d, c) = LengthOf(m, c) /\ c \in D
  <2> SUFFICES ASSUME NEW c \in BlocksOf(m) PROVE LengthOf(d, c) = LengthOf(m, c) /\ c \in D
    OBVIOUS
  <2>1. c \in D
    BY DEF D, BlocksOf
  <2> QED
    BY <1>1, <1>9, <2>1 DEF LengthOf
<1>12. /\ Tiled(d)
       /\ \A c \in BlocksOf(m) \ {heapEnd} : Behind(d, c) = Behind(m, c)
  BY <1>1, <1>10, <1>11, SameBlocks
<1>13. Tagged(d)
  <2>1. d[heapStart].prevfree = 0 /\ d[heapEnd].bsize = ESent
    BY <1>1, <1>2, <1>9 DEF Tagged, TagRight
  <2>2. ASSUME NEW c \in BlocksOf(d) \ {heapEnd}
        PROVE  TagRight(d, c)
    <3>1. CASE c = b
      BY <1>1, <1>2, <1>6, <1>9, <1>12, <3>1 DEF TagRight
    <3>2. CASE c # b
      <4>1. /\ c \in BlocksOf(m) \ {heapEnd} /\ Behind(d, c) = Behind(m, c) /\ c \in D
            /\ Behind(m, c) # n /\ Behind(m, c) \in D
        BY <1>1, <1>2, <1>10, <1>11, <1>12, <3>2, OneInFront
      <4>2. d[c].bsize = m[c].bsize
        BY <1>9, <3>2, <4>1
      <4>3. d[Behind(m, c)].prevfree = m[Behind(m, c)].prevfree
        BY <1>9, <4>1
      <4>4. m[Behind(m, c)].bsize < 0 => d[Behind(m, c)].bsize < 0
        BY <1>1, <1>9, <4>1
      <4>5. ~(m[c].bsize > 0) => d[c].flink = m[c].flink /\ d[c].blink = m[c].blink
        <5>1. ~(m[c].bsize > 0) => c \notin FreeOf(m) \cup {freelist}
          BY <1>1, <4>1 DEF FreeOf, BlocksOf
        <5> QED
          BY <1>6, <1>9, <4>1, <5>1
      <4> QED
        BY <1>1, <4>1, <4>2, <4>3, <4>4, <4>5 DEF Tagged, TagRight
    <3> QED
      BY <3>1, <3>2
  <2> QED
    BY <2>1, <2>2 DEF Tagged, TagRight
<1>14. FreeOf(d) = F /\ Held(d) = Held(m) \cup {b} /\ b \notin Held(m)
  <2>1. ~(d[b].bsize > 0) /\ d[b].bsize < 0 /\ ~(m[b].bsize < 0)
    BY <1>1, <1>2, <1>9
  <2>2. \A c \in BlocksOf(m) \ {b} : d[c].bsize = m[c].bsize
    BY <1>9, <1>11
  <2> QED
    BY <1>1, <1>10, <2>1, <2>2 DEF FreeOf, Held, F
<1>15. Chained(d, F)
  <2>1. Typed(u)
    <3>1. DOMAIN u = D
      BY <1>6
    <3>2. BlocksOf(u) = BlocksOf(m)
      BY <3>1 DEF D, BlocksOf
    <3> QED
      BY <1>1, <1>2, <1>6, <3>1, <3>2 DEF Typed
  <2>2. \A x \in F \cup {freelist} : x \in D
    BY <1>1, <1>2 DEF F, FreeOf, BlocksOf, D
  <2> QED
    BY <1>4, <1>9, <1>10, <2>1, <2>2, ChainKept
<1>16. LengthOf(d, b) = m[b].bsize /\ d[b].bsize = -m[b].bsize
  BY <1>1, <1>2, <1>9, <1>11
<1> QED
  BY <1>10, <1>11, <1>12, <1>13, <1>14, <1>15, <1>16 DEF PoolOk, Held

(***************************************************************************)
(* What bget() does to a pool that is in order: it finds nothing large     *)
(* enough, or the buffer is a new block of the size, or little more, and   *)
(* no other buffer is disturbed; and its assertions hold.                  *)
(***************************************************************************)
LEMMA BgetPool ==
  ASSUME NEW m, PoolOk(m), NEW r \in Nat, r >= 1, r <= Half - 12,
         NEW got, got = bget(m, r), NEW h, h = got.buf - BhSize
  PROVE  /\ Answers(m, r) /\ bgetzAsserts(m, r)
         /\ got.buf = NULL =>
              got.mem = m /\ \A c \in FreeOf(m) : m[c].bsize < SizeNeeded(r)
         /\ got.buf # NULL =>
              /\ PoolOk(got.mem) /\ h \notin Held(m) /\ Held(got.mem) = Held(m) \cup {h}
              /\ got.buf = h + BhSize
              /\ LengthOf(got.mem, h) >= SizeNeeded(r)
              /\ LengthOf(got.mem, h) <= SizeNeeded(r) + 16
              /\ \A c \in Held(m) : LengthOf(got.mem, c) = LengthOf(m, c)
<1> DEFINE size == SizeNeeded(r)
           b == Best(m, size)
           a == b + m[b].bsize - size
<1>1. size \in Nat /\ size % 4 = 0 /\ size >= 16 /\ size >= r + 8
  BY SizeOf
<1>2. Typed(m) /\ Tiled(m) /\ Tagged(m) /\ Chained(m, FreeOf(m))
  BY DEF PoolOk
<1>3. \/ b = freelist /\ \A c \in FreeOf(m) : m[c].bsize < size
      \/ b \in FreeOf(m) /\ m[b].bsize >= size
  BY <1>1, <1>2, BestFits
<1>4. got = IF b = freelist THEN [buf |-> NULL, mem |-> m]
            ELSE IF Splits(m, b, size) THEN [buf |-> a + BhSize, mem |-> Split(m, b, size)]
            ELSE [buf |-> b + BhSize, mem |-> TakeWhole(m, b)]
  BY DEF bget
<1>5. Answers(m, r) <=>
        (b # freelist => /\ m[b + m[b].bsize].prevfree = m[b].bsize
                         /\ Splits(m, b, size) \/ LinksMatch(m, b))
  <2>1. bgetAsserts(m, r) <=>
          /\ r > 0
          /\ b # freelist => /\ m[b + m[b].bsize].prevfree = m[b].bsize
                             /\ Splits(m, b, size) \/ LinksMatch(m, b)
    BY DEF bgetAsserts
  <2>2. ~Wild(m, r)
    BY <1>1 DEF Wild
  <2> HIDE DEF size, b
  <2>3. r > 0
    OBVIOUS
  <2> QED
    BY <2>1, <2>2, <2>3 DEF Answers
<1>6. bgetzAsserts(m, r) <=> (got.buf # NULL => -got.mem[h].bsize - BhSize >= r)
  BY DEF bgetzAsserts
<1> HIDE DEF size, b
<1>7. CASE b = freelist
  BY <1>3, <1>4, <1>5, <1>6, <1>7, FreeFacts, <1>2 DEF Tagged, size
<1>8. CASE b # freelist
  <2>1. /\ b \in FreeOf(m) /\ b \in BlocksOf(m) \ {heapEnd} /\ m[b].bsize >= size
        /\ b \in Int /\ b >= heapStart /\ m[b].bsize \in Int /\ LengthOf(m, b) = m[b].bsize
    BY <1>2, <1>3, <1>8, FreeFacts, BlockFacts, Lengths DEF Tagged
  <2>2. m[b + m[b].bsize].prevfree = m[b].bsize
    BY <1>1, <1>2, <2>1 DEF Tagged, TagRight, Behind
  <2>3. LinksMatch(m, b)
    BY <1>2, <2>1, UnlinkChains
  <2>4. CASE Splits(m, b, size)
    <3>1. got.buf = a + BhSize /\ got.mem = Split(m, b, size) /\ h = a /\ a \in Int
          /\ a >= heapStart
      BY <1>1, <1>4, <1>8, <2>1, <2>4, Numbers, Bounds
    <3>2. /\ PoolOk(got.mem) /\ a \in Held(got.mem) /\ a \notin Held(m)
          /\ Held(got.mem) = Held(m) \cup {a}
          /\ LengthOf(got.mem, a) = size /\ got.mem[a].bsize = -size
          /\ \A c \in Held(m) : LengthOf(got.mem, c) = LengthOf(m, c)
      BY <1>1, <2>1, <2>4, <3>1, SplitPool
    <3> QED
      BY <1>1, <1>5, <1>6, <2>2, <2>4, <3>1, <3>2, Numbers, Bounds DEF size
  <2>5. CASE ~Splits(m, b, size)
    <3>1. got.buf = b + BhSize /\ got.mem = TakeWhole(m, b) /\ h = b
      BY <1>4, <1>8, <2>1, <2>5, Numbers, Bounds
    <3>2. /\ PoolOk(got.mem) /\ b \in Held(got.mem) /\ b \notin Held(m)
          /\ Held(got.mem) = Held(m) \cup {b}
          /\ LengthOf(got.mem, b) = m[b].bsize /\ got.mem[b].bsize = -m[b].bsize
          /\ \A c \in Held(m) : LengthOf(got.mem, c) = LengthOf(m, c)
      BY <2>1, <3>1, TakePool
    <3>3. m[b].bsize <= size + 16
      BY <1>1, <2>1, <2>5 DEF Splits, SizeQ, BhSize
    <3> QED
      BY <1>1, <1>5, <1>6, <2>1, <2>2, <2>3, <3>1, <3>2, <3>3, Numbers, Bounds DEF size
  <2> QED
    BY <2>4, <2>5
<1> QED
  BY <1>7, <1>8

-----------------------------------------------------------------------------
(* brel().                                                                 *)

(***************************************************************************)
(* The pool while brel() is at work: the block f is free, and the block    *)
(* behind it may be free as well and does not know f.                      *)
(***************************************************************************)
Loose(m, f) ==
  /\ Typed(m) /\ Tiled(m) /\ Chained(m, FreeOf(m))
  /\ f \in FreeOf(m) /\ m[heapStart].prevfree = 0 /\ m[heapEnd].bsize = ESent
  /\ \A b \in BlocksOf(m) \ {heapEnd, f} : TagRight(m, b)

(* A block that has taken in another one. *)
LEMMA JoinedEffect ==
  ASSUME NEW D, NEW m \in [D -> HeaderType], NEW b \in D, NEW n \in D, n # b
  PROVE  LET d == Joined(m, b, n)
         IN  /\ \A x : x \in DOMAIN d <=> x \in D /\ x # n
             /\ d \in [DOMAIN d -> HeaderType]
             /\ \A x \in DOMAIN d :
                  /\ d[x].prevfree = m[x].prevfree
                  /\ d[x].bsize = (IF x = b THEN m[b].bsize + m[n].bsize ELSE m[x].bsize)
                  /\ d[x].flink = m[x].flink /\ d[x].blink = m[x].blink
<1> DEFINE d == Joined(m, b, n)
           v == m[b].bsize + m[n].bsize
           k == [m EXCEPT ![b].bsize = v]
<1>1. d = [x \in D \ {n} |-> k[x]]
  <2> DEFINE z == [m EXCEPT ![b].bsize = @ + m[n].bsize]
  <2>1. z = k
    OBVIOUS
  <2>2. d = Restrict(z, DOMAIN m \ {n}) /\ DOMAIN m = D
    BY DEF Joined
  <2> HIDE DEF z, k, d
  <2> QED
    BY <2>1, <2>2 DEF Restrict
<1>2. v \in Int
  BY DEF HeaderType
<1> HIDE DEF v, d
<1>3. /\ k \in [D -> HeaderType]
      /\ \A x \in D :
           /\ k[x].prevfree = m[x].prevfree
           /\ k[x].bsize = (IF x = b THEN v ELSE m[x].bsize)
           /\ k[x].flink = m[x].flink /\ k[x].blink = m[x].blink
  BY <1>2, SetBsize
<1> HIDE DEF k
<1>4. /\ \A x : x \in DOMAIN d <=> x \in D /\ x # n
      /\ \A x \in DOMAIN d : d[x] = k[x]
      /\ d \in [DOMAIN d -> HeaderType]
  BY <1>1, <1>3
<1>5. \A x \in DOMAIN d :
        /\ d[x].prevfree = m[x].prevfree
        /\ d[x].bsize = (IF x = b THEN v ELSE m[x].bsize)
        /\ d[x].flink = m[x].flink /\ d[x].blink = m[x].blink
  BY <1>3, <1>4
<1> QED
  BY <1>4, <1>5 DEF v, d

(* A free block takes in the block behind it. *)
LEMMA JoinFront ==
  ASSUME NEW m, Typed(m), Tiled(m), m[heapEnd].bsize = ESent, m[heapStart].prevfree = 0,
         NEW a \in BlocksOf(m) \ {heapEnd}, NEW b \in BlocksOf(m) \ {heapEnd}, b = Behind(m, a),
         m[a].bsize > 0,
         NEW d, d \in [DOMAIN d -> HeaderType],
         \A x : x \in DOMAIN d <=> x \in DOMAIN m /\ x # b,
         \A x \in DOMAIN d :
           /\ d[x].prevfree = m[x].prevfree
           /\ d[x].bsize = (IF x = a THEN LengthOf(m, a) + LengthOf(m, b) ELSE m[x].bsize)
  PROVE  /\ Typed(d) /\ Tiled(d) /\ a \in FreeOf(d)
         /\ d[heapEnd].bsize = ESent /\ d[heapStart].prevfree = 0
         /\ BlocksOf(d) = BlocksOf(m) \ {b}
         /\ FreeOf(d) = FreeOf(m) \ {b} /\ Held(d) = Held(m) \ {b}
         /\ Behind(d, a) = Behind(m, b)
         /\ \A c \in BlocksOf(d) \ {a, heapEnd} : Behind(d, c) = Behind(m, c)
         /\ \A c \in Held(d) : LengthOf(d, c) = LengthOf(m, c)
<1>1. /\ a \in Int /\ b \in Int /\ a < b /\ b # heapStart /\ m[a].bsize \in Int
      /\ LengthOf(m, a) = m[a].bsize /\ LengthOf(m, a) >= 16 /\ LengthOf(m, b) >= 16
      /\ a \in DOMAIN d /\ heapStart \in DOMAIN d /\ heapEnd \in DOMAIN d
      /\ heapStart \in BlocksOf(d) /\ heapEnd \in BlocksOf(d)
  <2>1. b # heapStart /\ a < b
    BY OneInFront
  <2>2. a \in Int /\ b \in Int /\ LengthOf(m, a) >= 16 /\ LengthOf(m, b) >= 16
        /\ LengthOf(m, a) = m[a].bsize /\ m[a].bsize \in Int
    BY BlockFacts, Lengths
  <2>3. a \in DOMAIN d /\ heapStart \in DOMAIN d /\ heapEnd \in DOMAIN d
        /\ heapStart # freelist /\ heapEnd # freelist
    BY <2>1, <2>2 DEF Tiled, BlocksOf
  <2> QED
    BY <2>1, <2>2, <2>3 DEF BlocksOf
<1>2. BlocksOf(d) = BlocksOf(m) \ {b} /\ \A c \in BlocksOf(d) : c \in DOMAIN d /\ c \in BlocksOf(m)
  BY DEF BlocksOf
<1>3. Typed(d)
  <2>1. freelist \in DOMAIN d /\ freelist # a
    BY <1>1 DEF Typed, BlocksOf
  <2> QED
    BY <1>2, <2>1 DEF Typed
<1>4. \A c \in BlocksOf(d) \ {a} : LengthOf(d, c) = LengthOf(m, c) /\ d[c].bsize = m[c].bsize
  BY <1>2 DEF LengthOf
<1>5. LengthOf(d, a) = LengthOf(m, a) + LengthOf(m, b) /\ d[a].bsize > 0 /\ ~(d[a].bsize < 0)
  <2>1. LengthOf(m, b) \in Int /\ LengthOf(m, a) \in Int
    BY Lengths
  <2> QED
    BY <1>1, <2>1 DEF LengthOf
<1>6. /\ Tiled(d) /\ a \in BlocksOf(d)
      /\ Behind(d, a) = Behind(m, b)
      /\ \A c \in BlocksOf(d) \ {a, heapEnd} : Behind(d, c) = Behind(m, c)
  BY <1>2, <1>3, <1>4, <1>5, Merge
<1>7. FreeOf(d) = FreeOf(m) \ {b} /\ Held(d) = Held(m) \ {b} /\ a \in FreeOf(d)
  <2>1. ~(m[a].bsize < 0)
    BY <1>1
  <2> QED
    BY <1>2, <1>4, <1>5, <1>6, <2>1 DEF FreeOf, Held
<1>8. d[heapEnd].bsize = ESent /\ d[heapStart].prevfree = 0
  BY <1>1
<1>9. \A c \in Held(d) : LengthOf(d, c) = LengthOf(m, c)
  BY <1>4, <1>5 DEF Held
<1> QED
  BY <1>2, <1>3, <1>6, <1>7, <1>8, <1>9

(* The block in front, when the tag of a block says that it is free. *)
LEMMA InFront ==
  ASSUME NEW m, PoolOk(m), NEW b \in BlocksOf(m), NEW a, a = b - m[b].prevfree
  PROVE  /\ m[b].prevfree # 0 =>
              /\ a \in BlocksOf(m) \ {heapEnd} /\ Behind(m, a) = b
              /\ m[a].bsize = m[b].prevfree /\ m[a].bsize > 0
         /\ m[b].prevfree = 0 =>
              \A c \in BlocksOf(m) \ {heapEnd} : Behind(m, c) = b => ~(m[c].bsize > 0)
<1>1. Typed(m) /\ Tiled(m) /\ Tagged(m)
  BY DEF PoolOk
<1>2. CASE m[b].prevfree # 0
  <2>1. b # heapStart
    BY <1>1, <1>2 DEF Tagged
  <2>2. PICK c \in BlocksOf(m) \ {heapEnd} : Behind(m, c) = b
    BY <1>1, <2>1 DEF Tiled
  <2>3. m[c].bsize > 0 /\ m[b].prevfree = m[c].bsize
    BY <1>1, <1>2, <2>2 DEF Tagged, TagRight
  <2>4. b = c + m[c].bsize /\ c \in Int /\ m[c].bsize \in Int
    BY <1>1, <2>2, <2>3, BlockFacts, Lengths
  <2>5. a = c
    BY <2>3, <2>4
  <2> QED
    BY <1>2, <2>2, <2>3, <2>5
<1>3. CASE m[b].prevfree = 0
  <2>1. ASSUME NEW c \in BlocksOf(m) \ {heapEnd}, Behind(m, c) = b, m[c].bsize > 0 PROVE FALSE
    BY <1>1, <1>3, <2>1 DEF Tagged, TagRight
  <2> QED
    BY <1>3, <2>1
<1> QED
  BY <1>2, <1>3

(***************************************************************************)
(* The first half of brel(): the released block has joined the free block  *)
(* in front of it, or has entered the free list.                           *)
(***************************************************************************)
LEMMA JoinPreviousPool ==
  ASSUME NEW m, PoolOk(m), NEW b \in Held(m)
  PROVE  LET d == JoinPrevious(m, b)
             f == Freed(m, b)
         IN  /\ Loose(d, f) /\ Held(d) = Held(m) \ {b}
             /\ \A c \in Held(d) : LengthOf(d, c) = LengthOf(m, c)
<1> DEFINE d == JoinPrevious(m, b)
           f == Freed(m, b)
           D == DOMAIN m
           k == [m EXCEPT ![b].bsize = -m[b].bsize]
<1>1. /\ Typed(m) /\ Tiled(m) /\ Tagged(m) /\ Chained(m, FreeOf(m))
      /\ b \in BlocksOf(m) \ {heapEnd} /\ m[b].bsize < 0 /\ m[b].bsize \in Int
      /\ LengthOf(m, b) = -m[b].bsize /\ m \in [D -> HeaderType] /\ b \in D
      /\ b \notin FreeOf(m) /\ b # freelist
  BY BlockFacts, FreeFacts, Lengths DEF PoolOk, Typed, Held, Tagged
<1>2. k = [m EXCEPT ![b].bsize = -@]
  OBVIOUS
<1>3. d = IF m[b].prevfree # 0 THEN Joined(k, f, b) ELSE Link(k, b)
  <2>1. d = IF m[b].prevfree # 0
              THEN Joined([m EXCEPT ![b].bsize = -@], b - m[b].prevfree, b)
              ELSE Link([m EXCEPT ![b].bsize = -@], b)
    BY DEF JoinPrevious
  <2>2. m[b].prevfree # 0 => f = b - m[b].prevfree
    BY DEF Freed
  <2> HIDE DEF k
  <2> QED
    BY <1>2, <2>1, <2>2
<1> HIDE DEF D, d, f
<1>4. /\ k \in [D -> HeaderType]
      /\ \A x \in D :
           /\ k[x].prevfree = m[x].prevfree
           /\ k[x].bsize = (IF x = b THEN -m[b].bsize ELSE m[x].bsize)
           /\ k[x].flink = m[x].flink /\ k[x].blink = m[x].blink
  <2>1. -m[b].bsize \in Int
    BY <1>1
  <2> QED
    BY <1>1, <2>1, SetBsize
<1> HIDE DEF k
<1>5. DOMAIN k = D
  BY <1>4
<1>6. \A c \in BlocksOf(m) : c \in D
  BY DEF BlocksOf, D
<1>7. CASE m[b].prevfree # 0
  <2>1. /\ f \in BlocksOf(m) \ {heapEnd} /\ Behind(m, f) = b
        /\ m[f].bsize = m[b].prevfree /\ m[f].bsize > 0 /\ f \in D
    BY <1>1, <1>6, <1>7, InFront DEF Freed, f
  <2>2. f # b /\ LengthOf(m, f) = m[f].bsize
    BY <1>1, <2>1, BlockFacts
  <2>3. /\ \A x : x \in DOMAIN d <=> x \in D /\ x # b
        /\ d \in [DOMAIN d -> HeaderType]
        /\ \A x \in DOMAIN d :
             /\ d[x].prevfree = k[x].prevfree
             /\ d[x].bsize = (IF x = f THEN k[f].bsize + k[b].bsize ELSE k[x].bsize)
             /\ d[x].flink = k[x].flink /\ d[x].blink = k[x].blink
    <3>1. d = Joined(k, f, b)
      BY <1>3, <1>7
    <3>2. k \in [D -> HeaderType] /\ f \in D /\ b \in D /\ b # f
      BY <1>1, <1>4, <2>1, <2>2
    <3> QED
      BY <3>1, <3>2, JoinedEffect
  <2>4. \A x \in DOMAIN d :
          /\ d[x].prevfree = m[x].prevfree
          /\ d[x].bsize = (IF x = f THEN LengthOf(m, f) + LengthOf(m, b) ELSE m[x].bsize)
          /\ d[x].flink = m[x].flink /\ d[x].blink = m[x].blink
    BY <1>1, <1>4, <2>1, <2>2, <2>3
  <2>5. /\ Typed(d) /\ Tiled(d) /\ f \in FreeOf(d)
        /\ d[heapEnd].bsize = ESent /\ d[heapStart].prevfree = 0
        /\ BlocksOf(d) = BlocksOf(m) \ {b}
        /\ FreeOf(d) = FreeOf(m) \ {b} /\ Held(d) = Held(m) \ {b}
        /\ \A c \in BlocksOf(d) \ {f, heapEnd} : Behind(d, c) = Behind(m, c)
        /\ \A c \in Held(d) : LengthOf(d, c) = LengthOf(m, c)
    <3>1. /\ m[heapEnd].bsize = ESent /\ m[heapStart].prevfree = 0
          /\ \A x : x \in DOMAIN d <=> x \in DOMAIN m /\ x # b
      BY <1>1, <2>3 DEF D, Tagged
    <3> QED
      BY <1>1, <2>1, <2>3, <2>4, <3>1, JoinFront
  <2>6. Chained(d, FreeOf(d))
    <3>1. FreeOf(d) = FreeOf(m)
      BY <1>1, <2>5
    <3>2. \A x \in FreeOf(m) \cup {freelist} : x \in DOMAIN d
      BY <1>1, <1>6, <2>3 DEF FreeOf, Typed, D
    <3> QED
      BY <1>1, <2>4, <3>1, <3>2, ChainKept
  <2>7. ASSUME NEW c \in BlocksOf(d) \ {heapEnd, f} PROVE TagRight(d, c)
    <3>1. /\ c \in BlocksOf(m) \ {heapEnd} /\ c # b /\ c \in D /\ TagRight(m, c)
          /\ Behind(d, c) = Behind(m, c) /\ Behind(m, c) \in D
      BY <1>1, <1>6, <2>5, OneInFront DEF Tagged
    <3>2. Behind(m, c) # b
      BY <1>1, <2>1, <3>1, OneInFront
    <3>3. /\ d[c].bsize = m[c].bsize /\ d[c].flink = m[c].flink /\ d[c].blink = m[c].blink
          /\ d[Behind(m, c)].prevfree = m[Behind(m, c)].prevfree
      BY <2>3, <2>4, <3>1, <3>2
    <3>4. m[Behind(m, c)].bsize < 0 => d[Behind(m, c)].bsize < 0
      <4>1. CASE Behind(m, c) = f
        BY <1>1, <2>1, <2>2, <4>1, BlockFacts
      <4>2. CASE Behind(m, c) # f
        BY <2>3, <2>4, <3>1, <3>2, <4>2
      <4> QED
        BY <4>1, <4>2
    <3> QED
      BY <3>1, <3>3, <3>4 DEF TagRight
  <2> QED
    BY <2>5, <2>6, <2>7 DEF Loose, d, f
<1>8. CASE m[b].prevfree = 0
  <2>1. f = b /\ d = Link(k, b)
    BY <1>3, <1>8 DEF Freed, f
  <2>2. BlocksOf(k) = BlocksOf(m) /\ DOMAIN k = DOMAIN m
    BY <1>5 DEF BlocksOf, D
  <2>3. Typed(k)
    <3>1. freelist \in D
      BY <1>1 DEF Typed, D
    <3> QED
      BY <1>1, <1>4, <1>5, <2>2, <3>1 DEF Typed
  <2>4. Chained(k, FreeOf(m))
    <3>1. \A x \in FreeOf(m) \cup {freelist} : x \in DOMAIN k
      BY <1>1, <1>5, <1>6 DEF FreeOf, Typed, D
    <3> QED
      BY <1>1, <1>4, <1>5, <3>1, ChainKept
  <2>5. k[freelist].blink \in DOMAIN k \ {b} /\ Chained(d, FreeOf(m) \cup {b})
    BY <1>1, <2>1, <2>2, <2>3, <2>4, LinkChains
  <2>6. k[freelist].blink \in FreeOf(m) \cup {freelist}
    BY <2>3, <2>4, ChainMembers
  <2>7. /\ d \in [D -> HeaderType]
        /\ \A x \in D :
             /\ d[x].prevfree = m[x].prevfree
             /\ d[x].bsize = (IF x = b THEN -m[b].bsize ELSE m[x].bsize)
             /\ x \notin FreeOf(m) \cup {b, freelist} =>
                  d[x].flink = m[x].flink /\ d[x].blink = m[x].blink
    BY <1>1, <1>4, <1>5, <2>1, <2>2, <2>3, <2>5, <2>6, LinkEffect
  <2>8. DOMAIN d = D /\ BlocksOf(d) = BlocksOf(m)
    BY <2>7 DEF BlocksOf, D
  <2>9. Typed(d)
    <3>1. freelist \in D
      BY <1>1 DEF Typed, D
    <3> QED
      BY <1>1, <2>7, <2>8, <3>1 DEF Typed
  <2>10. \A c \in BlocksOf(m) : LengthOf(d, c) = LengthOf(m, c)
    BY <1>1, <1>6, <2>7 DEF LengthOf
  <2>11. Tiled(d) /\ \A c \in BlocksOf(m) \ {heapEnd} : Behind(d, c) = Behind(m, c)
    BY <1>1, <2>8, <2>9, <2>10, SameBlocks
  <2>12. FreeOf(d) = FreeOf(m) \cup {b} /\ Held(d) = Held(m) \ {b}
    <3>1. d[b].bsize > 0 /\ ~(d[b].bsize < 0)
      BY <1>1, <2>7
    <3>2. \A c \in BlocksOf(m) \ {b} : d[c].bsize = m[c].bsize
      BY <1>6, <2>7
    <3> QED
      BY <1>1, <2>8, <3>1, <3>2 DEF FreeOf, Held
  <2>13. d[heapStart].prevfree = 0 /\ d[heapEnd].bsize = ESent
    BY <1>1, <1>6, <2>7 DEF Tagged, Tiled
  <2>14. ASSUME NEW c \in BlocksOf(d) \ {heapEnd, f} PROVE TagRight(d, c)
    <3>1. /\ c \in BlocksOf(m) \ {heapEnd} /\ c # b /\ c \in D /\ TagRight(m, c)
          /\ Behind(d, c) = Behind(m, c) /\ Behind(m, c) \in D /\ c # freelist
      BY <1>1, <1>6, <2>1, <2>8, <2>11, OneInFront, Lengths DEF Tagged
    <3>2. d[c].bsize = m[c].bsize /\ d[Behind(m, c)].prevfree = m[Behind(m, c)].prevfree
      BY <2>7, <3>1
    <3>3. CASE m[c].bsize > 0
      <4>1. Behind(m, c) # b
        BY <1>1, <1>8, <3>1, <3>3, InFront
      <4>2. d[Behind(m, c)].bsize = m[Behind(m, c)].bsize
        BY <2>7, <3>1, <4>1
      <4> QED
        BY <3>1, <3>2, <3>3, <4>2 DEF TagRight
    <3>4. CASE ~(m[c].bsize > 0)
      <4>1. d[c].flink = m[c].flink /\ d[c].blink = m[c].blink
        BY <2>7, <3>1, <3>4 DEF FreeOf
      <4> QED
        BY <3>1, <3>2, <3>4, <4>1 DEF TagRight
    <3> QED
      BY <3>3, <3>4
  <2>15. \A c \in Held(d) : LengthOf(d, c) = LengthOf(m, c)
    BY <2>8, <2>10 DEF Held
  <2>16. f \in FreeOf(d)
    BY <2>1, <2>12
  <2> QED
    BY <2>5, <2>9, <2>11, <2>12, <2>13, <2>14, <2>15, <2>16 DEF Loose, d, f
<1> QED
  BY <1>7, <1>8 DEF d, f

(***************************************************************************)
(* The second half: a free block behind it has joined it, and what is      *)
(* behind it now is not free.                                              *)
(***************************************************************************)
LEMMA JoinNextPool ==
  ASSUME NEW m, NEW f, Loose(m, f)
  PROVE  LET d == JoinNext(m, f)
             n == f + m[f].bsize
         IN  /\ Loose(d, f) /\ Held(d) = Held(m) /\ d[Behind(d, f)].bsize < 0
             /\ \A c \in Held(d) : LengthOf(d, c) = LengthOf(m, c)
             /\ m[n].bsize > 0 => m[n + m[n].bsize].prevfree = m[n].bsize /\ LinksMatch(m, n)
<1> DEFINE D == DOMAIN m
           d == JoinNext(m, f)
           n == f + m[f].bsize
           u == Unlink(m, n)
<1>1. /\ Typed(m) /\ Tiled(m) /\ Chained(m, FreeOf(m))
      /\ m[heapEnd].bsize = ESent /\ m[heapStart].prevfree = 0
      /\ f \in BlocksOf(m) \ {heapEnd} /\ f \in FreeOf(m) /\ m[f].bsize > 0
      /\ LengthOf(m, f) = m[f].bsize /\ m \in [D -> HeaderType] /\ f \in D
      /\ \A c \in BlocksOf(m) \ {heapEnd, f} : TagRight(m, c)
  BY BlockFacts, FreeFacts, Lengths DEF Loose, Typed, FreeOf
<1>2. /\ n = Behind(m, f) /\ n \in BlocksOf(m) /\ f < n /\ n # f /\ n \in D
      /\ m[n].bsize \in Int /\ n # freelist
  <2>1. n = Behind(m, f)
    BY <1>1 DEF Behind
  <2> HIDE DEF n
  <2>2. n \in BlocksOf(m) /\ f < n /\ f \in Int
    BY <1>1, <2>1, OneInFront, Lengths
  <2>3. n \in D /\ n # freelist
    BY <2>2 DEF BlocksOf
  <2> QED
    BY <1>1, <2>1, <2>2, <2>3 DEF HeaderType
<1>3. d = IF m[n].bsize > 0 THEN Joined(u, f, n) ELSE m
  BY DEF JoinNext
<1> HIDE DEF D, d, n
<1>4. CASE ~(m[n].bsize > 0)
  <2>1. d = m
    BY <1>3, <1>4
  <2>2. m[n].bsize < 0
    <3>1. CASE n = heapEnd
      BY <1>1, <3>1, Numbers
    <3>2. CASE n # heapEnd
      BY <1>1, <1>2, <1>4, <3>2, BlockFacts
    <3> QED
      BY <3>1, <3>2
  <2>3. d[Behind(d, f)].bsize < 0
    BY <1>2, <2>1, <2>2
  <2> QED
    BY <1>4, <2>1, <2>3 DEF d, n
<1>5. CASE m[n].bsize > 0
  <2>1. n \in FreeOf(m) /\ n \in BlocksOf(m) \ {heapEnd} /\ LengthOf(m, n) = m[n].bsize
        /\ TagRight(m, n)
    BY <1>1, <1>2, <1>5, FreeFacts, BlockFacts DEF FreeOf
  <2>2. /\ m[n].flink \in D \ {n} /\ m[n].blink \in D \ {n}
        /\ LinksMatch(m, n) /\ Chained(u, FreeOf(m) \ {n})
    BY <1>1, <2>1, UnlinkChains DEF D
  <2>3. /\ m[n].flink \in FreeOf(m) \cup {freelist} /\ m[n].blink \in FreeOf(m) \cup {freelist}
    BY <1>1, <2>1, ChainMembers
  <2>4. /\ u \in [D -> HeaderType]
        /\ \A x \in D :
             /\ u[x].prevfree = m[x].prevfree /\ u[x].bsize = m[x].bsize
             /\ x \notin FreeOf(m) \cup {freelist} =>
                  u[x].flink = m[x].flink /\ u[x].blink = m[x].blink
    BY <1>1, <2>1, <2>2, <2>3, UnlinkEffect DEF D
  <2> HIDE DEF u
  <2>5. /\ \A x : x \in DOMAIN d <=> x \in D /\ x # n
        /\ d \in [DOMAIN d -> HeaderType]
        /\ \A x \in DOMAIN d :
             /\ d[x].prevfree = u[x].prevfree
             /\ d[x].bsize = (IF x = f THEN u[f].bsize + u[n].bsize ELSE u[x].bsize)
             /\ d[x].flink = u[x].flink /\ d[x].blink = u[x].blink
    <3>1. d = Joined(u, f, n)
      BY <1>3, <1>5
    <3>2. f \in D /\ n \in D /\ n # f
      BY <1>1, <1>2
    <3> QED
      BY <2>4, <3>1, <3>2, JoinedEffect
  <2>6. \A x \in DOMAIN d :
          /\ x \in D /\ d[x].prevfree = m[x].prevfree
          /\ d[x].bsize = (IF x = f THEN LengthOf(m, f) + LengthOf(m, n) ELSE m[x].bsize)
          /\ d[x].flink = u[x].flink /\ d[x].blink = u[x].blink
    BY <1>1, <1>2, <2>1, <2>4, <2>5
  <2>7. /\ Typed(d) /\ Tiled(d) /\ f \in FreeOf(d)
        /\ d[heapEnd].bsize = ESent /\ d[heapStart].prevfree = 0
        /\ BlocksOf(d) = BlocksOf(m) \ {n}
        /\ FreeOf(d) = FreeOf(m) \ {n} /\ Held(d) = Held(m) \ {n}
        /\ Behind(d, f) = Behind(m, n)
        /\ \A c \in BlocksOf(d) \ {f, heapEnd} : Behind(d, c) = Behind(m, c)
        /\ \A c \in Held(d) : LengthOf(d, c) = LengthOf(m, c)
    <3>1. \A x : x \in DOMAIN d <=> x \in DOMAIN m /\ x # n
      BY <2>5 DEF D
    <3> QED
      BY <1>1, <1>2, <2>1, <2>5, <2>6, <3>1, JoinFront
  <2>8. Chained(d, FreeOf(d))
    <3>1. freelist \in D
      BY <1>1 DEF Typed, D
    <3>2. \A x \in (FreeOf(m) \ {n}) \cup {freelist} : x \in DOMAIN d
      BY <1>1, <1>2, <2>5, <3>1 DEF FreeOf, BlocksOf, D
    <3>3. Typed(u)
      <4>1. DOMAIN u = DOMAIN m /\ BlocksOf(u) = BlocksOf(m)
        BY <2>4 DEF D, BlocksOf
      <4> QED
        BY <1>1, <2>4, <3>1, <4>1 DEF Typed
    <3> QED
      BY <2>2, <2>6, <2>7, <3>2, <3>3, ChainKept
  <2>9. /\ Behind(m, n) \in BlocksOf(m) /\ n < Behind(m, n) /\ Behind(m, n) = n + m[n].bsize
        /\ m[Behind(m, n)].prevfree = m[n].bsize /\ m[Behind(m, n)].bsize < 0
    BY <1>1, <1>5, <2>1, OneInFront DEF TagRight, Behind
  <2>10. d[Behind(d, f)].bsize < 0
    <3>1. Behind(m, n) # f /\ Behind(m, n) # n /\ Behind(m, n) \in D
      <4>1. n \in Int /\ f \in Int /\ Behind(m, n) \in Int
        BY <1>1, <1>2, <2>9, Lengths
      <4> QED
        BY <1>2, <2>9, <4>1 DEF BlocksOf, D
    <3> QED
      BY <2>5, <2>6, <2>7, <2>9, <3>1
  <2>11. ASSUME NEW c \in BlocksOf(d) \ {heapEnd, f} PROVE TagRight(d, c)
    <3>1. /\ c \in BlocksOf(m) \ {heapEnd} /\ c # n /\ TagRight(m, c)
          /\ Behind(d, c) = Behind(m, c) /\ Behind(m, c) \in BlocksOf(m)
      BY <1>1, <2>7, OneInFront
    <3>2. Behind(m, c) # n
      BY <1>1, <1>2, <3>1, OneInFront
    <3>3. c \in DOMAIN d /\ Behind(m, c) \in DOMAIN d /\ c # freelist /\ c \in D
      BY <2>5, <3>1, <3>2 DEF BlocksOf, D
    <3>4. d[c].bsize = m[c].bsize /\ d[Behind(m, c)].prevfree = m[Behind(m, c)].prevfree
      BY <2>6, <3>3
    <3>5. m[Behind(m, c)].bsize < 0 => d[Behind(m, c)].bsize < 0
      <4>1. CASE Behind(m, c) = f
        BY <1>1, <4>1, BlockFacts
      <4>2. CASE Behind(m, c) # f
        BY <2>6, <3>3, <4>2
      <4> QED
        BY <4>1, <4>2
    <3>6. ~(m[c].bsize > 0) => d[c].flink = m[c].flink /\ d[c].blink = m[c].blink
      BY <2>4, <2>6, <3>3 DEF FreeOf
    <3> QED
      BY <3>1, <3>4, <3>5, <3>6 DEF TagRight
  <2>12. Held(d) = Held(m)
    BY <2>7, <2>1, <1>1, FreeFacts
  <2> QED
    BY <1>5, <2>2, <2>7, <2>8, <2>9, <2>10, <2>11, <2>12 DEF Loose, d, n
<1> QED
  BY <1>4, <1>5

(* The last store of brel() tells the block behind it. *)
LEMMA TagPool ==
  ASSUME NEW m, NEW f, Loose(m, f), m[Behind(m, f)].bsize < 0
  PROVE  LET d == [m EXCEPT ![f + m[f].bsize].prevfree = m[f].bsize]
         IN  /\ PoolOk(d) /\ Held(d) = Held(m) /\ m[f + m[f].bsize].bsize < 0
             /\ \A c \in Held(d) : LengthOf(d, c) = LengthOf(m, c)
<1> DEFINE D == DOMAIN m
           n == f + m[f].bsize
           v == m[f].bsize
           d == [m EXCEPT ![n].prevfree = v]
<1>1. /\ Typed(m) /\ Tiled(m) /\ Chained(m, FreeOf(m))
      /\ m[heapEnd].bsize = ESent /\ m[heapStart].prevfree = 0
      /\ f \in BlocksOf(m) \ {heapEnd} /\ f \in FreeOf(m) /\ m[f].bsize > 0 /\ v \in Int
      /\ LengthOf(m, f) = m[f].bsize /\ m \in [D -> HeaderType] /\ f \in D
      /\ \A c \in BlocksOf(m) \ {heapEnd, f} : TagRight(m, c)
  BY BlockFacts, FreeFacts, Lengths DEF Loose, Typed, FreeOf
<1>2. /\ n = Behind(m, f) /\ n \in BlocksOf(m) /\ n # heapStart /\ n \in D /\ n # freelist
      /\ m[n].bsize < 0
  <2>1. n = Behind(m, f)
    BY <1>1 DEF Behind
  <2> HIDE DEF n
  <2>2. n \in BlocksOf(m) /\ n # heapStart
    BY <1>1, <2>1, OneInFront
  <2> QED
    BY <2>1, <2>2 DEF BlocksOf
<1> HIDE DEF D, n, v
<1>3. /\ d \in [D -> HeaderType]
      /\ \A x \in D :
           /\ d[x].prevfree = (IF x = n THEN v ELSE m[x].prevfree)
           /\ d[x].bsize = m[x].bsize
           /\ d[x].flink = m[x].flink /\ d[x].blink = m[x].blink
  BY <1>1, <1>2, SetPrevfree
<1> HIDE DEF d
<1>4. /\ DOMAIN d = D /\ BlocksOf(d) = BlocksOf(m) /\ freelist \in D
      /\ heapStart \in D /\ heapEnd \in D
      /\ \A c \in BlocksOf(m) : c \in D
  BY <1>1, <1>3 DEF BlocksOf, D, Typed, Tiled
<1>5. Typed(d)
  BY <1>1, <1>2, <1>3, <1>4 DEF Typed
<1>6. \A c \in BlocksOf(m) : LengthOf(d, c) = LengthOf(m, c)
  BY <1>3, <1>4 DEF LengthOf
<1>7. Tiled(d) /\ \A c \in BlocksOf(m) \ {heapEnd} : Behind(d, c) = Behind(m, c)
  BY <1>1, <1>4, <1>5, <1>6, SameBlocks
<1>8. FreeOf(d) = FreeOf(m) /\ Held(d) = Held(m)
  BY <1>3, <1>4 DEF FreeOf, Held
<1>9. Chained(d, FreeOf(d))
  <2>1. \A x \in FreeOf(m) \cup {freelist} : x \in D
    BY <1>4 DEF FreeOf
  <2> QED
    BY <1>1, <1>3, <1>4, <1>8, <2>1, ChainKept
<1>10. Tagged(d)
  <2>1. d[heapStart].prevfree = 0 /\ d[heapEnd].bsize = ESent
    BY <1>1, <1>2, <1>3, <1>4
  <2>2. ASSUME NEW c \in BlocksOf(d) \ {heapEnd} PROVE TagRight(d, c)
    <3>1. /\ c \in BlocksOf(m) \ {heapEnd} /\ c \in D /\ Behind(d, c) = Behind(m, c)
          /\ Behind(m, c) \in D
      BY <1>1, <1>4, <1>7, OneInFront
    <3>2. CASE c = f
      BY <1>1, <1>2, <1>3, <3>1, <3>2 DEF TagRight, v
    <3>3. CASE c # f
      <4>1. Behind(m, c) # n
        BY <1>1, <1>2, <3>1, <3>3, OneInFront
      <4> QED
        BY <1>1, <1>3, <3>1, <3>3, <4>1 DEF TagRight
    <3> QED
      BY <3>2, <3>3
  <2> QED
    BY <2>1, <2>2 DEF Tagged
<1>11. \A c \in Held(d) : LengthOf(d, c) = LengthOf(m, c)
  BY <1>4, <1>6 DEF Held
<1> QED
  BY <1>2, <1>5, <1>7, <1>8, <1>9, <1>10, <1>11 DEF PoolOk, d, n, v

(***************************************************************************)
(* What brel() does to a pool that is in order: one buffer is gone, no     *)
(* other is disturbed, the pool is in order; and its assertions hold.      *)
(***************************************************************************)
LEMMA BrelPool ==
  ASSUME NEW m, PoolOk(m), NEW b \in Held(m), NEW buf, buf = b + BhSize
  PROVE  LET d == brel(m, buf)
         IN  /\ PoolOk(d) /\ Held(d) = Held(m) \ {b} /\ brelAsserts(m, buf)
             /\ \A c \in Held(d) : LengthOf(d, c) = LengthOf(m, c)
<1> DEFINE f == Freed(m, b)
           p == JoinPrevious(m, b)
           n == JoinNext(p, f)
           d == [n EXCEPT ![f + n[f].bsize].prevfree = n[f].bsize]
           g == f + p[f].bsize
<1>1. /\ Typed(m) /\ Tiled(m) /\ Tagged(m) /\ Chained(m, FreeOf(m))
      /\ b \in BlocksOf(m) \ {heapEnd} /\ m[b].bsize < 0 /\ b \in Int /\ m[b].bsize \in Int
      /\ LengthOf(m, b) = -m[b].bsize
  BY BlockFacts, Lengths DEF PoolOk, Held
<1>2. buf - BhSize = b
  BY <1>1, Numbers
<1>3. brel(m, buf) = d
  BY <1>2 DEF brel
<1>4. /\ Loose(p, f) /\ Held(p) = Held(m) \ {b}
      /\ \A c \in Held(p) : LengthOf(p, c) = LengthOf(m, c)
  BY JoinPreviousPool
<1>5. brelAsserts(m, buf) <=>
        /\ m[b].bsize < 0
        /\ m[b - m[b].bsize].prevfree = 0
        /\ IF m[b].prevfree # 0
             THEN m[b - m[b].prevfree].bsize = m[b].prevfree
             ELSE LinksMatch(m, freelist)
        /\ p[g].bsize > 0 => p[g + p[g].bsize].prevfree = p[g].bsize /\ LinksMatch(p, g)
        /\ n[f + n[f].bsize].bsize < 0
  BY <1>2 DEF brelAsserts
<1> HIDE DEF f, p
<1>6. /\ Loose(n, f) /\ Held(n) = Held(p) /\ n[Behind(n, f)].bsize < 0
      /\ \A c \in Held(n) : LengthOf(n, c) = LengthOf(p, c)
      /\ p[g].bsize > 0 => p[g + p[g].bsize].prevfree = p[g].bsize /\ LinksMatch(p, g)
  BY <1>4, JoinNextPool
<1> HIDE DEF n, g
<1>7. /\ PoolOk(d) /\ Held(d) = Held(n) /\ n[f + n[f].bsize].bsize < 0
      /\ \A c \in Held(d) : LengthOf(d, c) = LengthOf(n, c)
  BY <1>6, TagPool
<1> HIDE DEF d
<1>8. m[b - m[b].bsize].prevfree = 0
  <2>1. Behind(m, b) = b - m[b].bsize
    BY <1>1 DEF Behind
  <2> QED
    BY <1>1, <2>1 DEF Tagged, TagRight
<1>9. IF m[b].prevfree # 0
        THEN m[b - m[b].prevfree].bsize = m[b].prevfree
        ELSE LinksMatch(m, freelist)
  <2>1. m[b].prevfree # 0 => m[b - m[b].prevfree].bsize = m[b].prevfree
    BY <1>1, InFront
  <2>2. LinksMatch(m, freelist)
    BY <1>1, ChainMembers
  <2> QED
    BY <2>1, <2>2
<1>10. brelAsserts(m, buf)
  BY <1>1, <1>5, <1>6, <1>7, <1>8, <1>9
<1>11. \A c \in Held(d) : LengthOf(d, c) = LengthOf(m, c)
  BY <1>4, <1>6, <1>7
<1> QED
  BY <1>3, <1>4, <1>6, <1>7, <1>10, <1>11

-----------------------------------------------------------------------------
(* The heap and the buffers in use.                                        *)

(* The sizes that a buffer can have. *)
Sizes == {r \in Requests \cup {ShmSize} : Representable(r)}

(***************************************************************************)
(* Every block that is not free is the block of one buffer, and as long as *)
(* its caller asked for, or up to 16 bytes longer.                         *)
(***************************************************************************)
BuffersOk(m, bufs) ==
  /\ bufs \in [DOMAIN bufs -> Sizes]
  /\ \A a : a \in DOMAIN bufs <=> a - BhSize \in Held(m) /\ a \in Int
  /\ \A a \in DOMAIN bufs :
       /\ LengthOf(m, a - BhSize) >= SizeNeeded(bufs[a])
       /\ LengthOf(m, a - BhSize) <= SizeNeeded(bufs[a]) + 16

(* A state before bpool(), and one after it. *)
Fresh == mem = [a \in {freelist} |-> Header(0, 0, freelist, freelist)]
         /\ buffers = [a \in {} |-> 0]

InUse == PoolOk(mem) /\ BuffersOk(mem, buffers)

HeapInv == Fresh \/ InUse

(* A buffer has at least one byte, and a block that a bufsize can measure. *)
LEMMA SizesPositive ==
  \A r \in Sizes : r \in Nat /\ r >= 1 /\ r <= Half - 12 /\ Bufsize(r) = r
<1>1. \A r \in Sizes : r \in Nat /\ r >= 1 /\ r <= Half - 12
  BY BgetAssumption, WordFacts DEF Sizes, Representable, BhSize, SizeQuant
<1> QED
  BY <1>1, Measured

(* What bget() answers to: a size that measures a block, or NULL.  The sum *)
(* of any other size is negative.                                          *)
LEMMA OtherSizes ==
  ASSUME NEW m, NEW r \in 0..(Word - 1), ~Representable(r), Answers(m, Bufsize(r))
  PROVE  bget(m, Bufsize(r)).buf = NULL /\ bget(m, Bufsize(r)).mem = m /\ r >= Half - 11
<1>1. r \in Nat /\ r < Word
  BY WordFacts
<1>2. Bufsize(r) > 0
  BY DEF Answers, bgetAsserts
<1>3. r < Half /\ r >= 1 /\ Bufsize(r) = r
  BY <1>1, <1>2, WordFacts DEF Bufsize
<1>4. r > Half - 12
  BY <1>1, <1>3, WordFacts DEF Representable, BhSize, SizeQuant
<1> DEFINE n == 4 * ((r + 3) \div 4) + 8
<1>5. SizeNeeded(r) = Bufsize(n)
  BY <1>1, <1>4, WordFacts DEF SizeNeeded, SizeQ, SizeQuant, BhSize
<1>6. n \in Int /\ n >= Half /\ n < Word
  <2>1. n \in Int /\ n >= r + 8 /\ n <= r + 11 /\ n % 4 = 0
    BY <1>1
  <2> HIDE DEF n
  <2> QED
    BY <1>1, <1>3, <1>4, <2>1, WordFacts
<1> HIDE DEF n
<1>7. SizeNeeded(r) < 0
  BY <1>5, <1>6, WordFacts DEF Bufsize
<1>8. Best(m, SizeNeeded(r)) = freelist
  BY <1>3, <1>7 DEF Answers, Wild
<1> QED
  BY <1>1, <1>3, <1>4, <1>8, WordFacts DEF bget

(* A buffer in use starts behind a header and ends inside its block. *)
LEMMA BufferFacts ==
  ASSUME NEW m, PoolOk(m), NEW bufs, BuffersOk(m, bufs), NEW a \in DOMAIN bufs
  PROVE  /\ a \in Int /\ a - 8 \in Held(m) /\ a - 8 \in BlocksOf(m) \ {heapEnd}
         /\ bufs[a] \in Nat /\ bufs[a] >= 1 /\ bufs[a] \in Sizes
         /\ a + bufs[a] <= Behind(m, a - 8) /\ Behind(m, a - 8) \in Int
         /\ Behind(m, a - 8) <= a + 24
              + (IF bufs[a] < 8 THEN 0 ELSE bufs[a] - 5)
<1>1. Typed(m) /\ Tiled(m)
  BY DEF PoolOk
<1>2. a \in Int /\ a - 8 \in Held(m) /\ bufs[a] \in Sizes
  BY Numbers DEF BuffersOk
<1>3. a - 8 \in BlocksOf(m) \ {heapEnd}
  BY <1>2 DEF Held
<1>4. bufs[a] \in Nat /\ bufs[a] >= 1 /\ bufs[a] <= Half - 12
  BY <1>2, SizesPositive
<1>5. Behind(m, a - 8) = a - 8 + LengthOf(m, a - 8) /\ LengthOf(m, a - 8) \in Int
  BY <1>1, <1>3, Lengths DEF Behind
<1>6. LengthOf(m, a - 8) >= SizeNeeded(bufs[a]) /\ LengthOf(m, a - 8) <= SizeNeeded(bufs[a]) + 16
  BY Numbers DEF BuffersOk
<1> DEFINE r == bufs[a]
           size == SizeNeeded(r)
<1>7. /\ size \in Nat /\ size >= r + 8
      /\ r >= 8 => size <= r + 11
      /\ r < 8 => size = 16
  BY <1>4, SizeOf
<1> HIDE DEF size
<1>8. a + r <= Behind(m, a - 8) /\ Behind(m, a - 8) <= a + 24 + (IF r < 8 THEN 0 ELSE r - 5)
  <2>1. LengthOf(m, a - 8) >= size /\ LengthOf(m, a - 8) <= size + 16
    BY <1>6 DEF size
  <2> DEFINE L == LengthOf(m, a - 8)
  <2> HIDE DEF L
  <2>2. Behind(m, a - 8) = a - 8 + L /\ L \in Int /\ L >= size /\ L <= size + 16
    BY <1>5, <2>1 DEF L
  <2> HIDE DEF r
  <2>3. r \in Nat
    BY <1>4 DEF r
  <2> QED
    BY <1>2, <1>7, <2>2, <2>3
<1> QED
  BY <1>2, <1>3, <1>4, <1>5, <1>8

(* Two blocks of the pool are apart. *)
LEMMA BlocksApart ==
  ASSUME NEW m, PoolOk(m),
         NEW a \in BlocksOf(m) \ {heapEnd}, NEW b \in BlocksOf(m) \ {heapEnd}, a # b
  PROVE  Behind(m, a) <= b \/ Behind(m, b) <= a
BY Lengths DEF PoolOk, Tiled

(* A buffer is handed out. *)
LEMMA HandsOut ==
  ASSUME NEW m, PoolOk(m), NEW bufs, BuffersOk(m, bufs), NEW r \in Sizes,
         bget(m, r).buf # NULL
  PROVE  LET got  == bget(m, r)
             more == [a \in DOMAIN bufs \cup {got.buf} |->
                        IF a = got.buf THEN r ELSE bufs[a]]
         IN  /\ PoolOk(got.mem) /\ BuffersOk(got.mem, more)
             /\ got.buf \notin DOMAIN bufs
             /\ got.buf \in Int /\ got.buf >= heapStart /\ got.buf % 4 = 0
             /\ got.buf + r <= heapEnd
             /\ \A a \in DOMAIN bufs : Heap!Apart(got.buf, r, a, bufs[a])
<1> DEFINE got == bget(m, r)
           buf == got.buf
           d == got.mem
           h == buf - BhSize
           more == [a \in DOMAIN bufs \cup {buf} |-> IF a = buf THEN r ELSE bufs[a]]
<1>1. r \in Nat /\ r >= 1 /\ r <= Half - 12
  BY SizesPositive
<1>2. /\ PoolOk(d) /\ h \notin Held(m) /\ Held(d) = Held(m) \cup {h}
      /\ buf = h + BhSize
      /\ LengthOf(d, h) >= SizeNeeded(r) /\ LengthOf(d, h) <= SizeNeeded(r) + 16
      /\ \A c \in Held(m) : LengthOf(d, c) = LengthOf(m, c)
  BY <1>1, BgetPool
<1> HIDE DEF got
<1>3. /\ Typed(d) /\ Tiled(d) /\ h \in Held(d) /\ h \in BlocksOf(d) \ {heapEnd}
      /\ h \in Int /\ h >= heapStart /\ h % 4 = 0
  BY <1>2, Lengths DEF PoolOk, Held, Tiled
<1> HIDE DEF d, h
<1>4. buf = h + 8 /\ buf \in Int /\ buf - BhSize = h
  BY <1>2, <1>3, Numbers
<1> HIDE DEF buf
<1>5. buf \notin DOMAIN bufs
  BY <1>2, <1>4 DEF BuffersOk
<1>6. BuffersOk(d, more)
  <2>1. more \in [DOMAIN more -> Sizes] /\ DOMAIN more = DOMAIN bufs \cup {buf}
    BY DEF BuffersOk
  <2>2. more[buf] = r /\ \A a \in DOMAIN bufs : more[a] = bufs[a]
    BY <1>5
  <2> HIDE DEF more
  <2>3. ASSUME NEW a PROVE a \in DOMAIN more <=> a - BhSize \in Held(d) /\ a \in Int
    <3>1. a \in Int => (a - BhSize = h <=> a = buf)
      BY <1>3, <1>4, Numbers
    <3>2. a \in DOMAIN bufs <=> a - BhSize \in Held(m) /\ a \in Int
      BY DEF BuffersOk
    <3> QED
      BY <1>2, <1>4, <2>1, <3>1, <3>2
  <2>4. ASSUME NEW a \in DOMAIN more
        PROVE  /\ LengthOf(d, a - BhSize) >= SizeNeeded(more[a])
               /\ LengthOf(d, a - BhSize) <= SizeNeeded(more[a]) + 16
    <3>1. CASE a = buf
      BY <1>2, <1>4, <2>2, <3>1
    <3>2. CASE a # buf
      <4>1. a \in DOMAIN bufs /\ a - BhSize \in Held(m)
        BY <2>1, <3>2 DEF BuffersOk
      <4>2. /\ LengthOf(m, a - BhSize) >= SizeNeeded(bufs[a])
            /\ LengthOf(m, a - BhSize) <= SizeNeeded(bufs[a]) + 16
        BY <4>1 DEF BuffersOk
      <4> QED
        BY <1>2, <2>2, <4>1, <4>2
    <3> QED
      BY <3>1, <3>2
  <2> QED
    BY <2>1, <2>3, <2>4 DEF BuffersOk
<1>7. buf \in DOMAIN more /\ more[buf] = r /\ \A a \in DOMAIN bufs : a \in DOMAIN more /\ more[a] = bufs[a]
  BY <1>5
<1> HIDE DEF more
<1>8. \A a \in DOMAIN more :
        /\ a \in Int /\ a - 8 \in BlocksOf(d) \ {heapEnd}
        /\ more[a] \in Nat /\ Behind(d, a - 8) \in Int
        /\ a + more[a] <= Behind(d, a - 8)
  BY <1>2, <1>6, BufferFacts
<1>9. buf + r <= heapEnd
  <2>1. Behind(d, h) <= heapEnd /\ heapEnd \in Int
    BY <1>3, OneInFront, Bounds
  <2> QED
    BY <1>1, <1>3, <1>4, <1>7, <1>8, <2>1
<1>10. ASSUME NEW a \in DOMAIN bufs PROVE Heap!Apart(buf, r, a, bufs[a])
  <2>1. a # buf /\ a \in Int /\ a - 8 \in BlocksOf(d) \ {heapEnd} /\ bufs[a] \in Nat
        /\ Behind(d, a - 8) \in Int /\ a + bufs[a] <= Behind(d, a - 8)
    BY <1>5, <1>7, <1>8
  <2>2. Behind(d, h) \in Int /\ buf + r <= Behind(d, h)
    BY <1>3, <1>4, <1>7, <1>8
  <2>3. Behind(d, h) <= a - 8 \/ Behind(d, a - 8) <= h
    BY <1>2, <1>3, <1>4, <2>1, BlocksApart
  <2>4. buf + r <= a \/ a + bufs[a] <= buf
    BY <1>1, <1>3, <1>4, <2>1, <2>2, <2>3
  <2> QED
    BY <2>4 DEF Heap!Apart
<1> QED
  BY <1>2, <1>3, <1>4, <1>5, <1>6, <1>9, <1>10, Numbers, Bounds DEF d, buf, got, more

(* A buffer is given back. *)
LEMMA TakesBack ==
  ASSUME NEW m, PoolOk(m), NEW bufs, BuffersOk(m, bufs), NEW buf \in DOMAIN bufs,
         NEW less, less = Restrict(bufs, DOMAIN bufs \ {buf})
  PROVE  /\ PoolOk(brel(m, buf)) /\ BuffersOk(brel(m, buf), less)
         /\ brelAsserts(m, buf)
<1> DEFINE d == brel(m, buf)
           b == buf - BhSize
<1>1. b \in Held(m) /\ buf = b + BhSize /\ buf \in Int
  <2>1. b \in Held(m) /\ buf \in Int
    BY DEF BuffersOk
  <2> QED
    BY <2>1, Numbers
<1> HIDE DEF b
<1>2. /\ PoolOk(d) /\ Held(d) = Held(m) \ {b} /\ brelAsserts(m, buf)
      /\ \A c \in Held(d) : LengthOf(d, c) = LengthOf(m, c)
  BY <1>1, BrelPool
<1> HIDE DEF d
<1>3. less = [a \in DOMAIN bufs \ {buf} |-> bufs[a]]
  BY DEF Restrict
<1>4. /\ less \in [DOMAIN less -> Sizes] /\ DOMAIN less = DOMAIN bufs \ {buf}
      /\ \A a \in DOMAIN less : a \in DOMAIN bufs /\ less[a] = bufs[a]
  BY <1>3 DEF BuffersOk
<1>5. ASSUME NEW a PROVE a \in DOMAIN less <=> a - BhSize \in Held(d) /\ a \in Int
  <2>1. a \in Int => (a - BhSize = b <=> a = buf)
    <3>1. b \in Int
      BY <1>1, Numbers DEF b
    <3> QED
      BY <1>1, <3>1, Numbers
  <2>2. a \in DOMAIN bufs <=> a - BhSize \in Held(m) /\ a \in Int
    BY DEF BuffersOk
  <2> QED
    BY <1>1, <1>2, <1>4, <2>1, <2>2
<1>6. ASSUME NEW a \in DOMAIN less
      PROVE  /\ LengthOf(d, a - BhSize) >= SizeNeeded(less[a])
             /\ LengthOf(d, a - BhSize) <= SizeNeeded(less[a]) + 16
  <2>1. /\ LengthOf(m, a - BhSize) >= SizeNeeded(bufs[a])
        /\ LengthOf(m, a - BhSize) <= SizeNeeded(bufs[a]) + 16
    BY <1>4 DEF BuffersOk
  <2> QED
    BY <1>2, <1>4, <1>5, <2>1
<1>7. BuffersOk(d, less)
  BY <1>4, <1>5, <1>6 DEF BuffersOk
<1> QED
  BY <1>2, <1>7 DEF d

(* bpool() makes one free block of the pool. *)
LEMMA NewPool ==
  ASSUME Fresh, bpool
  PROVE  PoolOk(mem') /\ Held(mem') = {} /\ buffers' = buffers
<1> DEFINE len == SizeQuant * (heapSize \div SizeQuant) - BhSize
           all == {freelist, heapStart, heapEnd}
           k == [a \in all |-> IF a = heapStart THEN Header(0, len, Callers, Callers)
                               ELSE IF a = heapEnd THEN Header(len, ESent, Callers, Callers)
                               ELSE mem[freelist]]
           d == Link(k, heapStart)
<1>1. mem' = d /\ buffers' = buffers
  BY DEF bpool, heapEnd
<1>2. /\ len \in Int /\ len >= 24 /\ len % 4 = 0 /\ heapEnd = heapStart + len
      /\ heapStart \in Int /\ heapEnd \in Int /\ heapStart > 0 /\ heapStart % 4 = 0
      /\ heapEnd % 4 = 0 /\ heapStart # freelist /\ heapEnd # freelist /\ heapStart # heapEnd
  BY BgetAssumption, Bounds, Numbers DEF heapEnd, SizeQuant, BhSize
<1> HIDE DEF len
<1>3. mem[freelist] = Header(0, 0, freelist, freelist)
  BY DEF Fresh
<1>4. /\ Header(0, len, Callers, Callers) \in HeaderType
      /\ Header(len, ESent, Callers, Callers) \in HeaderType
      /\ mem[freelist] \in HeaderType
  BY <1>2, <1>3, Numbers DEF Header, HeaderType
<1>5. /\ k \in [all -> HeaderType] /\ DOMAIN k = all
      /\ k[heapStart] = Header(0, len, Callers, Callers)
      /\ k[heapEnd] = Header(len, ESent, Callers, Callers)
      /\ k[freelist] = Header(0, 0, freelist, freelist)
  BY <1>2, <1>3, <1>4
<1> HIDE DEF k
<1>6. BlocksOf(k) = {heapStart, heapEnd} /\ Typed(k)
  <2>1. BlocksOf(k) = {heapStart, heapEnd}
    BY <1>2, <1>5 DEF BlocksOf
  <2> QED
    BY <1>2, <1>5, <2>1 DEF Typed, Header
<1>7. Chained(k, {})
  <2> DEFINE s == [i \in 0..0 + 1 |-> freelist]
  <2>1. s \in [0..0 + 1 -> Int] /\ 0 \in Nat
    BY Numbers
  <2>2. Chain(k, 0, s)
    BY <1>5, <2>1 DEF Chain, Header
  <2>3. {} = {s[i] : i \in 1..0}
    OBVIOUS
  <2> QED
    BY <2>1, <2>2, <2>3 DEF Chained
<1>8. k[freelist].blink \in DOMAIN k \ {heapStart} /\ Chained(d, {heapStart})
  <2>1. heapStart \in BlocksOf(k) \ {} /\ {} \cup {heapStart} = {heapStart}
    BY <1>6
  <2>2. k[freelist].blink \in DOMAIN k \ {heapStart} /\ Chained(d, {} \cup {heapStart})
    BY <1>6, <1>7, <2>1, LinkChains
  <2> QED
    BY <2>1, <2>2
<1>9. /\ d \in [all -> HeaderType]
      /\ \A a \in all :
           /\ d[a].prevfree = k[a].prevfree /\ d[a].bsize = k[a].bsize
           /\ a = heapEnd => d[a].flink = Callers /\ d[a].blink = Callers
  <2>1. heapStart \in BlocksOf(k) /\ k[freelist].blink = freelist
    BY <1>5, <1>6 DEF Header
  <2> QED
    BY <1>2, <1>5, <1>6, <1>8, <2>1, LinkEffect DEF Header
<1> HIDE DEF d
<1>10. /\ DOMAIN d = all /\ BlocksOf(d) = {heapStart, heapEnd}
       /\ d[heapStart].prevfree = 0 /\ d[heapStart].bsize = len
       /\ d[heapEnd].prevfree = len /\ d[heapEnd].bsize = ESent
       /\ d[freelist].prevfree = 0 /\ d[freelist].bsize = 0
  BY <1>2, <1>5, <1>9 DEF BlocksOf, Header
<1>11. Typed(d)
  BY <1>2, <1>9, <1>10 DEF Typed
<1>12. LengthOf(d, heapStart) = len /\ Behind(d, heapStart) = heapEnd
  BY <1>2, <1>10 DEF LengthOf, Behind
<1>13. Tiled(d)
  BY <1>2, <1>10, <1>12 DEF Tiled
<1>14. Tagged(d)
  BY <1>2, <1>10, <1>12, Numbers DEF Tagged, TagRight
<1>15. FreeOf(d) = {heapStart} /\ Held(d) = {}
  BY <1>2, <1>10, Numbers DEF FreeOf, Held
<1> QED
  BY <1>1, <1>8, <1>11, <1>13, <1>14, <1>15 DEF PoolOk

(* The pool has come once bpool() has run. *)
LEMMA PoolHasCome == HeapInv => (DOMAIN mem # {freelist} <=> InUse)
<1>1. Fresh => DOMAIN mem = {freelist}
  BY DEF Fresh
<1>2. InUse => DOMAIN mem # {freelist}
  <2> SUFFICES ASSUME InUse PROVE DOMAIN mem # {freelist}
    OBVIOUS
  <2>1. heapStart \in DOMAIN mem /\ heapStart # freelist
    BY Bounds DEF InUse, PoolOk, Tiled, BlocksOf
  <2> QED
    BY <2>1
<1> QED
  BY <1>1, <1>2 DEF HeapInv

(* A buffer handed out by bget(), or none, in the terms of the state. *)
LEMMA HandsKeeps ==
  ASSUME InUse, NEW r \in Sizes, Hands(bget(mem, r), r)
  PROVE  /\ InUse'
         /\ buffers' = buffers
            \/ \E a \in {x \in heapStart..heapEnd : x % SizeQuant = 0} : Heap!Acquire(a, r)
<1> DEFINE got == bget(mem, r)
           more == [a \in DOMAIN buffers \cup {got.buf} |->
                      IF a = got.buf THEN r ELSE buffers[a]]
<1>1. PoolOk(mem) /\ BuffersOk(mem, buffers)
  BY DEF InUse
<1>2. mem' = got.mem /\ buffers' = IF got.buf = NULL THEN buffers ELSE more
  BY DEF Hands
<1>3. CASE got.buf = NULL
  <2>1. got.mem = mem
    BY <1>1, <1>3, SizesPositive, BgetPool
  <2>2. mem' = mem /\ buffers' = buffers
    BY <1>2, <1>3, <2>1
  <2>3. PoolOk(mem') /\ BuffersOk(mem', buffers')
    BY <1>1, <2>2
  <2> QED
    BY <2>2, <2>3 DEF InUse
<1>4. CASE got.buf # NULL
  <2>1. /\ PoolOk(got.mem) /\ BuffersOk(got.mem, more)
        /\ got.buf \in Int /\ got.buf >= heapStart /\ got.buf % 4 = 0
        /\ got.buf + r <= heapEnd
        /\ \A a \in DOMAIN buffers : Heap!Apart(got.buf, r, a, buffers[a])
    BY <1>1, <1>4, HandsOut
  <2>2. mem' = got.mem /\ buffers' = more
    BY <1>2, <1>4
  <2> DEFINE buf == got.buf
  <2> HIDE DEF got
  <2>3. buf \in {x \in heapStart..heapEnd : x % SizeQuant = 0}
    <3>1. buf \in heapStart..heapEnd
      BY <2>1, Bounds, SizesPositive
    <3> QED
      BY <2>1, <3>1, Numbers
  <2>4. Heap!Acquire(buf, r)
    <3>1. buffers' = [b \in (DOMAIN buffers \ {}) \cup {buf} |->
                        IF b = buf THEN r ELSE buffers[b]]
      BY <2>2
    <3> QED
      BY <2>1, <3>1 DEF Heap!Acquire, Heap!Exchange
  <2>5. PoolOk(mem') /\ BuffersOk(mem', buffers')
    BY <2>1, <2>2
  <2> QED
    BY <2>3, <2>4, <2>5 DEF InUse
<1> QED
  BY <1>3, <1>4

(* The request that bgetr() grants is granted before the old buffer goes. *)
LEMMA BgetrKeeps ==
  ASSUME InUse, NEW buf \in DOMAIN buffers, NEW r \in Sizes, bgetr(buf, r)
  PROVE  /\ InUse'
         /\ \E a \in {x \in heapStart..heapEnd : x % SizeQuant = 0} : Heap!Replace(buf, a, r)
<1> DEFINE got == bget(mem, r)
           new == got.buf
           more == [a \in DOMAIN buffers \cup {got.buf} |->
                      IF a = got.buf THEN r ELSE buffers[a]]
           less == Restrict(more, DOMAIN more \ {buf})
<1>1. PoolOk(mem) /\ BuffersOk(mem, buffers)
  BY DEF InUse
<1>2. /\ got.buf # NULL /\ mem' = brel(got.mem, buf)
      /\ buffers' = [a \in (DOMAIN buffers \ {buf}) \cup {new} |->
                       IF a = new THEN r ELSE buffers[a]]
  BY SizesPositive DEF bgetr
<1>3. /\ PoolOk(got.mem) /\ BuffersOk(got.mem, more)
      /\ got.buf \notin DOMAIN buffers
      /\ got.buf \in Int /\ got.buf >= heapStart /\ got.buf % 4 = 0
      /\ got.buf + r <= heapEnd
      /\ \A a \in DOMAIN buffers : Heap!Apart(got.buf, r, a, buffers[a])
  BY <1>1, <1>2, HandsOut
<1>4. buf \in DOMAIN more
  OBVIOUS
<1> HIDE DEF got
<1>5. less = buffers'
  <2>1. DOMAIN more = DOMAIN buffers \cup {new}
    OBVIOUS
  <2>2. new # buf
    BY <1>3
  <2>3. less = [a \in DOMAIN more \ {buf} |-> more[a]]
    BY DEF Restrict
  <2>4. DOMAIN more \ {buf} = (DOMAIN buffers \ {buf}) \cup {new}
    BY <2>1, <2>2
  <2>5. \A a \in DOMAIN more : more[a] = IF a = new THEN r ELSE buffers[a]
    OBVIOUS
  <2> HIDE DEF more, new, less
  <2>6. less = [a \in (DOMAIN buffers \ {buf}) \cup {new} |-> more[a]]
    BY <2>3, <2>4
  <2>7. \A a \in (DOMAIN buffers \ {buf}) \cup {new} :
          more[a] = IF a = new THEN r ELSE buffers[a]
    BY <2>1, <2>5
  <2> QED
    BY <1>2, <2>6, <2>7
<1> HIDE DEF more
<1>6. PoolOk(brel(got.mem, buf)) /\ BuffersOk(brel(got.mem, buf), less)
  BY <1>3, <1>4, TakesBack
<1>7. PoolOk(mem') /\ BuffersOk(mem', buffers')
  BY <1>2, <1>5, <1>6
<1>8. new \in {x \in heapStart..heapEnd : x % SizeQuant = 0}
  <2>1. new \in heapStart..heapEnd
    BY <1>3, Bounds, SizesPositive
  <2> QED
    BY <1>3, <2>1, Numbers
<1>9. Heap!Replace(buf, new, r)
  BY <1>2, <1>3 DEF Heap!Replace, Heap!Exchange
<1> QED
  BY <1>7, <1>8, <1>9 DEF InUse

(* shmInit()'s buffers are measured by a bufsize. *)
LEMMA ShmMeasured == ShmSize \in Sizes /\ Bufsize(ShmSize) = ShmSize
<1>1. Representable(ShmSize)
  BY BgetAssumption, WordFacts DEF Representable, BhSize, SizeQuant, Half
<1> QED
  BY <1>1, SizesPositive DEF Sizes

(* Every step keeps the pool in order, and is a step of Buffers, or none. *)
LEMMA StepKeeps ==
  ASSUME HeapInv, [Next]_vars
  PROVE  HeapInv' /\ [Heap!Next]_buffers
<1> DEFINE Places == {x \in heapStart..heapEnd : x % SizeQuant = 0}
<1>1. ASSUME bpool PROVE HeapInv' /\ buffers' = buffers
  <2>1. Fresh
    <3>1. DOMAIN mem = {freelist}
      BY <1>1 DEF bpool
    <3> QED
      BY <3>1, PoolHasCome DEF HeapInv
  <2>2. PoolOk(mem') /\ Held(mem') = {} /\ buffers' = buffers
    BY <1>1, <2>1, NewPool
  <2>3. buffers' = [a \in {} |-> 0]
    BY <2>1, <2>2 DEF Fresh
  <2>4. BuffersOk(mem', buffers')
    BY <2>2, <2>3 DEF BuffersOk
  <2> QED
    BY <2>2, <2>4 DEF HeapInv, InUse
<1>2. ASSUME NEW r \in Sizes, InUse, Hands(bget(mem, r), r) PROVE HeapInv' /\ [Heap!Next]_buffers
  <2>1. InUse' /\ (buffers' = buffers \/ \E a \in Places : Heap!Acquire(a, r))
    BY <1>2, HandsKeeps
  <2> HIDE DEF Places
  <2>2. HeapInv'
    BY <2>1 DEF HeapInv
  <2>3. r \in Requests \cup {ShmSize}
    BY DEF Sizes
  <2> QED
    BY <2>1, <2>2, <2>3 DEF Heap!Next, Places
<1>3. ASSUME shmInit PROVE HeapInv' /\ [Heap!Next]_buffers
  <2>1. InUse /\ ShmSize \in Sizes /\ Hands(bget(mem, ShmSize), ShmSize)
    BY <1>3, PoolHasCome, ShmMeasured DEF shmInit
  <2> QED
    BY <1>2, <2>1
<1>4. ASSUME NEW r \in Requests, malloc(r) PROVE HeapInv' /\ [Heap!Next]_buffers
  <2>1. InUse /\ Answers(mem, Bufsize(r)) /\ Hands(bget(mem, Bufsize(r)), r)
    BY <1>4, PoolHasCome DEF malloc, Booted
  <2>2. CASE Representable(r)
    <3>1. r \in Sizes /\ Bufsize(r) = r
      BY <2>2, SizesPositive DEF Sizes
    <3> QED
      BY <1>2, <2>1, <3>1
  <2>3. CASE ~Representable(r)
    <3>1. r \in 0..(Word - 1)
      BY BgetAssumption
    <3>2. bget(mem, Bufsize(r)).buf = NULL /\ bget(mem, Bufsize(r)).mem = mem
      BY <2>1, <2>3, <3>1, OtherSizes
    <3>3. mem' = mem /\ buffers' = buffers
      BY <2>1, <3>2 DEF Hands
    <3> QED
      BY <2>1, <3>3 DEF HeapInv, InUse
  <2> QED
    BY <2>2, <2>3
<1>5. ASSUME NEW buf \in DOMAIN buffers, free(buf) PROVE HeapInv' /\ [Heap!Next]_buffers
  <2>1. InUse
    BY <1>5, PoolHasCome DEF free, Booted
  <2>2. mem' = brel(mem, buf) /\ buffers' = Restrict(buffers, DOMAIN buffers \ {buf})
    BY <1>5 DEF free
  <2>3. PoolOk(mem') /\ BuffersOk(mem', buffers')
    BY <2>1, <2>2, TakesBack DEF InUse
  <2>4. Heap!Release(buf)
    BY <2>2 DEF Heap!Release, Restrict
  <2> QED
    BY <2>3, <2>4 DEF HeapInv, InUse, Heap!Next
<1>6. ASSUME NEW buf \in DOMAIN buffers, NEW r \in Requests, bgetr(buf, r)
      PROVE HeapInv' /\ [Heap!Next]_buffers
  <2>1. InUse /\ r \in Sizes
    <3>1. r \in 0..(Word - 1)
      BY BgetAssumption
    <3>2. Answers(mem, Bufsize(r)) /\ bget(mem, Bufsize(r)).buf # NULL
      BY <1>6 DEF bgetr
    <3>3. Representable(r)
      BY <3>1, <3>2, OtherSizes
    <3> QED
      BY <1>6, <3>3, PoolHasCome DEF bgetr, Booted, Sizes
  <2>2. InUse' /\ \E a \in Places : Heap!Replace(buf, a, r)
    BY <1>6, <2>1, BgetrKeeps
  <2>3. r \in Requests \cup {ShmSize}
    OBVIOUS
  <2> HIDE DEF Places
  <2> QED
    BY <2>2, <2>3 DEF HeapInv, Heap!Next, Places
<1>7. ASSUME mem' = mem, buffers' = buffers PROVE HeapInv' /\ [Heap!Next]_buffers
  BY <1>7 DEF HeapInv, Fresh, InUse
<1>8. ASSUME NEW r \in Requests, bgetHalts(r) PROVE HeapInv' /\ [Heap!Next]_buffers
  BY <1>7, <1>8 DEF bgetHalts
<1>9. ASSUME UNCHANGED vars PROVE HeapInv' /\ [Heap!Next]_buffers
  BY <1>7, <1>9 DEF vars
<1>10. ASSUME khalt PROVE HeapInv' /\ [Heap!Next]_buffers
  BY <1>9, <1>10 DEF khalt
<1> QED
  BY <1>1, <1>3, <1>4, <1>5, <1>6, <1>8, <1>9, <1>10 DEF Next

(* The inductive invariant holds of every reachable state. *)
THEOREM HeapInvariant == Spec => []HeapInv
<1>1. Init => HeapInv
  BY DEF Init, HeapInv, Fresh
<1>2. HeapInv /\ [Next]_vars => HeapInv'
  BY StepKeeps
<1> QED
  BY <1>1, <1>2, PTL DEF Spec

(***************************************************************************)
(* The heap of kernel/bget.c keeps the promise of Buffers, whatever the    *)
(* size of the pool below Half and whatever word is asked for: a buffer    *)
(* that is handed out is aligned, inside the pool, as long as was asked,   *)
(* and never overlaps another.  A size that no block can have is answered  *)
(* NULL or ends the kernel (bgetHalts), and is never a buffer.             *)
(***************************************************************************)
THEOREM HeapImplementsBuffers == Spec => Implements
<1>1. Init => Heap!Init
  BY DEF Init, Heap!Init
<1>2. HeapInv /\ [Next]_vars => [Heap!Next]_buffers
  BY StepKeeps
<1> QED
  BY <1>1, <1>2, HeapInvariant, PTL DEF Spec, Implements, Heap!Spec

-----------------------------------------------------------------------------
(* The invariants of Bget.                                                 *)

(* The names of Bget for the parts of the memory. *)
LEMMA Parts ==
  /\ Blocks = BlocksOf(mem) /\ FreeBlocks = FreeOf(mem)
  /\ \A b : Length(b) = LengthOf(mem, b)
BY DEF Blocks, BlocksOf, FreeBlocks, FreeOf, Length, LengthOf

(* Before bpool() there is no block, and the list is empty. *)
LEMMA FreshFacts ==
  ASSUME Fresh
  PROVE  BlocksOf(mem) = {} /\ Typed(mem) /\ Chained(mem, FreeOf(mem))
<1>1. DOMAIN mem = {freelist} /\ mem[freelist] = Header(0, 0, freelist, freelist)
  BY DEF Fresh
<1>2. BlocksOf(mem) = {} /\ FreeOf(mem) = {}
  BY <1>1 DEF BlocksOf, FreeOf
<1>3. mem \in [DOMAIN mem -> HeaderType]
  <2>1. Header(0, 0, freelist, freelist) \in HeaderType
    BY Numbers DEF Header, HeaderType
  <2> QED
    BY <2>1 DEF Fresh
<1>4. Typed(mem)
  BY <1>1, <1>2, <1>3 DEF Typed, Header
<1>5. Chained(mem, {})
  <2> DEFINE s == [i \in 0..0 + 1 |-> freelist]
  <2>1. s \in [0..0 + 1 -> Int] /\ 0 \in Nat
    BY Numbers
  <2>2. Chain(mem, 0, s)
    BY <1>1, <2>1 DEF Chain, Header
  <2>3. {} = {s[i] : i \in 1..0}
    OBVIOUS
  <2> QED
    BY <2>1, <2>2, <2>3 DEF Chained
<1> QED
  BY <1>2, <1>4, <1>5

(***************************************************************************)
(* The boundary tags that brel() navigates by are right after any sequence *)
(* of splits and joins.                                                    *)
(***************************************************************************)
THEOREM TagsAreRight == Spec => []BoundaryTagsRight
<1>1. ASSUME HeapInv PROVE BoundaryTagsRight
  <2>1. CASE Fresh
    BY <2>1, FreshFacts, Parts DEF BoundaryTagsRight
  <2>2. CASE InUse
    <3>1. Typed(mem) /\ Tiled(mem) /\ Tagged(mem)
      BY <2>2 DEF InUse, PoolOk
    <3>2. ASSUME NEW b \in BlocksOf(mem) \ {heapEnd}
          PROVE  LET next == b + LengthOf(mem, b)
                 IN  /\ next \in BlocksOf(mem)
                     /\ \A c \in BlocksOf(mem) : ~(b < c /\ c < next)
                     /\ mem[next].prevfree = (IF b \in FreeOf(mem) THEN mem[b].bsize ELSE 0)
                     /\ b \in FreeOf(mem) => next \notin FreeOf(mem)
                     /\ b \notin FreeOf(mem) =>
                          mem[b].flink = Callers /\ mem[b].blink = Callers
      <4> DEFINE next == Behind(mem, b)
      <4>1. next \in BlocksOf(mem) /\ \A c \in BlocksOf(mem) : b < c => next <= c
        BY <3>1 DEF Tiled
      <4>2. \A c \in BlocksOf(mem) : ~(b < c /\ c < next)
        BY <3>1, <4>1, Lengths
      <4>3. b \in FreeOf(mem) <=> mem[b].bsize > 0
        BY <3>1, BlockFacts
      <4>4. TagRight(mem, b)
        BY <3>1 DEF Tagged
      <4>5. b \in FreeOf(mem) => next \notin FreeOf(mem)
        <5>1. mem[next].bsize < 0 => ~(mem[next].bsize > 0)
          <6>1. mem[next].bsize \in Int
            BY <3>1, <4>1 DEF Typed, BlocksOf, HeaderType
          <6> QED
            BY <6>1
        <5> QED
          BY <4>3, <4>4, <5>1 DEF TagRight, FreeOf
      <4> QED
        BY <4>1, <4>2, <4>3, <4>4, <4>5 DEF TagRight, Behind
    <3> QED
      BY <3>1, <3>2, Parts DEF BoundaryTagsRight, Tagged
  <2> QED
    BY <1>1, <2>1, <2>2 DEF HeapInv
<1> QED
  BY <1>1, HeapInvariant, PTL

(***************************************************************************)
(* The free list meets every free block once and comes back to its head,   *)
(* and its backward links are the inverse: bget() never hands out a block  *)
(* twice and loses none for good.                                          *)
(***************************************************************************)
THEOREM FreeListIsComplete == Spec => []FreeListComplete
<1>1. ASSUME HeapInv PROVE FreeListComplete
  <2>1. Typed(mem) /\ Chained(mem, FreeOf(mem))
    BY <1>1, FreshFacts DEF HeapInv, InUse, PoolOk
  <2>2. PICK n \in Nat : \E s \in [0..n + 1 -> Int] :
                           Chain(mem, n, s) /\ FreeOf(mem) = {s[i] : i \in 1..n}
    BY <2>1 DEF Chained
  <2>3. PICK s \in [0..n + 1 -> Int] : Chain(mem, n, s) /\ FreeOf(mem) = {s[i] : i \in 1..n}
    BY <2>2
  <2> DEFINE hop == Walk(mem)
             N == Cardinality(DOMAIN mem)
  <2>4. N \in Nat /\ n <= N /\ Cardinality(FreeOf(mem)) = n
    BY <2>1, <2>3, ChainLength
  <2>5. hop = [k \in 0..N |-> IF k < n THEN s[k + 1] ELSE freelist]
    BY <2>1, <2>3, WalkAlong
  <2> HIDE DEF hop, N
  <2>6. hop[n] = freelist /\ \A k \in 0..n - 1 : hop[k] = s[k + 1]
    BY <2>4, <2>5
  <2>7. {hop[i] : i \in 0..(n - 1)} = FreeOf(mem)
    <3>1. \A i \in 0..n - 1 : i + 1 \in 1..n /\ hop[i] = s[i + 1]
      BY <2>6
    <3>2. \A i \in 1..n : i - 1 \in 0..n - 1 /\ hop[i - 1] = s[i]
      BY <2>6
    <3>3. \A x : (\E i \in 0..n - 1 : x = hop[i]) <=> (\E i \in 1..n : x = s[i])
      BY <3>1, <3>2
    <3> QED
      BY <2>3, <3>3
  <2>8. \A b \in FreeOf(mem) \cup {freelist} : LinksMatch(mem, b)
    BY <2>1, ChainMembers
  <2> QED
    BY <2>4, <2>6, <2>7, <2>8, Parts DEF FreeListComplete, hop
<1> QED
  BY <1>1, HeapInvariant, PTL

(***************************************************************************)
(* No assertion of bget(), bgetz() or brel() fails, and bget() stores      *)
(* nothing outside the pool, whatever is released next and whatever size   *)
(* from 1 to Half - 12 (2^31 - 12) is asked.                               *)
(***************************************************************************)
THEOREM NoAssertionFails == Spec => []AssertionsHold
<1>1. ASSUME HeapInv PROVE AssertionsHold
  <2>1. CASE Fresh
    BY <2>1, FreshFacts, Parts DEF AssertionsHold
  <2>2. CASE InUse
    <3>1. PoolOk(mem) /\ BuffersOk(mem, buffers)
      BY <2>2 DEF InUse
    <3>2. \A r \in Sizes : Answers(mem, r) /\ bgetzAsserts(mem, r)
      BY <3>1, BgetPool, SizesPositive
    <3>3. \A buf \in Releasable : brelAsserts(mem, buf)
      BY <3>1, TakesBack DEF Releasable
    <3> QED
      BY <3>2, <3>3 DEF AssertionsHold, Sizes
  <2> QED
    BY <1>1, <2>1, <2>2 DEF HeapInv
<1> QED
  BY <1>1, HeapInvariant, PTL

(* The block that an address of the pool lies in. *)
LEMMA BlockOf ==
  ASSUME NEW m, PoolOk(m), NEW a \in Int, heapStart <= a, a < heapEnd
  PROVE  \E x \in BlocksOf(m) \ {heapEnd} : x <= a /\ a < Behind(m, x)
<1>1. Typed(m) /\ Tiled(m) /\ heapStart \in Nat /\ heapEnd \in Int
  BY BgetAssumption, Bounds DEF PoolOk
<1> DEFINE above == {b \in BlocksOf(m) : a < b}
<1>2. above \in SUBSET Nat /\ heapEnd \in above
  <2>1. \A b \in BlocksOf(m) : b \in Int /\ b >= heapStart
    BY <1>1, Lengths
  <2>2. \A b \in BlocksOf(m) : b \in Nat
    BY <1>1, <2>1
  <2>3. heapEnd \in BlocksOf(m)
    BY <1>1 DEF Tiled
  <2> QED
    BY <2>2, <2>3
<1>3. PICK y \in above : \A z \in above : y <= z
  <2> HIDE DEF above
  <2> QED
    BY <1>2, LeastOne
<1>4. y # heapStart /\ y \in BlocksOf(m) /\ y \in Int /\ a < y
  BY <1>1, <1>3, Lengths
<1>5. PICK x \in BlocksOf(m) \ {heapEnd} : Behind(m, x) = y
  BY <1>1, <1>4 DEF Tiled
<1>6. x < y /\ x \in Int
  BY <1>1, <1>5, OneInFront, Lengths
<1>7. x \notin above
  BY <1>3, <1>4, <1>6
<1>8. x <= a
  BY <1>6, <1>7
<1> QED
  BY <1>4, <1>5, <1>8

(***************************************************************************)
(* malloc() answers NULL only when no stretch of the pool that is free of  *)
(* buffers could hold the request and the few bytes that headers and       *)
(* rounding take: neighbours are joined, so no hole is lost in pieces.     *)
(***************************************************************************)
THEOREM OutOfMemoryIsReal == Spec => []NullOnlyWhenFull
<1>1. ASSUME HeapInv, Booted, NEW r \in Sizes, bget(mem, r).buf = NULL,
             NEW a \in heapStart..(heapEnd - r - Slack)
      PROVE  \E buf \in DOMAIN buffers : buf < a + r + Slack /\ a < buf + buffers[buf]
  <2>1. PoolOk(mem) /\ BuffersOk(mem, buffers)
    BY <1>1, PoolHasCome DEF Booted, InUse
  <2>2. /\ r \in Nat /\ r >= 1 /\ a \in Int /\ heapEnd \in Int /\ heapStart \in Int
        /\ Slack = 39 /\ heapStart <= a /\ a + r + 39 <= heapEnd
    <3>1. r \in Nat /\ r >= 1
      BY SizesPositive
    <3>2. Slack = 39 /\ heapEnd \in Int /\ heapStart \in Int
      BY Bounds DEF Slack, BhSize, SizeQ
    <3> QED
      BY <3>1, <3>2
  <2>3. Typed(mem) /\ Tiled(mem) /\ Tagged(mem)
    BY <2>1 DEF PoolOk
  <2>4. SUFFICES ASSUME \A buf \in DOMAIN buffers :
                          ~(buf < a + r + Slack /\ a < buf + buffers[buf])
                 PROVE  FALSE
    OBVIOUS
  <2>5. ASSUME NEW x \in BlocksOf(mem) \ {heapEnd}, x \in Held(mem), a < Behind(mem, x)
        PROVE  (Behind(mem, x) <= a + 23 /\ x <= a - 9) \/ x >= a + r + 31
    <3>1. x \in Int
      BY <2>3, Lengths
    <3> DEFINE buf == x + 8
               t == buffers[buf]
    <3>2. buf \in DOMAIN buffers /\ buf - 8 = x /\ buf \in Int
      <4>1. (x + 8) - BhSize = x /\ x + 8 \in Int
        BY <3>1, Numbers
      <4> QED
        BY <2>1, <2>5, <3>1, <4>1 DEF BuffersOk
    <3>3. /\ t \in Nat /\ t >= 1 /\ Behind(mem, x) \in Int
          /\ Behind(mem, x) <= buf + 24 + (IF t < 8 THEN 0 ELSE t - 5)
      BY <2>1, <3>2, BufferFacts
    <3>4. ~(buf < a + r + 39) \/ ~(a < buf + t)
      BY <2>2, <2>4, <3>2
    <3> HIDE DEF t
    <3> QED
      BY <2>2, <3>1, <3>3, <3>4
  <2>6. ASSUME NEW x \in BlocksOf(mem) \ {heapEnd}, x \in FreeOf(mem)
        PROVE  /\ Behind(mem, x) <= x + r + 7
               /\ Behind(mem, x) \in BlocksOf(mem) /\ Behind(mem, x) \notin FreeOf(mem)
    <3> DEFINE size == SizeNeeded(r)
               F == mem[x].bsize
               n == Behind(mem, x)
    <3>1. /\ size \in Nat /\ size % 4 = 0
          /\ r >= 8 => size <= r + 11
          /\ r < 8 => size = 16
      BY <2>2, SizesPositive, SizeOf
    <3>2. F < size
      BY <1>1, <2>1, <2>2, <2>6, SizesPositive, BgetPool
    <3>3. F \in Int /\ F >= 16 /\ LengthOf(mem, x) = F /\ x \in Int /\ F > 0 /\ n = x + F
      BY <2>3, <2>6, BlockFacts, Lengths DEF Behind
    <3>4. n \in BlocksOf(mem) /\ n % 4 = 0 /\ x % 4 = 0
      BY <2>3 DEF Tiled
    <3>5. n \notin FreeOf(mem)
      <4>1. mem[n].bsize < 0 /\ mem[n].bsize \in Int
        BY <2>3, <3>3, <3>4 DEF Tagged, TagRight, Typed, BlocksOf, HeaderType
      <4> QED
        BY <4>1 DEF FreeOf
    <3> HIDE DEF size, F, n
    <3>6. F % 4 = 0
      BY <3>3, <3>4
    <3>7. n <= x + r + 7
      BY <2>2, <3>1, <3>2, <3>3, <3>6
    <3> QED
      BY <3>4, <3>5, <3>7 DEF n
  <2>7. \A x \in BlocksOf(mem) \ {heapEnd} : /\ x \in FreeOf(mem) \/ x \in Held(mem)
                                             /\ x \in Int /\ Behind(mem, x) \in Int
                                             /\ x < Behind(mem, x)
    BY <2>3, FreeFacts, OneInFront, Lengths DEF Tagged
  <2>8. PICK x \in BlocksOf(mem) \ {heapEnd} : x <= a /\ a < Behind(mem, x)
    BY <2>1, <2>2, BlockOf
  <2> DEFINE y == Behind(mem, x)
             z == Behind(mem, y)
  <2>9. CASE x \in FreeOf(mem)
    <3>1. y <= a + r + 7 /\ y \in BlocksOf(mem) \ {heapEnd} /\ y \in Held(mem)
      BY <2>2, <2>6, <2>7, <2>8, <2>9
    <3>2. y < Behind(mem, y) /\ y \in Int /\ Behind(mem, y) \in Int
      BY <2>7, <3>1
    <3>3. a < Behind(mem, y)
      BY <2>2, <2>8, <3>2
    <3> QED
      BY <2>2, <2>5, <2>8, <3>1, <3>2, <3>3
  <2>10. CASE x \in Held(mem)
    <3>1. y <= a + 23 /\ y \in BlocksOf(mem) \ {heapEnd} /\ a < y /\ y \in Int
      BY <2>2, <2>3, <2>5, <2>7, <2>8, <2>10, OneInFront
    <3>2. y < z /\ z \in Int /\ a < z
      BY <2>2, <2>7, <3>1
    <3>3. CASE y \in Held(mem)
      BY <2>2, <2>5, <3>1, <3>2, <3>3
    <3>4. CASE y \in FreeOf(mem)
      <4>1. z <= a + r + 30 /\ z \in BlocksOf(mem) \ {heapEnd} /\ z \in Held(mem)
        BY <2>2, <2>6, <2>7, <3>1, <3>2, <3>4
      <4>2. z < Behind(mem, z) /\ Behind(mem, z) \in Int
        BY <2>7, <4>1
      <4>3. a < Behind(mem, z)
        BY <2>2, <3>2, <4>2
      <4> QED
        BY <2>2, <2>5, <3>2, <4>1, <4>2, <4>3
    <3> QED
      BY <2>7, <3>1, <3>3, <3>4
  <2> QED
    BY <2>7, <2>8, <2>9, <2>10
<1>2. ASSUME NEW r \in Requests, Answers(mem, Bufsize(r)), ~Representable(r)
      PROVE  heapStart..(heapEnd - r - Slack) = {}
  <2>1. r \in Nat /\ r >= Half - 11
    BY <1>2, BgetAssumption, OtherSizes
  <2>2. Slack = 39 /\ heapEnd <= Half /\ heapEnd \in Int /\ Half \in Int /\ heapStart \in Int
        /\ heapStart > 0
    BY Bounds, WordFacts DEF Slack, BhSize, SizeQ
  <2> QED
    BY <2>1, <2>2
<1>3. ASSUME HeapInv, Booted, NEW r \in Requests, Answers(mem, Bufsize(r)),
             bget(mem, Bufsize(r)).buf = NULL, NEW a \in heapStart..(heapEnd - r - Slack)
      PROVE  \E buf \in DOMAIN buffers : buf < a + r + Slack /\ a < buf + buffers[buf]
  <2>1. Representable(r)
    BY <1>2, <1>3
  <2>2. r \in Sizes /\ Bufsize(r) = r
    BY <2>1, SizesPositive DEF Sizes
  <2> QED
    BY <1>1, <1>3, <2>2
<1>4. HeapInv => NullOnlyWhenFull
  BY <1>3 DEF NullOnlyWhenFull
<1> QED
  BY <1>4, HeapInvariant, PTL
=============================================================================
