-------------------------------- MODULE Bget --------------------------------
(***************************************************************************)
(* The kernel heap: the BGET allocator of kernel/bget.c as the kernel      *)
(* compiles it (BestFit, SizeQuant 4, no statistics and no dumps) behind   *)
(* malloc(), free() and shmInit() of kernel/mem.c.  Both run with          *)
(* interrupts off, so one call is one action.  bectl() has no caller: the  *)
(* three hooks stay NULL, and the code they guard never runs.              *)
(*                                                                         *)
(* Memory is a function from the address of each block to its header; the  *)
(* links belong to the free list while the block is free and to the caller *)
(* while it is allocated.  Sizes and addresses are bytes.  A size is asked *)
(* for as an unsigned word (size_t), is handed to bget() as a signed one   *)
(* (bufsize) and rounded there: both conversions wrap.                     *)
(***************************************************************************)
EXTENDS Integers, FiniteSets, Functions

CONSTANTS
  heapStart,    \* the address memInit() gives to bpool()
  heapSize,     \* KERNEL_HEAP_SIZE
  Word,         \* 2^32, the values of a machine word
  Requests,     \* the sizes that are asked of malloc(): a system call takes any
  ShmSize,      \* 0x1000, the size of a shared memory buffer
  ShmCount      \* 100, the number of shared memory descriptors

ASSUME BgetAssumption ==
  /\ heapStart \in Nat \ {0} /\ heapStart % 4 = 0
  /\ heapSize \in Nat /\ heapSize > 32
  /\ Word \in Nat /\ Word % 8 = 0
  /\ heapStart + heapSize <= Word \div 2
  /\ Requests \subseteq 0..(Word - 1)
  /\ ShmSize \in 1..(Word \div 2 - 12)
  /\ ShmCount \in Nat

NULL      == 0
freelist  == -1         \* the address of the list's own header
SizeQuant == 4
SizeQ     == 8          \* two links
BhSize    == 8          \* sizeof(struct bhead)
ESent     == -((Word \div 4 - 1) * 2) - 2   \* as the macro has it
Callers   == -2         \* a link that holds the caller's data
Half      == Word \div 2

(* What a word is when it is taken for a signed number: a bufsize. *)
Bufsize(n) == IF n < Half THEN n ELSE n - Word

VARIABLES
  mem,       \* the header at the start of every block
  buffers,   \* the size asked for each buffer that is in use
  shared,    \* the descriptors shmInit() has given a buffer
  halted     \* "no", or what bget() ended in: "assert" or "wild store"

vars == <<mem, buffers, shared, halted>>

Header(p, s, f, b) == [prevfree |-> p, bsize |-> s, flink |-> f, blink |-> b]

Init ==
  /\ mem = [a \in {freelist} |-> Header(0, 0, freelist, freelist)]
  /\ buffers = [a \in {} |-> 0]
  /\ shared = 0
  /\ halted = "no"

-----------------------------------------------------------------------------
(* The free list.  A Mutant is a plausible bug in what follows it.         *)

LinksMatch(m, b) == m[m[b].blink].flink = b /\ m[m[b].flink].blink = b

Link(m, b) ==
  LET last == m[freelist].blink
      own  == [m EXCEPT ![b].flink = freelist, ![b].blink = last,
                        ![freelist].blink = b]
  IN  [own EXCEPT ![last].flink = b]

MutantUnlink(m, b) ==
  LET forward == [m EXCEPT ![m[b].blink].flink = m[b].flink]
  IN  [forward EXCEPT ![b].flink = Callers, ![b].blink = Callers]

Unlink(m, b) ==
  LET forward == [m EXCEPT ![m[b].blink].flink = m[b].flink]
      back    == [forward EXCEPT ![m[b].flink].blink = m[b].blink]
  IN  [back EXCEPT ![b].flink = Callers, ![b].blink = Callers]

(* The list in its order, and the head again after the last block. *)
Walk(m) ==
  LET hop[n \in 0..Cardinality(DOMAIN m)] ==
        IF n = 0 THEN m[freelist].flink
        ELSE IF hop[n - 1] = freelist THEN freelist ELSE m[hop[n - 1]].flink
  IN  hop

-----------------------------------------------------------------------------
(* bget: the first of the smallest free blocks that are large enough.  It  *)
(* is asked for a bufsize, and the size of the block is one too: a request *)
(* close below Half has no such block, and its sum comes out negative.     *)

MutantSizeNeeded(requested) ==
  Bufsize((IF requested < SizeQ THEN SizeQ ELSE requested) + BhSize)

SizeNeeded(requested) ==
  LET size == IF requested < SizeQ THEN SizeQ ELSE requested
  IN  Bufsize(SizeQuant * ((size + SizeQuant - 1) \div SizeQuant) + BhSize)

MutantBest(m, size) ==
  LET b == m[freelist].flink
  IN  IF b # freelist /\ m[b].bsize >= size THEN b ELSE freelist

Best(m, size) ==
  LET hop  == Walk(m)
      fits == {n \in DOMAIN hop : hop[n] # freelist /\ m[hop[n]].bsize >= size}
      before(n, k) == \/ m[hop[n]].bsize < m[hop[k]].bsize
                      \/ m[hop[n]].bsize = m[hop[k]].bsize /\ n <= k
  IN  IF fits = {} THEN freelist
      ELSE hop[CHOOSE n \in fits : \A k \in fits : before(n, k)]

Splits(m, b, size) == m[b].bsize - size > SizeQ + BhSize

(* The end of a large block becomes the buffer. *)
MutantSplit(m, b, size) ==
  LET ba == b + m[b].bsize - size
      bn == ba + size
      cut == [m EXCEPT ![b].bsize = @ - size, ![bn].prevfree = 0]
  IN  [a \in DOMAIN m \cup {ba} |->
         IF a = ba THEN Header(0, -size, Callers, Callers) ELSE cut[a]]

Split(m, b, size) ==
  LET ba == b + m[b].bsize - size
      bn == ba + size
      cut == [m EXCEPT ![b].bsize = @ - size, ![bn].prevfree = 0]
  IN  [a \in DOMAIN m \cup {ba} |->
         IF a = ba THEN Header(cut[b].bsize, -size, Callers, Callers) ELSE cut[a]]

(* A block without room for a remainder is handed out as it is. *)
TakeWhole(m, b) ==
  [Unlink(m, b) EXCEPT ![b].bsize = -m[b].bsize, ![b + m[b].bsize].prevfree = 0]

(* The buffer returned and the memory it leaves. *)
bget(m, requested) ==
  LET size == SizeNeeded(requested)
      b    == Best(m, size)
  IN  IF b = freelist THEN [buf |-> NULL, mem |-> m]
      ELSE IF Splits(m, b, size)
        THEN [buf |-> b + m[b].bsize - size + BhSize, mem |-> Split(m, b, size)]
        ELSE [buf |-> b + BhSize, mem |-> TakeWhole(m, b)]

bgetAsserts(m, requested) ==
  LET size == SizeNeeded(requested)
      b    == Best(m, size)
  IN  /\ requested > 0
      /\ b # freelist =>
           /\ m[b + m[b].bsize].prevfree = m[b].bsize
           /\ Splits(m, b, size) \/ LinksMatch(m, b)

(* Any free block is large enough for a negative size.  It is split, and   *)
(* the header of the buffer is stored about Half behind the block: what    *)
(* that destroys is not modelled, the kernel ends here.                    *)
Wild(m, requested) ==
  LET size == SizeNeeded(requested)
  IN  size < 0 /\ Best(m, size) # freelist

Answers(m, requested) == bgetAsserts(m, requested) /\ ~Wild(m, requested)

bgetzAsserts(m, requested) ==
  LET got == bget(m, requested)
  IN  got.buf # NULL => -got.mem[got.buf - BhSize].bsize - BhSize >= requested

-----------------------------------------------------------------------------
(* brel: the block joins the free block before it, or enters the list at   *)
(* its tail; then the free block after it, if there is one, joins it.      *)

Joined(m, b, bn) ==
  Restrict([m EXCEPT ![b].bsize = @ + m[bn].bsize], DOMAIN m \ {bn})

JoinPrevious(m, b) ==
  IF m[b].prevfree # 0
    THEN Joined([m EXCEPT ![b].bsize = -@], b - m[b].prevfree, b)
    ELSE Link([m EXCEPT ![b].bsize = -@], b)

Freed(m, b) == IF m[b].prevfree # 0 THEN b - m[b].prevfree ELSE b

JoinNext(m, b) ==
  LET bn == b + m[b].bsize
  IN  IF m[bn].bsize > 0 THEN Joined(Unlink(m, bn), b, bn) ELSE m

MutantBrel(m, buf) ==
  LET b == Freed(m, buf - BhSize)
      p == JoinPrevious(m, buf - BhSize)
      n == JoinNext(p, b)
  IN  [n EXCEPT ![b + p[b].bsize].prevfree = n[b].bsize]

brel(m, buf) ==
  LET b == Freed(m, buf - BhSize)
      n == JoinNext(JoinPrevious(m, buf - BhSize), b)
  IN  [n EXCEPT ![b + n[b].bsize].prevfree = n[b].bsize]

brelAsserts(m, buf) ==
  LET b  == buf - BhSize
      p  == JoinPrevious(m, b)
      f  == Freed(m, b)
      bn == f + p[f].bsize
      n  == JoinNext(p, f)
  IN  /\ m[b].bsize < 0
      /\ m[b - m[b].bsize].prevfree = 0
      /\ IF m[b].prevfree # 0
           THEN m[b - m[b].prevfree].bsize = m[b].prevfree
           ELSE LinksMatch(m, freelist)
      /\ p[bn].bsize > 0 =>
           p[bn + p[bn].bsize].prevfree = p[bn].bsize /\ LinksMatch(p, bn)
      /\ n[f + n[f].bsize].bsize < 0

-----------------------------------------------------------------------------
(* memInit: the pool is one free block and a sentinel that is never free.  *)
bpool ==
  /\ DOMAIN mem = {freelist}
  /\ LET len  == SizeQuant * (heapSize \div SizeQuant) - BhSize
         end  == heapStart + len
         all  == {freelist, heapStart, end}
         blocks == [a \in all |->
                      IF a = heapStart THEN Header(0, len, Callers, Callers)
                      ELSE IF a = end THEN Header(len, ESent, Callers, Callers)
                      ELSE mem[freelist]]
     IN  mem' = Link(blocks, heapStart)
  /\ UNCHANGED <<buffers, shared, halted>>

Hands(got, requested) ==
  /\ mem' = got.mem
  /\ buffers' = IF got.buf = NULL THEN buffers
                ELSE [a \in DOMAIN buffers \cup {got.buf} |->
                        IF a = got.buf THEN requested ELSE buffers[a]]

(* One round of its loop; bgetz() clears the buffer it got. *)
shmInit ==
  /\ DOMAIN mem # {freelist}
  /\ shared < ShmCount
  /\ Answers(mem, ShmSize) /\ bgetzAsserts(mem, ShmSize)
  /\ Hands(bget(mem, ShmSize), ShmSize)
  /\ shared' = shared + 1
  /\ UNCHANGED halted

Booted == DOMAIN mem # {freelist} /\ shared = ShmCount /\ halted = "no"

malloc(size) ==
  /\ Booted
  /\ Answers(mem, Bufsize(size))
  /\ Hands(bget(mem, Bufsize(size)), size)
  /\ UNCHANGED <<shared, halted>>

(* malloc() or bgetr() asks bget() for a size it does not survive: KASSERT *)
(* halts, and a header stored anywhere is not survived for long.           *)
bgetHalts(size) ==
  /\ Booted
  /\ ~Answers(mem, Bufsize(size))
  /\ halted' = IF bgetAsserts(mem, Bufsize(size)) THEN "wild store" ELSE "assert"
  /\ UNCHANGED <<mem, buffers, shared>>

khalt == halted # "no" /\ UNCHANGED vars

(* A caller releases a buffer once, and shmInit's are kept for ever. *)
Releasable == {a \in DOMAIN buffers : buffers[a] \in Requests}

free(buf) ==
  /\ Booted
  /\ buf \in Releasable
  /\ brelAsserts(mem, buf)
  /\ mem' = brel(mem, buf)
  /\ buffers' = Restrict(buffers, DOMAIN buffers \ {buf})
  /\ UNCHANGED <<shared, halted>>

(* bgetr: no caller today; the new buffer is acquired before the release. *)
bgetr(buf, size) ==
  LET got == bget(mem, Bufsize(size))
  IN  /\ Booted
      /\ buf \in Releasable
      /\ Answers(mem, Bufsize(size))
      /\ got.buf # NULL
      /\ brelAsserts(got.mem, buf)
      /\ mem' = brel(got.mem, buf)
      /\ buffers' = [a \in (DOMAIN buffers \ {buf}) \cup {got.buf} |->
                       IF a = got.buf THEN size ELSE buffers[a]]
      /\ UNCHANGED <<shared, halted>>

Next ==
  \/ bpool
  \/ shmInit
  \/ \E size \in Requests : malloc(size)
  \/ \E buf \in DOMAIN buffers : free(buf)
  \/ \E buf \in DOMAIN buffers, size \in Requests : bgetr(buf, size)
  \/ \E size \in Requests : bgetHalts(size)
  \/ khalt

Spec == Init /\ [][Next]_vars

-----------------------------------------------------------------------------

Blocks    == DOMAIN mem \ {freelist}
FreeBlocks == {b \in Blocks : mem[b].bsize > 0}
Length(b) == IF mem[b].bsize < 0 THEN -mem[b].bsize ELSE mem[b].bsize
heapEnd   == heapStart + SizeQuant * (heapSize \div SizeQuant) - BhSize

(***************************************************************************)
(* The blocks tile the pool up to the sentinel, each free block is known   *)
(* to the block behind it by its exact size, no two free blocks touch, and *)
(* the data of a caller is left alone: the boundary tags that brel()       *)
(* navigates by are right after any sequence of splits and joins.          *)
(***************************************************************************)
BoundaryTagsRight ==
  Blocks # {} =>
    /\ mem[heapStart].prevfree = 0 /\ mem[heapEnd].bsize = ESent
    /\ \A b \in Blocks \ {heapEnd} :
         LET next == b + Length(b)
         IN  /\ next \in Blocks
             /\ \A c \in Blocks : ~(b < c /\ c < next)
             /\ mem[next].prevfree = (IF b \in FreeBlocks THEN mem[b].bsize ELSE 0)
             /\ b \in FreeBlocks => next \notin FreeBlocks
             /\ b \notin FreeBlocks => mem[b].flink = Callers /\ mem[b].blink = Callers

(***************************************************************************)
(* The free list, followed forwards, meets every free block once and comes *)
(* back to its head, and its backward links are the inverse: bget() never  *)
(* hands out a block twice and loses none for good.                        *)
(***************************************************************************)
FreeListComplete ==
  LET hop == Walk(mem)
      n   == Cardinality(FreeBlocks)
  IN  /\ {hop[i] : i \in 0..(n - 1)} = FreeBlocks
      /\ hop[n] = freelist
      /\ \A b \in FreeBlocks \cup {freelist} : LinksMatch(mem, b)

(* The sizes whose block, rounded up and with its header, is a bufsize. *)
Representable(s) == s >= 1 /\ s <= Half - BhSize - SizeQuant

(***************************************************************************)
(* Whatever is released next, and whatever is asked that is at least one   *)
(* byte and whose block a bufsize can measure, no assertion of bget(),     *)
(* bgetz() or brel() fails, and bget() stores nothing outside the pool.    *)
(* Of other sizes see AlwaysAnswered.                                      *)
(***************************************************************************)
AssertionsHold ==
  Blocks # {} =>
    /\ \A s \in Requests \cup {ShmSize} :
         Representable(s) => Answers(mem, s) /\ bgetzAsserts(mem, s)
    /\ \A buf \in Releasable : brelAsserts(mem, buf)

(***************************************************************************)
(* bget.c promises a buffer of <size> bytes, "or NULL if insufficient      *)
(* memory was available": whatever size a caller names, the kernel goes on *)
(* after the call.  The code breaks it for 0 and for sizes from 2^31 - 11  *)
(* on.                                                                     *)
(***************************************************************************)
AlwaysAnswered == halted = "no"

(***************************************************************************)
(* malloc() answers NULL only when no stretch of the pool that is free of  *)
(* buffers could hold the request, the header of each neighbour, the 16    *)
(* bytes a block may be too long without being split and the 7 bytes that  *)
(* a buffer of one byte is rounded up by: joining the neighbours leaves no *)
(* hole unused because it is in pieces.                                    *)
(***************************************************************************)
Slack == 2 * BhSize + (SizeQ + BhSize) + (SizeQ - 1)

NullOnlyWhenFull ==
  Booted =>
    \A s \in Requests :
      Answers(mem, Bufsize(s)) /\ bget(mem, Bufsize(s)).buf = NULL =>
        \A a \in heapStart..(heapEnd - s - Slack) :
          \E buf \in DOMAIN buffers :
            buf < a + s + Slack /\ a < buf + buffers[buf]

(***************************************************************************)
(* The heap keeps the promise of Buffers: buffers are aligned, inside the  *)
(* pool, as long as was asked, disjoint, and live until they are released. *)
(***************************************************************************)
Heap == INSTANCE Buffers WITH
  Places <- {a \in heapStart..heapEnd : a % SizeQuant = 0},
  poolEnd <- heapEnd,
  Requests <- Requests \cup {ShmSize},
  sizeAt <- buffers

Implements == Heap!Spec
=============================================================================
