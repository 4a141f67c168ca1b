----------------------------- MODULE PageAlloc -----------------------------
(***************************************************************************)
(* The page allocator of kernel/mem.c: a list of free pages with a head, a *)
(* tail and a count, threaded through the field next of the page array.    *)
(* Every operation runs between begIntAtomic() and endIntAtomic(), so one  *)
(* operation is one action.                                                *)
(***************************************************************************)
EXTENDS Naturals

CONSTANTS
  Clients,     \* the threads that call allocPage() and freePage()
  Pages,       \* the pages between heapEnd and endOfMemory
  NoPage,      \* the NULL page_t*
  NumPages,    \* how many they are
  pageAt,      \* the pages in the order of their addresses, from 1
  Garbage,     \* what the memory of the page array may hold before memInit
  MayDrain     \* FALSE: the clients leave the last page to the allocator

ASSUME PageAssumption ==
  /\ NoPage \notin Pages
  /\ NumPages \in Nat \ {0}
  /\ pageAt \in [1..NumPages -> Pages]
  /\ \A p \in Pages : \E i \in 1..NumPages : pageAt[i] = p
  /\ \A i, j \in 1..NumPages : pageAt[i] = pageAt[j] => i = j
  /\ Garbage \subseteq Pages \cup {NoPage}
  /\ MayDrain \in BOOLEAN

VARIABLES
  flags,   \* page_t.flags: "avail" or "alloc"
  next,    \* page_t.next
  head,    \* g_freePageHead
  tail,    \* g_freePageTail
  count,   \* g_freePageCount
  held,    \* the pages each client got and has not freed
  halted   \* a KASSERT has failed

vars == <<flags, next, head, tail, count, held, halted>>

(***************************************************************************)
(* memInit: markPageRange(heapEnd, endOfMemory, PAGE_AVAIL) adds one page  *)
(* after the other; the next field of the last is never written.           *)
(***************************************************************************)
Init ==
  /\ flags = [p \in Pages |-> "avail"]
  /\ \E last \in Garbage :
       next = [p \in Pages |->
                 IF p = pageAt[NumPages] THEN last
                 ELSE pageAt[1 + CHOOSE i \in 1..NumPages : pageAt[i] = p]]
  /\ head = pageAt[1]
  /\ tail = pageAt[NumPages]
  /\ count = NumPages
  /\ held = [c \in Clients |-> {}]
  /\ halted = FALSE

KASSERTFails == halted' = TRUE /\ UNCHANGED <<flags, next, head, tail, count, held>>

(* A Mutant is a plausible bug in the definition that follows it.          *)

MutantGetFreelistPage ==
  /\ flags' = [flags EXCEPT ![head] = "alloc"]
  /\ head' = IF head = tail THEN next[head] ELSE head
  /\ tail' = IF head = tail THEN NoPage ELSE tail
  /\ count' = count - 1
  /\ UNCHANGED next

MutantForgetsFlag ==
  /\ head' = next[head]
  /\ tail' = IF head = tail THEN NoPage ELSE tail
  /\ count' = count - 1
  /\ UNCHANGED <<next, flags>>

(* The page taken is the head; its next becomes the head in any case.      *)
getFreelistPage ==
  /\ flags' = [flags EXCEPT ![head] = "alloc"]
  /\ head' = next[head]
  /\ tail' = IF head = tail THEN NoPage ELSE tail
  /\ count' = count - 1
  /\ UNCHANGED next

MutantKeepsTail(p) ==
  /\ flags' = [flags EXCEPT ![p] = "avail"]
  /\ head' = IF head = NoPage THEN p ELSE head
  /\ next' = IF tail = NoPage THEN next ELSE [next EXCEPT ![tail] = p]
  /\ tail' = IF tail = NoPage THEN p ELSE tail
  /\ count' = count + 1

freelistPageAdd(p) ==
  /\ flags' = [flags EXCEPT ![p] = "avail"]
  /\ head' = IF head = NoPage THEN p ELSE head
  /\ next' = IF tail = NoPage THEN next ELSE [next EXCEPT ![tail] = p]
  /\ tail' = p
  /\ count' = count + 1

(* NULL is returned, and nothing changes, when the count is 0. *)
allocPage(c) ==
  /\ ~halted
  /\ MayDrain \/ count > 1
  /\ IF count = 0 THEN UNCHANGED vars
     ELSE IF head = NoPage THEN KASSERTFails
     ELSE /\ getFreelistPage
          /\ held' = [held EXCEPT ![c] = @ \cup {head}]
          /\ UNCHANGED halted

freePage(c, p) ==
  /\ ~halted
  /\ p \in held[c]
  /\ IF flags[p] # "alloc" THEN KASSERTFails
     ELSE /\ freelistPageAdd(p)
          /\ held' = [held EXCEPT ![c] = @ \ {p}]
          /\ UNCHANGED halted

Next == \E c \in Clients : allocPage(c) \/ \E p \in Pages : freePage(c, p)

Spec == Init /\ [][Next]_vars

-----------------------------------------------------------------------------

(* Every variable holds a value of its C type. *)
TypeOK ==
  /\ flags \in [Pages -> {"avail", "alloc"}]
  /\ next \in [Pages -> Pages \cup {NoPage}]
  /\ head \in Pages \cup {NoPage}
  /\ tail \in Pages \cup {NoPage}
  /\ count \in Nat
  /\ held \in [Clients -> SUBSET Pages]
  /\ halted \in BOOLEAN

(***************************************************************************)
(* The list reached from the head has as many pages as the count says,     *)
(* ends in the tail and consists of exactly the pages marked PAGE_AVAIL.   *)
(***************************************************************************)
FreelistIntact ==
  \E list \in [1..count -> Pages] :
    /\ \A i, j \in 1..count : list[i] = list[j] => i = j
    /\ \A p \in Pages : flags[p] = "avail" <=> \E i \in 1..count : list[i] = p
    /\ count > 0
    /\ head = list[1] /\ tail = list[count]
    /\ \A i \in 1..count - 1 : next[list[i]] = list[i + 1]

(* A page that was handed out is marked so and belongs to one client. *)
PagesExclusive ==
  /\ \A c \in Clients : \A p \in held[c] : flags[p] = "alloc"
  /\ \A c, d \in Clients : c # d => held[c] \cap held[d] = {}

(* The assertions of getFreelistPage() and freePage() hold. *)
AssertionsHold == ~halted

(***************************************************************************)
(* "If we just emptied the freelist, NULL the head/tail" (the comment in   *)
(* getFreelistPage()).                                                     *)
(***************************************************************************)
EmptyListHasNoHead == count = 0 => head = NoPage /\ tail = NoPage

(***************************************************************************)
(* The allocator keeps the promise of PageSet as long as its clients leave *)
(* it a page: every page it hands out was free.                            *)
(***************************************************************************)
Allocator == INSTANCE PageSet WITH
  free <- {p \in Pages : flags[p] = "avail"},
  used <- UNION {held[c] : c \in Clients}

Implements == Allocator!Spec
=============================================================================
