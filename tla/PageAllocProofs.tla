-------------------------- MODULE PageAllocProofs --------------------------
(***************************************************************************)
(* Proofs about PageAlloc, for any number of pages and clients, as long as *)
(* the clients leave the last page to the allocator.                       *)
(***************************************************************************)
EXTENDS PageAlloc, TLAPS

(* What every operation relies on: the four parts are inductive together. *)
PageInv == TypeOK /\ FreelistIntact /\ PagesExclusive /\ AssertionsHold

(* The list that FreelistIntact speaks of: n different pages, those marked *)
(* PAGE_AVAIL, linked from h to t.                                         *)
IsFreelist(list, n) ==
  /\ list \in [1..n -> Pages]
  /\ \A i, j \in 1..n : list[i] = list[j] => i = j
  /\ \A p \in Pages : flags[p] = "avail" <=> \E i \in 1..n : list[i] = p
  /\ n > 0
  /\ head = list[1] /\ tail = list[n]
  /\ \A i \in 1..n - 1 : next[list[i]] = list[i + 1]

(* FreelistIntact says that such a list exists. *)
LEMMA FreelistWitness == FreelistIntact <=> \E list : IsFreelist(list, count)
  BY DEF FreelistIntact, IsFreelist

(* The same for the list that a step leaves behind.                        *)
LEMMA NextFreelist ==
  ASSUME NEW list, NEW n, IsFreelist(list, n)', count' = n
  PROVE  FreelistIntact'
  BY DEF FreelistIntact, IsFreelist

(* memInit() leaves the pages linked in the order of their addresses. *)
LEMMA InitPageInv == Init => PageInv
<1> SUFFICES ASSUME Init PROVE PageInv
  OBVIOUS
<1> USE PageAssumption DEF PageAssumption
<1>1. \A i \in 1..NumPages : \A k \in 1..NumPages : pageAt[k] = pageAt[i] => k = i
  OBVIOUS
<1>2. ASSUME NEW i \in 1..NumPages
      PROVE  (CHOOSE k \in 1..NumPages : pageAt[k] = pageAt[i]) = i
  BY <1>1
<1>3. PICK last \in Garbage :
        next = [p \in Pages |->
                 IF p = pageAt[NumPages] THEN last
                 ELSE pageAt[1 + CHOOSE i \in 1..NumPages : pageAt[i] = p]]
  BY DEF Init
<1>4. ASSUME NEW i \in 1..NumPages, i # NumPages
      PROVE  next[pageAt[i]] = pageAt[i + 1]
  <2>1. pageAt[i] \in Pages /\ pageAt[i] # pageAt[NumPages]
    BY <1>4
  <2>2. next[pageAt[i]] = pageAt[1 + CHOOSE k \in 1..NumPages : pageAt[k] = pageAt[i]]
    BY <1>3, <2>1
  <2> QED BY <1>2, <2>2
<1>5. TypeOK
  <2>1. ASSUME NEW p \in Pages PROVE next[p] \in Pages \cup {NoPage}
    <3>1. PICK i \in 1..NumPages : pageAt[i] = p
      OBVIOUS
    <3>2. CASE i = NumPages
      BY <1>3, <3>1, <3>2
    <3>3. CASE i # NumPages
      BY <1>4, <3>1, <3>3
    <3> QED BY <3>2, <3>3
  <2>2. next \in [Pages -> Pages \cup {NoPage}]
    BY <1>3, <2>1
  <2>3. pageAt[1] \in Pages /\ pageAt[NumPages] \in Pages
    OBVIOUS
  <2> QED BY <2>2, <2>3 DEF Init, TypeOK
<1>6. IsFreelist(pageAt, count)
  <2>1. \A p \in Pages : flags[p] = "avail" <=> \E i \in 1..count : pageAt[i] = p
    BY DEF Init
  <2>2. count = NumPages
    BY DEF Init
  <2>3. \A i \in 1..count - 1 : next[pageAt[i]] = pageAt[i + 1]
    BY <1>4, <2>2
  <2> QED BY <2>1, <2>3 DEF Init, IsFreelist
<1>7. PagesExclusive /\ AssertionsHold
  BY DEF Init, PagesExclusive, AssertionsHold
<1> QED BY <1>5, <1>6, <1>7, FreelistWitness DEF PageInv

(* getFreelistPage(): the head leaves the list and what follows it stays.  *)
(* The list is not emptied, so the stale next of its last page is not used. *)
LEMMA TakeHead ==
  ASSUME NEW list, NEW n \in Nat, n > 1, IsFreelist(list, n), TypeOK,
         getFreelistPage
  PROVE  /\ IsFreelist([i \in 1..n - 1 |-> list[i + 1]], n - 1)'
         /\ head' \in Pages /\ tail' \in Pages
<1> DEFINE rest == [i \in 1..n - 1 |-> list[i + 1]]
<1>1. /\ list \in [1..n -> Pages]
      /\ head = list[1] /\ tail = list[n]
      /\ \A i, j \in 1..n : list[i] = list[j] => i = j
  BY DEF IsFreelist
<1>2. head # tail
  BY <1>1
<1>3. /\ flags' = [flags EXCEPT ![head] = "alloc"]
      /\ head' = next[head] /\ tail' = tail /\ next' = next
  BY <1>2 DEF getFreelistPage
<1>4. rest \in [1..n - 1 -> Pages]
  BY <1>1
<1>5. \A i, j \in 1..n - 1 : rest[i] = rest[j] => i = j
  BY <1>1
<1>6. ASSUME NEW p \in Pages
      PROVE  flags'[p] = "avail" <=> \E i \in 1..n - 1 : rest[i] = p
  <2>1. flags[p] = "avail" <=> \E i \in 1..n : list[i] = p
    BY DEF IsFreelist
  <2>2. flags'[p] = "avail" <=> flags[p] = "avail" /\ p # list[1]
    BY <1>1, <1>3 DEF TypeOK
  <2>3. ASSUME NEW i \in 1..n, list[i] = p, p # list[1]
        PROVE  i - 1 \in 1..n - 1 /\ rest[i - 1] = p
    BY <2>3
  <2>4. ASSUME NEW i \in 1..n - 1, rest[i] = p
        PROVE  i + 1 \in 1..n /\ list[i + 1] = p /\ p # list[1]
    BY <2>4, <1>1
  <2> QED BY <2>1, <2>2, <2>3, <2>4
<1>7. head' = rest[1] /\ tail' = rest[n - 1]
  <2>1. next[list[1]] = list[1 + 1]
    BY DEF IsFreelist
  <2> QED BY <2>1, <1>1, <1>3
<1>8. \A i \in 1..(n - 1) - 1 : next'[rest[i]] = rest[i + 1]
  <2>1. \A i \in 1..n - 1 : next[list[i]] = list[i + 1]
    BY DEF IsFreelist
  <2> QED BY <2>1, <1>3
<1> HIDE DEF rest
<1>9. head' \in Pages /\ tail' \in Pages
  <2>1. 1 \in 1..n - 1 /\ n - 1 \in 1..n - 1
    OBVIOUS
  <2> QED BY <2>1, <1>4, <1>7
<1>10. IsFreelist(rest, n - 1)'
  BY <1>4, <1>5, <1>6, <1>7, <1>8 DEF IsFreelist
<1> QED BY <1>9, <1>10 DEF rest

(* freelistPageAdd(): a page that is marked PAGE_ALLOC is on no list, so   *)
(* that it can become the last one.                                        *)
LEMMA AddTail ==
  ASSUME NEW list, NEW n \in Nat, IsFreelist(list, n), TypeOK,
         NEW p \in Pages, flags[p] = "alloc", freelistPageAdd(p)
  PROVE  /\ IsFreelist([i \in 1..n + 1 |-> IF i = n + 1 THEN p ELSE list[i]], n + 1)'
         /\ head' \in Pages /\ tail' \in Pages
         /\ next' \in [Pages -> Pages \cup {NoPage}]
<1> DEFINE longer == [i \in 1..n + 1 |-> IF i = n + 1 THEN p ELSE list[i]]
<1>1. /\ list \in [1..n -> Pages] /\ n > 0
      /\ head = list[1] /\ tail = list[n]
      /\ \A i, j \in 1..n : list[i] = list[j] => i = j
      /\ \A i \in 1..n : flags[list[i]] = "avail"
  BY DEF IsFreelist
<1>2. head \in Pages /\ tail \in Pages /\ head # NoPage /\ tail # NoPage
  BY <1>1, PageAssumption DEF PageAssumption
<1>3. /\ flags' = [flags EXCEPT ![p] = "avail"]
      /\ head' = head /\ tail' = p /\ next' = [next EXCEPT ![tail] = p]
  BY <1>2 DEF freelistPageAdd
<1>4. \A i \in 1..n : list[i] # p
  BY <1>1
<1>5. longer \in [1..n + 1 -> Pages]
  BY <1>1
<1>6. \A i, j \in 1..n + 1 : longer[i] = longer[j] => i = j
  BY <1>1, <1>4
<1>7. ASSUME NEW r \in Pages
      PROVE  flags'[r] = "avail" <=> \E i \in 1..n + 1 : longer[i] = r
  <2>1. flags[r] = "avail" <=> \E i \in 1..n : list[i] = r
    BY DEF IsFreelist
  <2>2. flags'[r] = "avail" <=> flags[r] = "avail" \/ r = p
    BY <1>3 DEF TypeOK
  <2>3. longer[n + 1] = p /\ \A i \in 1..n : longer[i] = list[i]
    BY <1>1
  <2> HIDE DEF longer
  <2>4. \A i \in 1..n + 1 : i = n + 1 \/ i \in 1..n
    OBVIOUS
  <2>5. (\E i \in 1..n + 1 : longer[i] = r)
          <=> (\E i \in 1..n : list[i] = r) \/ r = p
    BY <2>3, <2>4
  <2> QED BY <2>1, <2>2, <2>5
<1>8. head' = longer[1] /\ tail' = longer[n + 1]
  BY <1>1, <1>3
<1>9. ASSUME NEW i \in 1..(n + 1) - 1
      PROVE  next'[longer[i]] = longer[i + 1]
  <2>1. longer[i] = list[i] /\ list[i] \in Pages /\ i \in 1..n
    BY <1>1
  <2>2. CASE i = n
    BY <2>1, <2>2, <1>1, <1>2, <1>3 DEF TypeOK
  <2>3. CASE i # n
    <3>1. next[list[i]] = list[i + 1]
      BY <2>3 DEF IsFreelist
    <3>2. list[i] # tail
      BY <1>1, <2>1, <2>3
    <3>3. next'[list[i]] = next[list[i]]
      BY <1>3, <2>1, <3>2 DEF TypeOK
    <3> QED BY <2>1, <2>3, <3>1, <3>3
  <2> QED BY <2>2, <2>3
<1>10. next' \in [Pages -> Pages \cup {NoPage}]
  BY <1>3 DEF TypeOK
<1> HIDE DEF longer
<1>11. IsFreelist(longer, n + 1)'
  BY <1>5, <1>6, <1>7, <1>8, <1>9, <1>1 DEF IsFreelist
<1> QED BY <1>2, <1>3, <1>10, <1>11 DEF longer

(* Every operation preserves the four parts.                               *)
LEMMA NextPageInv ==
  ASSUME ~MayDrain, PageInv, [Next]_vars
  PROVE  PageInv'
<1>0. TypeOK /\ PagesExclusive /\ ~halted /\ FreelistIntact
  BY DEF PageInv, AssertionsHold
<1> PICK n \in Nat : n = count
  BY <1>0 DEF TypeOK
<1>1. PICK list : n = count /\ IsFreelist(list, n)
  BY <1>0, FreelistWitness
<1>2. n > 0 /\ head = list[1] /\ head \in Pages /\ head # NoPage /\ flags[head] = "avail"
  BY <1>1, PageAssumption DEF IsFreelist, PageAssumption
<1>3. CASE UNCHANGED vars
  <2>1. TypeOK' /\ PagesExclusive' /\ AssertionsHold'
    BY <1>0, <1>3 DEF vars, TypeOK, PagesExclusive, AssertionsHold
  <2>2. IsFreelist(list, n)' /\ count' = n
    BY <1>1, <1>3 DEF vars, IsFreelist
  <2> QED BY <2>1, <2>2, NextFreelist DEF PageInv
<1>4. ASSUME NEW c \in Clients, allocPage(c)
      PROVE  PageInv'
  <2>1. n > 1
    BY <1>1, <1>4 DEF allocPage
  <2>2. getFreelistPage /\ held' = [held EXCEPT ![c] = @ \cup {head}] /\ halted' = halted
    BY <1>1, <1>2, <1>4, <2>1 DEF allocPage
  <2>3. /\ IsFreelist([i \in 1..n - 1 |-> list[i + 1]], n - 1)'
        /\ head' \in Pages /\ tail' \in Pages
    BY <1>0, <1>1, <2>1, <2>2, TakeHead
  <2>4. /\ flags' = [flags EXCEPT ![head] = "alloc"] /\ next' = next
        /\ count' = n - 1
    BY <1>1, <2>2 DEF getFreelistPage
  <2>5. FreelistIntact'
    BY <2>3, <2>4, NextFreelist
  <2>6. TypeOK'
    BY <1>0, <1>2, <2>1, <2>2, <2>3, <2>4 DEF TypeOK
  <2>7. PagesExclusive'
    <3>1. \A d \in Clients : head \notin held[d]
      BY <1>0, <1>2 DEF PagesExclusive
    <3> QED BY <1>0, <1>2, <2>2, <2>4, <3>1 DEF TypeOK, PagesExclusive
  <2> QED BY <1>0, <2>2, <2>5, <2>6, <2>7 DEF PageInv, AssertionsHold
<1>5. ASSUME NEW c \in Clients, NEW p \in Pages, freePage(c, p)
      PROVE  PageInv'
  <2>1. p \in held[c] /\ flags[p] = "alloc"
    BY <1>0, <1>5 DEF freePage, PagesExclusive
  <2>2. freelistPageAdd(p) /\ held' = [held EXCEPT ![c] = @ \ {p}] /\ halted' = halted
    BY <1>5, <2>1 DEF freePage
  <2>3. /\ IsFreelist([i \in 1..n + 1 |-> IF i = n + 1 THEN p ELSE list[i]], n + 1)'
        /\ head' \in Pages /\ tail' \in Pages
        /\ next' \in [Pages -> Pages \cup {NoPage}]
    BY <1>0, <1>1, <2>1, <2>2, AddTail
  <2>4. flags' = [flags EXCEPT ![p] = "avail"] /\ count' = n + 1
    BY <1>1, <2>2 DEF freelistPageAdd
  <2>5. FreelistIntact'
    BY <2>3, <2>4, NextFreelist
  <2>6. TypeOK'
    BY <1>0, <1>1, <2>2, <2>3, <2>4 DEF TypeOK
  <2>7. PagesExclusive'
    <3>1. \A d \in Clients : d # c => p \notin held[d]
      BY <1>0, <2>1 DEF PagesExclusive
    <3> QED BY <1>0, <2>1, <2>2, <2>4, <3>1 DEF TypeOK, PagesExclusive
  <2> QED BY <1>0, <2>2, <2>5, <2>6, <2>7 DEF PageInv, AssertionsHold
<1> QED BY <1>3, <1>4, <1>5 DEF Next

(***************************************************************************)
(* As long as the clients leave the last page to the allocator, the free   *)
(* list is intact, for any number of pages and clients.                    *)
(***************************************************************************)
THEOREM PageInvariance == ASSUME ~MayDrain PROVE Spec => []PageInv
<1>1. Init => PageInv
  BY InitPageInv
<1>2. PageInv /\ [Next]_vars => PageInv'
  BY NextPageInv
<1> QED
  BY <1>1, <1>2, PTL DEF Spec
(* The list reached from the head consists of the pages marked PAGE_AVAIL. *)
THEOREM FreelistStaysIntact == ASSUME ~MayDrain PROVE Spec => []FreelistIntact
<1>1. PageInv => FreelistIntact
  BY DEF PageInv
<1> QED
  BY <1>1, PageInvariance, PTL

(* No page is handed out twice.                                            *)
THEOREM PagesStayExclusive == ASSUME ~MayDrain PROVE Spec => []PagesExclusive
<1>1. PageInv => PagesExclusive
  BY DEF PageInv
<1> QED
  BY <1>1, PageInvariance, PTL

free == {p \in Pages : flags[p] = "avail"}
used == UNION {held[c] : c \in Clients}

(* What a step does to the set of the pages that somebody holds.           *)
LEMMA UsedGrows ==
  ASSUME TypeOK, NEW c \in Clients, NEW p, held' = [held EXCEPT ![c] = @ \cup {p}]
  PROVE  used' = used \cup {p}
<1>1. held'[c] = held[c] \cup {p} /\ \A d \in Clients : d # c => held'[d] = held[d]
  BY DEF TypeOK
<1>2. ASSUME NEW x
      PROVE  (\E d \in Clients : x \in held'[d]) <=> x = p \/ \E d \in Clients : x \in held[d]
  BY <1>1
<1> QED BY <1>2 DEF used

(* And the same when a page is given back. *)
LEMMA UsedShrinks ==
  ASSUME TypeOK, PagesExclusive, NEW c \in Clients, NEW p \in held[c],
         held' = [held EXCEPT ![c] = @ \ {p}]
  PROVE  p \in used /\ used' = used \ {p}
<1>1. held'[c] = held[c] \ {p} /\ \A d \in Clients : d # c => held'[d] = held[d]
  BY DEF TypeOK
<1>2. \A d \in Clients : d # c => p \notin held[d]
  BY DEF PagesExclusive
<1>3. ASSUME NEW x
      PROVE  (\E d \in Clients : x \in held'[d]) <=> x # p /\ \E d \in Clients : x \in held[d]
  BY <1>1, <1>2
<1> QED BY <1>3 DEF used

(* The KASSERTs of getFreelistPage() and freePage() hold, likewise.        *)
THEOREM PageAssertions == ASSUME ~MayDrain PROVE Spec => []AssertionsHold
<1>1. PageInv => AssertionsHold
  BY DEF PageInv
<1> QED
  BY <1>1, PageInvariance, PTL

(* memInit() establishes the initial state of PageSet.                     *)
LEMMA InitImplements == Init => Allocator!Init
  BY DEF Init, Allocator!Init

(* Every operation is an operation of PageSet or changes nothing there.    *)
LEMMA NextImplements ==
  ASSUME ~MayDrain, PageInv, [Next]_vars
  PROVE  [Allocator!Next]_<<free, used>>
<1>0. TypeOK /\ PagesExclusive /\ ~halted /\ FreelistIntact
  BY DEF PageInv, AssertionsHold
<1> PICK n \in Nat : n = count
  BY <1>0 DEF TypeOK
<1>1. PICK list : n = count /\ IsFreelist(list, n)
  BY <1>0, FreelistWitness
<1>2. n > 0 /\ head \in Pages /\ head # NoPage /\ flags[head] = "avail"
  BY <1>1, PageAssumption DEF IsFreelist, PageAssumption
<1>3. CASE UNCHANGED vars
  BY <1>3 DEF vars, free, used
<1>4. ASSUME NEW c \in Clients, allocPage(c)
      PROVE  Allocator!Next
  <2> PICK p \in Pages : p = head
    BY <1>2
  <2>1. /\ flags' = [flags EXCEPT ![p] = "alloc"]
        /\ held' = [held EXCEPT ![c] = @ \cup {p}]
    BY <1>1, <1>2, <1>4 DEF allocPage, getFreelistPage
  <2>2. free' = free \ {p} /\ p \in free
    BY <1>0, <1>2, <2>1 DEF free, TypeOK
  <2>3. used' = used \cup {p}
    BY <1>0, <2>1, UsedGrows
  <2>4. Allocator!allocPage(p)
    BY <2>2, <2>3 DEF Allocator!allocPage, free, used
  <2> QED BY <2>4 DEF Allocator!Next
<1>5. ASSUME NEW c \in Clients, NEW p \in Pages, freePage(c, p)
      PROVE  Allocator!Next
  <2>1. p \in held[c] /\ flags[p] = "alloc"
    BY <1>0, <1>5 DEF freePage, PagesExclusive
  <2>2. /\ flags' = [flags EXCEPT ![p] = "avail"]
        /\ held' = [held EXCEPT ![c] = @ \ {p}]
    BY <1>5, <2>1 DEF freePage, freelistPageAdd
  <2>3. free' = free \cup {p}
    BY <1>0, <2>2 DEF free, TypeOK
  <2>4. p \in used /\ used' = used \ {p}
    BY <1>0, <2>1, <2>2, UsedShrinks
  <2>5. Allocator!freePage(p)
    BY <2>3, <2>4 DEF Allocator!freePage, free, used
  <2> QED BY <2>5 DEF Allocator!Next
<1> QED BY <1>3, <1>4, <1>5 DEF Next

(***************************************************************************)
(* The linked list implements the set of free pages that createThread()    *)
(* and destroyThread() rely on.                                            *)
(***************************************************************************)
THEOREM Refinement == ASSUME ~MayDrain PROVE Spec => Implements
<1>1. Init => Allocator!Init
  BY InitImplements
<1>2. PageInv /\ [Next]_vars => [Allocator!Next]_<<free, used>>
  BY NextImplements
<1> QED
  BY <1>1, <1>2, PageInvariance, PTL DEF Spec, Implements, Allocator!Spec, free, used
=============================================================================
