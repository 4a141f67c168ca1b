----------------------------- MODULE ThreadList -----------------------------
(***************************************************************************)
(* The list of all threads of kernel/thread.c, which createThread() walks  *)
(* and extends with interrupts on, while the reaper destroys threads with  *)
(* interrupts off.  PageAlloc.tla models allocPage() and freePage().       *)
(***************************************************************************)
EXTENDS Tasks

CONSTANTS
  Pages,        \* the pages for threads and stacks
  Null,
  Old           \* the threads there are at first, as a sequence

AllThreadHead == "allThreadHead"

ASSUME ThreadListAssumption ==
  /\ IsFiniteSet(Pages) /\ Null \notin Pages
  /\ AllThreadHead \notin Pages /\ AllThreadHead # Null
  /\ Old \in Seq(Pages)
  /\ \A m, n \in DOMAIN Old : Old[m] = Old[n] => m = n

Olds == {Old[n] : n \in DOMAIN Old}

VARIABLES
  freePages,
  next,             \* thread_t.listNext of each page, and allThreadHead
  next_free_id,
  created,          \* the threads that were added, until they are destroyed
  ids,              \* thread_t.id of each page
  stacks,           \* the pages of its stacks
  new,              \* the thread that each task creates
  link,             \* allThreadsAdd's t: whose next it points to
  overtaken,        \* the list changed where a thread was about to be linked
  reused            \* two threads loaded the same next_free_id

listVars == <<freePages, next, next_free_id, created, ids, stacks, new, link,
              overtaken, reused>>

ListInit ==
  /\ freePages = Pages \ Olds
  /\ next = [p \in Pages \cup {AllThreadHead} |->
       IF p = AllThreadHead THEN (IF Old = <<>> THEN Null ELSE Old[1])
       ELSE IF \E n \in 2..Len(Old) : Old[n - 1] = p
         THEN Old[CHOOSE n \in 2..Len(Old) : Old[n - 1] = p]
         ELSE Null]
  /\ next_free_id = Len(Old)
  /\ ids = [p \in Pages |-> IF p \in Olds THEN (CHOOSE n \in DOMAIN Old : Old[n] = p) - 1 ELSE 0]
  /\ created = Olds
  /\ stacks = [p \in Pages |-> {}]
  /\ new = [t \in Tasks |-> Null] /\ link = [t \in Tasks |-> Null]
  /\ overtaken = FALSE /\ reused = FALSE

(* What can be reached from a place of the list.                           *)
Reached(places) ==
  LET far[n \in 0..Cardinality(Pages)] ==
        IF n = 0 THEN places
        ELSE LET near == far[n - 1] IN near \cup {next[p] : p \in near \ {Null}}
  IN  far[Cardinality(Pages)] \ {AllThreadHead, Null}

Listed == Reached({AllThreadHead})

-----------------------------------------------------------------------------
(* createThread: the pages, then initThread, then allThreadsAdd.           *)

fails(t) ==
  /\ freePages = {}
  /\ freePages' = IF new[t] = Null THEN {} ELSE {new[t]} \cup stacks[new[t]]
  /\ new' = [new EXCEPT ![t] = Null]
  /\ Returns(t)
  /\ UNCHANGED stacks

allocates(t) ==
  \/ /\ In(t, "createThread", "in")
     /\ \/ fails(t)
        \/ \E p \in freePages :
             /\ new' = [new EXCEPT ![t] = p] /\ freePages' = freePages \ {p}
             /\ stacks' = [stacks EXCEPT ![p] = {}]
             /\ Goto(t, "stack")
  \/ \E place \in {"stack", "userStack"} :
       /\ In(t, "createThread", place)
       /\ \/ fails(t)
          \/ \E p \in freePages :
               /\ freePages' = freePages \ {p}
               /\ stacks' = [stacks EXCEPT ![new[t]] = @ \cup {p}]
               /\ Goto(t, IF place = "stack" /\ Call(t).usermode THEN "userStack" ELSE "load")
               /\ UNCHANGED new

(* next_free_id++ is a load and a store.                                   *)
initThread(t) ==
  \/ /\ In(t, "createThread", "load")
     /\ next' = [next EXCEPT ![new[t]] = Null]
     /\ ids' = [ids EXCEPT ![new[t]] = next_free_id]
     /\ Goto(t, "store")
     /\ UNCHANGED <<next_free_id, reused>>
  \/ /\ In(t, "createThread", "store")
     /\ next_free_id' = ids[new[t]] + 1
     /\ reused' = (reused \/ next_free_id # ids[new[t]])
     /\ Goto(t, "add")
     /\ UNCHANGED <<next, ids>>

allThreadsAdd(t) ==
  \/ /\ In(t, "createThread", "add")
     /\ next' = [next EXCEPT ![new[t]] = Null]
     /\ link' = [link EXCEPT ![t] = AllThreadHead]
     /\ Goto(t, "walk")
     /\ UNCHANGED <<created, new, overtaken>>
  \/ /\ In(t, "createThread", "walk")
     /\ IF next[link[t]] = Null THEN Goto(t, "link") /\ UNCHANGED link
        ELSE IF next[link[t]] = new[t] THEN KASSERTFails("allThreadsAdd") /\ UNCHANGED link
        ELSE Goto(t, "walk") /\ link' = [link EXCEPT ![t] = next[link[t]]]
     /\ UNCHANGED <<next, created, new, overtaken>>
  \/ /\ In(t, "createThread", "link")
     /\ next' = [next EXCEPT ![link[t]] = new[t]]
     /\ overtaken' = (overtaken \/ next[link[t]] # Null
                        \/ link[t] \notin Listed \cup {AllThreadHead})
     /\ created' = created \cup {new[t]}
     /\ new' = [new EXCEPT ![t] = Null] /\ link' = [link EXCEPT ![t] = Null]
     /\ Returns(t)

createThread(t) ==
  \/ allocates(t) /\ UNCHANGED <<next, next_free_id, created, ids, link, overtaken, reused>>
  \/ initThread(t) /\ UNCHANGED <<freePages, created, stacks, new, link, overtaken>>
  \/ allThreadsAdd(t) /\ UNCHANGED <<freePages, next_free_id, ids, stacks, reused>>

-----------------------------------------------------------------------------
(* destroyThread, called by the reaper: interrupts are off throughout.     *)

MutantAllThreadsRemove(p) ==
  next' = [x \in DOMAIN next |-> IF x = p THEN Null
                                 ELSE IF x = AllThreadHead /\ next[x] = p THEN next[p]
                                 ELSE next[x]]

(* Only the first link to the thread is looked for: there is only one.     *)
allThreadsRemove(p) ==
  next' = [x \in DOMAIN next |-> IF x = p THEN Null
                                 ELSE IF x \in Listed \cup {AllThreadHead} /\ next[x] = p
                                   THEN next[p]
                                 ELSE next[x]]

destroyThread(t) ==
  /\ In(t, "destroyThread", "in")
  /\ \E p \in created :
       /\ freePages' = freePages \cup {p} \cup stacks[p]
       /\ stacks' = [stacks EXCEPT ![p] = {}]
       /\ created' = created \ {p}
       /\ allThreadsRemove(p)
  /\ Returns(t)
  /\ UNCHANGED <<next_free_id, ids, new, link, overtaken, reused>>

listSteps(t) == createThread(t) \/ destroyThread(t)

-----------------------------------------------------------------------------
(***************************************************************************)
(* The list has every thread that was created and not destroyed, and no    *)
(* page besides; no id is given twice.  That is lost only if an            *)
(* allThreadsAdd was overtaken between its test for the end of the list    *)
(* and its store: by another one there, or by the destruction of the       *)
(* thread that it stood at; for the ids, if next_free_id++ was.            *)
(***************************************************************************)
ListComplete ==
  /\ ~overtaken => Listed = created /\ halted # "allThreadsAdd"
  /\ ~reused => \A p, q \in created : p # q => ids[p] # ids[q]
=============================================================================
