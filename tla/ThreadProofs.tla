---------------------------- MODULE ThreadProofs ----------------------------
(***************************************************************************)
(* Proofs about Thread: the queue operators, and the inductive invariant   *)
(* Inv, for any number of threads, wait queues and ticks.                  *)
(***************************************************************************)
EXTENDS Thread, SequenceTheorems, TLAPS

-----------------------------------------------------------------------------
(* Sequences as linked lists.                                              *)

(* A removed element closes the gap that it leaves. *)
LEMMA Removal ==
  ASSUME NEW S, NEW s \in Seq(S), NEW i \in DOMAIN s
  PROVE  /\ RemoveAt(s, i) \in Seq(S)
         /\ Len(RemoveAt(s, i)) = Len(s) - 1
         /\ \A j \in 1..Len(s) - 1 :
              RemoveAt(s, i)[j] = IF j < i THEN s[j] ELSE s[j + 1]
<1> DEFINE a == SubSeq(s, 1, i - 1)
           b == SubSeq(s, i + 1, Len(s))
<1>1. /\ i \in 1..Len(s) /\ Len(s) \in Nat /\ i \in Int /\ i - 1 \in Int
      /\ i + 1 \in Int /\ Len(s) \in Int /\ 1 \in Int
      /\ \A k \in 1..Len(s) : s[k] \in S
  BY LenProperties
<1>2. /\ a \in Seq(S) /\ Len(a) = i - 1
      /\ \A j \in 1..i - 1 : a[j] = s[j]
  <2>1. \A k \in 1..i - 1 : s[k] \in S
    BY <1>1
  <2>2. /\ a \in Seq(S)
        /\ Len(a) = IF 1 <= i - 1 THEN i - 1 - 1 + 1 ELSE 0
        /\ \A j \in 1 .. i - 1 - 1 + 1 : a[j] = s[1 + j - 1]
    BY <1>1, <2>1, SubSeqProperties
  <2> QED
    BY <1>1, <2>2
<1>3. /\ b \in Seq(S) /\ Len(b) = Len(s) - i
      /\ \A j \in 1..Len(s) - i : b[j] = s[i + j]
  <2>1. \A k \in i + 1..Len(s) : s[k] \in S
    BY <1>1
  <2>2. /\ b \in Seq(S)
        /\ Len(b) = IF i + 1 <= Len(s) THEN Len(s) - (i + 1) + 1 ELSE 0
        /\ \A j \in 1 .. Len(s) - (i + 1) + 1 : b[j] = s[i + 1 + j - 1]
    BY <1>1, <2>1, SubSeqProperties
  <2> HIDE DEF a, b
  <2>3. Len(b) = Len(s) - i
    BY <1>1, <2>2
  <2>4. Len(s) - (i + 1) + 1 = Len(s) - i
    BY <1>1
  <2>5. ASSUME NEW j \in 1..Len(s) - i PROVE b[j] = s[i + j]
    <3>1. b[j] = s[i + 1 + j - 1]
      BY <2>2, <2>4
    <3>2. i + 1 + j - 1 = i + j
      BY <1>1
    <3> QED
      BY <3>1, <3>2
  <2> QED
    BY <2>2, <2>3, <2>5
<1>4. /\ a \o b \in Seq(S)
      /\ Len(a \o b) = Len(a) + Len(b)
      /\ \A j \in 1..Len(a) + Len(b) :
           (a \o b)[j] = IF j <= Len(a) THEN a[j] ELSE b[j - Len(a)]
  BY <1>2, <1>3, ConcatProperties
<1>5. RemoveAt(s, i) = a \o b
  BY DEF RemoveAt
<1> HIDE DEF a, b
<1>len. Len(a) + Len(b) = Len(s) - 1
  BY <1>1, <1>2, <1>3
<1>6. ASSUME NEW j \in 1..Len(s) - 1
      PROVE  RemoveAt(s, i)[j] = IF j < i THEN s[j] ELSE s[j + 1]
  <2>1. CASE j < i
    <3>1. j <= i - 1 /\ j \in 1..i - 1
      BY <1>1, <2>1
    <3>2. (a \o b)[j] = a[j]
      BY <1>2, <1>4, <1>len, <3>1
    <3> QED
      BY <1>2, <1>5, <2>1, <3>1, <3>2
  <2>2. CASE j >= i
    <3>1. j - (i - 1) \in 1..Len(s) - i /\ ~(j <= i - 1)
      BY <1>1, <2>2
    <3>2. (a \o b)[j] = b[j - (i - 1)]
      BY <1>2, <1>4, <1>len, <3>1
    <3>3. b[j - (i - 1)] = s[i + (j - (i - 1))]
      BY <1>3, <3>1
    <3>4. i + (j - (i - 1)) = j + 1 /\ ~(j < i)
      BY <1>1, <2>2
    <3> QED
      BY <1>5, <3>2, <3>3, <3>4
  <2> QED
    BY <1>1, <2>1, <2>2
<1>7. Len(RemoveAt(s, i)) = Len(s) - 1
  BY <1>4, <1>5, <1>len
<1>8. RemoveAt(s, i) \in Seq(S)
  BY <1>4, <1>5
<1> QED
  BY <1>6, <1>7, <1>8

(* How Append and RemoveAt change the range of a sequence. *)
LEMMA RangeOfAppend ==
  ASSUME NEW S, NEW s \in Seq(S), NEW e \in S
  PROVE  Range(Append(s, e)) = Range(s) \cup {e}
<1>1. /\ Append(s, e) \in Seq(S) /\ Len(Append(s, e)) = Len(s) + 1
      /\ \A i \in 1..Len(s) : Append(s, e)[i] = s[i]
      /\ Append(s, e)[Len(s) + 1] = e
  BY AppendProperties
<1>2. Len(s) \in Nat
  BY LenProperties
<1>3. ASSUME NEW x PROVE x \in Range(Append(s, e)) <=> x \in Range(s) \cup {e}
  <2>1. x \in Range(Append(s, e)) <=> \E k \in 1..Len(s) + 1 : Append(s, e)[k] = x
    <3>1. DOMAIN Append(s, e) = 1..Len(s) + 1
      BY <1>1, LenProperties
    <3> QED
      BY <3>1 DEF Range
  <2>2. x \in Range(s) <=> \E k \in 1..Len(s) : s[k] = x
    BY RangeEquality
  <2> QED
    BY <1>1, <1>2, <2>1, <2>2
<1> QED
  BY <1>3

(* In a sequence without repetition, a removed element is gone. *)
LEMMA RangeOfRemoval ==
  ASSUME NEW S, NEW s \in Seq(S), NEW i \in DOMAIN s,
         \A j, k \in DOMAIN s : s[j] = s[k] => j = k
  PROVE  Range(RemoveAt(s, i)) = Range(s) \ {s[i]}
<1>1. /\ RemoveAt(s, i) \in Seq(S)
      /\ Len(RemoveAt(s, i)) = Len(s) - 1
      /\ \A j \in 1..Len(s) - 1 :
           RemoveAt(s, i)[j] = IF j < i THEN s[j] ELSE s[j + 1]
  BY Removal
<1>2. DOMAIN s = 1..Len(s) /\ Len(s) \in Nat /\ i \in 1..Len(s)
  BY LenProperties
<1>3. ASSUME NEW x PROVE x \in Range(RemoveAt(s, i)) <=> x \in Range(s) \ {s[i]}
  <2>1. x \in Range(RemoveAt(s, i)) <=> \E k \in 1..Len(s) - 1 : RemoveAt(s, i)[k] = x
    BY <1>1, RangeEquality
  <2>2. x \in Range(s) <=> \E k \in 1..Len(s) : s[k] = x
    BY RangeEquality
  <2>3. ASSUME NEW k \in 1..Len(s) - 1, RemoveAt(s, i)[k] = x
        PROVE  x \in Range(s) \ {s[i]}
    <3>1. CASE k < i
      BY <1>1, <1>2, <2>2, <2>3, <3>1
    <3>2. CASE ~(k < i)
      BY <1>1, <1>2, <2>2, <2>3, <3>2
    <3> QED
      BY <3>1, <3>2
  <2>4. ASSUME NEW k \in 1..Len(s), s[k] = x, x # s[i]
        PROVE  \E j \in 1..Len(s) - 1 : RemoveAt(s, i)[j] = x
    <3>1. CASE k < i
      BY <1>1, <1>2, <2>4, <3>1
    <3>2. CASE k > i
      <4>1. k - 1 \in 1..Len(s) - 1 /\ ~(k - 1 < i) /\ (k - 1) + 1 = k
        BY <1>2, <3>2
      <4> QED
        BY <1>1, <2>4, <4>1
    <3>3. k # i
      BY <2>4
    <3> QED
      BY <1>2, <3>1, <3>2, <3>3
  <2> QED
    BY <2>1, <2>2, <2>3, <2>4
<1> QED
  BY <1>3

-----------------------------------------------------------------------------
(* The queue operators.  Queues(qs) says that qs may be the kernel's       *)
(* queues: each thread is at most once on at most one of them.             *)

Queues(qs) == qs \in [QueueIds -> Seq(Threads)] /\ OnceIn(qs)

(* A queue is a finite sequence of different threads. *)
LEMMA QueuesFacts ==
  ASSUME NEW qs, Queues(qs), NEW q \in QueueIds
  PROVE  /\ qs[q] \in Seq(Threads)
         /\ DOMAIN qs[q] = 1..Len(qs[q]) /\ Len(qs[q]) \in Nat
         /\ \A i \in DOMAIN qs[q] : qs[q][i] \in Threads /\ qs[q][i] \in Range(qs[q])
         /\ Range(qs[q]) \subseteq Threads
         /\ \A i, j \in DOMAIN qs[q] : qs[q][i] = qs[q][j] => i = j
         /\ \A p \in QueueIds : p # q => Range(qs[p]) \cap Range(qs[q]) = {}
<1>1. qs[q] \in Seq(Threads)
  BY DEF Queues
<1>2. DOMAIN qs[q] = 1..Len(qs[q]) /\ Len(qs[q]) \in Nat
  BY <1>1, LenProperties
<1>3. \A i \in DOMAIN qs[q] : qs[q][i] \in Threads
  BY <1>1, LenProperties
<1>4. \A i \in DOMAIN qs[q] : qs[q][i] \in Range(qs[q])
  BY DEF Range
<1>5. Range(qs[q]) \subseteq Threads
  BY <1>3 DEF Range
<1>6. \A i, j \in DOMAIN qs[q] : qs[q][i] = qs[q][j] => i = j
  BY DEF Queues, OnceIn
<1>7. \A p \in QueueIds : p # q => Range(qs[p]) \cap Range(qs[q]) = {}
  BY DEF Queues, OnceIn, Range
<1> QED
  BY <1>1, <1>2, <1>3, <1>4, <1>5, <1>6, <1>7

(* OnceIn, one queue at a time. *)
LEMMA QueuesIntro ==
  ASSUME NEW qs, qs \in [QueueIds -> Seq(Threads)],
         \A q \in QueueIds : \A i, j \in DOMAIN qs[q] : qs[q][i] = qs[q][j] => i = j,
         \A p, q \in QueueIds : p # q => Range(qs[p]) \cap Range(qs[q]) = {}
  PROVE  Queues(qs)
<1>1. ASSUME NEW p \in QueueIds, NEW q \in QueueIds,
             NEW i \in DOMAIN qs[p], NEW j \in DOMAIN qs[q], qs[p][i] = qs[q][j]
      PROVE  p = q /\ i = j
  <2>1. qs[p][i] \in Range(qs[p]) /\ qs[q][j] \in Range(qs[q])
    BY DEF Range
  <2>2. p = q
    BY <1>1, <2>1
  <2> QED
    BY <1>1, <2>2
<1> QED
  BY <1>1 DEF Queues, OnceIn

(* enqueueThread() keeps the queues in order if the thread is on none. *)
LEMMA EnqueueLemma ==
  ASSUME NEW qs, Queues(qs), NEW q \in QueueIds, NEW t \in Threads,
         t \notin QueuedIn(qs)
  PROVE  /\ Queues(enqueueThread(qs, q, t))
         /\ \A p \in QueueIds : Range(enqueueThread(qs, q, t)[p]) =
              IF p = q THEN Range(qs[p]) \cup {t} ELSE Range(qs[p])
<1> DEFINE rs == enqueueThread(qs, q, t)
<1>1. qs \in [QueueIds -> Seq(Threads)]
  BY DEF Queues
<1>2. rs[q] = Append(qs[q], t) /\ \A p \in QueueIds : p # q => rs[p] = qs[p]
  BY <1>1 DEF enqueueThread
<1>3. qs[q] \in Seq(Threads) /\ Append(qs[q], t) \in Seq(Threads)
  BY <1>1, AppendProperties
<1>4. rs \in [QueueIds -> Seq(Threads)]
  BY <1>1, <1>3 DEF enqueueThread
<1>5. \A p \in QueueIds : t \notin Range(qs[p])
  BY DEF QueuedIn
<1>6. Range(rs[q]) = Range(qs[q]) \cup {t}
  BY <1>2, <1>3, RangeOfAppend
<1>7. \A i, j \in DOMAIN rs[q] : rs[q][i] = rs[q][j] => i = j
  <2>1. /\ Len(rs[q]) = Len(qs[q]) + 1 /\ DOMAIN rs[q] = 1..Len(rs[q])
        /\ \A i \in 1..Len(qs[q]) : rs[q][i] = qs[q][i]
        /\ rs[q][Len(qs[q]) + 1] = t
    BY <1>2, <1>3, AppendProperties, LenProperties
  <2>2. /\ DOMAIN qs[q] = 1..Len(qs[q]) /\ Len(qs[q]) \in Nat
        /\ \A i, j \in DOMAIN qs[q] : qs[q][i] = qs[q][j] => i = j
    BY QueuesFacts
  <2>3. \A i \in 1..Len(qs[q]) : qs[q][i] # t
    BY <1>5, <2>2 DEF Range
  <2> HIDE DEF rs
  <2>4. ASSUME NEW k \in DOMAIN rs[q], NEW m \in DOMAIN rs[q], rs[q][k] = rs[q][m]
        PROVE  k = m
    <3>1. k \in 1..Len(qs[q]) \/ (k = Len(qs[q]) + 1 /\ rs[q][k] = t)
      BY <2>1, <2>2
    <3>2. m \in 1..Len(qs[q]) \/ (m = Len(qs[q]) + 1 /\ rs[q][m] = t)
      BY <2>1, <2>2
    <3> QED
      BY <2>1, <2>2, <2>3, <2>4, <3>1, <3>2
  <2> QED
    BY <2>4
<1> HIDE DEF rs
<1>8. \A p \in QueueIds : Range(rs[p]) =
        IF p = q THEN Range(qs[p]) \cup {t} ELSE Range(qs[p])
  BY <1>2, <1>6
<1>9. ASSUME NEW p \in QueueIds, NEW r \in QueueIds, p # r
      PROVE  Range(rs[p]) \cap Range(rs[r]) = {}
  <2>1. Range(qs[p]) \cap Range(qs[r]) = {}
    BY <1>9, QueuesFacts
  <2> QED
    BY <1>5, <1>8, <1>9, <2>1
<1>10. ASSUME NEW p \in QueueIds
       PROVE  \A i, j \in DOMAIN rs[p] : rs[p][i] = rs[p][j] => i = j
  <2>1. \A i, j \in DOMAIN qs[p] : qs[p][i] = qs[p][j] => i = j
    BY QueuesFacts
  <2> QED
    BY <1>2, <1>7, <2>1
<1>11. Queues(rs)
  BY <1>4, <1>9, <1>10, QueuesIntro
<1> QED
  BY <1>8, <1>11 DEF rs

(* dequeueThread() takes the one thread off its queue. *)
LEMMA DequeueLemma ==
  ASSUME NEW qs, Queues(qs), NEW q \in QueueIds, NEW i \in DOMAIN qs[q]
  PROVE  /\ Queues(dequeueThread(qs, q, i))
         /\ \A p \in QueueIds : Range(dequeueThread(qs, q, i)[p]) =
              IF p = q THEN Range(qs[p]) \ {qs[q][i]} ELSE Range(qs[p])
         /\ qs[q][i] \in Threads
         /\ qs[q][i] \notin QueuedIn(dequeueThread(qs, q, i))
<1> DEFINE rs == dequeueThread(qs, q, i)
<1>1. qs \in [QueueIds -> Seq(Threads)]
  BY DEF Queues
<1>2. rs[q] = RemoveAt(qs[q], i) /\ \A p \in QueueIds : p # q => rs[p] = qs[p]
  BY <1>1 DEF dequeueThread
<1>3. /\ qs[q] \in Seq(Threads)
      /\ DOMAIN qs[q] = 1..Len(qs[q]) /\ Len(qs[q]) \in Nat
      /\ \A j, k \in DOMAIN qs[q] : qs[q][j] = qs[q][k] => j = k
      /\ qs[q][i] \in Threads /\ qs[q][i] \in Range(qs[q])
  BY QueuesFacts
<1>4. /\ RemoveAt(qs[q], i) \in Seq(Threads)
      /\ Len(RemoveAt(qs[q], i)) = Len(qs[q]) - 1
      /\ \A j \in 1..Len(qs[q]) - 1 :
           RemoveAt(qs[q], i)[j] = IF j < i THEN qs[q][j] ELSE qs[q][j + 1]
  BY <1>3, Removal
<1>5. rs \in [QueueIds -> Seq(Threads)]
  BY <1>1, <1>4 DEF dequeueThread
<1>6. Range(rs[q]) = Range(qs[q]) \ {qs[q][i]}
  BY <1>2, <1>3, RangeOfRemoval
<1>7. \A j, k \in DOMAIN rs[q] : rs[q][j] = rs[q][k] => j = k
  <2>1. DOMAIN rs[q] = 1..Len(qs[q]) - 1
    BY <1>2, <1>4, LenProperties
  <2> HIDE DEF rs
  <2>2. ASSUME NEW j \in 1..Len(qs[q]) - 1, NEW k \in 1..Len(qs[q]) - 1,
               rs[q][j] = rs[q][k]
        PROVE  j = k
    <3>1. /\ j \in 1..Len(qs[q]) /\ j + 1 \in 1..Len(qs[q])
          /\ k \in 1..Len(qs[q]) /\ k + 1 \in 1..Len(qs[q]) /\ i \in 1..Len(qs[q])
      BY <1>3
    <3>2. /\ rs[q][j] = IF j < i THEN qs[q][j] ELSE qs[q][j + 1]
          /\ rs[q][k] = IF k < i THEN qs[q][k] ELSE qs[q][k + 1]
      BY <1>2, <1>4
    <3>3. (IF j < i THEN j ELSE j + 1) = (IF k < i THEN k ELSE k + 1)
      BY <1>3, <2>2, <3>1, <3>2
    <3> QED
      BY <3>1, <3>3
  <2> QED
    BY <2>1, <2>2
<1> HIDE DEF rs
<1>8. \A p \in QueueIds : Range(rs[p]) =
        IF p = q THEN Range(qs[p]) \ {qs[q][i]} ELSE Range(qs[p])
  BY <1>2, <1>6
<1>9. \A p, r \in QueueIds : p # r => Range(rs[p]) \cap Range(rs[r]) = {}
  BY <1>8, QueuesFacts
<1>10. ASSUME NEW p \in QueueIds
       PROVE  \A j, k \in DOMAIN rs[p] : rs[p][j] = rs[p][k] => j = k
  <2>1. \A j, k \in DOMAIN qs[p] : qs[p][j] = qs[p][k] => j = k
    BY QueuesFacts
  <2> QED
    BY <1>2, <1>7, <2>1
<1>11. Queues(rs)
  BY <1>5, <1>9, <1>10, QueuesIntro
<1>12. qs[q][i] \notin QueuedIn(rs)
  <2>1. \A p \in QueueIds : p # q => qs[q][i] \notin Range(qs[p])
    BY <1>3, QueuesFacts
  <2>2. \A p \in QueueIds : qs[q][i] \notin Range(rs[p])
    BY <1>8, <2>1
  <2> QED
    BY <2>2 DEF QueuedIn
<1> QED
  BY <1>3, <1>8, <1>11, <1>12 DEF rs

(* threadQueueClear() forgets the threads of one queue. *)
LEMMA ClearLemma ==
  ASSUME NEW qs, Queues(qs), NEW q \in QueueIds
  PROVE  /\ Queues(threadQueueClear(qs, q))
         /\ \A p \in QueueIds : Range(threadQueueClear(qs, q)[p]) =
              IF p = q THEN {} ELSE Range(qs[p])
<1> DEFINE rs == threadQueueClear(qs, q)
<1>1. qs \in [QueueIds -> Seq(Threads)]
  BY DEF Queues
<1>2. rs[q] = <<>> /\ \A p \in QueueIds : p # q => rs[p] = qs[p]
  BY <1>1 DEF threadQueueClear
<1>3. <<>> \in Seq(Threads) /\ DOMAIN <<>> = 1..0
  BY EmptySeq, LenProperties
<1>4. rs \in [QueueIds -> Seq(Threads)]
  BY <1>1, <1>3 DEF threadQueueClear
<1>5. Range(rs[q]) = {} /\ \A j, k \in DOMAIN rs[q] : rs[q][j] = rs[q][k] => j = k
  BY <1>2, <1>3 DEF Range
<1> HIDE DEF rs
<1>6. \A p \in QueueIds : Range(rs[p]) = IF p = q THEN {} ELSE Range(qs[p])
  BY <1>2, <1>5
<1>7. \A p, r \in QueueIds : p # r => Range(rs[p]) \cap Range(rs[r]) = {}
  BY <1>6, QueuesFacts
<1>8. ASSUME NEW p \in QueueIds
      PROVE  \A j, k \in DOMAIN rs[p] : rs[p][j] = rs[p][k] => j = k
  <2>1. \A j, k \in DOMAIN qs[p] : qs[p][j] = qs[p][k] => j = k
    BY QueuesFacts
  <2> QED
    BY <1>2, <1>5, <2>1
<1> QED
  BY <1>4, <1>6, <1>7, <1>8, QueuesIntro DEF rs

(* wakeAll() moves the threads of a queue to the run queue. *)
LEMMA WakeAllLemma ==
  ASSUME NEW qs, Queues(qs), NEW q \in QueueIds, q # "runQueue"
  PROVE  /\ Queues(wakeAll(qs, q))
         /\ \A p \in QueueIds : Range(wakeAll(qs, q)[p]) =
              IF p = q THEN {}
              ELSE IF p = "runQueue" THEN Range(qs[p]) \cup Range(qs[q])
              ELSE Range(qs[p])
<1> DEFINE rs == wakeAll(qs, q)
           run == qs["runQueue"]
<1>0. "runQueue" \in QueueIds
  BY DEF QueueIds, KernelQueues
<1>1. qs \in [QueueIds -> Seq(Threads)]
  BY DEF Queues
<1>2. /\ rs["runQueue"] = run \o qs[q] /\ rs[q] = <<>>
      /\ \A p \in QueueIds : p # q /\ p # "runQueue" => rs[p] = qs[p]
  BY <1>0, <1>1 DEF wakeAll
<1>3. run \in Seq(Threads) /\ qs[q] \in Seq(Threads)
  BY <1>0, <1>1
<1>4. /\ run \o qs[q] \in Seq(Threads)
      /\ Len(run \o qs[q]) = Len(run) + Len(qs[q])
      /\ \A k \in 1..Len(run) + Len(qs[q]) : (run \o qs[q])[k] =
                     IF k <= Len(run) THEN run[k] ELSE qs[q][k - Len(run)]
  BY <1>3, ConcatProperties
<1>5. <<>> \in Seq(Threads) /\ DOMAIN <<>> = 1..0
  BY EmptySeq, LenProperties
<1>6. rs \in [QueueIds -> Seq(Threads)]
  BY <1>0, <1>1, <1>4, <1>5 DEF wakeAll
<1>7. Range(rs["runQueue"]) = Range(run) \cup Range(qs[q])
  BY <1>2, <1>3, RangeConcatenation
<1>8. Range(rs[q]) = {} /\ \A j, k \in DOMAIN rs[q] : rs[q][j] = rs[q][k] => j = k
  BY <1>2, <1>5 DEF Range
<1>9. DOMAIN rs["runQueue"] = 1..Len(run) + Len(qs[q])
  BY <1>2, <1>4, LenProperties
<1>10. /\ DOMAIN run = 1..Len(run) /\ Len(run) \in Nat
       /\ DOMAIN qs[q] = 1..Len(qs[q]) /\ Len(qs[q]) \in Nat
  BY <1>3, LenProperties
<1>11. /\ \A j, k \in DOMAIN run : run[j] = run[k] => j = k
       /\ \A j, k \in DOMAIN qs[q] : qs[q][j] = qs[q][k] => j = k
       /\ \A j \in DOMAIN run, k \in DOMAIN qs[q] : run[j] # qs[q][k]
  BY <1>0 DEF Queues, OnceIn
<1> HIDE DEF rs, run
<1>12. ASSUME NEW j \in DOMAIN rs["runQueue"], NEW k \in DOMAIN rs["runQueue"],
              rs["runQueue"][j] = rs["runQueue"][k]
       PROVE  j = k
  <2>1. j \in 1..Len(run) + Len(qs[q]) /\ k \in 1..Len(run) + Len(qs[q])
    BY <1>9
  <2>2. CASE j <= Len(run)
    <3>1. j \in DOMAIN run /\ rs["runQueue"][j] = run[j]
      BY <1>2, <1>4, <1>10, <2>1, <2>2
    <3>2. CASE k <= Len(run)
      <4>1. k \in DOMAIN run /\ rs["runQueue"][k] = run[k]
        BY <1>2, <1>4, <1>10, <2>1, <3>2
      <4> QED
        BY <1>11, <1>12, <3>1, <4>1
    <3>3. CASE ~(k <= Len(run))
      <4>1. k - Len(run) \in DOMAIN qs[q] /\ rs["runQueue"][k] = qs[q][k - Len(run)]
        BY <1>2, <1>4, <1>10, <2>1, <3>3
      <4> QED
        BY <1>11, <1>12, <3>1, <4>1
    <3> QED
      BY <3>2, <3>3
  <2>3. CASE ~(j <= Len(run))
    <3>1. j - Len(run) \in DOMAIN qs[q] /\ rs["runQueue"][j] = qs[q][j - Len(run)]
      BY <1>2, <1>4, <1>10, <2>1, <2>3
    <3>2. CASE k <= Len(run)
      <4>1. k \in DOMAIN run /\ rs["runQueue"][k] = run[k]
        BY <1>2, <1>4, <1>10, <2>1, <3>2
      <4> QED
        BY <1>11, <1>12, <3>1, <4>1
    <3>3. CASE ~(k <= Len(run))
      <4>1. k - Len(run) \in DOMAIN qs[q] /\ rs["runQueue"][k] = qs[q][k - Len(run)]
        BY <1>2, <1>4, <1>10, <2>1, <3>3
      <4>2. j - Len(run) = k - Len(run)
        BY <1>11, <1>12, <3>1, <4>1
      <4> QED
        BY <1>10, <2>1, <4>2
    <3> QED
      BY <3>2, <3>3
  <2> QED
    BY <2>2, <2>3
<1>13. \A p \in QueueIds : Range(rs[p]) =
              IF p = q THEN {}
              ELSE IF p = "runQueue" THEN Range(qs[p]) \cup Range(qs[q])
              ELSE Range(qs[p])
  BY <1>2, <1>7, <1>8 DEF run
<1>14. ASSUME NEW p \in QueueIds, NEW r \in QueueIds, p # r
       PROVE  Range(rs[p]) \cap Range(rs[r]) = {}
  <2>1. Range(qs[p]) \cap Range(qs[r]) = {}
    BY <1>14, QueuesFacts
  <2>2. p # q => Range(qs[p]) \cap Range(qs[q]) = {}
    BY QueuesFacts
  <2>3. r # q => Range(qs[r]) \cap Range(qs[q]) = {}
    BY QueuesFacts
  <2> QED
    BY <1>13, <1>14, <2>1, <2>2, <2>3
<1>15. ASSUME NEW p \in QueueIds
       PROVE  \A j, k \in DOMAIN rs[p] : rs[p][j] = rs[p][k] => j = k
  <2>1. \A j, k \in DOMAIN qs[p] : qs[p][j] = qs[p][k] => j = k
    BY QueuesFacts
  <2> QED
    BY <1>2, <1>8, <1>12, <2>1
<1> QED
  BY <1>6, <1>13, <1>14, <1>15, QueuesIntro DEF rs

(* In the queues ns thread r has moved from queue q to the run queue. *)
Woken(qs, q, r, ns) ==
  /\ Queues(ns)
  /\ r \in Range(qs[q])
  /\ \A p \in QueueIds : Range(ns[p]) =
       IF p = q THEN Range(qs[p]) \ {r}
       ELSE IF p = "runQueue" THEN Range(qs[p]) \cup {r}
       ELSE Range(qs[p])

(* One thread is moved to the run queue. *)
LEMMA WakeNthLemma ==
  ASSUME NEW qs, Queues(qs), NEW q \in QueueIds, q # "runQueue",
         NEW i \in DOMAIN qs[q]
  PROVE  Woken(qs, q, qs[q][i], wakeNth(qs, q, i))
<1> DEFINE rs == dequeueThread(qs, q, i)
           t == qs[q][i]
           us == enqueueThread(rs, "runQueue", t)
<1>0. "runQueue" \in QueueIds
  BY DEF QueueIds, KernelQueues
<1>1. /\ Queues(rs) /\ t \in Threads /\ t \notin QueuedIn(rs)
      /\ \A p \in QueueIds : Range(rs[p]) =
              IF p = q THEN Range(qs[p]) \ {t} ELSE Range(qs[p])
  BY DequeueLemma
<1>2. wakeNth(qs, q, i) = us
  BY DEF wakeNth
<1> HIDE DEF rs
<1>3. /\ Queues(us)
      /\ \A p \in QueueIds : Range(us[p]) =
              IF p = "runQueue" THEN Range(rs[p]) \cup {t} ELSE Range(rs[p])
  BY <1>0, <1>1, EnqueueLemma
<1>4. t \in Range(qs[q])
  BY QueuesFacts
<1> HIDE DEF us, t
<1> QED
  BY <1>1, <1>2, <1>3, <1>4 DEF t, Woken

(* A thread without references goes to the graveyard and wakes the reaper. *)
LEMMA ReapLemma ==
  ASSUME Queues(queue), NEW t \in Threads, t \notin Queued
  PROVE  /\ Queues(reapThread(t))
         /\ \A p \in QueueIds : Range(reapThread(t)[p]) =
              IF p = "graveyardQueue" THEN On(p) \cup {t}
              ELSE IF p = "reaperWaitQueue" THEN {}
              ELSE IF p = "runQueue" THEN On(p) \cup On("reaperWaitQueue")
              ELSE On(p)
<1> DEFINE rs == enqueueThread(queue, "graveyardQueue", t)
           us == wakeAll(rs, "reaperWaitQueue")
<1>0. {"graveyardQueue", "reaperWaitQueue", "runQueue"} \subseteq QueueIds
  BY DEF QueueIds, KernelQueues
<1>1. /\ Queues(rs)
      /\ \A p \in QueueIds : Range(rs[p]) =
           IF p = "graveyardQueue" THEN On(p) \cup {t} ELSE On(p)
  BY <1>0, EnqueueLemma DEF Queued, On
<1>2. reapThread(t) = us
  BY DEF reapThread
<1> HIDE DEF rs
<1>3. /\ Queues(us)
      /\ \A p \in QueueIds : Range(us[p]) =
           IF p = "reaperWaitQueue" THEN {}
           ELSE IF p = "runQueue" THEN Range(rs[p]) \cup Range(rs["reaperWaitQueue"])
           ELSE Range(rs[p])
  BY <1>0, <1>1, WakeAllLemma
<1> HIDE DEF us
<1> QED
  BY <1>0, <1>1, <1>2, <1>3

-----------------------------------------------------------------------------
(* The inductive invariant in two halves: where threads are, and who holds *)
(* references to them.                                                     *)

PlacesInv ==
  Queues(queue) /\ RunningUnqueued /\ QueuesSorted /\ CurrentPlaced /\ ChainDead

RefsInv == SpawnersApart /\ HandlesCounted

Unplaced == {"free", "created", "dead"}

(***************************************************************************)
(* Most steps are steady: no thread comes to life, dies, is spawned or     *)
(* starts a join; the current thread moves on to another label.            *)
(***************************************************************************)
Steady ==
  \A t \in Threads :
    (pc[t] \in Unplaced \cup {"spawn", "join"}
       \/ pc'[t] \in Unplaced \cup {"spawn", "join"}) => pc'[t] = pc[t]

(* Going from one common label to another is steady. *)
LEMMA SteadyGoto ==
  ASSUME TypeOK, CurrentPlaced, pc[current] # "dead", NEW label \in Labels, Goto(label),
         \/ label = pc[current]
         \/ (label \notin Unplaced \cup {"spawn", "join"} /\ pc[current] \notin {"spawn", "join"})
  PROVE  Steady /\ pc'[current] = label
BY DEF TypeOK, CurrentPlaced, Goto, Steady, Unplaced

(* A steady step that changes no reference keeps RefsInv. *)
LEMMA SteadyRefs ==
  ASSUME TypeOK, RefsInv, Steady, UNCHANGED <<target, refCount>>,
         \A c \in Threads : handles'[c] = handles[c]
                             \/ (handles'[c] = {} /\ pc'[c] # "join")
  PROVE  RefsInv'
<1>1. SpawnersApart'
  BY DEF RefsInv, SpawnersApart, Steady, Unplaced
<1>2. \A c \in Threads : handles[c] \subseteq Threads
  BY DEF TypeOK
<1>3. \A t \in Threads : pc'[t] \notin {"free", "dead"} => refCount'[t] > 0
  BY DEF RefsInv, HandlesCounted, Steady, Unplaced
<1>4. ASSUME NEW c \in Threads, NEW t \in handles'[c]
      PROVE  /\ pc'[t] # "free" /\ refCount'[t] > 0
             /\ pc'[t] # "dead" => refCount'[t] > 1
             /\ \A d \in Threads : t \in handles'[d] => c = d
  <2>1. t \in handles[c] /\ t \in Threads
    BY <1>2, <1>4
  <2>2. \A d \in Threads : t \in handles'[d] => t \in handles[d]
    BY DEF Steady
  <2> QED
    BY <2>1, <2>2 DEF RefsInv, HandlesCounted, Steady, Unplaced
<1>5. \A c \in Threads : pc'[c] = "join" => target'[c] \in handles'[c]
  BY DEF RefsInv, HandlesCounted, Steady, Unplaced
<1> QED
  BY <1>1, <1>3, <1>4, <1>5 DEF RefsInv, HandlesCounted

(* Steady steps that leave the queues alone. *)
LEMMA SteadyPlaces ==
  ASSUME TypeOK, PlacesInv, Steady, UNCHANGED <<queue, current, refCount, chain>>,
         scan' \in Nat, scan' = 0 <=> scan = 0
  PROVE  PlacesInv'
<1>1. \A q \in QueueIds : On(q) \subseteq Threads /\ On(q)' = On(q)
  BY QueuesFacts DEF PlacesInv, On
<1>2. Queues(queue)' /\ RunningUnqueued' /\ Queued' = Queued
  BY DEF PlacesInv, Queues, OnceIn, RunningUnqueued, Queued, QueuedIn
<1>3. QueuesSorted'
  BY <1>1 DEF PlacesInv, QueuesSorted, Steady, Unplaced
<1>4. CurrentPlaced'
  BY DEF PlacesInv, CurrentPlaced, Steady, Unplaced, TypeOK
<1>5. \A i \in DOMAIN chain : chain[i] \in Threads
  BY LenProperties DEF TypeOK
<1>6. ChainDead'
  BY <1>2, <1>5 DEF PlacesInv, ChainDead, Steady, Unplaced
<1> QED
  BY <1>2, <1>3, <1>4, <1>6 DEF PlacesInv

(***************************************************************************)
(* The queues change, but every thread on a queue comes from a queue of    *)
(* its kind: what the ranges of the queues say about the invariant.        *)
(***************************************************************************)
LEMMA RangesSuffice ==
  ASSUME TypeOK, PlacesInv, Steady, UNCHANGED <<current, refCount, chain>>,
         Queues(queue'), scan' \in Nat,
         CurrentPlaced', scan' = 0 => current \notin Queued',
         NEW S, S \cap {chain[i] : i \in DOMAIN chain} = {},
         \A t \in S : pc'[t] \notin Unplaced,
         On("graveyardQueue")' \subseteq On("graveyardQueue"),
         \A q \in QueueIds : \A t \in On(q)' :
           t \in S \/ \E p \in QueueIds :
                       t \in On(p) /\ (p = "graveyardQueue" <=> q = "graveyardQueue"),
         \A t \in S : t \notin On("graveyardQueue")'
  PROVE  PlacesInv'
<1>1. RunningUnqueued'
  BY DEF RunningUnqueued
<1>2. \A q \in QueueIds : On(q) \subseteq Threads /\ On(q)' \subseteq Threads
  BY QueuesFacts DEF PlacesInv, On
<1>3. QueuesSorted'
  <2> SUFFICES ASSUME NEW q \in QueueIds, NEW t \in On(q)'
               PROVE  IF q = "graveyardQueue"
                        THEN pc'[t] = "dead" /\ refCount'[t] = 0
                        ELSE pc'[t] \notin {"free", "created", "dead"}
    BY DEF QueuesSorted
  <2>1. CASE t \in S
    BY <2>1 DEF Unplaced
  <2>2. CASE t \notin S
    <3>1. PICK p \in QueueIds : t \in On(p) /\ (p = "graveyardQueue" <=> q = "graveyardQueue")
      BY <2>2
    <3> QED
      BY <1>2, <3>1 DEF PlacesInv, QueuesSorted, Steady, Unplaced
  <2> QED
    BY <2>1, <2>2
<1>4. \A i \in DOMAIN chain : chain[i] \in Threads
  BY LenProperties DEF TypeOK
<1>5. \A i \in DOMAIN chain : chain[i] \notin Queued'
  <2> SUFFICES ASSUME NEW i \in DOMAIN chain, NEW q \in QueueIds, chain[i] \in On(q)'
               PROVE  FALSE
    BY DEF Queued, QueuedIn, On
  <2>1. chain[i] \notin S
    OBVIOUS
  <2>2. PICK p \in QueueIds : chain[i] \in On(p)
    BY <2>1
  <2>3. chain[i] \in Queued
    BY <2>2 DEF Queued, QueuedIn, On
  <2> QED
    BY <2>3 DEF PlacesInv, ChainDead
<1>6. ChainDead'
  BY <1>4, <1>5 DEF PlacesInv, ChainDead, Steady, Unplaced
<1> QED
  BY <1>1, <1>3, <1>6 DEF PlacesInv

(* The current thread goes to the end of a queue and calls schedule(). *)
LEMMA BlockPlaces ==
  ASSUME TypeOK, PlacesInv, Steady, UNCHANGED <<current, refCount, chain>>,
         scan = 0, pc[current] # "dead",
         NEW q \in QueueIds \ {"graveyardQueue"},
         queue' = enqueueThread(queue, q, current),
         scan' = 1
  PROVE  PlacesInv'
<1> DEFINE S == {current}
<1>1. current \in Threads /\ current \notin Queued
  BY DEF TypeOK, PlacesInv, RunningUnqueued
<1>2. /\ Queues(queue')
      /\ \A p \in QueueIds : On(p)' = IF p = q THEN On(p) \cup {current} ELSE On(p)
  BY <1>1, EnqueueLemma DEF PlacesInv, Queued, On
<1>3. pc'[current] \notin Unplaced
  BY <1>1 DEF PlacesInv, CurrentPlaced, Steady, Unplaced
<1>4. S \cap {chain[i] : i \in DOMAIN chain} = {}
  BY DEF PlacesInv, ChainDead
<1>5. CurrentPlaced'
  BY <1>3 DEF CurrentPlaced, Unplaced
<1>6. "graveyardQueue" \in QueueIds
  BY DEF QueueIds, KernelQueues
<1>7. \A t \in S : pc'[t] \notin Unplaced
  BY <1>3
<1>8. \A t \in S : t \notin On("graveyardQueue")'
  BY <1>1, <1>2, <1>6 DEF Queued, QueuedIn, On
<1>9. \A p \in QueueIds : \A t \in On(p)' :
        t \in S \/ \E r \in QueueIds :
             t \in On(r) /\ (r = "graveyardQueue" <=> p = "graveyardQueue")
  BY <1>2
<1>10. On("graveyardQueue")' \subseteq On("graveyardQueue") /\ scan' \in Nat
       /\ (scan' = 0 => current \notin Queued')
  BY <1>2, <1>6
<1> HIDE DEF S
<1> QED
  BY <1>2, <1>4, <1>5, <1>7, <1>8, <1>9, <1>10, RangesSuffice

(* Threads move from another queue to the run queue, or are forgotten. *)
LEMMA MovePlaces ==
  ASSUME TypeOK, PlacesInv, Steady, UNCHANGED <<current, refCount, chain, scan>>,
         NEW q \in QueueIds \ {"graveyardQueue", "runQueue"},
         Queues(queue'),
         \A p \in QueueIds :
           On(p)' \subseteq (IF p = "runQueue" THEN On(p) \cup On(q) ELSE On(p))
  PROVE  PlacesInv'
<1>0. {"graveyardQueue", "runQueue"} \subseteq QueueIds
  BY DEF QueueIds, KernelQueues
<1>1. CurrentPlaced'
  BY DEF PlacesInv, CurrentPlaced, Steady, Unplaced, TypeOK
<1>2. \A p \in QueueIds : \A t \in On(p)' : \E r \in QueueIds :
        t \in On(r) /\ (r = "graveyardQueue" <=> p = "graveyardQueue")
  BY <1>0
<1>3. Queued' \subseteq Queued
  BY <1>2 DEF Queued, QueuedIn, On
<1>4. scan' = 0 => current \notin Queued'
  BY <1>3 DEF PlacesInv, RunningUnqueued
<1>5. On("graveyardQueue")' \subseteq On("graveyardQueue")
  BY <1>0
<1>6. scan' \in Nat
  BY DEF TypeOK
<1>7. \A p \in QueueIds : \A t \in On(p)' :
        t \in {} \/ \E r \in QueueIds :
             t \in On(r) /\ (r = "graveyardQueue" <=> p = "graveyardQueue")
  BY <1>2
<1>8. /\ {} \cap {chain[i] : i \in DOMAIN chain} = {}
      /\ \A t \in {} : pc'[t] \notin Unplaced
      /\ \A t \in {} : t \notin On("graveyardQueue")'
  OBVIOUS
<1> QED
  BY <1>1, <1>4, <1>5, <1>6, <1>7, <1>8, RangesSuffice

-----------------------------------------------------------------------------
(* Steps of one shape preserve the invariant.                              *)

(* The invariant in its two halves, for this state and the next. *)
LEMMA InvSplit == Inv <=> TypeOK /\ PlacesInv /\ RefsInv
BY DEF Inv, PlacesInv, RefsInv, OnePlaceOnly, OnceQueued, Queues, TypeOK

(* The same for the state after a step. *)
LEMMA InvSplitNext == Inv' <=> TypeOK' /\ PlacesInv' /\ RefsInv'
BY DEF Inv, PlacesInv, RefsInv, OnePlaceOnly, OnceQueued, Queues, TypeOK

(* Labels where a thread may be found at any time. *)
Common == Labels \ (Unplaced \cup {"spawn", "join"})

(* The labels that the lemmas below instantiate. *)
LEMMA CommonLabels ==
  /\ {"run", "atomic", "nopreempt", "yield", "sleep", "mutexWait", "tlocalExit",
      "destructor", "detach", "reap", "taken", "reaperYield", "destroy",
      "launch"} \subseteq Common
  /\ Common \subseteq Labels
  /\ {"spawn", "join", "dead", "free", "created"} \subseteq Labels
BY DEF Common, Labels, InterruptibleLabels, AtomicLabels, UnstartedLabels, Unplaced

(* The current thread moves on and touches no queue. *)
LEMMA GotoStep ==
  ASSUME Inv, TypeOK', NEW label \in Common, Goto(label),
         pc[current] \notin {"dead", "spawn", "join"},
         UNCHANGED <<queue, current, scan, refCount, target, chain>>,
         handles' = handles \/ handles' = [handles EXCEPT ![current] = {}]
  PROVE  Inv'
<1>1. TypeOK /\ PlacesInv /\ RefsInv /\ CurrentPlaced
  BY InvSplit DEF PlacesInv
<1>2. Steady /\ pc'[current] = label
  BY <1>1, SteadyGoto DEF Common
<1>3. ASSUME NEW c \in Threads
      PROVE  handles'[c] = handles[c] \/ (handles'[c] = {} /\ pc'[c] # "join")
  <2>1. label # "join"
    BY DEF Common
  <2>2. handles \in [Threads -> SUBSET Threads]
    BY <1>1 DEF TypeOK
  <2>3. CASE handles' = handles
    BY <2>3
  <2>4. CASE handles' = [handles EXCEPT ![current] = {}]
    <3>1. CASE c = current
      BY <1>2, <2>1, <2>2, <2>4, <3>1
    <3>2. CASE c # current
      BY <2>2, <2>4, <3>2
    <3> QED
      BY <3>1, <3>2
  <2> QED
    BY <2>3, <2>4
<1>4. scan' \in Nat /\ (scan' = 0 <=> scan = 0)
  BY <1>1 DEF TypeOK
<1>5. PlacesInv'
  BY <1>1, <1>2, <1>4, SteadyPlaces
<1>6. RefsInv'
  BY <1>1, <1>2, <1>3, SteadyRefs
<1> QED
  BY <1>5, <1>6, InvSplitNext

(* The current thread blocks and calls schedule(). *)
LEMMA BlockStep ==
  ASSUME Inv, NEW q \in QueueIds \ {"graveyardQueue"},
         queue' \in [QueueIds -> Seq(Threads)] => TypeOK',
         NEW label \in Labels, Goto(label),
         \/ label = pc[current]
         \/ (label \in Common /\ pc[current] \notin {"spawn", "join"}),
         pc[current] # "dead", scan = 0, scan' = 1,
         queue' = enqueueThread(queue, q, current),
         UNCHANGED <<current, refCount, target, handles, chain>>
  PROVE  Inv'
<1>1. TypeOK /\ PlacesInv /\ RefsInv /\ CurrentPlaced
  BY InvSplit DEF PlacesInv
<1>2. Steady
  BY <1>1, SteadyGoto DEF Common
<1>3. PlacesInv'
  BY <1>1, <1>2, BlockPlaces
<1>4. RefsInv'
  <2>1. \A c \in Threads : handles'[c] = handles[c]
                              \/ (handles'[c] = {} /\ pc'[c] # "join")
    OBVIOUS
  <2> QED
    BY <1>1, <1>2, <2>1, SteadyRefs
<1>5. TypeOK'
  BY <1>3 DEF PlacesInv, Queues
<1> QED
  BY <1>3, <1>4, <1>5, InvSplitNext

(* The current thread, or an interrupt handler, makes others runnable. *)
LEMMA WakeStep ==
  ASSUME Inv, NEW q \in QueueIds \ {"graveyardQueue", "runQueue"},
         queue' \in [QueueIds -> Seq(Threads)] => TypeOK',
         Steady,
         \/ queue' = wakeAll(queue, q)
         \/ \E i \in DOMAIN queue[q] : queue' = wakeNth(queue, q, i),
         UNCHANGED <<current, scan, refCount, target, handles, chain>>
  PROVE  Inv'
<1>1. TypeOK /\ PlacesInv /\ RefsInv /\ Queues(queue)
  BY InvSplit DEF PlacesInv
<1>2. /\ Queues(queue')
      /\ \A p \in QueueIds :
           On(p)' \subseteq (IF p = "runQueue" THEN On(p) \cup On(q) ELSE On(p))
  <2>1. CASE queue' = wakeAll(queue, q)
    <3> DEFINE rs == wakeAll(queue, q)
    <3>1. /\ Queues(rs)
          /\ \A p \in QueueIds : Range(rs[p]) =
               IF p = q THEN {}
               ELSE IF p = "runQueue" THEN Range(queue[p]) \cup Range(queue[q])
               ELSE Range(queue[p])
      BY <1>1, WakeAllLemma
    <3> HIDE DEF rs
    <3>2. queue' = rs
      BY <2>1 DEF rs
    <3> QED
      BY <3>1, <3>2 DEF On
  <2>2. CASE \E i \in DOMAIN queue[q] : queue' = wakeNth(queue, q, i)
    <3>0. PICK i \in DOMAIN queue[q] : queue' = wakeNth(queue, q, i)
      BY <2>2
    <3> DEFINE rs == wakeNth(queue, q, i)
    <3>1. Woken(queue, q, queue[q][i], rs)
      BY <1>1, WakeNthLemma
    <3> HIDE DEF rs
    <3>2. queue' = rs
      BY <3>0 DEF rs
    <3> QED
      BY <3>1, <3>2 DEF On, Woken
  <2> QED
    BY <2>1, <2>2
<1>3. PlacesInv'
  BY <1>1, <1>2, MovePlaces
<1>4. RefsInv'
  <2>1. \A c \in Threads : handles'[c] = handles[c]
                              \/ (handles'[c] = {} /\ pc'[c] # "join")
    OBVIOUS
  <2> QED
    BY <1>1, <2>1, SteadyRefs
<1>5. TypeOK'
  BY <1>2 DEF Queues
<1> QED
  BY <1>3, <1>4, <1>5, InvSplitNext

-----------------------------------------------------------------------------
(* Every action preserves the invariant.                                   *)

(* What a guard Executing(label) tells. *)
LEMMA ExecutingFacts ==
  ASSUME Inv, NEW label, Executing(label), label # "dead"
  PROVE  /\ scan = 0 /\ pc[current] = label /\ pc[current] # "dead"
         /\ current \in Threads /\ Goto(pc[current]) <=> pc' = pc
BY DEF Inv, TypeOK, Executing, Goto

(* The steps that only move the current thread on. *)
LEMMA GotoSteps ==
  ASSUME Inv,
         \/ launchKernelThread \/ resumeRunning \/ begIntAtomic \/ endIntAtomic
         \/ disablePreemption \/ enablePreemption \/ mutexWaitReturns
         \/ callDestructor \/ destructorReturns \/ reaperResumes \/ reaperLoops
         \/ \E n \in 0..MaxDestructors : exit(n)
  PROVE  Inv'
<1> USE CommonLabels
<1>1. TypeOK
  BY DEF Inv
<1>2. CASE launchKernelThread
  <2> DEFINE label == IF current = reaper THEN "destroy" ELSE "run"
  <2>1. label \in Common /\ Goto(label) /\ pc[current] \notin {"dead", "spawn", "join"}
    BY <1>2 DEF launchKernelThread, Executing
  <2>2. TypeOK'
    BY <1>1, <1>2, <2>1 DEF launchKernelThread, TypeOK, Goto, schedVars, clockVars, lifeVars
  <2> QED
    BY <1>2, <2>1, <2>2, GotoStep DEF launchKernelThread, schedVars, lifeVars
<1>3. CASE resumeRunning
  <2>1. TypeOK'
    BY <1>1, <1>3 DEF resumeRunning, TypeOK, Goto, schedVars, clockVars, lifeVars
  <2> QED
    BY <1>3, <2>1, GotoStep DEF resumeRunning, Executing, schedVars, lifeVars
<1>4. CASE begIntAtomic
  <2>1. TypeOK'
    BY <1>1, <1>4 DEF begIntAtomic, TypeOK, Goto, schedVars, clockVars, lifeVars
  <2> QED
    BY <1>4, <2>1, GotoStep DEF begIntAtomic, Executing, schedVars, lifeVars
<1>5. CASE endIntAtomic
  <2>1. TypeOK'
    BY <1>1, <1>5 DEF endIntAtomic, TypeOK, Goto, schedVars, clockVars, lifeVars
  <2> QED
    BY <1>5, <2>1, GotoStep DEF endIntAtomic, Executing, schedVars, lifeVars
<1>6. CASE disablePreemption
  <2>1. TypeOK'
    BY <1>1, <1>6 DEF disablePreemption, TypeOK, Goto, schedVars, clockVars, lifeVars
  <2> QED
    BY <1>6, <2>1, GotoStep DEF disablePreemption, Executing, schedVars, lifeVars
<1>7. CASE enablePreemption
  <2>1. TypeOK'
    BY <1>1, <1>7 DEF enablePreemption, TypeOK, Goto, schedVars, clockVars, lifeVars
  <2> QED
    BY <1>7, <2>1, GotoStep DEF enablePreemption, Executing, schedVars, lifeVars
<1>8. CASE mutexWaitReturns
  <2>1. TypeOK'
    BY <1>1, <1>8 DEF mutexWaitReturns, TypeOK, Goto, schedVars, clockVars, lifeVars
  <2> QED
    BY <1>8, <2>1, GotoStep DEF mutexWaitReturns, Executing, schedVars, lifeVars
<1>9. CASE callDestructor
  <2>0. MaxDestructors \in Nat
    BY ThreadAssumption
  <2>1. destructors[current] - 1 \in 0..MaxDestructors
    BY <1>1, <1>9, <2>0 DEF callDestructor, TypeOK
  <2>2. TypeOK'
    BY <1>1, <1>9, <2>1 DEF callDestructor, TypeOK, Goto, schedVars, clockVars
  <2> QED
    BY <1>9, <2>2, GotoStep DEF callDestructor, Executing, schedVars
<1>10. CASE destructorReturns
  <2>1. TypeOK'
    BY <1>1, <1>10 DEF destructorReturns, TypeOK, Goto, schedVars, clockVars, lifeVars
  <2> QED
    BY <1>10, <2>1, GotoStep DEF destructorReturns, Executing, schedVars, lifeVars
<1>11. CASE reaperResumes
  <2>1. TypeOK'
    BY <1>1, <1>11 DEF reaperResumes, TypeOK, Goto, schedVars, clockVars, lifeVars
  <2> QED
    BY <1>11, <2>1, GotoStep DEF reaperResumes, Executing, schedVars, lifeVars
<1>12. CASE reaperLoops
  <2>1. TypeOK'
    BY <1>1, <1>12 DEF reaperLoops, TypeOK, Goto, schedVars, clockVars, lifeVars
  <2> QED
    BY <1>12, <2>1, GotoStep DEF reaperLoops, Executing, schedVars, lifeVars
<1>13. ASSUME NEW n \in 0..MaxDestructors, exit(n)
       PROVE  Inv'
  <2>1. TypeOK'
    BY <1>1, <1>13 DEF exit, TypeOK, Goto, schedVars, clockVars
  <2> QED
    BY <1>13, <2>1, GotoStep DEF exit, Executing, schedVars
<1> QED
  BY <1>2, <1>3, <1>4, <1>5, <1>6, <1>7, <1>8, <1>9, <1>10, <1>11, <1>12, <1>13

(* The clock and the queue names that the blocking steps use. *)
LEMMA Clock == TypeOK => (\A d \in Nat : (ticks + d) % TickModulus \in 0..TickModulus - 1)
BY ThreadAssumption DEF TypeOK

(* A conversion of sleep() gives a whole number of ticks. *)
LEMMA Conversion == \A ms \in SleepMillis : InTicks(ms) \in Nat
<1> SUFFICES ASSUME NEW ms \in SleepMillis PROVE InTicks(ms) \in Nat
  OBVIOUS
<1>1. /\ ms \in Nat /\ TICKS_PER_SEC \in Nat
      /\ TickModulus \in Nat \ {0} /\ MillisPerSec \in Nat \ {0}
  BY ThreadAssumption
<1>2. ms * TICKS_PER_SEC \in Nat
  BY <1>1
<1> DEFINE p == ms * TICKS_PER_SEC
           r == p % TickModulus
<1> HIDE DEF p
<1>3. p \in Nat
  BY <1>2 DEF p
<1>4. r \in Nat
  BY <1>1, <1>3
<1> HIDE DEF r
<1>5. r \div MillisPerSec \in Nat
  BY <1>1, <1>4
<1> QED
  BY <1>5 DEF InTicks, r, p

(* The named queues are queues, and the graveyard is none of the others. *)
LEMMA QueueNames ==
  /\ {"runQueue", "sleepQueue", "reaperWaitQueue"} \subseteq QueueIds \ {"graveyardQueue"}
  /\ "graveyardQueue" \in QueueIds
  /\ Threads \cup WaitQueues \subseteq QueueIds \ {"graveyardQueue", "runQueue"}
BY ThreadAssumption DEF QueueIds, KernelQueues

(* The steps by which the current thread goes onto a queue. *)
LEMMA BlockSteps ==
  ASSUME Inv,
         \/ yield \/ joinWaits \/ reaperWaits \/ reaperYields \/ timerPreempts
         \/ \E ms \in SleepMillis : sleep(ms)
         \/ \E q \in WaitQueues : wait(q) \/ mutexWait(q)
  PROVE  Inv'
<1> USE CommonLabels
<1>1. TypeOK /\ current \in Threads
  BY DEF Inv, TypeOK
<1>2. CASE yield
  <2>1. queue' \in [QueueIds -> Seq(Threads)] => TypeOK'
    BY <1>1, <1>2 DEF yield, TypeOK, Goto, clockVars, lifeVars
  <2> QED
    BY <1>2, <2>1, QueueNames, BlockStep DEF yield, Executing, lifeVars
<1>3. CASE reaperWaits
  <2>1. queue' \in [QueueIds -> Seq(Threads)] => TypeOK'
    BY <1>1, <1>3 DEF reaperWaits, TypeOK, clockVars, lifeVars
  <2>2. Goto("reap") /\ scan = 0 /\ pc[current] = "reap"
    BY <1>1, <1>3 DEF reaperWaits, Executing, Goto, TypeOK
  <2> QED
    BY <1>3, <2>1, <2>2, QueueNames, BlockStep DEF reaperWaits, lifeVars
<1>4. CASE reaperYields
  <2>1. queue' \in [QueueIds -> Seq(Threads)] => TypeOK'
    BY <1>1, <1>4 DEF reaperYields, TypeOK, Goto, clockVars, lifeVars
  <2> QED
    BY <1>4, <2>1, QueueNames, BlockStep DEF reaperYields, Executing, lifeVars
<1>5. CASE timerPreempts
  <2>1. /\ scan = 0 /\ pc[current] # "dead"
        /\ pc[current] \in Labels /\ Goto(pc[current])
    BY <1>1, <1>5 DEF timerPreempts, InterruptsEnabled, InterruptibleLabels,
                      Executing, Goto, TypeOK
  <2>2. queue' \in [QueueIds -> Seq(Threads)] => TypeOK'
    <3>1. (ticks + 1) % TickModulus \in 0..TickModulus - 1
      BY <1>1, Clock
    <3>2. Quantum + 1 \in 0..Quantum + 1
      BY ThreadAssumption
    <3> QED
      BY <1>1, <1>5, <3>1, <3>2 DEF timerPreempts, countTick, TypeOK, lifeVars
  <2> QED
    BY <1>5, <2>1, <2>2, QueueNames, BlockStep DEF timerPreempts, lifeVars
<1>6. CASE joinWaits
  <2>1. queue' \in [QueueIds -> Seq(Threads)] => TypeOK'
    BY <1>1, <1>6 DEF joinWaits, TypeOK, clockVars, lifeVars
  <2>2. Goto("join") /\ scan = 0 /\ pc[current] = "join"
    BY <1>1, <1>6 DEF joinWaits, Executing, Goto, TypeOK
  <2>3. target[current] \in Threads
    BY <1>1, <2>2 DEF Inv, HandlesCounted, TypeOK
  <2> QED
    BY <1>6, <2>1, <2>2, <2>3, QueueNames, BlockStep DEF joinWaits, lifeVars
<1>7. ASSUME NEW ms \in SleepMillis, sleep(ms)
      PROVE  Inv'
  <2>1. PICK label \in {"sleep", "atomic"} : Goto(label)
    BY <1>1, <1>7 DEF sleep, Executing, Goto, TypeOK
  <2>2. scan = 0 /\ pc[current] \notin {"dead", "spawn", "join"}
    BY <1>7 DEF sleep, Executing
  <2>3. queue' \in [QueueIds -> Seq(Threads)] => TypeOK'
    <3>1. (ticks + InTicks(ms)) % TickModulus \in 0..TickModulus - 1
      BY <1>1, <1>7, Clock, Conversion
    <3> QED
      BY <1>1, <1>7, <2>1, <3>1 DEF sleep, TypeOK, Goto, lifeVars
  <2> QED
    BY <1>7, <2>1, <2>2, <2>3, QueueNames, BlockStep DEF sleep, lifeVars
<1>8. ASSUME NEW q \in WaitQueues, wait(q)
      PROVE  Inv'
  <2>1. queue' \in [QueueIds -> Seq(Threads)] => TypeOK'
    BY <1>1, <1>8 DEF wait, TypeOK, clockVars, lifeVars
  <2>2. Goto("atomic") /\ scan = 0 /\ pc[current] = "atomic"
    BY <1>1, <1>8 DEF wait, Executing, Goto, TypeOK
  <2> QED
    BY <1>8, <2>1, <2>2, QueueNames, BlockStep DEF wait, lifeVars
<1>9. ASSUME NEW q \in WaitQueues, mutexWait(q)
      PROVE  Inv'
  <2>1. queue' \in [QueueIds -> Seq(Threads)] => TypeOK'
    BY <1>1, <1>9 DEF mutexWait, TypeOK, Goto, clockVars, lifeVars
  <2> QED
    BY <1>9, <2>1, QueueNames, BlockStep DEF mutexWait, Executing, lifeVars
<1> QED
  BY <1>2, <1>3, <1>4, <1>5, <1>6, <1>7, <1>8, <1>9

(* The steps by which others become runnable. *)
LEMMA WakeSteps ==
  ASSUME Inv,
         \/ notifyJoiners \/ wakeSleepersWake
         \/ \E q \in WaitQueues : wakeOne(q) \/ wakeWaiters(q)
  PROVE  Inv'
<1> USE CommonLabels
<1>1. TypeOK /\ current \in Threads /\ CurrentPlaced /\ Queues(queue)
  BY InvSplit DEF PlacesInv, TypeOK
<1>2. pc' = pc => Steady
  BY DEF Steady
<1>3. CASE notifyJoiners
  <2>1. queue' \in [QueueIds -> Seq(Threads)] => TypeOK'
    BY <1>1, <1>3 DEF notifyJoiners, TypeOK, Goto, clockVars, lifeVars
  <2>2. Steady
    BY <1>1, <1>3, SteadyGoto DEF notifyJoiners, Executing, Common
  <2> QED
    BY <1>1, <1>3, <2>1, <2>2, QueueNames, WakeStep DEF notifyJoiners, lifeVars
<1>4. CASE wakeSleepersWake
  <2>1. queue' \in [QueueIds -> Seq(Threads)] => TypeOK'
    <3>1. 0 \in 0..TickModulus - 1
      BY ThreadAssumption
    <3> QED
      BY <1>1, <1>4, <3>1 DEF wakeSleepersWake, TypeOK, lifeVars
  <2>2. \E i \in DOMAIN queue["sleepQueue"] : queue' = wakeNth(queue, "sleepQueue", i)
    BY <1>4 DEF wakeSleepersWake
  <2>3. "sleepQueue" \in QueueIds \ {"graveyardQueue", "runQueue"}
    BY QueueNames
  <2> QED
    BY <1>2, <1>4, <2>1, <2>2, <2>3, WakeStep DEF wakeSleepersWake, lifeVars
<1>5. ASSUME NEW q \in WaitQueues, wakeOne(q)
      PROVE  Inv'
  <2>1. queue' \in [QueueIds -> Seq(Threads)] => TypeOK'
    BY <1>1, <1>5 DEF wakeOne, TypeOK, clockVars, lifeVars
  <2>2. 1 \in DOMAIN queue[q]
    BY <1>1, <1>5, QueueNames, EmptySeq DEF wakeOne, Queues
  <2> QED
    BY <1>2, <1>5, <2>1, <2>2, QueueNames, WakeStep DEF wakeOne, lifeVars
<1>6. ASSUME NEW q \in WaitQueues, wakeWaiters(q)
      PROVE  Inv'
  <2>1. queue' \in [QueueIds -> Seq(Threads)] => TypeOK'
    BY <1>1, <1>6 DEF wakeWaiters, TypeOK, clockVars, lifeVars
  <2> QED
    BY <1>2, <1>6, <2>1, QueueNames, WakeStep DEF wakeWaiters, lifeVars
<1> QED
  BY <1>3, <1>4, <1>5, <1>6

(* Steps that touch neither a queue, nor a label, nor a reference. *)
LEMMA QuietStep ==
  ASSUME Inv, TypeOK', scan' = 0 <=> scan = 0,
         UNCHANGED <<queue, current, pc, refCount, target, handles, chain>>
  PROVE  Inv'
<1>1. TypeOK /\ PlacesInv /\ RefsInv
  BY InvSplit
<1>2. Steady
  BY DEF Steady
<1>3. PlacesInv'
  BY <1>1, <1>2, SteadyPlaces DEF TypeOK
<1>4. RefsInv'
  BY <1>1, <1>2, SteadyRefs
<1> QED
  BY <1>3, <1>4, InvSplitNext

(* A failed KASSERT stops the machine and leaves the rest as it is. *)
LEMMA KASSERTStep ==
  ASSUME Inv, KASSERTFails
  PROVE  Inv'
<1>1. TypeOK'
  BY DEF Inv, KASSERTFails, TypeOK, schedVars, clockVars, lifeVars
<1> QED
  BY <1>1, QuietStep DEF KASSERTFails, schedVars, lifeVars

(* The steps that change neither a queue nor a label nor a reference. *)
LEMMA QuietSteps ==
  ASSUME Inv,
         \/ wakeSleepersSkip \/ timerTick \/ iret \/ createThreadFails
         \/ UNCHANGED vars
  PROVE  Inv'
<1>1. TypeOK
  BY DEF Inv
<1>2. CASE wakeSleepersSkip
  <2>1. scan \in Nat /\ scan # 0
    BY <1>1, <1>2, QueueNames, LenProperties DEF wakeSleepersSkip, TypeOK
  <2>2. scan' \in Nat /\ scan' # 0
    BY <1>2, <2>1 DEF wakeSleepersSkip
  <2>3. UNCHANGED <<queue, current, inIrq, numTicks, clockVars, lifeVars, pc,
                    preemptionDisabled, halted>>
    BY <1>2 DEF wakeSleepersSkip
  <2>4. TypeOK'
    BY <1>1, <2>2, <2>3 DEF TypeOK, clockVars, lifeVars
  <2> QED
    BY <2>1, <2>2, <2>3, <2>4, QuietStep DEF lifeVars
<1>3. CASE timerTick
  <2>1. (ticks + 1) % TickModulus \in 0..TickModulus - 1
    BY <1>1, Clock
  <2>2. (IF numTicks[current] > Quantum THEN Quantum + 1 ELSE numTicks[current] + 1)
           \in 0..Quantum + 1
    <3>1. numTicks[current] \in 0..Quantum + 1 /\ Quantum \in Nat
      BY <1>1, ThreadAssumption DEF TypeOK
    <3> QED
      BY <3>1
  <2>3. TypeOK'
    BY <1>1, <1>3, <2>1, <2>2 DEF timerTick, countTick, TypeOK, lifeVars
  <2> QED
    BY <1>3, <2>3, QuietStep DEF timerTick, lifeVars
<1>4. CASE iret
  <2>1. TypeOK'
    BY <1>1, <1>4 DEF iret, TypeOK, clockVars, lifeVars
  <2> QED
    BY <1>4, <2>1, QuietStep DEF iret, lifeVars
<1>5. CASE createThreadFails
  <2>1. TypeOK'
    BY <1>1, <1>5 DEF createThreadFails, TypeOK, schedVars, clockVars, lifeVars
  <2> QED
    BY <1>5, <2>1, QuietStep DEF createThreadFails, schedVars, lifeVars
<1>6. CASE UNCHANGED vars
  <2>1. TypeOK'
    BY <1>1, <1>6 DEF vars, TypeOK, schedVars, clockVars, lifeVars
  <2> QED
    BY <1>6, <2>1, QuietStep DEF vars, schedVars, lifeVars
<1> QED
  BY <1>2, <1>3, <1>4, <1>5, <1>6

(* The head of the run queue gets the CPU. *)
LEMMA SwitchStep ==
  ASSUME Inv, switchToThread
  PROVE  Inv'
<1>1. TypeOK /\ PlacesInv /\ RefsInv /\ Queues(queue)
  BY InvSplit DEF PlacesInv
<1>2. CASE queue["runQueue"] = <<>> \/ preemptionDisabled
  BY <1>2, KASSERTStep DEF switchToThread
<1>3. CASE ~(queue["runQueue"] = <<>> \/ preemptionDisabled)
  <2> DEFINE t == queue["runQueue"][1]
             rs == dequeueThread(queue, "runQueue", 1)
  <2>1. /\ current' = t /\ queue' = rs /\ scan' = 0
        /\ numTicks' = [numTicks EXCEPT ![current] = 0]
        /\ UNCHANGED <<inIrq, clockVars, lifeVars, pc, preemptionDisabled, halted>>
    BY <1>3 DEF switchToThread
  <2>2. "runQueue" \in QueueIds /\ 1 \in DOMAIN queue["runQueue"]
    BY <1>1, <1>3, QueueNames, EmptySeq DEF Queues
  <2>3. /\ Queues(rs)
        /\ \A p \in QueueIds : Range(rs[p]) =
             IF p = "runQueue" THEN Range(queue[p]) \ {t} ELSE Range(queue[p])
        /\ t \in Threads /\ t \notin QueuedIn(rs)
    BY <1>1, <2>2, DequeueLemma
  <2>4. t \in On("runQueue")
    BY <1>1, <2>2, QueuesFacts DEF On
  <2> HIDE DEF rs, t
  <2>5. \A p \in QueueIds : On(p)' \subseteq On(p)
    BY <2>1, <2>3 DEF On
  <2>6. Queued' \subseteq Queued
    BY <2>5 DEF Queued, QueuedIn, On
  <2>7. TypeOK'
    <3>1. queue' \in [QueueIds -> Seq(Threads)] /\ current' \in Threads
      BY <2>1, <2>3 DEF Queues
    <3>2. numTicks' \in [Threads -> 0..Quantum + 1] /\ scan' \in Nat
      BY <1>1, <2>1, ThreadAssumption DEF TypeOK
    <3> QED
      BY <1>1, <2>1, <3>1, <3>2 DEF TypeOK, clockVars, lifeVars
  <2>8. PlacesInv'
    <3>1. RunningUnqueued'
      BY <2>1, <2>3 DEF RunningUnqueued, Queued
    <3>2. QueuesSorted'
      BY <1>1, <2>1, <2>5 DEF PlacesInv, QueuesSorted, lifeVars
    <3>3. CurrentPlaced'
      BY <1>1, <2>1, <2>2, <2>4 DEF PlacesInv, QueuesSorted, CurrentPlaced
    <3>4. ChainDead'
      BY <1>1, <2>1, <2>6 DEF PlacesInv, ChainDead, lifeVars
    <3> QED
      BY <2>1, <2>3, <3>1, <3>2, <3>3, <3>4 DEF PlacesInv
  <2>9. RefsInv'
    BY <1>1, <2>1, SteadyRefs DEF Steady, lifeVars
  <2> QED
    BY <2>7, <2>8, <2>9, InvSplitNext
<1> QED
  BY <1>2, <1>3

(* A free page becomes a thread. *)
LEMMA CreateStep ==
  ASSUME Inv, NEW t \in Threads, NEW detached \in BOOLEAN, createThread(t, detached)
  PROVE  Inv'
<1>1. TypeOK /\ PlacesInv /\ RefsInv /\ Queues(queue)
  BY InvSplit DEF PlacesInv
<1>2. /\ current \in Threads /\ scan = 0 /\ pc[current] = "run" /\ pc[t] = "free"
      /\ current # t
  BY <1>1 DEF TypeOK, createThread, Executing
<1>3. /\ pc'[t] = "created" /\ pc'[current] = "spawn" /\ target'[current] = t
      /\ refCount'[t] = IF detached THEN 1 ELSE 2
      /\ \A c \in Threads \ {t} : refCount'[c] = refCount[c]
      /\ \A c \in Threads \ {current} :
           target'[c] = target[c] /\ handles'[c] = handles[c]
      /\ \A c \in Threads \ {t, current} : pc'[c] = pc[c]
      /\ handles'[current] = IF detached THEN handles[current]
                                         ELSE handles[current] \cup {t}
  BY <1>1, <1>2 DEF TypeOK, createThread
<1>4. /\ Queues(queue')
      /\ \A p \in QueueIds : On(p)' \subseteq On(p)
  <2>1. t \in QueueIds /\ queue' = threadQueueClear(queue, t)
    BY QueueNames DEF createThread
  <2> QED
    BY <1>1, <2>1, ClearLemma DEF On
<1>5. Queued' \subseteq Queued
  BY <1>4 DEF Queued, QueuedIn, On
<1>6. t \notin Queued /\ current \notin Queued
  BY <1>1, <1>2 DEF PlacesInv, QueuesSorted, RunningUnqueued, Queued, QueuedIn, On
<1>7. TypeOK'
  <2>1. 0 \in 0..TickModulus - 1 /\ 0 \in 0..Quantum + 1 /\ 1 \in 0..2 /\ 2 \in 0..2
    BY ThreadAssumption
  <2>2. {"created", "spawn"} \subseteq Labels
    BY CommonLabels
  <2> QED
    BY <1>1, <1>2, <1>4, <2>1, <2>2 DEF TypeOK, createThread, Queues
<1>8. PlacesInv'
  <2>1. RunningUnqueued' /\ CurrentPlaced'
    BY <1>2, <1>3, <1>5, <1>6 DEF RunningUnqueued, CurrentPlaced, createThread
  <2>2. QueuesSorted'
    <3> SUFFICES ASSUME NEW q \in QueueIds, NEW u \in On(q)'
                 PROVE  IF q = "graveyardQueue"
                          THEN pc'[u] = "dead" /\ refCount'[u] = 0
                          ELSE pc'[u] \notin {"free", "created", "dead"}
      BY DEF QueuesSorted
    <3>1. u \in On(q) /\ u \in Queued /\ u \in Threads
      BY <1>1, <1>4, QueuesFacts DEF Queued, QueuedIn, On
    <3>2. pc'[u] = pc[u] /\ refCount'[u] = refCount[u]
      BY <1>3, <1>6, <3>1
    <3> QED
      BY <1>1, <3>1, <3>2 DEF PlacesInv, QueuesSorted
  <2>3. ChainDead'
    <3>1. \A i \in DOMAIN chain : chain[i] \in Threads
      BY <1>1, LenProperties DEF TypeOK
    <3>2. \A i \in DOMAIN chain : chain[i] \notin {t, current}
      BY <1>1, <1>2 DEF PlacesInv, ChainDead
    <3>3. \A i \in DOMAIN chain :
             pc'[chain[i]] = pc[chain[i]] /\ refCount'[chain[i]] = refCount[chain[i]]
      BY <1>3, <3>1, <3>2
    <3>4. chain' = chain
      BY DEF createThread
    <3> QED
      BY <1>1, <1>5, <3>3, <3>4 DEF PlacesInv, ChainDead
  <2> QED
    BY <1>4, <2>1, <2>2, <2>3 DEF PlacesInv
<1>9. SpawnersApart'
  BY <1>1, <1>2, <1>3 DEF RefsInv, SpawnersApart
<1>10. HandlesCounted'
  <2>1. \A u \in Threads : pc'[u] \notin {"free", "dead"} => refCount'[u] > 0
    BY <1>1, <1>2, <1>3 DEF RefsInv, HandlesCounted
  <2>2. \A c \in Threads : t \notin handles[c] /\ handles[c] \subseteq Threads
    BY <1>1, <1>2 DEF RefsInv, HandlesCounted, TypeOK
  <2>3. ASSUME NEW c \in Threads, NEW u \in handles'[c]
        PROVE  /\ pc'[u] # "free" /\ refCount'[u] > 0
               /\ pc'[u] # "dead" => refCount'[u] > 1
               /\ \A d \in Threads : u \in handles'[d] => c = d
    <3>1. CASE u = t
      BY <1>3, <2>2, <2>3, <3>1
    <3>2. CASE u # t
      <4>1. u \in handles[c] /\ u \in Threads
        BY <1>3, <2>2, <2>3, <3>2
      <4>2. refCount'[u] = refCount[u] /\ (u # current => pc'[u] = pc[u])
        BY <1>3, <3>2, <4>1
      <4>3. \A d \in Threads : u \in handles'[d] => u \in handles[d]
        BY <1>3, <3>2
      <4> QED
        BY <1>1, <1>2, <1>3, <4>1, <4>2, <4>3 DEF RefsInv, HandlesCounted
    <3> QED
      BY <3>1, <3>2
  <2>4. \A c \in Threads : pc'[c] = "join" => target'[c] \in handles'[c]
    BY <1>1, <1>2, <1>3 DEF RefsInv, HandlesCounted
  <2> QED
    BY <2>1, <2>3, <2>4 DEF HandlesCounted
<1> QED
  BY <1>7, <1>8, <1>9, <1>10, InvSplitNext DEF RefsInv

(* The new thread becomes runnable. *)
LEMMA MakeRunnableStep ==
  ASSUME Inv, makeRunnableAtomic
  PROVE  Inv'
<1> DEFINE t == target[current]
<1>1. TypeOK /\ PlacesInv /\ RefsInv /\ Queues(queue)
  BY InvSplit DEF PlacesInv
<1>2. /\ current \in Threads /\ scan = 0 /\ pc[current] = "spawn"
      /\ t \in Threads /\ pc[t] = "created" /\ current # t
  BY <1>1 DEF TypeOK, makeRunnableAtomic, Executing, RefsInv, SpawnersApart
<1>3. /\ pc'[t] = "launch" /\ pc'[current] = "run"
      /\ \A c \in Threads \ {t, current} : pc'[c] = pc[c]
      /\ \A c \in Threads \ {current} : target'[c] = target[c]
      /\ target'[current] = NoThread
      /\ UNCHANGED <<current, scan, refCount, handles, chain>>
  BY <1>1, <1>2 DEF TypeOK, makeRunnableAtomic
<1>4. t \notin Queued /\ current \notin Queued
  BY <1>1, <1>2 DEF PlacesInv, QueuesSorted, RunningUnqueued, Queued, QueuedIn, On
<1>5. /\ Queues(queue')
      /\ \A p \in QueueIds : On(p)' = IF p = "runQueue" THEN On(p) \cup {t} ELSE On(p)
  <2>1. "runQueue" \in QueueIds /\ queue' = enqueueThread(queue, "runQueue", t)
    BY QueueNames DEF makeRunnableAtomic
  <2>2. t \notin QueuedIn(queue)
    BY <1>4 DEF Queued
  <2> QED
    BY <1>1, <1>2, <2>1, <2>2, EnqueueLemma DEF On
<1>6. Queued' \subseteq Queued \cup {t}
  BY <1>5 DEF Queued, QueuedIn, On
<1>7. TypeOK'
  <2>1. {"launch", "run"} \subseteq Labels
    BY CommonLabels
  <2>2. pc' \in [Threads -> Labels]
    BY <1>1, <2>1 DEF TypeOK, makeRunnableAtomic
  <2>3. target' \in [Threads -> Threads \cup {NoThread}]
    BY <1>1 DEF TypeOK, makeRunnableAtomic
  <2>4. queue' \in [QueueIds -> Seq(Threads)]
    BY <1>5 DEF Queues
  <2>5. UNCHANGED <<current, inIrq, scan, numTicks, clockVars, alive, refCount,
                    owner, handles, destructors, chain, preemptionDisabled, halted>>
    BY DEF makeRunnableAtomic
  <2> QED
    BY <1>1, <2>2, <2>3, <2>4, <2>5 DEF TypeOK, clockVars
<1> HIDE DEF t
<1>8. PlacesInv'
  <2>1. RunningUnqueued' /\ CurrentPlaced'
    BY <1>2, <1>3, <1>4, <1>6 DEF RunningUnqueued, CurrentPlaced
  <2>2. QueuesSorted'
    <3> SUFFICES ASSUME NEW q \in QueueIds, NEW u \in On(q)'
                 PROVE  IF q = "graveyardQueue"
                          THEN pc'[u] = "dead" /\ refCount'[u] = 0
                          ELSE pc'[u] \notin {"free", "created", "dead"}
      BY DEF QueuesSorted
    <3>1. CASE u = t
      <4>1. q # "graveyardQueue"
        BY <1>4, <1>5, <3>1 DEF Queued, QueuedIn, On
      <4> QED
        BY <1>3, <3>1, <4>1
    <3>2. CASE u # t
      <4>0. u \in On(q)
        BY <1>5, <3>2
      <4>1. u \in On(q) /\ u \in Queued /\ u \in Threads
        BY <1>1, <4>0, QueuesFacts DEF Queued, QueuedIn, On
      <4>2. pc'[u] = pc[u] /\ refCount'[u] = refCount[u]
        BY <1>3, <1>4, <3>2, <4>1
      <4> QED
        BY <1>1, <4>1, <4>2 DEF PlacesInv, QueuesSorted
    <3> QED
      BY <3>1, <3>2
  <2>3. ChainDead'
    <3>1. \A i \in DOMAIN chain : chain[i] \in Threads \ {t, current}
      BY <1>1, <1>2, LenProperties DEF TypeOK, PlacesInv, ChainDead
    <3>2. \A i \in DOMAIN chain : pc'[chain[i]] = pc[chain[i]]
      BY <1>3, <3>1
    <3> QED
      BY <1>1, <1>3, <1>6, <3>1, <3>2 DEF PlacesInv, ChainDead
  <2> QED
    BY <1>5, <2>1, <2>2, <2>3 DEF PlacesInv
<1>9. SpawnersApart'
  <2>1. \A c \in Threads \ {current} : pc[c] = "spawn" => target[c] # t
    BY <1>1, <1>2 DEF RefsInv, SpawnersApart, t
  <2> QED
    BY <1>1, <1>2, <1>3, <2>1 DEF RefsInv, SpawnersApart
<1>10. HandlesCounted'
  <2>1. \A u \in Threads : /\ pc'[u] = "free" <=> (pc[u] = "free")
                           /\ pc'[u] = "dead" <=> (pc[u] = "dead")
                           /\ pc'[u] = "join" => pc[u] = "join" /\ u # current
    BY <1>2, <1>3
  <2>2. \A c \in Threads : handles[c] \subseteq Threads
    BY <1>1 DEF TypeOK
  <2> QED
    BY <1>1, <1>3, <2>1, <2>2 DEF RefsInv, HandlesCounted
<1> QED
  BY <1>7, <1>8, <1>9, <1>10, InvSplitNext DEF RefsInv

(* A thread without references goes to the graveyard. *)
LEMMA ReapIfUnreferenced ==
  ASSUME Queues(queue), NEW t \in Threads, t \notin Queued, NEW n,
         queue' = reapIfUnreferenced(t, n)
  PROVE  /\ Queues(queue')
         /\ On("graveyardQueue")' = IF n = 0 THEN On("graveyardQueue") \cup {t}
                                             ELSE On("graveyardQueue")
         /\ \A p \in QueueIds : On(p)' \subseteq
              IF p = "graveyardQueue" THEN On(p) \cup {t}
              ELSE IF p = "runQueue" THEN On(p) \cup On("reaperWaitQueue")
              ELSE On(p)
         /\ Queued' \subseteq Queued \cup {t}
<1>0. {"graveyardQueue", "reaperWaitQueue", "runQueue"} \subseteq QueueIds
  BY QueueNames
<1>1. CASE n = 0
  <2> DEFINE rs == reapThread(t)
  <2>1. /\ Queues(rs)
        /\ \A p \in QueueIds : Range(rs[p]) =
             IF p = "graveyardQueue" THEN On(p) \cup {t}
             ELSE IF p = "reaperWaitQueue" THEN {}
             ELSE IF p = "runQueue" THEN On(p) \cup On("reaperWaitQueue")
             ELSE On(p)
    BY ReapLemma
  <2>2. queue' = rs
    BY <1>1 DEF reapIfUnreferenced
  <2> HIDE DEF rs
  <2>3. \A p \in QueueIds : On(p)' =
          IF p = "graveyardQueue" THEN On(p) \cup {t}
          ELSE IF p = "reaperWaitQueue" THEN {}
          ELSE IF p = "runQueue" THEN On(p) \cup On("reaperWaitQueue")
          ELSE On(p)
    BY <2>1, <2>2 DEF On
  <2>4. Queued' \subseteq Queued \cup {t}
    <3> SUFFICES ASSUME NEW p \in QueueIds, NEW u \in On(p)'
                 PROVE  u = t \/ \E q \in QueueIds : u \in On(q)
      BY DEF Queued, QueuedIn, On
    <3> QED
      BY <1>0, <2>3
  <2> QED
    BY <1>0, <1>1, <2>1, <2>2, <2>3, <2>4
<1>2. CASE n # 0
  <2>1. queue' = queue
    BY <1>2 DEF reapIfUnreferenced
  <2> QED
    BY <1>2, <2>1 DEF Queued, QueuedIn, On
<1> QED
  BY <1>1, <1>2

(***************************************************************************)
(* A reference to t is dropped, in detachThread(): t is on no queue, and   *)
(* if the reference was the last one, t is dead.                           *)
(***************************************************************************)
LEMMA DetachPlaces ==
  ASSUME TypeOK, PlacesInv, NEW t \in Threads, t \notin Queued,
         refCount[t] # 0, detachThread(t),
         UNCHANGED <<current, chain>>, current \notin Queued, scan' \in Nat,
         \A u \in Threads \ {current} : pc'[u] = pc[u],
         pc'[current] \notin {"free", "created"}, pc[current] # "dead",
         pc'[current] = "dead" => scan' > 0,
         refCount[t] = 1 => pc'[t] = "dead",
         t = current => scan' > 0
  PROVE  PlacesInv'
<1>1. /\ refCount'[t] = refCount[t] - 1
      /\ \A u \in Threads \ {t} : refCount'[u] = refCount[u]
      /\ refCount[t] \in 0..2
  BY DEF TypeOK, detachThread
<1>2. /\ Queues(queue')
      /\ On("graveyardQueue")' = IF refCount[t] - 1 = 0
                                   THEN On("graveyardQueue") \cup {t}
                                   ELSE On("graveyardQueue")
      /\ \A p \in QueueIds : On(p)' \subseteq
              IF p = "graveyardQueue" THEN On(p) \cup {t}
              ELSE IF p = "runQueue" THEN On(p) \cup On("reaperWaitQueue")
              ELSE On(p)
      /\ Queued' \subseteq Queued \cup {t}
  BY ReapIfUnreferenced DEF PlacesInv, detachThread
<1>3. RunningUnqueued'
  BY <1>2 DEF RunningUnqueued, TypeOK
<1>4. CurrentPlaced'
  BY DEF CurrentPlaced
<1>5. ASSUME NEW u \in Queued
      PROVE  u \in Threads /\ pc'[u] = pc[u] /\ refCount'[u] = refCount[u]
  <2>1. u \in Threads
    BY <1>5, QueuesFacts DEF PlacesInv, Queued, QueuedIn
  <2> QED
    BY <1>1, <1>5, <2>1
<1>6. QueuesSorted'
  <2> SUFFICES ASSUME NEW q \in QueueIds, NEW u \in On(q)'
               PROVE  IF q = "graveyardQueue"
                        THEN pc'[u] = "dead" /\ refCount'[u] = 0
                        ELSE pc'[u] \notin {"free", "created", "dead"}
    BY DEF QueuesSorted
  <2>1. CASE q = "graveyardQueue"
    <3>1. CASE u = t
      <4>1. t \notin On("graveyardQueue")
        BY <2>1 DEF Queued, QueuedIn, On
      <4>2. refCount[t] = 1
        BY <1>1, <1>2, <2>1, <3>1, <4>1
      <4> QED
        BY <1>1, <2>1, <3>1, <4>2
    <3>2. CASE u # t
      <4>1. u \in On(q) /\ u \in Queued
        BY <1>2, <2>1, <3>2 DEF Queued, QueuedIn, On
      <4> QED
        BY <1>5, <2>1, <4>1 DEF PlacesInv, QueuesSorted
    <3> QED
      BY <3>1, <3>2
  <2>2. CASE q # "graveyardQueue"
    <3>1. PICK p \in QueueIds : u \in On(p) /\ p # "graveyardQueue"
      BY <1>2, <2>2, QueueNames
    <3>2. u \in Queued
      BY <3>1 DEF Queued, QueuedIn, On
    <3> QED
      BY <1>5, <2>2, <3>1, <3>2 DEF PlacesInv, QueuesSorted
  <2> QED
    BY <2>1, <2>2
<1>7. ChainDead'
  <2>1. \A i \in DOMAIN chain : chain[i] \in Threads
    BY LenProperties DEF TypeOK
  <2>2. \A i \in DOMAIN chain : chain[i] # t /\ chain[i] # current
    BY DEF PlacesInv, ChainDead
  <2>3. \A i \in DOMAIN chain : /\ pc'[chain[i]] = pc[chain[i]]
                                /\ refCount'[chain[i]] = refCount[chain[i]]
    BY <1>1, <2>1, <2>2
  <2> QED
    BY <1>2, <2>2, <2>3 DEF PlacesInv, ChainDead
<1> QED
  BY <1>2, <1>3, <1>4, <1>6, <1>7 DEF PlacesInv

(* detachThread() of a thread with a reference keeps the types. *)
LEMMA DetachType ==
  ASSUME TypeOK, Queues(queue'), NEW t \in Threads, refCount[t] # 0, detachThread(t)
  PROVE  queue' \in [QueueIds -> Seq(Threads)] /\ refCount' \in [Threads -> 0..2]
<1>1. refCount[t] - 1 \in 0..2
  BY DEF TypeOK
<1> QED
  BY <1>1 DEF TypeOK, detachThread, Queues

(* A thread drops the reference to itself and leaves for good. *)
LEMMA DetachSelfStep ==
  ASSUME Inv, detachSelf
  PROVE  Inv'
<1>1. TypeOK /\ PlacesInv /\ RefsInv /\ Queues(queue)
  BY InvSplit DEF PlacesInv
<1>2. CASE refCount[current] = 0
  BY <1>2, KASSERTStep DEF detachSelf
<1>3. CASE refCount[current] # 0
  <2>1. /\ current \in Threads /\ scan = 0 /\ pc[current] = "detach"
        /\ detachThread(current) /\ scan' = 1 /\ Goto("dead")
        /\ UNCHANGED <<current, inIrq, numTicks, clockVars, alive, owner,
                       target, handles, destructors, chain,
                       preemptionDisabled, halted>>
    BY <1>1, <1>3 DEF TypeOK, detachSelf, Executing
  <2>2. /\ pc'[current] = "dead" /\ \A u \in Threads \ {current} : pc'[u] = pc[u]
        /\ pc' \in [Threads -> Labels]
    BY <1>1, <2>1, CommonLabels DEF TypeOK, Goto
  <2>3. current \notin Queued
    BY <1>1, <2>1 DEF PlacesInv, RunningUnqueued
  <2>4. PlacesInv'
    BY <1>1, <1>3, <2>1, <2>2, <2>3, DetachPlaces
  <2>5. TypeOK'
    <3>1. queue' \in [QueueIds -> Seq(Threads)] /\ refCount' \in [Threads -> 0..2]
      BY <1>1, <1>3, <2>1, <2>4, DetachType DEF PlacesInv
    <3> QED
      BY <1>1, <2>1, <2>2, <3>1 DEF TypeOK, clockVars
  <2>6. /\ refCount[current] \in 0..2 /\ refCount'[current] = refCount[current] - 1
        /\ \A u \in Threads \ {current} : refCount'[u] = refCount[u]
    BY <1>1, <2>1 DEF TypeOK, detachThread
  <2>7. SpawnersApart'
    BY <1>1, <2>1, <2>2 DEF RefsInv, SpawnersApart
  <2>8. HandlesCounted'
    <3>1. \A c \in Threads : handles[c] \subseteq Threads
      BY <1>1 DEF TypeOK
    <3>2. \A u \in Threads : pc'[u] \notin {"free", "dead"} => refCount'[u] > 0
      BY <1>1, <2>1, <2>2, <2>6 DEF RefsInv, HandlesCounted
    <3>3. ASSUME NEW c \in Threads, NEW u \in handles[c]
          PROVE  /\ pc'[u] # "free" /\ refCount'[u] > 0
                 /\ pc'[u] # "dead" => refCount'[u] > 1
                 /\ \A d \in Threads : u \in handles[d] => c = d
      <4>1. u \in Threads
        BY <3>1, <3>3
      <4>2. CASE u = current
        BY <1>1, <2>1, <2>2, <2>6, <3>3, <4>1, <4>2 DEF RefsInv, HandlesCounted
      <4>3. CASE u # current
        BY <1>1, <2>2, <2>6, <3>3, <4>1, <4>3 DEF RefsInv, HandlesCounted
      <4> QED
        BY <4>2, <4>3
    <3>4. \A c \in Threads : pc'[c] = "join" => target'[c] \in handles'[c]
      BY <1>1, <2>1, <2>2 DEF RefsInv, HandlesCounted
    <3> QED
      BY <2>1, <3>2, <3>3, <3>4 DEF HandlesCounted
  <2> QED
    BY <2>4, <2>5, <2>7, <2>8, InvSplitNext DEF RefsInv
<1> QED
  BY <1>2, <1>3

(* The joiner drops its reference to a thread that has died. *)
LEMMA JoinReturnsStep ==
  ASSUME Inv, joinReturns
  PROVE  Inv'
<1> DEFINE t == target[current]
<1>1. TypeOK /\ PlacesInv /\ RefsInv /\ Queues(queue)
  BY InvSplit DEF PlacesInv
<1>2. CASE refCount[target[current]] = 0
  BY <1>2, KASSERTStep DEF joinReturns
<1>3. CASE refCount[target[current]] # 0
  <2>1. /\ current \in Threads /\ scan = 0 /\ pc[current] = "join"
        /\ refCount[t] # 0 /\ detachThread(t) /\ Goto("run")
        /\ handles' = [handles EXCEPT ![current] = @ \ {t}]
        /\ target' = [target EXCEPT ![current] = NoThread]
        /\ UNCHANGED <<current, inIrq, scan, numTicks, clockVars, alive,
                       owner, destructors, chain, preemptionDisabled, halted>>
    BY <1>1, <1>3 DEF TypeOK, joinReturns, Executing
  <2>2. /\ t \in handles[current] /\ t \in Threads
        /\ pc[t] # "free" /\ refCount[t] > 0 /\ refCount[t] \in 0..2
        /\ pc[t] # "dead" => refCount[t] > 1
        /\ \A d \in Threads : t \in handles[d] => d = current
    BY <1>1, <2>1 DEF RefsInv, HandlesCounted, TypeOK
  <2> HIDE DEF t
  <2>3. /\ pc'[current] = "run" /\ \A u \in Threads \ {current} : pc'[u] = pc[u]
        /\ pc' \in [Threads -> Labels]
    BY <1>1, <2>1, CommonLabels DEF TypeOK, Goto
  <2>4. current \notin Queued
    BY <1>1, <2>1 DEF PlacesInv, RunningUnqueued
  <2>5. refCount[t] = 1 => pc[t] = "dead" /\ t # current
    BY <2>1, <2>2
  <2>6. PlacesInv'
    <3>1. CASE refCount[t] = 1
      <4>1. t \notin Queued
        BY <1>1, <2>5, <3>1 DEF PlacesInv, QueuesSorted, Queued, QueuedIn, On
      <4> QED
        BY <1>1, <2>1, <2>2, <2>3, <2>4, <2>5, <3>1, <4>1, DetachPlaces DEF TypeOK
    <3>2. CASE refCount[t] = 2
      <4>1. queue' = queue /\ refCount' = [refCount EXCEPT ![t] = @ - 1]
        BY <2>1, <3>2 DEF detachThread, reapIfUnreferenced
      <4>2. /\ Queues(queue)' /\ RunningUnqueued' /\ CurrentPlaced'
            /\ Queued' = Queued /\ \A p \in QueueIds : On(p)' = On(p)
        BY <1>1, <2>1, <2>3, <4>1
           DEF PlacesInv, Queues, OnceIn, RunningUnqueued, CurrentPlaced, Queued,
               QueuedIn, On
      <4>3. ASSUME NEW u \in Threads, refCount[u] = 0 \/ u \in Queued
            PROVE  /\ pc'[u] = pc[u] \/ (pc[u] = "join" /\ u \notin Queued)
                   /\ refCount[u] = 0 => refCount'[u] = 0
        BY <1>1, <2>1, <2>3, <2>4, <3>2, <4>1, <4>3 DEF TypeOK
      <4>4. QueuesSorted'
        <5> SUFFICES ASSUME NEW q \in QueueIds, NEW u \in On(q)
                     PROVE  IF q = "graveyardQueue"
                              THEN pc'[u] = "dead" /\ refCount'[u] = 0
                              ELSE pc'[u] \notin {"free", "created", "dead"}
          BY <4>2 DEF QueuesSorted
        <5>1. u \in Threads /\ u \in Queued
          BY <1>1, QueuesFacts DEF On, Queued, QueuedIn
        <5> QED
          BY <1>1, <4>3, <5>1 DEF PlacesInv, QueuesSorted
      <4>5. ChainDead'
        <5>1. \A i \in DOMAIN chain : chain[i] \in Threads
          BY <1>1, LenProperties DEF TypeOK
        <5> QED
          BY <1>1, <2>1, <4>2, <4>3, <5>1 DEF PlacesInv, ChainDead
      <4> QED
        BY <4>1, <4>2, <4>4, <4>5 DEF PlacesInv
    <3> QED
      BY <2>2, <3>1, <3>2
  <2>7. TypeOK'
    <3>1. queue' \in [QueueIds -> Seq(Threads)] /\ refCount' \in [Threads -> 0..2]
      BY <1>1, <2>1, <2>2, <2>6, DetachType DEF PlacesInv
    <3>2. /\ handles' \in [Threads -> SUBSET Threads]
          /\ target' \in [Threads -> Threads \cup {NoThread}]
      BY <1>1, <2>1 DEF TypeOK
    <3> QED
      BY <1>1, <2>1, <2>3, <3>1, <3>2 DEF TypeOK, clockVars
  <2>8. /\ refCount'[t] = refCount[t] - 1
        /\ \A u \in Threads \ {t} : refCount'[u] = refCount[u]
        /\ handles'[current] = handles[current] \ {t} /\ target'[current] = NoThread
        /\ \A c \in Threads \ {current} :
              handles'[c] = handles[c] /\ target'[c] = target[c]
    BY <1>1, <2>1, <2>2 DEF TypeOK, detachThread
  <2>9. SpawnersApart'
    BY <1>1, <2>1, <2>3, <2>8 DEF RefsInv, SpawnersApart
  <2>10. HandlesCounted'
    <3>1. \A c \in Threads : handles'[c] \subseteq handles[c] /\ handles[c] \subseteq Threads
      BY <1>1, <2>1 DEF TypeOK
    <3>2. \A u \in Threads : /\ pc'[u] = "free" <=> pc[u] = "free"
                             /\ pc'[u] = "dead" <=> pc[u] = "dead"
      BY <2>1, <2>3
    <3>3. \A u \in Threads : pc'[u] \notin {"free", "dead"} => refCount'[u] > 0
      BY <1>1, <2>2, <2>8, <3>2 DEF RefsInv, HandlesCounted
    <3>4. ASSUME NEW c \in Threads, NEW u \in handles'[c]
          PROVE  /\ pc'[u] # "free" /\ refCount'[u] > 0
                 /\ pc'[u] # "dead" => refCount'[u] > 1
                 /\ \A d \in Threads : u \in handles'[d] => c = d
      <4>1. u \in handles[c] /\ u \in Threads
        BY <3>1, <3>4
      <4>2. u # t
        BY <2>2, <2>8, <3>4, <4>1
      <4> QED
        BY <1>1, <2>8, <3>1, <3>2, <4>1, <4>2 DEF RefsInv, HandlesCounted
    <3>5. \A c \in Threads : pc'[c] = "join" => target'[c] \in handles'[c]
      BY <1>1, <2>3, <2>8 DEF RefsInv, HandlesCounted
    <3> QED
      BY <3>3, <3>4, <3>5 DEF HandlesCounted
  <2> QED
    BY <2>6, <2>7, <2>9, <2>10, InvSplitNext DEF RefsInv
<1> QED
  BY <1>2, <1>3

(***************************************************************************)
(* A join begins.  Without OwnersOnly a thread may be joined by another    *)
(* than the one that holds its handle, and HandlesCounted is lost.         *)
(***************************************************************************)
LEMMA JoinStep ==
  ASSUME Inv, OwnersOnly, NEW t \in Threads, join(t)
  PROVE  Inv'
<1>1. TypeOK /\ PlacesInv /\ RefsInv /\ Queues(queue)
  BY InvSplit DEF PlacesInv
<1>2. /\ current \in Threads /\ scan = 0 /\ pc[current] = "run"
      /\ t \in handles[current]
      /\ pc'[current] = "join" /\ \A c \in Threads \ {current} : pc'[c] = pc[c]
      /\ target'[current] = t
      /\ \A c \in Threads \ {current} : target'[c] = target[c]
      /\ UNCHANGED <<schedVars, clockVars, alive, refCount, handles, destructors,
                     chain, preemptionDisabled, halted>>
  BY <1>1 DEF TypeOK, join, Executing, MayJoin, Goto
<1>3. TypeOK'
  BY <1>1, <1>2, CommonLabels DEF TypeOK, join, Goto, schedVars, clockVars
<1>4. \A u \in Threads : /\ pc'[u] = "free" <=> pc[u] = "free"
                         /\ pc'[u] = "dead" <=> pc[u] = "dead"
                         /\ pc'[u] = "created" <=> pc[u] = "created"
                         /\ pc'[u] = "spawn" <=> pc[u] = "spawn"
                         /\ pc'[u] = "spawn" => target'[u] = target[u]
  BY <1>2
<1>5. PlacesInv'
  <2>1. \A q \in QueueIds : On(q) \subseteq Threads /\ On(q)' = On(q)
    BY <1>1, <1>2, QueuesFacts DEF On, schedVars
  <2>2. Queues(queue)' /\ RunningUnqueued' /\ Queued' = Queued
    BY <1>1, <1>2 DEF PlacesInv, Queues, OnceIn, RunningUnqueued, Queued, QueuedIn,
                      schedVars
  <2>3. QueuesSorted'
    BY <1>1, <1>2, <1>4, <2>1 DEF PlacesInv, QueuesSorted
  <2>4. CurrentPlaced'
    BY <1>2 DEF CurrentPlaced, schedVars
  <2>5. \A i \in DOMAIN chain : chain[i] \in Threads
    BY <1>1, LenProperties DEF TypeOK
  <2>6. ChainDead'
    BY <1>1, <1>2, <1>4, <2>2, <2>5 DEF PlacesInv, ChainDead
  <2> QED
    BY <2>2, <2>3, <2>4, <2>6 DEF PlacesInv
<1>6. SpawnersApart'
  BY <1>1, <1>2, <1>4 DEF RefsInv, SpawnersApart
<1>7. HandlesCounted'
  <2>1. \A c \in Threads : handles[c] \subseteq Threads
    BY <1>1 DEF TypeOK
  <2>2. \A u \in Threads : pc'[u] \notin {"free", "dead"} => refCount'[u] > 0
    BY <1>1, <1>2, <1>4 DEF RefsInv, HandlesCounted
  <2>3. \A c \in Threads : \A u \in handles'[c] :
               /\ pc'[u] # "free" /\ refCount'[u] > 0
               /\ pc'[u] # "dead" => refCount'[u] > 1
               /\ \A d \in Threads : u \in handles'[d] => c = d
    BY <1>1, <1>2, <1>4, <2>1 DEF RefsInv, HandlesCounted
  <2>4. \A c \in Threads : pc'[c] = "join" => target'[c] \in handles'[c]
    BY <1>1, <1>2 DEF RefsInv, HandlesCounted
  <2> QED
    BY <2>2, <2>3, <2>4 DEF HandlesCounted
<1> QED
  BY <1>3, <1>5, <1>6, <1>7, InvSplitNext DEF RefsInv

(* The reaper takes the graveyard as it is. *)
LEMMA ReaperTakesStep ==
  ASSUME Inv, reaperTakes
  PROVE  Inv'
<1>1. TypeOK /\ PlacesInv /\ RefsInv /\ Queues(queue) /\ CurrentPlaced
  BY InvSplit DEF PlacesInv
<1>2. /\ current \in Threads /\ scan = 0 /\ pc[current] = "reap" /\ Goto("taken")
      /\ chain' = queue["graveyardQueue"]
      /\ queue' = threadQueueClear(queue, "graveyardQueue")
      /\ UNCHANGED <<current, inIrq, scan, numTicks, clockVars, alive, refCount,
              owner, target, handles, destructors, preemptionDisabled, halted>>
  BY <1>1 DEF TypeOK, reaperTakes, Executing
<1>3. Steady /\ pc'[current] = "taken"
  BY <1>1, <1>2, SteadyGoto, CommonLabels DEF Common
<1>4. /\ Queues(queue')
      /\ \A p \in QueueIds : On(p)' = IF p = "graveyardQueue" THEN {} ELSE On(p)
  <2> DEFINE rs == threadQueueClear(queue, "graveyardQueue")
  <2>1. /\ Queues(rs)
        /\ \A p \in QueueIds : Range(rs[p]) =
              IF p = "graveyardQueue" THEN {} ELSE Range(queue[p])
    BY <1>1, QueueNames, ClearLemma
  <2>2. queue' = rs
    BY <1>2
  <2> HIDE DEF rs
  <2> QED
    BY <2>1, <2>2 DEF On
<1>5. Queued' \subseteq Queued /\ On("graveyardQueue") \cap Queued' = {}
  <2>1. \A p \in QueueIds : On(p)' \cap On("graveyardQueue") = {}
    BY <1>1, <1>4, QueueNames, QueuesFacts DEF On
  <2> QED
    BY <1>4, <2>1 DEF Queued, QueuedIn, On
<1>6. TypeOK'
  <2>1. chain' \in Seq(Threads) /\ queue' \in [QueueIds -> Seq(Threads)]
    BY <1>1, <1>2, <1>4, QueueNames DEF Queues
  <2>2. pc' \in [Threads -> Labels]
    BY <1>1, <1>2, CommonLabels DEF TypeOK, Goto
  <2> QED
    BY <1>1, <1>2, <2>1, <2>2 DEF TypeOK, clockVars
<1>7. PlacesInv'
  <2>1. RunningUnqueued' /\ CurrentPlaced'
    BY <1>1, <1>2, <1>3, <1>5 DEF PlacesInv, RunningUnqueued, CurrentPlaced
  <2>2. \A p \in QueueIds : On(p) \subseteq Threads
    BY <1>1, QueuesFacts DEF On
  <2>3. QueuesSorted'
    BY <1>1, <1>2, <1>3, <1>4, <2>2 DEF PlacesInv, QueuesSorted, Steady, Unplaced
  <2>4. ChainDead'
    <3> DEFINE g == queue["graveyardQueue"]
    <3>1. /\ \A i \in DOMAIN g : g[i] \in On("graveyardQueue") /\ g[i] \in Threads
          /\ \A i, j \in DOMAIN g : g[i] = g[j] => i = j
      BY <1>1, QueueNames, QueuesFacts DEF On
    <3> HIDE DEF g
    <3>2. chain' = g
      BY <1>2 DEF g
    <3>3. \A i \in DOMAIN g : /\ pc'[g[i]] = "dead" /\ refCount'[g[i]] = 0
                              /\ g[i] \notin Queued'
      BY <1>1, <1>2, <1>3, <1>5, <3>1, QueueNames
         DEF PlacesInv, QueuesSorted, Steady, Unplaced
    <3> QED
      BY <3>1, <3>2, <3>3 DEF ChainDead
  <2> QED
    BY <1>4, <2>1, <2>3, <2>4 DEF PlacesInv
<1>8. RefsInv'
  BY <1>1, <1>2, <1>3, SteadyRefs
<1> QED
  BY <1>6, <1>7, <1>8, InvSplitNext

(* The reaper frees the first thread it took. *)
LEMMA DestroyStep ==
  ASSUME Inv, destroyThread
  PROVE  Inv'
<1> DEFINE t == chain[1]
<1>1. TypeOK /\ PlacesInv /\ RefsInv /\ Queues(queue)
  BY InvSplit DEF PlacesInv
<1>2. /\ current \in Threads /\ scan = 0 /\ pc[current] = "destroy"
      /\ chain \in Seq(Threads) /\ chain # <<>>
      /\ chain' = Tail(chain) /\ pc' = [pc EXCEPT ![t] = "free"]
      /\ UNCHANGED <<schedVars, clockVars, alive, refCount, owner, target, handles,
                     destructors, preemptionDisabled, halted>>
  BY <1>1 DEF TypeOK, destroyThread, Executing
<1>3. /\ 1 \in DOMAIN chain /\ DOMAIN chain = 1..Len(chain) /\ Len(chain) \in Nat
      /\ \A i \in DOMAIN chain : chain[i] \in Threads
  BY <1>2, LenProperties, EmptySeq
<1>4. /\ t \in Threads /\ pc[t] = "dead" /\ refCount[t] = 0 /\ t \notin Queued
      /\ t # current
      /\ \A i \in DOMAIN chain : chain[i] = t => i = 1
  BY <1>1, <1>2, <1>3 DEF PlacesInv, ChainDead
<1>5. /\ chain' \in Seq(Threads)
      /\ \A i \in DOMAIN chain' : i + 1 \in DOMAIN chain /\ chain'[i] = chain[i + 1]
      /\ DOMAIN chain' \subseteq Nat \ {0}
  BY <1>2, <1>3, HeadTailProperties, LenProperties
<1> HIDE DEF t
<1>6. pc'[t] = "free" /\ \A u \in Threads \ {t} : pc'[u] = pc[u]
  BY <1>1, <1>2, <1>4 DEF TypeOK
<1>7. TypeOK'
  BY <1>1, <1>2, <1>5, CommonLabels DEF TypeOK, schedVars, clockVars
<1>8. PlacesInv'
  <2>1. \A q \in QueueIds : On(q) \subseteq Threads /\ On(q)' = On(q)
    BY <1>1, <1>2, QueuesFacts DEF On, schedVars
  <2>2. Queues(queue)' /\ RunningUnqueued' /\ Queued' = Queued
    BY <1>1, <1>2 DEF PlacesInv, Queues, OnceIn, RunningUnqueued, Queued, QueuedIn,
                      schedVars
  <2>3. QueuesSorted'
    <3>1. \A q \in QueueIds : t \notin On(q)
      BY <1>4 DEF Queued, QueuedIn, On
    <3> QED
      BY <1>1, <1>2, <1>6, <2>1, <3>1 DEF PlacesInv, QueuesSorted
  <2>4. CurrentPlaced'
    BY <1>2, <1>4, <1>6 DEF CurrentPlaced, schedVars
  <2>5. ChainDead'
    <3>1. ASSUME NEW i \in DOMAIN chain'
          PROVE  /\ pc'[chain'[i]] = "dead" /\ refCount'[chain'[i]] = 0
                 /\ chain'[i] \notin Queued'
      <4>1. chain'[i] # t
        BY <1>4, <1>5
      <4> QED
        BY <1>1, <1>2, <1>3, <1>5, <1>6, <2>2, <4>1 DEF PlacesInv, ChainDead
    <3>2. ASSUME NEW i \in DOMAIN chain', NEW j \in DOMAIN chain', chain'[i] = chain'[j]
          PROVE  i = j
      <4>1. i + 1 = j + 1
        BY <1>1, <1>5, <3>2 DEF PlacesInv, ChainDead
      <4> QED
        BY <1>5, <4>1
    <3> QED
      BY <3>1, <3>2 DEF ChainDead
  <2> QED
    BY <2>2, <2>3, <2>4, <2>5 DEF PlacesInv
<1>9. SpawnersApart'
  BY <1>1, <1>2, <1>4, <1>6 DEF RefsInv, SpawnersApart
<1>10. HandlesCounted'
  <2>1. \A c \in Threads : handles[c] \subseteq Threads /\ t \notin handles[c]
    BY <1>1, <1>4 DEF TypeOK, RefsInv, HandlesCounted
  <2> QED
    BY <1>1, <1>2, <1>4, <1>6, <2>1 DEF RefsInv, HandlesCounted
<1> QED
  BY <1>7, <1>8, <1>9, <1>10, InvSplitNext DEF RefsInv

-----------------------------------------------------------------------------
(* The invariant.                                                          *)

(* schedulerInit() establishes the invariant. *)
LEMMA InitInv == Init => Inv
<1> SUFFICES ASSUME Init PROVE Inv
  OBVIOUS
<1>1. \A q \in QueueIds : queue[q] \in Seq(Threads)
  BY ThreadAssumption DEF Init
<1>2. /\ queue \in [QueueIds -> Seq(Threads)] /\ "runQueue" \in QueueIds
      /\ queue["runQueue"] = <<idle, reaper>>
      /\ \A q \in QueueIds : q # "runQueue" => queue[q] = <<>>
  BY <1>1, QueueNames DEF Init
<1>3. /\ DOMAIN <<idle, reaper>> = 1..2 /\ DOMAIN <<>> = 1..0
      /\ <<idle, reaper>>[1] = idle /\ <<idle, reaper>>[2] = reaper
  OBVIOUS
<1>4. /\ On("runQueue") = {idle, reaper}
      /\ \A q \in QueueIds : q # "runQueue" => On(q) = {}
  BY <1>2, <1>3 DEF On, Range
<1>5. Queued = {idle, reaper}
  BY <1>2, <1>4 DEF Queued, QueuedIn, On
<1>6. OnceQueued
  BY <1>2, <1>3, ThreadAssumption DEF OnceQueued, OnceIn
<1>7. /\ pc \in [Threads -> Labels]
      /\ pc[main] = "run" /\ pc[idle] = "launch" /\ pc[reaper] = "launch"
      /\ \A t \in Threads \ {main, idle, reaper} : pc[t] = "free"
  BY ThreadAssumption, CommonLabels DEF Init
<1>8. TypeOK
  <2>1. 0 \in 0..TickModulus - 1 /\ 0 \in 0..Quantum + 1 /\ 0 \in 0..MaxDestructors
    BY ThreadAssumption
  <2>2. refCount \in [Threads -> 0..2]
    BY DEF Init
  <2>3. alive \in [Threads -> BOOLEAN] /\ chain \in Seq(Threads) /\ current \in Threads
    BY ThreadAssumption DEF Init
  <2> QED
    BY <1>2, <1>7, <2>1, <2>2, <2>3 DEF Init, TypeOK
<1>9. RunningUnqueued
  BY <1>5, ThreadAssumption DEF RunningUnqueued, Init
<1>10. QueuesSorted
  BY <1>2, <1>4, <1>7 DEF QueuesSorted
<1>11. CurrentPlaced /\ ChainDead
  BY <1>3, <1>7 DEF CurrentPlaced, ChainDead, Init
<1>12. SpawnersApart
  BY <1>7, ThreadAssumption DEF SpawnersApart, Init
<1>13. HandlesCounted
  BY <1>7, ThreadAssumption DEF HandlesCounted, Init
<1> QED
  BY <1>6, <1>8, <1>9, <1>10, <1>11, <1>12, <1>13 DEF Inv, OnePlaceOnly

(* Every step of the kernel preserves it. *)
LEMMA NextInv == ASSUME OwnersOnly, Inv, [Next]_vars PROVE Inv'
<1>1. CASE schedule
  BY <1>1, WakeSteps, QuietSteps, SwitchStep DEF schedule
<1>2. CASE timerHandler
  BY <1>2, QuietSteps, BlockSteps DEF timerHandler
<1>3. CASE spawnThread
  BY <1>3, CreateStep, QuietSteps, MakeRunnableStep DEF spawnThread
<1>4. CASE exits
  BY <1>4, GotoSteps, WakeSteps, DetachSelfStep DEF exits
<1>5. CASE joins
  BY <1>5, JoinStep, BlockSteps, JoinReturnsStep DEF joins
<1>6. CASE reap
  BY <1>6, BlockSteps, GotoSteps, ReaperTakesStep, DestroyStep DEF reap
<1>7. CASE blocks
  BY <1>7, BlockSteps, GotoSteps, WakeSteps DEF blocks
<1>8. CASE mutexes
  BY <1>8, GotoSteps, BlockSteps DEF mutexes
<1>9. CASE launchKernelThread \/ iret \/ khalt \/ UNCHANGED vars
  BY <1>9, GotoSteps, QuietSteps DEF khalt
<1> QED
  BY <1>1, <1>2, <1>3, <1>4, <1>5, <1>6, <1>7, <1>8, <1>9 DEF Next

(***************************************************************************)
(* Whatever the scheduler, the timer and the threads do, no thread is ever *)
(* on two queues or queued while it runs, only dead threads are in the     *)
(* graveyard, and every handle has a reference behind it, provided that    *)
(* only the creator of a thread joins it (what join() means to assert).    *)
(***************************************************************************)
THEOREM Invariance == ASSUME OwnersOnly PROVE Spec => []Inv
<1>1. Init => Inv
  BY InitInv
<1>2. Inv /\ [Next]_vars => Inv'
  BY NextInv
<1> QED
  BY <1>1, <1>2, PTL DEF Spec

(* Every variable of kernel/thread.c keeps a value of its type.            *)
THEOREM TypeCorrect == ASSUME OwnersOnly PROVE Spec => []TypeOK
<1>1. Inv => TypeOK
  BY DEF Inv
<1> QED
  BY <1>1, Invariance, PTL

(* The one link field queueNext suffices: no thread is in two places.      *)
THEOREM QueuesApart == ASSUME OwnersOnly PROVE Spec => []OnePlaceOnly
<1>1. Inv => OnePlaceOnly
  BY DEF Inv
<1> QED
  BY <1>1, Invariance, PTL

(* A page is freed only when nothing in the kernel points to it any more.  *)
THEOREM FreePagesUnused == ASSUME OwnersOnly PROVE Spec => []NoUseAfterFree
<1>1. Inv => NoUseAfterFree
  <2> SUFFICES ASSUME Inv, NEW t \in Threads, pc[t] = "free"
               PROVE  /\ t \notin Queued \cup {current} \cup Range(chain)
                      /\ \A c \in Threads :
                           t \notin handles[c] /\ (pc[c] # "free" => target[c] # t)
    BY DEF NoUseAfterFree
  <2>1. t \notin Queued
    BY DEF Inv, QueuesSorted, Queued, QueuedIn, On
  <2>2. t # current /\ t \notin Range(chain)
    BY DEF Inv, CurrentPlaced, ChainDead, Range
  <2>3. \A c \in Threads : t \notin handles[c]
    BY DEF Inv, HandlesCounted
  <2>4. \A c \in Threads : target[c] # t
    BY <2>3, ThreadAssumption DEF Inv, SpawnersApart, HandlesCounted
  <2> QED
    BY <2>1, <2>2, <2>3, <2>4
<1> QED
  BY <1>1, Invariance, PTL
=============================================================================
