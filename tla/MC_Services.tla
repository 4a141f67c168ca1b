---------------------------- MODULE MC_Services ----------------------------
(* A small instance of Services for TLC: a screen of two rows and three    *)
(* columns whose cells need both cursor registers, three descriptors of    *)
(* which two are readable, two threads of one id, and workloads that meet  *)
(* in one service each.                                                    *)
EXTENDS Services, TLC

CONSTANTS t1, t2, t3, p1, p2, p3, p4, p5, p6

Three(a, b, c) == (t1 :> a) @@ (t2 :> b) @@ (t3 :> c)

Create(user) == [fn |-> "createThread", via |-> Direct, usermode |-> user]
Destroy      == [fn |-> "destroyThread", via |-> Direct]
Get(via)     == [fn |-> "shmGet", via |-> via]
Shm(fn, via, d) == [fn |-> fn, via |-> via, desc |-> d]
Key          == [fn |-> "tlocalCreate", via |-> Direct]
Yield        == [fn |-> "yield", via |-> Direct]
PrintCall(ch) == [fn |-> "kPutChar", via |-> Syscall, ch |-> ch]

AllWorkloads ==
  { Three(printDate,
          <<PutChar("letter"), PutChar("newline")>>,
          <<>>),
    Three(<<PutChar("letter"), PutChar("backspace")>>,
          <<PutChar("newline"), PutChar("newline")>>,
          <<PrintCall("letter")>>),
    Three(<<PutChar("backspace"), PutChar("backspace")>>, printDate, <<>>),
    Three(testShmSend, <<Get(Direct), Shm("shmWrite", Direct, 1)>>, testShmRead),
    Three(<<Get(Direct), Shm("shmWrite", Direct, 0), Shm("shmRelease", Direct, 0)>>,
          <<Get(Direct), Shm("shmWrite", Direct, 0), Shm("shmRelease", Direct, 0)>>,
          <<Shm("shmRead", Syscall, 0), Shm("shmRead", Direct, 1), Shm("shmRead", Direct, 2)>>),
    Three(<<Get(Direct), Get(Direct)>>, <<Get(Direct), Shm("shmWrite", Direct, 1)>>,
          <<Get(Direct), Shm("shmRead", Direct, 1)>>),
    Three(<<Get(Direct)>>, <<Get(Direct), Shm("shmWrite", Direct, 0)>>,
          <<Shm("shmRelease", Direct, 0), Shm("shmRead", Direct, 0)>>),
    Three(<<Get(Direct), Shm("shmWrite", Syscall, 0)>>, <<Get(Syscall)>>, testShmRead),
    Three(<<Key, Key, Yield>>, <<Key, Key, Yield>>, <<PrintCall("letter"), PutChar("letter"), Yield>>),
    Three(<<Create(FALSE), Create(FALSE)>>, <<Create(TRUE)>>, <<Destroy, Destroy>>),
    Three(<<Create(FALSE)>>, <<Create(FALSE)>>, <<Create(TRUE), Destroy, Destroy>>) }

ThreadIds == (t1 :> 1) @@ (t2 :> 2) @@ (t3 :> 2)
OldThreads == <<p1, p2>>
SwapPages == Permutations({p3, p4, p5, p6})
=============================================================================
