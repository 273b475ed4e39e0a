-------------------------------- MODULE Port --------------------------------
(***************************************************************************)
(* Mutexes and condition variables as port/port_posix.cpp wraps them and   *)
(* as envdepend_posix.cpp uses them straight from pthread.  A mutex is the *)
(* thread that owns it, or NoThread; a condition variable is the set of    *)
(* threads blocked in Wait.  Wait releases the mutex and joins the set in  *)
(* one step; a thread taken out of the set still has to lock the mutex     *)
(* again before Wait returns.                                              *)
(***************************************************************************)
EXTENDS FiniteSets

CONSTANT NoThread   \* owner of an unlocked mutex

\* What the constructors make: a mutex nobody owns, a condition variable nobody waits on.
FreshMutex == NoThread
NoWaiters == {}

CanLock(mutex) == mutex = NoThread

\* The wait sets pthread_cond_signal can leave: one waiter fewer, if any waits.
AfterSignal(waiting) ==
  IF waiting = {} THEN {{}} ELSE {waiting \ {t} : t \in waiting}

\* pthread_cond_broadcast leaves nobody waiting.
AfterSignalAll(waiting) == {}

\* Wait: the thread joins the waiters (the caller releases the mutex with it).
AfterWait(waiting, t) == waiting \cup {t}

=============================================================================
