------------------------------ MODULE LimaCond ------------------------------
(***************************************************************************)
(* The lima::Cond of a Camera (m_cond) with its mutex, and the AutoMutex   *)
(* each thread wraps around it.  These are library classes, modelled from  *)
(* how Xspress3Camera.cpp uses them:                                       *)
(*   - Cond is a pthread mutex of the default kind and a condition         *)
(*     variable.  A default mutex does not check who releases it: unlock() *)
(*     and wait() by a thread that does not own it release it all the      *)
(*     same, whoever owns it.                                              *)
(*   - wait() returns owning the mutex.                                    *)
(*   - AutoMutex remembers whether it was last locked or unlocked through  *)
(*     itself; its destructor unlocks only in the first case.  wait() does *)
(*     not go through the AutoMutex, so it leaves that memory alone.       *)
(***************************************************************************)
EXTENDS FiniteSets

CONSTANT Threads        \* the threads that use the mutex

VARIABLES
    owner,              \* the thread that owns the mutex, or NoThread
    waiting,            \* the threads inside wait() that nobody woke yet
    auto                \* the threads whose AutoMutex remembers "locked"

condVars == <<owner, waiting, auto>>

NoThread == "none"

ASSUME ThreadsAssumption == NoThread \notin Threads

CondTypeOK ==
    /\ owner \in Threads \cup {NoThread}
    /\ waiting \subseteq Threads
    /\ auto \subseteq Threads

CondInit ==
    /\ owner = NoThread
    /\ waiting = {}
    /\ auto = {}

Free == owner = NoThread

(* AutoMutex(mutex) and AutoMutex::lock(): blocks until the mutex is free. *)
Lock(t) ==
    /\ Free
    /\ owner' = t
    /\ auto' = auto \cup {t}
    /\ UNCHANGED waiting

(* AutoMutex::unlock(), whoever owns the mutex. *)
Unlock(t) ==
    /\ owner' = NoThread
    /\ auto' = auto \ {t}
    /\ UNCHANGED waiting

(* Cond::wait() up to the point where the thread sleeps. *)
Wait(t) ==
    /\ owner' = NoThread
    /\ waiting' = waiting \cup {t}
    /\ UNCHANGED auto

(* Cond::wait() coming back: the thread was woken and gets the mutex. *)
Resume(t) ==
    /\ t \notin waiting
    /\ Free
    /\ owner' = t
    /\ UNCHANGED <<waiting, auto>>

(* AutoMutex::lock() followed at once by Cond::wait(). *)
LockThenWait(t) ==
    /\ Free
    /\ waiting' = waiting \cup {t}
    /\ auto' = auto \cup {t}
    /\ UNCHANGED owner

(* Cond::broadcast() by t followed by AutoMutex::unlock(). *)
BroadcastThenUnlock(t) ==
    /\ owner' = NoThread
    /\ waiting' = {}
    /\ auto' = auto \ {t}

(* A whole critical section { AutoMutex; ... } of t that wakes nobody, and *)
(* one that ends with broadcast().                                         *)
Locked == Free /\ UNCHANGED condVars

LockedBroadcast ==
    /\ Free
    /\ waiting' = {}
    /\ UNCHANGED <<owner, auto>>

(* ~AutoMutex() when the function of t returns or throws. *)
Leave(t) ==
    /\ owner' = IF t \in auto THEN NoThread ELSE owner
    /\ auto' = auto \ {t}
    /\ UNCHANGED waiting

(* POSIX allows wait() to return although nobody called broadcast(). *)
WakeSpuriously(t) ==
    /\ t \in waiting
    /\ waiting' = waiting \ {t}
    /\ UNCHANGED <<owner, auto>>
=============================================================================
