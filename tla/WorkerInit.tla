----------------------------- MODULE WorkerInit -----------------------------
(***************************************************************************)
(* Start-up of the worker threads (CWorkerThread::InitThread): the main    *)
(* thread creates thread_num_ workers and then waits on init_cond_; every  *)
(* worker counts itself in RegisterThreadInitialized, and the last one     *)
(* signals.  WaitForThreadRegistration calls pthread_cond_wait once, and   *)
(* does not look at init_count_.                                           *)
(***************************************************************************)
EXTENDS Naturals, FiniteSets

CONSTANT thread_num_
ASSUME ThreadNumAssumption == thread_num_ \in Nat \ {0}

Workers == 1 .. thread_num_

VARIABLES
    mainpc,       \* "create", "wait" (about to lock), "waiting", "returned"
    created,      \* workers created so far
    registered,   \* workers past RegisterThreadInitialized
    init_count_

vars == <<mainpc, created, registered, init_count_>>

TypeOK ==
    /\ mainpc \in {"create", "wait", "waiting", "returned"}
    /\ created \in 0 .. thread_num_
    /\ registered \subseteq Workers
    /\ init_count_ \in 0 .. thread_num_

Init ==
    /\ mainpc = "create"
    /\ created = 0
    /\ registered = {}
    /\ init_count_ = 0

\* CreateWorker: pthread_create (a failure ends the process).
CreateWorker ==
    /\ mainpc = "create"
    /\ created' = created + 1
    /\ mainpc' = IF created' = thread_num_ THEN "wait" ELSE "create"
    /\ UNCHANGED <<registered, init_count_>>

\* WaitForThreadRegistration: pthread_cond_wait, without a test before it.
WaitForThreadRegistration ==
    /\ mainpc = "wait"
    /\ mainpc' = "waiting"
    /\ UNCHANGED <<created, registered, init_count_>>

\* pthread_cond_wait may return without a signal, and it is called once: the
\* main thread goes on, however many workers have registered.
SpuriousWakeup ==
    /\ mainpc = "waiting"
    /\ mainpc' = "returned"
    /\ UNCHANGED <<created, registered, init_count_>>

\* Compares the count before its own registration.
Mut_RegisterLate(w) ==
    /\ w <= created
    /\ w \notin registered
    /\ registered' = registered \cup {w}
    /\ init_count_' = init_count_ + 1
    /\ mainpc' = IF init_count_ = thread_num_ /\ mainpc = "waiting"
                 THEN "returned" ELSE mainpc
    /\ UNCHANGED created

\* RegisterThreadInitialized: the last worker signals; a signal reaches the
\* main thread only while it waits.
RegisterThreadInitialized(w) ==
    /\ w <= created
    /\ w \notin registered
    /\ registered' = registered \cup {w}
    /\ init_count_' = init_count_ + 1
    /\ mainpc' = IF init_count_' = thread_num_ /\ mainpc = "waiting"
                 THEN "returned" ELSE mainpc
    /\ UNCHANGED created

Next ==
    \/ CreateWorker
    \/ WaitForThreadRegistration
    \/ SpuriousWakeup
    \/ \E w \in Workers : RegisterThreadInitialized(w)

\* Every thread is scheduled; nothing makes a wake-up without a signal happen.
Spec == Init /\ [][Next]_vars
FairSpec ==
    /\ Spec
    /\ WF_vars(CreateWorker) /\ WF_vars(WaitForThreadRegistration)
    /\ \A w \in Workers : WF_vars(RegisterThreadInitialized(w))

-----------------------------------------------------------------------------
\* "Wait for all the threads to set themselves up before returning"
\* (worker_threads.cc:88): once the workers are set up, InitThread does return.
\* The code does not do this: the last worker may signal before the main thread
\* waits, and nobody signals again.
ReturnsInTheEnd == <>(mainpc = "returned")

\* InitThread returns whenever it waits before the last worker registers: the
\* lost signal of a faster last worker is the only way in which it waits for ever.
InitThreadReturns == (mainpc = "waiting" /\ registered # Workers) ~> (mainpc = "returned")
=============================================================================
