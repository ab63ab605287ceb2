----------------------------- MODULE MCThreads -----------------------------
(***************************************************************************)
(* Small instances of the thread system for TLC.                           *)
(***************************************************************************)
EXTENDS ThreadsProps

\* The initial thread and the idle thread, the pages of created threads, and
\* the semaphore that the threads (and, in some runs, a device) use.
CONSTANTS main, idle, a, b, io

MCThreads    == {main, a, b}
MCSemas      == {tid_lock, io}
MCDevice     == {io}
MCNoDevice   == {}
MCInitial    == [s \in MCSemas |-> IF s = tid_lock THEN 1 ELSE 0]
MCPriorities == {0, 2}
MCSleeps     == {-1, 1, 2}
MCSleepOne   == {1}

\* The created threads are interchangeable.
MCSymmetry == Permutations({a, b})
=============================================================================
