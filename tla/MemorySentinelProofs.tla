------------------------ MODULE MemorySentinelProofs ------------------------
(***************************************************************************)
(* Proofs about the sentinels: types, no thread without its instance, and  *)
(* shutdowns that the worker can see, for any number of sentinels and      *)
(* values, whether the words count up or not.                              *)
(***************************************************************************)
EXTENDS MemorySentinel, TLAPS

-----------------------------------------------------------------------------
(* The inductive invariant                                                 *)

\* A thread that leaves its loop was told to.
BailShutdown == \A id \in Sentinels : tpc[id] = "bail" => shutdown[id]

\* A thread that has ended has made its last signal, and nobody takes it: the
\* worker looks at the flag before it reads the event.
EndedReadable == \A id \in watchers : tpc[id] = "ended" => shutdown[id] /\ evt[id]

\* destroy_watcher has one instance in hand.
OneAtATime == ~dropped => \A a, b \in todo : a = b

\* A flag that is set belongs to a thread that has ended or is being joined.
ShutdownKnown ==
    ~dropped => \A id \in watchers : shutdown[id] => tpc[id] = "ended" \/ id \in todo

IInv ==
    TypeOK /\ NoOrphanThread /\ BailShutdown /\ EndedReadable /\ OneAtATime /\ ShutdownKnown

-----------------------------------------------------------------------------
\* The invariant holds in the beginning, when there is no thread.
LEMMA InitIInv == Init => IInv
  BY DEF Init, IInv, TypeOK, NoOrphanThread, BailShutdown, EndedReadable, OneAtATime, ShutdownKnown,
         Places

\* The instance that destroy_watcher works on is the one it was called with.
LEMMA CurrentIsTheOne ==
  ASSUME IInv, ~dropped, vmm # "idle" PROVE Current \in todo /\ todo = {Current}
<1>1. PICK id \in todo : TRUE
  BY DEF IInv, TypeOK
<1>2. todo = {id} /\ id \in Nat
  BY <1>1, SentinelAssumption DEF IInv, TypeOK, OneAtATime
<1>3. \E x \in todo : \A other \in todo : x <= other
  BY <1>2
<1> QED
  BY <1>2, <1>3 DEF Current

\* A watcher thread's step.
LEMMA WatcherIInv ==
  ASSUME IInv, NEW id \in Sentinels, WatcherStep(id) \/ Interrupted(id) PROVE IInv'
<1> USE DEF manager, Goto, Signal
<1>1. TypeOK'
  BY DEF IInv, TypeOK, Places, WatcherStep, Start, Wait, Load, Check, Notify, Interrupted
<1>2. NoOrphanThread' /\ BailShutdown'
  BY DEF IInv, TypeOK, NoOrphanThread, BailShutdown, WatcherStep, Start, Wait, Load, Check, Notify,
         Interrupted
<1>3. EndedReadable'
  BY DEF IInv, TypeOK, EndedReadable, BailShutdown, WatcherStep, Start, Wait, Load, Check, Notify,
         Interrupted
<1>4. OneAtATime' /\ ShutdownKnown'
  BY DEF IInv, TypeOK, OneAtATime, ShutdownKnown, WatcherStep, Start, Wait, Load, Check, Notify,
         Interrupted
<1> QED
  BY <1>1, <1>2, <1>3, <1>4 DEF IInv

\* A new thread: the id had none, as its last instance is gone.
LEMMA CreateIInv ==
  ASSUME IInv, NEW id \in Sentinels, create_watcher(id) PROVE IInv'
  BY DEF IInv, TypeOK, NoOrphanThread, BailShutdown, EndedReadable, OneAtATime, ShutdownKnown,
         Places, create_watcher, Goto

\* A wake, by the guest's command.
LEMMA SignalIInv ==
  ASSUME IInv, NEW id \in Sentinels, signal_watcher(id) PROVE IInv'
  BY DEF IInv, TypeOK, NoOrphanThread, BailShutdown, EndedReadable, OneAtATime, ShutdownKnown,
         Places, signal_watcher, Wake, manager

\* The beginning of a shutdown, of one instance or of all.
LEMMA BeginIInv ==
  ASSUME IInv, drop_manager \/ \E id \in Sentinels : destroy_watcher(id) PROVE IInv'
  BY DEF IInv, TypeOK, NoOrphanThread, BailShutdown, EndedReadable, OneAtATime, ShutdownKnown,
         destroy_watcher, drop_manager, LockFree, thread

\* The flag of the instance in hand.
LEMMA StoreFlagIInv == ASSUME IInv, shutdown_store PROVE IInv'
<1>1. TypeOK' /\ NoOrphanThread' /\ BailShutdown' /\ EndedReadable' /\ OneAtATime'
  BY DEF IInv, TypeOK, NoOrphanThread, BailShutdown, EndedReadable, OneAtATime, shutdown_store, thread
<1>2. ShutdownKnown'
  <2>1. ~dropped => Current \in todo
    BY CurrentIsTheOne DEF shutdown_store
  <2> QED
    BY <2>1 DEF IInv, TypeOK, ShutdownKnown, shutdown_store, thread
<1> QED
  BY <1>1, <1>2 DEF IInv

\* The wake that follows it.
LEMMA WakeIInv == ASSUME IInv, shutdown_wake_all PROVE IInv'
  BY DEF IInv, TypeOK, NoOrphanThread, BailShutdown, EndedReadable, OneAtATime, ShutdownKnown,
         Places, shutdown_wake_all, Wake

\* The thread has ended and is joined.
LEMMA JoinIInv == ASSUME IInv, shutdown_join PROVE IInv'
<1>1. TypeOK' /\ BailShutdown' /\ OneAtATime'
  BY DEF IInv, TypeOK, BailShutdown, OneAtATime, shutdown_join, thread
<1>2. NoOrphanThread' /\ EndedReadable'
  BY DEF IInv, TypeOK, NoOrphanThread, EndedReadable, shutdown_join, thread
<1>3. ShutdownKnown'
  BY DEF IInv, TypeOK, ShutdownKnown, shutdown_join, thread
<1> QED
  BY <1>1, <1>2, <1>3 DEF IInv

\* The worker takes an event, or removes an instance that was shut down.
LEMMA WorkerIInv ==
  ASSUME IInv, NEW id \in Sentinels, handle_event(id) \/ remove_watcher(id) PROVE IInv'
<1>1. CASE handle_event(id)
  BY <1>1 DEF IInv, TypeOK, NoOrphanThread, BailShutdown, EndedReadable, OneAtATime, ShutdownKnown,
         handle_event, manager, thread
<1>2. CASE remove_watcher(id)
  BY <1>2 DEF IInv, TypeOK, NoOrphanThread, BailShutdown, EndedReadable, OneAtATime, ShutdownKnown,
         remove_watcher, LockFree, thread
<1> QED
  BY <1>1, <1>2

\* A store to the word.
LEMMA StoreIInv ==
  ASSUME IInv, NEW id \in Sentinels, NEW v \in Values, Store(id, v) PROVE IInv'
  BY DEF IInv, TypeOK, NoOrphanThread, BailShutdown, EndedReadable, OneAtATime, ShutdownKnown,
         Store, manager, thread

\* Every step of the threads, the VMM and the processes preserves the invariant.
LEMMA NextIInv == IInv /\ [Next]_vars => IInv'
<1> SUFFICES ASSUME IInv, [Next]_vars PROVE IInv'
  OBVIOUS
<1>1. CASE UNCHANGED vars
  BY <1>1 DEF vars, IInv, TypeOK, NoOrphanThread, BailShutdown, EndedReadable, OneAtATime,
         ShutdownKnown
<1>2. CASE ShutdownStep
  BY <1>2, StoreFlagIInv, WakeIInv, JoinIInv DEF ShutdownStep
<1> QED
  BY <1>1, <1>2, WatcherIInv, CreateIInv, SignalIInv, BeginIInv, WorkerIInv, StoreIInv DEF Next

\* The inductive invariant holds in every reachable state.
LEMMA Invariance == Spec => []IInv
  BY InitIInv, NextIInv, PTL DEF Spec

-----------------------------------------------------------------------------
(* The theorems                                                            *)

\* Types, and an instance in hand for as long as shutdown() works.
THEOREM TypeCorrect == Spec => []TypeOK
<1>1. IInv => TypeOK
  BY DEF IInv
<1> QED
  BY <1>1, Invariance, PTL

\* An id whose instance is gone has no thread: destroy_watcher and the drop of
\* the manager join before they, or the worker, let the instance go.
THEOREM NoThreadWithoutInstance == Spec => []NoOrphanThread
<1>1. IInv => NoOrphanThread
  BY DEF IInv
<1> QED
  BY <1>1, Invariance, PTL

\* When destroy_watcher has returned, the worker's epoll finds the event.
THEOREM ShutdownsVisible == Spec => []ShutdownReadable
<1>1. IInv => ShutdownReadable
  BY DEF IInv, TypeOK, EndedReadable, ShutdownKnown, ShutdownReadable, LockFree
<1> QED
  BY <1>1, Invariance, PTL
=============================================================================
