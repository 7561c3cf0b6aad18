--------------------------- MODULE MemorySentinel ---------------------------
(***************************************************************************)
(* Atomic memory sentinels of the cross-domain context                     *)
(* (src/src/cross_domain/atomic_memory_sentinel_manager.rs).               *)
(*                                                                         *)
(* A watcher thread per sentinel waits on a futex word that guest and host *)
(* processes share, and signals an eventfd that the cross-domain worker    *)
(* polls.  The VMM thread creates, signals and destroys watchers; it and   *)
(* the worker share the manager's map under one lock, which the VMM thread *)
(* keeps while it joins a watcher thread.                                  *)
(***************************************************************************)
EXTENDS Naturals, FiniteSets

CONSTANTS
    Sentinels,   \* sentinel ids (naturals: the map is ordered)
    Values,      \* values of a futex word (naturals)
    CountsUp     \* whether the processes that share a word only count it up

ASSUME SentinelAssumption ==
    Sentinels \cup Values \subseteq Nat /\ CountsUp \in BOOLEAN

VARIABLES
    mem,         \* the futex word of a sentinel
    dirty,       \* it was stored to since the last wake
    watchers,    \* the manager's map: ids with an instance
    shutdown,    \* SentinelInstance.shutdown
    evt,         \* the eventfd is non-zero
    tpc, tval,   \* the watcher thread: where it is, and its local val
    vmm,         \* the VMM thread: idle, or a step of shutdown()
    todo,        \* the instances it still has to shut down
    dropped,     \* the manager is being dropped
    told         \* the value the guest found at the last notification, if any

vars == <<mem, dirty, watchers, shutdown, evt, tpc, tval, vmm, todo, dropped, told>>
thread == <<tpc, tval>>
manager == <<watchers, shutdown, vmm, todo, dropped>>

\* sentinel_manager.lock(): the worker takes it within one step.
LockFree == vmm = "idle" /\ ~dropped

Init ==
    /\ mem \in [Sentinels -> Values]
    /\ dirty = [id \in Sentinels |-> FALSE]
    /\ watchers = {}
    /\ shutdown = [id \in Sentinels |-> FALSE]
    /\ evt = [id \in Sentinels |-> FALSE]
    /\ tpc = [id \in Sentinels |-> "none"]
    /\ tval = mem
    /\ vmm = "idle" /\ todo = {} /\ dropped = FALSE
    /\ told = [id \in Sentinels |-> {}]

-----------------------------------------------------------------------------
(* The watcher thread: AtomicMemorySentinelThread::run                     *)

Goto(id, pc) == tpc' = [tpc EXCEPT ![id] = pc]
Signal(id) == evt' = [evt EXCEPT ![id] = TRUE]

\* The first signal, whatever the word.
Start(id) ==
    /\ tpc[id] = "start"
    /\ Signal(id) /\ Goto(id, "wait")
    /\ UNCHANGED <<mem, dirty, manager, tval, told>>

\* Plausible bug: the wait is for a change of the word as it is now.
WaitForNext(id) ==
    /\ tpc[id] = "wait"
    /\ Goto(id, "asleep")
    /\ UNCHANGED <<mem, dirty, manager, evt, tval, told>>

\* FUTEX_WAIT_BITSET: the kernel compares the word and sleeps in one step.
Wait(id) ==
    /\ tpc[id] = "wait"
    /\ Goto(id, IF mem[id] = tval[id] THEN "asleep" ELSE "load")
    /\ UNCHANGED <<mem, dirty, manager, evt, tval, told>>

\* A signal handler ends the wait; the result is ignored.
Interrupted(id) ==
    /\ tpc[id] = "asleep"
    /\ Goto(id, "load")
    /\ UNCHANGED <<mem, dirty, manager, evt, tval, told>>

\* What wait() was woken for, or something newer.
Load(id) ==
    /\ tpc[id] = "load"
    /\ tval' = [tval EXCEPT ![id] = mem[id]]
    /\ Goto(id, "check")
    /\ UNCHANGED <<mem, dirty, manager, evt, told>>

\* Plausible bug: the thread ends without its last signal.
CheckAndLeave(id) ==
    /\ tpc[id] = "check"
    /\ Goto(id, IF shutdown[id] THEN "ended" ELSE "notify")
    /\ UNCHANGED <<mem, dirty, manager, evt, tval, told>>

\* Is it the shutdown that woke the thread?
Check(id) ==
    /\ tpc[id] = "check"
    /\ Goto(id, IF shutdown[id] THEN "bail" ELSE "notify")
    /\ UNCHANGED <<mem, dirty, manager, evt, tval, told>>

\* sender.signal(), in the loop or on the way out.
Notify(id) ==
    /\ tpc[id] \in {"notify", "bail"}
    /\ Signal(id)
    /\ Goto(id, IF tpc[id] = "bail" THEN "ended" ELSE "wait")
    /\ UNCHANGED <<mem, dirty, manager, tval, told>>

-----------------------------------------------------------------------------
(* The VMM thread: AtomicMemorySentinelManager                             *)

\* A failure before the thread is spawned changes nothing.
create_watcher(id) ==
    /\ LockFree /\ id \notin watchers
    /\ watchers' = watchers \cup {id}
    /\ shutdown' = [shutdown EXCEPT ![id] = FALSE]
    /\ evt' = [evt EXCEPT ![id] = FALSE]
    /\ tval' = [tval EXCEPT ![id] = mem[id]]
    /\ Goto(id, "start")
    /\ told' = [told EXCEPT ![id] = {}]
    /\ UNCHANGED <<mem, dirty, vmm, todo, dropped>>

\* A wake moves a sleeping thread on and is nothing to any other.
Wake(id) == tpc' = [tpc EXCEPT ![id] = IF @ = "asleep" THEN "load" ELSE @]

\* CMD_SIGNAL_ATOMIC_MEMORY_SENTINEL.
signal_watcher(id) ==
    /\ LockFree /\ id \in watchers
    /\ Wake(id)
    /\ dirty' = [dirty EXCEPT ![id] = FALSE]
    /\ UNCHANGED <<mem, manager, evt, tval, told>>

\* destroy_watcher: shutdown() of one instance, the lock held to the end.
destroy_watcher(id) ==
    /\ LockFree /\ id \in watchers
    /\ vmm' = "store" /\ todo' = {id}
    /\ UNCHANGED <<mem, dirty, watchers, shutdown, evt, thread, dropped, told>>

\* Plausible bug: there is always an instance to shut down.
DropFirst ==
    /\ LockFree
    /\ dropped' = TRUE /\ todo' = watchers
    /\ vmm' = "store"
    /\ UNCHANGED <<mem, dirty, watchers, shutdown, evt, thread, told>>

\* Drop of the manager: shutdown() of every instance of the map it takes.
drop_manager ==
    /\ LockFree
    /\ dropped' = TRUE /\ todo' = watchers
    /\ vmm' = IF watchers = {} THEN "idle" ELSE "store"
    /\ UNCHANGED <<mem, dirty, watchers, shutdown, evt, thread, told>>

\* The instance shutdown() works on: a map is taken in the order of its ids.
Current == CHOOSE id \in todo : \A other \in todo : id <= other

shutdown_store ==
    /\ vmm = "store"
    /\ shutdown' = [shutdown EXCEPT ![Current] = TRUE]
    /\ vmm' = "wake"
    /\ UNCHANGED <<mem, dirty, watchers, evt, thread, todo, dropped, told>>

shutdown_wake_all ==
    /\ vmm = "wake"
    /\ Wake(Current)
    /\ vmm' = "join"
    /\ UNCHANGED <<mem, dirty, watchers, shutdown, evt, tval, todo, dropped, told>>

\* Plausible bug: the thread's handle is dropped instead of joined.
ShutdownDetach ==
    /\ vmm = "join"
    /\ todo' = todo \ {Current}
    /\ vmm' = IF todo' = {} THEN "idle" ELSE "store"
    /\ watchers' = IF dropped THEN watchers \ {Current} ELSE watchers
    /\ UNCHANGED <<mem, dirty, shutdown, evt, thread, dropped, told>>

shutdown_join ==
    /\ vmm = "join" /\ tpc[Current] = "ended"
    /\ todo' = todo \ {Current}
    /\ vmm' = IF todo' = {} THEN "idle" ELSE "store"
    /\ watchers' = IF dropped THEN watchers \ {Current} ELSE watchers
    /\ UNCHANGED <<mem, dirty, shutdown, evt, thread, dropped, told>>

-----------------------------------------------------------------------------
(* The cross-domain worker, once epoll reports the event                   *)

\* handle_event of a live instance: the guest is notified and reads the word.
handle_event(id) ==
    /\ LockFree /\ id \in watchers /\ evt[id] /\ ~shutdown[id]
    /\ evt' = [evt EXCEPT ![id] = FALSE]
    /\ told' = [told EXCEPT ![id] = {mem[id]}]
    /\ UNCHANGED <<mem, dirty, manager, thread>>

\* is_shutdown, then remove_watcher.
remove_watcher(id) ==
    /\ LockFree /\ id \in watchers /\ evt[id] /\ shutdown[id]
    /\ watchers' = watchers \ {id}
    /\ UNCHANGED <<mem, dirty, shutdown, evt, thread, vmm, todo, dropped, told>>

\* Guest or host processes store to the word.  The futex is PRIVATE to the VMM
\* process, so what wakes the watcher is signal_watcher alone.
Store(id, v) ==
    /\ v # mem[id] /\ (CountsUp => v > mem[id])
    /\ mem' = [mem EXCEPT ![id] = v]
    /\ dirty' = [dirty EXCEPT ![id] = TRUE]
    /\ UNCHANGED <<manager, evt, thread, told>>

-----------------------------------------------------------------------------
WatcherStep(id) == Start(id) \/ Wait(id) \/ Load(id) \/ Check(id) \/ Notify(id)
ShutdownStep == shutdown_store \/ shutdown_wake_all \/ shutdown_join

Next ==
    \/ \E id \in Sentinels :
          \/ WatcherStep(id) \/ Interrupted(id)
          \/ create_watcher(id) \/ signal_watcher(id) \/ destroy_watcher(id)
          \/ handle_event(id) \/ remove_watcher(id)
          \/ \E v \in Values : Store(id, v)
    \/ drop_manager
    \/ ShutdownStep

Spec == Init /\ [][Next]_vars

\* The kernel runs a thread that is not asleep in the futex, and the VMM thread
\* that is not blocked in join.  Nobody owes an interrupt, a command or a store.
FairSpec ==
    Spec /\ WF_vars(ShutdownStep) /\ \A id \in Sentinels : WF_vars(WatcherStep(id))

-----------------------------------------------------------------------------
(* Properties                                                              *)

Places == {"start", "wait", "asleep", "load", "check", "notify", "bail"}

\* Every variable keeps its type; shutdown() has an instance to work on until
\* its last join.
TypeOK ==
    /\ mem \in [Sentinels -> Values] /\ dirty \in [Sentinels -> BOOLEAN]
    /\ watchers \subseteq Sentinels
    /\ shutdown \in [Sentinels -> BOOLEAN] /\ evt \in [Sentinels -> BOOLEAN]
    /\ tpc \in [Sentinels -> Places \cup {"none", "ended"}]
    /\ tval \in [Sentinels -> Values]
    /\ vmm \in {"idle", "store", "wake", "join"}
    /\ todo \subseteq watchers /\ (vmm = "idle" <=> todo = {})
    /\ dropped \in BOOLEAN /\ told \in [Sentinels -> SUBSET Values]

\* No watcher thread outlives its instance: an id that can be created again has
\* no thread left that would signal the old event or read the old mapping.
NoOrphanThread == \A id \in Sentinels \ watchers : tpc[id] \in {"none", "ended"}

\* What CrossDomain relies on: when destroy_watcher has returned, the event is
\* readable until the worker has removed the watcher, so the worker comes to
\* know of the shutdown however late it polls.
ShutdownReadable ==
    \A id \in watchers : shutdown[id] /\ LockFree => evt[id]

\* "ensure that the other side observes at least the latest wake event along
\* with the value that the futex had when that wake event was signaled" (run):
\* once the last store has been followed by a wake, the guest has found the
\* word's value or a notification waits for it, although the watcher may have
\* been anywhere in its loop when it was woken.
WakeReported ==
    \A id \in Sentinels :
        (id \in watchers /\ ~dirty[id] /\ mem[id] \notin told[id])
            ~> (evt[id] \/ mem[id] \in told[id] \/ dirty[id] \/ shutdown[id])

\* "we will still not block in futex wait" (run): a shutdown always gets to the
\* end of its join.
ShutdownReturns == vmm # "idle" ~> vmm = "idle"
=============================================================================
