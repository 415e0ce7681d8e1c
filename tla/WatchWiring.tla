----------------------------- MODULE WatchWiring -----------------------------
(***************************************************************************)
(* The wiring between OptimizedClusterSetCache (src/unnamed/part_000) and  *)
(* its ModernCacheWatchers (src/unnamed/part_004), reduced to what the     *)
(* watcher-list lock sees.                                                 *)
(*                                                                         *)
(* notifyWatchers holds watcherLock.RLock while it calls each watcher's    *)
(* GroupMembershipChanged on the informer handler goroutine.  A send that  *)
(* finds the watcher's buffer full times out into handleEventTimeout,      *)
(* which calls the cache's RemoveWatcher, and RemoveWatcher takes          *)
(* watcherLock.Lock.  The watcher's run goroutine also calls RemoveWatcher *)
(* when it returns, and AddWatcher takes the same write lock.              *)
(*                                                                         *)
(* The lock follows sync.RWMutex: Lock waits until no reader and no       *)
(* writer holds it, and RLock waits while a writer holds it or waits for  *)
(* it.  The index, the names and the event contents are left out: every   *)
(* notification carries one event for every watcher, the user of which is *)
(* taken to have access.                                                   *)
(***************************************************************************)
EXTENDS Naturals, FiniteSets

CONSTANTS
    Handlers,       \* informer handler goroutines (role and binding informers)
    Watchers,       \* watches, each with its own run goroutine
    InitWatchers,   \* watches already registered in the cache
    BufCap,         \* capacity of internalEvents
    MaxNotifies,    \* bound on notifyWatchers calls
    None

ASSUME InitWatchers \subseteq Watchers /\ BufCap \in Nat \ {0} /\ MaxNotifies \in Nat

VARIABLES
    watchers,       \* the cache's watcher list
    readers,        \* goroutines holding watcherLock.RLock
    hPc, hTodo, hCur,  \* each handler inside notifyWatchers
    buf,            \* events in each watcher's internalEvents
    errPending,     \* the watcher's errors channel holds an error
    ctxDone,        \* Stop has cancelled the watcher's context
    runPc,          \* each watcher's run goroutine (or the caller of AddWatcher)
    notifies

vars == <<watchers, readers, hPc, hTodo, hCur, buf, errPending, ctxDone, runPc,
          notifies>>

TypeOK ==
    /\ watchers \subseteq Watchers
    /\ readers \subseteq Handlers
    /\ hPc \in [Handlers -> {"idle", "rlock", "loop", "send", "remove"}]
    /\ hTodo \in [Handlers -> SUBSET Watchers]
    /\ hCur \in [Handlers -> Watchers \cup {None}]
    /\ buf \in [Watchers -> 0..BufCap]
    /\ errPending \in [Watchers -> BOOLEAN]
    /\ ctxDone \in [Watchers -> BOOLEAN]
    /\ runPc \in [Watchers -> {"new", "adding", "loop", "emitError", "remove", "closed"}]
    /\ notifies \in 0..MaxNotifies

Init ==
    /\ watchers = InitWatchers
    /\ readers = {}
    /\ hPc = [h \in Handlers |-> "idle"]
    /\ hTodo = [h \in Handlers |-> {}]
    /\ hCur = [h \in Handlers |-> None]
    /\ buf = [w \in Watchers |-> 0]
    /\ errPending = [w \in Watchers |-> FALSE]
    /\ ctxDone = [w \in Watchers |-> FALSE]
    /\ runPc = [w \in Watchers |-> IF w \in InitWatchers THEN "loop" ELSE "new"]
    /\ notifies = 0

-----------------------------------------------------------------------------
(* sync.RWMutex: who waits in Lock, and when each side may go ahead.       *)
PendingWriters ==
    {h \in Handlers : hPc[h] = "remove"}
    \cup {w \in Watchers : runPc[w] \in {"adding", "remove"}}

CanLock == readers = {}

CanRLock == PendingWriters = {}

(* A handler ends its update with notifyWatchers.                          *)
BeginNotify(h) ==
    /\ hPc[h] = "idle" /\ notifies < MaxNotifies
    /\ hPc' = [hPc EXCEPT ![h] = "rlock"]
    /\ notifies' = notifies + 1
    /\ UNCHANGED <<watchers, readers, hTodo, hCur, buf, errPending, ctxDone, runPc>>

(* notifyWatchers: RLock, then range over the list as it is now.           *)
NotifyRLock(h) ==
    /\ hPc[h] = "rlock" /\ CanRLock
    /\ readers' = readers \cup {h}
    /\ hTodo' = [hTodo EXCEPT ![h] = watchers]
    /\ hPc' = [hPc EXCEPT ![h] = "loop"]
    /\ UNCHANGED <<watchers, hCur, buf, errPending, ctxDone, runPc, notifies>>

(* The next watcher's GroupMembershipChanged, or the deferred RUnlock.     *)
NotifyNext(h) ==
    /\ hPc[h] = "loop"
    /\ \/ \E w \in hTodo[h] :
            /\ hTodo' = [hTodo EXCEPT ![h] = @ \ {w}]
            /\ hCur' = [hCur EXCEPT ![h] = w]
            /\ hPc' = [hPc EXCEPT ![h] = "send"]
            /\ UNCHANGED readers
       \/ /\ hTodo[h] = {}
          /\ readers' = readers \ {h}
          /\ hCur' = [hCur EXCEPT ![h] = None]
          /\ hPc' = [hPc EXCEPT ![h] = "idle"]
          /\ UNCHANGED hTodo
    /\ UNCHANGED <<watchers, buf, errPending, ctxDone, runPc, notifies>>

(* The select of handleResourceUpdates' send: the event is queued, the    *)
(* context is cancelled, or, with the buffer full and the context live,    *)
(* the eventTimeout timer fires first and handleEventTimeout runs.         *)
EventSent(h) ==
    /\ hPc[h] = "send" /\ buf[hCur[h]] < BufCap
    /\ buf' = [buf EXCEPT ![hCur[h]] = @ + 1]
    /\ hPc' = [hPc EXCEPT ![h] = "loop"]
    /\ UNCHANGED <<watchers, readers, hTodo, hCur, errPending, ctxDone, runPc, notifies>>

EventCancelled(h) ==
    /\ hPc[h] = "send" /\ ctxDone[hCur[h]]
    /\ hPc' = [hPc EXCEPT ![h] = "loop"]
    /\ UNCHANGED <<watchers, readers, hTodo, hCur, buf, errPending, ctxDone, runPc, notifies>>

EventTimeout(h) ==
    /\ hPc[h] = "send" /\ buf[hCur[h]] = BufCap /\ ~ctxDone[hCur[h]]
    /\ hPc' = [hPc EXCEPT ![h] = "remove"]
    /\ UNCHANGED <<watchers, readers, hTodo, hCur, buf, errPending, ctxDone, runPc, notifies>>

(* RemoveWatcher on the handler goroutine, then the non-blocking push to   *)
(* the errors channel; GroupMembershipChanged returns to the loop.         *)
handleEventTimeout(h) ==
    /\ hPc[h] = "remove" /\ CanLock
    /\ watchers' = watchers \ {hCur[h]}
    /\ errPending' = [errPending EXCEPT ![hCur[h]] = TRUE]
    /\ hPc' = [hPc EXCEPT ![h] = "loop"]
    /\ UNCHANGED <<readers, hTodo, hCur, buf, ctxDone, runPc, notifies>>

-----------------------------------------------------------------------------
(* The watcher's run goroutine.  Its select takes a pending error, a      *)
(* queued event or the cancelled context; emit hands the event to the     *)
(* client, or gives up when the context is cancelled.                      *)
ClientReceive(w) ==
    /\ runPc[w] = "loop" /\ buf[w] > 0
    /\ buf' = [buf EXCEPT ![w] = @ - 1]
    /\ UNCHANGED <<watchers, readers, hPc, hTodo, hCur, errPending, ctxDone, runPc, notifies>>

RunError(w) ==
    /\ runPc[w] = "loop" /\ errPending[w]
    /\ errPending' = [errPending EXCEPT ![w] = FALSE]
    /\ runPc' = [runPc EXCEPT ![w] = "emitError"]
    /\ UNCHANGED <<watchers, readers, hPc, hTodo, hCur, buf, ctxDone, notifies>>

(* emit of the ERROR event: taken by the client, or dropped on ctx.Done;   *)
(* then run returns into its deferred RemoveWatcher.                       *)
ClientReceiveError(w) ==
    /\ runPc[w] = "emitError"
    /\ runPc' = [runPc EXCEPT ![w] = "remove"]
    /\ UNCHANGED <<watchers, readers, hPc, hTodo, hCur, buf, errPending, ctxDone, notifies>>

RunCancelled(w) ==
    /\ runPc[w] \in {"loop", "emitError"} /\ ctxDone[w]
    /\ runPc' = [runPc EXCEPT ![w] = "remove"]
    /\ UNCHANGED <<watchers, readers, hPc, hTodo, hCur, buf, errPending, ctxDone, notifies>>

(* run's deferred RemoveWatcher, then close(resultChan).                   *)
RunRemoveWatcher(w) ==
    /\ runPc[w] = "remove" /\ CanLock
    /\ watchers' = watchers \ {w}
    /\ runPc' = [runPc EXCEPT ![w] = "closed"]
    /\ UNCHANGED <<readers, hPc, hTodo, hCur, buf, errPending, ctxDone, notifies>>

(* A new watch: AddWatcher waits for the write lock, then Start.           *)
BeginAddWatcher(w) ==
    /\ runPc[w] = "new"
    /\ runPc' = [runPc EXCEPT ![w] = "adding"]
    /\ UNCHANGED <<watchers, readers, hPc, hTodo, hCur, buf, errPending, ctxDone, notifies>>

AddWatcher(w) ==
    /\ runPc[w] = "adding" /\ CanLock
    /\ watchers' = watchers \cup {w}
    /\ runPc' = [runPc EXCEPT ![w] = "loop"]
    /\ UNCHANGED <<readers, hPc, hTodo, hCur, buf, errPending, ctxDone, notifies>>

(* Stop cancels the context of a started watcher.                          *)
Stop(w) ==
    /\ runPc[w] \in {"loop", "emitError"} /\ ~ctxDone[w]
    /\ ctxDone' = [ctxDone EXCEPT ![w] = TRUE]
    /\ UNCHANGED <<watchers, readers, hPc, hTodo, hCur, buf, errPending, runPc, notifies>>

-----------------------------------------------------------------------------
HandlerStep(h) ==
    \/ NotifyRLock(h) \/ NotifyNext(h)
    \/ EventSent(h) \/ EventCancelled(h) \/ EventTimeout(h)
    \/ handleEventTimeout(h)

RunStep(w) ==
    RunError(w) \/ RunCancelled(w) \/ RunRemoveWatcher(w) \/ AddWatcher(w)

(* The client and the informers act when they like.                        *)
Environment ==
    \/ \E h \in Handlers : BeginNotify(h)
    \/ \E w \in Watchers : \/ ClientReceive(w) \/ ClientReceiveError(w)
                           \/ BeginAddWatcher(w) \/ Stop(w)

Next ==
    \/ \E h \in Handlers : HandlerStep(h)
    \/ \E w \in Watchers : RunStep(w)
    \/ Environment

(* Goroutines that are runnable run: the timer of the send's select fires, *)
(* and a goroutine waiting on the lock gets it once it is free.  Nothing    *)
(* makes the client read or stop.                                          *)
Fairness ==
    /\ \A h \in Handlers : WF_vars(HandlerStep(h))
    /\ \A w \in Watchers : WF_vars(RunStep(w))

Spec == Init /\ [][Next]_vars /\ Fairness

-----------------------------------------------------------------------------
(* Every notifyWatchers call returns and releases the read lock: the       *)
(* informer handler that calls it is never blocked for good, whatever the  *)
(* client of a watch does.                                                 *)
NotifyReturns == \A h \in Handlers : hPc[h] # "idle" ~> hPc[h] = "idle"

=============================================================================
