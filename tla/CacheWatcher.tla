---------------------------- MODULE CacheWatcher ----------------------------
(***************************************************************************)
(* ModernCacheWatcher (src/unnamed/part_004), one watch of one user.       *)
(*                                                                         *)
(* Actors: the goroutines that call GroupMembershipChanged (the informer   *)
(* handlers of the cache, one frame each), the run goroutine(s) spawned    *)
(* by Start, the client reading ResultChan, and the cluster set store.     *)
(* knownResources maps a name to the resourceVersion last sent; the        *)
(* internalEvents channel holds at most BufCap events; resultChan is       *)
(* unbuffered, so an event being emitted is held by its run goroutine     *)
(* until the client takes it or the context is cancelled.  The errors     *)
(* channel is left out: it is fed only after a RemoveWatcher that never    *)
(* returns (EventTimeout below; WatchWiring shows the whole deadlock).     *)
(*                                                                         *)
(* Cluster set names are 1..NumNames, so sets.String.List()'s sorted order *)
(* is the numeric order; a resourceVersion is 1..MaxRV and 0 is "not in    *)
(* the lister" (Get fails).                                                *)
(***************************************************************************)
EXTENDS Naturals, Sequences, SequencesExt

CONSTANTS
    NumNames,     \* number of cluster set names
    MaxRV,        \* largest resourceVersion a cluster set reaches
    Callers,      \* goroutines calling GroupMembershipChanged
    BufCap,       \* capacity of internalEvents (defaultEventBufferSize)
    MaxCalls,     \* bound on GroupMembershipChanged calls
    MaxStarts,    \* bound on calls of Start that spawn run
    IncludeAll,   \* includeAllExistingResources
    InitStore,    \* lister contents when the watcher is created
    InitAccess,   \* names the user may see then (what ListObjects serves)
    Absent,       \* model value: no entry in knownResources / client view
    None          \* model value: no event in hand

Names == 1..NumNames
RVs == 1..MaxRV
Runs == 1..MaxStarts

ASSUME
    /\ NumNames \in Nat /\ MaxRV \in Nat \ {0} /\ BufCap \in Nat \ {0}
    /\ MaxCalls \in Nat /\ MaxStarts \in Nat \ {0}
    /\ IncludeAll \in BOOLEAN
    /\ InitStore \in [Names -> 0..MaxRV]
    /\ InitAccess \subseteq Names

Event == [type : {"ADDED", "MODIFIED"}, name : Names, rv : RVs]
         \cup [type : {"DELETED"}, name : Names]

VARIABLES
    store,        \* clusterSetLister: resourceVersion per name, 0 = absent
    known,        \* knownResources
    internal,     \* internalEvents
    ctxDone,      \* ctx cancelled
    started,      \* w.started
    registered,   \* w is in the cache's watcher list
    runPc,        \* per run goroutine: "none", "init", "loop", "exit", "done"
    runNext,      \* per run goroutine: next index into initialResources
    runHeld,      \* per run goroutine: event blocked in emit, or None
    gPc,          \* per caller: "idle", "del" (Range), "upd" (List loop), "remove"
    gNames,       \* per caller: the accessible names of the call
    gTodo,        \* per caller: names the current loop has still to visit
    gEv,          \* per caller: event blocked in the select on internalEvents
    clientView,   \* what the client has been told: rv per name, or Absent
    resultClosed, \* resultChan closed
    panicked,     \* close of a closed channel
    calls,        \* GroupMembershipChanged calls so far
    rvClock       \* last resourceVersion the API server handed out

vars == <<store, known, internal, ctxDone, started, registered,
          runPc, runNext, runHeld, gPc, gNames, gTodo, gEv, clientView,
          resultClosed, panicked, calls, rvClock>>

(* initializeResources: the objects ListObjects returned, as known         *)
(* resources and, with includeAllExistingResources, as initialResources.   *)
Listed == SetToSortSeq({n \in InitAccess : InitStore[n] # 0}, <)
InitKnown == [n \in Names |-> IF n \in InitAccess /\ InitStore[n] # 0
                              THEN InitStore[n] ELSE Absent]
initialResources ==
    IF IncludeAll
    THEN [i \in 1..Len(Listed) |->
            [type |-> "ADDED", name |-> Listed[i], rv |-> InitStore[Listed[i]]]]
    ELSE <<>>

TypeOK ==
    /\ store \in [Names -> 0..MaxRV]
    /\ known \in [Names -> RVs \cup {Absent}]
    /\ internal \in Seq(Event) /\ Len(internal) <= BufCap
    /\ ctxDone \in BOOLEAN /\ started \in BOOLEAN
    /\ registered \in BOOLEAN
    /\ runPc \in [Runs -> {"none", "init", "loop", "exit", "done"}]
    /\ runNext \in [Runs -> Nat]
    /\ runHeld \in [Runs -> Event \cup {None}]
    /\ gPc \in [Callers -> {"idle", "del", "upd", "remove"}]
    /\ gNames \in [Callers -> SUBSET Names]
    /\ gTodo \in [Callers -> SUBSET Names]
    /\ gEv \in [Callers -> Event \cup {None}]
    /\ clientView \in [Names -> RVs \cup {Absent}]
    /\ resultClosed \in BOOLEAN /\ panicked \in BOOLEAN
    /\ calls \in 0..MaxCalls /\ rvClock \in 0..MaxRV

Init ==
    /\ store = InitStore
    /\ known = InitKnown
    /\ internal = <<>>
    /\ ctxDone = FALSE /\ started = FALSE
    /\ registered = TRUE
    /\ runPc = [r \in Runs |-> "none"]
    /\ runNext = [r \in Runs |-> 1]
    /\ runHeld = [r \in Runs |-> None]
    /\ gPc = [c \in Callers |-> "idle"]
    /\ gNames = [c \in Callers |-> {}]
    /\ gTodo = [c \in Callers |-> {}]
    /\ gEv = [c \in Callers |-> None]
    \* the client listed first unless the watch replays the existing objects
    /\ clientView = IF IncludeAll THEN [n \in Names |-> Absent] ELSE InitKnown
    /\ resultClosed = FALSE /\ panicked = FALSE
    /\ calls = 0
    /\ rvClock = Max({InitStore[n] : n \in Names} \cup {0})
-----------------------------------------------------------------------------
(* The API server: a cluster set is created, updated or deleted; every     *)
(* write takes the next resourceVersion.  The watcher hears of it only     *)
(* through a later GroupMembershipChanged.                                 *)
WriteClusterSet(n) ==
    /\ rvClock < MaxRV
    /\ rvClock' = rvClock + 1
    /\ store' = [store EXCEPT ![n] = rvClock + 1]
    /\ UNCHANGED <<known, internal, ctxDone, started, registered,
                   runPc, runNext, runHeld, gPc, gNames, gTodo, gEv,
                   clientView, resultClosed, panicked, calls>>

DeleteClusterSet(n) ==
    /\ rvClock < MaxRV
    /\ store[n] # 0
    /\ rvClock' = rvClock + 1
    /\ store' = [store EXCEPT ![n] = 0]
    /\ UNCHANGED <<known, internal, ctxDone, started, registered,
                   runPc, runNext, runHeld, gPc, gNames, gTodo, gEv,
                   clientView, resultClosed, panicked, calls>>

-----------------------------------------------------------------------------
(* The cache's watcherLock, a sync.RWMutex: a caller is inside            *)
(* notifyWatchers, which holds RLock, while it runs GroupMembershipChanged; *)
(* the writers are RemoveWatcher from handleEventTimeout and from run's    *)
(* defer.  Lock waits for every reader; RLock waits while a writer waits.  *)
WriterWaiting ==
    \/ \E c \in Callers : gPc[c] = "remove"
    \/ \E r \in Runs : runPc[r] = "exit" /\ runHeld[r] = None

NoReaders == \A c \in Callers : gPc[c] = "idle"

(* GroupMembershipChanged(names, users, groups), called by caller c while  *)
(* w is registered.  access is hasAccess: the user or one of its groups is *)
(* in users/groups; without it the call returns at once.                  *)
GroupMembershipChanged(c, names, access) ==
    /\ registered /\ ~WriterWaiting
    /\ gPc[c] = "idle"
    /\ calls < MaxCalls
    /\ calls' = calls + 1
    /\ \/ /\ ~access
          /\ UNCHANGED <<gPc, gNames, gTodo>>
       \/ /\ access
          /\ gPc' = [gPc EXCEPT ![c] = "del"]
          /\ gNames' = [gNames EXCEPT ![c] = names]
          /\ gTodo' = [gTodo EXCEPT ![c] = Names]
    /\ UNCHANGED <<store, known, internal, ctxDone, started,
                   registered, runPc, runNext, runHeld, gEv, clientView, resultClosed, panicked, rvClock>>

(* Mutant: the revoked name is left in knownResources.                    *)
ForgetNothing(n) == UNCHANGED known

(* knownResources.Delete(name).                                            *)
Forget(n) == known' = [known EXCEPT ![n] = Absent]

(* handleResourceDeletions: knownResources.Range visits each key present   *)
(* when it gets there, in any order; a known name no longer accessible is  *)
(* deleted from knownResources, then its DELETED event is sent.  When the  *)
(* Range ends, handleResourceUpdates starts on the sorted names.           *)
handleResourceDeletions(c) ==
    /\ gPc[c] = "del"
    /\ gEv[c] = None
    /\ \/ \E n \in gTodo[c] :
            /\ gTodo' = [gTodo EXCEPT ![c] = @ \ {n}]
            /\ IF known[n] # Absent /\ n \notin gNames[c]
               THEN /\ Forget(n)
                    /\ gEv' = [gEv EXCEPT ![c] = [type |-> "DELETED", name |-> n]]
               ELSE UNCHANGED <<known, gEv>>
            /\ UNCHANGED gPc
       \/ /\ gTodo[c] = {}
          /\ gPc' = [gPc EXCEPT ![c] = "upd"]
          /\ gTodo' = [gTodo EXCEPT ![c] = gNames[c]]
          /\ UNCHANGED <<known, gEv>>
    /\ UNCHANGED <<store, internal, ctxDone, started, registered,
                   runPc, runNext, runHeld, gNames, clientView, resultClosed,
                   panicked, calls, rvClock>>

(* Mutant: the event type is not taken from knownResources.                *)
UpdateTypeAlwaysAdded(n) == "ADDED"

(* The event type handleResourceUpdates picks from knownResources.Load.    *)
UpdateType(n) == IF known[n] = Absent THEN "ADDED" ELSE "MODIFIED"

(* handleResourceUpdates, one name of accessibleNames.List(): Get fails    *)
(* (not in the lister) or the resourceVersion is the one already known:    *)
(* skip; otherwise Store the new version, then send ADDED or MODIFIED.     *)
(* The loop returns when the list is done.                                 *)
handleResourceUpdates(c) ==
    /\ gPc[c] = "upd"
    /\ gEv[c] = None
    /\ \/ /\ gTodo[c] = {}
          /\ gPc' = [gPc EXCEPT ![c] = "idle"]
          /\ UNCHANGED <<known, gTodo, gEv>>
       \/ /\ gTodo[c] # {}
          /\ LET n == Min(gTodo[c]) IN
             /\ gTodo' = [gTodo EXCEPT ![c] = @ \ {n}]
             /\ IF store[n] = 0 \/ known[n] = store[n]
                THEN UNCHANGED <<known, gEv>>
                ELSE /\ known' = [known EXCEPT ![n] = store[n]]
                     /\ gEv' = [gEv EXCEPT ![c] = [type |-> UpdateType(n),
                                                   name |-> n, rv |-> store[n]]]
          /\ UNCHANGED gPc
    /\ UNCHANGED <<store, internal, ctxDone, started, registered,
                   runPc, runNext, runHeld, gNames, clientView, resultClosed,
                   panicked, calls, rvClock>>

(* Mutant: the send does not wait for room in internalEvents.             *)
EventSentNoCap(c) ==
    /\ gEv[c] # None
    /\ internal' = Append(internal, gEv[c])
    /\ gEv' = [gEv EXCEPT ![c] = None]
    /\ UNCHANGED <<store, known, ctxDone, started, registered,
                   runPc, runNext, runHeld, gPc, gNames, gTodo, clientView,
                   resultClosed, panicked, calls, rvClock>>

(* The select on a pending event: internalEvents has room.                 *)
EventSent(c) ==
    /\ gEv[c] # None
    /\ Len(internal) < BufCap
    /\ internal' = Append(internal, gEv[c])
    /\ gEv' = [gEv EXCEPT ![c] = None]
    /\ UNCHANGED <<store, known, ctxDone, started, registered,
                   runPc, runNext, runHeld, gPc, gNames, gTodo, clientView, resultClosed, panicked, calls, rvClock>>

(* After the send is abandoned, a Range stops and handleResourceUpdates    *)
(* follows; in handleResourceUpdates the call returns.                     *)
AbandonSend(c) ==
    /\ gEv' = [gEv EXCEPT ![c] = None]
    /\ IF gPc[c] = "del"
       THEN /\ gPc' = [gPc EXCEPT ![c] = "upd"]
            /\ gTodo' = [gTodo EXCEPT ![c] = gNames[c]]
       ELSE /\ gPc' = [gPc EXCEPT ![c] = "idle"]
            /\ gTodo' = [gTodo EXCEPT ![c] = {}]

(* time.After(eventTimeout) fires while internalEvents stays full and ctx *)
(* is live: handleEventTimeout calls the cache's RemoveWatcher, which      *)
(* takes watcherLock.Lock.  The caller is notifyWatchers, which holds      *)
(* watcherLock.RLock for the whole loop, so the Lock never returns: the    *)
(* caller stays in "remove", still a reader, and the error is never sent.  *)
EventTimeout(c) ==
    /\ gEv[c] # None
    /\ Len(internal) = BufCap /\ ~ctxDone
    /\ gPc' = [gPc EXCEPT ![c] = "remove"]
    /\ UNCHANGED <<store, known, internal, ctxDone, started, registered, runPc,
                   runNext, runHeld, gNames, gTodo, gEv, clientView, resultClosed,
                   panicked, calls, rvClock>>

(* ctx.Done() is ready.                                                    *)
EventCancelled(c) ==
    /\ gEv[c] # None
    /\ ctxDone
    /\ AbandonSend(c)
    /\ UNCHANGED <<store, known, internal, ctxDone, started,
                   registered, runPc, runNext, runHeld, gNames, clientView, resultClosed, panicked, calls, rvClock>>
-----------------------------------------------------------------------------
(* Start: under mu, return if started; else set started and spawn run.     *)
Start ==
    /\ ~started
    /\ \E r \in Runs :
         /\ runPc[r] = "none"
         /\ \A q \in 1..(r - 1) : runPc[q] # "none"
         /\ runPc' = [runPc EXCEPT ![r] = "init"]
    /\ started' = TRUE
    /\ UNCHANGED <<store, known, internal, ctxDone, registered,
                   runNext, runHeld, gPc, gNames, gTodo, gEv, clientView, resultClosed, panicked, calls, rvClock>>

(* Stop: under mu, return unless started; cancel ctx, clear started.       *)
Stop ==
    /\ started
    /\ ctxDone' = TRUE
    /\ started' = FALSE
    /\ UNCHANGED <<store, known, internal, registered, runPc,
                   runNext, runHeld, gPc, gNames, gTodo, gEv, clientView, resultClosed, panicked, calls, rvClock>>

(* emitInitialResources, one iteration: a cancelled ctx returns (run goes *)
(* on to its loop); otherwise the next resource is emitted as ADDED.  The  *)
(* errors case never fires: only handleEventTimeout feeds errors, after    *)
(* the RemoveWatcher that never returns.                                   *)
emitInitialResources(r) ==
    /\ runPc[r] = "init"
    /\ runHeld[r] = None
    /\ \/ /\ runNext[r] <= Len(initialResources)
          /\ \/ /\ ctxDone
                /\ runPc' = [runPc EXCEPT ![r] = "loop"]
                /\ UNCHANGED <<runHeld, runNext>>
             \/ /\ ~ctxDone
                /\ runHeld' = [runHeld EXCEPT ![r] = initialResources[runNext[r]]]
                /\ runNext' = [runNext EXCEPT ![r] = @ + 1]
                /\ UNCHANGED <<runPc>>
       \/ /\ runNext[r] > Len(initialResources)
          /\ runPc' = [runPc EXCEPT ![r] = "loop"]
          /\ UNCHANGED <<runHeld, runNext>>
    /\ UNCHANGED <<store, known, internal, ctxDone, started, registered, gPc,
                   gNames, gTodo, gEv, clientView, resultClosed, panicked,
                   calls, rvClock>>

(* run's main loop, one select over the ready cases: an internal event is  *)
(* emitted, or a cancelled ctx returns (errors is never fed, as above).     *)
runLoop(r) ==
    /\ runPc[r] = "loop"
    /\ runHeld[r] = None
    /\ \/ /\ internal # <<>>
          /\ runHeld' = [runHeld EXCEPT ![r] = Head(internal)]
          /\ internal' = Tail(internal)
          /\ UNCHANGED <<runPc>>
       \/ /\ ctxDone
          /\ runPc' = [runPc EXCEPT ![r] = "exit"]
          /\ UNCHANGED <<runHeld, internal>>
    /\ UNCHANGED <<store, known, ctxDone, started, registered, runNext, gPc,
                   gNames, gTodo, gEv, clientView, resultClosed, panicked,
                   calls, rvClock>>

(* The client takes the event defaultEmit offers on resultChan.            *)
ApplyEvent(view, ev) ==
    CASE ev.type \in {"ADDED", "MODIFIED"} -> [view EXCEPT ![ev.name] = ev.rv]
      [] ev.type = "DELETED"               -> [view EXCEPT ![ev.name] = Absent]
      [] OTHER                             -> view

Receive(r) ==
    /\ runHeld[r] # None
    /\ clientView' = ApplyEvent(clientView, runHeld[r])
    /\ runHeld' = [runHeld EXCEPT ![r] = None]
    /\ UNCHANGED <<store, known, internal, ctxDone, started,
                   registered, runPc, runNext, gPc, gNames, gTodo, gEv,
                   resultClosed, panicked, calls, rvClock>>

(* Mutant: defaultEmit sends on resultChan without the ctx.Done case.     *)
EmitCancelledNever(r) == FALSE

(* defaultEmit gives up on a cancelled ctx.                                *)
EmitCancelled(r) ==
    /\ runHeld[r] # None
    /\ ctxDone
    /\ runHeld' = [runHeld EXCEPT ![r] = None]
    /\ UNCHANGED <<store, known, internal, ctxDone, started,
                   registered, runPc, runNext, gPc, gNames, gTodo, gEv,
                   clientView, resultClosed, panicked, calls, rvClock>>

(* run returns: its defers remove w from the cache (RemoveWatcher waits   *)
(* for the write lock), then close resultChan; closing it a second time    *)
(* panics after HandleCrash has already run.                               *)
runExit(r) ==
    /\ runPc[r] = "exit"
    /\ runHeld[r] = None
    /\ NoReaders
    /\ runPc' = [runPc EXCEPT ![r] = "done"]
    /\ registered' = FALSE
    /\ IF resultClosed THEN panicked' = TRUE /\ UNCHANGED resultClosed
                       ELSE resultClosed' = TRUE /\ UNCHANGED panicked
    /\ UNCHANGED <<store, known, internal, ctxDone, started,
                   runNext, runHeld, gPc, gNames, gTodo, gEv, clientView, calls, rvClock>>

-----------------------------------------------------------------------------
Next ==
    \/ \E n \in Names : WriteClusterSet(n) \/ DeleteClusterSet(n)
    \/ \E c \in Callers :
         \/ \E names \in SUBSET Names, access \in BOOLEAN :
              GroupMembershipChanged(c, names, access)
         \/ handleResourceDeletions(c) \/ handleResourceUpdates(c)
         \/ EventSent(c) \/ EventTimeout(c) \/ EventCancelled(c)
    \/ Start \/ Stop
    \/ \E r \in Runs : \/ emitInitialResources(r) \/ runLoop(r)
                       \/ Receive(r) \/ EmitCancelled(r) \/ runExit(r)

(* Callers and run goroutines are scheduled by the Go runtime and the      *)
(* timer of time.After fires; the client may stop reading at any time.     *)
Fairness ==
    /\ \A c \in Callers :
         /\ WF_vars(handleResourceDeletions(c)) /\ WF_vars(handleResourceUpdates(c))
         /\ WF_vars(EventSent(c)) /\ WF_vars(EventTimeout(c))
         /\ WF_vars(EventCancelled(c))
    /\ \A r \in Runs :
         /\ WF_vars(emitInitialResources(r)) /\ WF_vars(runLoop(r))
         /\ WF_vars(EmitCancelled(r)) /\ WF_vars(runExit(r))

Spec == Init /\ [][Next]_vars /\ Fairness

-----------------------------------------------------------------------------
(***************************************************************************)
(* Properties.                                                             *)
(***************************************************************************)

(* An event fits the client's view: ADDED for a name it does not hold,     *)
(* MODIFIED for one it holds at an older resourceVersion, DELETED for one  *)
(* it holds.                                                               *)
FitsView(view, ev) ==
    CASE ev.type = "ADDED"    -> view[ev.name] = Absent
      [] ev.type = "MODIFIED" -> view[ev.name] # Absent /\ view[ev.name] < ev.rv
      [] ev.type = "DELETED"  -> view[ev.name] # Absent
      [] OTHER                -> TRUE

(* Spec 8.4 (event consistency): every event the client takes from         *)
(* ResultChan before Stop is consistent with the                          *)
(* events it took before, whatever the interleaving of                     *)
(* GroupMembershipChanged, Start and the run loop.                         *)
(* (After Stop, run's selects may still hand out queued events while      *)
(* skipping the initial ones; the stream is then over for the client.)     *)
WatchStreamWellFormed ==
    [][\A r \in Runs : Receive(r) /\ ~ctxDone
                        => FitsView(clientView, runHeld[r])]_vars

Quiescent ==
    /\ registered /\ ~ctxDone
    /\ \E r \in Runs : runPc[r] = "loop"
    /\ internal = <<>>
    /\ \A r \in Runs : runHeld[r] = None
    /\ \A c \in Callers : gPc[c] = "idle"

(* knownResources, which decides between ADDED, MODIFIED and skipping, is  *)
(* exactly what the client has been told once every event is through and   *)
(* the watch is live: no event was lost between Store and send.            *)
ClientMatchesKnown == Quiescent => clientView = known

(* Spec 4.4: after Stop every in-flight send is abandoned, so the client  *)
(* is handed nothing more, even though run's select and defaultEmit choose *)
(* at random among ready cases.                                            *)
StreamEnds == [][\A r \in Runs : Receive(r) => ~ctxDone]_vars

(* Stop then Start: a watch is never restarted into a second run whose     *)
(* deferred close hits the already closed resultChan.                      *)
NoDoubleClose == ~panicked

(* Stop ends the watch: after the context is cancelled, run returns and    *)
(* closes resultChan, although its select may keep taking queued events   *)
(* and the client may never read again (defaultEmit's ctx.Done case), and *)
(* its deferred RemoveWatcher must wait out the callers holding the read   *)
(* lock.  The one exception is a send that timed out before Stop: its      *)
(* RemoveWatcher holds up the write lock for good, and run's with it.      *)
StopClosesStream ==
    ctxDone ~> (resultClosed \/ \E c \in Callers : gPc[c] = "remove")
====
