-------------------------------- MODULE Group --------------------------------
(***************************************************************************)
(* Fourier::Group (group.hpp, group.cpp): the feedback handlers of a group *)
(* of modules, the lock that protects them, and the threads that meet      *)
(* there.  Client threads add and clear handlers; threads of the C library *)
(* run callbackWrapper, which calls every handler with the lock held.      *)
(* Each step below lies between two points at which another thread can     *)
(* observe a difference: taking or releasing handler_lock_, a call into    *)
(* the C library, the start and the end of a handler.                      *)
(*                                                                         *)
(* The C library is not in the repository.  It is modelled by what aios.h  *)
(* says of it and by what group.cpp relies on: a feedback that arrives is  *)
(* handed, on a thread of the library, to each callback registered at that *)
(* moment.  Whether fourierGroupRelease waits for the callbacks that run   *)
(* aios.h does not say: both are modelled (ReleaseWaits).                  *)
(***************************************************************************)
EXTENDS Naturals, Sequences

CONSTANTS
  Clients,         \* the threads of the program that owns the group
  Callbacks,       \* the library's threads that run callbackWrapper
  Feedback,        \* the feedback packets that arrive
  None,            \* nobody, or nothing
  MaxAdds,         \* bound: addFeedbackHandler is called at most so often
  Reentrant,       \* the handlers that call add/clear of their own group
  RelockThrows,    \* locking a std::mutex one already owns throws; else it
                   \* blocks forever (undefined: the platform decides)
  RegisterCanFail, \* the library may refuse to register the callback
  ReleaseWaits     \* fourierGroupRelease returns only when no callback runs;
                   \* else the group may be freed under one

ASSUME GroupAssumption ==
  /\ Clients \cap Callbacks = {}
  /\ None \notin Clients \cup Callbacks \cup Feedback
  /\ MaxAdds \in Nat
  /\ Reentrant \subseteq Nat \ {0}
  /\ RelockThrows \in BOOLEAN
  /\ RegisterCanFail \in BOOLEAN
  /\ ReleaseWaits \in BOOLEAN

VARIABLES
  handlers,    \* handlers_: the attached handlers, named by when they came
  lock,        \* the thread that owns handler_lock_, or None
  registered,  \* the library's registrations of callbackWrapper
  clientAt,    \* where each client thread is in add or clear
  pending,     \* calls of callbackWrapper a library thread has yet to finish
  fbk,         \* the feedback those calls carry
  loop,        \* 0 outside the loop of callAttachedHandlers, else i + 1
  running,     \* the handler being run from that loop, or 0
  status,      \* "live", "releasing" (in the destructor), "gone", or
               \* "undefined": freed while a callback may still use it
  added,       \* history: the number of handlers ever attached
  cleared,     \* history: the last handler a finished clear has detached
  refused,     \* history: the attached list's registration was refused
  arrived,     \* history: the feedback that has arrived
  due,         \* history: the last handler attached when it arrived, or 0:
               \* there was none, or a clear has detached it since
  calls        \* history: the handlers each feedback was given to

client == <<clientAt, added, cleared, refused>>
library == <<pending, fbk, arrived, due>>
dispatch == <<loop, running, calls>>
vars == <<handlers, lock, registered, client, library, dispatch, status>>

\* Group::Group: no handler, and nothing registered with the library.
Init ==
  /\ handlers = <<>>
  /\ lock = None
  /\ registered = 0
  /\ clientAt = [u \in Clients |-> "idle"]
  /\ pending = [c \in Callbacks |-> 0]
  /\ fbk = [c \in Callbacks |-> None]
  /\ loop = [c \in Callbacks |-> 0]
  /\ running = [c \in Callbacks |-> 0]
  /\ status = "live"
  /\ added = 0
  /\ cleared = 0
  /\ refused = FALSE
  /\ arrived = {}
  /\ due = [f \in Feedback |-> 0]
  /\ calls = [f \in Feedback |-> <<>>]

-----------------------------------------------------------------------------
(* Plausible errors in group.cpp.  No behaviour of Spec uses them: each is *)
(* substituted for the definition it resembles, to see a property fail.    *)

\* Every handler registers the wrapper, and: the size is tested too late.
AnyHandler == TRUE
NoHandlerYet == Len(handlers) = 0

\* The loop stops one handler early.
LoopOverEarly(c) == loop[c] >= Len(handlers)

\* The handler is copied under the lock and called without it.
StartHandlerUnlocked(c) ==
  /\ loop[c] \in 1 .. Len(handlers) /\ running[c] = 0
  /\ lock' = None
  /\ running' = [running EXCEPT ![c] = handlers[loop[c]]]
  /\ calls' = [calls EXCEPT ![fbk[c]] = Append(@, handlers[loop[c]])]
  /\ UNCHANGED <<handlers, registered, client, library, loop, status>>

\* With no guard object, an early return for an empty list keeps the lock.
ReturnKeepingLock(c) ==
  /\ loop[c] > Len(handlers) /\ running[c] = 0
  /\ lock' = IF handlers = <<>> THEN lock ELSE None
  /\ loop' = [loop EXCEPT ![c] = 0]
  /\ pending' = [pending EXCEPT ![c] = @ - 1]
  /\ fbk' = [fbk EXCEPT ![c] = None]
  /\ UNCHANGED <<handlers, registered, client, arrived, due, running, calls, status>>

\* Without the catch, what a handler throws ends the loop; the guard object
\* still gives the lock back.
Uncaught(c) ==
  /\ lock' = None
  /\ running' = [running EXCEPT ![c] = 0]
  /\ loop' = [loop EXCEPT ![c] = 0]
  /\ pending' = [pending EXCEPT ![c] = @ - 1]
  /\ fbk' = [fbk EXCEPT ![c] = None]
  /\ UNCHANGED <<handlers, registered, client, arrived, due, calls, status>>

-----------------------------------------------------------------------------
(* Client threads                                                          *)

\* The test of addFeedbackHandler, made after the push_back.
FirstHandler == Len(handlers) = 1

\* addFeedbackHandler, up to the push_back: the lock is taken.
AddFeedbackHandler(u) ==
  /\ clientAt[u] = "idle" /\ status = "live" /\ lock = None
  /\ added < MaxAdds
  /\ lock' = u
  /\ added' = added + 1
  /\ handlers' = Append(handlers, added')
  /\ clientAt' = [clientAt EXCEPT ![u] = "adding"]
  /\ UNCHANGED <<registered, cleared, refused, library, dispatch, status>>

\* The rest of addFeedbackHandler: the first handler registers the wrapper,
\* and the status the library returns is dropped.
RegisterIfFirst(u) ==
  /\ clientAt[u] = "adding"
  /\ \/ /\ FirstHandler
        /\ registered' = registered + 1
        /\ UNCHANGED refused
     \/ /\ FirstHandler /\ RegisterCanFail
        /\ refused' = TRUE
        /\ UNCHANGED registered
     \/ /\ ~FirstHandler
        /\ UNCHANGED <<registered, refused>>
  /\ lock' = None
  /\ clientAt' = [clientAt EXCEPT ![u] = "idle"]
  /\ UNCHANGED <<handlers, added, cleared, library, dispatch, status>>

\* clearFeedbackHandlers, up to the library's own clear.
ClearFeedbackHandlers(u) ==
  /\ clientAt[u] = "idle" /\ status = "live" /\ lock = None
  /\ lock' = u
  /\ registered' = 0
  /\ clientAt' = [clientAt EXCEPT ![u] = "clearing"]
  /\ UNCHANGED <<handlers, added, cleared, refused, library, dispatch, status>>

\* The rest of clearFeedbackHandlers: the vector is emptied.
ClearVector(u) ==
  /\ clientAt[u] = "clearing"
  /\ handlers' = <<>>
  /\ cleared' = added
  /\ refused' = FALSE
  /\ due' = [f \in Feedback |-> 0]
  /\ lock' = None
  /\ clientAt' = [clientAt EXCEPT ![u] = "idle"]
  /\ UNCHANGED <<registered, added, pending, fbk, arrived, dispatch, status>>

-----------------------------------------------------------------------------
(* Library threads                                                         *)

\* Feedback f reaches the library, which owes a call of callbackWrapper for
\* each registration; with none the feedback is only stored.
FeedbackArrives(c, f) ==
  /\ status \in {"live", "releasing"} /\ f \notin arrived /\ pending[c] = 0
  /\ arrived' = arrived \cup {f}
  /\ due' = [due EXCEPT ![f] =
              IF handlers # <<>> /\ lock \notin Clients THEN added ELSE 0]
  /\ pending' = [pending EXCEPT ![c] = registered]
  /\ fbk' = [fbk EXCEPT ![c] = IF registered = 0 THEN None ELSE f]
  /\ UNCHANGED <<handlers, lock, registered, client, dispatch, status>>

\* callbackWrapper calls callAttachedHandlers, which takes the lock.
CallAttachedHandlers(c) ==
  /\ status # "undefined" /\ pending[c] > 0 /\ loop[c] = 0 /\ lock = None
  /\ lock' = c
  /\ loop' = [loop EXCEPT ![c] = 1]
  /\ UNCHANGED <<handlers, registered, client, library, running, calls, status>>

\* The loop condition of callAttachedHandlers fails.
LoopOver(c) == loop[c] > Len(handlers)

\* One round of the loop begins: the handler is copied and called.
StartHandler(c) ==
  /\ status # "undefined" /\ loop[c] > 0 /\ ~LoopOver(c) /\ running[c] = 0
  /\ running' = [running EXCEPT ![c] = handlers[loop[c]]]
  /\ calls' = [calls EXCEPT ![fbk[c]] = Append(@, handlers[loop[c]])]
  /\ UNCHANGED <<handlers, lock, registered, client, library, loop, status>>

\* The loop goes on to the next handler.
NextRound(c) ==
  /\ running' = [running EXCEPT ![c] = 0]
  /\ loop' = [loop EXCEPT ![c] = @ + 1]
  /\ UNCHANGED <<handlers, lock, registered, client, library, calls, status>>

\* catch (...): what the handler throws is swallowed, and the loop goes on.
Caught(c) == NextRound(c)

\* The handler returns, or throws.  One that calls back into its group asks
\* for the lock its own thread holds: it throws, or never gets here.
EndHandler(c) ==
  /\ status # "undefined" /\ running[c] # 0
  /\ running[c] \in Reentrant => RelockThrows
  /\ NextRound(c) \/ Caught(c)

\* The loop is over: lock_guard releases the lock, the call returns.
ReturnFromCallback(c) ==
  /\ status # "undefined" /\ loop[c] > 0 /\ LoopOver(c) /\ running[c] = 0
  /\ lock' = None
  /\ loop' = [loop EXCEPT ![c] = 0]
  /\ pending' = [pending EXCEPT ![c] = @ - 1]
  /\ fbk' = [fbk EXCEPT ![c] = IF pending[c] = 1 THEN None ELSE @]
  /\ UNCHANGED <<handlers, registered, client, arrived, due, running, calls, status>>

-----------------------------------------------------------------------------
(* The destructor.  Its caller is the last owner: no client is inside.     *)

BeginDestroy ==
  /\ status = "live" /\ \A u \in Clients : clientAt[u] = "idle"
  /\ status' = "releasing"
  /\ UNCHANGED <<handlers, lock, registered, client, library, dispatch>>

NoCallPending == \A c \in Callbacks : pending[c] = 0

\* fourierGroupRelease returns and the members go.  If it did not wait for a
\* call it owes, lock and vector are freed under it: the rest is undefined.
FinishDestroy ==
  /\ status = "releasing"
  /\ ReleaseWaits => NoCallPending
  /\ status' = IF NoCallPending THEN "gone" ELSE "undefined"
  /\ registered' = 0
  /\ UNCHANGED <<handlers, lock, client, library, dispatch>>

\* Nothing is left to do with a destroyed group.
Terminated == status \in {"gone", "undefined"} /\ UNCHANGED vars

-----------------------------------------------------------------------------
Client(u) == \/ AddFeedbackHandler(u) \/ RegisterIfFirst(u)
             \/ ClearFeedbackHandlers(u) \/ ClearVector(u)

Callback(c) == \/ CallAttachedHandlers(c) \/ StartHandler(c)
               \/ EndHandler(c) \/ ReturnFromCallback(c)

Next == \/ \E u \in Clients : Client(u)
        \/ \E c \in Callbacks : Callback(c)
        \/ \E c \in Callbacks, f \in Feedback : FeedbackArrives(c, f)
        \/ BeginDestroy \/ FinishDestroy \/ Terminated

Spec == Init /\ [][Next]_vars

\* A thread inside the lock keeps running and handlers return.  A callback
\* takes a lock that stays free; one that others keep taking it may miss for
\* ever, std::mutex promises nothing (weak fairness, not strong).
Fairness ==
  /\ \A u \in Clients : WF_vars(RegisterIfFirst(u)) /\ WF_vars(ClearVector(u))
  /\ \A c \in Callbacks :
       /\ WF_vars(CallAttachedHandlers(c)) /\ WF_vars(StartHandler(c))
       /\ WF_vars(EndHandler(c)) /\ WF_vars(ReturnFromCallback(c))

FairSpec == Spec /\ Fairness

-----------------------------------------------------------------------------
(* Properties                                                              *)

\* The variables have their types.  The library holds at most one
\* registration, and so owes a thread at most one call: add registers on the
\* first handler only, whatever the interleaving of adds and clears.
TypeOK ==
  /\ handlers \in Seq(1 .. MaxAdds)
  /\ lock \in Clients \cup Callbacks \cup {None}
  /\ registered \in 0 .. 1
  /\ clientAt \in [Clients -> {"idle", "adding", "clearing"}]
  /\ pending \in [Callbacks -> 0 .. 1]
  /\ fbk \in [Callbacks -> Feedback \cup {None}]
  /\ loop \in [Callbacks -> Nat]
  /\ running \in [Callbacks -> 0 .. MaxAdds]
  /\ status \in {"live", "releasing", "gone", "undefined"}
  /\ added \in 0 .. MaxAdds
  /\ cleared \in 0 .. added
  /\ refused \in BOOLEAN
  /\ arrived \subseteq Feedback
  /\ due \in [Feedback -> 0 .. MaxAdds]
  /\ calls \in [Feedback -> Seq(1 .. MaxAdds)]

\* Outside add and clear, the library knows the group exactly when the group
\* has handlers: add (group.cpp:75) and clear (group.cpp:82-83) keep the two
\* lists in step, and only a refused registration tells them apart.
RegisteredOnce ==
  (status \in {"live", "releasing"} /\ lock \notin Clients) =>
    registered = IF handlers # <<>> /\ ~refused THEN 1 ELSE 0

\* Once clearFeedbackHandlers has returned, no handler attached before it
\* runs, neither from a feedback that was already being dispatched when clear
\* was called nor from one whose call was waiting for the lock.
NoCallAfterClear ==
  \A c \in Callbacks : running[c] # 0 => running[c] > cleared

\* No feedback reaches a handler twice, and handlers are called in the order
\* they were added (the loop of callAttachedHandlers, group.cpp:17), across
\* clears, re-registrations and library threads.
CalledOnceInOrder ==
  \A f \in Feedback : \A i, j \in 1 .. Len(calls[f]) :
    i < j => calls[f][i] < calls[f][j]

\* While a callback is in its loop the vector it indexes does not change:
\* neither size() nor handlers_[i] (group.cpp:17-18) can be stale.
ListStableDuringDispatch ==
  [][\A c \in Callbacks : loop[c] > 0 => handlers' = handlers]_vars

\* Whoever takes the lock gives it back: every path out of add, clear and
\* callAttachedHandlers, a handler that throws included, ends the lock_guard.
LockReleased ==
  \A t \in Clients \cup Callbacks : lock = t ~> lock # t

\* Where relocking blocks, a handler that calls add or clear of its own group
\* never gets out, and the lock never changes hands again (group.cpp:16-20).
ReentryBlocks ==
  [][\A c \in Callbacks : running[c] \in Reentrant => lock' = c]_vars

\* Feedback that arrives while handlers are attached, outside add and clear,
\* is in the end given to each of them ("if/when all modules return feedback,
\* any associated handler functions are called", group.hpp:62-63), whatever
\* the handlers before it throw (group.cpp:18-21) and whoever else wants the
\* lock, as long as adds come to an end (MaxAdds); only a clear or the
\* destructor may come first.
FeedbackReachesHandlers ==
  \A f \in Feedback :
    due[f] > 0 ~>
      \/ due[f] = 0
      \/ status # "live"
      \/ \A h \in cleared + 1 .. due[f] :
           \E i \in DOMAIN calls[f] : calls[f][i] = h

-----------------------------------------------------------------------------
(* The abstract specification.  A dispatch counts from the moment it has   *)
(* the lock: from there on the handlers it will call are settled.          *)

Dispatching(f) == \E c \in Callbacks : loop[c] > 0 /\ fbk[c] = f

Promise == INSTANCE FeedbackDispatch WITH
  attached <- handlers,
  issued <- added,
  delivered <- [f \in Feedback |-> IF Dispatching(f) THEN handlers ELSE calls[f]]

\* Group implements FeedbackDispatch: lock and threads do not show.
ImplementsPromise == Promise!Spec
=============================================================================
