----------------------------- MODULE GroupProofs -----------------------------
(***************************************************************************)
(* Proofs about Group, for every set of threads and packets, every bound   *)
(* on the adds and every set of reentrant handlers.                        *)
(***************************************************************************)
EXTENDS Group, SequenceTheorems, TLAPS

-----------------------------------------------------------------------------
(* The inductive invariant                                                 *)

\* The thread in a critical section is the owner of the lock, and a thread
\* in the loop is at a handler, or just past the last one.
LockOwner ==
  /\ \A u \in Clients : clientAt[u] # "idle" <=> lock = u
  /\ \A c \in Callbacks : loop[c] > 0 <=> lock = c
  /\ \A c \in Callbacks : loop[c] <= Len(handlers) + 1
  /\ \A c \in Callbacks : running[c] # 0 =>
       loop[c] \in 1 .. Len(handlers) /\ running[c] = handlers[loop[c]]

\* No client is inside when the group goes, and a loop belongs to a call.
Teardown ==
  /\ status # "live" => \A u \in Clients : clientAt[u] = "idle"
  /\ \A c \in Callbacks : loop[c] > 0 => pending[c] = 1

\* The attached handlers came after the last clear, in this order.
HandlerOrder ==
  /\ \A i \in 1 .. Len(handlers) : handlers[i] > cleared /\ handlers[i] <= added
  /\ \A i, j \in 1 .. Len(handlers) : i < j => handlers[i] < handlers[j]

\* The library's registration, phase by phase of add and clear.
Registration ==
  /\ RegisteredOnce
  /\ handlers = <<>> => ~refused
  /\ \A u \in Clients : clientAt[u] = "clearing" => registered = 0
  /\ \A u \in Clients : clientAt[u] = "adding" =>
       /\ Len(handlers) > 0
       /\ Len(handlers) = 1 => registered = 0 /\ ~refused
       /\ Len(handlers) > 1 => registered = IF refused THEN 0 ELSE 1

IInv == /\ TypeOK /\ LockOwner /\ Teardown /\ HandlerOrder /\ Registration

-----------------------------------------------------------------------------
(* Facts about sequences                                                   *)

LEMMA EmptyIffNoLength ==
  ASSUME NEW S, NEW s \in Seq(S)
  PROVE  s = <<>> <=> Len(s) = 0
BY EmptySeq

LEMMA MoreThanOne == \A n \in Nat : n # 0 /\ n # 1 => n > 1
OBVIOUS

LEMMA AppendFacts ==
  ASSUME NEW S, NEW s \in Seq(S), NEW e \in S
  PROVE  /\ Append(s, e) \in Seq(S)
         /\ Append(s, e) # <<>>
         /\ Len(Append(s, e)) = Len(s) + 1
         /\ \A i \in 1 .. Len(s) : Append(s, e)[i] = s[i]
         /\ Append(s, e)[Len(s) + 1] = e
BY AppendProperties

-----------------------------------------------------------------------------
(* The invariant holds initially                                           *)

LEMMA InitInv == Init => IInv
<1> SUFFICES ASSUME Init PROVE IInv
  OBVIOUS
<1> USE GroupAssumption DEF Init
<1>1. TypeOK
  <2>1. handlers \in Seq(1 .. MaxAdds) /\ calls \in [Feedback -> Seq(1 .. MaxAdds)]
    BY EmptySeq
  <2>2. /\ registered \in 0 .. 1 /\ added \in 0 .. MaxAdds /\ cleared \in 0 .. added
        /\ pending \in [Callbacks -> 0 .. 1] /\ loop \in [Callbacks -> Nat]
        /\ running \in [Callbacks -> 0 .. MaxAdds]
    OBVIOUS
  <2>3. QED
    BY <2>1, <2>2, Zenon DEF TypeOK
<1>2. LockOwner /\ Teardown
  BY DEF LockOwner, Teardown
<1>3. HandlerOrder
  BY EmptySeq DEF HandlerOrder
<1>4. Registration
  BY DEF Registration, RegisteredOnce
<1>5. QED
  BY <1>1, <1>2, <1>3, <1>4 DEF IInv

-----------------------------------------------------------------------------
(* and every step keeps it                                                 *)

LEMMA AddFeedbackHandlerInv ==
  ASSUME IInv, NEW u \in Clients, AddFeedbackHandler(u)
  PROVE  IInv'
<1> USE GroupAssumption DEF IInv, AddFeedbackHandler, client, library, dispatch
<1>1. TypeOK'
  BY AppendFacts DEF TypeOK
<1>2. LockOwner'
  BY AppendFacts DEF TypeOK, LockOwner
<1>3. Teardown'
  BY DEF TypeOK, Teardown, LockOwner
<1>4. HandlerOrder'
  BY AppendFacts DEF TypeOK, HandlerOrder
<1>5. Registration'
  <2>1. /\ handlers' # <<>> /\ Len(handlers') = Len(handlers) + 1
        /\ Len(handlers) \in Nat /\ (handlers = <<>> <=> Len(handlers) = 0)
    <3>1. handlers \in Seq(1 .. MaxAdds) /\ added' \in 1 .. MaxAdds
      BY DEF TypeOK
    <3>2. QED
      BY <3>1, AppendFacts, EmptyIffNoLength, LenProperties
  <2>2. lock' \in Clients /\ \A v \in Clients : clientAt'[v] = "adding" <=> v = u
    BY DEF TypeOK, LockOwner
  <2>3. registered = IF handlers # <<>> /\ ~refused THEN 1 ELSE 0
    BY DEF Registration, RegisteredOnce
  <2>4. /\ Len(handlers') = 1 => registered = 0 /\ ~refused
        /\ Len(handlers') > 1 => registered = IF refused THEN 0 ELSE 1
    BY <2>1, <2>3 DEF Registration
  <2>5. \A v \in Clients : clientAt'[v] # "clearing"
    BY DEF TypeOK, LockOwner
  <2>6. QED
    BY <2>1, <2>2, <2>4, <2>5 DEF Registration, RegisteredOnce
<1>6. QED
  BY <1>1, <1>2, <1>3, <1>4, <1>5

LEMMA RegisterIfFirstInv ==
  ASSUME IInv, NEW u \in Clients, RegisterIfFirst(u)
  PROVE  IInv'
<1> USE GroupAssumption DEF IInv, RegisterIfFirst, client, library, dispatch
<1>1. TypeOK'
  <2>1. registered' \in 0 .. 1
    BY DEF TypeOK, FirstHandler, Registration
  <2>2. refused' \in BOOLEAN
    BY DEF TypeOK
  <2>3. QED
    BY <2>1, <2>2 DEF TypeOK
<1>2. LockOwner'
  BY DEF TypeOK, LockOwner
<1>3. Teardown'
  BY DEF TypeOK, Teardown, LockOwner
<1>4. HandlerOrder'
  BY DEF HandlerOrder
<1>5. Registration'
  <2>1. /\ handlers \in Seq(1 .. MaxAdds) /\ handlers # <<>>
        /\ Len(handlers) \in Nat \ {0} /\ Len(handlers) \in Nat /\ Len(handlers) # 0
    BY LenProperties, EmptyIffNoLength DEF TypeOK, Registration
  <2>2. \A v \in Clients : clientAt'[v] = "idle"
    BY DEF TypeOK, LockOwner
  <2>3. RegisteredOnce'
    <3>1. CASE FirstHandler
      BY <3>1, <2>1 DEF TypeOK, Registration, RegisteredOnce, FirstHandler
    <3>2. CASE ~FirstHandler
      <4>1. Len(handlers) > 1
        BY <3>2, <2>1, MoreThanOne, Zenon DEF FirstHandler
      <4>2. registered = IF refused THEN 0 ELSE 1
        BY <4>1, Zenon DEF Registration
      <4>3. QED
        BY <4>1, <4>2, <3>2, <2>1 DEF RegisteredOnce
    <3>3. QED
      BY <3>1, <3>2
  <2>4. QED
    BY <2>1, <2>2, <2>3 DEF Registration
<1>6. QED
  BY <1>1, <1>2, <1>3, <1>4, <1>5

LEMMA ClearFeedbackHandlersInv ==
  ASSUME IInv, NEW u \in Clients, ClearFeedbackHandlers(u)
  PROVE  IInv'
<1> USE GroupAssumption DEF IInv, ClearFeedbackHandlers, client, library, dispatch
<1>1. TypeOK'
  BY DEF TypeOK
<1>2. LockOwner'
  BY DEF TypeOK, LockOwner
<1>3. Teardown'
  BY DEF TypeOK, Teardown, LockOwner
<1>4. HandlerOrder'
  BY DEF HandlerOrder
<1>5. Registration'
  BY DEF TypeOK, LockOwner, Registration, RegisteredOnce
<1>6. QED
  BY <1>1, <1>2, <1>3, <1>4, <1>5

LEMMA ClearVectorInv ==
  ASSUME IInv, NEW u \in Clients, ClearVector(u)
  PROVE  IInv'
<1> USE GroupAssumption DEF IInv, ClearVector, client, library, dispatch
<1>1. TypeOK'
  <2>1. handlers' \in Seq(1 .. MaxAdds)
    BY EmptySeq
  <2>2. added \in Nat /\ added' = added /\ cleared' = added
    BY DEF TypeOK
  <2>3. cleared' \in 0 .. added'
    BY <2>2
  <2>4. due' \in [Feedback -> 0 .. MaxAdds]
    OBVIOUS
  <2>5. QED
    BY <2>1, <2>3, <2>4, Zenon DEF TypeOK
<1>2. LockOwner'
  <2>1. Len(handlers') = 0 /\ \A c \in Callbacks : ~(loop[c] > 0)
    BY EmptySeq DEF LockOwner
  <2>2. \A c \in Callbacks : running[c] = 0
    BY <2>1 DEF TypeOK, LockOwner
  <2>3. QED
    BY <2>1, <2>2 DEF TypeOK, LockOwner
<1>3. Teardown'
  BY DEF TypeOK, Teardown, LockOwner
<1>4. HandlerOrder'
  BY EmptySeq DEF HandlerOrder
<1>5. Registration'
  <2>1. registered' = 0 /\ handlers' = <<>> /\ ~refused'
    BY DEF Registration
  <2>2. \A v \in Clients : clientAt'[v] = "idle"
    BY DEF TypeOK, LockOwner
  <2>3. QED
    BY <2>1, <2>2 DEF Registration, RegisteredOnce
<1>6. QED
  BY <1>1, <1>2, <1>3, <1>4, <1>5

LEMMA CallAttachedHandlersInv ==
  ASSUME IInv, NEW c \in Callbacks, CallAttachedHandlers(c)
  PROVE  IInv'
<1> USE GroupAssumption DEF IInv, CallAttachedHandlers, client, library, dispatch
<1>1. TypeOK'
  BY DEF TypeOK
<1>2. LockOwner'
  BY DEF TypeOK, LockOwner
<1>3. Teardown'
  BY DEF TypeOK, Teardown, LockOwner
<1>4. HandlerOrder'
  BY DEF HandlerOrder
<1>5. Registration'
  BY DEF TypeOK, LockOwner, Registration, RegisteredOnce
<1>6. QED
  BY <1>1, <1>2, <1>3, <1>4, <1>5

LEMMA StartHandlerInv ==
  ASSUME IInv, NEW c \in Callbacks, StartHandler(c)
  PROVE  IInv'
<1> USE GroupAssumption DEF IInv, StartHandler, client, library, dispatch
<1>1. TypeOK'
  <2>1. loop[c] \in 1 .. Len(handlers) /\ handlers[loop[c]] \in 1 .. MaxAdds
    BY ElementOfSeq DEF TypeOK, LoopOver
  <2>2. fbk[c] \in Feedback \cup {None} /\ \A f \in Feedback : calls[f] \in Seq(1 .. MaxAdds)
    BY DEF TypeOK
  <2>3. calls' \in [Feedback -> Seq(1 .. MaxAdds)]
    BY <2>1, <2>2, AppendFacts DEF TypeOK
  <2>4. QED
    BY <2>1, <2>3 DEF TypeOK
<1>2. LockOwner'
  BY DEF TypeOK, LockOwner, LoopOver
<1>3. Teardown'
  BY DEF TypeOK, Teardown, LockOwner
<1>4. HandlerOrder'
  BY DEF HandlerOrder
<1>5. Registration'
  BY DEF TypeOK, LockOwner, Registration, RegisteredOnce
<1>6. QED
  BY <1>1, <1>2, <1>3, <1>4, <1>5

LEMMA EndHandlerInv ==
  ASSUME IInv, NEW c \in Callbacks, EndHandler(c)
  PROVE  IInv'
<1>0. running[c] # 0 /\ NextRound(c)
  BY DEF EndHandler, Caught
<1> USE <1>0, GroupAssumption DEF IInv, NextRound, client, library, dispatch
<1>1. TypeOK'
  BY DEF TypeOK, LockOwner
<1>2. LockOwner'
  BY DEF TypeOK, LockOwner
<1>3. Teardown'
  BY DEF TypeOK, Teardown, LockOwner
<1>4. HandlerOrder'
  BY DEF HandlerOrder
<1>5. Registration'
  BY DEF TypeOK, LockOwner, Registration, RegisteredOnce
<1>6. QED
  BY <1>1, <1>2, <1>3, <1>4, <1>5

LEMMA ReturnFromCallbackInv ==
  ASSUME IInv, NEW c \in Callbacks, ReturnFromCallback(c)
  PROVE  IInv'
<1> USE GroupAssumption DEF IInv, ReturnFromCallback, client, library, dispatch
<1>1. TypeOK'
  BY DEF TypeOK, Teardown, LockOwner
<1>2. LockOwner'
  BY DEF TypeOK, LockOwner, LoopOver
<1>3. Teardown'
  BY DEF TypeOK, Teardown, LockOwner
<1>4. HandlerOrder'
  BY DEF HandlerOrder
<1>5. Registration'
  BY DEF TypeOK, LockOwner, Registration, RegisteredOnce
<1>6. QED
  BY <1>1, <1>2, <1>3, <1>4, <1>5

LEMMA FeedbackArrivesInv ==
  ASSUME IInv, NEW c \in Callbacks, NEW f \in Feedback, FeedbackArrives(c, f)
  PROVE  IInv'
<1> USE GroupAssumption DEF IInv, FeedbackArrives, client, dispatch
<1>1. TypeOK'
  BY DEF TypeOK
<1>2. LockOwner'
  BY DEF TypeOK, LockOwner
<1>3. Teardown'
  BY DEF TypeOK, Teardown, LockOwner
<1>4. HandlerOrder' /\ Registration'
  BY DEF HandlerOrder, Registration, RegisteredOnce
<1>5. QED
  BY <1>1, <1>2, <1>3, <1>4

\* The two steps of the destructor, and stuttering.
LEMMA DestroyInv ==
  ASSUME IInv, BeginDestroy \/ FinishDestroy \/ UNCHANGED vars
  PROVE  IInv'
<1> USE GroupAssumption DEF IInv, client, library, dispatch
<1>1. CASE BeginDestroy
  BY <1>1 DEF BeginDestroy, TypeOK, LockOwner, Teardown, HandlerOrder,
     Registration, RegisteredOnce
<1>2. CASE FinishDestroy
  BY <1>2 DEF FinishDestroy, NoCallPending, TypeOK, LockOwner, Teardown, HandlerOrder,
     Registration, RegisteredOnce
<1>3. CASE UNCHANGED vars
  BY <1>3 DEF vars, TypeOK, LockOwner, Teardown, HandlerOrder, Registration,
     RegisteredOnce
<1>4. QED
  BY <1>1, <1>2, <1>3

LEMMA NextInv == IInv /\ [Next]_vars => IInv'
<1> SUFFICES ASSUME IInv, [Next]_vars PROVE IInv'
  OBVIOUS
<1>1. ASSUME NEW u \in Clients, Client(u) PROVE IInv'
  BY <1>1, AddFeedbackHandlerInv, RegisterIfFirstInv, ClearFeedbackHandlersInv,
     ClearVectorInv DEF Client
<1>2. ASSUME NEW c \in Callbacks, Callback(c) PROVE IInv'
  BY <1>2, CallAttachedHandlersInv, StartHandlerInv, EndHandlerInv,
     ReturnFromCallbackInv DEF Callback
<1>3. ASSUME NEW c \in Callbacks, NEW f \in Feedback, FeedbackArrives(c, f)
      PROVE  IInv'
  BY <1>3, FeedbackArrivesInv
<1>4. CASE BeginDestroy \/ FinishDestroy \/ UNCHANGED vars
  BY <1>4, DestroyInv
<1>5. QED
  BY <1>1, <1>2, <1>3, <1>4 DEF Next, Terminated

LEMMA Invariance == Spec => []IInv
BY InitInv, NextInv, PTL DEF Spec

-----------------------------------------------------------------------------
(* What follows                                                            *)

\* Every variable keeps its type; the library holds at most one registration
\* of the group, and a thread owes at most one call per packet.
THEOREM TypeCorrect == Spec => []TypeOK
BY Invariance, PTL DEF IInv

\* Outside add and clear, the library knows the group if and only if it has
\* handlers and no registration was refused.
THEOREM RegistrationCorrect == Spec => []RegisteredOnce
<1>1. IInv => RegisteredOnce
  BY DEF IInv, Registration
<1>2. QED
  BY <1>1, Invariance, PTL

\* No handler attached before a finished clear is running.
THEOREM ClearIsFinal == Spec => []NoCallAfterClear
<1>1. IInv => NoCallAfterClear
  BY DEF IInv, TypeOK, LockOwner, HandlerOrder, NoCallAfterClear
<1>2. QED
  BY <1>1, Invariance, PTL

\* No step changes the vector under a loop that indexes it.
THEOREM ListStable == Spec => ListStableDuringDispatch
<1>1. IInv /\ [Next]_vars
        => [\A c \in Callbacks : loop[c] > 0 => handlers' = handlers]_vars
  <2> SUFFICES ASSUME IInv, [Next]_vars, NEW c \in Callbacks, loop[c] > 0
               PROVE  handlers' = handlers
    OBVIOUS
  <2>1. lock = c /\ lock # None /\ lock \notin Clients
    BY GroupAssumption DEF IInv, LockOwner
  <2>2. \A u \in Clients : clientAt[u] = "idle"
    BY <2>1 DEF IInv, LockOwner
  <2>3. QED
    BY <2>1, <2>2 DEF Next, Client, AddFeedbackHandler, RegisterIfFirst,
       ClearFeedbackHandlers, ClearVector, Callback, CallAttachedHandlers,
       StartHandler, EndHandler, NextRound, Caught, ReturnFromCallback,
       FeedbackArrives,
       BeginDestroy, FinishDestroy, Terminated, vars
<1>2. QED
  BY <1>1, Invariance, PTL DEF Spec, ListStableDuringDispatch

\* Where relocking an owned mutex blocks, a handler that calls back into its
\* own group keeps the lock for good.
THEOREM ReentryKeepsLock ==
  ASSUME ~RelockThrows
  PROVE  Spec => ReentryBlocks
<1>1. IInv /\ [Next]_vars
        => [\A c \in Callbacks : running[c] \in Reentrant => lock' = c]_vars
  <2> SUFFICES ASSUME IInv, [Next]_vars, NEW c \in Callbacks,
                      running[c] \in Reentrant, ~UNCHANGED vars
               PROVE  lock' = c
    OBVIOUS
  <2>1. running[c] # 0 /\ loop[c] > 0
    BY GroupAssumption DEF IInv, LockOwner
  <2>2. lock = c /\ lock # None /\ lock \notin Clients
    BY <2>1, GroupAssumption DEF IInv, LockOwner
  <2>3. /\ \A u \in Clients : clientAt[u] = "idle"
        /\ \A d \in Callbacks : d # c => ~(loop[d] > 0)
    BY <2>2 DEF IInv, LockOwner
  <2>4. ASSUME NEW d \in Callbacks, ReturnFromCallback(d) PROVE FALSE
    BY <2>4, <2>1, <2>3 DEF ReturnFromCallback
  <2>5. QED
    BY <2>2, <2>3, <2>4 DEF Next, Client, AddFeedbackHandler, RegisterIfFirst,
       ClearFeedbackHandlers, ClearVector, Callback, CallAttachedHandlers,
       StartHandler, EndHandler, NextRound, Caught, FeedbackArrives,
       BeginDestroy, FinishDestroy, Terminated, vars
<1>2. QED
  BY <1>1, Invariance, PTL DEF Spec, ReentryBlocks
=============================================================================
