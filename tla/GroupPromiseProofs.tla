-------------------------- MODULE GroupPromiseProofs --------------------------
(***************************************************************************)
(* Group implements FeedbackDispatch: a feedback reaches, once and in      *)
(* order, exactly the handlers attached when its dispatch took the lock.   *)
(***************************************************************************)
EXTENDS GroupProofs

-----------------------------------------------------------------------------
(* Who has which packet, and how far its dispatch has come                 *)

\* The handlers that the loop of thread c has already called.
Passed(c) == IF running[c] = 0 THEN loop[c] - 1 ELSE loop[c]

\* A packet that is owed to a thread has arrived, and is with no other thread.
OneOwner ==
  /\ \A c \in Callbacks : pending[c] > 0 => fbk[c] \in Feedback \cap arrived
  /\ \A c, d \in Callbacks :
       c # d /\ pending[c] > 0 /\ pending[d] > 0 => fbk[c] # fbk[d]

\* A packet was given to no handler before its dispatch has the lock, and to
\* those its loop has passed from then on.
Progress ==
  /\ \A f \in Feedback \ arrived : calls[f] = <<>>
  /\ \A c \in Callbacks : pending[c] > 0 /\ loop[c] = 0 => calls[fbk[c]] = <<>>
  /\ \A c \in Callbacks : loop[c] > 0 =>
       /\ Len(calls[fbk[c]]) = Passed(c)
       /\ \A i \in 1 .. Passed(c) : calls[fbk[c]][i] = handlers[i]

DInv == OneOwner /\ Progress

-----------------------------------------------------------------------------

LEMMA InitDInv == Init => DInv
BY DEF Init, DInv, OneOwner, Progress

LEMMA AddDInv ==
  ASSUME IInv, DInv, NEW u \in Clients, AddFeedbackHandler(u)
  PROVE  DInv'
BY GroupAssumption DEF IInv, DInv, TypeOK, LockOwner, OneOwner, Progress,
   Passed, AddFeedbackHandler, library, dispatch

LEMMA ClearVectorDInv ==
  ASSUME IInv, DInv, NEW u \in Clients, ClearVector(u)
  PROVE  DInv'
<1>1. lock = u /\ u \notin Callbacks
  BY GroupAssumption DEF IInv, LockOwner, ClearVector
<1>2. \A c \in Callbacks : ~(loop[c] > 0)
  BY <1>1 DEF IInv, LockOwner
<1>3. QED
  BY <1>2 DEF DInv, OneOwner, Progress, ClearVector, library, dispatch

\* The steps that touch neither the list nor a dispatch.
LEMMA OtherDInv ==
  ASSUME DInv, UNCHANGED <<handlers, library, dispatch>>
  PROVE  DInv'
BY DEF DInv, OneOwner, Progress, Passed, library, dispatch

LEMMA ArrivesDInv ==
  ASSUME IInv, DInv, NEW c \in Callbacks, NEW f \in Feedback, FeedbackArrives(c, f)
  PROVE  DInv'
<1> USE DEF FeedbackArrives, dispatch
<1>1. \A d \in Callbacks : d # c => pending'[d] = pending[d] /\ fbk'[d] = fbk[d]
  BY DEF IInv, TypeOK
<1>2. pending'[c] > 0 => fbk'[c] = f
  BY DEF IInv, TypeOK
<1>3. \A d \in Callbacks : loop[d] > 0 => d # c /\ pending[d] > 0
  BY DEF IInv, TypeOK, Teardown
<1>4. OneOwner'
  BY <1>1, <1>2 DEF DInv, OneOwner
<1>5. Progress'
  BY <1>1, <1>2, <1>3 DEF DInv, Progress, Passed, OneOwner
<1>6. QED
  BY <1>4, <1>5 DEF DInv

LEMMA CallDInv ==
  ASSUME IInv, DInv, NEW c \in Callbacks, CallAttachedHandlers(c)
  PROVE  DInv'
<1> USE DEF CallAttachedHandlers, library
<1>1. OneOwner'
  BY DEF DInv, OneOwner
<1>2. running[c] = 0 /\ Passed(c)' = 0 /\ Len(calls[fbk[c]]) = 0
  BY DEF IInv, TypeOK, LockOwner, Passed, DInv, Progress
<1>3. \A d \in Callbacks : d # c => loop'[d] = loop[d] /\ ~(loop[d] > 0)
  BY GroupAssumption DEF IInv, TypeOK, LockOwner
<1>4. Progress'
  BY <1>2, <1>3 DEF DInv, Progress, IInv, TypeOK
<1>5. QED
  BY <1>1, <1>4 DEF DInv

LEMMA StartDInv ==
  ASSUME IInv, DInv, NEW c \in Callbacks, StartHandler(c)
  PROVE  DInv'
<1> USE DEF StartHandler, library
<1> DEFINE h == handlers[loop[c]]
           s == calls[fbk[c]]
<1>1. /\ loop[c] \in 1 .. Len(handlers) /\ h \in 1 .. MaxAdds /\ h # 0
      /\ pending[c] > 0 /\ fbk[c] \in Feedback \cap arrived /\ lock = c
      /\ s \in Seq(1 .. MaxAdds)
  <2>1. loop[c] \in 1 .. Len(handlers)
    BY LenProperties DEF IInv, TypeOK, LoopOver
  <2>2. h \in 1 .. MaxAdds /\ h # 0
    <3>1. handlers \in Seq(1 .. MaxAdds)
      BY DEF IInv, TypeOK
    <3>2. h \in 1 .. MaxAdds
      BY <2>1, <3>1, ElementOfSeq
    <3>3. QED
      BY <3>2
  <2>3. pending[c] > 0 /\ lock = c
    BY <2>1 DEF IInv, Teardown, LockOwner
  <2>4. fbk[c] \in Feedback \cap arrived
    BY <2>3 DEF DInv, OneOwner
  <2>5. s \in Seq(1 .. MaxAdds)
    BY <2>4 DEF IInv, TypeOK
  <2>6. QED
    BY <2>1, <2>2, <2>3, <2>4, <2>5
<1>2. /\ calls'[fbk[c]] = Append(s, h)
      /\ \A f \in Feedback : f # fbk[c] => calls'[f] = calls[f]
      /\ running'[c] = h
  BY <1>1 DEF IInv, TypeOK
<1>3. /\ \A d \in Callbacks : d # c => ~(loop[d] > 0)
      /\ \A d \in Callbacks : d # c /\ pending[d] > 0 =>
           fbk[d] \in Feedback /\ fbk[d] # fbk[c]
  BY <1>1 DEF IInv, LockOwner, DInv, OneOwner
<1>4. Len(s) = loop[c] - 1 /\ \A i \in 1 .. loop[c] - 1 : s[i] = handlers[i]
  BY <1>1 DEF DInv, Progress, Passed
<1>5. /\ Len(Append(s, h)) = loop[c]
      /\ \A i \in 1 .. loop[c] : Append(s, h)[i] = handlers[i]
  BY <1>1, <1>4, AppendFacts
<1>6. Passed(c)' = loop[c] /\ loop[c] > 0
  BY <1>1, <1>2 DEF Passed
<1>7. OneOwner'
  BY DEF DInv, OneOwner
<1>8. Progress'
  BY <1>1, <1>2, <1>3, <1>5, <1>6 DEF DInv, Progress
<1>9. QED
  BY <1>7, <1>8 DEF DInv

LEMMA EndDInv ==
  ASSUME IInv, DInv, NEW c \in Callbacks, EndHandler(c)
  PROVE  DInv'
<1> USE DEF EndHandler, NextRound, Caught, library
<1>1. Passed(c)' = Passed(c) /\ loop[c] > 0 /\ loop'[c] > 0
  BY DEF IInv, TypeOK, LockOwner, Passed
<1>2. \A d \in Callbacks : d # c => loop'[d] = loop[d] /\ running'[d] = running[d]
  BY DEF IInv, TypeOK
<1>3. \A d \in Callbacks : Passed(d)' = Passed(d) /\ (loop'[d] > 0 <=> loop[d] > 0)
  BY <1>1, <1>2 DEF Passed
<1>4. OneOwner' /\ \A d \in Callbacks : loop'[d] = 0 => loop[d] = 0
  BY <1>1, <1>2 DEF DInv, OneOwner
<1>5. QED
  BY <1>3, <1>4 DEF DInv, Progress

LEMMA ReturnDInv ==
  ASSUME IInv, DInv, NEW c \in Callbacks, ReturnFromCallback(c)
  PROVE  DInv'
<1> USE DEF ReturnFromCallback
<1>1. pending'[c] = 0 /\ loop'[c] = 0
  BY DEF IInv, TypeOK, Teardown
<1>2. \A d \in Callbacks : d # c =>
        pending'[d] = pending[d] /\ fbk'[d] = fbk[d] /\ loop'[d] = loop[d]
  BY DEF IInv, TypeOK
<1>3. OneOwner'
  BY <1>1, <1>2 DEF DInv, OneOwner
<1>4. Progress'
  BY <1>1, <1>2 DEF DInv, Progress, Passed
<1>5. QED
  BY <1>3, <1>4 DEF DInv

LEMMA NextDInv == IInv /\ DInv /\ [Next]_vars => DInv'
<1> SUFFICES ASSUME IInv, DInv, [Next]_vars PROVE DInv'
  OBVIOUS
<1>1. ASSUME NEW u \in Clients, Client(u) PROVE DInv'
  BY <1>1, AddDInv, ClearVectorDInv, OtherDInv
     DEF Client, RegisterIfFirst, ClearFeedbackHandlers
<1>2. ASSUME NEW c \in Callbacks, Callback(c) PROVE DInv'
  BY <1>2, CallDInv, StartDInv, EndDInv, ReturnDInv DEF Callback
<1>3. ASSUME NEW c \in Callbacks, NEW f \in Feedback, FeedbackArrives(c, f)
      PROVE  DInv'
  BY <1>3, ArrivesDInv
<1>4. CASE BeginDestroy \/ FinishDestroy \/ UNCHANGED vars
  BY <1>4, OtherDInv DEF BeginDestroy, FinishDestroy, vars
<1>5. QED
  BY <1>1, <1>2, <1>3, <1>4 DEF Next, Terminated

\* A packet is given to the handlers in the order of their attachment, and so
\* never twice to one.
LEMMA StartInOrder ==
  ASSUME IInv, DInv, CalledOnceInOrder, NEW c \in Callbacks, StartHandler(c)
  PROVE  CalledOnceInOrder'
<1>1. DInv'
  BY StartDInv
<1>2. PICK f \in Feedback : f = fbk[c] /\ \A g \in Feedback : g # f => calls'[g] = calls[g]
  BY DEF IInv, TypeOK, Teardown, LoopOver, DInv, OneOwner, StartHandler
<1>3. \A i \in 1 .. Len(calls'[f]) : i \in 1 .. Len(handlers) /\ calls'[f][i] = handlers[i]
  <2>1. loop[c] > 0 /\ loop[c] <= Len(handlers) /\ loop[c] \in Nat /\ Len(handlers) \in Nat
    BY LenProperties DEF IInv, TypeOK, LoopOver, StartHandler
  <2>2. Passed(c)' \in 0 .. Len(handlers)
    BY <2>1 DEF Passed, StartHandler
  <2>3. /\ Len(calls'[f]) = Passed(c)'
        /\ \A i \in 1 .. Passed(c)' : calls'[f][i] = handlers[i]
    BY <1>1, <1>2, <2>1 DEF DInv, Progress, StartHandler, library
  <2>4. QED
    BY <2>2, <2>3
<1>4. \A i, j \in 1 .. Len(calls'[f]) : i < j => calls'[f][i] < calls'[f][j]
  BY <1>3 DEF IInv, HandlerOrder
<1>5. QED
  BY <1>2, <1>4 DEF CalledOnceInOrder

\* Only StartHandler calls a handler.
LEMMA NextInOrder ==
  IInv /\ DInv /\ CalledOnceInOrder /\ [Next]_vars => CalledOnceInOrder'
<1> SUFFICES ASSUME IInv, DInv, CalledOnceInOrder, [Next]_vars
             PROVE  CalledOnceInOrder'
  OBVIOUS
<1>1. CASE \E c \in Callbacks : StartHandler(c)
  BY <1>1, StartInOrder
<1>2. CASE UNCHANGED calls
  BY <1>2 DEF CalledOnceInOrder
<1>3. QED
  BY <1>1, <1>2 DEF Next, Client, AddFeedbackHandler, RegisterIfFirst,
     ClearFeedbackHandlers, ClearVector, Callback, CallAttachedHandlers,
     EndHandler, NextRound, Caught, ReturnFromCallback, FeedbackArrives, BeginDestroy,
     FinishDestroy, Terminated, vars, dispatch

LEMMA DInvariance == Spec => [](IInv /\ DInv)
BY InitInv, NextInv, InitDInv, NextDInv, PTL DEF Spec

\* No feedback reaches a handler twice, and the handlers that get it are
\* called in the order they were added.
THEOREM OnceInOrder == Spec => []CalledOnceInOrder
<1>1. Init => CalledOnceInOrder
  BY EmptySeq DEF Init, CalledOnceInOrder
<1>2. QED
  BY <1>1, DInvariance, NextInOrder, PTL DEF Spec

-----------------------------------------------------------------------------
(* The refinement                                                          *)

Delivered == [f \in Feedback |-> IF Dispatching(f) THEN handlers ELSE calls[f]]

LEMMA InitRefines == Init => Promise!Init
BY DEF Init, Promise!Init, Dispatching

\* Adding a handler is Attach: nobody is dispatching.
LEMMA AddRefines ==
  ASSUME IInv, NEW u \in Clients, AddFeedbackHandler(u)
  PROVE  Promise!Attach
<1>1. \A c \in Callbacks : ~(loop[c] > 0)
  BY GroupAssumption DEF IInv, LockOwner, AddFeedbackHandler
<1>2. Delivered' = Delivered
  BY <1>1 DEF Delivered, Dispatching, AddFeedbackHandler, library, dispatch
<1>3. QED
  BY <1>2 DEF Delivered, Promise!Attach, AddFeedbackHandler

\* Emptying the vector is DetachAll: nobody is dispatching either.
LEMMA ClearRefines ==
  ASSUME IInv, NEW u \in Clients, ClearVector(u)
  PROVE  Promise!DetachAll
<1>1. \A c \in Callbacks : ~(loop[c] > 0)
  BY GroupAssumption DEF IInv, LockOwner, ClearVector
<1>2. Delivered' = Delivered
  BY <1>1 DEF Delivered, Dispatching, ClearVector, library, dispatch
<1>3. QED
  BY <1>2 DEF Delivered, Promise!DetachAll, ClearVector

\* Taking the lock is Notify: from here on the packet's handlers are settled.
LEMMA CallRefines ==
  ASSUME IInv, DInv, NEW c \in Callbacks, CallAttachedHandlers(c)
  PROVE  Promise!Notify(fbk[c])
<1> USE DEF CallAttachedHandlers, library
<1>1. /\ \A d \in Callbacks : ~(loop[d] > 0)
      /\ \A d \in Callbacks : loop'[d] > 0 <=> d = c
  BY GroupAssumption DEF IInv, TypeOK, LockOwner
<1>2. fbk[c] \in Feedback /\ calls[fbk[c]] = <<>>
  BY DEF DInv, OneOwner, Progress
<1>3. /\ \A f \in Feedback : ~Dispatching(f)
      /\ \A f \in Feedback : Dispatching(f)' <=> f = fbk[c]
  BY <1>1 DEF Dispatching
<1>4. Delivered = [f \in Feedback |-> calls[f]] /\ Delivered[fbk[c]] = <<>>
  BY <1>2, <1>3 DEF Delivered
<1>5. Delivered' = [Delivered EXCEPT ![fbk[c]] = handlers]
  BY <1>2, <1>3, <1>4 DEF Delivered
<1>6. UNCHANGED <<handlers, added>>
  BY DEF client
<1>7. QED
  BY <1>4, <1>5, <1>6, Zenon DEF Delivered, Promise!Notify

\* Giving up the lock is a stutter: the whole list was called.
LEMMA ReturnRefines ==
  ASSUME IInv, DInv, NEW c \in Callbacks, ReturnFromCallback(c)
  PROVE  Delivered' = Delivered /\ UNCHANGED <<handlers, added>>
<1> USE DEF ReturnFromCallback, client
<1>1. /\ loop[c] = Len(handlers) + 1 /\ running[c] = 0 /\ pending[c] > 0
      /\ handlers \in Seq(1 .. MaxAdds) /\ Len(handlers) \in Nat
  BY LenProperties DEF IInv, TypeOK, LockOwner, Teardown, LoopOver
<1>2. fbk[c] \in Feedback /\ calls[fbk[c]] \in Seq(1 .. MaxAdds)
  BY <1>1 DEF DInv, OneOwner, IInv, TypeOK
<1>3. /\ Len(calls[fbk[c]]) = Len(handlers)
      /\ \A i \in 1 .. Len(handlers) : calls[fbk[c]][i] = handlers[i]
  BY <1>1 DEF DInv, Progress, Passed
<1>4. calls[fbk[c]] = handlers
  BY <1>1, <1>2, <1>3, SeqEqual
<1>5. \A d \in Callbacks : d # c => ~(loop[d] > 0)
  BY DEF IInv, LockOwner
<1>6. \A d \in Callbacks : ~(loop'[d] > 0)
  BY <1>5 DEF IInv, TypeOK
<1>7. \A f \in Feedback : Dispatching(f) => calls[f] = handlers
  BY <1>4, <1>5 DEF Dispatching
<1>8. \A f \in Feedback : ~Dispatching(f)'
  BY <1>6 DEF Dispatching
<1>9. QED
  BY <1>7, <1>8 DEF Delivered

\* Between the two, calling and leaving a handler is a stutter, too.
LEMMA HandlerRefines ==
  ASSUME IInv, DInv, NEW c \in Callbacks, StartHandler(c) \/ EndHandler(c)
  PROVE  Delivered' = Delivered /\ UNCHANGED <<handlers, added>>
<1> USE DEF StartHandler, EndHandler, NextRound, Caught, client, library
<1>1. loop[c] > 0 /\ loop'[c] > 0 /\ fbk' = fbk
  BY DEF IInv, TypeOK, LockOwner
<1>2. \A d \in Callbacks : loop'[d] > 0 <=> loop[d] > 0
  BY <1>1 DEF IInv, TypeOK
<1>3. \A f \in Feedback : Dispatching(f)' <=> Dispatching(f)
  BY <1>1, <1>2 DEF Dispatching
<1>4. \A f \in Feedback : ~Dispatching(f) => calls'[f] = calls[f]
  BY <1>1 DEF Dispatching, IInv, TypeOK
<1>5. QED
  BY <1>3, <1>4 DEF Delivered

\* A packet that arrives is not yet being dispatched.
LEMMA ArrivesRefines ==
  ASSUME IInv, NEW c \in Callbacks, NEW f \in Feedback, FeedbackArrives(c, f)
  PROVE  Delivered' = Delivered /\ UNCHANGED <<handlers, added>>
<1> USE DEF FeedbackArrives, client, dispatch
<1>1. \A d \in Callbacks : loop[d] > 0 => fbk'[d] = fbk[d]
  BY DEF IInv, TypeOK, Teardown
<1>2. \A g \in Feedback : Dispatching(g)' <=> Dispatching(g)
  BY <1>1 DEF Dispatching
<1>3. QED
  BY <1>2 DEF Delivered

LEMMA StepRefines ==
  ASSUME IInv, DInv, [Next]_vars
  PROVE  \/ Promise!Next
         \/ Delivered' = Delivered /\ UNCHANGED <<handlers, added>>
<1>1. ASSUME NEW u \in Clients, AddFeedbackHandler(u) PROVE Promise!Next
  BY <1>1, AddRefines DEF Promise!Next
<1>2. ASSUME NEW u \in Clients, ClearVector(u) PROVE Promise!Next
  BY <1>2, ClearRefines DEF Promise!Next
<1>3. ASSUME NEW c \in Callbacks, CallAttachedHandlers(c) PROVE Promise!Next
  <2>1. fbk[c] \in Feedback
    BY <1>3 DEF DInv, OneOwner, CallAttachedHandlers
  <2>2. QED
    BY <1>3, <2>1, CallRefines, Zenon DEF Promise!Next, Promise!Notify
<1>4. ASSUME NEW u \in Clients, RegisterIfFirst(u) \/ ClearFeedbackHandlers(u)
      PROVE  Delivered' = Delivered /\ UNCHANGED <<handlers, added>>
  BY <1>4 DEF RegisterIfFirst, ClearFeedbackHandlers, Delivered, Dispatching,
     library, dispatch
<1>5. CASE BeginDestroy \/ FinishDestroy \/ UNCHANGED vars
  BY <1>5 DEF BeginDestroy, FinishDestroy, vars, Delivered, Dispatching,
     client, library, dispatch
<1>6. QED
  BY <1>1, <1>2, <1>3, <1>4, <1>5, HandlerRefines, ReturnRefines,
     ArrivesRefines DEF Next, Client, Callback, Terminated

\* Every behaviour of the group, seen through its list and its deliveries, is
\* one of FeedbackDispatch.
THEOREM GroupImplementsPromise == Spec => ImplementsPromise
<1>1. IInv /\ DInv /\ [Next]_vars => [Promise!Next]_(Promise!vars)
  BY StepRefines DEF Promise!vars, Delivered
<1>2. QED
  BY <1>1, InitRefines, DInvariance, PTL DEF Spec, ImplementsPromise, Promise!Spec
=============================================================================
