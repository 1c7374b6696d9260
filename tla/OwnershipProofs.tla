---------------------------- MODULE OwnershipProofs ----------------------------
(***************************************************************************)
(* Ownership keeps its invariants, for any places and objects.  The        *)
(* inductive invariant adds to them what each C++ object holds: an object  *)
(* of its own class, which it owns, or one that was lent, which it does    *)
(* not; that only classes with a copy constructor were copied; and that    *)
(* nothing is released before it is created.                               *)
(***************************************************************************)
EXTENDS Ownership, TLAPS

HoldersMatch ==
  \A p \in Places : ~Free(p) =>
    \/ /\ place[p].obj \in Objects /\ place[p].owns
       /\ place[p].class = class[place[p].obj]
    \/ /\ place[p].obj \in Lent /\ ~place[p].owns
       /\ place[p].class = "GroupFeedback"

CopiedCanBe == \A o \in copied \cap Objects :
  class[o] \in {"GroupFeedback", "GroupCommand", "Lookup"}

NothingBeforeCreation == \A o \in Objects : class[o] = None => released[o] = 0

IInv ==
  /\ OwnershipTypeOK /\ HoldersMatch /\ CopiedCanBe /\ NothingBeforeCreation
  /\ OnlyCopiesDangle /\ NoLeak /\ LentNeverReleased

USE OwnershipAssumption DEF OwnershipAssumption

LEMMA InitEstablishes == Init => IInv
  BY DEF Init, IInv, OwnershipTypeOK, HoldersMatch, CopiedCanBe,
         NothingBeforeCreation, OnlyCopiesDangle, NoLeak,
         LentNeverReleased, Free, Holds, Owns, Classes, Holders

-----------------------------------------------------------------------------
(* One lemma for each action.                                              *)

LEMMA CreateKeeps ==
  ASSUME IInv, NEW p \in Places, NEW o \in Objects, NEW k \in Classes,
         Create(p, o, k)
  PROVE  IInv'
<1> DEFINE new == [class |-> k, obj |-> o, owns |-> TRUE]
<1> USE DEF IInv
<1>1. /\ place[p] = None /\ class[o] = None /\ released[o] = 0
      /\ \A q \in Places : ~Holds(q, o)
      /\ o \notin copied
  BY DEF Create, Free, NothingBeforeCreation, HoldersMatch, Holds, Classes,
         CopiedCanBe, OwnershipTypeOK, Holders
<1>2. /\ place' = [place EXCEPT ![p] = new] /\ new \in Holders
      /\ class' = [class EXCEPT ![o] = k] /\ k # None
      /\ UNCHANGED <<released, callback, copied, overwritten>>
  BY DEF Create, CreatedIsManaged, Holders
<1> HIDE DEF new
<1>3. new.obj = o /\ new.owns = TRUE /\ new.class = k /\ new # None
  BY <1>2 DEF new
<1>4. OwnershipTypeOK'
  BY <1>1, <1>2, <1>3 DEF OwnershipTypeOK, Holds, Free
<1>5. HoldersMatch'
  BY <1>1, <1>2, <1>3 DEF OwnershipTypeOK, HoldersMatch, Holds, Free
<1>6. CopiedCanBe' /\ NothingBeforeCreation' /\ LentNeverReleased'
  BY <1>1, <1>2 DEF OwnershipTypeOK, CopiedCanBe, NothingBeforeCreation,
                    LentNeverReleased
<1>7. OnlyCopiesDangle'
  BY <1>1, <1>2, <1>3 DEF OwnershipTypeOK, OnlyCopiesDangle, Holds, Free
<1>8. NoLeak'
  BY <1>1, <1>2, <1>3 DEF OwnershipTypeOK, NoLeak, Owns, Holds, Free
<1> QED BY <1>4, <1>5, <1>6, <1>7, <1>8

LEMMA StartCallbackKeeps ==
  ASSUME IInv, NEW p \in Places, NEW v \in Lent, StartCallback(p, v)
  PROVE  IInv'
<1> DEFINE new == [class |-> "GroupFeedback", obj |-> v, owns |-> FALSE]
<1> USE DEF IInv
<1>1. /\ place[p] = None /\ place' = [place EXCEPT ![p] = new]
      /\ callback[v] = None /\ new \in Holders
      /\ callback' = [callback EXCEPT ![v] = p]
      /\ UNCHANGED <<class, released, copied, overwritten>>
  BY DEF StartCallback, ViewIsManaged, Holders, Classes, Free
<1> HIDE DEF new
<1>2. /\ new.obj = v /\ new.owns = FALSE
      /\ new.class = "GroupFeedback" /\ new # None
  BY <1>1 DEF new
<1>3. OwnershipTypeOK'
  BY <1>1, <1>2 DEF OwnershipTypeOK, Holds, Free
<1>4. HoldersMatch'
  BY <1>1, <1>2 DEF OwnershipTypeOK, HoldersMatch, Free
<1>5. CopiedCanBe' /\ NothingBeforeCreation' /\ LentNeverReleased'
  BY <1>1 DEF CopiedCanBe, NothingBeforeCreation, LentNeverReleased
<1>6. \A q \in Places, o \in Objects : Holds(q, o)' <=> Holds(q, o)
  BY <1>1, <1>2 DEF OwnershipTypeOK, Holds, Free
<1>7. OnlyCopiesDangle'
  <2>1. \A q \in Places, w \in Lent : Holds(q, w)' =>
          \/ Holds(q, w) /\ q # p
          \/ q = p /\ w = v
    BY <1>1, <1>2 DEF OwnershipTypeOK, Holds, Free
  <2>2. \A q \in Places : Holds(q, v) => v \in copied
    BY <1>1 DEF OnlyCopiesDangle, OwnershipTypeOK
  <2>3. \A w \in Lent : callback'[w] = IF w = v THEN p ELSE callback[w]
    BY <1>1 DEF OwnershipTypeOK
  <2> QED BY <1>1, <1>6, <2>1, <2>2, <2>3 DEF OnlyCopiesDangle
<1>8. NoLeak'
  BY <1>1, <1>2 DEF OwnershipTypeOK, NoLeak, Owns, Holds, Free
<1> QED BY <1>3, <1>4, <1>5, <1>7, <1>8

LEMMA CopyKeeps ==
  ASSUME IInv, NEW p \in Places, NEW q \in Places, Copy(p, q)
  PROVE  IInv'
<1> USE DEF IInv
<1>1. /\ place[p] = None /\ place[q] # None /\ Copyable(place[q].class)
      /\ place' = [place EXCEPT ![p] = place[q]]
      /\ copied' = copied \cup {place[q].obj}
      /\ UNCHANGED <<class, released, callback, overwritten>>
  BY DEF Copy, Free
<1>2. place[q] \in Holders /\ place[q].obj \in Objects \cup Lent
  BY <1>1 DEF OwnershipTypeOK, Holders
<1>3. OwnershipTypeOK'
  BY <1>1, <1>2 DEF OwnershipTypeOK, Holds, Free
<1>4. HoldersMatch'
  BY <1>1, <1>2 DEF OwnershipTypeOK, HoldersMatch, Free
<1>5. CopiedCanBe'
  BY <1>1, <1>2 DEF CopiedCanBe, HoldersMatch, Copyable, Free
<1>6. NothingBeforeCreation' /\ LentNeverReleased'
  BY <1>1 DEF NothingBeforeCreation, LentNeverReleased
<1>7. OnlyCopiesDangle'
  BY <1>1, <1>2 DEF OwnershipTypeOK, OnlyCopiesDangle, Holds, Free
<1>8. NoLeak'
  BY <1>1, <1>2 DEF OwnershipTypeOK, NoLeak, Owns, Holds, Free
<1> QED BY <1>3, <1>4, <1>5, <1>6, <1>7, <1>8

LEMMA AssignKeeps ==
  ASSUME IInv, NEW p \in Places, NEW q \in Places, Assign(p, q)
  PROVE  IInv'
<1> USE DEF IInv
<1>1. /\ place[p] # None /\ place[q] # None /\ p # q
      /\ place[p].class = "Lookup" /\ place[q].class = "Lookup"
      /\ place' = [place EXCEPT ![p] = place[q]]
      /\ copied' = copied \cup {place[q].obj}
      /\ overwritten' = overwritten \cup {place[p].obj}
      /\ UNCHANGED <<class, released, callback>>
  BY DEF Assign, Assignable, Free
<1>2. /\ place[p] \in Holders /\ place[q] \in Holders
      /\ place[p].obj \in Objects /\ place[q].obj \in Objects
  BY <1>1 DEF OwnershipTypeOK, Holders, HoldersMatch, Free
<1>3. OwnershipTypeOK'
  BY <1>1, <1>2 DEF OwnershipTypeOK, Holds, Free
<1>4. HoldersMatch'
  BY <1>1, <1>2 DEF OwnershipTypeOK, HoldersMatch, Free
<1>5. CopiedCanBe'
  BY <1>1, <1>2 DEF CopiedCanBe, HoldersMatch, Free
<1>6. NothingBeforeCreation' /\ LentNeverReleased'
  BY <1>1 DEF NothingBeforeCreation, LentNeverReleased
<1>7. OnlyCopiesDangle'
  BY <1>1, <1>2 DEF OwnershipTypeOK, OnlyCopiesDangle, Holds, Free
<1>8. NoLeak'
  BY <1>1, <1>2 DEF OwnershipTypeOK, NoLeak, Owns, Holds, Free
<1> QED BY <1>3, <1>4, <1>5, <1>6, <1>7, <1>8

LEMMA DestroyKeeps ==
  ASSUME IInv, NEW p \in Places, Destroy(p)
  PROVE  IInv'
<1> USE DEF IInv
<1>1. /\ place[p] # None /\ place' = [place EXCEPT ![p] = None]
      /\ \A v \in Lent : callback[v] # p
      /\ released' = Releases(p)
      /\ UNCHANGED <<class, callback, copied, overwritten>>
  BY DEF Destroy, Free, OnStack
<1>2. CASE place[p].obj \in Objects
  <2>1. /\ released' =
             [released EXCEPT ![place[p].obj] = IF @ = 0 THEN 1 ELSE 2]
        /\ class[place[p].obj] \in Classes /\ place[p] \in Holders
    BY <1>1, <1>2 DEF Releases, HoldersMatch, OwnershipTypeOK, Holders, Free
  <2>2. OwnershipTypeOK'
    BY <1>1, <1>2, <2>1 DEF OwnershipTypeOK, Holds, Free
  <2>3. HoldersMatch' /\ CopiedCanBe'
    BY <1>1 DEF OwnershipTypeOK, HoldersMatch, CopiedCanBe, Free
  <2>4. NothingBeforeCreation' /\ LentNeverReleased'
    BY <1>1, <1>2, <2>1 DEF OwnershipTypeOK, NothingBeforeCreation,
                            LentNeverReleased
  <2>5. OnlyCopiesDangle'
    BY <1>1, <1>2, <2>1 DEF OwnershipTypeOK, OnlyCopiesDangle, Holds, Free
  <2>6. NoLeak'
    BY <1>1, <1>2, <2>1 DEF OwnershipTypeOK, NoLeak, Owns, Holds, Free
  <2> QED BY <2>2, <2>3, <2>4, <2>5, <2>6
<1>3. CASE place[p].obj \notin Objects
  <2>1. released' = released
    BY <1>1, <1>3 DEF Releases, HoldersMatch, Free
  <2>2. OwnershipTypeOK'
    BY <1>1, <2>1 DEF OwnershipTypeOK, Holds, Free
  <2>3. /\ HoldersMatch' /\ CopiedCanBe' /\ NothingBeforeCreation'
        /\ LentNeverReleased'
    BY <1>1, <2>1 DEF OwnershipTypeOK, HoldersMatch, CopiedCanBe,
                      NothingBeforeCreation, LentNeverReleased, Free
  <2>4. OnlyCopiesDangle'
    BY <1>1, <2>1 DEF OwnershipTypeOK, OnlyCopiesDangle, Holds, Free
  <2>5. NoLeak'
    BY <1>1, <1>3, <2>1 DEF OwnershipTypeOK, NoLeak, Owns, Holds, Free
  <2> QED BY <2>2, <2>3, <2>4, <2>5
<1> QED BY <1>2, <1>3

LEMMA EndCallbackKeeps ==
  ASSUME IInv, NEW v \in Lent, EndCallback(v)
  PROVE  IInv'
<1> USE DEF IInv
<1> DEFINE p == callback[v]
<1>1. /\ p \in Places /\ place[p] # None /\ place[p].obj = v
      /\ place' = [place EXCEPT ![p] = None]
      /\ callback' = [callback EXCEPT ![v] = None]
      /\ released' = Releases(p)
      /\ UNCHANGED <<class, copied, overwritten>>
  BY DEF EndCallback, OwnershipTypeOK, Holds, Free
<1>2. released' = released
  BY <1>1 DEF Releases, HoldersMatch, Free
<1>3. \A w \in Lent : w # v /\ callback[w] # None => callback[w] # p
  BY <1>1 DEF OwnershipTypeOK, Holds
<1> HIDE DEF p
<1>4. OwnershipTypeOK'
  BY <1>1, <1>2, <1>3 DEF OwnershipTypeOK, Holds, Free
<1>5. /\ HoldersMatch' /\ CopiedCanBe' /\ NothingBeforeCreation'
      /\ LentNeverReleased'
  BY <1>1, <1>2 DEF OwnershipTypeOK, HoldersMatch, CopiedCanBe,
                    NothingBeforeCreation, LentNeverReleased, Free
<1>6. OnlyCopiesDangle'
  BY <1>1, <1>2 DEF OwnershipTypeOK, OnlyCopiesDangle, Holds, Free
<1>7. NoLeak'
  BY <1>1, <1>2 DEF OwnershipTypeOK, NoLeak, Owns, Holds, Free
<1> QED BY <1>4, <1>5, <1>6, <1>7

-----------------------------------------------------------------------------
LEMMA StepKeeps == IInv /\ [Next]_vars => IInv'
<1> SUFFICES ASSUME IInv, [Next]_vars PROVE IInv' OBVIOUS
<1>1. CASE Next
  BY <1>1, CreateKeeps, StartCallbackKeeps, CopyKeeps, AssignKeeps,
     DestroyKeeps, EndCallbackKeeps DEF Next
<1>2. CASE UNCHANGED vars
  BY <1>2 DEF vars, IInv, OwnershipTypeOK, HoldersMatch, CopiedCanBe,
    NothingBeforeCreation, OnlyCopiesDangle, NoLeak, LentNeverReleased,
    Free, Holds, Owns
<1> QED BY <1>1, <1>2

\* The inductive invariant is one.
THEOREM Invariance == Spec => []IInv
  BY InitEstablishes, StepKeeps, PTL DEF Spec

\* The variables keep their types, and a running callback has its view.
THEOREM TypeCorrect == Spec => []OwnershipTypeOK
<1>1. IInv => OwnershipTypeOK BY DEF IInv
<1> QED BY <1>1, Invariance, PTL

\* Without copies no C object is released twice or held after its release, and
\* no view after its callback.
THEOREM CopiesDangle == Spec => []OnlyCopiesDangle
<1>1. IInv => OnlyCopiesDangle BY DEF IInv
<1> QED BY <1>1, Invariance, PTL

\* Groups and entry lists are released at most once.
THEOREM SharedAreSafe == Spec => []SharedReleasedOnce
<1>1. IInv => SharedReleasedOnce
  BY DEF IInv, SharedReleasedOnce, OnlyCopiesDangle, CopiedCanBe
<1> QED BY <1>1, Invariance, PTL

\* Nothing leaks but by assignment.
THEOREM NothingLeaks == Spec => []NoLeak
<1>1. IInv => NoLeak BY DEF IInv
<1> QED BY <1>1, Invariance, PTL

\* No view, and no copy of one, releases the library's feedback.
THEOREM LentIsSafe == Spec => []LentNeverReleased
<1>1. IInv => LentNeverReleased BY DEF IInv
<1> QED BY <1>1, Invariance, PTL
=============================================================================
