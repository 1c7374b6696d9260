------------------------------- MODULE Ownership -------------------------------
(***************************************************************************)
(* Which C++ object of Fourier:: releases which object of the C library.   *)
(* Five classes hold a pointer to a C object and release it in their       *)
(* destructors.  A GroupFeedback made for a callback only looks at an      *)
(* object of the library (groupFeedback.cpp:15-22); a copy of any object   *)
(* is as good an owner as the original, if the class can be copied.        *)
(***************************************************************************)
EXTENDS Naturals

CONSTANTS
  Places,   \* where C++ objects can live: variables, containers, the heap
  Objects,  \* the C objects that constructors create
  Lent,     \* the library's own feedback objects, lent to callbacks
  None      \* an empty place; no class yet

Classes == {"GroupFeedback", "GroupCommand", "Lookup", "Group", "EntryList"}
Holders == [class : Classes, obj : Objects \cup Lent, owns : BOOLEAN]

ASSUME OwnershipAssumption ==
  /\ Objects \cap Lent = {}
  /\ None \notin Holders \cup Classes \cup Places

\* A plausible error, which Spec does not use: FOURIER_DISABLE_COPY_MOVE is
\* forgotten.
CopyableWithLists(class) == class # "Group"

\* The classes with an implicit copy constructor.  A Group has a mutex, an
\* EntryList disables it; of an object of theirs there are shared_ptrs only.
Copyable(class) == class \in {"GroupFeedback", "GroupCommand", "Lookup"}

\* The others have const members, and so no implicit assignment.
Assignable(class) == class = "Lookup"

VARIABLES
  place,       \* what lives in each place: the class, the pointer, the flag
  class,       \* the class of each C object that was created
  released,    \* how often each C object was released: 0, 1 or 2 times
  callback,    \* the place of the view in a running callback, by lent object
  copied,      \* history: the objects whose owner was copied
  overwritten  \* history: the objects whose owner was assigned to

vars == <<place, class, released, callback, copied, overwritten>>

Init ==
  /\ place = [p \in Places |-> None]
  /\ class = [o \in Objects |-> None]
  /\ released = [o \in Objects \cup Lent |-> 0]
  /\ callback = [v \in Lent |-> None]
  /\ copied = {}
  /\ overwritten = {}

-----------------------------------------------------------------------------
Free(p) == place[p] = None
OnStack(p) == \E v \in Lent : callback[v] = p

\* A plausible error, which Spec does not use: the flag set wrong.
Managed(k) == k # "GroupFeedback"

\* manage_pointer_lifetime_ as the constructor that creates an object sets it;
\* the other classes have no flag and always release.
CreatedIsManaged(k) == TRUE

\* GroupFeedback(number_of_modules), GroupCommand, Lookup, and the Group and
\* the EntryList that Lookup makes.
Create(p, o, k) ==
  /\ Free(p) /\ class[o] = None
  /\ place' = [place EXCEPT ![p] =
       [class |-> k, obj |-> o, owns |-> CreatedIsManaged(k)]]
  /\ class' = [class EXCEPT ![o] = k]
  /\ UNCHANGED <<released, callback, copied, overwritten>>

\* A plausible error, which Spec does not use: the view is an owner.
LentIsManaged == TRUE

\* manage_pointer_lifetime_ in GroupFeedback(group_feedback).
ViewIsManaged == FALSE

\* callAttachedHandlers makes a view of the feedback it was lent.
StartCallback(p, v) ==
  /\ Free(p) /\ callback[v] = None
  /\ callback' = [callback EXCEPT ![v] = p]
  /\ place' = [place EXCEPT ![p] =
       [class |-> "GroupFeedback", obj |-> v, owns |-> ViewIsManaged]]
  /\ UNCHANGED <<class, released, copied, overwritten>>

\* A copy constructor: pointer and flag are copied.
Copy(p, q) ==
  /\ Free(p) /\ ~Free(q) /\ Copyable(place[q].class)
  /\ place' = [place EXCEPT ![p] = place[q]]
  /\ copied' = copied \cup {place[q].obj}
  /\ UNCHANGED <<class, released, callback, overwritten>>

\* The copy assignment of a Lookup: the pointer it had is lost.
Assign(p, q) ==
  /\ ~Free(p) /\ ~Free(q) /\ p # q
  /\ Assignable(place[p].class) /\ place[p].class = place[q].class
  /\ place' = [place EXCEPT ![p] = place[q]]
  /\ copied' = copied \cup {place[q].obj}
  /\ overwritten' = overwritten \cup {place[p].obj}
  /\ UNCHANGED <<class, released, callback>>

\* What a destructor releases.  Twice stands for all larger numbers (bound):
\* what the library does after it is anybody's guess.
Releases(p) ==
  IF place[p].owns
  THEN [released EXCEPT ![place[p].obj] = IF @ = 0 THEN 1 ELSE 2]
  ELSE released

\* A plausible error, which Spec does not use: the object lives on after it
\* has released its pointer, as after a function close() without a reset.
DestroyKeeping(p) ==
  /\ ~Free(p) /\ ~OnStack(p)
  /\ released' = Releases(p)
  /\ UNCHANGED <<place, class, callback, copied, overwritten>>

\* A plausible error, which Spec does not use: a handler deletes the view that
\* it was given a reference to.
DestroyInHandler(p) ==
  /\ ~Free(p)
  /\ released' = Releases(p)
  /\ place' = [place EXCEPT ![p] = None]
  /\ UNCHANGED <<class, callback, copied, overwritten>>

\* The destructors.
Destroy(p) ==
  /\ ~Free(p) /\ ~OnStack(p)
  /\ released' = Releases(p)
  /\ place' = [place EXCEPT ![p] = None]
  /\ UNCHANGED <<class, callback, copied, overwritten>>

\* callAttachedHandlers returns: its view is destroyed, and the library does
\* with its feedback what it likes.
EndCallback(v) ==
  /\ callback[v] # None
  /\ released' = Releases(callback[v])
  /\ place' = [place EXCEPT ![callback[v]] = None]
  /\ callback' = [callback EXCEPT ![v] = None]
  /\ UNCHANGED <<class, copied, overwritten>>

Next ==
  \/ \E p \in Places, o \in Objects, k \in Classes : Create(p, o, k)
  \/ \E p \in Places, v \in Lent : StartCallback(p, v)
  \/ \E p, q \in Places : Copy(p, q) \/ Assign(p, q)
  \/ \E p \in Places : Destroy(p)
  \/ \E v \in Lent : EndCallback(v)

Spec == Init /\ [][Next]_vars

-----------------------------------------------------------------------------
(* Properties                                                              *)

Holds(p, o) == ~Free(p) /\ place[p].obj = o
Owns(p, o) == Holds(p, o) /\ place[p].owns

\* The variables have their types, and a running callback has its view.
OwnershipTypeOK ==
  /\ place \in [Places -> Holders \cup {None}]
  /\ class \in [Objects -> Classes \cup {None}]
  /\ released \in [Objects \cup Lent -> 0 .. 2]
  /\ callback \in [Lent -> Places \cup {None}]
  /\ \A v \in Lent : callback[v] # None => Holds(callback[v], v)
  /\ copied \subseteq Objects \cup Lent
  /\ overwritten \subseteq Objects \cup Lent

\* An object is released twice, or held by a C++ object after its release, and
\* a view of feedback outlives its callback (group.cpp:14), only if somebody
\* copied it or assigned it.
OnlyCopiesDangle ==
  /\ \A o \in Objects \ copied :
       /\ released[o] <= 1
       /\ \A p \in Places : Holds(p, o) => class[o] # None /\ released[o] = 0
       /\ \A p, q \in Places : Holds(p, o) /\ Holds(q, o) => p = q
  /\ \A v \in Lent \ copied : \A p \in Places : Holds(p, v) => callback[v] = p

\* Groups and entry lists are released once, whatever the program copies:
\* the two classes cannot be copied (lookup.hpp:135-139, group.hpp:136).
SharedReleasedOnce ==
  \A o \in Objects : class[o] \in {"Group", "EntryList"} =>
    /\ released[o] <= 1
    /\ \A p \in Places : Holds(p, o) => released[o] = 0

\* Nothing leaks: an object that was not released has an owner that will
\* release it, unless that owner was assigned to.
NoLeak ==
  \A o \in Objects \ overwritten :
    class[o] # None /\ released[o] = 0 => \E p \in Places : Owns(p, o)

\* The library's own feedback is never released by the program, though the
\* view of it, or a copy of a copy of it, outlives the callback: "True if this
\* object is responsible for creating and destroying the underlying C
\* pointer; false otherwise" (groupFeedback.hpp:48-51).
LentNeverReleased == \A v \in Lent : released[v] = 0
=============================================================================
