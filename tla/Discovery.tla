------------------------------- MODULE Discovery -------------------------------
(***************************************************************************)
(* Fourier::Lookup (lookup.hpp, lookup.cpp) and the programs that start    *)
(* with it: a thread of the library asks the network which modules there   *)
(* are; the program sleeps, stops the search, has a Group made of the      *)
(* modules of one family, and walks over the list of all modules.          *)
(*                                                                         *)
(* Of the library, what aios.h says (229-330, 398-422) is modelled: while  *)
(* the frequency is not 0 it keeps asking; an answer may be lost, or come  *)
(* after the search was stopped; the list is a copy of what is known when  *)
(* it is made; a timeout of -1 has no end, and one of 0 does not wait.     *)
(***************************************************************************)
EXTENDS Integers, SequencesExt

CONSTANTS
  Nodes,      \* the modules on the network
  Default,    \* the family the programs ask for, a text
  FamilyOf,   \* the family of each module, a text
  NUL,        \* the null character
  Null,       \* a pointer without reference
  Programs    \* the programs: sequences of steps

ASSUME DiscoveryAssumption ==
  /\ IsFiniteSet(Nodes)
  /\ \A S \in SUBSET Nodes : S # Null
  /\ NUL \notin {Default} \cup {FamilyOf[n] : n \in Nodes}

-----------------------------------------------------------------------------
(* Strings.  A std::string is the text it holds, in one piece, and the     *)
(* null characters among its elements.                                     *)

\* A plausible error, which Spec does not use: the string is passed with its
\* size, and not as a C string.
Sized(s) == s

\* What the library writes for a text, and c_str() as a C function reads it.
Buffer(text) == <<text, NUL>>
CStr(s) ==
  SubSeq(s, 1, Min({i \in DOMAIN s : s[i] = NUL} \cup {Len(s) + 1}) - 1)

\* operator[] asks for the length, which counts the null character, allocates
\* and makes a string of all of it; name and serial number are made alike.
FamilyField(n) == LET buffer == Buffer(FamilyOf[n])
                      len == Len(buffer)
                  IN  SubSeq(buffer, 1, len)

-----------------------------------------------------------------------------
(* The programs                                                            *)

Op(op) == <<[op |-> op]>>

\* getGroupFromFamily: of the family asked for, or that of the first entry;
\* the timeout in milliseconds, 500 if none is given.
Group(timeout) == <<[op |-> "group", timeout |-> timeout]>>
Regroup == <<[op |-> "regroup", timeout |-> 0]>>

\* Plausible errors, which Spec does not use: the search is stopped before the
\* endless wait; the list is made before the group.
StoppedTooEarly == Op("stop") \o Group(-1) \o Op("use")
ListedTooEarly ==
  Op("sleep") \o Op("list") \o Op("stop") \o Group(500) \o Op("use")
    \o Op("walk") \o Op("release")

\* 03_feedback, 05_feedback_command_async: the Lookup is gone after the test.
ScopedStart ==
  Op("sleep") \o Op("stop") \o Group(500) \o Op("test") \o Op("release")
    \o Op("use")

\* 04_command, 07_set_position_pt.
TestedStart ==
  Op("sleep") \o Op("stop") \o Group(500) \o Op("test") \o Op("use")

\* 01_lookup, 06_latency_test, 08_pos_pass_through.
ListingStart ==
  Op("sleep") \o Op("stop") \o Group(500) \o Op("use") \o Op("list")
    \o Op("walk") \o Op("release")

\* reset_linear_count, set_velocity_for_fw1xx, set_input_velocity_pt_for_fw2xx.
UntestedStart == Op("sleep") \o Op("stop") \o Group(500) \o Op("use")

\* Three uses of the interface that no example shows: a group of the family of
\* an entry, a walk from end() back to begin(), waiting as long as it takes.
EntryStart ==
  Op("sleep") \o Op("stop") \o Op("list") \o Op("testlist") \o Regroup
    \o Op("test") \o Op("use")
BackwardStart ==
  Op("sleep") \o Op("stop") \o Op("list") \o Op("testlist") \o Op("end")
    \o Op("back") \o Op("release")
PatientStart == Group(-1) \o Op("stop") \o Op("use")

Starts ==
  {ScopedStart, TestedStart, ListingStart, UntestedStart, EntryStart,
   BackwardStart, PatientStart}

ASSUME StartsAssumption == Programs \subseteq Starts

VARIABLES
  script,     \* the program that runs
  pc,         \* its next step
  searching,  \* the frequency of the search is not 0
  asked,      \* the modules whose answer is on its way
  known,      \* the modules the library knows
  group,      \* the modules of the group, or Null
  entries,    \* the entry list, or Null
  walk,       \* the iterator's index and what it has visited
  crashed     \* a null pointer was dereferenced

lookup == <<searching, asked, known>>
held == <<group, entries, walk, crashed>>
vars == <<script, pc, lookup, held>>

\* Lookup::Lookup starts the search; the default frequency is not 0.
Init ==
  /\ script \in Programs
  /\ pc = 1
  /\ searching = TRUE
  /\ asked = {}
  /\ known = {}
  /\ group = Null
  /\ entries = Null
  /\ walk = [at |-> 0, seen |-> <<>>]
  /\ crashed = FALSE

-----------------------------------------------------------------------------
(* The program                                                             *)

At(op) == ~crashed /\ pc \in DOMAIN script /\ script[pc].op = op
Step == pc' = pc + 1 /\ UNCHANGED script

\* sleep_for(seconds(1)): "wait for the module list to populate".
Sleep == At("sleep") /\ Step /\ UNCHANGED <<lookup, held>>

\* setLookupFrequencyHz(0).
StopLookup ==
  /\ At("stop") /\ Step
  /\ searching' = FALSE
  /\ UNCHANGED <<asked, known, held>>

\* The family that the call asks for, as the library reads it.
Wanted ==
  CStr(IF script[pc].op = "group" THEN <<Default>> ELSE FamilyField(entries[1]))

\* A plausible error, which Spec does not use: a module counts when it is asked.
MembersAsked == {n \in known \cup asked : <<FamilyOf[n]>> = Wanted}

Members == {n \in known : <<FamilyOf[n]>> = Wanted}

\* getGroupFromFamily returns a group: of those that are known at that moment.
GetGroupFromFamily ==
  /\ At("group") \/ At("regroup")
  /\ Members # {} /\ Step
  /\ group' = Members
  /\ UNCHANGED <<lookup, entries, walk, crashed>>

\* It returns no reference: the timeout has passed, and there was no module.
GroupTimeout ==
  /\ At("group") \/ At("regroup")
  /\ script[pc].timeout >= 0 /\ Members = {} /\ Step
  /\ UNCHANGED <<lookup, held>>

\* With a timeout of -1 it goes on waiting.
WaitForGroup ==
  /\ At("group") /\ script[pc].timeout < 0 /\ Members = {}
  /\ UNCHANGED vars

\* if (!group) return -1;
TestGroup ==
  /\ At("test")
  /\ pc' = IF group = Null THEN Len(script) + 1 ELSE pc + 1
  /\ UNCHANGED <<script, lookup, held>>

\* The same for a list without a first entry.
TestList ==
  /\ At("testlist")
  /\ pc' = IF entries \in {Null, <<>>} THEN Len(script) + 1 ELSE pc + 1
  /\ UNCHANGED <<script, lookup, held>>

\* group->size(), and all that follows: undefined without a group.
UseGroup ==
  /\ At("use") /\ Step
  /\ crashed' = (group = Null)
  /\ UNCHANGED <<lookup, group, entries, walk>>

\* getEntryList: a copy, or no reference if the library makes none.
GetEntryList ==
  /\ At("list") /\ Step
  /\ entries' \in SetToSeqs(known) \cup {Null}
  /\ UNCHANGED <<lookup, group, walk, crashed>>

\* A plausible error, which Spec does not use: the size of what is known now.
EndOfKnown == Cardinality(known)

\* EntryList::end and size.
End == Len(entries)

\* operator* of the iterator: "must be a valid index", or who knows what.
Entry(index) == IF index < Len(entries) THEN entries[index + 1] ELSE Null

\* One round of for (const auto &entry : *entry_list): operator!=, operator*
\* and operator++ of the iterator.
WalkOn ==
  /\ At("walk") /\ entries # Null /\ walk.at # End
  /\ walk' = [at |-> walk.at + 1, seen |-> Append(walk.seen, Entry(walk.at))]
  /\ UNCHANGED <<script, pc, lookup, group, entries, crashed>>

\* it = end(), and rounds of while (it != begin()) with *--it: operator--.
WalkFromEnd ==
  /\ At("end") /\ Step
  /\ walk' = [walk EXCEPT !.at = End]
  /\ UNCHANGED <<lookup, group, entries, crashed>>

WalkBack ==
  /\ At("back") /\ walk.at # 0
  /\ walk' = [at |-> walk.at - 1,
              seen |-> Append(walk.seen, Entry(walk.at - 1))]
  /\ UNCHANGED <<script, pc, lookup, group, entries, crashed>>

WalkBackOver == At("back") /\ walk.at = 0 /\ Step /\ UNCHANGED <<lookup, held>>

\* The loop is over; or there was no list, and *entry_list is undefined.
WalkOver ==
  /\ At("walk") /\ Step
  /\ entries # Null => walk.at = End
  /\ crashed' = (entries = Null)
  /\ UNCHANGED <<lookup, group, entries, walk>>

\* Lookup::~Lookup ends the search; groups live on.
ReleaseLookup ==
  /\ At("release") /\ Step
  /\ searching' = FALSE
  /\ asked' = {}
  /\ UNCHANGED <<known, held>>

-----------------------------------------------------------------------------
(* The library and the network                                             *)

\* The thread broadcasts, and module n answers.
Ask(n) ==
  /\ searching /\ n \notin known \cup asked
  /\ asked' = asked \cup {n}
  /\ UNCHANGED <<script, pc, searching, known, held>>

\* The answer of n arrives, perhaps after the search was stopped.
Learn(n) ==
  /\ n \in asked
  /\ asked' = asked \ {n}
  /\ known' = known \cup {n}
  /\ UNCHANGED <<script, pc, searching, held>>

Lose(n) ==
  /\ n \in asked
  /\ asked' = asked \ {n}
  /\ UNCHANGED <<script, pc, searching, known, held>>

\* The program has returned or crashed.
Ended == crashed \/ pc > Len(script)
Done == Ended /\ UNCHANGED vars

Program ==
  \/ Sleep \/ StopLookup \/ GetGroupFromFamily \/ GroupTimeout \/ TestGroup
  \/ TestList \/ UseGroup \/ GetEntryList \/ WalkOn \/ WalkOver
  \/ WalkFromEnd \/ WalkBack \/ WalkBackOver \/ ReleaseLookup

Next ==
  \/ Program \/ WaitForGroup \/ Done
  \/ \E n \in Nodes : Ask(n) \/ Learn(n) \/ Lose(n)

Spec == Init /\ [][Next]_vars

\* The program runs on; the search asks for ever, and not all answers are lost.
FairSpec ==
  /\ Spec /\ WF_vars(Program)
  /\ \A n \in Nodes : WF_vars(Ask(n)) /\ SF_vars(Learn(n))

-----------------------------------------------------------------------------
(* Properties                                                              *)

\* The variables have their types.
DiscoveryTypeOK ==
  /\ script \in Programs /\ pc \in 1 .. Len(script) + 1
  /\ searching \in BOOLEAN /\ crashed \in BOOLEAN
  /\ asked \subseteq Nodes /\ known \subseteq Nodes
  /\ group = Null \/ group \in (SUBSET known) \ {{}}
  /\ entries = Null \/ entries \in Seq(known)
  /\ walk.at \in Nat /\ walk.seen \in Seq(Nodes)

\* A loop over the entry list visits each entry of the list once, in order,
\* whatever modules the library learns of meanwhile; backwards, in the opposite
\* order.
WalkVisitsAll ==
  /\ script = ListingStart /\ entries # Null =>
       IsPrefix(walk.seen, entries) /\ (At("release") => walk.seen = entries)
  /\ script = BackwardStart /\ entries # Null =>
       /\ IsPrefix(walk.seen, Reverse(entries))
       /\ At("release") => walk.seen = Reverse(entries)

\* The list that 01_lookup prints after the size of its group has every module
\* of that group, though late answers arrive between the two.
MembersAreListed ==
  script = ListingStart /\ group # Null /\ entries # Null =>
    group \subseteq ToSet(entries)

\* The family of an entry, which ends with a null character, names a group
\* that has the entry, at once and without waiting.
EntryNamesItsGroup ==
  script = EntryStart /\ At("test") =>
    group # Null /\ entries[1] \in group

\* Every program comes to an end: the wait for a group has a timeout, or the
\* search goes on.
StartEnds == <>Ended

\* "A shared_ptr with no reference if no group found in allotted time"
\* (lookup.hpp:50-53): whoever asks for a group must be ready for none.
NoReferenceIsHandled == ~crashed
=============================================================================
