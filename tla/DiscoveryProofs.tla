---------------------------- MODULE DiscoveryProofs ----------------------------
(***************************************************************************)
(* Discovery, for any network, any families and any of the programs: types,*)
(* what a walk over the entry list visits, and what the list and the group *)
(* of an entry contain.                                                    *)
(* The inductive invariant says, for each program, what is true of the     *)
(* group, the list and the iterator when its next step is reached.         *)
(***************************************************************************)
EXTENDS Discovery, FiniteSetTheorems, SequenceTheorems, TLAPS

WalkStart == [at |-> 0, seen |-> <<>>]

\* The types, and that the iterator is a record of its two fields.
TypeInv == DiscoveryTypeOK /\ walk \in [at : Nat, seen : Seq(Nodes)]

\* 5 is the step of the list, 6 the walk.
ListingInv ==
  script = ListingStart =>
    /\ pc <= 5 => entries = Null /\ walk = WalkStart
    /\ entries # Null =>
         /\ walk.at = Len(walk.seen) /\ walk.at <= Len(entries)
         /\ \A i \in 1 .. Len(walk.seen) : walk.seen[i] = entries[i]
         /\ pc > 6 => walk.at = Len(entries)
         /\ group # Null => group \subseteq ToSet(entries)

\* 3 is the step of the list, 4 its test, 5 the move to the end, 6 the walk.
BackwardInv ==
  script = BackwardStart =>
    /\ pc <= 3 => entries = Null
    /\ pc <= 5 => walk = WalkStart
    /\ pc \in {5, 6} => entries # Null
    /\ entries # Null =>
         /\ Len(walk.seen) <= Len(entries)
         /\ \A i \in 1 .. Len(walk.seen) :
              walk.seen[i] = entries[Len(entries) - i + 1]
         /\ pc = 6 => walk.at + Len(walk.seen) = Len(entries)
         /\ pc = 7 => Len(walk.seen) = Len(entries)

\* 4 is the test of the list, 5 the call for the group, 6 its test.
EntryInv ==
  script = EntryStart =>
    /\ pc = 5 => entries \notin {Null, <<>>}
    /\ pc = 6 => group # Null /\ entries[1] \in group

DInv == TypeInv /\ ListingInv /\ BackwardInv /\ EntryInv

-----------------------------------------------------------------------------
(* The programs, step by step.                                             *)

LEMMA ScopedSteps ==
  /\ Len(ScopedStart) = 6 /\ DOMAIN ScopedStart = 1 .. 6
  /\ ScopedStart[1].op = "sleep" /\ ScopedStart[2].op = "stop"
  /\ ScopedStart[3].op = "group" /\ ScopedStart[4].op = "test"
  /\ ScopedStart[5].op = "release" /\ ScopedStart[6].op = "use"
  BY SMTT(30) DEF ScopedStart, Op, Group

LEMMA TestedSteps ==
  /\ Len(TestedStart) = 5 /\ DOMAIN TestedStart = 1 .. 5
  /\ TestedStart[1].op = "sleep" /\ TestedStart[2].op = "stop"
  /\ TestedStart[3].op = "group" /\ TestedStart[4].op = "test"
  /\ TestedStart[5].op = "use"
  BY SMTT(30) DEF TestedStart, Op, Group

LEMMA ListingSteps ==
  /\ Len(ListingStart) = 7 /\ DOMAIN ListingStart = 1 .. 7
  /\ ListingStart[1].op = "sleep" /\ ListingStart[2].op = "stop"
  /\ ListingStart[3].op = "group" /\ ListingStart[4].op = "use"
  /\ ListingStart[5].op = "list" /\ ListingStart[6].op = "walk"
  /\ ListingStart[7].op = "release"
  BY SMTT(30) DEF ListingStart, Op, Group

LEMMA UntestedSteps ==
  /\ Len(UntestedStart) = 4 /\ DOMAIN UntestedStart = 1 .. 4
  /\ UntestedStart[1].op = "sleep" /\ UntestedStart[2].op = "stop"
  /\ UntestedStart[3].op = "group" /\ UntestedStart[4].op = "use"
  BY SMTT(30) DEF UntestedStart, Op, Group

LEMMA EntrySteps ==
  /\ Len(EntryStart) = 7 /\ DOMAIN EntryStart = 1 .. 7
  /\ EntryStart[1].op = "sleep" /\ EntryStart[2].op = "stop"
  /\ EntryStart[3].op = "list" /\ EntryStart[4].op = "testlist"
  /\ EntryStart[5] = [op |-> "regroup", timeout |-> 0]
  /\ EntryStart[6].op = "test" /\ EntryStart[7].op = "use"
  BY SMTT(30) DEF EntryStart, Op, Regroup

LEMMA BackwardSteps ==
  /\ Len(BackwardStart) = 7 /\ DOMAIN BackwardStart = 1 .. 7
  /\ BackwardStart[1].op = "sleep" /\ BackwardStart[2].op = "stop"
  /\ BackwardStart[3].op = "list" /\ BackwardStart[4].op = "testlist"
  /\ BackwardStart[5].op = "end" /\ BackwardStart[6].op = "back"
  /\ BackwardStart[7].op = "release"
  BY SMTT(30) DEF BackwardStart, Op

LEMMA PatientSteps ==
  /\ Len(PatientStart) = 3 /\ DOMAIN PatientStart = 1 .. 3
  /\ PatientStart[1].op = "group" /\ PatientStart[2].op = "stop"
  /\ PatientStart[3].op = "use"
  BY SMTT(30) DEF PatientStart, Op, Group

LEMMA StartIsSeq ==
  \A s \in Starts : Len(s) \in Nat /\ DOMAIN s = 1 .. Len(s)
  BY ScopedSteps, TestedSteps, ListingSteps, UntestedSteps, EntrySteps,
     BackwardSteps, PatientSteps DEF Starts

LEMMA OnlyListingWalks ==
  ASSUME NEW s \in Starts, NEW i \in DOMAIN s, s[i].op = "walk"
  PROVE  s = ListingStart /\ i = 6
  BY ScopedSteps, TestedSteps, ListingSteps, UntestedSteps, EntrySteps,
     BackwardSteps, PatientSteps DEF Starts

LEMMA OnlyBackwardEnds ==
  ASSUME NEW s \in Starts, NEW i \in DOMAIN s
  PROVE  /\ s[i].op = "end" => s = BackwardStart /\ i = 5
         /\ s[i].op = "back" => s = BackwardStart /\ i = 6
  BY ScopedSteps, TestedSteps, ListingSteps, UntestedSteps, EntrySteps,
     BackwardSteps, PatientSteps DEF Starts

-----------------------------------------------------------------------------
(* What the proofs need of sets, lists and strings.                        *)

\* A list of what is known has every known module: it has as many entries.
LEMMA ListHasAll ==
  ASSUME NEW S, IsFiniteSet(S), NEW s \in SetToSeqs(S)
  PROVE  s \in Seq(S) /\ ToSet(s) = S
<1> DEFINE n == Cardinality(S)
<1>1. n \in Nat
  BY FS_CardinalityType
<1> HIDE DEF n
<1>2. s \in [1 .. n -> S] /\ \A i, j \in 1 .. n : i # j => s[i] # s[j]
  BY DEF SetToSeqs, n
<1>3. s \in Injection(1 .. n, S)
  BY <1>2 DEF Injection, IsInjective
<1>4. IsFiniteSet(1 .. n) /\ Cardinality(1 .. n) = n
  BY <1>1, FS_Interval
<1>5. s \in Surjection(1 .. n, S)
  BY <1>3, <1>4, FS_Injection DEF n
<1>6. s \in Seq(S)
  BY <1>1, <1>2
<1>7. ToSet(s) = S
  BY <1>2, <1>5 DEF ToSet, Surjection
<1> QED BY <1>6, <1>7

LEMMA PrefixByElements ==
  ASSUME NEW S, NEW s \in Seq(S), NEW t \in Seq(S), Len(s) <= Len(t),
         \A i \in 1 .. Len(s) : s[i] = t[i]
  PROVE  IsPrefix(s, t)
<1> DEFINE n == Len(s)
<1>1. n \in Nat /\ \A i \in 1 .. n : s[i] \in S /\ t[i] \in S
  OBVIOUS
<1> HIDE DEF n
<1>2. /\ SubSeq(s, 1, n) \in Seq(S) /\ Len(SubSeq(s, 1, n)) = n
      /\ \A i \in 1 .. n : SubSeq(s, 1, n)[i] = s[i]
  BY <1>1, SubSeqProperties
<1>3. /\ SubSeq(t, 1, n) \in Seq(S) /\ Len(SubSeq(t, 1, n)) = n
      /\ \A i \in 1 .. n : SubSeq(t, 1, n)[i] = t[i]
  BY <1>1, SubSeqProperties
<1>4. SubSeq(s, 1, n) = SubSeq(t, 1, n)
  BY <1>2, <1>3, SeqEqual DEF n
<1> QED BY <1>4 DEF IsPrefix, n

LEMMA OneElement ==
  ASSUME NEW s, NEW x, s[1] = x
  PROVE  SubSeq(s, 1, 2 - 1) = <<x>>
<1> DEFINE t == SubSeq(s, 1, 2 - 1)
           u == <<x>>
<1>1. t \in Seq({x}) /\ Len(t) = 1 /\ t[1] = x
  BY SubSeqProperties
<1>2. u \in Seq({x}) /\ Len(u) = 1 /\ u[1] = x
  OBVIOUS
<1> HIDE DEF t, u
<1>3. t = u
  BY <1>1, <1>2, SeqEqual
<1> QED BY <1>3 DEF t, u

\* The null character that operator[] leaves in a name is not read: a text and
\* the text with a null character are the same C string.
LEMMA NullEndsName ==
  ASSUME NEW text, text # NUL
  PROVE  CStr(<<text>>) = <<text>> /\ CStr(<<text, NUL>>) = <<text>>
<1>1. ASSUME NEW S, S = {2} PROVE Min(S) = 2
  BY <1>1 DEF Min
<1>2. ASSUME NEW S, S = {2, 3} PROVE Min(S) = 2
  BY <1>2 DEF Min
<1>3. CStr(<<text>>) = <<text>>
  <2> DEFINE s == <<text>>
             S == {i \in DOMAIN s : s[i] = NUL} \cup {Len(s) + 1}
  <2>1. S = {2}
    OBVIOUS
  <2>2. SubSeq(s, 1, 2 - 1) = <<text>>
    BY OneElement
  <2> HIDE DEF S
  <2> QED BY <2>1, <2>2, <1>1 DEF CStr, S
<1>4. CStr(<<text, NUL>>) = <<text>>
  <2> DEFINE s == <<text, NUL>>
             S == {i \in DOMAIN s : s[i] = NUL} \cup {Len(s) + 1}
  <2>1. S = {2, 3}
    OBVIOUS
  <2>2. SubSeq(s, 1, 2 - 1) = <<text>>
    BY OneElement
  <2> HIDE DEF S
  <2> QED BY <2>1, <2>2, <1>2 DEF CStr, S
<1> QED BY <1>3, <1>4

LEMMA FieldIsRead ==
  ASSUME NEW n \in Nodes
  PROVE  CStr(FamilyField(n)) = <<FamilyOf[n]>>
<1>1. FamilyField(n) = <<FamilyOf[n], NUL>>
  <2>1. /\ Buffer(FamilyOf[n]) \in Seq({FamilyOf[n], NUL})
        /\ Len(Buffer(FamilyOf[n])) = 2
    BY DEF Buffer
  <2> QED BY <2>1, SubSeqFull DEF FamilyField, Buffer
<1>2. FamilyOf[n] # NUL
  BY DiscoveryAssumption
<1> QED BY <1>1, <1>2, NullEndsName

-----------------------------------------------------------------------------
(* Types.                                                                  *)

LEMMA InitEstablishes == Init => DInv
<1> SUFFICES ASSUME Init PROVE DInv OBVIOUS
<1>1. /\ pc = 1 /\ group = Null /\ entries = Null /\ walk = WalkStart
      /\ asked = {} /\ known = {}
  BY DEF Init, WalkStart
<1>2. searching \in BOOLEAN /\ crashed \in BOOLEAN /\ ~crashed
  BY DEF Init
<1>3. script \in Programs /\ Len(script) \in Nat
  BY StartIsSeq, StartsAssumption DEF Init
<1>4. WalkStart \in [at : Nat, seen : Seq(Nodes)]
  BY DEF WalkStart
<1>5. TypeInv
  BY <1>1, <1>2, <1>3, <1>4 DEF TypeInv, DiscoveryTypeOK
<1>6. ListingInv /\ BackwardInv
  BY <1>1 DEF ListingInv, BackwardInv
<1>7. EntryInv
  BY <1>1 DEF EntryInv
<1> QED BY <1>5, <1>6, <1>7 DEF DInv

\* A step, or the jump of a test to the end.
LEMMA PcType ==
  ASSUME DInv, UNCHANGED script,
         \/ pc' = pc
         \/ pc \in DOMAIN script /\ (pc' = pc + 1 \/ pc' = Len(script) + 1)
  PROVE  script' \in Programs /\ pc' \in 1 .. Len(script') + 1
<1>1. Len(script) \in Nat /\ DOMAIN script = 1 .. Len(script)
  BY StartIsSeq, StartsAssumption DEF DInv, TypeInv, DiscoveryTypeOK
<1> QED BY <1>1 DEF DInv, TypeInv, DiscoveryTypeOK

\* Steps that leave the modules, the group, the list and the iterator alone.
LEMMA QuietType ==
  ASSUME DInv, UNCHANGED <<known, group, entries, walk>>,
         script' \in Programs, pc' \in 1 .. Len(script') + 1,
         searching' \in BOOLEAN, crashed' \in BOOLEAN, asked' \subseteq Nodes
  PROVE  TypeInv'
<1>1. /\ known' = known /\ group' = group /\ entries' = entries
      /\ walk' = walk
  OBVIOUS
<1> QED BY <1>1 DEF DInv, TypeInv, DiscoveryTypeOK

\* Modules that become known are no reason to change a group or a list.
LEMMA GrowingType ==
  ASSUME DInv, UNCHANGED <<group, entries, walk, searching, crashed>>,
         script' \in Programs, pc' \in 1 .. Len(script') + 1,
         asked' \subseteq Nodes, known' \subseteq Nodes, known \subseteq known'
  PROVE  TypeInv'
<1>1. /\ group' = group /\ entries' = entries /\ walk' = walk
      /\ searching' = searching /\ crashed' = crashed
  OBVIOUS
<1>2. group = Null \/ group \in (SUBSET known') \ {{}}
  BY DEF DInv, TypeInv, DiscoveryTypeOK
<1>3. entries = Null \/ entries \in Seq(known')
  BY DEF DInv, TypeInv, DiscoveryTypeOK
<1> QED BY <1>1, <1>2, <1>3 DEF DInv, TypeInv, DiscoveryTypeOK

\* The iterator moves over entries of the list, which are modules.
LEMMA WalkType ==
  ASSUME DInv, entries # Null, NEW i \in 1 .. Len(entries),
         UNCHANGED <<script, lookup, group, entries, crashed>>,
         pc' = pc, NEW at \in Nat,
         walk' = [at |-> at, seen |-> Append(walk.seen, entries[i])]
  PROVE  TypeInv'
<1>1. entries \in Seq(known) /\ known \subseteq Nodes
      /\ walk.seen \in Seq(Nodes)
  BY DEF DInv, TypeInv, DiscoveryTypeOK
<1>2. entries[i] \in Nodes
  BY <1>1
<1>3. Append(walk.seen, entries[i]) \in Seq(Nodes)
  BY <1>1, <1>2
<1> DEFINE s == Append(walk.seen, entries[i])
<1> HIDE DEF s
<1>4. walk' \in [at : Nat, seen : Seq(Nodes)]
  BY <1>3 DEF s
<1>5. walk'.at \in Nat /\ walk'.seen \in Seq(Nodes)
  BY <1>4
<1> QED BY <1>4, <1>5 DEF DInv, TypeInv, DiscoveryTypeOK, lookup

\* operator* with an index that is valid.
LEMMA EntryIsEntry ==
  ASSUME NEW index \in Nat, index < Len(entries)
  PROVE  Entry(index) = entries[index + 1]
  BY DEF Entry

LEMMA TypeKeeps == ASSUME DInv, Next PROVE TypeInv'
<1>1. CASE Sleep
  <2>1. UNCHANGED <<script, lookup, held>> /\ pc \in DOMAIN script
        /\ pc' = pc + 1
    BY <1>1 DEF Sleep, At, Step
  <2>2. script' \in Programs /\ pc' \in 1 .. Len(script') + 1
    BY <2>1, PcType
  <2> QED BY <2>1, <2>2, QuietType
          DEF DInv, TypeInv, DiscoveryTypeOK, lookup, held
<1>2. CASE StopLookup
  <2>1. UNCHANGED <<script, asked, known, held>> /\ pc \in DOMAIN script
        /\ pc' = pc + 1 /\ searching' \in BOOLEAN
    BY <1>2 DEF StopLookup, At, Step
  <2>2. script' \in Programs /\ pc' \in 1 .. Len(script') + 1
    BY <2>1, PcType
  <2> QED BY <2>1, <2>2, QuietType
          DEF DInv, TypeInv, DiscoveryTypeOK, held
<1>3. CASE GetGroupFromFamily
  <2>1. UNCHANGED <<script, lookup, entries, walk, crashed>>
        /\ pc \in DOMAIN script /\ pc' = pc + 1
        /\ group' = Members /\ Members # {}
    BY <1>3 DEF GetGroupFromFamily, At, Step
  <2>2. script' \in Programs /\ pc' \in 1 .. Len(script') + 1
    BY <2>1, PcType
  <2>3. group' \in (SUBSET known) \ {{}}
    BY <2>1 DEF Members
  <2> QED BY <2>1, <2>2, <2>3
          DEF DInv, TypeInv, DiscoveryTypeOK, lookup
<1>4. CASE GroupTimeout
  <2>1. UNCHANGED <<script, lookup, held>> /\ pc \in DOMAIN script
        /\ pc' = pc + 1
    BY <1>4 DEF GroupTimeout, At, Step
  <2>2. script' \in Programs /\ pc' \in 1 .. Len(script') + 1
    BY <2>1, PcType
  <2> QED BY <2>1, <2>2, QuietType
          DEF DInv, TypeInv, DiscoveryTypeOK, lookup, held
<1>5. CASE TestGroup \/ TestList
  <2>1. UNCHANGED <<script, lookup, held>> /\ pc \in DOMAIN script
        /\ (pc' = pc + 1 \/ pc' = Len(script) + 1)
    BY <1>5 DEF TestGroup, TestList, At
  <2>2. script' \in Programs /\ pc' \in 1 .. Len(script') + 1
    BY <2>1, PcType
  <2> QED BY <2>1, <2>2, QuietType
          DEF DInv, TypeInv, DiscoveryTypeOK, lookup, held
<1>6. CASE UseGroup
  <2>1. UNCHANGED <<script, lookup, group, entries, walk>>
        /\ pc \in DOMAIN script /\ pc' = pc + 1
    BY <1>6 DEF UseGroup, At, Step
  <2>2. crashed' \in BOOLEAN
    BY <1>6, Zenon DEF UseGroup
  <2>3. script' \in Programs /\ pc' \in 1 .. Len(script') + 1
    BY <2>1, PcType
  <2> QED BY <2>1, <2>2, <2>3, QuietType
          DEF DInv, TypeInv, DiscoveryTypeOK, lookup
<1>7. CASE GetEntryList
  <2>1. UNCHANGED <<script, lookup, group, walk, crashed>>
        /\ pc \in DOMAIN script /\ pc' = pc + 1
        /\ entries' \in SetToSeqs(known) \cup {Null}
    BY <1>7 DEF GetEntryList, At, Step
  <2>2. IsFiniteSet(known)
    BY FS_Subset, DiscoveryAssumption DEF DInv, TypeInv, DiscoveryTypeOK
  <2>3. entries' = Null \/ entries' \in Seq(known)
    BY <2>1, <2>2, ListHasAll
  <2>4. script' \in Programs /\ pc' \in 1 .. Len(script') + 1
    BY <2>1, PcType
  <2> QED BY <2>1, <2>3, <2>4 DEF DInv, TypeInv, DiscoveryTypeOK, lookup
<1>8. CASE WalkOn
  <2>1. /\ UNCHANGED <<script, lookup, group, entries, crashed>>
        /\ pc' = pc /\ entries # Null /\ walk.at # Len(entries)
        /\ pc \in DOMAIN script /\ script[pc].op = "walk"
        /\ walk' = [at |-> walk.at + 1,
                    seen |-> Append(walk.seen, Entry(walk.at))]
    BY <1>8 DEF WalkOn, At, End
  <2>2. script = ListingStart
    BY <2>1, OnlyListingWalks, StartsAssumption
       DEF DInv, TypeInv, DiscoveryTypeOK
  <2>3. walk.at \in Nat /\ Len(entries) \in Nat
    BY <2>1 DEF DInv, TypeInv, DiscoveryTypeOK
  <2>4. walk.at <= Len(entries)
    BY <2>1, <2>2 DEF DInv, ListingInv
  <2>5. walk.at < Len(entries) /\ walk.at + 1 \in 1 .. Len(entries)
    BY <2>1, <2>3, <2>4
  <2> QED BY <2>1, <2>3, <2>5, EntryIsEntry, WalkType
<1>9. CASE WalkFromEnd
  <2>1. /\ UNCHANGED <<script, lookup, group, entries, crashed>>
        /\ pc' = pc + 1 /\ pc \in DOMAIN script /\ script[pc].op = "end"
        /\ walk' = [walk EXCEPT !.at = Len(entries)]
    BY <1>9 DEF WalkFromEnd, At, End, Step
  <2>2. script = BackwardStart /\ pc = 5
    BY <2>1, OnlyBackwardEnds, StartsAssumption
       DEF DInv, TypeInv, DiscoveryTypeOK
  <2>3. entries # Null /\ Len(entries) \in Nat
    BY <2>2 DEF DInv, TypeInv, DiscoveryTypeOK, BackwardInv
  <2>4. walk' \in [at : Nat, seen : Seq(Nodes)]
    BY <2>1, <2>3 DEF DInv, TypeInv
  <2>5. walk'.at \in Nat /\ walk'.seen \in Seq(Nodes)
    BY <2>4
  <2>6. script' \in Programs /\ pc' \in 1 .. Len(script') + 1
    BY <2>1, PcType
  <2> QED BY <2>1, <2>4, <2>5, <2>6
          DEF DInv, TypeInv, DiscoveryTypeOK, lookup
<1>10. CASE WalkBack
  <2>1. /\ UNCHANGED <<script, lookup, group, entries, crashed>>
        /\ pc' = pc /\ walk.at # 0
        /\ pc \in DOMAIN script /\ script[pc].op = "back"
        /\ walk' = [at |-> walk.at - 1,
                    seen |-> Append(walk.seen, Entry(walk.at - 1))]
    BY <1>10 DEF WalkBack, At
  <2>2. script = BackwardStart /\ pc = 6
    BY <2>1, OnlyBackwardEnds, StartsAssumption
       DEF DInv, TypeInv, DiscoveryTypeOK
  <2>3. /\ entries # Null /\ walk.at \in Nat
        /\ walk.at - 1 \in Nat /\ walk.at \in 1 .. Len(entries)
    BY <2>1, <2>2 DEF DInv, TypeInv, DiscoveryTypeOK, BackwardInv
  <2>4. Entry(walk.at - 1) = entries[walk.at]
    BY <2>3, EntryIsEntry
  <2> QED BY <2>1, <2>3, <2>4, WalkType
<1>11. CASE WalkBackOver
  <2>1. UNCHANGED <<script, lookup, held>> /\ pc \in DOMAIN script
        /\ pc' = pc + 1
    BY <1>11 DEF WalkBackOver, At, Step
  <2>2. script' \in Programs /\ pc' \in 1 .. Len(script') + 1
    BY <2>1, PcType
  <2> QED BY <2>1, <2>2, QuietType
          DEF DInv, TypeInv, DiscoveryTypeOK, lookup, held
<1>12. CASE WalkOver
  <2>1. UNCHANGED <<script, lookup, group, entries, walk>>
        /\ pc \in DOMAIN script /\ pc' = pc + 1
    BY <1>12 DEF WalkOver, At, Step
  <2>2. crashed' \in BOOLEAN
    BY <1>12, Zenon DEF WalkOver
  <2>3. script' \in Programs /\ pc' \in 1 .. Len(script') + 1
    BY <2>1, PcType
  <2> QED BY <2>1, <2>2, <2>3, QuietType
          DEF DInv, TypeInv, DiscoveryTypeOK, lookup
<1>13. CASE ReleaseLookup
  <2>1. UNCHANGED <<script, known, held>> /\ pc \in DOMAIN script
        /\ pc' = pc + 1 /\ searching' \in BOOLEAN /\ asked' \subseteq Nodes
    BY <1>13 DEF ReleaseLookup, At, Step
  <2>2. script' \in Programs /\ pc' \in 1 .. Len(script') + 1
    BY <2>1, PcType
  <2> QED BY <2>1, <2>2, QuietType
          DEF DInv, TypeInv, DiscoveryTypeOK, held
<1>14. CASE WaitForGroup \/ Done
  BY <1>14 DEF WaitForGroup, Done, DInv, TypeInv, DiscoveryTypeOK, vars,
               lookup, held
<1>15. ASSUME NEW n \in Nodes, Ask(n) \/ Learn(n) \/ Lose(n) PROVE TypeInv'
  <2>1. UNCHANGED <<script, pc, searching, held>> /\ asked' \subseteq Nodes
        /\ known' \subseteq Nodes /\ known \subseteq known'
    BY <1>15 DEF Ask, Learn, Lose, DInv, TypeInv, DiscoveryTypeOK
  <2>2. script' \in Programs /\ pc' \in 1 .. Len(script') + 1
    BY <2>1, PcType
  <2> QED BY <2>1, <2>2, GrowingType DEF held
<1> QED BY <1>1, <1>2, <1>3, <1>4, <1>5, <1>6, <1>7, <1>8, <1>9, <1>10,
           <1>11, <1>12, <1>13, <1>14, <1>15 DEF Next, Program

-----------------------------------------------------------------------------
(* The three programs that use the list.                                   *)

LEMMA ScriptStays == Next => script' = script
  BY DEF Next, Program, Sleep, StopLookup, GetGroupFromFamily, GroupTimeout,
         TestGroup, TestList, UseGroup, GetEntryList, WalkOn, WalkOver,
         WalkFromEnd, WalkBack, WalkBackOver, ReleaseLookup, WaitForGroup,
         Done, Ask, Learn, Lose, Step, vars

\* No step has a null group or list in the place of one.
LEMMA ListingMoves ==
  ASSUME DInv, Next, script = ListingStart
  PROVE  \/ /\ (pc' = pc + 1 /\ pc \notin {3, 5, 6}) \/ pc' = pc
            /\ UNCHANGED <<group, entries, walk>>
         \/ pc = 3 /\ pc' = 4 /\ UNCHANGED <<entries, walk>>
         \/ pc = 5 /\ GetEntryList
         \/ pc = 6 /\ (WalkOn \/ WalkOver)
<1>1. CASE Sleep \/ StopLookup \/ ReleaseLookup \/ UseGroup
  BY <1>1, ListingSteps DEF Sleep, StopLookup, ReleaseLookup, UseGroup, At,
                            Step, held
<1>2. CASE GetGroupFromFamily \/ GroupTimeout
  BY <1>2, ListingSteps DEF GetGroupFromFamily, GroupTimeout, At, Step, held
<1>3. CASE GetEntryList \/ WalkOn \/ WalkOver
  BY <1>3, ListingSteps DEF GetEntryList, WalkOn, WalkOver, At
<1>4. CASE TestGroup \/ TestList \/ WalkFromEnd \/ WalkBack \/ WalkBackOver
  BY <1>4, ListingSteps DEF TestGroup, TestList, WalkFromEnd, WalkBack,
                            WalkBackOver, At
<1>5. CASE WaitForGroup \/ Done
  BY <1>5 DEF WaitForGroup, Done, vars, held
<1>6. ASSUME NEW n \in Nodes, Ask(n) \/ Learn(n) \/ Lose(n)
      PROVE  UNCHANGED <<pc, group, entries, walk>>
  BY <1>6 DEF Ask, Learn, Lose, held
<1> QED BY <1>1, <1>2, <1>3, <1>4, <1>5, <1>6 DEF Next, Program

LEMMA ListingKeeps == ASSUME DInv, Next PROVE ListingInv'
<1> SUFFICES ASSUME script = ListingStart PROVE ListingInv'
  BY ScriptStays DEF ListingInv
<1> USE DEF WalkStart
<1>1. script' = script
  BY ScriptStays
<1>2. /\ pc \in 1 .. 8 /\ walk.at \in Nat /\ walk.seen \in Seq(Nodes)
      /\ known \subseteq Nodes /\ (group = Null \/ group \subseteq known)
      /\ entries # Null => entries \in Seq(known)
  BY ListingSteps DEF DInv, TypeInv, DiscoveryTypeOK
<1>3. CASE /\ (pc' = pc + 1 /\ pc \notin {3, 5, 6}) \/ pc' = pc
           /\ UNCHANGED <<group, entries, walk>>
  BY <1>1, <1>2, <1>3 DEF DInv, ListingInv
<1>4. CASE pc = 3 /\ pc' = 4 /\ UNCHANGED <<entries, walk>>
  BY <1>1, <1>4 DEF DInv, ListingInv
<1>5. CASE pc = 5 /\ GetEntryList
  <2>1. /\ pc' = 6 /\ UNCHANGED <<known, group, walk>>
        /\ entries' \in SetToSeqs(known) \cup {Null}
    BY <1>5 DEF GetEntryList, Step, lookup
  <2>2. IsFiniteSet(known)
    BY <1>2, FS_Subset, DiscoveryAssumption
  <2>3. entries' # Null => entries' \in Seq(known) /\ ToSet(entries') = known
    BY <2>1, <2>2, ListHasAll
  <2>4. walk' = WalkStart /\ walk'.at = 0 /\ Len(walk'.seen) = 0
    BY <1>5, <2>1 DEF DInv, ListingInv
  <2> QED BY <1>2, <2>1, <2>3, <2>4 DEF ListingInv
<1>6. CASE pc = 6 /\ WalkOn
  <2>1. /\ pc' = pc /\ UNCHANGED <<group, entries>> /\ entries # Null
        /\ walk.at # Len(entries)
        /\ walk' = [at |-> walk.at + 1,
                    seen |-> Append(walk.seen, Entry(walk.at))]
    BY <1>6 DEF WalkOn, End
  <2>2. /\ walk.at = Len(walk.seen) /\ walk.at < Len(entries)
        /\ \A i \in 1 .. Len(walk.seen) : walk.seen[i] = entries[i]
        /\ group # Null => group \subseteq ToSet(entries)
    BY <1>2, <1>6, <2>1 DEF DInv, ListingInv
  <2>3. Entry(walk.at) = entries[walk.at + 1]
    BY <1>2, <2>2, EntryIsEntry
  <2>4. /\ walk'.at = walk.at + 1
        /\ walk'.seen = Append(walk.seen, entries[walk.at + 1])
    BY <2>1, <2>3
  <2>5. /\ Len(walk'.seen) = walk.at + 1
        /\ \A i \in 1 .. Len(walk'.seen) : walk'.seen[i] = entries[i]
    BY <1>2, <2>2, <2>4
  <2> QED BY <1>2, <1>6, <2>1, <2>2, <2>4, <2>5 DEF ListingInv
<1>7. CASE pc = 6 /\ WalkOver
  <2>1. /\ pc' = 7 /\ UNCHANGED <<group, entries, walk>>
        /\ entries # Null => walk.at = Len(entries)
    BY <1>7 DEF WalkOver, Step, End
  <2> QED BY <1>1, <1>7, <2>1 DEF DInv, ListingInv
<1> QED BY <1>3, <1>4, <1>5, <1>6, <1>7, ListingMoves

LEMMA BackwardMoves ==
  ASSUME DInv, Next, script = BackwardStart
  PROVE  \/ /\ (pc' = pc + 1 /\ pc \in {1, 2, 7}) \/ pc' = pc
            /\ UNCHANGED <<group, entries, walk>>
         \/ pc = 3 /\ GetEntryList
         \/ pc = 4 /\ TestList
         \/ pc = 5 /\ WalkFromEnd
         \/ pc = 6 /\ (WalkBack \/ WalkBackOver)
<1>1. CASE Sleep \/ StopLookup \/ ReleaseLookup
  BY <1>1, BackwardSteps DEF Sleep, StopLookup, ReleaseLookup, At, Step, held
<1>2. CASE GetEntryList \/ TestList
  BY <1>2, BackwardSteps DEF GetEntryList, TestList, At
<1>3. CASE WalkFromEnd \/ WalkBack \/ WalkBackOver
  BY <1>3, BackwardSteps DEF WalkFromEnd, WalkBack, WalkBackOver, At
<1>4. CASE \/ GetGroupFromFamily \/ GroupTimeout \/ TestGroup \/ UseGroup
           \/ WalkOn \/ WalkOver
  BY <1>4, BackwardSteps DEF GetGroupFromFamily, GroupTimeout, TestGroup,
                             UseGroup, WalkOn, WalkOver, At
<1>5. CASE WaitForGroup \/ Done
  BY <1>5 DEF WaitForGroup, Done, vars, held
<1>6. ASSUME NEW n \in Nodes, Ask(n) \/ Learn(n) \/ Lose(n)
      PROVE  UNCHANGED <<pc, group, entries, walk>>
  BY <1>6 DEF Ask, Learn, Lose, held
<1> QED BY <1>1, <1>2, <1>3, <1>4, <1>5, <1>6 DEF Next, Program

LEMMA BackwardKeeps == ASSUME DInv, Next PROVE BackwardInv'
<1> SUFFICES ASSUME script = BackwardStart PROVE BackwardInv'
  BY ScriptStays DEF BackwardInv
<1> USE DEF WalkStart
<1>1. script' = script
  BY ScriptStays
<1>2. /\ pc \in 1 .. 8 /\ walk \in [at : Nat, seen : Seq(Nodes)]
      /\ walk.at \in Nat /\ walk.seen \in Seq(Nodes)
      /\ known \subseteq Nodes
      /\ entries # Null => entries \in Seq(known)
  BY BackwardSteps DEF DInv, TypeInv, DiscoveryTypeOK
<1>3. CASE /\ (pc' = pc + 1 /\ pc \in {1, 2, 7}) \/ pc' = pc
           /\ UNCHANGED <<group, entries, walk>>
  BY <1>1, <1>2, <1>3 DEF DInv, BackwardInv
<1>4. CASE pc = 3 /\ GetEntryList
  <2>1. /\ pc' = 4 /\ UNCHANGED <<known, walk>>
        /\ entries' \in SetToSeqs(known) \cup {Null}
    BY <1>4 DEF GetEntryList, Step, lookup
  <2>2. IsFiniteSet(known)
    BY <1>2, FS_Subset, DiscoveryAssumption
  <2>3. entries' # Null => entries' \in Seq(known)
    BY <2>1, <2>2, ListHasAll
  <2>4. walk' = WalkStart /\ Len(walk'.seen) = 0
    BY <1>4, <2>1 DEF DInv, BackwardInv
  <2> QED BY <2>1, <2>3, <2>4 DEF BackwardInv
<1>5. CASE pc = 4 /\ TestList
  <2>1. /\ UNCHANGED <<entries, walk>>
        /\ pc' = 8 \/ (pc' = 5 /\ entries # Null)
    BY <1>5, BackwardSteps DEF TestList, held
  <2>2. walk = WalkStart /\ Len(walk.seen) = 0
    BY <1>5 DEF DInv, BackwardInv
  <2> QED BY <1>2, <2>1, <2>2 DEF BackwardInv
<1>6. CASE pc = 5 /\ WalkFromEnd
  <2>1. /\ pc' = 6 /\ UNCHANGED entries
        /\ walk' = [walk EXCEPT !.at = Len(entries)]
    BY <1>6 DEF WalkFromEnd, Step, End
  <2>2. walk = WalkStart /\ entries # Null
    BY <1>6 DEF DInv, BackwardInv
  <2>3. walk'.at = Len(entries) /\ Len(walk'.seen) = 0
    BY <2>1, <2>2
  <2> QED BY <1>2, <2>1, <2>2, <2>3 DEF BackwardInv
<1>7. CASE pc = 6 /\ WalkBack
  <2>1. /\ pc' = 6 /\ UNCHANGED entries /\ walk.at # 0
        /\ walk' = [at |-> walk.at - 1,
                    seen |-> Append(walk.seen, Entry(walk.at - 1))]
    BY <1>7 DEF WalkBack
  <2>2. /\ entries # Null /\ walk.at + Len(walk.seen) = Len(entries)
        /\ \A i \in 1 .. Len(walk.seen) :
             walk.seen[i] = entries[Len(entries) - i + 1]
    BY <1>7 DEF DInv, BackwardInv
  <2>3. walk.at - 1 \in Nat /\ walk.at - 1 < Len(entries)
    BY <1>2, <2>1, <2>2
  <2>4. Entry(walk.at - 1) = entries[walk.at]
    BY <1>2, <2>3, EntryIsEntry
  <2>5. /\ walk'.at = walk.at - 1
        /\ walk'.seen = Append(walk.seen, entries[walk.at])
    BY <2>1, <2>4
  <2>6. /\ Len(walk'.seen) = Len(walk.seen) + 1
        /\ \A i \in 1 .. Len(walk.seen) : walk'.seen[i] = walk.seen[i]
        /\ walk'.seen[Len(walk.seen) + 1] = entries[walk.at]
    BY <1>2, <2>5
  <2>7. walk.at = Len(entries) - (Len(walk.seen) + 1) + 1
    BY <1>2, <2>2
  <2>8. \A i \in 1 .. Len(walk'.seen) :
          walk'.seen[i] = entries[Len(entries) - i + 1]
    <3> TAKE i \in 1 .. Len(walk'.seen)
    <3>1. CASE i \in 1 .. Len(walk.seen)
      BY <3>1, <2>2, <2>6
    <3>2. CASE i = Len(walk.seen) + 1
      BY <3>2, <2>6, <2>7
    <3> QED BY <3>1, <3>2, <2>6, <1>2
  <2>9. /\ walk'.at + Len(walk'.seen) = Len(entries)
        /\ Len(walk'.seen) <= Len(entries)
    BY <1>2, <2>1, <2>2, <2>5, <2>6
  <2> QED BY <2>1, <2>2, <2>8, <2>9 DEF BackwardInv
<1>8. CASE pc = 6 /\ WalkBackOver
  <2>1. pc' = 7 /\ UNCHANGED <<entries, walk>> /\ walk.at = 0
    BY <1>8 DEF WalkBackOver, Step, held
  <2> QED BY <1>1, <1>2, <1>8, <2>1 DEF DInv, BackwardInv
<1> QED BY <1>3, <1>4, <1>5, <1>6, <1>7, <1>8, BackwardMoves

LEMMA EntryMoves ==
  ASSUME DInv, Next, script = EntryStart
  PROVE  \/ /\ (pc' = pc + 1 /\ pc \in {1, 2, 7}) \/ pc' = pc
            /\ UNCHANGED <<group, entries>>
         \/ pc = 3 /\ GetEntryList
         \/ pc = 4 /\ TestList
         \/ pc = 5 /\ (GetGroupFromFamily \/ GroupTimeout)
         \/ pc = 6 /\ TestGroup
<1>1. CASE Sleep \/ StopLookup \/ UseGroup
  BY <1>1, EntrySteps DEF Sleep, StopLookup, UseGroup, At, Step, held
<1>2. CASE \/ GetEntryList \/ TestList \/ GetGroupFromFamily
           \/ GroupTimeout \/ TestGroup
  BY <1>2, EntrySteps DEF GetEntryList, TestList, GetGroupFromFamily,
                          GroupTimeout, TestGroup, At
<1>3. CASE \/ WalkFromEnd \/ WalkBack \/ WalkBackOver \/ WalkOn \/ WalkOver
           \/ ReleaseLookup
  BY <1>3, EntrySteps DEF WalkFromEnd, WalkBack, WalkBackOver, WalkOn,
                          WalkOver, ReleaseLookup, At
<1>4. CASE WaitForGroup \/ Done
  BY <1>4 DEF WaitForGroup, Done, vars, held
<1>5. ASSUME NEW n \in Nodes, Ask(n) \/ Learn(n) \/ Lose(n)
      PROVE  UNCHANGED <<pc, group, entries>>
  BY <1>5 DEF Ask, Learn, Lose, held
<1> QED BY <1>1, <1>2, <1>3, <1>4, <1>5 DEF Next, Program

\* The group of the family of an entry has the entry, so that the call never
\* ends by its timeout.
LEMMA EntryIsMember ==
  ASSUME DInv, script = EntryStart, pc = 5
  PROVE  entries[1] \in Members
<1>1. entries \in Seq(known) /\ entries # <<>> /\ known \subseteq Nodes
  BY DEF DInv, EntryInv, TypeInv, DiscoveryTypeOK
<1>2. entries[1] \in known /\ entries[1] \in Nodes
  BY <1>1
<1>3. Wanted = CStr(FamilyField(entries[1]))
  BY EntrySteps DEF Wanted
<1>4. Wanted = <<FamilyOf[entries[1]]>>
  BY <1>2, <1>3, FieldIsRead
<1> QED BY <1>2, <1>4 DEF Members

LEMMA EntryKeeps == ASSUME DInv, Next PROVE EntryInv'
<1> SUFFICES ASSUME script = EntryStart PROVE EntryInv'
  BY ScriptStays DEF EntryInv
<1>1. script' = script
  BY ScriptStays
<1>2. /\ pc \in 1 .. 8 /\ known \subseteq Nodes
      /\ (group = Null \/ group \subseteq known)
  BY EntrySteps DEF DInv, TypeInv, DiscoveryTypeOK
<1>3. CASE /\ (pc' = pc + 1 /\ pc \in {1, 2, 7}) \/ pc' = pc
           /\ UNCHANGED <<group, entries>>
  BY <1>1, <1>2, <1>3 DEF DInv, EntryInv
<1>4. CASE pc = 3 /\ GetEntryList
  BY <1>4 DEF GetEntryList, Step, EntryInv
<1>5. CASE pc = 4 /\ TestList
  <2>1. /\ UNCHANGED entries
        /\ pc' = 8 \/ (pc' = 5 /\ entries \notin {Null, <<>>})
    BY <1>5, EntrySteps DEF TestList, held
  <2> QED BY <2>1 DEF EntryInv
<1>6. CASE pc = 5 /\ GetGroupFromFamily
  <2>1. pc' = 6 /\ UNCHANGED entries /\ group' = Members
    BY <1>6 DEF GetGroupFromFamily, Step
  <2>2. entries[1] \in Members /\ Members \in SUBSET Nodes
    BY <1>2, <1>6, EntryIsMember DEF Members
  <2>3. Members # Null
    BY <2>2, DiscoveryAssumption
  <2> QED BY <2>1, <2>2, <2>3 DEF EntryInv
<1>7. CASE pc = 5 /\ GroupTimeout
  BY <1>7, EntryIsMember DEF GroupTimeout
<1>8. CASE pc = 6 /\ TestGroup
  BY <1>8, EntrySteps DEF TestGroup, EntryInv
<1> QED BY <1>3, <1>4, <1>5, <1>6, <1>7, <1>8, EntryMoves

-----------------------------------------------------------------------------
(* The theorems.                                                           *)

LEMMA Invariance == Spec => []DInv
<1>1. Init => DInv
  BY InitEstablishes
<1>2. DInv /\ [Next]_vars => DInv'
  <2> SUFFICES ASSUME DInv, [Next]_vars PROVE DInv' OBVIOUS
  <2>1. CASE Next
    BY <2>1, TypeKeeps, ListingKeeps, BackwardKeeps, EntryKeeps DEF DInv
  <2>2. CASE UNCHANGED vars
    BY <2>2 DEF DInv, TypeInv, DiscoveryTypeOK, ListingInv, BackwardInv,
                EntryInv, vars, lookup, held
  <2> QED BY <2>1, <2>2
<1> QED BY <1>1, <1>2, PTL DEF Spec

\* For any network and families, and all the programs: the modules, the group,
\* the list and the iterator have their types, and a group is never empty.
THEOREM DiscoveryTypes == Spec => []DiscoveryTypeOK
<1>1. DInv => DiscoveryTypeOK
  BY DEF DInv, TypeInv
<1> QED BY <1>1, Invariance, PTL

\* However many modules answer, and whenever: the loops over the entry list
\* visit each entry once, in order or in the opposite order, and no more.
THEOREM WalkIsComplete == Spec => []WalkVisitsAll
<1>1. DInv => WalkVisitsAll
  <2> SUFFICES ASSUME DInv, entries # Null PROVE WalkVisitsAll
    BY DEF WalkVisitsAll
  <2> DEFINE n == Len(entries)
             seen == walk.seen
             back == Reverse(entries)
  <2>1. /\ entries \in Seq(known) /\ known \subseteq Nodes
        /\ entries \in Seq(Nodes) /\ n \in Nat
        /\ seen \in Seq(Nodes) /\ Len(seen) \in Nat
    BY DEF DInv, TypeInv, DiscoveryTypeOK
  <2>2. /\ back \in Seq(Nodes) /\ Len(back) = n
        /\ \A i \in 1 .. n : back[i] = entries[n - i + 1]
    <3>1. \A i \in 1 .. n : n - i + 1 \in 1 .. n /\ entries[n - i + 1] \in Nodes
      BY <2>1
    <3> QED BY <2>1, <3>1 DEF Reverse
  <2> HIDE DEF back
  <2>3. ASSUME script = ListingStart
        PROVE  /\ IsPrefix(seen, entries)
               /\ At("release") => seen = entries
    <3>1. /\ Len(seen) <= n
          /\ \A i \in 1 .. Len(seen) : seen[i] = entries[i]
      BY <2>3 DEF DInv, ListingInv
    <3>2. IsPrefix(seen, entries)
      BY <2>1, <3>1, PrefixByElements
    <3>3. At("release") => Len(seen) = n
      BY <2>3, ListingSteps DEF DInv, ListingInv, At
    <3> QED BY <2>1, <3>1, <3>2, <3>3, SeqEqual
  <2>4. ASSUME script = BackwardStart
        PROVE  IsPrefix(seen, back) /\ (At("release") => seen = back)
    <3>1. /\ Len(seen) <= n
          /\ \A i \in 1 .. Len(seen) : seen[i] = entries[n - i + 1]
      BY <2>4 DEF DInv, BackwardInv
    <3>2. \A i \in 1 .. Len(seen) : seen[i] = back[i]
      BY <2>1, <2>2, <3>1
    <3>3. IsPrefix(seen, back)
      BY <2>1, <2>2, <3>1, <3>2, PrefixByElements
    <3>4. At("release") => Len(seen) = n
      BY <2>4, BackwardSteps DEF DInv, BackwardInv, At
    <3> QED BY <2>1, <2>2, <3>2, <3>3, <3>4, SeqEqual
  <2> QED BY <2>3, <2>4 DEF WalkVisitsAll, back
<1> QED BY <1>1, Invariance, PTL

\* The list that 01_lookup prints has every module of its group, however many
\* answers arrive between the two.
THEOREM GroupIsListed == Spec => []MembersAreListed
<1>1. DInv => MembersAreListed
  BY DEF DInv, ListingInv, MembersAreListed
<1> QED BY <1>1, Invariance, PTL

\* The family of any entry, in the form that operator[] returns it, names a
\* group that has the entry, whatever the families are.
THEOREM EntryFindsItsGroup == Spec => []EntryNamesItsGroup
<1>1. DInv => EntryNamesItsGroup
  BY EntrySteps DEF DInv, EntryInv, EntryNamesItsGroup, At
<1> QED BY <1>1, Invariance, PTL
=============================================================================
