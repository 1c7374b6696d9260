---------------------------- MODULE FeedbackProofs ----------------------------
(***************************************************************************)
(* FeedbackSession, for any programs, group size and bounds: the types, on *)
(* which FeedbackProgramProofs builds.  The inductive invariant says where *)
(* an answer can be: on its way, stored, or taken, and in one of the three *)
(* only, for each number that was given.                                   *)
(***************************************************************************)
EXTENDS FeedbackSession, TLAPS

\* Answers on their way and the stored one have numbers of their own.
Apart ==
  /\ \A a, b \in answers : a.no = b.no => a = b
  /\ stored # None => stored.no > 0 /\ \A a \in answers : a.no # stored.no
  /\ \A a \in answers : a.no > 0

\* What was taken has been given, and is neither on its way nor stored.
TakenIsGone ==
  \A i \in DOMAIN readings : readings[i].got =>
    /\ readings[i].answer.no \in 1 .. clock
    /\ \A a \in answers : a.no # readings[i].answer.no
    /\ stored # None => stored.no # readings[i].answer.no

\* An answer that was taken has a number, which no other one has.
TakenOnce ==
  \A i, j \in DOMAIN readings :
    /\ readings[i].got => readings[i].answer.no > 0
    /\ readings[i].got /\ readings[j].got /\ i # j =>
         readings[i].answer.no # readings[j].answer.no

IInv == FeedbackTypeOK /\ Apart /\ TakenIsGone /\ TakenOnce

USE FeedbackAssumption DEF FeedbackAssumption

LEMMA NoneIsNoAnswer == None \notin Answers
  BY DEF Answers, Modules

LEMMA InitEstablishes == Init => IInv
<1> SUFFICES ASSUME Init PROVE IInv OBVIOUS
<1>1. /\ held = Blank /\ Blank \in Answers /\ Blank.no = 0 /\ Blank.reset = 0
      /\ stored = None /\ answers = {} /\ clock = 0 /\ resets = 0
  BY DEF Init, Blank, Answers
<1>2. readings = <<>> /\ readings \in Seq(Readings) /\ DOMAIN readings = {}
  BY DEF Init
<1>3. FeedbackTypeOK
  <2>1. script \in Programs /\ pc \in 1 .. Len(script) + 1
    BY DEF Init
  <2>2. answers \cup {held} \cup ({stored} \ {None}) = {Blank}
    BY <1>1
  <2>3. polling \in BOOLEAN
    BY Zenon DEF Init
  <2>4. polls \in 0 .. MaxPolls /\ requests \in Nat /\ resetting \in Nat
    BY SMT DEF Init
  <2> QED BY <1>1, <1>2, <2>1, <2>2, <2>3, <2>4 DEF FeedbackTypeOK
<1>4. Apart /\ TakenIsGone /\ TakenOnce
  BY <1>1, <1>2 DEF Apart, TakenIsGone, TakenOnce
<1> QED BY <1>3, <1>4 DEF IInv

-----------------------------------------------------------------------------
(* The program's steps.                                                    *)

LEMMA StepType ==
  ASSUME IInv, pc \in DOMAIN script, Step, UNCHANGED script
  PROVE  script' \in Programs /\ pc' \in 1 .. Len(script') + 1
  BY DEF IInv, FeedbackTypeOK, Step

\* Steps that leave answers, readings, and what is stored and held alone.
LEMMA QuietKeeps ==
  ASSUME IInv, UNCHANGED <<answers, clock, stored, held, readings>>,
         script' \in Programs, pc' \in 1 .. Len(script') + 1,
         polling' \in BOOLEAN, polls' \in 0 .. MaxPolls, requests' \in Nat,
         resetting' \in Nat, resets' \in Nat, resets' >= resets
  PROVE  IInv'
<1>1. FeedbackTypeOK'
  <2>1. /\ answers' = answers /\ stored' = stored /\ held' = held
        /\ clock' = clock /\ readings' = readings
    OBVIOUS
  <2>2. \A a \in answers \cup {held} \cup ({stored} \ {None}) :
          a \in Answers /\ a.no <= clock /\ a.reset <= resets'
    BY DEF IInv, FeedbackTypeOK, Answers
  <2> QED BY <2>1, <2>2 DEF IInv, FeedbackTypeOK
<1>2. Apart' /\ TakenIsGone' /\ TakenOnce'
  BY DEF IInv, Apart, TakenIsGone, TakenOnce
<1> QED BY <1>1, <1>2 DEF IInv

LEMMA GetKeeps == ASSUME IInv, GetNextFeedback PROVE IInv'
<1> DEFINE r == [answer |-> stored, got |-> TRUE, resets |-> resets,
                 errors |-> {m \in Modules : ~DiffersFromNaN(stored, m)}]
<1>1. /\ stored # None /\ stored \in Answers /\ stored' = None
      /\ held' = stored /\ readings' = Append(readings, r)
      /\ UNCHANGED <<library, script, drive>>
      /\ script' \in Programs /\ pc' \in 1 .. Len(script') + 1
  BY StepType DEF GetNextFeedback, At, Printed, IInv, FeedbackTypeOK
<1>2. r \in Readings /\ r.got = TRUE /\ r.answer = stored
  BY <1>1 DEF Readings, IInv, FeedbackTypeOK
<1> HIDE DEF r
<1>3. /\ readings \in Seq(Readings) /\ readings' \in Seq(Readings)
      /\ DOMAIN readings' = 1 .. Len(readings) + 1
      /\ readings'[Len(readings) + 1] = r
      /\ \A i \in DOMAIN readings :
           i \in 1 .. Len(readings) /\ readings'[i] = readings[i]
  BY <1>1, <1>2 DEF IInv, FeedbackTypeOK
<1>4. \A i \in DOMAIN readings' :
        \/ i \in DOMAIN readings /\ readings'[i] = readings[i]
        \/ i = Len(readings) + 1 /\ readings'[i] = r
  BY <1>3
<1>5. FeedbackTypeOK'
  BY <1>1, <1>3 DEF IInv, FeedbackTypeOK, library, drive
<1>6. Apart'
  BY <1>1 DEF IInv, Apart, library
<1>7. stored.no \in 1 .. clock /\ \A a \in answers : a.no # stored.no
  BY <1>1 DEF IInv, FeedbackTypeOK, Apart, Answers
<1>8. TakenIsGone'
  BY <1>1, <1>2, <1>4, <1>7 DEF IInv, TakenIsGone, library
<1>9. TakenOnce'
  <2>1. \A i \in DOMAIN readings :
          readings[i].got => readings[i].answer.no # stored.no
    BY <1>1 DEF IInv, TakenIsGone
  <2> QED BY <1>2, <1>4, <1>7, <2>1 DEF IInv, TakenOnce
<1> QED BY <1>5, <1>6, <1>8, <1>9 DEF IInv

LEMMA TimeoutKeeps == ASSUME IInv, Timeout PROVE IInv'
<1> DEFINE r == [answer |-> held, got |-> FALSE, resets |-> resets,
                 errors |-> {m \in Modules : ~DiffersFromNaN(held, m)}]
<1>1. /\ UNCHANGED <<library, script, held, stored, drive>>
      /\ readings' = readings \/ readings' = Append(readings, r)
      /\ script' \in Programs /\ pc' \in 1 .. Len(script') + 1
  BY StepType DEF Timeout, At, Printed
<1>2. r \in Readings /\ r.got = FALSE
  BY DEF Readings, IInv, FeedbackTypeOK
<1> HIDE DEF r
<1>3. CASE readings' = readings
  BY <1>1, <1>3 DEF IInv, FeedbackTypeOK, Apart, TakenIsGone, TakenOnce,
                    library, drive
<1>4. CASE readings' = Append(readings, r)
  <2>1. readings \in Seq(Readings) /\ readings' \in Seq(Readings)
    BY <1>2, <1>4 DEF IInv, FeedbackTypeOK
  <2>2. \A i \in DOMAIN readings' :
          \/ i \in DOMAIN readings /\ readings'[i] = readings[i]
          \/ readings'[i] = r
    BY <1>4, <2>1, <1>2
  <2>3. FeedbackTypeOK' /\ Apart'
    BY <1>1, <2>1 DEF IInv, FeedbackTypeOK, Apart, library, drive
  <2>4. TakenIsGone' /\ TakenOnce'
    BY <1>1, <1>2, <2>2 DEF IInv, TakenIsGone, TakenOnce, library
  <2> QED BY <2>3, <2>4 DEF IInv
<1> QED BY <1>1, <1>3, <1>4

LEMMA ProgramKeeps == ASSUME IInv, Program PROVE IInv'
<1> USE DEF IInv, FeedbackTypeOK
<1>1. CASE SendFeedbackRequest
  <2>1. script' \in Programs /\ pc' \in 1 .. Len(script') + 1
    BY <1>1, StepType DEF SendFeedbackRequest, At, program
  <2>2. requests' \in Nat
    BY <1>1 DEF SendFeedbackRequest
  <2>3. UNCHANGED <<polling, polls, answers, clock, script, held,
                    readings, stored, resetting, resets>>
    BY <1>1 DEF SendFeedbackRequest, program, drive
  <2> QED BY <2>1, <2>2, <2>3, QuietKeeps
<1>2. CASE SetFeedbackFrequencyHz
  <2>1. script' \in Programs /\ pc' \in 1 .. Len(script') + 1
    BY <1>2, StepType DEF SetFeedbackFrequencyHz, At, program
  <2>2. polling' \in BOOLEAN
    BY <1>2 DEF SetFeedbackFrequencyHz, At
  <2>3. UNCHANGED <<polls, requests, answers, clock, script, held,
                    readings, stored, resetting, resets>>
    BY <1>2 DEF SetFeedbackFrequencyHz, program, drive
  <2> QED BY <2>1, <2>2, <2>3, QuietKeeps
<1>3. CASE ResetLinearCount
  BY <1>3, StepType, QuietKeeps DEF ResetLinearCount, At, library, program,
     IInv, FeedbackTypeOK
<1>4. CASE Sleep
  BY <1>4, StepType, QuietKeeps DEF Sleep, At, library, program, drive, IInv,
     FeedbackTypeOK
<1> QED BY <1>1, <1>2, <1>3, <1>4, GetKeeps, TimeoutKeeps
        DEF Program

-----------------------------------------------------------------------------
(* The steps of library and network.                                       *)

LEMMA PollKeeps == ASSUME IInv, Poll PROVE IInv'
<1>1. /\ polls' \in 0 .. MaxPolls /\ requests' \in Nat
      /\ UNCHANGED <<polling, answers, clock, script, held, readings,
                     pc, stored, resetting, resets>>
  BY DEF Poll, IInv, FeedbackTypeOK, program, drive
<1> QED BY <1>1, QuietKeeps DEF IInv, FeedbackTypeOK

\* A new answer gets the next number, which no other has.
LEMMA AnswerKeeps == ASSUME IInv, Answer PROVE IInv'
<1> USE DEF IInv
<1>1. PICK k \in SUBSET Modules :
        answers' =
          answers \cup {[no |-> clock + 1, reset |-> resets, known |-> k]}
  BY DEF Answer
<1> DEFINE new == [no |-> clock + 1, reset |-> resets, known |-> k]
<1>2. /\ answers' = answers \cup {new} /\ clock' = clock + 1
      /\ requests' \in Nat
      /\ UNCHANGED <<polling, polls, script, held, readings, pc, stored,
                     resetting, resets>>
  BY <1>1 DEF Answer, program, drive, FeedbackTypeOK
<1>3. new \in Answers /\ new.no = clock + 1 /\ new.reset = resets
  BY DEF Answers, FeedbackTypeOK
<1> HIDE DEF new
<1>4. FeedbackTypeOK'
  <2>1. \A a \in answers' \cup {held} \cup ({stored} \ {None}) :
          a \in Answers /\ a.no <= clock + 1 /\ a.reset <= resets
    BY <1>2, <1>3 DEF FeedbackTypeOK, Answers
  <2> QED BY <1>2, <2>1 DEF FeedbackTypeOK
<1>5. Apart'
  <2>1. \A a \in answers : a.no # clock + 1 /\ a.no \in Nat
    BY DEF FeedbackTypeOK, Answers
  <2>2. stored # None => stored.no # clock + 1
    BY DEF FeedbackTypeOK, Answers
  <2>3. clock + 1 > 0
    BY DEF FeedbackTypeOK
  <2> QED BY <1>2, <1>3, <2>1, <2>2, <2>3 DEF Apart
<1>6. TakenIsGone'
  <2>1. clock \in Nat BY DEF FeedbackTypeOK
  <2> QED BY <1>2, <1>3, <2>1 DEF TakenIsGone
<1>7. TakenOnce'
  BY <1>2 DEF TakenOnce
<1> QED BY <1>4, <1>5, <1>6, <1>7

LEMMA ArriveKeeps == ASSUME IInv, NEW a \in answers, Arrive(a) PROVE IInv'
<1> USE DEF IInv
<1>1. /\ answers' = answers \ {a} /\ stored' = a
      /\ UNCHANGED <<polling, polls, requests, clock, script, held,
                     readings, pc, resetting, resets>>
  BY DEF Arrive, program, drive
<1>2. FeedbackTypeOK'
  BY <1>1 DEF FeedbackTypeOK
<1>3. Apart' /\ TakenIsGone' /\ TakenOnce'
  BY <1>1 DEF Apart, TakenIsGone, TakenOnce
<1> QED BY <1>2, <1>3

LEMMA LoseKeeps == ASSUME IInv, Lose PROVE IInv'
<1> USE DEF IInv
<1>1. /\ answers' \subseteq answers /\ requests' \in Nat
      /\ UNCHANGED <<polling, polls, clock, script, held, readings, pc,
                     stored, resetting, resets>>
  BY DEF Lose, program, drive, FeedbackTypeOK
<1>2. FeedbackTypeOK'
  BY <1>1 DEF FeedbackTypeOK
<1>3. Apart' /\ TakenIsGone' /\ TakenOnce'
  BY <1>1 DEF Apart, TakenIsGone, TakenOnce
<1> QED BY <1>2, <1>3

\* A reset that is executed or lost touches no answer.
LEMMA DriveKeeps == ASSUME IInv, ExecuteReset \/ LoseReset PROVE IInv'
<1>1. /\ resetting' \in Nat /\ resets' \in Nat /\ resets' >= resets
      /\ UNCHANGED <<polling, polls, requests, answers, clock, script, held,
                     readings, pc, stored>>
  BY DEF ExecuteReset, LoseReset, IInv, FeedbackTypeOK, library, program
<1> QED BY <1>1, QuietKeeps DEF IInv, FeedbackTypeOK

-----------------------------------------------------------------------------
LEMMA StepKeeps == IInv /\ [Next]_vars => IInv'
<1> SUFFICES ASSUME IInv, [Next]_vars PROVE IInv' OBVIOUS
<1>1. CASE UNCHANGED vars
  BY <1>1 DEF vars, library, program, drive, IInv, FeedbackTypeOK, Apart, TakenIsGone,
              TakenOnce
<1> QED BY <1>1, ProgramKeeps, PollKeeps, AnswerKeeps, ArriveKeeps, LoseKeeps,
           DriveKeeps
        DEF Next, Network, Done

\* The inductive invariant is one.
THEOREM Invariance == Spec => []IInv
  BY InitEstablishes, StepKeeps, PTL DEF Spec

\* The variables keep their types, and only answers that were given exist.
THEOREM TypeCorrect == Spec => []FeedbackTypeOK
<1>1. IInv => FeedbackTypeOK BY DEF IInv
<1> QED BY <1>1, Invariance, PTL
=============================================================================
