---------------------------- MODULE FeedbackSession ----------------------------
(***************************************************************************)
(* A program that reads a group: it asks for feedback, by                  *)
(* Group::sendFeedbackRequest or by a frequency at which a thread of the   *)
(* library asks, and takes what has come by Group::getNextFeedback, into   *)
(* one GroupFeedback that it prints (group.cpp:53-70 and the programs      *)
(* under examples/src).  Between two loops it may reset its drives, whose  *)
(* counts the answers tell; of the drives one is followed.                 *)
(*                                                                         *)
(* The library is modelled by aios.h (458-521): an answer that arrives is  *)
(* stored, in the place of the one before; getNextFeedback takes the       *)
(* stored answer, or waits for one until its timeout.                      *)
(***************************************************************************)
EXTENDS Naturals, Sequences

CONSTANTS
  N,         \* the number of modules in the group
  None,      \* no stored answer
  Programs,  \* the programs: sequences of steps
  Rounds,    \* bound: how often each loop of a program runs
  MaxPolls   \* bound: how often the library's thread asks

ASSUME FeedbackAssumption ==
  /\ N \in Nat \ {0} /\ Rounds \in Nat /\ MaxPolls \in Nat
  /\ None \notin [no : Nat, reset : Nat, known : SUBSET (1 .. N)]
  /\ \A s \in Programs :
       /\ Len(s) \in Nat /\ DOMAIN s = 1 .. Len(s)
       /\ \A i \in DOMAIN s : s[i].op = "frequency" => s[i].on \in BOOLEAN

Modules == 1 .. N

\* One answer of the group: its number in the order they were given, the
\* number of resets the drive had executed, the modules that sent a position
\* and not NaN.  What a new GroupFeedback holds is no answer.
Answers == [no : Nat, reset : Nat, known : SUBSET Modules]
Blank == [no |-> 0, reset |-> 0, known |-> {}]

\* What a program prints: an answer, whether getNextFeedback has just returned
\* it, the resets executed by then, and the modules reported as errors.
Readings ==
  [answer : Answers, got : BOOLEAN, resets : Nat, errors : SUBSET Modules]

-----------------------------------------------------------------------------
(* The programs.  Sleeps shorter than a round trip promise nothing and are *)
(* no steps; "checked" is whether the result of getNextFeedback is tested. *)

Request == <<[op |-> "request"]>>
Get(checked) == <<[op |-> "get", checked |-> checked]>>
Frequency(on) == <<[op |-> "frequency", on |-> on]>>
Pause == <<[op |-> "sleep"]>>
Reset == <<[op |-> "reset"]>>
Repeat(steps) == [i \in 1 .. Rounds * Len(steps) |->
                    steps[((i - 1) % Len(steps)) + 1]]

\* A plausible error, which Spec does not use: the result of
\* getNextFeedback is ignored here too.
ReadingUnchecked ==
  Frequency(TRUE) \o Repeat(Get(FALSE)) \o Frequency(FALSE) \o Pause
    \o Frequency(TRUE)

\* examples/src/reset_linear_count.cpp: what its three loops print.
ResetProgram ==
  Repeat(Request \o Get(FALSE)) \o Pause \o Repeat(Request \o Get(FALSE))
    \o Pause \o Reset \o Pause \o Repeat(Request \o Get(FALSE))

\* examples/src/03_feedback.cpp, from the first frequency on.
ReadingProgram ==
  Frequency(TRUE) \o Repeat(Get(TRUE)) \o Frequency(FALSE) \o Pause
    \o Frequency(TRUE)

\* The loop of examples/src/05_feedback_command_async.cpp.  It never asks for
\* feedback; nor does 08_pos_pass_through.cpp, whose loop has no end.
UnaskedProgram == Repeat(Get(FALSE))

Examples == {ResetProgram, ReadingProgram, UnaskedProgram}

VARIABLES
  script,    \* the program that runs
  pc,        \* its next step
  polling,   \* the library's thread asks for feedback
  polls,     \* how often it has asked
  requests,  \* requests on their way to the group
  answers,   \* answers on their way back
  resetting, \* resets on their way to the drive
  stored,    \* the answer the library keeps, or None
  held,      \* what the program's GroupFeedback holds
  clock,     \* history: the answers given so far
  resets,    \* history: the resets the drive has executed
  readings   \* history: what the program has printed

library == <<polling, polls, requests, answers, clock>>
program == <<script, held, readings>>
drive == <<resetting, resets>>
vars == <<library, program, pc, stored, drive>>

Init ==
  /\ script \in Programs
  /\ pc = 1
  /\ polling = FALSE
  /\ polls = 0
  /\ requests = 0
  /\ answers = {}
  /\ stored = None
  /\ held = Blank
  /\ resetting = 0
  /\ clock = 0
  /\ resets = 0
  /\ readings = <<>>

-----------------------------------------------------------------------------
(* The program                                                             *)

At(op) == pc \in DOMAIN script /\ script[pc].op = op
Step == pc' = pc + 1

\* The test that the programs make: position != quiet_NaN().  NaN differs from every
\* number and from itself.
DiffersFromNaN(f, m) == TRUE

\* sendFeedbackRequest; no program looks at its result.
SendFeedbackRequest ==
  /\ At("request") /\ Step
  /\ requests' = requests + 1 \/ UNCHANGED requests
  /\ UNCHANGED <<polling, polls, answers, clock, program, stored, drive>>

\* setFeedbackFrequencyHz, to 0 or not; if it fails no program takes notice.
SetFeedbackFrequencyHz ==
  /\ At("frequency") /\ Step
  /\ polling' = script[pc].on \/ UNCHANGED polling
  /\ UNCHANGED <<polls, requests, answers, clock, program, stored, drive>>

\* What the program prints of f, for each module: the position, or an error.
Printed(f, got) ==
  readings' = Append(readings,
    [answer |-> f, got |-> got, resets |-> resets,
     errors |-> {m \in Modules : ~DiffersFromNaN(f, m)}])

\* A plausible error, which Spec does not use: success without an answer.
GetWithoutAnswer ==
  /\ At("get") /\ Step
  /\ held' = stored
  /\ stored' = None
  /\ UNCHANGED <<library, script, readings, drive>>

\* getNextFeedback returns true: an answer was stored, or has just come.
GetNextFeedback ==
  /\ At("get") /\ stored # None /\ Step
  /\ held' = stored
  /\ stored' = None
  /\ Printed(stored, TRUE)
  /\ UNCHANGED <<library, script, drive>>

\* A plausible error, which Spec does not use: a negative timeout, with which
\* getNextFeedback goes on waiting for an answer.
TimeoutNever == At("get") /\ stored = None /\ UNCHANGED vars

\* getNextFeedback returns false at its timeout, and has written nothing.
Timeout ==
  /\ At("get") /\ stored = None /\ Step
  /\ IF script[pc].checked THEN UNCHANGED readings ELSE Printed(held, FALSE)
  /\ UNCHANGED <<library, script, held, stored, drive>>

\* resetLinearCount and sendCommand, whose result no program looks at.
ResetLinearCount ==
  /\ At("reset") /\ Step
  /\ resetting' = resetting + 1 \/ UNCHANGED resetting
  /\ UNCHANGED <<library, program, stored, resets>>

\* A plausible error, which Spec does not use: a pause too short.
SleepTooShort ==
  At("sleep") /\ Step /\ UNCHANGED <<library, program, stored, drive>>

\* sleep_for(seconds(1)): longer than a round trip.  A thread that goes on
\* asking has something on its way at any time.
Sleep ==
  /\ At("sleep") /\ Step
  /\ resetting = 0
  /\ polling \/ (requests = 0 /\ answers = {})
  /\ UNCHANGED <<library, program, stored, drive>>

-----------------------------------------------------------------------------
(* The library, the network and the modules                                *)

\* The library's thread asks, at the frequency that was set.
Poll ==
  /\ polling /\ polls < MaxPolls
  /\ polls' = polls + 1
  /\ requests' = requests + 1
  /\ UNCHANGED <<polling, answers, clock, program, pc, stored, drive>>

\* A request reaches the group, whose modules answer; one may have no position.
Answer ==
  /\ requests > 0
  /\ requests' = requests - 1
  /\ clock' = clock + 1
  /\ \E k \in {Modules, Modules \ {1}} :
       answers' = answers \cup {[no |-> clock', reset |-> resets, known |-> k]}
  /\ UNCHANGED <<polling, polls, program, pc, stored, drive>>

\* An answer arrives, perhaps before an earlier one.
Arrive(a) ==
  /\ answers' = answers \ {a}
  /\ stored' = a
  /\ UNCHANGED <<polling, polls, requests, clock, program, pc, drive>>

\* The drive executes a reset that has reached it.
ExecuteReset ==
  /\ resetting > 0
  /\ resetting' = resetting - 1
  /\ resets' = resets + 1
  /\ UNCHANGED <<library, program, pc, stored>>

\* A reset is lost.
LoseReset ==
  /\ resetting > 0
  /\ resetting' = resetting - 1
  /\ UNCHANGED <<library, program, pc, stored, resets>>

\* A request or an answer is lost.
Lose ==
  /\ \/ requests > 0 /\ requests' = requests - 1 /\ UNCHANGED answers
     \/ \E a \in answers : answers' = answers \ {a} /\ UNCHANGED requests
  /\ UNCHANGED <<polling, polls, clock, program, pc, stored, drive>>

\* main has returned.
Done == pc > Len(script) /\ UNCHANGED vars

Program ==
  \/ SendFeedbackRequest \/ SetFeedbackFrequencyHz \/ GetNextFeedback \/ Timeout
  \/ ResetLinearCount \/ Sleep

Network == \/ Answer \/ Lose \/ \E a \in answers : Arrive(a)
           \/ ExecuteReset \/ LoseReset

Next == Program \/ Poll \/ Network \/ Done

Spec == Init /\ [][Next]_vars

\* The program runs on, and nothing is on its way forever.
FairSpec == Spec /\ WF_vars(Program) /\ WF_vars(Network)

-----------------------------------------------------------------------------
(* Properties                                                              *)

\* The variables have their types; an answer on its way, stored or held was
\* given, after at most as many resets as there were.
FeedbackTypeOK ==
  /\ script \in Programs /\ pc \in 1 .. Len(script) + 1
  /\ polling \in BOOLEAN /\ polls \in 0 .. MaxPolls
  /\ requests \in Nat /\ clock \in Nat /\ resetting \in Nat /\ resets \in Nat
  /\ \A a \in answers \cup {held} \cup ({stored} \ {None}) :
       a \in Answers /\ a.no <= clock /\ a.reset <= resets
  /\ readings \in Seq(Readings)

\* After a reset, which the drive executes some time after it was sent, at
\* most one answer that is taken tells of the time before it: the late answer
\* to a request that timed out before, which is stored.  The pauses of
\* reset_linear_count.cpp, before the reset and after it, exclude a second.
AtMostOneStaleAnswer ==
  \A i, j \in DOMAIN readings :
    (/\ readings[i].got /\ readings[i].answer.reset < readings[i].resets
     /\ readings[j].got /\ readings[j].answer.reset < readings[j].resets
     /\ readings[i].resets = readings[j].resets) => i = j

\* 03_feedback.cpp, which tests the result of getNextFeedback, prints no
\* answer twice and nothing that is no answer.
EachAnswerPrintedOnce ==
  script = ReadingProgram =>
    \A i, j \in DOMAIN readings :
      /\ readings[i].answer.no > 0
      /\ i # j => readings[i].answer.no # readings[j].answer.no

\* Without any answer too, the programs come to their end: each wait has a
\* timeout, and a pause lasts no longer than what is on its way.
ProgramEnds == <>(pc > Len(script))

\* A module without a position is reported: the program prints "feedback
\* error!" if the position is NaN (examples/src/reset_linear_count.cpp:32-39).
ErrorsReported ==
  \A i \in DOMAIN readings :
    readings[i].got => readings[i].errors = Modules \ readings[i].answer.known
=============================================================================
