------------------------- MODULE FeedbackProgramProofs -------------------------
(***************************************************************************)
(* FeedbackSession, for what depends on the program that runs: the late    *)
(* answers after a reset, and the answers that are printed.  Each is       *)
(* proved for every program that keeps a rule, and the rule for the        *)
(* examples, with loops of any length.                                     *)
(***************************************************************************)
EXTENDS FeedbackProofs, SequenceTheorems

Has(s, op) == \E i \in DOMAIN s : s[i].op = op

\* The result of getNextFeedback is tested each time.
TestsResults(s) == \A i \in DOMAIN s : s[i].op = "get" => s[i].checked

\* A program that resets pauses before it does and after, and has no thread
\* ask.
PausesAroundResets(s) ==
  \A i \in DOMAIN s : s[i].op = "reset" =>
    /\ i - 1 \in DOMAIN s /\ s[i - 1].op = "sleep"
    /\ i + 1 \in DOMAIN s => s[i + 1].op = "sleep"
    /\ ~Has(s, "frequency")

-----------------------------------------------------------------------------
(* The examples.                                                           *)

\* A loop has the steps of its body.
LEMMA RepeatProperties ==
  ASSUME NEW S, NEW steps \in Seq(S), Len(steps) \in {1, 2, 3}
  PROVE  /\ Repeat(steps) \in Seq(S)
         /\ \A i \in 1 .. Len(Repeat(steps)) :
              Repeat(steps)[i] = steps[((i - 1) % Len(steps)) + 1]
<1> DEFINE n == Len(steps)
           e(i) == steps[((i - 1) % n) + 1]
<1>1. n = 1 \/ n = 2 \/ n = 3
  OBVIOUS
<1>2. \A i \in 1 .. n : steps[i] \in S
  OBVIOUS
<1> HIDE DEF n
<1>3. Rounds * n \in Nat
  BY <1>1, FeedbackAssumption
<1>4. \A j \in Nat : (j % n) + 1 \in 1 .. n
  <2>1. \A j \in Nat : j % 1 = 0 /\ j % 2 \in 0 .. 1 /\ j % 3 \in 0 .. 2
    OBVIOUS
  <2> QED BY <1>1, <2>1
<1>5. \A i \in 1 .. Rounds * n : e(i) \in S
  <2> TAKE i \in 1 .. Rounds * n
  <2>1. i - 1 \in Nat
    BY <1>3
  <2> QED BY <2>1, <1>2, <1>4
<1> QED BY <1>3, <1>5 DEF Repeat, n

LEMMA LoopsOf ==
  ASSUME NEW S, NEW a \in Seq(S), NEW b \in Seq(S), NEW c \in Seq(S),
         Len(a) = 1, Len(b) = 1, Len(c) = 1
  PROVE  /\ Repeat(a) \in Seq(S)
         /\ Repeat(a \o b) \in Seq(S)
         /\ Repeat(a \o b \o c) \in Seq(S)
<1>1. a \o b \in Seq(S) /\ Len(a \o b) = 2
  BY ConcatProperties
<1> DEFINE ab == a \o b
<1> HIDE DEF ab
<1>2. ab \o c \in Seq(S) /\ Len(ab \o c) = 3
  BY <1>1, ConcatProperties DEF ab
<1>3. Repeat(a) \in Seq(S) /\ Repeat(ab) \in Seq(S)
  BY <1>1, RepeatProperties DEF ab
<1>4. Repeat(ab \o c) \in Seq(S)
  BY <1>2, RepeatProperties
<1> QED BY <1>3, <1>4 DEF ab

\* What is joined has the steps of both parts.
IsJoin(S, s, t, j) ==
  /\ j \in Seq(S) /\ Len(j) = Len(s) + Len(t)
  /\ \A i \in 1 .. Len(s) : j[i] = s[i]
  /\ \A i \in 1 .. Len(t) : j[Len(s) + i] = t[i]

LEMMA Joined ==
  ASSUME NEW S, NEW s \in Seq(S), NEW t \in Seq(S), NEW j, j = s \o t
  PROVE  IsJoin(S, s, t, j)
<1>1. Len(s) \in Nat /\ Len(t) \in Nat
  OBVIOUS
<1>2. /\ s \o t \in Seq(S) /\ Len(s \o t) = Len(s) + Len(t)
      /\ \A i \in 1 .. Len(s) : (s \o t)[i] = s[i]
      /\ \A i \in 1 .. Len(t) : (s \o t)[Len(s) + i] = t[i]
  BY <1>1, ConcatProperties
<1> QED BY <1>2 DEF IsJoin

LEMMA ReadingTests == TestsResults(ReadingProgram)
<1> DEFINE Fine == {Get(TRUE)[1], Frequency(TRUE)[1], Frequency(FALSE)[1],
                    Pause[1]}
<1>1. \A x \in Fine : x.op = "get" => x.checked
  BY DEF Get, Frequency, Pause
<1>2. /\ Get(TRUE) \in Seq(Fine) /\ Len(Get(TRUE)) = 1
      /\ Frequency(TRUE) \in Seq(Fine) /\ Frequency(FALSE) \in Seq(Fine)
      /\ Pause \in Seq(Fine)
  BY DEF Get, Frequency, Pause
<1> HIDE DEF Fine
<1>3. Repeat(Get(TRUE)) \in Seq(Fine)
  BY <1>2, RepeatProperties
<1>4. ReadingProgram \in Seq(Fine)
  BY <1>2, <1>3, ConcatProperties DEF ReadingProgram
<1> QED BY <1>1, <1>4 DEF TestsResults

\* Steps that are no reset and start no thread.
Harmless == {Request[1], Get(FALSE)[1], Pause[1]}

LEMMA HarmlessSteps ==
  /\ \A x \in Harmless : x.op \notin {"reset", "frequency"}
  /\ Request \in Seq(Harmless) /\ Len(Request) = 1
  /\ Get(FALSE) \in Seq(Harmless) /\ Len(Get(FALSE)) = 1
  /\ Pause \in Seq(Harmless) /\ Len(Pause) = 1 /\ Pause[1].op = "sleep"
  /\ Reset \in Seq(Harmless \cup {Reset[1]}) /\ Len(Reset) = 1
  /\ Reset[1].op = "reset"
  BY DEF Harmless, Request, Get, Pause, Reset

\* One reset, between two pauses.
LEMMA ResetBetweenPauses ==
  ASSUME NEW s \in Seq(Harmless), NEW t \in Seq(Harmless)
  PROVE  PausesAroundResets(s \o Pause \o Reset \o Pause \o t)
<1> DEFINE All == Harmless \cup {Reset[1]}
           n == Len(s)
           m == Len(t)
<1>0. /\ s \in Seq(All) /\ t \in Seq(All) /\ Pause \in Seq(All)
      /\ Reset \in Seq(All) /\ n \in Nat /\ m \in Nat
      /\ Len(Pause) = 1 /\ Len(Reset) = 1
  BY HarmlessSteps
<1>1. PICK a : a = s \o Pause
  OBVIOUS
<1>2. PICK b : b = a \o Reset
  OBVIOUS
<1>3. PICK c : c = b \o Pause
  OBVIOUS
<1>4. PICK d : d = c \o t
  OBVIOUS
<1> HIDE DEF All
<1>5. IsJoin(All, s, Pause, a)
  BY <1>0, <1>1, Joined, Zenon
<1>5a. a \in Seq(All)
  BY <1>5 DEF IsJoin
<1>6. IsJoin(All, a, Reset, b)
  BY <1>0, <1>2, <1>5a, Joined, Zenon
<1>6a. b \in Seq(All)
  BY <1>6 DEF IsJoin
<1>7. IsJoin(All, b, Pause, c)
  BY <1>0, <1>3, <1>6a, Joined, Zenon
<1>7a. c \in Seq(All)
  BY <1>7 DEF IsJoin
<1>8. IsJoin(All, c, t, d)
  BY <1>0, <1>4, <1>7a, Joined, Zenon
<1>8a. d \in Seq(All)
  BY <1>8 DEF IsJoin
<1> HIDE DEF n, m
<1>9. Len(a) = n + 1 /\ Len(b) = n + 2 /\ Len(c) = n + 3 /\ Len(d) = n + 3 + m
  BY <1>0, <1>5, <1>6, <1>7, <1>8 DEF n, m, IsJoin
<1>10. DOMAIN d = 1 .. n + 3 + m
  BY <1>8a, <1>9
<1>11. /\ \A i \in 1 .. n : d[i] = s[i]
       /\ d[n + 1] = Pause[1] /\ d[n + 3] = Pause[1]
       /\ \A i \in 1 .. m : d[n + 3 + i] = t[i]
  <2>1. /\ \A i \in 1 .. n : a[i] = s[i]
        /\ \A i \in 1 .. 1 : a[n + i] = Pause[i]
    BY <1>0, <1>5 DEF IsJoin, n
  <2>2. \A i \in 1 .. n + 1 : b[i] = a[i]
    BY <1>6, <1>9 DEF IsJoin
  <2>3. /\ \A i \in 1 .. n + 2 : c[i] = b[i]
        /\ \A i \in 1 .. 1 : c[n + 2 + i] = Pause[i]
    BY <1>0, <1>7, <1>9 DEF IsJoin
  <2>4. /\ \A i \in 1 .. n + 3 : d[i] = c[i]
        /\ \A i \in 1 .. m : d[n + 3 + i] = t[i]
    BY <1>8, <1>9 DEF IsJoin, m
  <2>5. /\ 1 \in 1 .. 1 /\ n + 2 + 1 = n + 3
        /\ n + 1 \in 1 .. n + 1 /\ n + 1 \in 1 .. n + 2
        /\ n + 1 \in 1 .. n + 3 /\ n + 3 \in 1 .. n + 3
        /\ \A i \in 1 .. n :
             i \in 1 .. n + 1 /\ i \in 1 .. n + 2 /\ i \in 1 .. n + 3
    BY <1>0
  <2>6. a[n + 1] = Pause[1] /\ c[n + 3] = Pause[1]
    BY <2>1, <2>3, <2>5
  <2>7. \A i \in 1 .. n : d[i] = s[i]
    BY <2>1, <2>2, <2>3, <2>4, <2>5
  <2> QED BY <2>2, <2>3, <2>4, <2>5, <2>6, <2>7
<1>12. \A i \in DOMAIN d : d[i].op = "reset" => i = n + 2
  <2>1. \A i \in 1 .. n : d[i].op # "reset"
    BY <1>11, HarmlessSteps DEF n
  <2>2. \A i \in 1 .. m : d[n + 3 + i].op # "reset"
    BY <1>11, HarmlessSteps DEF m
  <2>3. \A i \in 1 .. n + 3 + m :
          i \in 1 .. n \/ i = n + 1 \/ i = n + 2 \/ i = n + 3
            \/ (i - (n + 3) \in 1 .. m /\ n + 3 + (i - (n + 3)) = i)
    BY <1>0
  <2>4. d[n + 1].op # "reset" /\ d[n + 3].op # "reset"
    BY <1>11, HarmlessSteps
  <2> QED BY <1>10, <2>1, <2>2, <2>3, <2>4
<1>13. n + 1 \in DOMAIN d /\ d[n + 1].op = "sleep" /\ d[n + 3].op = "sleep"
  BY <1>0, <1>10, <1>11, HarmlessSteps
<1>14. ~Has(d, "frequency")
  <2>1. \A x \in All : x.op # "frequency"
    BY HarmlessSteps DEF All
  <2> QED BY <2>1, <1>8a DEF Has
<1>15. (n + 2) - 1 = n + 1 /\ (n + 2) + 1 = n + 3
  BY <1>0
<1>16. PausesAroundResets(d)
  BY <1>12, <1>13, <1>14, <1>15 DEF PausesAroundResets
<1> QED BY <1>16, <1>1, <1>2, <1>3, <1>4

\* The loops of reset_linear_count.cpp do not reset, its reset comes between
\* two pauses, and no thread asks.
LEMMA ResetPauses == PausesAroundResets(ResetProgram)
<1> DEFINE r == Repeat(Request \o Get(FALSE))
           s == r \o Pause \o r
<1>1. r \in Seq(Harmless)
  BY HarmlessSteps, LoopsOf
<1> HIDE DEF r
<1>2. s \in Seq(Harmless)
  <2>1. r \o Pause \in Seq(Harmless)
    BY <1>1, HarmlessSteps, ConcatProperties
  <2> QED BY <1>1, <2>1, ConcatProperties
<1> HIDE DEF s
<1>3. PausesAroundResets(s \o Pause \o Reset \o Pause \o r)
  BY <1>1, <1>2, ResetBetweenPauses
<1> QED BY <1>3 DEF ResetProgram, s, r

LEMMA OthersResetNone ==
  \A s \in {ReadingProgram, UnaskedProgram} : ~Has(s, "reset")
<1> DEFINE Other == {Get(TRUE)[1], Get(FALSE)[1], Pause[1],
                     Frequency(TRUE)[1], Frequency(FALSE)[1]}
<1>1. \A x \in Other : x.op # "reset"
  BY DEF Get, Pause, Frequency
<1>2. /\ Get(TRUE) \in Seq(Other) /\ Get(FALSE) \in Seq(Other)
      /\ Pause \in Seq(Other)
      /\ Frequency(TRUE) \in Seq(Other) /\ Frequency(FALSE) \in Seq(Other)
      /\ Len(Get(TRUE)) = 1 /\ Len(Get(FALSE)) = 1
  BY DEF Get, Pause, Frequency
<1> HIDE DEF Other
<1>3. Repeat(Get(TRUE)) \in Seq(Other) /\ Repeat(Get(FALSE)) \in Seq(Other)
  BY <1>2, RepeatProperties
<1>4. ReadingProgram \in Seq(Other)
  BY <1>2, <1>3, ConcatProperties DEF ReadingProgram
<1>5. UnaskedProgram \in Seq(Other)
  BY <1>3 DEF UnaskedProgram
<1> QED BY <1>1, <1>4, <1>5 DEF Has

LEMMA ExamplesKeepTheRule == \A s \in Examples : PausesAroundResets(s)
<1>1. \A s : ~Has(s, "reset") => PausesAroundResets(s)
  BY DEF PausesAroundResets, Has
<1> QED BY <1>1, ResetPauses, OthersResetNone DEF Examples

-----------------------------------------------------------------------------
(* The inductive invariant.                                                *)

PrintedInv ==
  TestsResults(script) => \A i \in DOMAIN readings : readings[i].got

\* An answer from the time before the resets executed when it was taken.
Stale(r) == r.got /\ r.answer.reset < r.resets

\* While a reset is on its way the program pauses, or is over, and nothing
\* else is on its way.
Coming ==
  resetting > 0 =>
    /\ Has(script, "reset") /\ requests = 0 /\ answers = {}
    /\ At("sleep") \/ pc > Len(script)

\* When a reset is reached nothing is on its way, nor when it is executed, so
\* that all that arrives tells of the time after it; only what was stored then
\* can be stale.
StaleInv ==
  PausesAroundResets(script) =>
    /\ Has(script, "reset") => ~polling
    /\ At("reset") => requests = 0 /\ answers = {}
    /\ Coming
    /\ \A a \in answers : a.reset = resets
    /\ \A i \in DOMAIN readings : readings[i].resets <= resets
    /\ stored # None /\ stored.reset < resets =>
         \A i \in DOMAIN readings :
           Stale(readings[i]) => readings[i].resets < resets
    /\ \A i, j \in DOMAIN readings :
         Stale(readings[i]) /\ Stale(readings[j])
           /\ readings[i].resets = readings[j].resets => i = j

PInv == PrintedInv /\ StaleInv

LEMMA InitEstablishesP == Init => PInv
<1> SUFFICES ASSUME Init PROVE PInv OBVIOUS
<1>1. /\ readings = <<>> /\ DOMAIN readings = {}
      /\ answers = {} /\ requests = 0 /\ polling = FALSE /\ stored = None
      /\ resetting = 0
  BY DEF Init
<1> QED BY <1>1 DEF PInv, PrintedInv, StaleInv, Coming

-----------------------------------------------------------------------------
(* The script.                                                             *)

LEMMA ScriptStays == ASSUME Next PROVE script' = script
<1>1. CASE Program
  BY <1>1 DEF Program, SendFeedbackRequest, SetFeedbackFrequencyHz,
     GetNextFeedback, Timeout, ResetLinearCount, Sleep, program
<1>2. CASE Poll \/ Answer \/ Lose \/ ExecuteReset \/ LoseReset \/ Done
  BY <1>2 DEF Poll, Answer, Lose, ExecuteReset, LoseReset, Done, vars, program
<1>3. ASSUME NEW a \in answers, Arrive(a) PROVE script' = script
  BY <1>3 DEF Arrive, program
<1> QED BY <1>1, <1>2, <1>3 DEF Next, Network

-----------------------------------------------------------------------------
(* What is printed.                                                        *)

\* A step leaves what is printed alone, or prints once: an answer that was
\* stored, or after a timeout what is held.
LEMMA PrintMoves ==
  ASSUME Next
  PROVE  \/ UNCHANGED readings
         \/ \E r : /\ readings' = Append(readings, r) /\ r.resets = resets
                   /\ UNCHANGED <<answers, resets>> /\ pc' = pc + 1
                   /\ At("get") /\ UNCHANGED <<polling, requests, resetting>>
                   /\ \/ /\ r.got /\ r.answer = stored /\ stored # None
                         /\ stored' = None
                      \/ ~r.got /\ ~script[pc].checked /\ UNCHANGED stored
<1> DEFINE R(f, got) ==
             [answer |-> f, got |-> got, resets |-> resets,
              errors |-> {m \in Modules : ~DiffersFromNaN(f, m)}]
<1>1. CASE GetNextFeedback
  <2>1. /\ readings' = Append(readings, R(stored, TRUE))
        /\ R(stored, TRUE).resets = resets /\ R(stored, TRUE).got
        /\ R(stored, TRUE).answer = stored
    BY <1>1 DEF GetNextFeedback, Printed
  <2> HIDE DEF R
  <2> QED BY <1>1, <2>1 DEF GetNextFeedback, Step, library, drive
<1>2. CASE Timeout
  <2>1. CASE script[pc].checked
    BY <1>2, <2>1 DEF Timeout
  <2>2. CASE ~script[pc].checked
    <3>1. /\ readings' = Append(readings, R(held, FALSE))
          /\ R(held, FALSE).resets = resets /\ ~R(held, FALSE).got
      BY <1>2, <2>2 DEF Timeout, Printed
    <3> HIDE DEF R
    <3> QED BY <1>2, <2>2, <3>1 DEF Timeout, Step, library, drive
  <2> QED BY <2>1, <2>2
<1>3. CASE \/ SendFeedbackRequest \/ SetFeedbackFrequencyHz
           \/ ResetLinearCount \/ Sleep
  BY <1>3 DEF SendFeedbackRequest, SetFeedbackFrequencyHz, ResetLinearCount,
              Sleep, program
<1>4. CASE Poll \/ Answer \/ Lose \/ ExecuteReset \/ LoseReset \/ Done
  BY <1>4 DEF Poll, Answer, Lose, ExecuteReset, LoseReset, Done, vars, program
<1>5. ASSUME NEW a \in answers, Arrive(a) PROVE UNCHANGED readings
  BY <1>5 DEF Arrive, program
<1> QED BY <1>1, <1>2, <1>3, <1>4, <1>5 DEF Next, Program, Network

LEMMA Printing ==
  ASSUME IInv, NEW r, readings' = Append(readings, r)
  PROVE  /\ DOMAIN readings' = 1 .. Len(readings) + 1
         /\ DOMAIN readings = 1 .. Len(readings) /\ Len(readings) \in Nat
         /\ readings'[Len(readings) + 1] = r
         /\ \A i \in DOMAIN readings : readings'[i] = readings[i]
         /\ \A i \in DOMAIN readings' :
              \/ i \in DOMAIN readings /\ readings'[i] = readings[i]
              \/ i = Len(readings) + 1 /\ readings'[i] = r
<1>1. readings \in Seq(Readings)
  BY DEF IInv, FeedbackTypeOK
<1> QED BY <1>1

LEMMA PrintedKeeps == ASSUME IInv, PInv, Next PROVE PrintedInv'
<1> SUFFICES ASSUME TestsResults(script) PROVE PrintedInv'
  BY ScriptStays DEF PrintedInv
<1>1. CASE UNCHANGED readings
  BY <1>1 DEF PInv, PrintedInv
<1>2. ASSUME NEW r, readings' = Append(readings, r), At("get"),
             r.got \/ ~script[pc].checked
      PROVE  PrintedInv'
  <2>1. r.got
    BY <1>2 DEF At, TestsResults
  <2> QED BY <1>2, <2>1, Printing DEF PInv, PrintedInv
<1> QED BY <1>1, <1>2, PrintMoves

-----------------------------------------------------------------------------
(* The late answers.                                                       *)

LEMMA CountsAreNat ==
  ASSUME IInv
  PROVE  /\ resets \in Nat /\ requests \in Nat /\ resetting \in Nat
         /\ \A i \in DOMAIN readings : readings[i].resets \in Nat
<1>1. readings \in Seq(Readings)
  BY DEF IInv, FeedbackTypeOK
<1>2. \A i \in DOMAIN readings : readings[i] \in Readings
  BY <1>1
<1> QED BY <1>2 DEF IInv, FeedbackTypeOK, Readings

\* The step before a reset is a pause.
LEMMA ResetReached ==
  ASSUME IInv, PausesAroundResets(script), script' = script, pc' = pc + 1,
         At("reset")'
  PROVE  At("sleep")
<1>1. /\ pc \in 1 .. Len(script) + 1 /\ Len(script) \in Nat
      /\ DOMAIN script = 1 .. Len(script)
  BY FeedbackAssumption DEF IInv, FeedbackTypeOK
<1>2. pc + 1 \in DOMAIN script /\ script[pc + 1].op = "reset"
  BY DEF At
<1>3. (pc + 1) - 1 = pc
  BY <1>1
<1> QED BY <1>2, <1>3 DEF PausesAroundResets, At

\* Steps that leave the answers, the resets and what is printed alone.
LEMMA QuietStale ==
  ASSUME PInv, PausesAroundResets(script), script' = script,
         UNCHANGED <<stored, resets, readings>>, answers' \subseteq answers,
         Has(script, "reset") => ~polling',
         At("reset")' => requests' = 0 /\ answers' = {}, Coming'
  PROVE  StaleInv'
<1>1. stored' = stored /\ resets' = resets /\ readings' = readings
  OBVIOUS
<1> QED BY <1>1 DEF PInv, StaleInv

\* Where the program does not pause no reset is on its way.
LEMMA NothingComing ==
  ASSUME IInv, PInv, PausesAroundResets(script), pc \in DOMAIN script, ~At("sleep")
  PROVE  resetting = 0
<1>1. /\ pc \in 1 .. Len(script) + 1 /\ Len(script) \in Nat
      /\ DOMAIN script = 1 .. Len(script) /\ resetting \in Nat
  BY FeedbackAssumption DEF IInv, FeedbackTypeOK
<1>2. ~(pc > Len(script))
  BY <1>1
<1> QED BY <1>1, <1>2 DEF PInv, StaleInv, Coming

LEMMA GetStale ==
  ASSUME IInv, PInv, PausesAroundResets(script), Next, NEW r,
         readings' = Append(readings, r), r.resets = resets,
         UNCHANGED <<answers, resets, polling, requests, resetting>>, pc' = pc + 1,
         At("get"),
         \/ r.got /\ r.answer = stored /\ stored # None /\ stored' = None
         \/ ~r.got /\ UNCHANGED stored
  PROVE  StaleInv'
<1>1. script' = script /\ answers' = answers /\ resets' = resets
      /\ polling' = polling /\ requests' = requests /\ resetting' = resetting
  BY ScriptStays
<1>2. ~At("reset")'
  BY <1>1, ResetReached DEF At
<1>3. resets \in Nat /\ \A i \in DOMAIN readings : readings[i].resets \in Nat
  BY CountsAreNat
<1>4. /\ Has(script, "reset") => ~polling
      /\ \A a \in answers : a.reset = resets
      /\ \A i \in DOMAIN readings : readings[i].resets <= resets
      /\ stored # None /\ stored.reset < resets =>
           \A i \in DOMAIN readings :
             Stale(readings[i]) => readings[i].resets < resets
      /\ \A i, j \in DOMAIN readings :
           Stale(readings[i]) /\ Stale(readings[j])
             /\ readings[i].resets = readings[j].resets => i = j
  BY DEF PInv, StaleInv
<1>5. \A i \in DOMAIN readings' : readings'[i].resets <= resets
  BY <1>3, <1>4, Printing
<1>6. stored' # None /\ stored'.reset < resets =>
        \A i \in DOMAIN readings' :
          Stale(readings'[i]) => readings'[i].resets < resets
  BY <1>4, Printing DEF Stale
<1>7. Stale(r) => \A i \in DOMAIN readings :
                    Stale(readings[i]) => readings[i].resets < resets
  BY <1>4 DEF Stale
<1>8. \A i, j \in DOMAIN readings' :
        Stale(readings'[i]) /\ Stale(readings'[j])
          /\ readings'[i].resets = readings'[j].resets => i = j
  <2> TAKE i, j \in DOMAIN readings'
  <2> HAVE Stale(readings'[i]) /\ Stale(readings'[j])
           /\ readings'[i].resets = readings'[j].resets
  <2>1. CASE i \in DOMAIN readings /\ j \in DOMAIN readings
    BY <2>1, <1>4, Printing
  <2>2. CASE i \in DOMAIN readings /\ j \notin DOMAIN readings
    BY <2>2, <1>3, <1>7, Printing
  <2>3. CASE i \notin DOMAIN readings /\ j \in DOMAIN readings
    BY <2>3, <1>3, <1>7, Printing
  <2> QED BY <2>1, <2>2, <2>3, Printing
<1>9. Coming'
  BY <1>1, NothingComing DEF Coming, At
<1> QED BY <1>1, <1>2, <1>4, <1>5, <1>6, <1>8, <1>9 DEF StaleInv

LEMMA StaleKeeps == ASSUME IInv, PInv, Next PROVE StaleInv'
<1> SUFFICES ASSUME PausesAroundResets(script) PROVE StaleInv'
  BY ScriptStays DEF StaleInv
<1>1. script' = script
  BY ScriptStays
<1>2. /\ Has(script, "reset") => ~polling
      /\ At("reset") => requests = 0 /\ answers = {} /\ Has(script, "reset")
  BY DEF PInv, StaleInv, At, Has
<1>3. resets \in Nat /\ requests \in Nat
      /\ \A i \in DOMAIN readings : readings[i].resets \in Nat
  BY CountsAreNat
<1>4. CASE SendFeedbackRequest
  <2>1. /\ UNCHANGED <<stored, resets, readings, answers, polling, resetting>>
        /\ pc' = pc + 1 /\ pc \in DOMAIN script /\ ~At("sleep")
    BY <1>4 DEF SendFeedbackRequest, Step, At, program, drive
  <2>2. Coming'
    BY <2>1, NothingComing DEF Coming
  <2> QED BY <1>1, <1>2, <2>1, <2>2, ResetReached, QuietStale
<1>5. CASE SetFeedbackFrequencyHz
  <2>1. /\ UNCHANGED <<stored, resets, readings, answers, resetting>>
        /\ pc' = pc + 1 /\ pc \in DOMAIN script /\ ~At("sleep")
        /\ Has(script, "frequency")
    BY <1>5 DEF SetFeedbackFrequencyHz, Step, At, Has, program, drive
  <2>2. ~Has(script, "reset")
    BY <2>1 DEF PausesAroundResets, Has
  <2>3. Coming'
    BY <2>1, NothingComing DEF Coming
  <2> QED BY <1>1, <2>1, <2>2, <2>3, ResetReached, QuietStale
<1>6. CASE Sleep
  <2>1. /\ UNCHANGED <<stored, resets, readings, answers, polling, requests,
                       resetting>>
        /\ resetting = 0
        /\ polling \/ (requests = 0 /\ answers = {})
    BY <1>6 DEF Sleep, library, program, drive
  <2>2. Coming'
    <3>1. resetting' = 0
      BY <2>1
    <3>2. ~(resetting' > 0)
      BY <3>1
    <3> QED BY <3>2 DEF Coming
  <2>3. At("reset")' => Has(script, "reset")
    BY <1>1 DEF At, Has
  <2> QED BY <1>1, <1>2, <2>1, <2>2, <2>3, QuietStale
<1>7. CASE ResetLinearCount
  <2>1. /\ pc' = pc + 1 /\ pc \in DOMAIN script /\ At("reset")
        /\ UNCHANGED <<polling, requests, answers, stored, readings, resets>>
    BY <1>7 DEF ResetLinearCount, Step, At, library, program
  <2>2. ~At("reset")'
    BY <1>1, <2>1, ResetReached DEF At
  <2>3. At("sleep")' \/ pc' > Len(script)
    <3>1. /\ pc \in 1 .. Len(script) + 1 /\ Len(script) \in Nat
          /\ DOMAIN script = 1 .. Len(script)
      BY FeedbackAssumption DEF IInv, FeedbackTypeOK
    <3>2. pc + 1 \in DOMAIN script \/ pc + 1 > Len(script)
      BY <3>1
    <3>3. pc + 1 \in DOMAIN script => script[pc + 1].op = "sleep"
      BY <2>1 DEF PausesAroundResets, At
    <3> QED BY <1>1, <2>1, <3>2, <3>3 DEF At
  <2>4. Coming'
    BY <1>1, <1>2, <2>1, <2>3 DEF Coming
  <2> QED BY <1>1, <1>2, <2>1, <2>2, <2>4, QuietStale
<1>8. CASE GetNextFeedback \/ Timeout
  <2>1. CASE UNCHANGED readings
    <3>1. Timeout
      <4>1. ASSUME GetNextFeedback PROVE readings' # readings
        <5>1. readings \in Seq(Readings)
          BY DEF IInv, FeedbackTypeOK
        <5>2. Len(readings') = Len(readings) + 1
          BY <4>1, <5>1 DEF GetNextFeedback, Printed
        <5> QED BY <5>1, <5>2
      <4> QED BY <1>8, <2>1, <4>1
    <3>2. /\ UNCHANGED <<stored, resets, answers, polling, resetting>>
          /\ pc' = pc + 1 /\ pc \in DOMAIN script /\ ~At("sleep")
      BY <3>1 DEF Timeout, Step, At, library, drive
    <3>3. Coming'
      BY <3>2, NothingComing DEF Coming
    <3> QED BY <1>1, <1>2, <2>1, <3>2, <3>3, ResetReached, QuietStale
  <2>2. CASE readings' # readings
    BY <2>2, PrintMoves, GetStale
  <2> QED BY <2>1, <2>2
<1>9. CASE Poll
  <2>1. /\ UNCHANGED <<stored, resets, readings, answers, polling, pc, resetting>>
        /\ polling
    BY <1>9 DEF Poll, program, drive
  <2>2. ~At("reset")'
    BY <1>1, <1>2, <2>1 DEF At
  <2>3. ~(resetting > 0)
    BY <1>2, <2>1 DEF PInv, StaleInv, Coming
  <2>4. Coming'
    BY <2>1, <2>3 DEF Coming
  <2> QED BY <1>1, <1>2, <2>1, <2>2, <2>4, QuietStale
<1>10. CASE Answer
  <2>1. /\ requests > 0
        /\ \A a \in answers' : a \in answers \/ a.reset = resets
        /\ UNCHANGED <<polling, pc, stored, resets, readings, resetting>>
    BY <1>10 DEF Answer, program, drive
  <2>2. ~At("reset")'
    BY <1>1, <1>2, <2>1 DEF At
  <2>3. ~(resetting > 0)
    BY <1>3, <2>1 DEF PInv, StaleInv, Coming
  <2>4. Coming'
    BY <2>1, <2>3 DEF Coming
  <2> QED BY <1>1, <2>1, <2>2, <2>4 DEF PInv, StaleInv
<1>11. CASE Lose
  <2>1. /\ answers' \subseteq answers
        /\ UNCHANGED <<polling, pc, stored, resets, readings, resetting>>
        /\ requests > 0 \/ (UNCHANGED requests /\ answers # {})
    BY <1>11 DEF Lose, program, drive
  <2>2. ~At("reset")' /\ ~(resetting > 0)
    BY <1>1, <1>2, <1>3, <2>1 DEF At, PInv, StaleInv, Coming
  <2>3. Coming'
    BY <2>1, <2>2 DEF Coming
  <2> QED BY <1>1, <1>2, <2>1, <2>2, <2>3, QuietStale
<1>12. ASSUME NEW a \in answers, Arrive(a) PROVE StaleInv'
  <2>1. /\ answers' = answers \ {a} /\ stored' = a
        /\ UNCHANGED <<polling, pc, requests, resets, readings, resetting>>
    BY <1>12 DEF Arrive, program, drive
  <2>2. a.reset = resets
    BY DEF PInv, StaleInv
  <2>3. ~At("reset")'
    BY <1>1, <1>2, <2>1 DEF At
  <2>4. Coming'
    <3>1. ~(resetting > 0)
      BY <1>12 DEF PInv, StaleInv, Coming
    <3> QED BY <2>1, <3>1 DEF Coming
  <2> QED BY <1>1, <1>3, <2>1, <2>2, <2>3, <2>4 DEF PInv, StaleInv
<1>13. CASE Done
  <2>1. UNCHANGED <<stored, resets, readings, answers, polling, requests, pc,
                    resetting>>
    BY <1>13 DEF Done, vars, library, program, drive
  <2>2. Coming'
    BY <1>1, <2>1 DEF PInv, StaleInv, Coming, At
  <2> QED BY <1>1, <1>2, <2>1, <2>2, QuietStale DEF At
<1>14. CASE LoseReset
  <2>1. /\ UNCHANGED <<stored, resets, readings, answers, polling, requests, pc>>
        /\ resetting > 0
    BY <1>14 DEF LoseReset, library, program
  <2>2. Coming'
    BY <1>1, <2>1 DEF PInv, StaleInv, Coming, At
  <2> QED BY <1>1, <1>2, <2>1, <2>2, QuietStale DEF At
<1>15. CASE ExecuteReset
  <2>1. /\ resets' = resets + 1 /\ resetting > 0
        /\ UNCHANGED <<polling, requests, answers, stored, readings, pc>>
    BY <1>15 DEF ExecuteReset, library, program
  <2>2. /\ Has(script, "reset") /\ requests = 0 /\ answers = {}
        /\ At("sleep") \/ pc > Len(script)
    BY <2>1 DEF PInv, StaleInv, Coming
  <2>3. /\ answers' = {} /\ requests' = 0 /\ ~polling'
        /\ readings' = readings /\ stored' = stored
    BY <1>2, <2>1, <2>2
  <2>4. Coming'
    BY <1>1, <2>1, <2>2 DEF Coming, At
  <2>5. \A i \in DOMAIN readings : readings[i].resets < resets'
    BY <1>3, <2>1 DEF PInv, StaleInv
  <2>6. \A i \in DOMAIN readings : readings[i].resets <= resets'
    BY <1>3, <2>1, <2>5
  <2>7. \A i, j \in DOMAIN readings :
          Stale(readings[i]) /\ Stale(readings[j])
            /\ readings[i].resets = readings[j].resets => i = j
    BY DEF PInv, StaleInv
  <2> QED BY <1>1, <2>3, <2>4, <2>5, <2>6, <2>7 DEF StaleInv
<1> QED BY <1>4, <1>5, <1>6, <1>7, <1>8, <1>9, <1>10, <1>11, <1>12, <1>13,
           <1>14, <1>15
        DEF Next, Program, Network

-----------------------------------------------------------------------------
(* The theorems.                                                           *)

LEMMA InvarianceP == Spec => []PInv
<1>1. IInv /\ PInv /\ [Next]_vars => PInv'
  <2> SUFFICES ASSUME IInv, PInv, [Next]_vars PROVE PInv' OBVIOUS
  <2>1. CASE Next
    BY <2>1, PrintedKeeps, StaleKeeps DEF PInv
  <2>2. CASE UNCHANGED vars
    <3>1. /\ script' = script /\ pc' = pc /\ resetting' = resetting
          /\ readings' = readings /\ polling' = polling
          /\ requests' = requests /\ answers' = answers
          /\ stored' = stored /\ resets' = resets
      BY <2>2 DEF vars, library, program, drive
    <3> QED BY <3>1 DEF PInv, PrintedInv, StaleInv, Coming, At
  <2> QED BY <2>1, <2>2
<1> QED BY <1>1, InitEstablishesP, Invariance, PTL DEF Spec

\* 03_feedback.cpp, with a loop of any length: however answers are lost, late
\* or overtaken, it prints each one once, and nothing else.
THEOREM PrintedOnce == Spec => []EachAnswerPrintedOnce
<1>1. IInv /\ PInv => EachAnswerPrintedOnce
  BY ReadingTests DEF IInv, PInv, PrintedInv, TakenOnce,
                      EachAnswerPrintedOnce
<1> QED BY <1>1, Invariance, InvarianceP, PTL

\* Whoever pauses before a reset and after it, and asks by requests alone,
\* takes at most one answer that tells of the time before it.
THEOREM OneStaleByRule ==
  ASSUME \A s \in Programs : PausesAroundResets(s)
  PROVE  Spec => []AtMostOneStaleAnswer
<1>1. IInv /\ PInv => AtMostOneStaleAnswer
  <2> SUFFICES ASSUME IInv, PInv PROVE AtMostOneStaleAnswer OBVIOUS
  <2>1. PausesAroundResets(script)
    BY DEF IInv, FeedbackTypeOK
  <2> QED BY <2>1 DEF PInv, StaleInv, Stale, AtMostOneStaleAnswer
<1> QED BY <1>1, Invariance, InvarianceP, PTL

\* The examples, of which reset_linear_count.cpp resets: after it at most one
\* late answer is taken, however long its loops and however many were lost.
THEOREM OneStaleAnswer ==
  ASSUME Programs \subseteq Examples
  PROVE  Spec => []AtMostOneStaleAnswer
  BY ExamplesKeepTheRule, OneStaleByRule
=============================================================================
