---------------------------- MODULE CommandSession ----------------------------
(***************************************************************************)
(* A program that moves a group: it fills a GroupCommand, hands it to      *)
(* Group::sendCommand (group.cpp:48-51) and sleeps, as the programs under  *)
(* examples/src do.  Between sendCommand and the drives lies a network     *)
(* that nobody acknowledges: fourierGroupSendCommand sends "without        *)
(* requesting an acknowledgement" (aios.h:431-445).                        *)
(*                                                                         *)
(* The drives are not in the repository.  Of what they do, only what the   *)
(* examples rely on is here: "enable" with 1 and 0 turns a drive on and    *)
(* off, resetLinearCount resets the count of its encoder.                  *)
(***************************************************************************)
EXTENDS GroupCommand, FiniteSets

CONSTANTS
  On, Off,      \* the numbers 1 and 0; On also stands for any other number
  Rounds,       \* bound: how often the loop of a program runs
  Setups        \* a program's steps, and the network: whether packets overtake
                \* each other, whether packets and calls of sendCommand may fail

ASSUME SessionAssumption ==
  /\ {On, Off} \subseteq Values /\ On # Off
  /\ Rounds \in Nat
  /\ \A s \in Setups :
       /\ s = [steps |-> s.steps, overtakes |-> s.overtakes, faulty |-> s.faulty]
       /\ Len(s.steps) \in Nat /\ DOMAIN s.steps = 1 .. Len(s.steps)
       /\ \A i \in DOMAIN s.steps : s.steps[i].op = "call" =>
            /\ s.steps[i].setter \in Calls
            /\ FieldOf(s.steps[i].setter) \notin Pointers
            /\ s.steps[i].vector \in Seq(Values)

-----------------------------------------------------------------------------
(* The programs.  A pause that is shorter than a packet may take is no     *)
(* step: it promises nothing.                                              *)

All(v) == [m \in Modules |-> v]
Send(s, v) == <<[op |-> "call", setter |-> s, vector |-> v], [op |-> "send"]>>
Pause == <<[op |-> "sleep"]>>
Repeat(steps) == [i \in 1 .. Rounds * Len(steps) |->
                    steps[((i - 1) % Len(steps)) + 1]]

\* Plausible errors in the examples, which SessionSpec does not use: the vector
\* that ends the program is too short; no pause before the drives are disabled.
CommandWithShortEnd ==
  Send("enable", All(On)) \o Send("setInputVelocityPt", <<On>>) \o Pause
    \o Send("setInputVelocityPt", <<Off>>) \o Send("enable", <<Off>>)

SetVelocityWithoutPause ==
  Send("enable", All(On))
    \o Repeat(Send("setVelocity", All(On)))
    \o Send("setVelocity", All(Off)) \o Send("enable", All(Off)) \o Pause

\* examples/src/03_feedback.cpp.  Its vector has one element: for a larger
\* group the command stays without a type, and is sent like that.
FeedbackProgram == Send("resetLinearCount", <<Off>>)

\* examples/src/reset_linear_count.cpp.  Its vectors of positions have two
\* elements, however many modules the group has.
ResetLinearCountProgram ==
  Send("enable", All(On)) \o Pause
    \o Repeat(Send("setInputPositionPt", <<On, On>>)) \o Pause
    \o Send("enable", All(Off)) \o Pause
    \o Send("resetLinearCount", All(Off)) \o Pause

\* examples/src/set_velocity_for_fw1xx.cpp.
SetVelocityProgram ==
  Send("enable", All(On)) \o Pause
    \o Repeat(Send("setVelocity", All(On))) \o Pause
    \o Send("setVelocity", All(Off)) \o Send("enable", All(Off)) \o Pause

\* examples/src/set_input_velocity_pt_for_fw2xx.cpp.
SetInputVelocityProgram ==
  Send("enable", All(On)) \o Pause
    \o Send("setInputVelocityPt", All(On)) \o Pause
    \o Send("setInputVelocityPt", All(Off)) \o Pause
    \o Repeat(Send("setInputVelocityPt", All(On))) \o Pause
    \o Send("setInputVelocityPt", All(Off)) \o Pause
    \o Send("enable", All(Off)) \o Pause

\* examples/src/04_command.cpp.  Its vectors of velocities have one element.
CommandProgram ==
  Send("enable", All(On)) \o Send("setInputVelocityPt", <<On>>) \o Pause
    \o Send("setInputVelocityPt", <<Off>>) \o Send("enable", All(Off))

\* examples/src/05_feedback_command_async.cpp.
AsyncProgram ==
  Send("resetLinearCount", All(Off)) \o Send("enable", All(On))
    \o Repeat(Send("setInputPositionPt", All(On)))
    \o Send("enable", All(Off))

\* examples/src/06_latency_test.cpp.
LatencyProgram == Repeat(Send("setLatencyTest", All(On)))

\* examples/src/07_set_position_pt.cpp, which leaves the drives on.  Its vector
\* of positions has two elements.
SetPositionProgram ==
  Send("enable", All(On)) \o Send("setInputPositionPt", <<On, On>>)

\* examples/src/08_pos_pass_through.cpp, which leaves the drives on, too.
PassThroughProgram ==
  Send("enable", All(On)) \o Pause \o Send("setInputPositionPt", All(On))

\* The other two need a network that keeps the order: AsyncProgram sends reset,
\* enable and disable without a pause, and CommandProgram, whose vectors have
\* no effect on a larger group, sends its enable again just before it disables.
PausingPrograms ==
  {ResetLinearCountProgram, SetVelocityProgram, SetInputVelocityProgram,
   FeedbackProgram, LatencyProgram, SetPositionProgram, PassThroughProgram}
Examples == PausingPrograms \cup {AsyncProgram, CommandProgram}

VARIABLES
  script,    \* the program that runs
  overtakes, \* the network may deliver a packet before an earlier one
  faulty,    \* packets may be lost, and sendCommand may fail
  pc,        \* its next step
  sent,      \* history: what each call of sendCommand was to send
  transit,   \* the packets on their way to the drives
  enabled,   \* the drives that are on
  told,      \* history: the calls of sendCommand that returned true
  received   \* history: the packets that arrived, by call and module

network == <<overtakes, faulty, sent, transit, told>>
drives == <<enabled, received>>
sessionVars == <<vars, script, pc, network, drives>>

\* The drives are as whatever moved them before has left them.
SessionInit ==
  /\ Init
  /\ \E setup \in Setups :
       /\ script = setup.steps
       /\ overtakes = setup.overtakes /\ faulty = setup.faulty
  /\ pc = 1
  /\ sent = <<>>
  /\ transit = {}
  /\ enabled \in SUBSET Modules
  /\ told = {}
  /\ received = {}

-----------------------------------------------------------------------------
(* The program                                                             *)

At(op) == pc \in DOMAIN script /\ script[pc].op = op
Step == pc' = pc + 1 /\ UNCHANGED script

\* A setter, called with a vector that may have the wrong length.
Call ==
  /\ At("call")
  /\ LET s == script[pc].setter
         v == script[pc].vector
     IN  Set(s, v) \/ Ignore(s, v)
  /\ Step
  /\ UNCHANGED <<network, drives>>

\* The packets of one sendCommand, one for each module, each with the values
\* that it may carry.
PacketsOf(no) ==
  {[no |-> no, to |-> m, type |-> type[m], value |-> MayCarry(m)] :
     m \in Modules}

\* sendCommand: the library sends and returns, or fails and has sent nothing.
\* The programs ignore which.
SendCommand ==
  /\ At("send")
  /\ sent' = Append(sent,
       [type |-> type, value |-> [m \in Modules |-> MayCarry(m)]])
  /\ \/ /\ transit' = transit \cup PacketsOf(Len(sent'))
        /\ told' = told \cup {Len(sent')}
     \/ faulty /\ UNCHANGED <<transit, told>>
  /\ Step
  /\ UNCHANGED <<vars, overtakes, faulty, drives>>

\* A plausible error, which SessionSpec does not use: a pause too short.
SleepTooShort == At("sleep") /\ Step /\ UNCHANGED <<vars, network, drives>>

\* sleep_for(seconds(1)): long enough for a packet to arrive or be lost.
Sleep ==
  /\ At("sleep") /\ transit = {}
  /\ Step
  /\ UNCHANGED <<vars, network, drives>>

-----------------------------------------------------------------------------
(* The network and the drives                                              *)

\* A plausible error, which SessionSpec does not use: drives numbered from 0.
SwitchedFromZero(p) ==
  IF p.type = "Enable" /\ p.value = {On} THEN enabled \cup {p.to - 1} ELSE enabled

\* The drives that are on once packet p has arrived.
Switched(p) ==
  IF p.type # "Enable" THEN enabled
  ELSE IF p.value = {On} THEN enabled \cup {p.to} ELSE enabled \ {p.to}

Deliver(p) ==
  /\ overtakes \/ \A q \in transit : q.to = p.to => q.no >= p.no
  /\ transit' = transit \ {p}
  /\ received' = received \cup {<<p.no, p.to>>}
  /\ enabled' = Switched(p)
  /\ UNCHANGED <<vars, script, pc, overtakes, faulty, sent, told>>

Lose(p) ==
  /\ faulty
  /\ transit' = transit \ {p}
  /\ UNCHANGED <<vars, script, pc, overtakes, faulty, sent, told, drives>>

\* main has returned, and nothing is on its way.
Done == pc > Len(script) /\ transit = {} /\ UNCHANGED sessionVars

SessionNext ==
  \/ Call \/ SendCommand \/ Sleep
  \/ \E p \in transit : Deliver(p) \/ Lose(p)
  \/ Done

SessionSpec == SessionInit /\ [][SessionNext]_sessionVars

\* The program runs on, and a packet that is not lost arrives.
SessionFairness ==
  /\ WF_sessionVars(Call) /\ WF_sessionVars(SendCommand)
  /\ WF_sessionVars(Sleep)
  /\ WF_sessionVars(\E p \in transit : Deliver(p))

FairSession == SessionSpec /\ SessionFairness

-----------------------------------------------------------------------------
(* Properties                                                              *)

\* The variables have their types, and only packets that were sent are on
\* their way or have arrived.
SessionTypeOK ==
  /\ TypeOK
  /\ [steps |-> script, overtakes |-> overtakes, faulty |-> faulty] \in Setups
  /\ pc \in 1 .. Len(script) + 1
  /\ sent \in Seq([type : [Modules -> Types \cup {"UNKNOW"}],
                   value : [Modules -> SUBSET (Values \cup {None})]])
  /\ told \subseteq DOMAIN sent
  /\ transit \subseteq [no : DOMAIN sent, to : Modules,
                        type : Types \cup {"UNKNOW"},
                        value : SUBSET (Values \cup {None})]
  /\ enabled \subseteq Modules
  /\ received \subseteq (DOMAIN sent) \X Modules

\* A reset reaches its drive in this step.
ResetArrives(p) ==
  p.type = "ResetLinearCount" /\ <<p.no, p.to>> \in received' \ received

\* A drive that resets its count is off: "make sure FSA disable when exec
\* resetLinearCount" (examples/src/reset_linear_count.cpp:76).
ResetWhileDisabled ==
  [][\A p \in transit : ResetArrives(p) => p.to \notin enabled]_sessionVars

\* Command no was to turn drive m off; it has not arrived and never will.
AsksOff(no, m) == sent[no].type[m] = "Enable" /\ sent[no].value[m] = {Off}
MissedOff(no, m) ==
  /\ AsksOff(no, m) /\ <<no, m>> \notin received
  /\ \A q \in transit : q.no = no => q.to # m

\* Whatever state the drives are in when the program starts and whatever the
\* network loses, overtakes or refuses: if the program was to turn a drive off
\* before it resets it, the reset meets a drive that is on only if such a
\* command is lost.  The pauses exclude every other cause.
OnlyLossEnablesReset ==
  [][\A p \in transit :
       ResetArrives(p) /\ (\E no \in 1 .. p.no : AsksOff(no, p.to))
         => p.to \notin enabled \/ \E no \in 1 .. p.no : MissedOff(no, p.to)
    ]_sessionVars

\* What the last call of enable asks.
Enables ==
  {i \in DOMAIN script : script[i].op = "call" /\ script[i].setter = "enable"}
EnabledAtEnd ==
  IF \E i \in Enables : script[i].vector[1] = On /\ \A j \in Enables : j <= i
  THEN Modules ELSE {}

\* Once main has returned and nothing is on its way, the drives are as the last
\* call of enable asked, in a group of any size, if there was one and nothing is
\* lost or refused.
SettledAsTold ==
  ~faulty /\ Enables # {} /\ pc > Len(script) /\ transit = {}
    => enabled = EnabledAtEnd

\* The drives end as a program that enables or disables them last asked, if
\* nothing is lost or refused: off, except for the two examples that never
\* disable them.  No older enable arrives late, and none is sent again by a
\* sendCommand after a setter that was without effect.
DrivesEndAsTold ==
  <>[](~faulty /\ Enables # {} => enabled = EnabledAtEnd)

\* sendCommand "returns true if an acknowledgement was successfully received
\* (guaranteeing the group received this command)" (group.hpp:47-54): once its
\* packets are no longer on their way, every module has received them.
AckGuarantee ==
  \A no \in told :
    (\A p \in transit : p.no # no) => \A m \in Modules : <<no, m>> \in received
=============================================================================
