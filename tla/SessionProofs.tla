----------------------------- MODULE SessionProofs -----------------------------
(***************************************************************************)
(* CommandSession, for any programs, group and network: the struct that    *)
(* sendCommand reads says at every step what the program's last accepted   *)
(* call asked, only what was sent is on its way, and a command that is     *)
(* sent and not received was lost.                                         *)
(***************************************************************************)
EXTENDS CommandSession, GroupCommandProofs, SequenceTheorems

\* Each packet of a successful sendCommand has arrived or is on its way.
Accounted ==
  \A no \in told, m \in Modules :
    <<no, m>> \in received \/ \E p \in transit : p.no = no /\ p.to = m

\* A program of the model uses the setters only, and not operator[].
SInv == IInv /\ poked = {} /\ SessionTypeOK /\ (~faulty => Accounted)

LEMMA SessionInitInv == SessionInit => SInv
<1> SUFFICES ASSUME SessionInit PROVE SInv
  OBVIOUS
<1>1. IInv /\ poked = {}
  BY InitInv DEF SessionInit, Init
<1>2. SessionTypeOK
  <2>1. PICK setup \in Setups :
          /\ script = setup.steps
          /\ overtakes = setup.overtakes /\ faulty = setup.faulty
    BY DEF SessionInit
  <2>2. [steps |-> script, overtakes |-> overtakes, faulty |-> faulty]
          \in Setups
    BY <2>1, SessionAssumption DEF SessionAssumption
  <2>3. pc \in 1 .. Len(script) + 1
    <3>1. Len(script) \in Nat
      BY <2>1, SessionAssumption DEF SessionAssumption
    <3>2. QED
      BY <3>1 DEF SessionInit
  <2>4. QED
    BY <1>1, <2>2, <2>3 DEF SessionInit, SessionTypeOK, IInv
<1>3. Accounted
  BY DEF SessionInit, Accounted
<1>4. QED
  BY <1>1, <1>2, <1>3 DEF SInv

\* What is known of the step that the program is at.
LEMMA StepKnown ==
  ASSUME SInv, pc \in DOMAIN script
  PROVE  /\ pc + 1 \in 1 .. Len(script) + 1
         /\ script[pc].op = "call" =>
              /\ script[pc].setter \in Calls
              /\ FieldOf(script[pc].setter) \notin Pointers
              /\ script[pc].vector \in Seq(Values)
<1> DEFINE setup ==
             [steps |-> script, overtakes |-> overtakes, faulty |-> faulty]
<1>1. setup \in Setups /\ setup.steps = script
  BY DEF SInv, SessionTypeOK
<1>2. /\ Len(script) \in Nat /\ DOMAIN script = 1 .. Len(script)
      /\ script[pc].op = "call" =>
           /\ script[pc].setter \in Calls
           /\ FieldOf(script[pc].setter) \notin Pointers
           /\ script[pc].vector \in Seq(Values)
  BY <1>1, SessionAssumption DEF SessionAssumption
<1>3. QED
  BY <1>2

\* A setter that a program calls is one of GroupCommand's steps.
LEMMA CallKeeps ==
  ASSUME SInv, Call
  PROVE  SInv'
<1> DEFINE s == script[pc].setter
           v == script[pc].vector
<1>1. /\ s \in Calls /\ FieldOf(s) \notin Pointers /\ v \in Seq(Values)
      /\ pc' \in 1 .. Len(script) + 1
  BY StepKnown DEF Call, At, Step
<1>2. /\ Set(s, v) \/ Ignore(s, v)
      /\ UNCHANGED <<script, network, drives>>
  BY DEF Call, Step
<1>3. IInv' /\ poked' = {}
  <2>1. CASE Set(s, v)
    <3>1. v \in [1 .. N -> Values] /\ ArgsOf(s) = Values
      BY <1>1, <2>1, CommandAssumption DEF Set, Accepted, ArgsOf, Fits
    <3>2. v \in Vectors(s)
      BY <3>1 DEF Vectors
    <3>3. poked' = {}
      BY <2>1 DEF Set
    <3>4. QED
      BY <1>1, <2>1, <3>2, <3>3, SetInv DEF SInv
  <2>2. CASE Ignore(s, v)
    BY <2>2, NextInv DEF Ignore, SInv, vars
  <2>3. QED
    BY <1>2, <2>1, <2>2
<1>4. SessionTypeOK'
  BY <1>1, <1>2, <1>3 DEF SInv, IInv, SessionTypeOK, network, drives
<1>5. ~faulty' => Accounted'
  <2>1. ~faulty => Accounted
    BY DEF SInv
  <2>2. /\ told' = told /\ transit' = transit /\ received' = received
        /\ faulty' = faulty
    BY <1>2 DEF network, drives
  <2>3. Accounted => Accounted'
    BY <2>2, ZenonT(40) DEF Accounted
  <2>4. QED
    BY <2>1, <2>2, <2>3
<1>6. QED
  BY <1>3, <1>4, <1>5 DEF SInv

\* Whichever field is read, what is sent is a value, or nothing.
LEMMA CarriesValues ==
  ASSUME SInv
  PROVE  /\ type \in [Modules -> Types \cup {"UNKNOW"}]
         /\ \A m \in Modules : MayCarry(m) \in SUBSET (Values \cup {None})
<1>1. \A m \in Modules : \A k \in MayRead(type[m]) :
        Followed(m, k) \in Values \cup {None}
  BY FollowedIsValue DEF SInv
<1>2. QED
  BY <1>1 DEF MayCarry, SInv, IInv, TypeOK

\* Each module's packet has the type and the values of the command.
LEMMA SendKeeps ==
  ASSUME SInv, SendCommand
  PROVE  SInv'
<1> DEFINE new == [type |-> type, value |-> [m \in Modules |-> MayCarry(m)]]
           no == Len(sent) + 1
           Kept == [type : [Modules -> Types \cup {"UNKNOW"}],
                    value : [Modules -> SUBSET (Values \cup {None})]]
<1>1. /\ sent' = Append(sent, new)
      /\ UNCHANGED <<vars, script, overtakes, faulty, drives>>
      /\ pc' \in 1 .. Len(script) + 1
  BY StepKnown DEF SendCommand, At, Step
<1>2. IInv' /\ poked' = {}
  BY <1>1, NextInv DEF SInv, vars
<1>3. new \in Kept
  BY CarriesValues
<1>4. /\ sent' \in Seq(Kept) /\ Len(sent') = no
      /\ DOMAIN sent \subseteq DOMAIN sent' /\ no \in DOMAIN sent'
  <2> HIDE DEF new, Kept
  <2>1. sent \in Seq(Kept)
    BY DEF SInv, SessionTypeOK, Kept
  <2>2. QED
    BY <1>1, <1>3, <2>1
<1>5. \/ /\ transit' = transit \cup PacketsOf(no)
         /\ told' = told \cup {no}
      \/ UNCHANGED <<transit, told>>
  BY <1>4 DEF SendCommand
<1>6. \A p \in PacketsOf(no) :
        p \in [no : DOMAIN sent', to : Modules, type : Types \cup {"UNKNOW"},
               value : SUBSET (Values \cup {None})]
  BY <1>4, CarriesValues DEF PacketsOf
<1>7. SessionTypeOK'
  <2> HIDE DEF new
  <2>1. /\ told' \subseteq DOMAIN sent'
        /\ received' \subseteq (DOMAIN sent') \X Modules
    BY <1>1, <1>4, <1>5 DEF SInv, SessionTypeOK, drives
  <2>2. transit' \subseteq [no : DOMAIN sent', to : Modules,
                            type : Types \cup {"UNKNOW"},
                            value : SUBSET (Values \cup {None})]
    BY <1>4, <1>5, <1>6 DEF SInv, SessionTypeOK
  <2>3. QED
    BY <1>1, <1>2, <1>4, <2>1, <2>2 DEF SInv, IInv, SessionTypeOK, drives
<1>8. ~faulty' => Accounted'
  <2>0. faulty' = faulty
    BY DEF SendCommand
  <2>1. ASSUME NEW m \in Modules
        PROVE  \E p \in PacketsOf(no) : p.no = no /\ p.to = m
    <3> DEFINE p ==
                 [no |-> no, to |-> m, type |-> type[m], value |-> MayCarry(m)]
    <3>1. p \in PacketsOf(no)
      BY DEF PacketsOf
    <3>2. QED
      BY <3>1
  <2>2. received' = received /\ transit \subseteq transit'
    BY <1>1, <1>5 DEF drives
  <2>3. \A k \in told' :
          k \in told \/ (k = no /\ PacketsOf(no) \subseteq transit')
    BY <1>5
  <2> HIDE DEF new, no
  <2> SUFFICES ASSUME ~faulty', NEW k \in told', NEW m \in Modules
               PROVE  \/ <<k, m>> \in received'
                      \/ \E p \in transit' : p.no = k /\ p.to = m
    BY DEF Accounted
  <2>4. CASE k \in told
    BY <2>0, <2>2, <2>4 DEF SInv, Accounted
  <2>5. CASE k = no /\ PacketsOf(no) \subseteq transit'
    BY <2>1, <2>5
  <2>6. QED
    BY <2>3, <2>4, <2>5
<1>9. QED
  BY <1>2, <1>7, <1>8 DEF SInv

LEMMA SleepKeeps ==
  ASSUME SInv, Sleep
  PROVE  SInv'
<1>1. /\ UNCHANGED <<vars, script, network, drives>>
      /\ pc' \in 1 .. Len(script) + 1
  BY StepKnown DEF Sleep, At, Step
<1>2. IInv' /\ poked' = {}
  BY <1>1, NextInv DEF SInv, vars
<1>3. QED
  BY <1>1, <1>2 DEF SInv, IInv, SessionTypeOK, Accounted, network, drives

\* What a module receives is no longer on its way to it.
LEMMA DeliverKeeps ==
  ASSUME SInv, NEW p \in transit, Deliver(p)
  PROVE  SInv'
<1>1. /\ transit' = transit \ {p}
      /\ received' = received \cup {<<p.no, p.to>>}
      /\ enabled' = Switched(p)
      /\ UNCHANGED <<vars, script, pc, overtakes, faulty, sent, told>>
  BY DEF Deliver
<1>2. IInv' /\ poked' = {}
  BY <1>1, NextInv DEF SInv, vars
<1>3. p.no \in DOMAIN sent /\ p.to \in Modules
  BY DEF SInv, SessionTypeOK
<1>4. SessionTypeOK'
  BY <1>1, <1>2, <1>3 DEF SInv, IInv, SessionTypeOK, Switched
<1>5. ~faulty' => Accounted'
  <2> SUFFICES ASSUME ~faulty', NEW no \in told, NEW m \in Modules
               PROVE  <<no, m>> \in received' \/ \E q \in transit' :
                                                 q.no = no /\ q.to = m
    BY <1>1 DEF Accounted
  <2>1. <<no, m>> \in received \/ \E q \in transit : q.no = no /\ q.to = m
    BY <1>1 DEF SInv, Accounted
  <2>2. CASE p.no = no /\ p.to = m
    BY <1>1, <2>2
  <2>3. CASE ~(p.no = no /\ p.to = m)
    BY <1>1, <2>1, <2>3
  <2>4. QED
    BY <2>2, <2>3
<1>6. QED
  BY <1>2, <1>4, <1>5 DEF SInv

LEMMA LoseKeeps ==
  ASSUME SInv, NEW p \in transit, Lose(p)
  PROVE  SInv'
<1>1. /\ faulty /\ transit' = transit \ {p}
      /\ UNCHANGED <<vars, script, pc, overtakes, faulty, sent, told, drives>>
  BY DEF Lose
<1>2. IInv' /\ poked' = {}
  BY <1>1, NextInv DEF SInv, vars
<1>3. QED
  BY <1>1, <1>2 DEF SInv, IInv, SessionTypeOK, drives

LEMMA SessionNextInv == SInv /\ [SessionNext]_sessionVars => SInv'
<1> SUFFICES ASSUME SInv, [SessionNext]_sessionVars PROVE SInv'
  OBVIOUS
<1>1. CASE UNCHANGED sessionVars
  <2>1. UNCHANGED <<vars, script, pc, network, drives>>
    BY <1>1 DEF sessionVars
  <2>2. IInv' /\ poked' = {}
    BY <2>1, NextInv DEF SInv, vars
  <2>3. QED
    BY <2>1, <2>2 DEF SInv, IInv, SessionTypeOK, Accounted, network, drives
<1>2. QED
  BY <1>1, CallKeeps, SendKeeps, SleepKeeps, DeliverKeeps, LoseKeeps
     DEF SessionNext, Done

LEMMA SessionInvariance == SessionSpec => []SInv
BY SessionInitInv, SessionNextInv, PTL DEF SessionSpec

-----------------------------------------------------------------------------
(* What follows                                                            *)

\* The variables of a session keep their types, and only packets of commands
\* that were sent are on their way or have arrived.
THEOREM SessionTypeCorrect == SessionSpec => []SessionTypeOK
<1>1. SInv => SessionTypeOK
  BY DEF SInv
<1>2. QED
  BY <1>1, SessionInvariance, PTL

\* In a session, whatever vectors were refused: what the next sendCommand
\* sends is what the last accepted call asked.
THEOREM SessionSaysWhatWasAsked == SessionSpec => []SaysWhatWasAsked
<1>1. SInv => SaysWhatWasAsked
  BY DEF SInv, IInv
<1>2. QED
  BY <1>1, SessionInvariance, PTL

-----------------------------------------------------------------------------
(* When a drive resets its count.                                          *)

IsCall(step, setter) == step.op = "call" /\ step.setter = setter

NeverCalls(s, setter) == \A i \in DOMAIN s : ~IsCall(s[i], setter)

\* Step i of s is a pause, and after it the drives are disabled, for good;
\* after one more pause they may be reset.
DisablesAt(s, i) ==
  /\ s[i].op = "sleep"
  /\ i + 1 \in DOMAIN s /\ IsCall(s[i + 1], "enable")
     /\ s[i + 1].vector = All(Off)
  /\ i + 2 \in DOMAIN s /\ s[i + 2].op = "send"
  /\ i + 3 \in DOMAIN s /\ s[i + 3].op = "sleep"
  /\ \A j \in DOMAIN s : IsCall(s[j], "resetLinearCount") => j > i
  /\ \A j \in DOMAIN s : IsCall(s[j], "enable") => j < i + 2

\* What a program must do that resets a count: disable the drives before it,
\* with a pause before and after.
ResetsWithCare(s) ==
  NeverCalls(s, "resetLinearCount") \/ \E i \in DOMAIN s : DisablesAt(s, i)

\* A packet is what its sendCommand was to send.
PacketsAsSent ==
  \A p \in transit :
    p.type = sent[p.no].type[p.to] /\ p.value = sent[p.no].value[p.to]

IsReset(p) == p.type = "ResetLinearCount"
IsEnable(p) == p.type = "Enable"

\* What each of the two ways to be careful keeps: no reset comes; or the drives
\* are off, or have missed what turns them off, before one does (OffAt).
NoReset ==
  NeverCalls(script, "resetLinearCount") =>
    /\ asked.call # "resetLinearCount"
    /\ \A p \in transit : ~IsReset(p)

\* A drive has missed the command that turns it off, or is off.
TurnedOff(no, sleptOn) ==
  \A m \in Modules :
    /\ AsksOff(no, m)
    /\ m \in enabled => <<no, m>> \notin received
    /\ sleptOn => \A q \in transit : q.no = no => q.to # m

\* From the pause before the disabling to its sendCommand nothing is on its way.
QuietAt(i) == pc \in {i + 1, i + 2} => transit = {}

NoResetUntil(i) ==
  pc <= i + 4 => /\ asked.call # "resetLinearCount"
                 /\ \A p \in transit : ~IsReset(p)

OnlyOffFrom(i) ==
  pc > i + 1 =>
    /\ pc = i + 2 => asked.call = "enable"
    /\ asked.call = "enable" => asked.args = All(Off)
    /\ \A p \in transit : IsEnable(p) => p.value = {Off}

OffSentBefore(i) ==
  pc > i + 2 =>
    \E no \in DOMAIN sent :
      /\ TurnedOff(no, pc > i + 3)
      /\ \A p \in transit : IsReset(p) => p.no > no

OffAt(i) ==
  QuietAt(i) /\ NoResetUntil(i) /\ OnlyOffFrom(i) /\ OffSentBefore(i)

OffBeforeReset == \A i \in DOMAIN script : DisablesAt(script, i) => OffAt(i)

\* Each call of sendCommand that could not fail returned true.
AllTold == ~faulty => told = DOMAIN sent

RInv == PacketsAsSent /\ NoReset /\ OffBeforeReset /\ AllTold

-----------------------------------------------------------------------------
(* What the steps do to what RInv is about.                                *)

\* The type that is sent names the last accepted call, and a command that
\* enables has its arguments.
LEMMA CommandMeaning ==
  ASSUME IInv, poked = {}
  PROVE  /\ \A m \in Modules :
              type[m] = "ResetLinearCount" <=> asked.call = "resetLinearCount"
         /\ \A m \in Modules : type[m] = "Enable" <=> asked.call = "enable"
         /\ asked.call = "enable" =>
              \A m \in Modules : MayCarry(m) = {asked.args[m]}
<1>1. /\ {"resetLinearCount", "enable"} \subseteq DOMAIN Writes
      /\ TypeOf("resetLinearCount") = "ResetLinearCount"
      /\ TypeOf("enable") = "Enable"
  BY DEF Writes, TypeOf
<1>2. /\ \A m \in Modules :
              type[m] = "ResetLinearCount" <=> asked.call = "resetLinearCount"
      /\ \A m \in Modules : type[m] = "Enable" <=> asked.call = "enable"
  BY <1>1 DEF IInv, SaysWhatWasAsked
<1>3. ASSUME asked.call = "enable", NEW m \in Modules
      PROVE  MayCarry(m) = {asked.args[m]}
  <2>1. /\ MayRead(type[m]) = {"float"} /\ "float" \in Kinds
        /\ "float" \notin Pointers
    BY <1>2, <1>3 DEF MayRead, Kinds, Pointers
  <2>2. field[m]["float"] = asked.args[m]
    BY <2>1 DEF IInv, SaysWhatWasAsked
  <2>3. MayCarry(m) = {Followed(m, "float")}
    BY <2>1 DEF MayCarry
  <2> QED BY <2>1, <2>2, <2>3 DEF Followed
<1> QED BY <1>2, <1>3

\* A setter is accepted if its vector has an element for each module.
LEMMA CallMoves ==
  ASSUME SInv, Call
  PROVE  /\ pc \in DOMAIN script /\ pc' = pc + 1
         /\ IsCall(script[pc], script[pc].setter)
         /\ UNCHANGED <<script, network, drives>>
         /\ \/ /\ Len(script[pc].vector) = N
               /\ asked'.call = script[pc].setter
               /\ asked'.args = [m \in Modules |-> script[pc].vector[m]]
            \/ Len(script[pc].vector) # N /\ asked' = asked
<1>1. /\ pc \in DOMAIN script /\ pc' = pc + 1 /\ script[pc].op = "call"
      /\ UNCHANGED <<script, network, drives>>
      /\ \/ Set(script[pc].setter, script[pc].vector)
         \/ Ignore(script[pc].setter, script[pc].vector)
  BY DEF Call, At, Step
<1> QED BY <1>1 DEF Set, Ignore, Accepted, IsCall, vars

\* The packets of a sendCommand have the number after the last.
LEMMA SendMoves ==
  ASSUME SInv, SendCommand
  PROVE  \E no \in Nat :
           /\ no = Len(sent) + 1 /\ no \notin DOMAIN sent
           /\ \A k \in DOMAIN sent : k < no
           /\ DOMAIN sent' = DOMAIN sent \cup {no}
           /\ \A k \in DOMAIN sent : sent'[k] = sent[k]
           /\ sent'[no] =
                [type |-> type, value |-> [m \in Modules |-> MayCarry(m)]]
           /\ \/ transit' = transit \cup PacketsOf(no) /\ told' = told \cup {no}
              \/ faulty /\ UNCHANGED <<transit, told>>
           /\ pc \in DOMAIN script /\ script[pc].op = "send" /\ pc' = pc + 1
           /\ UNCHANGED <<vars, script, overtakes, faulty, enabled, received>>
<1> DEFINE no == Len(sent) + 1
           new == [type |-> type, value |-> [m \in Modules |-> MayCarry(m)]]
           S == [type : [Modules -> Types \cup {"UNKNOW"}],
                 value : [Modules -> SUBSET (Values \cup {None})]]
<1>1. sent \in Seq(S) /\ sent' = Append(sent, new)
  BY DEF SInv, SessionTypeOK, SendCommand
<1> HIDE DEF new, S
<1>2. new \in S
  BY CarriesValues DEF new, S
<1>3. /\ no \in Nat /\ no \notin DOMAIN sent /\ Len(sent') = no
      /\ \A k \in DOMAIN sent : k < no
      /\ DOMAIN sent' = DOMAIN sent \cup {no}
      /\ \A k \in DOMAIN sent : sent'[k] = sent[k]
      /\ sent'[no] = new
  BY <1>1, <1>2
<1>4. /\ \/ transit' = transit \cup PacketsOf(no) /\ told' = told \cup {no}
         \/ faulty /\ UNCHANGED <<transit, told>>
      /\ pc \in DOMAIN script /\ script[pc].op = "send" /\ pc' = pc + 1
      /\ UNCHANGED <<vars, script, overtakes, faulty, enabled, received>>
  BY <1>3 DEF SendCommand, At, Step, drives
<1> HIDE DEF no
<1>5. no = Len(sent) + 1
  BY DEF no
<1> QED BY <1>3, <1>4, <1>5 DEF new

LEMMA PacketMeaning ==
  ASSUME NEW no, NEW p \in PacketsOf(no)
  PROVE  /\ p.no = no /\ p.to \in Modules /\ p.type = type[p.to]
         /\ p.value = MayCarry(p.to)
  BY DEF PacketsOf

\* Packets on their way were sent, to modules of the group.
LEMMA InTransit ==
  ASSUME SInv, NEW p \in transit
  PROVE  p.no \in DOMAIN sent /\ p.no \in Nat /\ p.to \in Modules
<1>1. p.no \in DOMAIN sent /\ p.to \in Modules
  BY DEF SInv, SessionTypeOK
<1>2. \A k \in DOMAIN sent : k \in Nat
  BY DEF SInv, SessionTypeOK
<1> QED BY <1>1, <1>2

LEMMA PcIsNat ==
  ASSUME SInv
  PROVE  pc \in Nat /\ DOMAIN script \subseteq Nat
<1> DEFINE setup ==
             [steps |-> script, overtakes |-> overtakes, faulty |-> faulty]
<1>1. setup \in Setups /\ setup.steps = script
  BY DEF SInv, SessionTypeOK
<1>2. Len(script) \in Nat /\ DOMAIN script = 1 .. Len(script)
  BY <1>1, SessionAssumption DEF SessionAssumption
<1> QED BY <1>2 DEF SInv, SessionTypeOK

-----------------------------------------------------------------------------
(* What is on its way, and what returned true.                             *)

LEMMA PacketsKeep == ASSUME SInv, RInv, SessionNext PROVE PacketsAsSent'
<1> USE DEF RInv, PacketsAsSent
<1>1. CASE Call \/ Sleep \/ Done
  BY <1>1 DEF Call, Sleep, Done, network, sessionVars
<1>2. CASE SendCommand
  <2>1. PICK no \in Nat :
          /\ no \notin DOMAIN sent
          /\ \A k \in DOMAIN sent : sent'[k] = sent[k]
          /\ sent'[no] =
               [type |-> type, value |-> [m \in Modules |-> MayCarry(m)]]
          /\ \/ transit' = transit \cup PacketsOf(no)
             \/ UNCHANGED transit
    BY <1>2, SendMoves
  <2>2. \A p \in transit : p.no \in DOMAIN sent
    BY InTransit
  <2>3. \A p \in PacketsOf(no) :
          p.type = sent'[p.no].type[p.to] /\ p.value = sent'[p.no].value[p.to]
    BY <2>1, PacketMeaning
  <2> QED BY <2>1, <2>2, <2>3
<1>3. ASSUME NEW p \in transit, Deliver(p) \/ Lose(p)
      PROVE  PacketsAsSent'
  BY <1>3 DEF Deliver, Lose
<1> QED BY <1>1, <1>2, <1>3 DEF SessionNext

LEMMA ScriptStays == SessionNext => 
  script' = script /\ overtakes' = overtakes /\ faulty' = faulty
  BY DEF SessionNext, Call, SendCommand, Sleep, Deliver, Lose, Done, Step,
         network, sessionVars

LEMMA ToldKeep == ASSUME SInv, RInv, SessionNext PROVE AllTold'
<1> USE DEF RInv, AllTold
<1>1. CASE Call \/ Sleep \/ Done
  BY <1>1 DEF Call, Sleep, Done, network, sessionVars
<1>2. CASE SendCommand
  <2>1. faulty' = faulty
    BY <1>2 DEF SendCommand
  <2>2. \E no : /\ DOMAIN sent' = DOMAIN sent \cup {no}
                /\ told' = told \cup {no} \/ faulty
    BY <1>2, SendMoves
  <2> QED BY <2>1, <2>2
<1>3. ASSUME NEW p \in transit, Deliver(p) \/ Lose(p)
      PROVE  AllTold'
  BY <1>3 DEF Deliver, Lose
<1> QED BY <1>1, <1>2, <1>3 DEF SessionNext

-----------------------------------------------------------------------------
(* Programs without a reset, or without an enable.                         *)

LEMMA NoResetKeeps == ASSUME SInv, RInv, SessionNext PROVE NoReset'
<1> SUFFICES ASSUME NeverCalls(script, "resetLinearCount") PROVE NoReset'
  BY ScriptStays DEF NoReset
<1>0. /\ asked.call # "resetLinearCount"
      /\ \A p \in transit : ~IsReset(p)
  BY DEF RInv, NoReset
<1>1. CASE Call
  <2>1. asked'.call # "resetLinearCount" /\ transit' = transit
    BY <1>0, <1>1, CallMoves DEF NeverCalls, network
  <2> QED BY <1>0, <2>1 DEF NoReset
<1>2. CASE SendCommand
  <2>1. asked' = asked
    BY <1>2 DEF SendCommand, vars
  <2>2. \A p \in transit' : ~IsReset(p)
    <3>1. PICK no \in Nat : \A p \in transit' : p \in transit \cup PacketsOf(no)
      BY <1>2, SendMoves
    <3>2. \A m \in Modules : type[m] # "ResetLinearCount"
      BY <1>0, CommandMeaning DEF SInv
    <3> QED BY <1>0, <3>1, <3>2, PacketMeaning DEF IsReset
  <2> QED BY <1>0, <2>1, <2>2 DEF NoReset
<1>3. CASE Sleep \/ Done
  BY <1>0, <1>3 DEF Sleep, Done, network, vars, sessionVars, NoReset
<1>4. ASSUME NEW p \in transit, Deliver(p) \/ Lose(p)
      PROVE  NoReset'
  BY <1>0, <1>4 DEF Deliver, Lose, vars, NoReset
<1> QED BY <1>1, <1>2, <1>3, <1>4 DEF SessionNext

-----------------------------------------------------------------------------
(* Programs that disable the drives before they reset them.                *)

\* The five steps that DisablesAt speaks of.
LEMMA StepsAround ==
  ASSUME SInv, NEW i \in DOMAIN script, DisablesAt(script, i),
         NEW j \in DOMAIN script
  PROVE  /\ i \in Nat /\ j \in Nat /\ pc \in Nat
         /\ script[j].op = "call" => j # i /\ j # i + 2 /\ j # i + 3
         /\ script[j].op = "send" => j # i /\ j # i + 1 /\ j # i + 3
         /\ script[j].op = "sleep" => j # i + 1 /\ j # i + 2
         /\ IsCall(script[j], "resetLinearCount") => j > i + 3
         /\ IsCall(script[j], "enable") => j < i + 2
         /\ j = i + 1 => /\ script[j].setter = "enable"
                         /\ script[j].vector = All(Off)
<1>1. i \in Nat /\ j \in Nat /\ pc \in Nat
  BY PcIsNat
<1>2. /\ script[j].op = "call" => j # i /\ j # i + 2 /\ j # i + 3
      /\ script[j].op = "send" => j # i /\ j # i + 1 /\ j # i + 3
      /\ script[j].op = "sleep" => j # i + 1 /\ j # i + 2
      /\ j = i + 1 => /\ script[j].setter = "enable"
                      /\ script[j].vector = All(Off)
  BY <1>1 DEF DisablesAt, IsCall
<1>3. IsCall(script[j], "resetLinearCount") => j > i + 3
  BY <1>1, <1>2 DEF DisablesAt, IsCall
<1>4. IsCall(script[j], "enable") => j < i + 2
  BY DEF DisablesAt
<1> QED BY <1>1, <1>2, <1>3, <1>4

LEMMA OffCall ==
  ASSUME SInv, Call, NEW i \in DOMAIN script, DisablesAt(script, i), OffAt(i)
  PROVE  OffAt(i)'
<1>1. /\ pc \in DOMAIN script /\ pc' = pc + 1
      /\ IsCall(script[pc], script[pc].setter)
      /\ sent' = sent /\ transit' = transit /\ enabled' = enabled
      /\ received' = received
      /\ \/ /\ Len(script[pc].vector) = N
            /\ asked'.call = script[pc].setter
            /\ asked'.args = [m \in Modules |-> script[pc].vector[m]]
         \/ Len(script[pc].vector) # N /\ asked' = asked
  BY CallMoves DEF network, drives
<1>2. /\ i \in Nat /\ pc \in Nat /\ pc # i /\ pc # i + 2 /\ pc # i + 3
      /\ script[pc].setter = "resetLinearCount" => pc > i + 3
      /\ script[pc].setter = "enable" => pc < i + 2
      /\ pc = i + 1 => /\ script[pc].setter = "enable"
                       /\ script[pc].vector = All(Off)
  BY <1>1, StepsAround DEF IsCall
<1>3. Len(All(Off)) = N /\ [m \in Modules |-> All(Off)[m]] = All(Off)
  <2>1. All(Off) \in Seq({Off}) /\ Len(All(Off)) = N
    BY CommandAssumption DEF All, Modules
  <2> QED BY <2>1 DEF All
<1>4. QuietAt(i)'
  BY <1>1, <1>2 DEF OffAt, QuietAt
<1>5. NoResetUntil(i)'
  BY <1>1, <1>2 DEF OffAt, NoResetUntil
<1>6. OnlyOffFrom(i)'
  <2>1. CASE pc = i + 1
    <3>1. asked'.call = "enable" /\ asked'.args = All(Off)
      BY <1>1, <1>2, <1>3, <2>1
    <3>2. transit = {}
      BY <1>2, <2>1 DEF OffAt, QuietAt
    <3> QED BY <1>1, <3>1, <3>2 DEF OnlyOffFrom
  <2>2. CASE pc # i + 1
    BY <1>1, <1>2, <2>2 DEF OffAt, OnlyOffFrom
  <2> QED BY <2>1, <2>2
<1>7. OffSentBefore(i)'
  <2> SUFFICES ASSUME pc' > i + 2 PROVE OffSentBefore(i)' BY DEF OffSentBefore
  <2>1. pc > i + 3 /\ pc' > i + 3
    BY <1>1, <1>2
  <2> QED BY <1>1, <1>2, <2>1 DEF OffAt, OffSentBefore, TurnedOff, AsksOff
<1> QED BY <1>4, <1>5, <1>6, <1>7 DEF OffAt

LEMMA OffSend ==
  ASSUME SInv, SendCommand, NEW i \in DOMAIN script, DisablesAt(script, i),
         OffAt(i)
  PROVE  OffAt(i)'
<1>1. PICK no \in Nat :
        /\ no \notin DOMAIN sent /\ \A k \in DOMAIN sent : k < no
        /\ DOMAIN sent' = DOMAIN sent \cup {no}
        /\ \A k \in DOMAIN sent : sent'[k] = sent[k]
        /\ sent'[no] =
             [type |-> type, value |-> [m \in Modules |-> MayCarry(m)]]
        /\ transit' = transit \cup PacketsOf(no) \/ transit' = transit
        /\ pc \in DOMAIN script /\ script[pc].op = "send" /\ pc' = pc + 1
        /\ asked' = asked /\ enabled' = enabled /\ received' = received
  BY SendMoves DEF vars
<1>2. /\ i \in Nat /\ pc \in Nat /\ pc # i /\ pc # i + 1 /\ pc # i + 3
  BY <1>1, StepsAround
<1>3. \A p \in transit' :
        \/ p \in transit
        \/ /\ p.no = no /\ p.to \in Modules /\ p.type = type[p.to]
           /\ p.value = MayCarry(p.to)
  BY <1>1, PacketMeaning
<1>4. /\ \A m \in Modules :
           type[m] = "ResetLinearCount" <=> asked.call = "resetLinearCount"
      /\ \A m \in Modules : type[m] = "Enable" <=> asked.call = "enable"
      /\ asked.call = "enable" =>
           \A m \in Modules : MayCarry(m) = {asked.args[m]}
  BY CommandMeaning DEF SInv
<1>5. QuietAt(i)'
  BY <1>1, <1>2 DEF QuietAt
<1>6. NoResetUntil(i)'
  BY <1>1, <1>2, <1>3, <1>4 DEF OffAt, NoResetUntil, IsReset
<1>7. OnlyOffFrom(i)'
  <2> SUFFICES ASSUME pc' > i + 1 PROVE OnlyOffFrom(i)' BY DEF OnlyOffFrom
  <2>1. pc > i + 1 /\ pc' # i + 2
    BY <1>1, <1>2
  <2>2. asked.call = "enable" => \A m \in Modules : MayCarry(m) = {Off}
    BY <1>4, <2>1 DEF OffAt, OnlyOffFrom, All
  <2>3. \A p \in transit' : IsEnable(p) => p.value = {Off}
    BY <1>3, <1>4, <2>1, <2>2 DEF OffAt, OnlyOffFrom, IsEnable
  <2> QED BY <1>1, <2>1, <2>3 DEF OffAt, OnlyOffFrom
<1>8. OffSentBefore(i)'
  <2> SUFFICES ASSUME pc' > i + 2 PROVE OffSentBefore(i)' BY DEF OffSentBefore
  <2>1. CASE pc = i + 2
    <3>1. /\ asked.call = "enable" /\ asked.args = All(Off) /\ transit = {}
          /\ ~(pc' > i + 3)
      BY <1>1, <1>2, <2>1 DEF OffAt, QuietAt, OnlyOffFrom
    <3>2. \A m \in Modules : type[m] = "Enable" /\ MayCarry(m) = {Off}
      BY <1>4, <3>1 DEF All
    <3>3. /\ \A m \in Modules : sent'[no].type[m] = "Enable"
          /\ \A m \in Modules : sent'[no].value[m] = {Off}
      BY <1>1, <3>2
    <3>4. \A m \in Modules : <<no, m>> \notin received'
      BY <1>1 DEF SInv, SessionTypeOK
    <3>5. \A p \in transit' : ~IsReset(p)
      BY <1>3, <3>1, <3>2 DEF IsReset
    <3> QED
      BY <1>1, <3>1, <3>3, <3>4, <3>5 DEF OffSentBefore, TurnedOff, AsksOff
  <2>2. CASE pc # i + 2
    <3>1. pc > i + 3 /\ pc > i + 2 /\ pc' > i + 3
      BY <1>1, <1>2, <2>2
    <3>2. PICK k \in DOMAIN sent :
            /\ TurnedOff(k, TRUE)
            /\ \A p \in transit : IsReset(p) => p.no > k
      BY <3>1 DEF OffAt, OffSentBefore, TurnedOff, AsksOff
    <3>3. k < no /\ k # no /\ k \in DOMAIN sent' /\ sent'[k] = sent[k]
      BY <1>1
    <3>4. \A q \in transit' : q.no = k => q \in transit
      BY <1>3, <3>3
    <3>5. TurnedOff(k, TRUE)'
      BY <1>1, <3>2, <3>3, <3>4 DEF TurnedOff, AsksOff
    <3>6. \A p \in transit' : IsReset(p) => p.no > k
      BY <1>3, <3>2, <3>3
    <3> QED BY <3>1, <3>3, <3>5, <3>6 DEF OffSentBefore, TurnedOff, AsksOff
  <2> QED BY <2>1, <2>2
<1> QED BY <1>5, <1>6, <1>7, <1>8 DEF OffAt

LEMMA OffSleep ==
  ASSUME SInv, Sleep, NEW i \in DOMAIN script, DisablesAt(script, i), OffAt(i)
  PROVE  OffAt(i)'
<1>1. /\ pc \in DOMAIN script /\ script[pc].op = "sleep" /\ pc' = pc + 1
      /\ transit' = {} /\ sent' = sent /\ asked' = asked
      /\ enabled' = enabled /\ received' = received
  BY DEF Sleep, At, Step, vars, network, drives
<1>2. i \in Nat /\ pc \in Nat /\ pc # i + 1 /\ pc # i + 2
  BY <1>1, StepsAround
<1>3. QuietAt(i)'
  BY <1>1 DEF QuietAt
<1>4. NoResetUntil(i)'
  BY <1>1, <1>2 DEF OffAt, NoResetUntil
<1>5. OnlyOffFrom(i)'
  BY <1>1, <1>2 DEF OffAt, OnlyOffFrom
<1>6. OffSentBefore(i)'
  <2> SUFFICES ASSUME pc' > i + 2 PROVE OffSentBefore(i)' BY DEF OffSentBefore
  <2>1. pc > i + 2
    BY <1>1, <1>2
  <2>2. PICK no \in DOMAIN sent : TurnedOff(no, FALSE)
    BY <2>1 DEF OffAt, OffSentBefore, TurnedOff, AsksOff
  <2> QED BY <1>1, <2>2 DEF OffSentBefore, TurnedOff, AsksOff
<1> QED BY <1>3, <1>4, <1>5, <1>6 DEF OffAt

\* An arriving packet that turns a drive on would be from before the pause.
LEMMA OffArrives ==
  ASSUME SInv, PacketsAsSent, NEW p \in transit, Deliver(p) \/ Lose(p),
         NEW i \in DOMAIN script, DisablesAt(script, i), OffAt(i)
  PROVE  OffAt(i)'
<1>1. /\ transit' = transit \ {p} /\ pc' = pc /\ sent' = sent
      /\ asked' = asked
  BY DEF Deliver, Lose, vars
<1>2. QuietAt(i)' /\ NoResetUntil(i)' /\ OnlyOffFrom(i)'
  BY <1>1 DEF OffAt, QuietAt, NoResetUntil, OnlyOffFrom
<1>3. OffSentBefore(i)'
  <2> SUFFICES ASSUME pc > i + 2 PROVE OffSentBefore(i)'
    BY <1>1 DEF OffSentBefore
  <2>1. PICK no \in DOMAIN sent :
          /\ TurnedOff(no, pc > i + 3)
          /\ \A q \in transit : IsReset(q) => q.no > no
    BY DEF OffAt, OffSentBefore
  <2>2. pc > i + 1
    BY PcIsNat
  <2>3. IsEnable(p) => p.value = {Off} /\ Off # On
    BY <2>2, SessionAssumption DEF OffAt, OnlyOffFrom, SessionAssumption
  <2>4. \A m \in Modules : m \in enabled' => <<no, m>> \notin received'
    <3>1. CASE Lose(p)
      BY <2>1, <3>1 DEF Lose, drives, TurnedOff, AsksOff
    <3>2. CASE Deliver(p)
      <4>1. enabled' = IF IsEnable(p) THEN enabled \ {p.to} ELSE enabled
        BY <2>3, <3>2 DEF Deliver, Switched, IsEnable
      <4>2. p.no = no => IsEnable(p)
        <5>1. p.to \in Modules /\ p.type = sent[p.no].type[p.to]
          BY InTransit DEF PacketsAsSent
        <5> QED BY <2>1, <5>1 DEF TurnedOff, AsksOff, IsEnable
      <4>3. received' = received \cup {<<p.no, p.to>>}
        BY <3>2 DEF Deliver
      <4> QED BY <2>1, <4>1, <4>2, <4>3 DEF TurnedOff, AsksOff
    <3> QED BY <3>1, <3>2
  <2>5. TurnedOff(no, pc > i + 3)'
    BY <1>1, <2>1, <2>4 DEF TurnedOff, AsksOff
  <2>6. \A q \in transit' : IsReset(q) => q.no > no
    BY <1>1, <2>1
  <2> QED BY <1>1, <2>5, <2>6 DEF OffSentBefore
<1> QED BY <1>2, <1>3 DEF OffAt

LEMMA OffKeeps == ASSUME SInv, RInv, SessionNext PROVE OffBeforeReset'
<1> SUFFICES ASSUME NEW i \in DOMAIN script, DisablesAt(script, i)
             PROVE  OffAt(i)'
  BY ScriptStays DEF OffBeforeReset
<1>1. OffAt(i) /\ PacketsAsSent
  BY DEF RInv, OffBeforeReset
<1>2. CASE Done
  BY <1>1, <1>2 DEF Done, sessionVars, vars, network, drives, OffAt, QuietAt,
         NoResetUntil, OnlyOffFrom, OffSentBefore, TurnedOff, AsksOff
<1> QED BY <1>1, <1>2, OffCall, OffSend, OffSleep, OffArrives DEF SessionNext

-----------------------------------------------------------------------------
(* What follows for a drive that resets its count.                         *)

LEMMA SessionInitRInv == SessionInit => RInv
<1> SUFFICES ASSUME SessionInit PROVE RInv
  OBVIOUS
<1>1. /\ pc = 1 /\ transit = {} /\ sent = <<>> /\ told = {}
      /\ asked.call \notin {"enable", "resetLinearCount"}
  BY DEF SessionInit, Init, Nothing
<1>2. DOMAIN script \subseteq Nat \ {0}
  <2>1. PICK setup \in Setups : script = setup.steps
    BY DEF SessionInit
  <2>2. Len(script) \in Nat /\ DOMAIN script = 1 .. Len(script)
    BY <2>1, SessionAssumption DEF SessionAssumption
  <2> QED BY <2>2
<1>3. OffBeforeReset
  BY <1>1, <1>2 DEF OffBeforeReset, OffAt, QuietAt, NoResetUntil, OnlyOffFrom,
                    OffSentBefore
<1> QED BY <1>1, <1>3 DEF RInv, PacketsAsSent, NoReset, AllTold

LEMMA SessionRInv == SessionSpec => []RInv
<1>1. SInv /\ RInv /\ [SessionNext]_sessionVars => RInv'
  <2> SUFFICES ASSUME SInv, RInv, [SessionNext]_sessionVars PROVE RInv'
    OBVIOUS
  <2>1. CASE UNCHANGED sessionVars
    <3>1. UNCHANGED <<asked, script, pc, overtakes, faulty, sent, transit, told,
                      enabled, received>>
      BY <2>1 DEF sessionVars, vars, network, drives
    <3>2. PacketsAsSent' /\ NoReset' /\ AllTold'
      BY <3>1 DEF RInv, PacketsAsSent, NoReset, AllTold
    <3>3. OffBeforeReset'
      BY <3>1 DEF RInv, OffBeforeReset, OffAt, QuietAt, NoResetUntil,
                  OnlyOffFrom, OffSentBefore, TurnedOff, AsksOff
    <3> QED BY <3>2, <3>3 DEF RInv
  <2>2. CASE SessionNext
    BY <2>2, PacketsKeep, NoResetKeeps, OffKeeps, ToldKeep DEF RInv
  <2> QED BY <2>1, <2>2
<1> QED BY <1>1, SessionInitRInv, SessionInvariance, PTL DEF SessionSpec

CarefulSetups == \A s \in Setups : ResetsWithCare(s.steps)

LEMMA ResetMeetsOff ==
  ASSUME SInv, RInv, CarefulSetups, NEW p \in transit, IsReset(p)
  PROVE  p.to \notin enabled \/ \E no \in 1 .. p.no : MissedOff(no, p.to)
<1>1. ResetsWithCare(script)
  BY DEF SInv, SessionTypeOK, CarefulSetups
<1>2. p.no \in DOMAIN sent /\ p.no \in Nat /\ p.to \in Modules
  BY InTransit
<1>3. CASE NeverCalls(script, "resetLinearCount")
  BY <1>3 DEF RInv, NoReset
<1>4. ASSUME NEW i \in DOMAIN script, DisablesAt(script, i)
      PROVE  p.to \in enabled => \E no \in 1 .. p.no : MissedOff(no, p.to)
  <2>1. OffAt(i) /\ i \in Nat /\ pc \in Nat
    BY <1>4, PcIsNat DEF RInv, OffBeforeReset
  <2>2. pc > i + 4
    BY <2>1 DEF OffAt, NoResetUntil
  <2>3. pc > i + 2 /\ pc > i + 3
    BY <2>1, <2>2
  <2>4. PICK no \in DOMAIN sent : TurnedOff(no, pc > i + 3) /\ p.no > no
    BY <2>1, <2>3 DEF OffAt, OffSentBefore
  <2>5. DOMAIN sent = 1 .. Len(sent) /\ Len(sent) \in Nat
    BY DEF SInv, SessionTypeOK
  <2>6. no \in 1 .. p.no
    BY <1>2, <2>4, <2>5
  <2> QED BY <1>2, <2>3, <2>4, <2>6 DEF TurnedOff, AsksOff, MissedOff
<1> QED BY <1>1, <1>3, <1>4 DEF ResetsWithCare

\* Any program that disables the drives before it resets them, with a pause
\* before and after, on any network, from any state of the drives, for a group
\* of any size: a reset meets a drive that is on only if the command before it
\* that turns the drive off was lost or refused.
THEOREM CareLeavesOnlyLoss ==
  ASSUME CarefulSetups
  PROVE  SessionSpec => OnlyLossEnablesReset
<1>1. SInv /\ RInv =>
        \A p \in transit :
          ResetArrives(p) /\ (\E no \in 1 .. p.no : AsksOff(no, p.to))
            => p.to \notin enabled \/ \E no \in 1 .. p.no : MissedOff(no, p.to)
  BY ResetMeetsOff DEF IsReset, ResetArrives
<1> QED BY <1>1, SessionInvariance, SessionRInv, PTL DEF OnlyLossEnablesReset

\* The networks that lose nothing, with a library that refuses nothing.
FaultlessSetups == \A s \in Setups : ~s.faulty

\* Where nothing is lost or refused, such a program resets no drive that is on,
\* in whatever state it finds the drives and however packets overtake each
\* other.
THEOREM CareResetsDisabled ==
  ASSUME CarefulSetups, FaultlessSetups
  PROVE  SessionSpec => ResetWhileDisabled
<1>1. ASSUME SInv, RInv, NEW p \in transit, IsReset(p)
      PROVE  p.to \notin enabled
  <2> SUFFICES ASSUME NEW no \in 1 .. p.no, MissedOff(no, p.to) PROVE FALSE
    BY <1>1, ResetMeetsOff
  <2>1. p.no \in DOMAIN sent /\ p.no \in Nat /\ p.to \in Modules
    BY <1>1, InTransit
  <2>2. DOMAIN sent = 1 .. Len(sent) /\ Len(sent) \in Nat
    BY <1>1 DEF SInv, SessionTypeOK
  <2>3. ~faulty
    BY <1>1 DEF SInv, SessionTypeOK, FaultlessSetups
  <2>4. no \in told
    BY <1>1, <2>1, <2>2, <2>3 DEF RInv, AllTold
  <2> QED BY <1>1, <2>1, <2>3, <2>4 DEF SInv, Accounted, MissedOff
<1>2. SInv /\ RInv =>
        \A p \in transit : ResetArrives(p) => p.to \notin enabled
  BY <1>1 DEF IsReset, ResetArrives
<1> QED BY <1>2, SessionInvariance, SessionRInv, PTL DEF ResetWhileDisabled

-----------------------------------------------------------------------------
(* The examples are careful.                                               *)

Setters == {"enable", "setVelocity", "setInputVelocityPt",
            "setInputPositionPt", "setLatencyTest", "resetLinearCount"}
Steps == {[op |-> "sleep"], [op |-> "send"]}
           \cup [op : {"call"}, setter : Setters, vector : Seq(Values)]
Others(setter) == {x \in Steps : ~IsCall(x, setter)}

LEMMA OthersNeverCall ==
  ASSUME NEW setter, NEW s \in Seq(Others(setter))
  PROVE  NeverCalls(s, setter)
BY DEF NeverCalls, Others

LEMMA OtherSteps ==
  /\ \A v \in Values : All(v) \in Seq(Values)
  /\ \A c : Pause \in Seq(Others(c)) /\ Len(Pause) = 1
  /\ \A c \in Setters, x \in Setters, v \in Seq(Values) :
       /\ Send(x, v) \in Seq(Steps) /\ Len(Send(x, v)) = 2
       /\ x # c => Send(x, v) \in Seq(Others(c))
<1>1. \A v \in Values : All(v) \in Seq(Values)
  BY CommandAssumption DEF All, Modules
<1>2. \A c : [op |-> "sleep"] \in Others(c) /\ [op |-> "send"] \in Others(c)
  BY DEF Others, Steps, IsCall
<1>3. ASSUME NEW c
      PROVE  Pause \in Seq(Others(c)) /\ Len(Pause) = 1
  BY <1>2 DEF Pause
<1>4. ASSUME NEW c \in Setters, NEW x \in Setters, NEW v \in Seq(Values)
      PROVE  /\ Send(x, v) \in Seq(Steps) /\ Len(Send(x, v)) = 2
             /\ x # c => Send(x, v) \in Seq(Others(c))
  <2>1. [op |-> "call", setter |-> x, vector |-> v] \in Steps
    BY DEF Steps
  <2>2. x # c => [op |-> "call", setter |-> x, vector |-> v] \in Others(c)
    BY <2>1 DEF Others, IsCall
  <2>3. [op |-> "send"] \in Steps
    BY DEF Steps
  <2> QED BY <1>2, <2>1, <2>2, <2>3 DEF Send
<1> QED BY <1>1, <1>3, <1>4

\* A loop over a setter and sendCommand has no other steps than those.
LEMMA LoopSteps ==
  ASSUME NEW S, NEW steps \in Seq(S), Len(steps) = 2
  PROVE  Repeat(steps) \in Seq(S)
<1> DEFINE e(i) == steps[((i - 1) % 2) + 1]
           n == Len(steps)
<1>0. \A k \in 1 .. n : steps[k] \in S
  OBVIOUS
<1>1. Rounds * 2 \in Nat
  BY SessionAssumption DEF SessionAssumption
<1>2. \A j \in Nat : (j % 2) + 1 \in 1 .. 2
  OBVIOUS
<1>3. \A i \in 1 .. Rounds * 2 : i - 1 \in Nat
  BY <1>1
<1>4. \A i \in 1 .. Rounds * 2 : e(i) \in S
  <2> TAKE i \in 1 .. Rounds * 2
  <2>1. ((i - 1) % 2) + 1 \in 1 .. 2
    BY <1>2, <1>3
  <2> QED BY <1>0, <2>1
<1> QED BY <1>1, <1>4 DEF Repeat

LEMMA OtherPrograms ==
  {SetVelocityProgram, SetInputVelocityProgram, LatencyProgram,
   SetPositionProgram, PassThroughProgram, CommandProgram}
     \subseteq Seq(Others("resetLinearCount"))
<1> DEFINE S == Seq(Others("resetLinearCount"))
<1>1. /\ {On, Off} \subseteq Values
      /\ {<<On>>, <<Off>>, <<On, On>>, All(On), All(Off)} \subseteq Seq(Values)
  BY OtherSteps, SessionAssumption DEF SessionAssumption
<1>3. \A x \in {"enable", "setVelocity", "setInputVelocityPt", "setLatencyTest",
                "setInputPositionPt"}, v \in Seq(Values) :
        Send(x, v) \in S /\ Repeat(Send(x, v)) \in S
  <2> TAKE x \in {"enable", "setVelocity", "setInputVelocityPt",
                  "setLatencyTest", "setInputPositionPt"}, v \in Seq(Values)
  <2>1. /\ x # "resetLinearCount" /\ x \in Setters
        /\ "resetLinearCount" \in Setters
    BY DEF Setters
  <2>2. Send(x, v) \in S /\ Len(Send(x, v)) = 2
    BY <2>1, OtherSteps
  <2> QED BY <2>2, LoopSteps
<1>4. Pause \in S /\ \A s, t \in S : s \o t \in S
  BY OtherSteps, ConcatProperties
<1> HIDE DEF S
<1>5. SetVelocityProgram \in S
  BY <1>1, <1>3, <1>4 DEF SetVelocityProgram
<1>6. SetInputVelocityProgram \in S
  BY <1>1, <1>3, <1>4 DEF SetInputVelocityProgram
<1>7. LatencyProgram \in S /\ SetPositionProgram \in S
  BY <1>1, <1>3, <1>4 DEF LatencyProgram, SetPositionProgram
<1>8. PassThroughProgram \in S /\ CommandProgram \in S
  BY <1>1, <1>3, <1>4 DEF PassThroughProgram, CommandProgram
<1> QED BY <1>5, <1>6, <1>7, <1>8 DEF S

\* What is joined has the steps of both parts.
LEMMA JoinedSteps ==
  ASSUME NEW S, NEW s \in Seq(S), NEW t \in Seq(S)
  PROVE  /\ s \o t \in Seq(S) /\ Len(s \o t) = Len(s) + Len(t)
         /\ \A j \in 1 .. Len(s) : (s \o t)[j] = s[j]
         /\ \A j \in 1 .. Len(t) : (s \o t)[Len(s) + j] = t[j]
<1>1. Len(s) \in Nat /\ Len(t) \in Nat
  OBVIOUS
<1> QED BY <1>1, ConcatProperties

\* How reset_linear_count.cpp disables the drives.
TurnOff == Pause \o Send("enable", All(Off)) \o Pause

LEMMA TurnOffSteps ==
  /\ TurnOff \in Seq(Steps) /\ Len(TurnOff) = 4
  /\ TurnOff[1] = [op |-> "sleep"] /\ TurnOff[3] = [op |-> "send"]
  /\ TurnOff[2] = [op |-> "call", setter |-> "enable", vector |-> All(Off)]
  /\ TurnOff[4] = [op |-> "sleep"]
<1> DEFINE call == [op |-> "call", setter |-> "enable", vector |-> All(Off)]
           p == [op |-> "sleep"]
           q == [op |-> "send"]
           a == Pause
           b == Send("enable", All(Off))
           ab == a \o b
<1>1. call \in Steps /\ p \in Steps /\ q \in Steps
  <2>1. All(Off) \in Seq(Values)
    BY OtherSteps, SessionAssumption DEF SessionAssumption
  <2> QED BY <2>1 DEF Steps, Setters
<1>2. /\ a \in Seq(Steps) /\ Len(a) = 1 /\ a[1] = p
      /\ b \in Seq(Steps) /\ Len(b) = 2 /\ b[1] = call /\ b[2] = q
  BY <1>1 DEF Pause, Send
<1> HIDE DEF call, p, q, a, b
<1>3. /\ ab \in Seq(Steps) /\ Len(ab) = 3
      /\ ab[1] = p /\ ab[2] = call /\ ab[3] = q
  <2>1. /\ ab \in Seq(Steps) /\ Len(ab) = Len(a) + Len(b)
        /\ \A j \in 1 .. Len(a) : ab[j] = a[j]
        /\ \A j \in 1 .. Len(b) : ab[Len(a) + j] = b[j]
    <3>1. a \in Seq(Steps) /\ b \in Seq(Steps)
      BY <1>2
    <3> QED BY ONLY <3>1, JoinedSteps
  <2> QED BY <1>2, <2>1
<1> HIDE DEF ab
<1>4. /\ TurnOff \in Seq(Steps) /\ Len(TurnOff) = 4
      /\ TurnOff[1] = p /\ TurnOff[2] = call /\ TurnOff[3] = q
      /\ TurnOff[4] = p
  <2>1. TurnOff = ab \o a
    BY DEF TurnOff, ab, a, b
  <2>2. /\ ab \o a \in Seq(Steps) /\ Len(ab \o a) = Len(ab) + Len(a)
        /\ \A j \in 1 .. Len(ab) : (ab \o a)[j] = ab[j]
        /\ \A j \in 1 .. Len(a) : (ab \o a)[Len(ab) + j] = a[j]
    <3>1. ab \in Seq(Steps) /\ a \in Seq(Steps)
      BY <1>2, <1>3
    <3> QED BY ONLY <3>1, JoinedSteps
  <2> QED BY <1>2, <1>3, <2>1, <2>2
<1> QED BY <1>4 DEF call, p, q

\* A program that pauses, disables, pauses, and resets only after that.
LEMMA DisablesBetween ==
  ASSUME NEW s \in Seq(Others("resetLinearCount")),
         NEW t \in Seq(Others("enable"))
  PROVE  \E i \in DOMAIN (s \o TurnOff \o t) :
           DisablesAt(s \o TurnOff \o t, i)
<1> DEFINE n == Len(s)
           u == s \o TurnOff
           w == u \o t
           i == n + 1
<1>1. /\ n \in Nat /\ Len(t) \in Nat
      /\ s \in Seq(Steps) /\ TurnOff \in Seq(Steps) /\ t \in Seq(Steps)
  BY TurnOffSteps DEF Others
<1>2. /\ u \in Seq(Steps) /\ Len(u) = n + 4
      /\ \A j \in 1 .. n : u[j] = s[j]
      /\ \A j \in 1 .. 4 : u[n + j] = TurnOff[j]
  <2>1. /\ u \in Seq(Steps) /\ Len(u) = Len(s) + Len(TurnOff)
        /\ \A j \in 1 .. Len(s) : u[j] = s[j]
        /\ \A j \in 1 .. Len(TurnOff) : u[Len(s) + j] = TurnOff[j]
    BY <1>1, JoinedSteps
  <2> QED BY <2>1, TurnOffSteps
<1> HIDE DEF u
<1>3. /\ w \in Seq(Steps) /\ Len(w) = n + 4 + Len(t)
      /\ \A j \in 1 .. n + 4 : w[j] = u[j]
      /\ \A j \in 1 .. Len(t) : w[n + 4 + j] = t[j]
  <2>1. /\ w \in Seq(Steps) /\ Len(w) = Len(u) + Len(t)
        /\ \A j \in 1 .. Len(u) : w[j] = u[j]
        /\ \A j \in 1 .. Len(t) : w[Len(u) + j] = t[j]
    <3>1. u \in Seq(Steps) /\ t \in Seq(Steps)
      BY <1>1, <1>2
    <3> QED BY ONLY <3>1, JoinedSteps
  <2> QED BY <1>2, <2>1
<1> HIDE DEF w
<1>4. /\ DOMAIN w = 1 .. n + 4 + Len(t)
      /\ \A j \in 1 .. 4 : n + j \in DOMAIN w /\ w[n + j] = TurnOff[j]
  <2>1. Len(t) \in Nat /\ n \in Nat
    BY <1>1
  <2>2. DOMAIN w = 1 .. n + 4 + Len(t)
    BY <1>3
  <2>3. ASSUME NEW j \in 1 .. 4
        PROVE  n + j \in DOMAIN w /\ w[n + j] = TurnOff[j]
    <3>1. n + j \in 1 .. n + 4 /\ n + j \in 1 .. n + 4 + Len(t)
      BY <2>1, <2>3
    <3> QED BY <1>2, <1>3, <2>2, <3>1
  <2> QED BY <2>2, <2>3
<1>5. /\ w[i] = TurnOff[1] /\ i \in DOMAIN w
      /\ w[i + 1] = TurnOff[2] /\ i + 1 \in DOMAIN w
      /\ w[i + 2] = TurnOff[3] /\ i + 2 \in DOMAIN w
      /\ w[i + 3] = TurnOff[4] /\ i + 3 \in DOMAIN w
  <2>1. i + 1 = n + 2 /\ i + 2 = n + 3 /\ i + 3 = n + 4
    BY <1>1
  <2> QED BY <1>4, <2>1
<1>6. ASSUME NEW j \in DOMAIN w
      PROVE  /\ IsCall(w[j], "resetLinearCount") => j > i
             /\ IsCall(w[j], "enable") => j < i + 2
  <2>1. CASE j \in 1 .. n
    <3>1. ~IsCall(w[j], "resetLinearCount") /\ j < i + 2
      <4>1. w[j] = s[j] /\ s[j] \in Others("resetLinearCount")
        BY <1>1, <1>2, <1>3, <2>1, SMTT(30)
      <4> QED BY <1>1, <2>1, <4>1 DEF Others
    <3> QED BY <3>1
  <2>2. CASE j \in n + 1 .. n + 4
    <3>1. j = i \/ j = i + 1 \/ j = i + 2 \/ j = i + 3
      BY <1>1, <2>2
    <3>2. ~IsCall(w[j], "resetLinearCount")
      BY <1>5, <3>1, TurnOffSteps DEF IsCall
    <3>3. IsCall(w[j], "enable") => j = i + 1
      BY <1>5, <3>1, TurnOffSteps DEF IsCall
    <3> QED BY <1>1, <3>2, <3>3
  <2>3. CASE j > n + 4
    <3>1. j - (n + 4) \in 1 .. Len(t) /\ n + 4 + (j - (n + 4)) = j
      BY <1>1, <1>4, <2>3
    <3>2. w[j] \in Others("enable")
      <4> DEFINE k == j - (n + 4)
      <4>1. w[n + 4 + k] = t[k] /\ t[k] \in Others("enable")
        BY <1>3, <3>1
      <4> QED BY <3>1, <4>1
    <3> QED BY <1>1, <1>4, <2>3, <3>2 DEF Others
  <2> QED BY <1>1, <1>4, <2>1, <2>2, <2>3
<1>7. DisablesAt(w, i)
  BY <1>5, <1>6, TurnOffSteps DEF DisablesAt, IsCall
<1> QED BY <1>5, <1>7 DEF w, u

LEMMA ResetLinearCountDisables ==
  \E i \in DOMAIN ResetLinearCountProgram :
    DisablesAt(ResetLinearCountProgram, i)
<1> DEFINE a == Send("enable", All(On))
           p == Pause
           r == Repeat(Send("setInputPositionPt", <<On, On>>))
           h == a \o p \o r
           e == Send("enable", All(Off))
           x == Send("resetLinearCount", All(Off))
           t == x \o p
           S == Seq(Steps)
<1>1. /\ All(On) \in Seq(Values) /\ All(Off) \in Seq(Values)
      /\ <<On, On>> \in Seq(Values)
      /\ {"enable", "resetLinearCount", "setInputPositionPt"} \subseteq Setters
      /\ "enable" # "resetLinearCount"
      /\ "setInputPositionPt" # "resetLinearCount"
  BY OtherSteps, SessionAssumption DEF SessionAssumption, Setters
<1>2. /\ a \in Seq(Others("resetLinearCount"))
      /\ r \in Seq(Others("resetLinearCount"))
      /\ p \in Seq(Others("resetLinearCount"))
      /\ x \in Seq(Others("enable")) /\ p \in Seq(Others("enable"))
      /\ e \in S
  BY <1>1, OtherSteps, LoopSteps
<1> HIDE DEF a, p, r, e, x
<1>3. /\ h \in Seq(Others("resetLinearCount"))
      /\ t \in Seq(Others("enable"))
  BY <1>2, ConcatProperties
<1>4. \A c : Others(c) \subseteq Steps
  BY DEF Others
<1>5. h \in S /\ p \in S /\ e \in S /\ x \in S
  BY <1>2, <1>3, <1>4
<1> HIDE DEF h
<1>6. h \o (p \o e \o p) = h \o p \o e \o p
  <2> DEFINE y == p \o e
  <2>1. h \in Seq(Steps) /\ p \in Seq(Steps) /\ e \in Seq(Steps)
    BY <1>5
  <2>2. y \in Seq(Steps)
    BY ONLY <2>1, ConcatProperties
  <2>3. h \o (p \o e) = (h \o p) \o e
    BY ONLY <2>1, ConcatAssociative, SMTT(30)
  <2> HIDE DEF y
  <2>4. h \o (y \o p) = (h \o y) \o p
    BY ONLY <2>1, <2>2, ConcatAssociative, SMTT(30)
  <2> QED BY <2>3, <2>4 DEF y
<1>7. h \o p \o e \o p \o t = h \o p \o e \o p \o x \o p
  <2> DEFINE z == h \o p \o e \o p
  <2>1. h \o p \in S
    BY <1>5, ConcatProperties
  <2>2. z \in S
    <3> DEFINE y == h \o p
    <3>1. y \in S
      BY <2>1
    <3> HIDE DEF y
    <3>2. y \o e \in S
      BY <1>5, <3>1, ConcatProperties
    <3>3. (y \o e) \o p \in S
      BY <1>5, <3>2, ConcatProperties
    <3> QED BY <3>3 DEF y
  <2> HIDE DEF z
  <2>3. z \in Seq(Steps) /\ x \in Seq(Steps) /\ p \in Seq(Steps)
    BY <1>5, <2>2
  <2>4. z \o (x \o p) = (z \o x) \o p
    BY ONLY <2>3, ConcatAssociative, SMTT(30)
  <2> QED BY <2>4 DEF z
<1>8. ResetLinearCountProgram = h \o TurnOff \o t
  BY <1>6, <1>7 DEF ResetLinearCountProgram, TurnOff, h, a, p, r, e, x
<1> QED BY <1>3, <1>8, DisablesBetween

\* The examples under examples/src, on any network, but for the two that reset
\* the counts without having disabled the drives (03_feedback.cpp:37-38 and
\* 05_feedback_command_async.cpp:94-95).
ExampleSetups ==
  \A s \in Setups : s.steps \in Examples \ {FeedbackProgram, AsyncProgram}

LEMMA ExamplesAreCareful ==
  ASSUME ExampleSetups
  PROVE  CarefulSetups
<1> SUFFICES ASSUME NEW s \in Setups
             PROVE  ResetsWithCare(s.steps)
  BY DEF CarefulSetups
<1>1. CASE s.steps = ResetLinearCountProgram
  BY <1>1, ResetLinearCountDisables DEF ResetsWithCare
<1>2. CASE s.steps \in {SetVelocityProgram, SetInputVelocityProgram,
                        LatencyProgram, SetPositionProgram,
                        PassThroughProgram, CommandProgram}
  BY <1>2, OtherPrograms, OthersNeverCall DEF ResetsWithCare
<1> QED BY <1>1, <1>2 DEF ExampleSetups, Examples, PausingPrograms

\* Those examples, for a group of any size, loops of any length and drives in
\* any state: whatever the network loses, overtakes or refuses, a drive that
\* resets its count while it is on has not received the command before it that
\* turns it off.
THEOREM ExamplesLeaveOnlyLoss ==
  ASSUME ExampleSetups
  PROVE  SessionSpec => OnlyLossEnablesReset
BY ExamplesAreCareful, CareLeavesOnlyLoss

\* The comment of reset_linear_count.cpp:76 holds of them where nothing is lost
\* or refused: no drive is on when it resets its count.
THEOREM ExamplesResetDisabled ==
  ASSUME ExampleSetups, FaultlessSetups
  PROVE  SessionSpec => ResetWhileDisabled
BY ExamplesAreCareful, CareResetsDisabled

-----------------------------------------------------------------------------
(* How the drives end.                                                     *)

\* Step i of s is the last call of enable, with v for every module, and is sent.
EndsAt(s, i, v) ==
  /\ IsCall(s[i], "enable") /\ s[i].vector = All(v)
  /\ i + 1 \in DOMAIN s /\ s[i + 1].op = "send"
  /\ \A j \in DOMAIN s : IsCall(s[j], "enable") => j <= i

FirstEnable(s, i) == \A j \in DOMAIN s : IsCall(s[j], "enable") => j >= i

\* Between step i of s and the enable before it there is a pause, after which
\* no sendCommand sends that enable again.
PausesAt(s, k, i) ==
  /\ k < i /\ s[k].op = "sleep"
  /\ k + 1 \in DOMAIN s /\ s[k + 1].op = "call" /\ Len(s[k + 1].vector) = N
  /\ \A j \in DOMAIN s : IsCall(s[j], "enable") => j <= k \/ j >= i

NoLateEnable(s, i, inOrder) ==
  inOrder \/ FirstEnable(s, i) \/ \E k \in DOMAIN s : PausesAt(s, k, i)

\* What a program must do for the drives to end as it asked, if it asks.
SettlesWithCare(s, inOrder) ==
  \/ NeverCalls(s, "enable")
  \/ \E i \in DOMAIN s, v \in Values :
       EndsAt(s, i, v) /\ NoLateEnable(s, i, inOrder)

NoEnableComes == \A p \in transit : ~IsEnable(p)

QuietFirst(i) == pc <= i => asked.call # "enable" /\ NoEnableComes

QuietFrom(k, i) ==
  /\ pc = k + 1 => transit = {}
  /\ pc \in k + 1 .. i => NoEnableComes
  /\ pc \in k + 2 .. i => asked.call # "enable"

\* Command no gives all the drives v, and a drive that it has reached keeps it.
Settling(no, v) ==
  /\ \A q \in transit : IsEnable(q) /\ (q.no >= no \/ overtakes)
       => q.value = {v}
  /\ \A m \in Modules :
       sent[no].type[m] = "Enable" /\ sent[no].value[m] = {v}
  /\ \A m \in Modules :
       \/ \E q \in transit : q.no = no /\ q.to = m
       \/ /\ m \in enabled <=> v = On
          /\ \A q \in transit : q.to = m /\ IsEnable(q) => q.value = {v}

SettlesAt(i, v) ==
  /\ pc > i /\ asked.call = "enable" => asked.args = All(v)
  /\ pc = i + 1 => asked.call = "enable" /\ (overtakes => NoEnableComes)
  /\ pc > i + 1 => \E no \in DOMAIN sent : Settling(no, v)

EndInv == ~faulty =>
  \A i \in DOMAIN script, v \in Values : EndsAt(script, i, v) =>
    /\ FirstEnable(script, i) => QuietFirst(i)
    /\ \A k \in DOMAIN script : PausesAt(script, k, i) => QuietFrom(k, i)
    /\ NoLateEnable(script, i, ~overtakes) => SettlesAt(i, v)

\* What a sendCommand adds: packets that enable if enable was asked last.
LEMMA NewPackets ==
  ASSUME SInv, SendCommand
  PROVE  \E no \in Nat :
           /\ no \notin DOMAIN sent /\ \A k \in DOMAIN sent : k < no
           /\ DOMAIN sent' = DOMAIN sent \cup {no}
           /\ \A k \in DOMAIN sent : sent'[k] = sent[k]
           /\ sent'[no] =
                [type |-> type, value |-> [m \in Modules |-> MayCarry(m)]]
           /\ transit' = transit \cup PacketsOf(no)
              \/ (faulty /\ transit' = transit)
           /\ \A p \in transit' :
                \/ p \in transit
                \/ /\ p.no = no /\ p.to \in Modules /\ p.type = type[p.to]
                   /\ p.value = MayCarry(p.to)
                   /\ IsEnable(p) <=> asked.call = "enable"
<1>1. PICK no \in Nat :
        /\ no \notin DOMAIN sent /\ \A k \in DOMAIN sent : k < no
        /\ DOMAIN sent' = DOMAIN sent \cup {no}
        /\ \A k \in DOMAIN sent : sent'[k] = sent[k]
        /\ sent'[no] =
             [type |-> type, value |-> [m \in Modules |-> MayCarry(m)]]
        /\ transit' = transit \cup PacketsOf(no)
           \/ (faulty /\ transit' = transit)
  BY SendMoves
<1>2. \A p \in PacketsOf(no) :
        /\ p.no = no /\ p.to \in Modules /\ p.type = type[p.to]
        /\ p.value = MayCarry(p.to)
        /\ IsEnable(p) <=> asked.call = "enable"
  BY PacketMeaning, CommandMeaning DEF SInv, IsEnable
<1> QED BY <1>1, <1>2

LEMMA QuietFirstKeeps ==
  ASSUME SInv, SessionNext, NEW i \in DOMAIN script,
         IsCall(script[i], "enable"), FirstEnable(script, i), QuietFirst(i)
  PROVE  QuietFirst(i)'
<1> SUFFICES ASSUME pc' <= i
             PROVE  asked'.call # "enable" /\ NoEnableComes'
  BY DEF QuietFirst
<1>1. i \in Nat /\ pc \in Nat
  BY PcIsNat
<1>2. CASE Call
  <2>1. /\ pc' = pc + 1 /\ pc \in DOMAIN script /\ transit' = transit
        /\ IsCall(script[pc], script[pc].setter)
        /\ asked'.call = script[pc].setter \/ asked' = asked
    BY <1>2, CallMoves DEF network
  <2>2. pc < i
    BY <1>1, <2>1
  <2>3. script[pc].setter # "enable" /\ pc <= i
    BY <1>1, <2>1, <2>2 DEF FirstEnable
  <2> QED BY <2>1, <2>3 DEF QuietFirst, NoEnableComes
<1>3. CASE SendCommand
  <2>1. pc' = pc + 1 /\ asked' = asked
    BY <1>3 DEF SendCommand, Step, vars
  <2>2. pc <= i
    BY <1>1, <2>1
  <2> QED BY <1>3, <2>1, <2>2, NewPackets DEF QuietFirst, NoEnableComes
<1>4. CASE Sleep
  <2>1. pc' = pc + 1 /\ asked' = asked /\ transit' = transit
    BY <1>4 DEF Sleep, Step, vars, network
  <2>2. pc <= i
    BY <1>1, <2>1
  <2> QED BY <2>1, <2>2 DEF QuietFirst, NoEnableComes
<1>5. ASSUME NEW p \in transit, Deliver(p) \/ Lose(p)
      PROVE  asked'.call # "enable" /\ NoEnableComes'
  BY <1>5 DEF Deliver, Lose, vars, QuietFirst, NoEnableComes
<1>6. CASE Done
  BY <1>6 DEF Done, sessionVars, vars, network, QuietFirst, NoEnableComes
<1> QED BY <1>2, <1>3, <1>4, <1>5, <1>6 DEF SessionNext

LEMMA QuietFromKeeps ==
  ASSUME SInv, SessionNext, NEW i \in DOMAIN script, NEW k \in DOMAIN script,
         PausesAt(script, k, i), QuietFrom(k, i)
  PROVE  QuietFrom(k, i)'
<1>1. i \in Nat /\ k \in Nat /\ pc \in Nat
  BY PcIsNat
<1>2. CASE Call
  <2>1. /\ pc' = pc + 1 /\ pc \in DOMAIN script /\ transit' = transit
        /\ IsCall(script[pc], script[pc].setter)
        /\ \/ asked'.call = script[pc].setter
           \/ Len(script[pc].vector) # N /\ asked' = asked
    BY <1>2, CallMoves DEF network
  <2>2. pc # k
    BY <2>1 DEF PausesAt, IsCall
  <2>3. pc' \in k + 1 .. i => pc \in k + 1 .. i /\ pc' # k + 1
    BY <1>1, <2>1, <2>2
  <2>4. ASSUME pc' \in k + 2 .. i
        PROVE  asked'.call # "enable"
    <3>1. pc \in k + 1 .. i /\ ~(pc <= k) /\ ~(pc >= i)
      BY <1>1, <2>1, <2>4
    <3>2. script[pc].setter # "enable"
      BY <2>1, <3>1 DEF PausesAt
    <3>3. pc = k + 1 \/ pc \in k + 2 .. i
      BY <1>1, <3>1
    <3> QED BY <2>1, <3>2, <3>3 DEF PausesAt, QuietFrom
  <2>5. pc' # k + 1
    BY <1>1, <2>1, <2>2
  <2> QED BY <2>1, <2>3, <2>4, <2>5 DEF QuietFrom, NoEnableComes
<1>3. CASE SendCommand \/ Sleep
  <2>1. /\ pc' = pc + 1 /\ pc \in DOMAIN script /\ asked' = asked
        /\ script[pc].op \in {"send", "sleep"}
        /\ Sleep => transit' = {}
    BY <1>3 DEF SendCommand, Sleep, At, Step, vars, network
  <2>2. pc # k + 1
    BY <2>1 DEF PausesAt
  <2>3. pc' \in k + 2 .. i => pc \in k + 2 .. i /\ pc \in k + 1 .. i
    BY <1>1, <2>1, <2>2
  <2>4. pc' \in k + 1 .. i => pc' = k + 1 \/ pc' \in k + 2 .. i
    BY <1>1
  <2>5. pc' = k + 1 => transit' = {}
    <3>1. pc' = k + 1 => pc = k
      BY <1>1, <2>1
    <3> QED BY <1>3, <2>1, <3>1 DEF PausesAt, SendCommand, At
  <2>6. pc' \in k + 2 .. i => NoEnableComes'
    <3>1. CASE Sleep
      BY <2>1, <3>1 DEF NoEnableComes
    <3>2. CASE SendCommand
      BY <2>3, <3>2, NewPackets DEF QuietFrom, NoEnableComes
    <3> QED BY <1>3, <3>1, <3>2
  <2>7. pc' = k + 1 => NoEnableComes'
    BY <2>5 DEF NoEnableComes
  <2> QED BY <2>1, <2>3, <2>4, <2>5, <2>6, <2>7 DEF QuietFrom
<1>4. ASSUME NEW p \in transit, Deliver(p) \/ Lose(p)
      PROVE  QuietFrom(k, i)'
  BY <1>4 DEF Deliver, Lose, vars, QuietFrom, NoEnableComes
<1>5. CASE Done
  BY <1>5 DEF Done, sessionVars, vars, network, QuietFrom, NoEnableComes
<1> QED BY <1>2, <1>3, <1>4, <1>5 DEF SessionNext

LEMMA AllFits == \A v : Len(All(v)) = N /\ \A m \in Modules : All(v)[m] = v
<1> SUFFICES ASSUME NEW v PROVE Len(All(v)) = N
  BY DEF All
<1> QED BY CommandAssumption DEF All, Modules

LEMMA SettlesCall ==
  ASSUME SInv, Call, NEW i \in DOMAIN script, NEW v, EndsAt(script, i, v),
         SettlesAt(i, v), pc = i /\ overtakes => NoEnableComes
  PROVE  SettlesAt(i, v)'
<1>1. /\ pc \in DOMAIN script /\ pc' = pc + 1
      /\ IsCall(script[pc], script[pc].setter)
      /\ overtakes' = overtakes /\ sent' = sent /\ transit' = transit
      /\ enabled' = enabled
      /\ \/ /\ Len(script[pc].vector) = N
            /\ asked'.call = script[pc].setter
            /\ asked'.args = [m \in Modules |-> script[pc].vector[m]]
         \/ Len(script[pc].vector) # N /\ asked' = asked
  BY CallMoves DEF network, drives
<1>2. /\ i \in Nat /\ pc \in Nat /\ pc # i + 1
      /\ pc > i => script[pc].setter # "enable"
      /\ pc = i => script[pc].setter = "enable" /\ script[pc].vector = All(v)
  <2>1. i \in Nat /\ pc \in Nat
    BY PcIsNat
  <2>2. script[pc].setter = "enable" => pc <= i
    BY <1>1 DEF EndsAt
  <2>3. pc # i + 1
    BY <1>1 DEF EndsAt, IsCall
  <2> QED BY <2>1, <2>2, <2>3 DEF EndsAt, IsCall
<1>3. CASE pc < i
  BY <1>1, <1>2, <1>3 DEF SettlesAt
<1>4. CASE pc = i
  <2>1. asked'.call = "enable" /\ asked'.args = All(v)
    <3>1. [m \in Modules |-> All(v)[m]] = All(v)
      BY DEF All
    <3> QED BY <1>1, <1>2, <1>4, <3>1, AllFits
  <2>2. pc' = i + 1
    BY <1>1, <1>4
  <2> QED BY <1>1, <1>2, <1>4, <2>1, <2>2 DEF SettlesAt, NoEnableComes
<1>5. CASE pc > i
  <2>1. pc' # i + 1 /\ pc > i + 1
    BY <1>1, <1>2, <1>5
  <2>2. asked'.call = "enable" => asked' = asked
    BY <1>1, <1>2, <1>5
  <2> QED BY <1>1, <1>5, <2>1, <2>2 DEF SettlesAt, Settling
<1> QED BY <1>2, <1>3, <1>4, <1>5

\* The sendCommand after the last enable starts to settle the drives, and what
\* is sent after it does not unsettle them.
LEMMA SettlesSend ==
  ASSUME SInv, SendCommand, ~faulty, NEW i \in DOMAIN script, NEW v,
         EndsAt(script, i, v), SettlesAt(i, v)
  PROVE  SettlesAt(i, v)'
<1>1. PICK no \in Nat :
        /\ no \notin DOMAIN sent /\ \A k \in DOMAIN sent : k < no
        /\ DOMAIN sent' = DOMAIN sent \cup {no}
        /\ \A k \in DOMAIN sent : sent'[k] = sent[k]
        /\ sent'[no] =
             [type |-> type, value |-> [m \in Modules |-> MayCarry(m)]]
        /\ transit' = transit \cup PacketsOf(no)
        /\ \A p \in transit' :
             \/ p \in transit
             \/ /\ p.no = no /\ p.to \in Modules
                /\ p.value = MayCarry(p.to)
                /\ IsEnable(p) <=> asked.call = "enable"
  BY NewPackets
<1>2. /\ pc \in DOMAIN script /\ script[pc].op = "send" /\ pc' = pc + 1
      /\ asked' = asked /\ overtakes' = overtakes /\ enabled' = enabled
  BY DEF SendCommand, At, Step, vars, drives
<1>3. i \in Nat /\ pc \in Nat /\ pc # i
  BY <1>2, PcIsNat DEF EndsAt, IsCall
<1>4. /\ pc' > i => pc > i
      /\ pc' # i + 1
      /\ pc' > i + 1 => pc = i + 1 \/ pc > i + 1
  BY <1>2, <1>3
<1>5. asked.call = "enable" /\ pc > i => \A m \in Modules : MayCarry(m) = {v}
  BY CommandMeaning, AllFits DEF SInv, SettlesAt
<1>6. ASSUME pc = i + 1
      PROVE  Settling(no, v)'
  <2>1. /\ asked.call = "enable"
        /\ \A m \in Modules : type[m] = "Enable" /\ MayCarry(m) = {v}
    <3>1. asked.call = "enable" /\ pc > i
      BY <1>3, <1>6 DEF SettlesAt
    <3> QED BY <1>5, <3>1, CommandMeaning DEF SInv
  <2>2. ASSUME NEW q \in transit', IsEnable(q), q.no >= no \/ overtakes
        PROVE  q.value = {v}
    <3>1. CASE q \in transit
      <4>1. q.no < no /\ q.no \in Nat
        BY <1>1, <3>1, InTransit
      <4>2. overtakes
        BY <2>2, <4>1
      <4> QED BY <1>6, <2>2, <3>1, <4>2 DEF SettlesAt, NoEnableComes
    <3> QED BY <1>1, <2>1, <3>1
  <2>3. /\ \A m \in Modules : sent'[no].type[m] = "Enable"
        /\ \A m \in Modules : sent'[no].value[m] = {v}
    BY <1>1, <2>1
  <2>4. ASSUME NEW m \in Modules
        PROVE  \E q \in transit' : q.no = no /\ q.to = m
    <3> DEFINE q ==
                 [no |-> no, to |-> m, type |-> type[m], value |-> MayCarry(m)]
    <3>1. q \in PacketsOf(no)
      BY DEF PacketsOf
    <3> QED BY <1>1, <3>1
  <2> QED BY <1>2, <2>2, <2>3, <2>4 DEF Settling
<1>7. ASSUME pc > i + 1
      PROVE  \E k \in DOMAIN sent' : Settling(k, v)'
  <2>1. PICK k \in DOMAIN sent : Settling(k, v)
    BY <1>7 DEF SettlesAt
  <2>2. k # no /\ k \in DOMAIN sent' /\ sent'[k] = sent[k]
    BY <1>1
  <2>3. pc > i
    BY <1>3, <1>7
  <2>4. \A q \in transit' : IsEnable(q) => q \in transit \/ q.value = {v}
    BY <1>1, <1>5, <2>3
  <2>5. transit \subseteq transit'
    BY <1>1
  <2>6. Settling(k, v)'
    BY <1>2, <2>1, <2>2, <2>4, <2>5 DEF Settling
  <2> QED BY <2>2, <2>6
<1>8. pc' > i + 1 => \E k \in DOMAIN sent' : Settling(k, v)'
  BY <1>1, <1>4, <1>6, <1>7
<1>9. pc' > i /\ asked'.call = "enable" => asked'.args = All(v)
  BY <1>2, <1>4 DEF SettlesAt
<1> QED BY <1>4, <1>8, <1>9 DEF SettlesAt

LEMMA SettlesSleep ==
  ASSUME SInv, Sleep, NEW i \in DOMAIN script, NEW v, EndsAt(script, i, v),
         SettlesAt(i, v)
  PROVE  SettlesAt(i, v)'
<1>1. /\ pc \in DOMAIN script /\ script[pc].op = "sleep" /\ pc' = pc + 1
      /\ asked' = asked /\ overtakes' = overtakes /\ enabled' = enabled
      /\ sent' = sent /\ transit' = transit
  BY DEF Sleep, At, Step, vars, network, drives
<1>2. i \in Nat /\ pc \in Nat /\ pc # i /\ pc # i + 1
  BY <1>1, PcIsNat DEF EndsAt, IsCall
<1>3. /\ pc' > i => pc > i
      /\ pc' # i + 1
      /\ pc' > i + 1 => pc > i + 1
  BY <1>1, <1>2
<1> QED BY <1>1, <1>3 DEF SettlesAt, Settling

\* What arrives was sent by the command that settles, or before it, or gives
\* the same; and what was sent before it does not arrive after it.
LEMMA SettlesDeliver ==
  ASSUME SInv, PacketsAsSent, NEW p \in transit, Deliver(p),
         NEW i \in DOMAIN script, NEW v, SettlesAt(i, v)
  PROVE  SettlesAt(i, v)'
<1>1. /\ transit' = transit \ {p} /\ enabled' = Switched(p)
      /\ pc' = pc /\ asked' = asked /\ sent' = sent /\ overtakes' = overtakes
      /\ overtakes \/ \A q \in transit : q.to = p.to => q.no >= p.no
  BY DEF Deliver, vars
<1>2. ASSUME NEW no \in DOMAIN sent, Settling(no, v)
      PROVE  Settling(no, v)'
  <2>1. p.to \in Modules /\ p.no \in DOMAIN sent
    BY InTransit
  <2>2. ASSUME NEW m \in Modules
        PROVE  \/ \E q \in transit' : q.no = no /\ q.to = m
               \/ /\ m \in enabled' <=> v = On
                  /\ \A q \in transit' :
                       q.to = m /\ IsEnable(q) => q.value = {v}
    <3>1. CASE p.to # m
      <4>1. m \in enabled' <=> m \in enabled
        BY <1>1, <3>1 DEF Switched
      <4>2. \A q \in transit : q.to = m => q \in transit'
        BY <1>1, <3>1
      <4> QED BY <1>1, <1>2, <4>1, <4>2 DEF Settling
    <3>2. CASE p.to = m /\ p.no = no
      <4>1. IsEnable(p) /\ p.value = {v}
        BY <1>2, <2>1, <3>2 DEF PacketsAsSent, Settling, IsEnable
      <4>2. m \in enabled' <=> v = On
        BY <1>1, <3>2, <4>1 DEF Switched, IsEnable
      <4>3. \A q \in transit : q.to = m /\ IsEnable(q) => q.value = {v}
        BY <1>1, <1>2, <3>2 DEF Settling
      <4> QED BY <1>1, <4>2, <4>3
    <3>3. CASE p.to = m /\ p.no # no
      <4>1. CASE \E q \in transit : q.no = no /\ q.to = m
        BY <1>1, <3>3, <4>1
      <4>2. CASE /\ m \in enabled <=> v = On
                 /\ \A q \in transit : q.to = m /\ IsEnable(q) => q.value = {v}
        <5>1. IsEnable(p) => p.value = {v}
          BY <3>3, <4>2
        <5>2. m \in enabled' <=> v = On
          BY <1>1, <3>3, <4>2, <5>1 DEF Switched, IsEnable
        <5> QED BY <1>1, <4>2, <5>2
      <4> QED BY <1>2, <4>1, <4>2 DEF Settling
    <3> QED BY <3>1, <3>2, <3>3
  <2> QED BY <1>1, <1>2, <2>2 DEF Settling
<1> QED BY <1>1, <1>2 DEF SettlesAt, NoEnableComes

LEMMA EndKeeps ==
  ASSUME SInv, RInv, EndInv, ~faulty, SessionNext
  PROVE  EndInv'
<1> SUFFICES ASSUME NEW i \in DOMAIN script, NEW v \in Values,
                    EndsAt(script, i, v)
             PROVE  /\ FirstEnable(script, i) => QuietFirst(i)'
                    /\ \A k \in DOMAIN script :
                         PausesAt(script, k, i) => QuietFrom(k, i)'
                    /\ NoLateEnable(script, i, ~overtakes) =>
                         SettlesAt(i, v)'
  BY ScriptStays DEF EndInv
<1>1. /\ FirstEnable(script, i) => QuietFirst(i)
      /\ \A k \in DOMAIN script : PausesAt(script, k, i) => QuietFrom(k, i)
      /\ NoLateEnable(script, i, ~overtakes) => SettlesAt(i, v)
  BY DEF EndInv
<1>2. FirstEnable(script, i) => QuietFirst(i)'
  BY <1>1, QuietFirstKeeps DEF EndsAt
<1>3. \A k \in DOMAIN script : PausesAt(script, k, i) => QuietFrom(k, i)'
  BY <1>1, QuietFromKeeps
<1>4. ASSUME NoLateEnable(script, i, ~overtakes)
      PROVE  SettlesAt(i, v)'
  <2>1. SettlesAt(i, v)
    BY <1>1, <1>4
  <2>2. pc = i /\ overtakes => NoEnableComes
    <3> SUFFICES ASSUME pc = i, overtakes PROVE NoEnableComes
      OBVIOUS
    <3>1. i \in Nat /\ DOMAIN script \subseteq Nat
      BY PcIsNat
    <3>2. CASE FirstEnable(script, i)
      BY <1>1, <3>1, <3>2 DEF QuietFirst
    <3>3. ASSUME NEW k \in DOMAIN script, PausesAt(script, k, i)
          PROVE  NoEnableComes
      <4>1. pc \in k + 1 .. i
        BY <3>1, <3>3 DEF PausesAt
      <4> QED BY <1>1, <3>3, <4>1 DEF QuietFrom
    <3> QED BY <1>4, <3>2, <3>3 DEF NoLateEnable
  <2>3. CASE Done
    BY <2>1, <2>3 DEF Done, sessionVars, vars, network, drives, SettlesAt,
                      Settling, NoEnableComes
  <2>4. CASE \E p \in transit : Deliver(p) \/ Lose(p)
    BY <2>1, <2>4, SettlesDeliver DEF RInv, Lose
  <2> QED BY <2>1, <2>2, <2>3, <2>4, SettlesCall, SettlesSend, SettlesSleep
          DEF SessionNext
<1> QED BY <1>2, <1>3, <1>4

LEMMA SessionEndInv == SessionSpec => []EndInv
<1>1. SessionInit => EndInv
  <2> SUFFICES ASSUME SessionInit, NEW i \in DOMAIN script PROVE
                 /\ QuietFirst(i) /\ \A k \in DOMAIN script : QuietFrom(k, i)
                 /\ \A v : SettlesAt(i, v)
    BY DEF EndInv
  <2>1. pc = 1 /\ transit = {} /\ asked.call # "enable"
    BY DEF SessionInit, Init, Nothing
  <2>2. DOMAIN script \subseteq Nat \ {0}
    <3>1. PICK setup \in Setups : script = setup.steps
      BY DEF SessionInit
    <3>2. Len(script) \in Nat /\ DOMAIN script = 1 .. Len(script)
      BY <3>1, SessionAssumption DEF SessionAssumption
    <3> QED BY <3>2
  <2> QED BY <2>1, <2>2 DEF QuietFirst, QuietFrom, SettlesAt, NoEnableComes
<1>2. SInv /\ RInv /\ EndInv /\ [SessionNext]_sessionVars => EndInv'
  <2> SUFFICES ASSUME SInv, RInv, EndInv, [SessionNext]_sessionVars
               PROVE  EndInv'
    OBVIOUS
  <2>1. CASE UNCHANGED sessionVars
    BY <2>1 DEF sessionVars, vars, network, drives, EndInv, QuietFirst,
                QuietFrom, SettlesAt, Settling, NoEnableComes
  <2>2. CASE SessionNext
    <3>1. CASE faulty
      BY <2>2, <3>1, ScriptStays DEF EndInv
    <3>2. CASE ~faulty
      BY <2>2, <3>2, EndKeeps
    <3> QED BY <3>1, <3>2
  <2> QED BY <2>1, <2>2
<1> QED BY <1>1, <1>2, SessionInvariance, SessionRInv, PTL DEF SessionSpec

SettlingSetups == \A s \in Setups : SettlesWithCare(s.steps, ~s.overtakes)

\* Any program that keeps the rule, for a group of any size, from any state of
\* the drives, with or without overtaking: where nothing is lost or refused, the
\* drives end as it asked.
THEOREM CareSettlesDrives ==
  ASSUME SettlingSetups
  PROVE  SessionSpec => []SettledAsTold
<1>1. ASSUME SInv, RInv, EndInv, ~faulty, Enables # {}, pc > Len(script),
             transit = {}
      PROVE  enabled = EnabledAtEnd
  <2>1. SettlesWithCare(script, ~overtakes)
    BY <1>1 DEF SInv, SessionTypeOK, SettlingSetups
  <2>2. CASE NeverCalls(script, "enable")
    BY <1>1, <2>2 DEF NeverCalls, IsCall, Enables
  <2>3. ASSUME NEW i \in DOMAIN script, NEW v \in Values,
               EndsAt(script, i, v), NoLateEnable(script, i, ~overtakes)
        PROVE  enabled = EnabledAtEnd
    <3>1. SettlesAt(i, v)
      BY <1>1, <2>3 DEF EndInv
    <3>2. pc > i + 1
      <4> DEFINE setup ==
             [steps |-> script, overtakes |-> overtakes, faulty |-> faulty]
      <4>1. setup \in Setups /\ setup.steps = script
        BY <1>1 DEF SInv, SessionTypeOK
      <4>2. Len(script) \in Nat /\ DOMAIN script = 1 .. Len(script)
        BY <4>1, SessionAssumption DEF SessionAssumption
      <4>3. i \in Nat /\ pc \in Nat /\ i + 1 \in DOMAIN script
        BY <1>1, <2>3, PcIsNat DEF EndsAt
      <4> HIDE DEF setup
      <4> QED BY <1>1, <4>2, <4>3
    <3>3. PICK no \in DOMAIN sent : Settling(no, v)
      BY <3>1, <3>2 DEF SettlesAt
    <3>4. \A m \in Modules : m \in enabled <=> v = On
      BY <1>1, <3>3 DEF Settling
    <3>5. enabled = IF v = On THEN Modules ELSE {}
      BY <1>1, <3>4 DEF SInv, SessionTypeOK
    <3>6. /\ i \in Enables /\ script[i].vector[1] = v
          /\ \A j \in Enables : j <= i
      <4>1. 1 \in Modules
        BY CommandAssumption DEF Modules
      <4> QED BY <2>3, <4>1 DEF EndsAt, IsCall, Enables, All
    <3>7. \A j \in Enables : (\A l \in Enables : l <= j) => j = i
      <4>1. Enables \subseteq Nat
        BY <1>1, PcIsNat DEF Enables
      <4> QED BY <3>6, <4>1
    <3> QED BY <3>5, <3>6, <3>7 DEF EnabledAtEnd
  <2> QED BY <2>1, <2>2, <2>3 DEF SettlesWithCare
<1>2. SInv /\ RInv /\ EndInv => SettledAsTold
  BY <1>1 DEF SettledAsTold
<1> QED BY <1>2, SessionInvariance, SessionRInv, SessionEndInv, PTL

-----------------------------------------------------------------------------
(* The examples settle.                                                    *)

\* A program whose last enable comes after h, and that goes on with t.
LEMMA EndsWith ==
  ASSUME NEW h \in Seq(Steps), NEW t \in Seq(Others("enable")), NEW v \in Values
  PROVE  LET w == h \o Send("enable", All(v)) \o t
         IN  /\ w \in Seq(Steps) /\ Len(h) + 1 \in DOMAIN w
             /\ EndsAt(w, Len(h) + 1, v)
             /\ \A j \in 1 .. Len(h) : j \in DOMAIN w /\ w[j] = h[j]
<1> DEFINE n == Len(h)
           e == Send("enable", All(v))
           u == h \o e
           w == u \o t
<1>1. /\ e \in Seq(Steps) /\ Len(e) = 2
      /\ IsCall(e[1], "enable") /\ e[1].vector = All(v) /\ e[2].op = "send"
  <2>1. "enable" \in Setters /\ All(v) \in Seq(Values)
    BY OtherSteps DEF Setters
  <2>2. e \in Seq(Steps) /\ Len(e) = 2
    BY <2>1, OtherSteps
  <2> QED BY <2>2 DEF Send, IsCall
<1>2. t \in Seq(Steps) /\ Len(t) \in Nat /\ n \in Nat
  BY DEF Others
<1> HIDE DEF e
<1>3. /\ u \in Seq(Steps) /\ Len(u) = n + 2
      /\ \A j \in 1 .. n : u[j] = h[j]
      /\ u[n + 1] = e[1] /\ u[n + 2] = e[2]
  <2>1. /\ u \in Seq(Steps) /\ Len(u) = Len(h) + Len(e)
        /\ \A j \in 1 .. Len(h) : u[j] = h[j]
        /\ \A j \in 1 .. Len(e) : u[Len(h) + j] = e[j]
    <3>1. h \in Seq(Steps) /\ e \in Seq(Steps)
      BY <1>1
    <3> QED BY ONLY <3>1, JoinedSteps
  <2> QED BY <1>1, <2>1
<1> HIDE DEF u
<1>4. /\ w \in Seq(Steps) /\ Len(w) = n + 2 + Len(t)
      /\ \A j \in 1 .. n + 2 : w[j] = u[j]
      /\ \A j \in 1 .. Len(t) : w[n + 2 + j] = t[j]
  <2>1. /\ w \in Seq(Steps) /\ Len(w) = Len(u) + Len(t)
        /\ \A j \in 1 .. Len(u) : w[j] = u[j]
        /\ \A j \in 1 .. Len(t) : w[Len(u) + j] = t[j]
    <3>1. u \in Seq(Steps) /\ t \in Seq(Steps)
      BY <1>2, <1>3
    <3> QED BY ONLY <3>1, JoinedSteps
  <2> QED BY <1>3, <2>1
<1> HIDE DEF w
<1>5. DOMAIN w = 1 .. n + 2 + Len(t)
  BY <1>2, <1>4
<1>6. \A j \in 1 .. n : j \in DOMAIN w /\ w[j] = h[j]
  BY <1>2, <1>3, <1>4, <1>5
<1>7. /\ n + 1 \in DOMAIN w /\ w[n + 1] = e[1]
      /\ n + 2 \in DOMAIN w /\ w[n + 2] = e[2]
  BY <1>2, <1>3, <1>4, <1>5
<1>8. ASSUME NEW j \in DOMAIN w, IsCall(w[j], "enable")
      PROVE  j <= n + 1
  <2>1. j \in 1 .. n + 2 + Len(t)
    BY <1>5
  <2>2. j # n + 2
    BY <1>1, <1>7, <1>8 DEF IsCall
  <2>3. ~(j > n + 2)
    <3> SUFFICES ASSUME j > n + 2 PROVE FALSE
      OBVIOUS
    <3> DEFINE k == j - (n + 2)
    <3>1. k \in 1 .. Len(t) /\ n + 2 + k = j
      BY <1>2, <2>1
    <3>2. t[k] \in Others("enable") /\ w[n + 2 + k] = t[k]
      BY <1>4, <3>1
    <3> QED BY <1>8, <3>1, <3>2 DEF Others
  <2> QED BY <1>2, <2>1, <2>2, <2>3
<1>9. EndsAt(w, n + 1, v)
  <2>1. n + 1 + 1 = n + 2
    BY <1>2
  <2> QED BY <1>1, <1>7, <1>8, <2>1 DEF EndsAt
<1> QED BY <1>4, <1>6, <1>7, <1>9 DEF w, u, e

\* A network that keeps the order needs no pause.
LEMMA OrderedEnd ==
  ASSUME NEW h \in Seq(Steps), NEW v \in Values
  PROVE  SettlesWithCare(h \o Send("enable", All(v)), TRUE)
<1> DEFINE w == h \o Send("enable", All(v))
<1>1. <<>> \in Seq(Others("enable"))
  OBVIOUS
<1>2. w \in Seq(Steps)
  <2>1. "enable" \in Setters /\ All(v) \in Seq(Values)
    BY OtherSteps DEF Setters
  <2>2. Send("enable", All(v)) \in Seq(Steps)
    BY <2>1, OtherSteps
  <2> QED BY <2>2, ConcatProperties
<1> HIDE DEF w
<1>3. w \o <<>> = w
  BY <1>2, ConcatEmptySeq
<1>4. EndsAt(w, Len(h) + 1, v) /\ Len(h) + 1 \in DOMAIN w
  <2>1. /\ EndsAt(w \o <<>>, Len(h) + 1, v)
        /\ Len(h) + 1 \in DOMAIN (w \o <<>>)
    BY <1>1, EndsWith DEF w
  <2> QED BY <1>3, <2>1
<1> QED BY <1>4 DEF SettlesWithCare, NoLateEnable, w

\* Drives that are never turned off need none either.
LEMMA OnlyEnable ==
  ASSUME NEW t \in Seq(Others("enable")), NEW v \in Values, NEW b \in BOOLEAN
  PROVE  SettlesWithCare(Send("enable", All(v)) \o t, b)
<1> DEFINE e == Send("enable", All(v))
           w == e \o t
<1>1. e \in Seq(Steps)
  <2>1. "enable" \in Setters /\ All(v) \in Seq(Values)
    BY OtherSteps DEF Setters
  <2> QED BY <2>1, OtherSteps
<1>2. <<>> \o e = e
  BY <1>1, ConcatEmptySeq
<1>3. <<>> \in Seq(Steps) /\ Len(<<>>) = 0
  OBVIOUS
<1>4. /\ <<>> \o e \o t \in Seq(Steps)
      /\ EndsAt(<<>> \o e \o t, Len(<<>>) + 1, v)
      /\ Len(<<>>) + 1 \in DOMAIN (<<>> \o e \o t)
  BY <1>3, EndsWith
<1>5. w \in Seq(Steps) /\ EndsAt(w, 1, v) /\ 1 \in DOMAIN w
  BY <1>2, <1>3, <1>4
<1> HIDE DEF w
<1>6. FirstEnable(w, 1)
  BY <1>5 DEF FirstEnable
<1> QED BY <1>5, <1>6 DEF SettlesWithCare, NoLateEnable, w, e

\* A pause before the last enable, with other commands between them or none.
LEMMA PausedEnd ==
  ASSUME NEW g \in Seq(Steps), NEW u \in Seq(Others("enable")),
         NEW t \in Seq(Others("enable")), NEW v \in Values, NEW b \in BOOLEAN,
         Len(u) > 0 => u[1].op = "call" /\ Len(u[1].vector) = N
  PROVE  SettlesWithCare(g \o Pause \o u \o Send("enable", All(v)) \o t, b)
<1> DEFINE gp == g \o Pause
           h == gp \o u
           w == h \o Send("enable", All(v)) \o t
           k == Len(g) + 1
           i == Len(h) + 1
<1>1. /\ Pause \in Seq(Steps) /\ Len(Pause) = 1 /\ Pause[1].op = "sleep"
      /\ u \in Seq(Steps) /\ Len(u) \in Nat /\ Len(g) \in Nat
  BY OtherSteps DEF Pause, Steps, Others
<1>2. /\ gp \in Seq(Steps) /\ Len(gp) = k /\ gp[k].op = "sleep"
  <2>1. /\ gp \in Seq(Steps) /\ Len(gp) = Len(g) + Len(Pause)
        /\ \A j \in 1 .. Len(Pause) : gp[Len(g) + j] = Pause[j]
    <3>1. g \in Seq(Steps) /\ Pause \in Seq(Steps)
      BY <1>1
    <3> QED BY ONLY <3>1, JoinedSteps
  <2> QED BY <1>1, <2>1
<1> HIDE DEF gp
<1>3. /\ h \in Seq(Steps) /\ Len(h) = k + Len(u) /\ h[k].op = "sleep"
      /\ \A j \in 1 .. Len(u) : h[k + j] = u[j]
  <2>1. /\ h \in Seq(Steps) /\ Len(h) = Len(gp) + Len(u)
        /\ \A j \in 1 .. Len(gp) : h[j] = gp[j]
        /\ \A j \in 1 .. Len(u) : h[Len(gp) + j] = u[j]
    <3>1. gp \in Seq(Steps) /\ u \in Seq(Steps)
      BY <1>1, <1>2
    <3> QED BY ONLY <3>1, JoinedSteps
  <2>2. k \in 1 .. k
    BY <1>1
  <2> QED BY <1>2, <2>1, <2>2
<1> HIDE DEF h
<1>4. /\ w \in Seq(Steps) /\ i \in DOMAIN w /\ EndsAt(w, i, v)
      /\ \A j \in 1 .. Len(h) : j \in DOMAIN w /\ w[j] = h[j]
  BY <1>3, EndsWith
<1> HIDE DEF w
<1>5. k \in Nat /\ i \in Nat /\ k < i /\ i = k + Len(u) + 1
  BY <1>1, <1>3
<1>6. k \in DOMAIN w /\ w[k].op = "sleep"
  BY <1>1, <1>3, <1>4
<1>7. \A j \in 1 .. Len(u) : k + j \in DOMAIN w /\ w[k + j] = u[j]
  BY <1>1, <1>3, <1>4
<1>8. /\ k + 1 \in DOMAIN w /\ w[k + 1].op = "call"
      /\ Len(w[k + 1].vector) = N
  <2>1. CASE Len(u) = 0
    <3>1. k + 1 = i
      BY <1>5, <2>1
    <3> QED BY <1>4, <3>1, AllFits DEF EndsAt, IsCall
  <2>2. CASE Len(u) > 0
    BY <1>1, <1>7, <2>2
  <2> QED BY <1>1, <2>1, <2>2
<1>9. ASSUME NEW j \in DOMAIN w, IsCall(w[j], "enable")
      PROVE  j <= k \/ j >= i
  <2> SUFFICES ASSUME ~(j <= k), ~(j >= i) PROVE FALSE
    OBVIOUS
  <2> DEFINE d == j - k
  <2>1. d \in 1 .. Len(u) /\ k + d = j
    <3>1. j \in Nat
      BY <1>4
    <3> QED BY <1>1, <1>5, <3>1
  <2>2. w[k + d] = u[d] /\ u[d] \in Others("enable")
    BY <1>7, <2>1
  <2> QED BY <1>9, <2>1, <2>2 DEF Others
<1>10. PausesAt(w, k, i)
  BY <1>5, <1>6, <1>8, <1>9 DEF PausesAt
<1> QED BY <1>4, <1>6, <1>10 DEF SettlesWithCare, NoLateEnable, w, h, gp

\* The parts of the examples.
LEMMA Parts ==
  LET S == Seq(Steps)
      T == Seq(Others("enable"))
  IN  /\ {On, Off} \subseteq Values
      /\ \A x \in Setters : \A v \in {On, Off} :
           /\ Send(x, All(v)) \in S /\ Repeat(Send(x, All(v))) \in S
           /\ x # "enable" => /\ Send(x, All(v)) \in T
                              /\ Repeat(Send(x, All(v))) \in T
      /\ \A x \in Setters \ {"enable"} :
           \A v \in {<<On>>, <<Off>>, <<On, On>>} :
             /\ Send(x, v) \in S /\ Repeat(Send(x, v)) \in S
             /\ Send(x, v) \in T
      /\ Pause \in S /\ Pause \in T
      /\ \A s, t \in S : s \o t \in S
      /\ \A s, t \in T : s \o t \in T
<1>1. /\ {On, Off} \subseteq Values
      /\ \A v \in {On, Off} : All(v) \in Seq(Values)
      /\ \A v \in {<<On>>, <<Off>>, <<On, On>>} : v \in Seq(Values)
  BY OtherSteps, SessionAssumption DEF SessionAssumption
<1>2. ASSUME NEW x \in Setters, NEW v \in Seq(Values)
      PROVE  /\ Send(x, v) \in Seq(Steps) /\ Repeat(Send(x, v)) \in Seq(Steps)
             /\ x # "enable" => /\ Send(x, v) \in Seq(Others("enable"))
                                /\ Repeat(Send(x, v)) \in Seq(Others("enable"))
  <2>1. "enable" \in Setters
    BY DEF Setters
  <2>2. /\ Send(x, v) \in Seq(Steps) /\ Len(Send(x, v)) = 2
        /\ x # "enable" => Send(x, v) \in Seq(Others("enable"))
    BY <2>1, OtherSteps
  <2> QED BY <2>2, LoopSteps
<1>3. Pause \in Seq(Steps) /\ Pause \in Seq(Others("enable"))
  BY OtherSteps DEF Pause, Steps
<1>4. /\ \A s, t \in Seq(Steps) : s \o t \in Seq(Steps)
      /\ \A s, t \in Seq(Others("enable")) : s \o t \in Seq(Others("enable"))
  BY ConcatProperties
<1> QED BY <1>1, <1>2, <1>3, <1>4

LEMMA ExamplesSettle ==
  /\ \A s \in PausingPrograms, b \in BOOLEAN : SettlesWithCare(s, b)
  /\ SettlesWithCare(AsyncProgram, TRUE)
  /\ SettlesWithCare(CommandProgram, TRUE)
<1> DEFINE S == Seq(Steps)
           T == Seq(Others("enable"))
           on == Send("enable", All(On))
           off == Send("enable", All(Off))
           p == Pause
           pt == Send("setInputPositionPt", <<On, On>>)
           pos == Send("setInputPositionPt", All(On))
           reset == Send("resetLinearCount", All(Off))
           vel == Send("setVelocity", All(On))
           stop == Send("setVelocity", All(Off))
           go == Send("setInputVelocityPt", All(On))
           halt == Send("setInputVelocityPt", All(Off))
           go1 == Send("setInputVelocityPt", <<On>>)
           halt1 == Send("setInputVelocityPt", <<Off>>)
           lat == Send("setLatencyTest", All(On))
<1>0. /\ {"setInputPositionPt", "resetLinearCount", "setVelocity",
         "setInputVelocityPt", "setLatencyTest"} \subseteq Setters \ {"enable"}
      /\ "enable" \in Setters
  BY DEF Setters
<1>1. /\ {on, off, p, pt, pos, reset, vel, stop} \subseteq S
      /\ {go, halt, go1, halt1} \subseteq S
      /\ {Repeat(pt), Repeat(pos), Repeat(vel), Repeat(go)} \subseteq S
  BY <1>0, Parts
<1>2. {p, pt, pos, reset, stop, Repeat(lat)} \subseteq T
  BY <1>0, Parts
<1>3. /\ \A s, t \in S : s \o t \in S
      /\ \A s, t \in T : s \o t \in T
      /\ On \in Values /\ Off \in Values
  BY Parts
<1>4. /\ stop[1].op = "call" /\ Len(stop[1].vector) = N
  BY AllFits DEF Send
<1>5. <<>> \in T /\ ~(Len(<<>>) > 0)
  OBVIOUS
<1>6. Send("resetLinearCount", <<Off>>) \in T
  BY <1>0, Parts
<1>Assoc. \A x, y, z \in S : x \o (y \o z) = (x \o y) \o z
  BY ONLY ConcatAssociative, SMTT(30)
<1>Paused. \A g \in S : \A u, t \in T : \A b \in BOOLEAN :
        (Len(u) > 0 => u[1].op = "call" /\ Len(u[1].vector) = N)
          => SettlesWithCare(g \o p \o u \o off \o t, b)
  <2> SUFFICES ASSUME NEW g \in S, NEW u \in T, NEW t \in T, NEW b \in BOOLEAN,
                      Len(u) > 0 => u[1].op = "call" /\ Len(u[1].vector) = N
               PROVE  SettlesWithCare(g \o p \o u \o off \o t, b)
    OBVIOUS
  <2> QED BY <1>3, PausedEnd
<1> HIDE DEF S, T, on, off, p, pt, pos, reset, vel, stop, go, halt, go1, halt1,
             lat
<1>7. \A s \in {FeedbackProgram, LatencyProgram}, b \in BOOLEAN :
        SettlesWithCare(s, b)
  <2>1. FeedbackProgram \in T /\ LatencyProgram \in T
    BY <1>2, <1>6 DEF FeedbackProgram, LatencyProgram, lat
  <2> QED BY <2>1, OthersNeverCall DEF T, SettlesWithCare
<1>8. ASSUME NEW b \in BOOLEAN PROVE SettlesWithCare(SetPositionProgram, b)
  BY <1>2, <1>3, OnlyEnable DEF SetPositionProgram, pt, T
<1>9. ASSUME NEW b \in BOOLEAN PROVE SettlesWithCare(PassThroughProgram, b)
  <2>1. SettlesWithCare(on \o (p \o pos), b)
    BY <1>2, <1>3, OnlyEnable DEF T, on
  <2>2. on \o (p \o pos) = on \o p \o pos
    <3>1. on \in S /\ p \in S /\ pos \in S
      BY <1>1
    <3> QED BY ONLY <1>Assoc, <3>1
  <2> QED BY <2>1, <2>2 DEF PassThroughProgram, on, p, pos
<1>10. ASSUME NEW g \in S, NEW t \in T, NEW b \in BOOLEAN
       PROVE  /\ SettlesWithCare(g \o p \o off \o t, b)
              /\ SettlesWithCare(g \o p \o stop \o off \o t, b)
  <2>1. g \o p \in S
    BY <1>1, <1>3
  <2>2. g \o p \o <<>> = g \o p
    BY <2>1, ConcatEmptySeq DEF S
  <2>3. SettlesWithCare(g \o p \o <<>> \o off \o t, b)
    BY <1>5, <1>10, <1>Paused
  <2>4. SettlesWithCare(g \o p \o stop \o off \o t, b)
    BY <1>2, <1>4, <1>10, <1>Paused
  <2> QED BY <2>2, <2>3, <2>4
<1>11. ASSUME NEW b \in BOOLEAN
       PROVE  SettlesWithCare(ResetLinearCountProgram, b)
  <2> DEFINE g == on \o p \o Repeat(pt)
             z == g \o p \o off
  <2>1. g \in S /\ z \in S
    BY <1>1, <1>3
  <2>2. SettlesWithCare(z \o (p \o reset \o p), b)
    BY <1>2, <1>3, <1>10, <2>1
  <2> HIDE DEF z, g
  <2>3. z \o (p \o reset \o p) = z \o p \o reset \o p
    <3> DEFINE y == p \o reset
    <3>1. p \in S /\ reset \in S
      BY <1>1
    <3>2. y \in S
      BY <1>3, <3>1
    <3>3. z \o (p \o reset) = (z \o p) \o reset
      BY ONLY <1>Assoc, <2>1, <3>1
    <3> HIDE DEF y
    <3>4. z \o (y \o p) = (z \o y) \o p
      BY ONLY <1>Assoc, <2>1, <3>1, <3>2, SMTT(30)
    <3> QED BY <3>3, <3>4 DEF y
  <2> QED
    BY <2>2, <2>3 DEF ResetLinearCountProgram, z, g, on, p, pt, off, reset
<1>12. ASSUME NEW b \in BOOLEAN PROVE SettlesWithCare(SetVelocityProgram, b)
  <2> DEFINE g == on \o p \o Repeat(vel)
  <2>1. g \in S
    BY <1>1, <1>3
  <2>2. SettlesWithCare(g \o p \o stop \o off \o p, b)
    BY <1>2, <1>10, <2>1
  <2> QED BY <2>2 DEF SetVelocityProgram, on, p, vel, stop, off
<1>13. ASSUME NEW b \in BOOLEAN
       PROVE  SettlesWithCare(SetInputVelocityProgram, b)
  <2> DEFINE a == on \o p \o go \o p \o halt
             g == a \o p \o Repeat(go) \o p \o halt
  <2>1. a \in S
    BY <1>1, <1>3
  <2> HIDE DEF a
  <2>2. g \in S
    BY <1>1, <1>3, <2>1
  <2>3. SettlesWithCare(g \o p \o off \o p, b)
    BY <1>2, <1>10, <2>2
  <2> QED BY <2>3 DEF SetInputVelocityProgram, a, on, p, go, halt, off
<1>14. SettlesWithCare(AsyncProgram, TRUE)
  <2>1. reset \o on \o Repeat(pos) \in S
    BY <1>1, <1>3
  <2>2. SettlesWithCare((reset \o on \o Repeat(pos)) \o off, TRUE)
    BY <1>3, <2>1, OrderedEnd DEF S, off
  <2> QED BY <2>2 DEF AsyncProgram, reset, on, pos, off
<1>15. SettlesWithCare(CommandProgram, TRUE)
  <2>1. on \o go1 \o p \o halt1 \in S
    BY <1>1, <1>3
  <2>2. SettlesWithCare((on \o go1 \o p \o halt1) \o off, TRUE)
    BY <1>3, <2>1, OrderedEnd DEF S, off
  <2> QED BY <2>2 DEF CommandProgram, on, go1, p, halt1, off
<1> QED BY <1>7, <1>8, <1>9, <1>11, <1>12, <1>13, <1>14, <1>15
        DEF PausingPrograms

\* The examples that pause, on any network, and all of them on one that keeps
\* the order.
PausingSetups ==
  \A s \in Setups :
    /\ s.steps \in Examples /\ s.overtakes \in BOOLEAN
    /\ s.overtakes => s.steps \in PausingPrograms

\* The examples, in a group of any size and with loops of any length: where
\* nothing is lost or refused, the drives end as the last call of enable asked,
\* however often a setter was without effect and the enable was sent again.
THEOREM ExamplesSettleDrives ==
  ASSUME PausingSetups
  PROVE  SessionSpec => []SettledAsTold
<1>1. SettlingSetups
  BY ExamplesSettle DEF SettlingSetups, PausingSetups, Examples
<1> QED BY <1>1, CareSettlesDrives
=============================================================================
