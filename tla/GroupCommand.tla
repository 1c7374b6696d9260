----------------------------- MODULE GroupCommand -----------------------------
(***************************************************************************)
(* Fourier::GroupCommand (groupCommand.hpp, groupCommand.cpp): one command *)
(* struct per module, filled by the setters and read by sendCommand.       *)
(*                                                                         *)
(* A struct holds the type of the command and a field for each kind of     *)
(* value; four kinds are pointers to structs of the caller.  A setter      *)
(* changes the type and one field, and leaves the other fields as earlier  *)
(* setters left them.  Whoever sends the struct reads a field that its type*)
(* may select, and follows it if it is a pointer.  operator[] hands out the*)
(* struct of a module, type and all.  One thread uses a GroupCommand at a  *)
(* time: it has no lock.                                                   *)
(***************************************************************************)
EXTENDS Naturals, Sequences

CONSTANTS
  N,        \* the number of modules in the group
  Values,   \* the numbers and flags a float, bool or PosPtInfo can hold
  Configs,  \* the structs of the caller that the pointers point to
  None,     \* an empty field
  Gone,     \* the contents of a struct of the caller that was freed
  Calls,    \* the setters in use
  PokedModules, PokedKinds, PokedTypes  \* bounds: what operator[] may change

\* What each setter does: the type it sets and the field it writes.
Writes ==
  [ setPosition |-> <<"Position", "float">>,
    setTrapezoidalMove |-> <<"Trapezoidal", "float">>,
    setVelocity |-> <<"Velocity", "float">>,
    setVelocityRamp |-> <<"VelocityRamp", "float">>,
    setCurrent |-> <<"Current", "float">>,
    enable |-> <<"Enable", "float">>,
    reboot |-> <<"Reboot", "bool">>,
    getError |-> <<"GetError", "bool">>,
    clearError |-> <<"ClearError", "bool">>,
    resetLinearCount |-> <<"ResetLinearCount", "float">>,
    setMotionCtrlConfig |-> <<"MotionControllerConfig", "motionCtrl">>,
    setMotorConfig |-> <<"MotorConfig", "motor">>,
    setTrapTraj |-> <<"TrapTraj", "trapTraj">>,
    saveConfig |-> <<"SaveConfig", "bool">>,
    setNetworkSetting |-> <<"NetworkSetting", "network">>,
    ctrlBoxEnable |-> <<"CtrlBoxPower", "float">>,
    setLatencyTest |-> <<"LatencyTest", "bool">>,
    setInputPositionPt |-> <<"PositionPt", "posPt">>,
    setInputVelocityPt |-> <<"VelocityPt", "float">>,
    setInputTorquePt |-> <<"TorquePt", "float">> ]

ASSUME CommandAssumption ==
  /\ N \in Nat \ {0}
  /\ Calls \subseteq DOMAIN Writes
  /\ Values \cap Configs = {}
  /\ None \notin Values \cup Configs /\ Gone \notin Values \cup {None}
  /\ PokedModules \subseteq 1 .. N
  /\ PokedTypes \subseteq {Writes[s][1] : s \in DOMAIN Writes}
  /\ PokedKinds \subseteq {Writes[s][2] : s \in DOMAIN Writes}

Modules == 1 .. N
Kinds == {"float", "bool", "posPt", "motionCtrl", "motor", "trapTraj", "network"}
Pointers == {"motionCtrl", "motor", "trapTraj", "network"}

\* An error of copying one setter to make the next, which Spec does not use:
\* getError sets the type of clearError.
TypeOfCopied(s) == IF s = "getError" THEN "ClearError" ELSE Writes[s][1]

TypeOf(s) == Writes[s][1]
FieldOf(s) == Writes[s][2]
Types == {TypeOf(s) : s \in DOMAIN Writes}

\* The fields that may belong to a type, by aios.h alone (65-95, 214-226): its
\* group in FourierCommandEnum, "float" or "bool", or the member of Command with
\* the name of the type.  From ResetLinearCount on the enumeration names no
\* group; of no type, every field may be read.
MayRead(t) ==
  CASE t \in {"Current", "Velocity", "Position", "VelocityRamp", "Trapezoidal",
             "TorquePt", "VelocityPt", "Enable"} -> {"float"}
    [] t \in {"Reboot", "GetError", "ClearError"} -> {"bool"}
    [] t = "PositionPt" -> {"posPt"}
    [] t = "MotionControllerConfig" -> {"motionCtrl"}
    [] t = "MotorConfig" -> {"motor"}
    [] t = "TrapTraj" -> {"trapTraj"}
    [] t = "NetworkSetting" -> {"network"}
    [] t \in {"ResetLinearCount", "SaveConfig", "LatencyTest", "CtrlBoxPower"} ->
         {"float", "bool"}
    [] OTHER -> Kinds

VARIABLES
  type,      \* type[m]: commandEnum in the struct of module m, or "UNKNOW"
  field,     \* field[m][k]: the value of kind k in the struct of module m
  contents,  \* the structs of the caller: a value, or Gone
  asked,     \* history: the last call that was accepted, and its arguments
  poked      \* history: the modules whose struct was changed by hand since then

cmd == <<type, field>>
vars == <<cmd, contents, asked, poked>>

Nothing == [call |-> "none", args |-> [m \in Modules |-> None]]
Empty == [m \in Modules |-> [k \in Kinds |-> None]]

\* GroupCommand::GroupCommand.  The caller's structs have some contents.
Init ==
  /\ type = [m \in Modules |-> "UNKNOW"]
  /\ field = Empty
  /\ contents \in [Configs -> Values]
  /\ asked = Nothing
  /\ poked = {}

-----------------------------------------------------------------------------
\* What a caller may pass: pointers to structs that exist, or values.
Live == {c \in Configs : contents[c] # Gone}
Fits(k) == IF k \in Pointers THEN Live ELSE Values
ArgsOf(s) == Fits(FieldOf(s))

\* Every setter begins with this test, and returns if it fails.
Accepted(v) == Len(v) = N

\* Plausible errors in groupCommand.cpp, which no behaviour of Spec uses: the
\* copied loop still writes the float, and setVelocity forgets to set the type.
WrittenCopied(k, v) ==
  [m \in Modules |-> [field[m] EXCEPT !["float"] = v[m]]]

SetForgettingType(s, v) ==
  /\ Accepted(v)
  /\ type' = IF s = "setVelocity" THEN type ELSE [m \in Modules |-> TypeOf(s)]
  /\ field' = [m \in Modules |-> [field[m] EXCEPT ![FieldOf(s)] = v[m]]]
  /\ asked' = [call |-> s, args |-> [m \in Modules |-> v[m]]]
  /\ poked' = {}
  /\ UNCHANGED contents

\* The loop of a setter: the field of this setter, in every module's struct.
Written(k, v) ==
  [m \in Modules |-> [field[m] EXCEPT ![k] = v[m]]]

\* Any of the 20 setters, with a vector of the right length.
Set(s, v) ==
  /\ Accepted(v)
  /\ type' = [m \in Modules |-> TypeOf(s)]
  /\ field' = Written(FieldOf(s), v)
  /\ asked' = [call |-> s, args |-> [m \in Modules |-> v[m]]]
  /\ poked' = {}
  /\ UNCHANGED contents

\* "If the vector is not the correct [length], no action is taken", and the
\* caller is not told: the struct still holds the command before.
Ignore(s, v) == ~Accepted(v) /\ UNCHANGED vars

\* clear(), as groupCommand.hpp describes it.
Clear ==
  /\ type' = [m \in Modules |-> "UNKNOW"]
  /\ field' = Empty
  /\ asked' = Nothing
  /\ poked' = {}
  /\ UNCHANGED contents

\* operator[] (groupCommand.cpp:18-24): the caller writes any field of the
\* struct of module m, or its type.
PokeField(m, k, v) ==
  /\ v \in Fits(k)
  /\ field' = [field EXCEPT ![m][k] = v]
  /\ poked' = poked \cup {m}
  /\ UNCHANGED <<type, contents, asked>>

PokeType(m, t) ==
  /\ type' = [type EXCEPT ![m] = t]
  /\ poked' = poked \cup {m}
  /\ UNCHANGED <<field, contents, asked>>

\* The caller changes (or allocates) a struct it has passed or will pass.
WriteConfig(c, v) ==
  /\ contents' = [contents EXCEPT ![c] = v]
  /\ UNCHANGED <<cmd, asked, poked>>

\* The caller frees a struct that is not an argument of the last accepted call.
FreeConfig(c) ==
  /\ \A m \in Modules : asked.args[m] # c
  /\ contents' = [contents EXCEPT ![c] = Gone]
  /\ UNCHANGED <<cmd, asked, poked>>

\* The vectors worth passing (bound): any of the right length, and of lengths
\* that are one off some.
Vectors(s) ==
  [1 .. N -> ArgsOf(s)]
    \cup {[i \in 1 .. n |-> x] : n \in {N - 1, N + 1}, x \in ArgsOf(s)}

Next ==
  \/ \E s \in Calls : \E v \in Vectors(s) : Set(s, v) \/ Ignore(s, v)
  \/ Clear
  \/ \E m \in PokedModules :
       \/ \E k \in PokedKinds : \E v \in Fits(k) : PokeField(m, k, v)
       \/ \E t \in PokedTypes : PokeType(m, t)
  \/ \E c \in Configs, v \in Values : WriteConfig(c, v)
  \/ \E c \in Configs : FreeConfig(c)

Spec == Init /\ [][Next]_vars

-----------------------------------------------------------------------------
(* Properties                                                              *)

\* What is sent for module m if field k is read, and what may be sent.
Followed(m, k) ==
  IF k \in Pointers /\ field[m][k] # None
    THEN contents[field[m][k]] ELSE field[m][k]
MayCarry(m) == {Followed(m, k) : k \in MayRead(type[m])}

\* The variables have their types: a value lies in a field of values, and a
\* pointer in the field of its kind of struct (aios.h:214-226).
TypeOK ==
  /\ type \in [Modules -> Types \cup {"UNKNOW"}]
  /\ field \in [Modules -> [Kinds -> Values \cup Configs \cup {None}]]
  /\ \A m \in Modules, k \in Kinds :
       field[m][k] \in (IF k \in Pointers THEN Configs ELSE Values) \cup {None}
  /\ contents \in [Configs -> Values \cup {Gone}]
  /\ asked \in [call : Calls \cup {"none"},
                args : [Modules -> Values \cup Configs \cup {None}]]
  /\ poked \subseteq Modules

\* Whatever was called or changed by hand before, the struct of each module says
\* what the last accepted call asked, unless it was changed by hand since: its
\* type is the type of that setter and of no other, and where aios.h names the
\* field that belongs to the type, it is this field that holds the argument.
\* (Where the header names none, nothing is said of the field.)
SaysWhatWasAsked ==
  \A m \in Modules \ poked :
    /\ \A s \in DOMAIN Writes : type[m] = TypeOf(s) <=> asked.call = s
    /\ \A k \in Kinds : MayRead(type[m]) = {k} => field[m][k] = asked.args[m]

\* A caller may free the structs of earlier calls: the pointers that setters
\* and writes by hand leave behind in other fields are never followed
\* (groupCommand.cpp:105-145).
NoDanglingSend == \A m \in Modules \ poked : Gone \notin MayCarry(m)
=============================================================================
