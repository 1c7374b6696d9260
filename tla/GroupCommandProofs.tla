-------------------------- MODULE GroupCommandProofs --------------------------
(***************************************************************************)
(* Proofs about GroupCommand, for every number of modules, every set of    *)
(* values, of structs of the caller and of setters in use.                 *)
(***************************************************************************)
EXTENDS GroupCommand, TLAPS

-----------------------------------------------------------------------------
(* The tables                                                              *)

LEMMA SetterNames ==
  DOMAIN Writes =
    { "setPosition", "setTrapezoidalMove", "setVelocity", "setVelocityRamp",
      "setCurrent", "enable", "reboot", "getError", "clearError",
      "resetLinearCount", "setMotionCtrlConfig", "setMotorConfig",
      "setTrapTraj", "saveConfig", "setNetworkSetting", "ctrlBoxEnable",
      "setLatencyTest", "setInputPositionPt", "setInputVelocityPt",
      "setInputTorquePt" }
BY DEF Writes

\* For the type that a setter sets, the field it writes may be read, and where
\* the header names one field it is this one.
LEMMA FieldBelongsToType ==
  \A s \in DOMAIN Writes :
    /\ FieldOf(s) \in MayRead(TypeOf(s)) /\ FieldOf(s) \in Kinds
    /\ \A k \in Kinds : MayRead(TypeOf(s)) = {k} => FieldOf(s) = k
    /\ TypeOf(s) # "UNKNOW"
<1>1. \A s \in DOMAIN Writes :
        /\ FieldOf(s) \in MayRead(TypeOf(s)) /\ FieldOf(s) \in Kinds
        /\ TypeOf(s) # "UNKNOW"
  BY SetterNames DEF Writes, TypeOf, FieldOf, MayRead, Kinds
<1>2. \A s \in DOMAIN Writes, k \in Kinds :
        MayRead(TypeOf(s)) = {k} => FieldOf(s) = k
  BY <1>1
<1> QED BY <1>1, <1>2

\* Types for which the header names no field are those of no pointer.
LEMMA SilentTypes ==
  \A s \in DOMAIN Writes :
    \/ \E k \in Kinds : MayRead(TypeOf(s)) = {k}
    \/ MayRead(TypeOf(s)) = {"float", "bool"}
<1>1. \A s \in DOMAIN Writes :
        \/ MayRead(TypeOf(s)) = {FieldOf(s)}
        \/ MayRead(TypeOf(s)) = {"float", "bool"}
  BY SetterNames DEF Writes, TypeOf, FieldOf, MayRead
<1> QED BY <1>1, FieldBelongsToType

\* No two setters set the same type.
LEMMA TypeNamesSetter ==
  \A s, t \in DOMAIN Writes : TypeOf(s) = TypeOf(t) => s = t
BY SetterNames DEF Writes, TypeOf

\* A new or cleared object has no command, and any field may be read.
LEMMA NothingIsNamed ==
  /\ "none" \notin DOMAIN Writes /\ MayRead("UNKNOW") = Kinds
  /\ \A s \in DOMAIN Writes : TypeOf(s) # "UNKNOW"
  /\ \A k : Kinds # {k}
<1>1. \A k : Kinds # {k}
  BY DEF Kinds
<1> QED BY <1>1, SetterNames, FieldBelongsToType DEF MayRead

-----------------------------------------------------------------------------
(* The inductive invariant                                                 *)

\* The structs that the last accepted call points to have not been freed.
ArgsLive ==
  \A m \in Modules : asked.args[m] \in Configs => contents[asked.args[m]] # Gone

\* Before the first call, and after clear, the fields hold nothing.
NothingSaid ==
  asked.call = "none" =>
    \A m \in Modules \ poked, k \in Kinds : field[m][k] = None

IInv == TypeOK /\ SaysWhatWasAsked /\ ArgsLive /\ NothingSaid

LEMMA NothingInv ==
  ASSUME asked = Nothing, poked = {}, field = Empty,
         type = [m \in Modules |-> "UNKNOW"],
         contents \in [Configs -> Values \cup {Gone}]
  PROVE  IInv
<1> USE CommandAssumption DEF Empty, Nothing
<1>1. TypeOK
  BY DEF TypeOK
<1>2. SaysWhatWasAsked
  BY NothingIsNamed DEF SaysWhatWasAsked
<1>3. ArgsLive /\ NothingSaid
  BY DEF ArgsLive, NothingSaid
<1>4. QED
  BY <1>1, <1>2, <1>3 DEF IInv

LEMMA InitInv == Init => IInv
BY NothingInv DEF Init

\* An accepted call: the type, the field and the arguments change together, in
\* the struct of every module, and what was written there by hand is gone.
LEMMA SetInv ==
  ASSUME IInv, NEW s \in Calls, NEW v \in Vectors(s), Set(s, v)
  PROVE  IInv'
<1> USE CommandAssumption DEF Set, Accepted
<1>1. /\ s \in DOMAIN Writes /\ TypeOf(s) \in Types /\ FieldOf(s) \in Kinds
      /\ \A k \in Kinds : MayRead(TypeOf(s)) = {k} => FieldOf(s) = k
      /\ s # "none"
  BY FieldBelongsToType, NothingIsNamed DEF Types
<1>2. \A m \in Modules : v[m] \in ArgsOf(s)
  <2>1. CASE v \in [1 .. N -> ArgsOf(s)]
    BY <2>1 DEF Modules
  <2>2. ASSUME NEW n \in {N - 1, N + 1}, NEW x \in ArgsOf(s),
               v = [i \in 1 .. n |-> x]
        PROVE  FALSE
    <3>1. n \in Nat /\ Len(v) = n
      BY <2>2
    <3>2. QED
      BY <3>1
  <2>3. QED
    BY <2>1, <2>2 DEF Vectors
<1>3. \A m \in Modules :
        /\ v[m] \in IF FieldOf(s) \in Pointers THEN Configs ELSE Values
        /\ v[m] \in Configs => contents[v[m]] # Gone
  BY <1>2 DEF ArgsOf, Fits, Live
<1>4. \A m \in Modules, k \in Kinds :
        field'[m][k] = IF k = FieldOf(s) THEN v[m] ELSE field[m][k]
  BY <1>1 DEF Written, IInv, TypeOK
<1>5. field' \in [Modules -> [Kinds -> Values \cup Configs \cup {None}]]
  BY <1>1, <1>3 DEF Written, IInv, TypeOK
<1>6. TypeOK'
  BY <1>1, <1>3, <1>4, <1>5 DEF IInv, TypeOK
<1>7. SaysWhatWasAsked'
  <2>1. ASSUME NEW m \in Modules
        PROVE  \A t \in DOMAIN Writes : type'[m] = TypeOf(t) <=> asked'.call = t
    BY <1>1, TypeNamesSetter
  <2>2. ASSUME NEW m \in Modules, NEW k \in Kinds, MayRead(type'[m]) = {k}
        PROVE  field'[m][k] = asked'.args[m]
    <3>1. k = FieldOf(s)
      BY <1>1, <2>2
    <3>2. QED
      BY <1>4, <3>1
  <2>3. QED
    BY <2>1, <2>2 DEF SaysWhatWasAsked
<1>8. ArgsLive'
  BY <1>3 DEF ArgsLive
<1>9. NothingSaid'
  BY <1>1 DEF NothingSaid
<1>10. QED
  BY <1>6, <1>7, <1>8, <1>9 DEF IInv

LEMMA ClearInv ==
  ASSUME IInv, Clear
  PROVE  IInv'
<1>1. /\ asked' = Nothing /\ poked' = {} /\ field' = Empty
      /\ type' = [m \in Modules |-> "UNKNOW"]
      /\ contents' \in [Configs -> Values \cup {Gone}]
  BY DEF Clear, IInv, TypeOK
<1> USE CommandAssumption DEF Empty, Nothing
<1>2. TypeOK'
  BY <1>1 DEF TypeOK
<1>3. SaysWhatWasAsked'
  BY <1>1, NothingIsNamed DEF SaysWhatWasAsked
<1>4. ArgsLive' /\ NothingSaid'
  BY <1>1 DEF ArgsLive, NothingSaid
<1>5. QED
  BY <1>2, <1>3, <1>4 DEF IInv

\* operator[]: what is written by hand is in the struct of one module, of which
\* nothing is said until the next call.
LEMMA PokeInv ==
  ASSUME IInv, NEW m \in PokedModules,
         \/ \E k \in PokedKinds : \E v \in Fits(k) : PokeField(m, k, v)
         \/ \E t \in PokedTypes : PokeType(m, t)
  PROVE  IInv'
<1>1. /\ m \in Modules /\ PokedKinds \subseteq Kinds /\ PokedTypes \subseteq Types
  BY CommandAssumption, FieldBelongsToType DEF Modules, Types, TypeOf, FieldOf
<1>2. /\ poked' = poked \cup {m} /\ contents' = contents /\ asked' = asked
      /\ \A n \in Modules \ {m} : type'[n] = type[n] /\ field'[n] = field[n]
  BY <1>1 DEF PokeField, PokeType, IInv, TypeOK
<1>3. TypeOK'
  <2>1. ASSUME NEW k \in PokedKinds, NEW v \in Fits(k), PokeField(m, k, v)
        PROVE  TypeOK'
    <3>1. k \in Kinds /\ v \in IF k \in Pointers THEN Configs ELSE Values
      BY <1>1, <2>1 DEF Fits, Live
    <3>2. \A n \in Modules, j \in Kinds :
            field'[n][j] = IF n = m /\ j = k THEN v ELSE field[n][j]
      BY <1>1, <2>1, <3>1 DEF PokeField, IInv, TypeOK
    <3>3. field' \in [Modules -> [Kinds -> Values \cup Configs \cup {None}]]
      BY <1>1, <2>1, <3>1 DEF PokeField, IInv, TypeOK
    <3>4. QED
      BY <1>1, <1>2, <2>1, <3>1, <3>2, <3>3 DEF PokeField, IInv, TypeOK
  <2>2. ASSUME NEW t \in PokedTypes, PokeType(m, t)
        PROVE  TypeOK'
    BY <1>1, <1>2, <2>2 DEF PokeType, IInv, TypeOK
  <2>3. QED
    BY <2>1, <2>2
<1>4. SaysWhatWasAsked'
  BY <1>1, <1>2 DEF IInv, SaysWhatWasAsked
<1>5. ArgsLive' /\ NothingSaid'
  BY <1>1, <1>2 DEF IInv, ArgsLive, NothingSaid
<1>6. QED
  BY <1>3, <1>4, <1>5 DEF IInv

\* The caller's own steps leave the command alone.
LEMMA CallerInv ==
  ASSUME IInv, NEW c \in Configs,
         FreeConfig(c) \/ \E v \in Values : WriteConfig(c, v)
  PROVE  IInv'
<1> USE CommandAssumption DEF FreeConfig, WriteConfig, cmd
<1>1. TypeOK'
  BY DEF IInv, TypeOK
<1>2. SaysWhatWasAsked' /\ NothingSaid'
  BY DEF IInv, SaysWhatWasAsked, NothingSaid
<1>3. ArgsLive'
  BY DEF IInv, TypeOK, ArgsLive
<1>4. QED
  BY <1>1, <1>2, <1>3 DEF IInv

LEMMA NextInv == IInv /\ [Next]_vars => IInv'
<1> SUFFICES ASSUME IInv, [Next]_vars PROVE IInv'
  OBVIOUS
<1>1. ASSUME NEW s \in Calls, NEW v \in Vectors(s), Set(s, v) PROVE IInv'
  BY <1>1, SetInv
<1>2. CASE UNCHANGED vars
  BY <1>2 DEF vars, cmd, IInv, TypeOK, SaysWhatWasAsked, ArgsLive, NothingSaid
<1>3. ASSUME NEW s \in Calls, NEW v \in Vectors(s), Ignore(s, v) PROVE IInv'
  BY <1>3, <1>2 DEF Ignore
<1>4. ASSUME NEW c \in Configs, NEW v \in Values, WriteConfig(c, v) PROVE IInv'
  BY <1>4, CallerInv
<1>5. ASSUME NEW c \in Configs, FreeConfig(c) PROVE IInv'
  BY <1>5, CallerInv
<1>6. QED
  BY <1>1, <1>2, <1>3, <1>4, <1>5, ClearInv, PokeInv DEF Next

LEMMA Invariance == Spec => []IInv
BY InitInv, NextInv, PTL DEF Spec

-----------------------------------------------------------------------------
(* What follows                                                            *)

\* Every variable keeps its type; a pointer field holds only pointers.
THEOREM TypeCorrect == Spec => []TypeOK
BY Invariance, PTL DEF IInv

\* The struct of a module that is not changed by hand says what the last
\* accepted call asked, whichever of the 20 setters and whatever changes by hand
\* came before, in whatever order.
THEOREM CommandIsLastAsked == Spec => []SaysWhatWasAsked
BY Invariance, PTL DEF IInv

\* Whoever follows the command finds a value, or nothing if none was asked.
LEMMA FollowedIsValue ==
  ASSUME IInv, NEW m \in Modules \ poked, NEW k \in MayRead(type[m])
  PROVE  Followed(m, k) \in Values \cup {None}
<1>1. \/ type[m] = "UNKNOW" /\ asked.call = "none"
      \/ \E s \in DOMAIN Writes : type[m] = TypeOf(s)
  <2>1. type[m] \in Types \cup {"UNKNOW"} /\ asked.call \in Calls \cup {"none"}
    BY DEF IInv, TypeOK
  <2>2. QED
    BY <2>1, NothingIsNamed, CommandAssumption
       DEF IInv, SaysWhatWasAsked, Types
<1>2. CASE type[m] = "UNKNOW" /\ asked.call = "none"
  <2>1. k \in Kinds
    BY <1>2, NothingIsNamed
  <2>2. field[m][k] = None
    BY <1>2, <2>1 DEF IInv, NothingSaid
  <2>3. QED
    BY <2>2 DEF Followed
<1>3. ASSUME NEW s \in DOMAIN Writes, type[m] = TypeOf(s)
      PROVE  Followed(m, k) \in Values \cup {None}
  <2>1. CASE MayRead(type[m]) = {"float", "bool"}
    <3>1. k \in Kinds /\ k \notin Pointers
      BY <2>1 DEF Kinds, Pointers
    <3>2. QED
      BY <3>1 DEF Followed, IInv, TypeOK
  <2>2. ASSUME NEW j \in Kinds, MayRead(type[m]) = {j}
        PROVE  Followed(m, k) \in Values \cup {None}
    <3>1. k = j /\ k \in Kinds /\ field[m][k] = asked.args[m]
      BY <2>2 DEF IInv, SaysWhatWasAsked
    <3>2. field[m][k] \in (IF k \in Pointers THEN Configs ELSE Values) \cup {None}
      BY <3>1 DEF IInv, TypeOK
    <3>3. CASE k \in Pointers /\ field[m][k] # None
      <4>1. field[m][k] \in Configs /\ contents[field[m][k]] # Gone
        BY <3>1, <3>2, <3>3 DEF IInv, ArgsLive
      <4>2. QED
        BY <3>3, <4>1 DEF Followed, IInv, TypeOK
    <3>4. CASE ~(k \in Pointers /\ field[m][k] # None)
      BY <3>2, <3>4 DEF Followed
    <3>5. QED
      BY <3>3, <3>4
  <2>3. QED
    BY <1>3, <2>1, <2>2, SilentTypes
<1>4. QED
  BY <1>1, <1>2, <1>3

\* No pointer to a freed struct is followed when the command is sent.
THEOREM PointersAreLive == Spec => []NoDanglingSend
<1>1. IInv => NoDanglingSend
  BY FollowedIsValue, CommandAssumption DEF NoDanglingSend, MayCarry
<1>2. QED
  BY <1>1, Invariance, PTL
=============================================================================
