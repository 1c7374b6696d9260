# Verification of fourier-cpp-sdk

The C++ library under `src/src` wraps the C library `libfourier` (shipped as
binaries, declared in `src/fourier/include/aios.h`), which finds the actuators
("modules") of a robot on the network, sends them commands and collects their
feedback. This directory holds TLA+ models of the C++ library and of the
programs that use it, TLC runs over small instances, and TLAPS proofs.

Paths such as `src/src/group.cpp` are relative to the repository that holds this
directory; `group.cpp:75` is short for `src/src/group.cpp:75`, and `03_feedback.cpp`
for `src/examples/src/03_feedback.cpp`.

## Inventory

| component | state | operations | hard behaviour | what makes it correct |
|---|---|---|---|---|
| **Group, feedback handlers** (`group.hpp`, `group.cpp:8-39, 72-84`) | `handlers_`, `handler_lock_`, and in the C library the registration of `callbackWrapper` | `addFeedbackHandler`, `clearFeedbackHandlers`, `callAttachedHandlers` (on library threads), destructor | client threads and library threads interleave; handlers are foreign code that may throw or call back; the registration may be refused; destruction races callbacks | list and registration agree; a cleared handler never runs again; each feedback reaches each handler that was attached when it came, once and in order; the lock comes back |
| **GroupCommand** (`groupCommand.*`) | one C struct per module: a command type, seven kinds of fields, four of them pointers to the caller's structs | 20 setters, `clear`, `operator[]` | a setter changes the type and one field and leaves the rest; a wrong length is silently ignored; the pointers outlive the call | what is sent is the last accepted call, for every module that was not changed by hand; no freed struct is followed |
| **Group, sending commands** (`group.cpp:48-51`, the examples) | none of its own | `sendCommand`, `setCommandLifetimeMs` | nothing is acknowledged; packets are lost and overtaken; return values are ignored; drives start as another program left them | a reset meets only drives that are off; drives end as the program last asked |
| **Group, feedback requests** (`group.cpp:53-70`, the examples) | the one feedback the C library stores; the caller's `GroupFeedback` | `sendFeedbackRequest`, `getNextFeedback`, `set/getFeedbackFrequencyHz` | timeouts; late answers; results ignored; an old feedback taken for a new one; a test against NaN that is always true | no answer is printed twice; how stale an answer can be is bounded; loops end without any answer |
| **GroupFeedback** (`groupFeedback.*`) | pointer, owner flag, pointers to the modules' feedback | owning and viewing constructor, destructor, `operator[]`, implicit copies | the flag is copied, so two destructors release one object; a view outlives its callback | every C object is released once, and not used after |
| **Lookup** (`lookup.cpp:10-46, 131-137`) | pointer to the C lookup, its frequency | create, `getGroupFromFamily`, `getEntryList`, `setLookupFrequencyHz`, `setNetWorks` | discovery in the background; answers after it was stopped; waiting with timeout -1; no group, no list | what a program waits for can come; group and list agree |
| **EntryList and iterator** (`lookup.cpp:48-129`) | pointer to the C list; unsigned index | `operator[]`, `size`, `begin`, `end`, `++`, `--` | statuses dropped, length that counts the null character | iteration visits every entry once; an entry's family names its group |
| **Version, util, log level** | none | one stateless call each | none | nothing to check |
| **libfourier** (external) | registrations, stored feedback, sockets | as declared in `aios.h` | its threads | assumed, see below |

How they interact: `Lookup` creates C groups, a `Group` owns one and releases it
in its destructor. `sendCommand` passes the C side of a `GroupCommand` down;
`getNextFeedback` fills the C side of a `GroupFeedback`. In the other direction
the C library calls `callbackWrapper` on threads of its own, which makes a viewing
`GroupFeedback` and hands it to each handler with `handler_lock_` held. There is
no other shared state and nothing is persisted.

The hazards these give rise to are listed, each at its line, in `PROJECT.json`.

## Modules

| module | models |
|---|---|
| `FeedbackDispatch` | what a Group promises to owners of handlers, without locks or threads |
| `Group` | handlers, lock, client and library threads, destructor; refines `FeedbackDispatch` |
| `GroupProofs`, `GroupPromiseProofs` | the theorems about `Group` |
| `GroupCommand` | the command struct and its setters |
| `GroupCommandProofs` | the theorems about `GroupCommand` |
| `CommandSession` | the nine example programs that send commands, `sendCommand`, the network and the drives; extends `GroupCommand` |
| `SessionProofs` | the theorems about `CommandSession`; extends `GroupCommandProofs` |
| `FeedbackSession` | the loops of the example programs that read feedback, the requests, the resets, the stored answer and the network |
| `FeedbackProofs` | the theorems about `FeedbackSession` for any programs |
| `FeedbackProgramProofs` | those for programs that keep a rule, and that the examples keep it |
| `Discovery` | `Lookup`, the search, the making of groups and lists, the walk over a list, and how the examples start |
| `DiscoveryProofs` | the theorems about `Discovery` |
| `Ownership` | which C++ object releases which C object, with copies and assignments |
| `OwnershipProofs` | the theorems about `Ownership` |
| `MCGroup`, `MCGroupCommand`, `MCCommandSession`, `MCFeedbackSession`, `MCDiscovery`, `MCOwnership` | instances for TLC |

Each module also defines a few *plausible errors* (an action or test as a bug in
the code would have it, such as `StartHandlerUnlocked`). No behaviour of the
specifications uses them. They are substituted for the definition they resemble
to see that each checked property can fail.

### Group

A step lies between two points where another thread can observe a difference:
taking or releasing `handler_lock_`, a call into the C library, the start or end
of a handler.

| code | actions |
|---|---|
| `addFeedbackHandler` (72-78) | `AddFeedbackHandler` takes the lock and appends; `RegisterIfFirst` tests the size, registers (or is refused, and the status is dropped), and releases the lock |
| `clearFeedbackHandlers` (80-84) | `ClearFeedbackHandlers` takes the lock and unregisters; `ClearVector` empties the vector and releases |
| library thread | `FeedbackArrives` owes one call per registration it finds |
| `callbackWrapper`, `callAttachedHandlers` (8-24) | `CallAttachedHandlers` takes the lock; `StartHandler` and `EndHandler` are the loop's body, where a handler returns (`NextRound`) or throws and is `Caught`; `ReturnFromCallback` ends loop and guard |
| `~Group` (35-39) | `BeginDestroy`, `FinishDestroy` |

`lock` is the thread that owns the mutex. `handlers` names a handler by the number
of its `addFeedbackHandler`, so two adds of the same function are two handlers,
as in the code. `added`, `cleared`, `refused`, `arrived`, `due` and `calls` are history:
no guard but the bounds reads them. `due[f]` is the last handler that was attached when
feedback `f` arrived, until a clear detaches it. The order "library first, vector second" of
`clearFeedbackHandlers` is kept; so is the order "vector first, library second" of
`addFeedbackHandler`.

A handler that adds or clears handlers of its own group locks a `std::mutex` that
its thread already owns. This is undefined in C++; `RelockThrows` covers both
things builds do: throw `system_error` (swallowed by `catch (...)`, so the handler
ends) or block for good.

What is assumed of libfourier, from `aios.h` and from what `group.cpp` needs:
a feedback is handed to the callbacks registered when it arrives, on library
threads (458-472, 523-529); `fourierGroupClearFeedbackHandlers` does not wait for
running callbacks (otherwise it would deadlock with the lock that
`clearFeedbackHandlers` holds). Whether `fourierGroupRelease` waits for them is left
open, since `aios.h:531-537` does not say: if it does (`ReleaseWaits`) the group ends
as "gone"; if not, the destructor may free lock and vector under a callback, and the
group is "undefined": no library thread takes a step from then on, and no property
says anything of it. That the destructor takes no lock and relies on the release is a
hazard of the code that no property settles. The win_x64 binary in the
repository has stubs for the handler entry points, so these cannot be read off it.

`Promise` instantiates `FeedbackDispatch` with `attached <- handlers`,
`issued <- added`, and, as `delivered[f]`, the whole handler list while a
dispatch of `f` is in its loop and the calls made otherwise. A dispatch thus
counts at the moment it takes the lock: `CallAttachedHandlers` implements
`Notify(f)` (or a stutter, if the list is empty), `ClearVector` implements
`DetachAll`, `AddFeedbackHandler` implements `Attach`, all else stutters.
A consequence worth knowing: feedback that was handed to a library thread before
a clear, and gets the lock after a later add, reaches the newly added handlers.
The code promises nothing else.

### GroupCommand

`Writes` is the table of the 20 setters: the type each sets and the field each
writes. `MayRead` is what `aios.h` alone says of the field that belongs to a type: its
group in `FourierCommandEnum` ("// float", "// bool"), or the member of `Command` with
the type's name. From `ResetLinearCount` on the enumeration has no group of its own: for
that type, `SaveConfig`, `LatencyTest` and `CtrlBoxPower`, all listed after "// bool",
the header names no field, while `resetLinearCount` and `ctrlBoxEnable` write
`float_fields_`. `MayRead` therefore allows both fields for these four, a packet carries
the values of both (`MayCarry`), and `SaysWhatWasAsked` says of them only that the type is
right. For the other 16 it says that the argument is in the one field that may be read.

`Set` is an accepted call, `Ignore` one with a wrong length; `PokeField` and `PokeType` are
writes through `operator[]`, which hands out the whole struct, type included, and `poked`
is the set of modules they have changed since the last accepted call: nothing is
said of those. `WriteConfig` and `FreeConfig` are the caller, who rewrites or frees structs
it passed. `asked` and `poked` are history.

Obligations left to the caller, because the class has no means to enforce them:
one thread at a time uses a GroupCommand (no lock), and a struct is freed only
when the last *accepted* call does not point to it. A rejected call goes
unnoticed, so a caller that believes a new setter took effect and frees the
previous structs does break the second one.

### CommandSession

The scripts are the calls, sends and sleeps of the nine example programs that send
commands, including the vectors whose length does not match the group
(`03_feedback`, `04_command`, `07_set_position_pt` and `reset_linear_count` pass one
or two elements whatever the group's size), so `Ignore` fires and the following
send repeats the command before. Their timed loops become `Rounds` repetitions.
Numbers are `On` (1, and any number that is not 0) and `Off` (0). `Call` is a
setter, `SendCommand` is `sendCommand` with its packet for each module, `Deliver`
and `Lose` are the network; of a drive only on/off is modelled, from how the
examples use it, and a drive starts on or off, as whatever ran before has left it
(`07_set_position_pt` and `08_pos_pass_through` leave theirs on). A setup is a program
with its network: whether packets overtake each other, and whether packets are lost and
calls of `sendCommand` fail (`faulty`). `PausingPrograms` are the seven examples that are
run with overtaking, `Examples` all nine.

`Sleep` waits until nothing is in transit: a sleep of a second is taken to outlast a
packet's travel. Shorter sleeps are left out, which only adds behaviours.

### FeedbackSession

| code | actions |
|---|---|
| `sendFeedbackRequest` (53-56) | `SendFeedbackRequest`: a request goes out, or none does and the ignored result says so |
| `getNextFeedback` (58-61) | `GetNextFeedback` takes the stored answer; `Timeout` returns false and writes nothing |
| `setFeedbackFrequencyHz` (63-66) | `SetFeedbackFrequencyHz`, which may fail unnoticed; while the frequency is not 0, `Poll` is the library's thread |
| the loops of the examples | `ResetLinearCount`, whose command may not be sent, is executed later (`ExecuteReset`) or lost (`LoseReset`); `Sleep`; printing is part of the two steps of `getNextFeedback` |
| library, network and modules | `Answer`, `Arrive` (in any order), `Lose` |

The library keeps one answer: what arrives takes the place of the one before, and
`getNextFeedback` "waits for the next" only if there is none (`aios.h:458-521`,
`group.hpp:56-82`). Since `group.hpp` says that a request makes the library discard
data of before, an implementation may also drop the stored answer at a request; the
model keeps it, which is the case with the more stale answers. `DiffersFromNaN` is
the test that the programs make, `position != quiet_NaN()`: it is true of
every value.

The programs are what `reset_linear_count` and `03_feedback` print, and the loop of
`05_feedback_command_async`, which asks for no feedback by either means
(`UnaskedProgram`; nor does `08_pos_pass_through`): in the model each of its calls of
`getNextFeedback` times out. What 05 and 08 compute from the empty feedback, and the
vector 05 sends of it, is arithmetic and left out.

A consequence worth knowing: `reset_linear_count` may print, after its reset, one
count from before it: an answer that came after its own `getNextFeedback` had timed
out stays stored over the pauses (`AtMostOneStaleAnswer` says one, not none). The pause
after the reset matters as much as the one before: the drive executes the reset some time
after it was sent, and answers in between would tell the old count.

### Discovery

The programs are the starts of the examples, up to the first use of their group,
and three uses of the interface that no example shows: a group of the family of an
entry, a walk backwards, and a wait without end. `Ask`, `Learn` and `Lose` are
the search; an answer may come after `setLookupFrequencyHz(0)`.
`GetGroupFromFamily`, `GroupTimeout` and `WaitForGroup` are one call. `Members` are
the modules of the family that are known when it returns. A string is its text and
the null characters in it: `operator[]` makes strings of the whole buffer, the null
character included, and `c_str()` cuts them off again (`CStr`), which is why the
family of an entry still finds its group (`EntryNamesItsGroup`).

Assumed: the entry list is a copy of what is known when it is made (`aios.h:229-330`);
groups outlive the `Lookup` they came from, as `03_feedback` needs.

### Ownership

Places are where C++ objects can live. `Create` is a constructor that creates its C
object, `StartCallback` the view that `callAttachedHandlers` makes of the library's
own feedback, `Copy` and `Assign` the implicit copies that the five classes have or
disable (`Copyable`, `Assignable`), `Destroy` and `EndCallback` the destructors. The
implicit copy of an owning `GroupFeedback`, a `GroupCommand` or a `Lookup` is a second owner:
`OnlyCopiesDangle` states that without it nothing goes wrong. Nothing in
the repository copies one, and nothing in the classes prevents it: with a copy, the model
does release an object twice, as the code would.

## Runs

| run | instance | shows |
|---|---|---|
| `group_dispatch` | 2 clients, 2 library threads, 3 packets, 5 adds, refusals; the last handler reenters and blocks; the release does not wait | type and safety invariants, stable list, refinement of `FeedbackDispatch`; where relocking blocks, the lock never changes hands again (so no deadlock check here) |
| `group_live` | the same threads, 3 adds, a handler that reenters and throws | the lock comes back; each handler attached when feedback arrives is called with it, unless a clear or the destructor comes first |
| `group_refusal` (violation) | registration may fail | attached handlers that never get feedback |
| `command` | all 20 setters, 2 modules, vectors of 1 to 3 elements, one struct of the caller, writes by hand | the type tells each command apart and its argument is in the field that belongs to it; no freed struct is followed |
| `session` | 9 programs, 3 modules, 2 rounds, drives in any state, no loss; 7 of them also with overtaking; `reset_linear_count` also with overtaking, loss and failing sends | a reset of a drive that was to be disabled meets it on only if the disable was lost; without loss, drives are as last told when all has arrived, and that comes about |
| `reset_enabled` (violation) | `05_feedback_command_async`, order kept, no loss | drives left on by an earlier program reset while on |
| `send_unacknowledged` (violation) | loss | `sendCommand` returned true and a module never got it |
| `feedback` | 3 programs, 2 modules, loss, overtaking, timeouts, failing calls | staleness around a reset, nothing printed twice, termination |
| `feedback_errors` (violation) | a module without a position | it is printed without "feedback error!" |
| `discovery` | 7 starts, 3 modules of 2 families, answers late or lost | group and list agree, walks visit all, an entry finds its group, starts end |
| `missing_group` (violation) | 01_lookup | it uses a pointer without reference |
| `ownership` | 3 places, 2 C objects, 1 lent feedback | double releases, leaks and dangling views need a copy or an assignment |

Bounds. `MaxAdds` bounds `addFeedbackHandler`; clears are unbounded. Two threads
of each sort give every pair of concurrent operations, and the actions of three
threads interact only through the one lock. Five adds allow two handlers before a
clear, two after it and one that reenters; three packets let one be dispatched, one
wait for the lock and one arrive during a clear. For commands, a setter treats
modules independently and overwrites one field, so two modules and two
values show every interaction; vectors have length N-1, N and N+1. In
the sessions the loops run 2 rounds, so that packets of the same loop can
overtake each other. In `feedback`, two rounds of each loop let an answer of the
first come in the second, and `MaxPolls` is the number of requests of the
library's thread. In `ownership` a third place lets an object have two copies;
`released` counts 0, 1, and 2 for more. The proofs remove the bounds for every
safety property that a passing run checks.

Symmetry is used where only safety is checked: threads, packets, values, places and
C objects are interchangeable. Handlers are ordered numbers and are not permuted.

Fairness.

- `Group`: weak fairness on each step that a thread takes inside the lock
  (such a thread runs on, and handlers return), and on a callback's taking the lock: a
  thread gets a lock that stays free. One that others keep taking it may miss for
  ever, since `std::mutex` promises nothing (no strong fairness). A client that adds
  handlers for ever could starve a callback in this way; `MaxAdds` excludes it, so
  `FeedbackReachesHandlers` is about programs whose adds come to an end. Clears are
  unbounded, but each detaches what was due. No fairness on starting an add or clear.
- `CommandSession`: the program runs on, and packets that are not lost arrive.
  `DrivesEndAsTold` says nothing of setups with faults.
- `FeedbackSession`: the program runs on, and whatever is on its way arrives, is executed or is
  lost. No answer is needed for `ProgramEnds`. (Timed loops are cut after
  `Rounds`; the endless loop of `08_pos_pass_through`, which asks as 05 does, is not run.)
- `Discovery`: the program runs on, the search goes on asking, and not every answer of a
  module is lost (strong fairness of `Learn`): only the wait without end needs it.

`04_command.cpp` and `05_feedback_command_async.cpp` do not pause after enabling or
before disabling; when packets overtake each other their drives may end up on. In
`04_command`, on a group of two or more, even the enable is sent twice: the vector of
one element that is to stop the motor is without effect, and the send after it repeats the
enable. Both are therefore run on a network that keeps the order; no text of the
repository promises more.

`reset_linear_count.cpp:76` says "Make sure FSA disable when exec resetLinearCount"
(`ResetWhileDisabled`). 05 and 03 reset without disabling; `reset_enabled` shows 05 reset
drives that were on when it started. `reset_linear_count` itself disables with a pause
before and after, and is right wherever nothing is lost, which is proved
(`ExamplesResetDisabled`); under loss it cannot know. `OnlyLossEnablesReset` is what is
left then: the disable before it was not received and is not on its way, so it was
lost or refused.

## Proofs

All by TLAPS, for every value of the constants that satisfies the named
assumptions (`GroupAssumption`, `CommandAssumption`, `SessionAssumption`,
`FeedbackAssumption`, `DiscoveryAssumption`, `OwnershipAssumption`). A theorem about
particular programs says so in its hypotheses, and has two parts: a rule on
programs under which the property holds for any group, network and length of
loops, and that the examples keep the rule.

**Group** (`GroupProofs`). The inductive invariant is
`IInv == TypeOK /\ LockOwner /\ Teardown /\ HandlerOrder /\ Registration`:

- `LockOwner`: a client inside add or clear, and a library thread inside its loop,
  is the owner of the lock. Without it nothing follows about concurrent steps.
- `Teardown`: after the destructor began no client is inside, and a library thread in its
  loop has a call to finish.
- `HandlerOrder`: the attached handlers are increasing numbers in
  `cleared + 1 .. added`; what runs is one of them.
- `Registration`: `RegisteredOnce`, extended to the two moments inside add and
  clear. That `registered` stays in `0 .. 1` (part of `TypeOK`) is not inductive
  without it.

From it: `TypeCorrect`, `RegistrationCorrect`, `ClearIsFinal`, `ListStable`, and
`ReentryKeepsLock`, which assumes `~RelockThrows`. None of them assumes that the
release of the group waits.

`GroupPromiseProofs` adds `DInv == OneOwner /\ Progress`: at most one thread
carries a feedback, and the calls made so far for it are exactly the
handlers before the loop's index (none, if the loop has not begun). From it
`OnceInOrder`, and `GroupImplementsPromise`: the initial states map to initial
states and every step maps to a step of `FeedbackDispatch` or a stutter.

**GroupCommand** (`GroupCommandProofs`). `IInv` is `TypeOK`, `SaysWhatWasAsked`,
`ArgsLive` (arguments of the last accepted call are not freed) and `NothingSaid` (before
the first call the fields are empty). The lemmas `FieldBelongsToType` and
`TypeNamesSetter` compare the table of setters with what `aios.h` says: a type whose field
the header names is set only by the setters that write it, and no two setters share a
type. From it `TypeCorrect`, `CommandIsLastAsked`, `PointersAreLive`.

**CommandSession** (`SessionProofs`), for any programs whose steps name setters
without pointers, and drives in any state at the start. A program's call is a step of
`GroupCommand`, so `SetInv` of `GroupCommandProofs` serves; no program writes by hand
(`poked = {}`), and `CommandMeaning` and `CarriesValues` say what a packet holds. `SInv`
adds to `IInv` and `SessionTypeOK` that, without faults, each packet of a successful
`sendCommand` has arrived or is on its way (`Accounted`). From it `SessionTypeCorrect`
and `SessionSaysWhatWasAsked`.

What depends on the program adds two more invariants.

- `RInv`, about resets, has one part for each way to reset with care
  (`ResetsWithCare`): never reset, or disable with a pause before and after
  (`DisablesAt`, the way of `reset_linear_count.cpp`). For the second, `OffAt` follows the
  program through the five steps around its disable: nothing is on its way at the
  disable, all enables sent from then on say off, and once the second pause is over there
  is a disable `no` that each drive has either executed or will never get.
- `EndInv`, about the end where nothing is lost, follows the last call of enable
  (`EndsAt`). The command that sends it starts to settle the drives (`Settling`): each
  drive has a packet of it on its way, or is as it says and gets no other. With
  overtaking this needs a pause before it after which the enable before is not sent
  again (`PausesAt`); without, it needs none.

From `RInv`: `CareLeavesOnlyLoss` and `CareResetsDisabled` (the latter for setups without
faults), for every program that keeps the rule, and `ExamplesLeaveOnlyLoss` and
`ExamplesResetDisabled` for the examples but 03 and 05, which do not keep it
(`ExampleSetups`). From `EndInv`: `CareSettlesDrives` and `ExamplesSettleDrives`
(`PausingSetups`: `04` and `05` need the order), for programs that call enable at all. The
lemma `ExamplesSettle` also shows that a vector of two elements, which is without effect on
larger groups so that the enable is sent again, does no harm in these programs.

**FeedbackSession** (`FeedbackProofs`), for any programs. `IInv` follows an answer: on its
way, stored or taken, in one of the three only (`Apart`, `TakenIsGone`, `TakenOnce`). From
it `TypeCorrect`; that an answer is taken once holds by the library and the network as they are
modelled, so it is a lemma for what follows and no result of its own.

`FeedbackProgramProofs` adds `PInv == PrintedInv /\ StaleInv`. `PrintedInv`: a program that
tests each result prints only what it got, from which, with `IInv`, `PrintedOnce` for
`03_feedback.cpp` with a loop of any length. `StaleInv` is why at most one stale answer is
taken: when a reset is reached after a pause no request and no answer is on its way, and
none is until the pause after it is over and the drive has executed it or never will
(`Coming`); so all that arrives later tells of the time after it, and only what was
stored at that moment can be stale; once it was taken, it is gone. `PausesAroundResets` is
the rule on programs; from it `OneStaleByRule`, and `OneStaleAnswer` for the examples.

**Discovery** (`DiscoveryProofs`), for any modules, families, families of modules and any
of the seven starts. `DInv` says, for each program, what is true of group, list
and iterator when its next step is reached: the position of the walk and what it visited
(`ListingInv`, `BackwardInv`), and that the first entry is known and so is found by its
family (`EntryInv`). That the null character which `operator[]` leaves at the end of the
family does not change what `c_str()` hands on is `NullEndsName`. From it
`DiscoveryTypes`, `WalkIsComplete`, `GroupIsListed`, `EntryFindsItsGroup`.

**Ownership** (`OwnershipProofs`). The invariants are inductive almost as they stand, once types,
the class of each C object and the fact that views have no flag are known. From it
`TypeCorrect`, `CopiesDangle`, `SharedAreSafe`, `NothingLeaks`, `LentIsSafe`.

Only model-checked: the liveness properties `LockReleased`, `FeedbackReachesHandlers`,
`DrivesEndAsTold`, `ProgramEnds` and `StartEnds` (TLAPS does not do liveness under
fairness here). `DrivesEndAsTold` is `SettledAsTold`, which is proved, and that the
program ends and its packets arrive, which is not. Every other property of a
passing run is stated by a theorem. That the examples' programs are what `Setups` and
`Programs` hold is a hypothesis; `StartsAssumption` says so of `Discovery`, whose model names
its programs.

## Findings

1. `group.cpp:76` drops the status of the registration. If it is refused, the
   handlers stay attached, nobody tries again, and none of them is ever called
   (`group_refusal`); `group.hpp:62-63` says they are.
2. `group.hpp:47-54` says that `sendCommand` requests an acknowledgement and
   guarantees receipt; `group.cpp:48-51` calls the function that sends without one
   (`send_unacknowledged`).
3. `01_lookup.cpp:18` and five more examples use the group that `getGroupFromFamily`
   returned without a test, though `lookup.hpp:51-52` says that it may have no
   reference (`missing_group`).
4. `reset_linear_count.cpp:29` and three more examples compare with NaN to find modules
   that sent nothing; the comparison is always true and "feedback error!" is
   never printed (`feedback_errors`).
5. `reset_linear_count.cpp:76` asks to make sure that drives are disabled when their
   counts are reset; `05_feedback_command_async.cpp:94-95` and `03_feedback.cpp:37-38` reset
   without disabling, and `07_set_position_pt` and `08_pos_pass_through` leave drives on
   (`reset_enabled`).

## Not modelled

- `setCommandLifetimeMs`, `setNetWorks`, `getCtrlBoxIP`: one call each into a library
  whose lifetimes and networks are not documented, called by no example.
- A failure of `fourierGroupCommandSetType` and of the length calls of `EntryList`
  (both statuses are dropped): what the library leaves behind is not documented;
  the latter reads an uninitialised length.
- Which field the library reads for `ResetLinearCount`, `SaveConfig`, `LatencyTest` and
  `CtrlBoxPower`: the header does not say.
- What happens to a group that is freed under a callback, and inside the second lock
  of a mutex that a thread owns, beyond throwing or blocking: undefined.
- The caller's freeing the structs of its last accepted call, before it is sent.
- The positions that 05 and 08 compute and collect, and the order of `04_command` and
  `05_feedback_command_async` on a network that overtakes.
- Decrementing an iterator at `begin()`, which no loop over a list does.
- Two threads that use one `GroupCommand` or `GroupFeedback`: a data race that the
  classes leave to the caller.
- `getError`, `size`, log level, version, the getters of frequencies: stateless reads.
- Allocation failure: no code handles it.
- What modules do with motion commands; the wire format; the C library's insides:
  not in the repository.
- `02_playback` includes a header that is not in the repository.

## Plan

What remains is proof: that no program is stuck (once nothing is on its way, the
guard of its next step holds), the part of `ProgramEnds`, `StartEnds` and
`DrivesEndAsTold` that needs no fairness; and one statement of the lemmas about joined
sequences for `SessionProofs` and `FeedbackProgramProofs`, which each have their own.
