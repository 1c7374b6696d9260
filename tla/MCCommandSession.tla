--------------------------- MODULE MCCommandSession ---------------------------
\* Instances of CommandSession for TLC.
EXTENDS CommandSession

CONSTANTS on, off

MCValues == {on, off}
NoConfigs == {}
MCCalls == {"enable", "setVelocity", "setInputPositionPt", "setLatencyTest",
            "setInputVelocityPt", "resetLinearCount"}

FaultySetup ==
  [steps : {ResetLinearCountProgram}, overtakes : {TRUE}, faulty : {TRUE}]

\* All examples on a network that keeps the order, the pausing ones on one that
\* does not, and the one that disables before it resets on one with faults.
MCSetups ==
  [steps : Examples, overtakes : {FALSE}, faulty : {FALSE}]
    \cup [steps : PausingPrograms, overtakes : {TRUE}, faulty : {FALSE}]
    \cup FaultySetup
AsyncSetup == [steps : {AsyncProgram}, overtakes : {FALSE}, faulty : {FALSE}]
=============================================================================
