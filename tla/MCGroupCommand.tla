---------------------------- MODULE MCGroupCommand ----------------------------
\* Instances of GroupCommand for TLC.
EXTENDS GroupCommand, TLC

CONSTANTS on, off, cfg1

MCValues == {on, off}
MCConfigs == {cfg1}
MCAllCalls == DOMAIN Writes
MCPokedModules == {1}
MCPokedKinds == {"motor"}
MCPokedTypes == {"MotorConfig"}

MCSymmetry == Permutations(MCValues)
=============================================================================
