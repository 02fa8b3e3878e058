------------------------------- MODULE MCSetup -------------------------------
(* Every channel; two codes, the operator's chat and a stranger's. The codes *)
(* are random digits that are only compared, so they are interchangeable.    *)
EXTENDS Setup, TLC

CONSTANTS code1, code2

MCBundled == {"telegram"}
MCCodes == {code1, code2}
MCChats == {"mine", "other"}
CodesAreAlike == Permutations(MCCodes)
=============================================================================
