-------------------------- MODULE MCRangeCondition --------------------------
(* Types of two, three and four bits; the three-bit one is unsupported.    *)
EXTENDS RangeCondition

MCModuli == {4, 8, 16}
MCSupported == {4, 16}
=============================================================================
