---------------------------- MODULE HalfwordAddr ----------------------------
(***************************************************************************)
(* Instruction addresses and fetched words.  An address counts half words    *)
(* and wraps round as a 32-bit address does.  A fetched word is its number,  *)
(* its error flag and the set of its half words (0, 1) whose two low bits    *)
(* are 11, that is, which do not begin a compressed instruction.             *)
(***************************************************************************)
EXTENDS Naturals

CONSTANT NumWords   \* words of the address space (2^30 in the core)

ASSUME NumWordsAssumption == NumWords \in Nat /\ NumWords >= 2

Words     == 0 .. NumWords - 1
HalfAddrs == 0 .. 2 * NumWords - 1

WordOf(a)       == a \div 2
HalfIn(a)       == a % 2
AddHalves(a, n) == (a + n) % (2 * NumWords)

FetchedWord == [word : Words, err : BOOLEAN, wide : SUBSET {0, 1}]
=============================================================================
