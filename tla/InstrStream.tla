----------------------------- MODULE InstrStream -----------------------------
(***************************************************************************)
(* What the instruction fetch of Ibex promises the rest of the core: after a *)
(* branch to t it hands out the instructions at t, t + its length, and so    *)
(* on, each made of the words fetched since that branch, in address order,   *)
(* none missing, none twice, and each flagged with a fetch error exactly     *)
(* when a word it needs came with one.                                       *)
(*                                                                          *)
(* Addresses and fetched words are those of HalfwordAddr.                    *)
(***************************************************************************)
EXTENDS HalfwordAddr, Sequences

VARIABLES pc,    \* the address of the next instruction to hand out
          buf    \* the words fetched from pc's word on, not yet used up

stream == <<pc, buf>>

\* The instruction at address a, whose word is the first of s.  It spans two
\* words when it starts in the upper half of a word and is not compressed.  An
\* instruction with a failing first word counts as four bytes long.
InstrAt(s, a) ==
  LET k     == HalfIn(a)
      have  == Len(s) >= 1
      short == have /\ ~s[1].err /\ k \notin s[1].wide
      span  == k = 1 /\ ~short
  IN  [valid  |-> have /\ (span => Len(s) >= 2),
       length |-> IF short THEN 1 ELSE 2,
       err    |-> have /\ (s[1].err \/ (span /\ Len(s) >= 2 /\ s[2].err)),
       plus2  |-> have /\ span /\ Len(s) >= 2 /\ ~s[1].err /\ s[2].err,
       upper  |-> IF span THEN 2 ELSE 1]   \* the word its upper half is in

Branch(t) == pc' = t /\ buf' = <<>>

\* A cycle without a branch: a word may arrive, which is the one that follows
\* the words already there, and the instruction at pc may be handed out.
Advance(new, take) ==
  LET s == buf \o new
      i == InstrAt(s, pc)
  IN /\ \A j \in 1 .. Len(new) :
          new[j].word = WordOf(AddHalves(pc, 2 * Len(buf)))
     /\ take => i.valid
     /\ pc' = IF take THEN AddHalves(pc, i.length) ELSE pc
     /\ buf' = IF take /\ HalfIn(pc) + i.length >= 2 THEN Tail(s) ELSE s

Init == pc \in HalfAddrs /\ buf = <<>>

Next ==
  \/ \E t \in HalfAddrs : Branch(t)
  \/ \E new \in {<<>>} \cup {<<w>> : w \in FetchedWord}, take \in BOOLEAN :
       Advance(new, take)

Spec == Init /\ [][Next]_stream
=============================================================================
