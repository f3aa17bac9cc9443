--------------------------- MODULE MCLoadStoreUnit ---------------------------
(***************************************************************************)
(* Small instances of LoadStoreUnit.  Two words suffice: a split access      *)
(* touches both, and from the second one it wraps round to the first.        *)
(***************************************************************************)
EXTENDS LoadStoreUnit

\* Every split access, from the last word on, with every PMP verdict; the others
\* in the first word, and refused by the PMP only where they are words.
EdgeOps ==
  {o \in Access : IF 2 \in Halves(o.type, o.off) THEN o.word = 1
                  ELSE o.word = 0 /\ (o.deny = {} \/ o.type = "word")}
=============================================================================
