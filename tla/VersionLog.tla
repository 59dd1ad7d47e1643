----------------------------- MODULE VersionLog -----------------------------
(***************************************************************************)
(* What the numbered versions of a thing promise, whether it is a truth    *)
(* anchor of a product or a version of a template pack: for every thing a  *)
(* log that only grows, by one document at a time, at its end.  No number  *)
(* is given twice, none is skipped and no document is rewritten.           *)
(***************************************************************************)
EXTENDS Sequences

CONSTANTS Things, Documents

VARIABLE log  \* the documents of a thing, the first version first

Init == log = [t \in Things |-> <<>>]

Add(t, d) == log' = [log EXCEPT ![t] = Append(@, d)]

\* A transaction may add the first version of several things.
Found(new) ==
  /\ \A t \in DOMAIN new : log[t] = <<>>
  /\ log' = [t \in Things |-> IF t \in DOMAIN new THEN <<new[t]>> ELSE log[t]]

Next ==
  \/ \E t \in Things, d \in Documents : Add(t, d)
  \/ \E S \in SUBSET Things : \E new \in [S -> Documents] : Found(new)

Spec == Init /\ [][Next]_log
=============================================================================
