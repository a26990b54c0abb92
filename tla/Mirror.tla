------------------------------- MODULE Mirror -------------------------------
(***************************************************************************)
(* What a replica of a history promises: it holds copies of what was       *)
(* recorded and of nothing else, it takes each record at most once, and a  *)
(* copy, once taken, stays.  How rows are selected, sent, refused or sent  *)
(* again is left out.                                                      *)
(*                                                                         *)
(* HistorianReplication implements this specification (MirrorSpec).        *)
(***************************************************************************)
EXTENDS Naturals

CONSTANT Record          \* what may be recorded, one element per write

VARIABLES
  recorded,   \* the records the edge has committed
  copies      \* how often the replica has taken each of them

(* Types; only what was recorded is counted as taken.                      *)
TypeOK ==
  /\ recorded \subseteq Record
  /\ copies \in [Record -> Nat]

Init ==
  /\ recorded = {}
  /\ copies = [r \in Record |-> 0]

Write ==
  /\ \E r \in Record \ recorded : recorded' = recorded \cup {r}
  /\ UNCHANGED copies

Take ==
  /\ \E batch \in SUBSET {r \in recorded : copies[r] = 0} :
       copies' = [r \in Record |-> IF r \in batch THEN 1 ELSE copies[r]]
  /\ UNCHANGED recorded

Spec == Init /\ [][Write \/ Take]_<<recorded, copies>>
=============================================================================
