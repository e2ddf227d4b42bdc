----------------------------- MODULE Selections -----------------------------
(***************************************************************************)
(* Selecting from a sequence, as a statement's WHERE does with the rows of *)
(* a table in id order, and as the providers' loops do that pick messages  *)
(* out of a conversation.                                                  *)
(***************************************************************************)
EXTENDS Sequences, SequencesExt

\* The elements of a sequence that are in S, in their order.
Where(seq, S) ==
    FoldLeft(LAMBDA kept, e : IF e \in S THEN Append(kept, e) ELSE kept, <<>>, seq)
=============================================================================
