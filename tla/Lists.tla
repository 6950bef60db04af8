-------------------------------- MODULE Lists --------------------------------
(***************************************************************************)
(* Linked lists of the code (llist, hlist) are sequences, head first.      *)
(***************************************************************************)
EXTENDS Naturals, Sequences, Functions

\* What is left of list s when the elements that are not in S have been removed
\* with llist_del or hash_del: those of S, in their order.
Kept(s, S) ==
  LET kept[n \in 0..Len(s)] ==
        IF n = 0 THEN <<>>
        ELSE IF s[n] \in S THEN Append(kept[n - 1], s[n]) ELSE kept[n - 1]
  IN  kept[Len(s)]
=============================================================================
