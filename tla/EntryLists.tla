----------------------------- MODULE EntryLists -----------------------------
(***************************************************************************)
(* Walks along the linked lists of a flow table (LIST_FOR_EACH and         *)
(* LIST_FOR_EACH_SAFE of list.h): up to the first entry that is in a       *)
(* set, or through all of them.                                            *)
(***************************************************************************)
EXTENDS Naturals, Sequences, FiniteSetsExt, SequencesExt

(* The position of the first entry of a list that is in K. *)
FirstIn(s, K) == Min({i \in DOMAIN s : s[i] \in K} \cup {Len(s) + 1})

(* The entries of a list that are in K, in its order. *)
Keep(s, K) ==
  LET kept[n \in 0 .. Len(s)] ==
        IF n = 0 THEN <<>>
        ELSE IF s[n] \in K THEN Append(kept[n - 1], s[n]) ELSE kept[n - 1]
  IN kept[Len(s)]
=============================================================================
