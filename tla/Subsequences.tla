---------------------------- MODULE Subsequences ----------------------------
(***************************************************************************)
(* The part of a sequence at some of its positions: what SelectSeq gives,  *)
(* as a recursive function over the length, which can be reasoned about.   *)
(***************************************************************************)
EXTENDS Integers, Sequences

Chosen(s, positions) ==
    LET upTo[n \in 0 .. Len(s)] ==
            IF n = 0 THEN <<>>
            ELSE IF n \in positions THEN Append(upTo[n - 1], s[n]) ELSE upTo[n - 1]
    IN  upTo[Len(s)]
=============================================================================
