-------------------------------- MODULE Names --------------------------------
(***************************************************************************)
(* How namei and the file systems compare names.  A string is the sequence *)
(* of its characters without the NUL; a character is its code.  The end of *)
(* a path component is NUL or '/'.                                         *)
(***************************************************************************)
EXTENDS Integers, Sequences, FiniteSetsExt

Slash == 47       \* '/'

\* The character at index i, the NUL behind the string included
At(s, i) == IF i \in 1..Len(s) THEN s[i] ELSE 0

is_end_chr(c) == c \in {0, Slash}

namei_match(s1, s2) ==
    LET i == Min({j \in 1..Len(s1) + 1 : \/ is_end_chr(At(s1, j))
                                         \/ is_end_chr(At(s2, j))
                                         \/ At(s1, j) # At(s2, j)})
    IN is_end_chr(At(s1, i)) /\ is_end_chr(At(s2, i))

\* s2 is what lies in memory from the name on; its first s2len bytes are the name
namei_nmatch(s1, s2, s2len) ==
    LET stop(j) == is_end_chr(At(s1, j)) \/ is_end_chr(At(s2, j)) \/ j > s2len
        i == Min({j \in 1..Len(s1) + 1 : stop(j) \/ At(s1, j) # At(s2, j)})
    IN /\ stop(i)
       /\ \/ is_end_chr(At(s1, i)) /\ i = s2len + 1
          \/ is_end_chr(At(s1, i)) = is_end_chr(At(s2, i))

NoEntry == [name |-> "none"]      \* readdir answers -EINVAL
=============================================================================
