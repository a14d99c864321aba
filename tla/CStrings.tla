------------------------------ MODULE CStrings ------------------------------
(***************************************************************************)
(* The string functions of the kernel and of the user land's libc, and the *)
(* ones of nish that are built on them.  A string is the sequence of its   *)
(* characters without the NUL; a character is its code.                    *)
(***************************************************************************)
EXTENDS Integers, Sequences, SequencesExt, FiniteSetsExt, Names

Blank == 32       \* ' '; what ltrim and rtrim remove is not above it

\* -1, 0 or 1
Order(a, b) == IF a < b THEN -1 ELSE IF a > b THEN 1 ELSE 0

\* The first position at which one string ends or the two differ
Parting(s1, s2) ==
    Min({i \in 1..Len(s1) + 1 : At(s1, i) = 0 \/ At(s2, i) = 0 \/ At(s1, i) # At(s2, i)})

strcmp(s1, s2) == LET i == Parting(s1, s2) IN Order(At(s1, i), At(s2, i))

\* A test that ends the loop because n is used up leaves n at -1, which is not
\* zero: one character more is compared.  A NUL ends it before n is counted down.
strncmp(s1, s2, n) ==
    LET i == Min({Parting(s1, s2), n + 1})
        ended == At(s1, i) = 0 \/ At(s2, i) = 0
    IN IF ended /\ n = i - 1 THEN 0 ELSE Order(At(s1, i), At(s2, i))

memcmp(s1, s2, n) ==
    LET differ == {i \in 1..n : s1[i] # s2[i]}
    IN IF differ = {} THEN 0 ELSE s1[Min(differ)] - s2[Min(differ)]

\* Where delim's characters are skipped: one round of the outer loop tests every
\* delimiter once, in order, and a round that skipped something is repeated.
RECURSIVE SkipRound(_, _, _)
SkipRound(s, delim, k) ==
    IF k > Len(delim) \/ s = <<>> THEN s
    ELSE SkipRound(IF Head(s) = delim[k] THEN Tail(s) ELSE s, delim, k + 1)

\* Mutant: the round is not repeated
SkipOnce(s, delim) == SkipRound(s, delim, 1)

RECURSIVE Skip(_, _)
Skip(s, delim) ==
    LET t == SkipRound(s, delim, 1) IN IF t = s THEN s ELSE Skip(t, delim)

NoString == <<-1>>      \* the null pointer

\* One call: the token, or NoString, and what *ptr is left at
strtok_save(s, delim, ptr) ==
    LET t == Skip(IF s = NoString THEN ptr ELSE s, delim)
        hits == {i \in 1..Len(t) : t[i] \in ToSet(delim)}
    IN CASE delim = <<>> -> [token |-> s, ptr |-> ptr]
         [] delim # <<>> /\ s = NoString /\ ptr = NoString ->
                [token |-> NoString, ptr |-> ptr]
         [] OTHER ->
                IF t = <<>> THEN [token |-> NoString, ptr |-> ptr]
                ELSE IF hits = {} THEN [token |-> t, ptr |-> NoString]
                ELSE [token |-> SubSeq(t, 1, Min(hits) - 1),
                      ptr |-> SubSeq(t, Min(hits) + 1, Len(t))]

(***************************************************************************)
(* nish: the words of a command                                            *)
(***************************************************************************)
Solid(s) == {i \in 1..Len(s) : s[i] > Blank}

ltrim(s) == IF Solid(s) = {} THEN <<>> ELSE SubSeq(s, Min(Solid(s)), Len(s))

rtrim(s) == IF Solid(s) = {} THEN <<>> ELSE SubSeq(s, 1, Max(Solid(s)))

\* cmd is cut at its first space, args is the rest
_nish_split_par(s) ==
    LET c == ltrim(s)
        space == SelectInSeq(c, LAMBDA ch : ch = Blank)
    IN IF space = 0 THEN [cmd |-> c, args |-> <<>>]
       ELSE [cmd |-> SubSeq(c, 1, space - 1),
             args |-> rtrim(ltrim(SubSeq(c, space + 1, Len(c))))]

RECURSIVE SplitWords(_)
SplitWords(s) ==
    LET par == _nish_split_par(s)
    IN <<par.cmd>> \o (IF par.args = <<>> THEN <<>> ELSE SplitWords(par.args))

split_to_argv(s) == IF s = <<>> THEN <<>> ELSE SplitWords(s)
=============================================================================
