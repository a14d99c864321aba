------------------------------ MODULE ExecImage ------------------------------
(***************************************************************************)
(* What execve makes of a program: the segments of an ELF image and the    *)
(* first stack with its arguments.  Memory is a function from the          *)
(* addresses that were written to cells; a pointer takes Ptr cells and is  *)
(* stored at the first of them.                                            *)
(***************************************************************************)
EXTENDS Integers, Sequences, FiniteSetsExt, Calls

CONSTANTS Ptr,          \* cells of a pointer
          FrameSize     \* cells of a page

ASSUME ExecAssumption == Ptr \in Nat \ {0} /\ FrameSize \in Nat \ {0}

\* A vector of strings; null for the null pointer
Vector(strings) == [null |-> FALSE, strings |-> strings]
NoVector == [null |-> TRUE, strings |-> <<>>]
Nothing == [a \in {} |-> 0]

\* Memory m after the cells of f were written
Over(f, m) == [a \in DOMAIN f \cup DOMAIN m |-> IF a \in DOMAIN f THEN f[a] ELSE m[a]]

(***************************************************************************)
(* The stack: strings from the top down, the last one first; below them    *)
(* the vector of their addresses, ended by a null pointer.                 *)
(***************************************************************************)
\* The addresses of the strings of vec, the last of which ends at buf
StringsAt(vec, buf) ==
    LET at[i \in 1..Len(vec) + 1] == IF i = Len(vec) + 1 THEN buf ELSE at[i + 1] - (Len(vec[i]) + 1)
    IN at

write_vector(mem, vector, buf) ==
    IF vector.null THEN [mem |-> mem, at |-> 0]
    ELSE LET vec == vector.strings
             n == Len(vec)
             at == StringsAt(vec, buf)
             chars == [a \in at[1]..buf - 1 |->
                         LET i == CHOOSE j \in 1..n : at[j] <= a /\ a < at[j + 1]
                             k == a - at[i] + 1
                         IN IF k > Len(vec[i]) THEN 0 ELSE vec[i][k]]
             slot(i) == at[1] - Ptr * (n + 2 - i)
             pointers == [a \in {slot(i) : i \in 1..n + 1} |->
                            LET i == CHOOSE j \in 1..n + 1 : slot(j) = a
                            IN IF i = n + 1 THEN 0 ELSE at[i]]
         IN [mem |-> Over(pointers, Over(chars, mem)), at |-> slot(1)]

\* The loop over argv leaves i one too high, which the store takes back.  It does not
\* look whether argv is null, as it is for init, getty and login: then it counts the
\* words low, which lie at address 0, up to the first zero.
CountOf(argv, low) ==
    IF argv.null THEN Min({i \in DOMAIN low : low[i] = 0}) - 1 ELSE Len(argv.strings)

\* Mutant: a vector that was not given is not looked for
MainArgumentsAtNull(argc, args, envp, top) ==
    LET esp == args.at - 3 * Ptr
    IN [esp |-> esp,
        mem |-> Over([a \in {esp, esp + Ptr, esp + 2 * Ptr} |->
                        IF a = esp THEN argc ELSE IF a = esp + Ptr THEN args.at ELSE envp], args.mem)]

\* The three words that main gets, below the vector args or, without one, below top
MainArguments(argc, args, envp, top) ==
    LET esp == (IF args.at = 0 THEN top ELSE args.at) - 3 * Ptr
    IN [esp |-> esp,
        mem |-> Over([a \in {esp, esp + Ptr, esp + 2 * Ptr} |->
                        IF a = esp THEN argc ELSE IF a = esp + Ptr THEN args.at ELSE envp], args.mem)]

make_new_stack(argv, envp, pos, low) ==
    LET envs == write_vector(Nothing, envp, pos)
        top == IF envs.at = 0 THEN pos ELSE envs.at
    IN MainArguments(CountOf(argv, low), write_vector(envs.mem, argv, top), envs.at, top)

(***************************************************************************)
(* The image.  A program header is [type, vaddr, offset, filesz, memsz].   *)
(***************************************************************************)
AlignDown(a) == a - (a % FrameSize)

\* mem: what is in memory, pages: the pages that are mapped.  p_filesz < size never
\* holds, so the rest of the segment keeps what the frames contained.
elf_load_segment(st, image, seg) ==
    LET size == Min({seg.filesz, seg.memsz})
        first == AlignDown(seg.vaddr)
    IN [pages |-> st.pages \cup {p \in first..seg.vaddr + seg.memsz - 1 : (p - first) % FrameSize = 0},
        mem |-> Over([a \in seg.vaddr..seg.vaddr + size - 1 |-> image.data[seg.offset + a - seg.vaddr + 1]],
                     st.mem)]

\* The answer, and st after the segments that were loaded before it was known
load_elf(st, image, pretend) ==
    LET refused(seg) == seg.type \in {"PT_DYNAMIC", "PT_SHLIB"}
        Load(s, seg) ==
            IF s.ret # "OK" THEN s
            ELSE IF refused(seg) THEN [s EXCEPT !.ret = "DYNAMIC"]
            ELSE IF seg.type = "PT_LOAD" /\ ~pretend
            THEN [ret |-> "OK", st |-> elf_load_segment(s.st, image, seg)]
            ELSE s
        header == CASE image.magic # "ELF" -> "NOELF"
                    [] image.magic = "ELF" /\ image.version # "CURRENT" -> "SUPPORT"
                    [] image.magic = "ELF" /\ image.version = "CURRENT"
                         /\ image.machine # "386" -> "MACHINE"
                    [] OTHER -> IF image.kind # "ET_EXEC" THEN "SUPPORT" ELSE "OK"
        done[k \in 0..Len(image.segments)] ==
            IF k = 0 THEN [ret |-> header, st |-> st] ELSE Load(done[k - 1], image.segments[k])
    IN done[Len(image.segments)]

\* Mutant: the pass that only looks is missing
LoadOnePass(st, image) == load_elf(st, image, FALSE)

\* The two passes of do_exec
LoadProgram(st, image) ==
    LET first == load_elf(st, image, TRUE)
    IN IF first.ret # "OK" THEN first ELSE load_elf(st, image, FALSE)

-----------------------------------------------------------------------------
\* What is asked for: arguments and an environment, each of which may be null, for which
\* there is room below pos, a zero somewhere from address 0 on, and program headers
Vectors == Seq(Seq(Nat \ {0}))
Fits(argv, envp, pos) ==
    LET envs == write_vector(Nothing, envp, pos)
        top == IF envp.null THEN pos ELSE envs.at
    IN top > 3 * Ptr /\ (argv.null \/ write_vector(envs.mem, argv, top).at > 3 * Ptr)
Headers == [type : {"PT_NULL", "PT_LOAD", "PT_DYNAMIC", "PT_INTERP", "PT_NOTE", "PT_SHLIB", "PT_PHDR"},
            vaddr : Nat, offset : Nat, filesz : Nat, memsz : Nat]

ASSUME ExecCallsAssumption ==
    \A k \in DOMAIN Calls : \A c \in Calls[k] :
      /\ c.fn = "stack" => /\ c.pos \in Nat /\ Fits(c.argv, c.envp, c.pos)
                           /\ \A v \in {c.argv, c.envp} : v.null \/ v.strings \in Vectors
                           /\ c.low \in Seq(Nat) /\ \E i \in DOMAIN c.low : c.low[i] = 0
      /\ c.fn = "elf" => c.image.segments \in Seq(Headers)

\* The string at a, below top
StringFrom(mem, a, top) ==
    LET len == CHOOSE n \in 0..top - a - 1 : mem[a + n] = 0 /\ \A k \in 0..n - 1 : mem[a + k] # 0
    IN [k \in 1..len |-> mem[a + k - 1]]

\* In memory m, at stack pointer esp: the vectors argv and envp, all between esp and pos.
\* argc is the length of argv; without one it is whatever was counted, and not to be
\* relied on.
StackShows(m, esp, argv, envp, pos) ==
    LET shown(at, n) == [i \in 1..n |-> StringFrom(m, m[at + Ptr * (i - 1)], pos)]
        vector(at, strings) == /\ shown(at, Len(strings)) = strings
                               /\ m[at + Ptr * Len(strings)] = 0
    IN /\ argv.null \/ m[esp] = Len(argv.strings)
       /\ IF argv.null THEN m[esp + Ptr] = 0 ELSE vector(m[esp + Ptr], argv.strings)
       /\ IF envp.null THEN m[esp + 2 * Ptr] = 0 ELSE vector(m[esp + 2 * Ptr], envp.strings)
       /\ esp > 0 /\ DOMAIN m \subseteq esp..pos - 1

\* The new program finds its arguments and environment on the stack: counts, pointers
\* and strings, each ended by its zero, and none written over by another.  A vector that
\* was not given is a null pointer to the program, also when the other one is there.
StackReadsBack ==
    call.fn = "stack" =>
      LET st == make_new_stack(call.argv, call.envp, call.pos, call.low)
      IN StackShows(st.mem, st.esp, call.argv, call.envp, call.pos)

\* Loading segments is all or nothing: a program that is refused has mapped and written
\* none, and one that is accepted has all of them mapped and filled from the file, the
\* later segment where two overlap.
LoadAllOrNothing ==
    call.fn = "elf" =>
      LET before == [pages |-> {}, mem |-> Nothing]
          r == LoadProgram(before, call.image)
          segs == {k \in DOMAIN call.image.segments : call.image.segments[k].type = "PT_LOAD"}
          seg(k) == call.image.segments[k]
          filled(k) == seg(k).vaddr..seg(k).vaddr + Min({seg(k).filesz, seg(k).memsz}) - 1
      IN IF r.ret # "OK" THEN r.st = before
         ELSE \A k \in segs :
                /\ \A a \in seg(k).vaddr..seg(k).vaddr + seg(k).memsz - 1 : AlignDown(a) \in r.st.pages
                /\ \A a \in filled(k) : (\A j \in segs : j > k => a \notin filled(j)) =>
                     r.st.mem[a] = call.image.data[seg(k).offset + a - seg(k).vaddr + 1]

\* What execve makes of arguments and of an ELF image.
ProgramRight == StackReadsBack /\ LoadAllOrNothing
=============================================================================
