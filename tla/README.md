# A TLA+ model of nupkux

nupkux is a small Unix-like kernel for one x86 CPU: processes, a round-robin
scheduler driven by the timer, character and block devices in a devfs, ttys, a
VFS and a kernel shell behind `/dev/nish`.  This directory holds TLA+ modules
for its parts, the TLC runs that check them and the proofs TLAPS checks.
`PROJECT.json` maps every definition to the lines it models.

## 1. The system

### Components, their state and their operations

| Component | State | Operations | Hard about it |
|---|---|---|---|
| Scheduler (`kernel/sched.c`, `kernel/task.c`) | `tasks[]`, `current_task`, the interrupt flag, `esp0` of the TSS | `schedule`, `switch_task`, `sys_pause` | the timer switches tasks wherever interrupts are on; task 0 runs even if it is paused |
| Processes (`kernel/task.c`, `kernel/exit.c`, `kernel/main.c`) | slots of `tasks[]`, kernel stacks, page directories | `sys_fork`, `sys_exit`, `sys_waitpid`, `sys_kill` | fork swaps the stacks of parent and child; exit frees the stack it runs on; waitpid spins |
| nish (`kernel/nish.c`) | `nish_buf`, `buf_pos` | `nish_write`, `_nish_interpret`, `nish_exec` | forks and waits in the kernel with interrupts on |
| Device lock (`drivers/drivers.c`) | `dev->queue` | `device_lock`, `device_unlock` | tests, sleeps and signals with interrupts on |
| Ramdisk (`drivers/ramdisk.c`) | the disk | `ramdisk_request` | returns with the lock held for a bad sector |
| Keyboard (`drivers/tty/kbd.c`) | modifiers, `escape`, `key_state`, `current_tty` | the interrupt handler | shares the input ring with `tty_read` without any lock |
| tty input (`drivers/tty/tty.c`) | `in_s`, `in_e`, `input_buffer` | `tty_read` | turns interrupts on at the head of its loop |
| tty output (`drivers/tty/tty.c`) | the ring of lines, `scrln`, `viewln`, both cursors, colours, modes | `do_tty_write`, `tty_interpret_escape`, `print_tty`, `set_current_tty` | the ring wraps; the tty written to is not always the one on the monitor |
| Heap (`mm/mm.c`) | headers, footers, index of holes | `heap_malloc`, `heap_free`, `heap_realloc` | alignment, growing and shrinking at boundaries |
| Paging (`mm/paging.c`) | frame map, directories, tables | `make_page`, `clone_directory`, `free_directory` | tables shared with the kernel |
| Files (`fs/open.c`, `fs/fcntl.c`, `fs/read_write.c`) | descriptor tables, `FILE` | open, close, dup, dup2, read, write | `FILE`s shared by dup and fork |
| VFS (`fs/namei.c`, `fs/mount.c`, `fs/vfs/*`) | vnode caches, counts, mounts | `iget`, `iput`, `namei`, mount, umount | counts of eight bits; references that are not given back |
| exec (`fs/exec.c`, `kernel/elf.c`) | `glob_regs` | `do_exec` | a global pointer to the registers of the last interrupt |
| Floppy (`drivers/fdc/*`) | `done`, `tmout`, `thepid`, track | `fdc_rw`, `waitfdc`, the interrupt | timeout and retry |
| Early console (`kernel/ktextio.c`) | text memory, `_cursor_pos` | `_kout`, `_kclear` | control characters that move what is on the screen |
| devfs (`fs/devfs/*`) | entries of the directory, handles | register and unregister a device | entries and handles are kept apart |
| initrdfs, ext2 (`fs/initrdfs`, `fs/ext2`) and `tools/mkinitrd` | an image or a volume, read only | read, lookup, readdir, `iget` | block borders, records of variable length |
| Clock (`kernel/time.c`) | `ticks`, the CMOS clock | `time`, `mktime`, `sleep` | two number formats, unsigned differences |
| Libraries (`lib/*`, `usr/libc/*`) | none, but for `strtok` | `vsprintf`, comparisons, `strtok`, `atoi` | flags, widths and precisions in combination |

The other drivers, the assembly stubs and the programs under `usr/` are listed in
`PROJECT.json` with the reason why they are not modelled.

### How the components interact

Every system call enters through an interrupt gate, so it runs with interrupts
off until it returns, switches tasks, or calls `sti` itself.  The code that does
call `sti` is where interleavings are: `sys_fork` before it returns,
`device_lock` and `device_unlock`, and `tty_read`.  The timer interrupt calls
`switch_task`; the keyboard interrupt stores into the ring of the current tty
and selects ttys; `sys_kill` sets a signal bit that `schedule` takes for a
wakeup.  Drivers sleep with `sys_pause` and are woken with `sys_kill`.

### What makes the components correct

* Scheduler: the CPU is never given to a dead task; every ready task gets it.
* Processes: live tasks share no kernel stack and no page directory, use none
  that has been freed, and leak none; whoever waits reaps his own child.
* Device lock: one request at a time, no lost wakeup, everybody is served.
* tty input: characters are read once, in the order of typing, on the tty they
  were typed on.
* tty output: each tty is a terminal that scrolls, and the monitor shows the
  current one.
* Files: a `FILE` counts the descriptors that refer to it, lives as long as there
  are any and does not go away under a task that waits inside a driver.
* VFS: a vnode in use is not freed; `namei` finds what the mounted tree says, and
  no volume goes away under those who use it.
* Heap: the holes and the blocks tile the heap, no two holes touch, the index
  lists the holes, and a block is as large and as aligned as it was asked for.
* Paging: no frame is in two places and none is lost; what a program wrote stays
  until it writes again.
* Floppy: sectors go to their place and no other, over retries and changed disks.
* Early console: nothing is written beside the screen; it shows the last rows.
* nish: what is interpreted is a command as a shell wrote it, and ends.
* Sequential code: it agrees with a definition of what it is to compute.

## 2. Modules

| Module | Models | Composes |
|---|---|---|
| `Sched` | `schedule`, `sys_kill` and the table part of `switch_task`, as operators on a task table | |
| `Tasks` | processes, the timer, the idle loop, `nish_exec` | extends `Sched` |
| `DevLock` | the device lock and its users | extends `Sched` |
| `TtyInput` | keyboard handler, ring, `tty_read` | |
| `TtyCommands` | what bytes and escape sequences do to cursor and colours | |
| `Terminal` | the abstract specification of the ttys | extends `TtyCommands` |
| `TtyScreen` | ring of lines, `print_tty`, tty selection | extends `TtyCommands`, implements `Terminal` |
| `Files` | descriptors, `FILE`s, counts of vnodes, what fork and exit do to them | |
| `Heap` | `malloc`, `free`, `realloc` on headers, footers and index | |
| `Paging` | frame map, kernel tables, page directories | |
| `Vfs` | `namei`, mount, umount, chdir, chroot, the devfs | |
| `Floppy` | requests, seeks, retries; the drive as environment | |
| `Console` | the console of the boot | |
| `NishDev` | the buffer of `/dev/nish` and its writers | |
| `Vsprintf`, `CStrings`, `Calendar`, `Initrd`, `Ext2`, `ExecImage` | sequential algorithms as operators | |
| `Names` | how names of files are compared | used by `CStrings`, `Initrd`, `Ext2` |
| `Calls` | a behaviour as a series of calls of them | |
| `Library` | what they are to return (time and sleep: in `Calendar`; execve: in `ExecImage`; ext2: in `Ext2`) | extends the eight |
| `TasksProofs`, `DevLockProofs`, `TtyInputProofs`, `TtyScreenProofs`, `FilesProofs` | theorems about the module of that name | |
| `VfsProofs` | theorems about `Vfs`, `ExecImage` and `Ext2` | |
| `MemoryProofs` | theorems about `Paging` and `Heap` | |
| `DeviceProofs` | theorems about `NishDev`, `Floppy`, `Console` and `Calendar` | |
| `MC*` | constants for TLC | |

### Sched and Tasks

`tasks` is the C table with the fields that decide something: pid, parent,
state, whether a signal is pending, exit code, kernel stack, directory.  A pid
is the number of its slot, as in the code.  `irq` is the interrupt flag,
`esp0` the stack the TSS names, `stacks` and `dirs` what is allocated.  `pc`
says where the task of a slot is executing; the only places inside the kernel
are those where interrupts are on.

* A system call is one action (`Fork`, `Exit`, `Pause`, `Kill`, `Waitpid`), as
  interrupts are off; what it does ends with the `switch_task` it contains.
* `Tick` is the timer; it needs `irq`.
* The idle loop of task 0 is two actions, as the timer may strike between the
  two statements of its `sys_pause`.
* `NishExec` forks and stops behind the `sti` of `sys_fork`; the return, each
  round of the loop of `sys_waitpid`, the read of the status and the release of
  the slot are actions of their own.
* `KernelAbort` is the exit of task 0, which halts the machine.

Uids are left out (every process is root's, as nothing calls setuid before
login), and so are the open files, which belong to `Files`.  `sys_fork`
needs a free stack and directory in the model: the code does not handle a heap
that is exhausted.

### DevLock

The tasks all exist and issue requests.  Each statement of `device_lock` and
`device_unlock` outside of their `cli` .. `sti` is an action, and `Tick` may come
between any two.  `BadSector` is the early return of `ramdisk_request` that
leaves its entry in the queue.

### TtyInput

The keyboard is the environment: any key may be pressed, may repeat and may be
released; keys on the right send `0xE0` first.  The handler is one action for
each byte, since it runs with interrupts off.  `tty_read` runs with interrupts
on: load of `in_s`, load of the character, store of `in_s` and the wrap are
separate actions, the middle two in either order, as the compiler is free to
choose.  A character is represented by its number in the order of typing, so
that order and duplication can be seen.

### TtyCommands, Terminal and TtyScreen

`TtyCommands` is the cursor arithmetic and the colours, used by both sides.
`Terminal` is what a user expects: `Height` rows that move up.  `TtyScreen` is
the code: a ring of `MemLines` lines in which `scrln` moves, the macro
`TTY_POS`, the two `memcpy` of `print_tty`.  The refinement maps row `y` of the
screen to line `TTY_POS(scrln, y)`.  Colours are sets of bits, so the or of the
code is a union.  An escape sequence is one action with its parameters as `atoi`
reads them; the bytes `h` and `l` stand for `?25h` and `?25l`, and `H` for `f` too.

### Files

`files` is the descriptor table of every task, `file` the `FILE`s on the heap with
vnode, count and whether they may be written, `count` the counter of every vnode
(0: not in the cache), `pwd` and `root` as in the code.  `busy` is the local
variable `f` of a task that is inside `sys_read` of a tty or `sys_write` to
`/dev/nish`, `held` the vnode it is loading from.  A call is one action, unless
it lets other tasks run: `sys_read` and `sys_write` end with `CallReturns`,
`sys_execve` (and cat and ls of nish) with `Loaded`.  `sys_close` of a set of
descriptors is one operator, `FilesClosed`, used for close, dup2 and exit, since
closing them one by one ends in the same state.

`namei` is taken by its effect on counts: the vnode at the end of the path and
every directory `igetdir` went through get one more, and only the former is ever
given back.  Mount points are resolved, so a path never ends at one.  The model
starts after the boot, with the references the mounts of initrd and devfs have.
Left out: offsets, `close_on_exec` (no code sets it), mounting after the boot,
which task has the CPU (any may make the next call), and the wrap of the count:
a step that would exceed `MaxCount` is not taken.

### Heap and Paging

The unit of `Heap` is 8 bytes, the size of a header and of a footer.  `heap` has the
chunks by address with the header their footer points to, the index in its order,
the end and the mapped pages.  `heap_malloc` calls itself after the heap has grown;
here that is `Enlarged`, applied twice: each grows the heap if no hole fits, and one
that was made or extended twice is large enough for any request (`EnlargedKeeps`; an
alignment needs at most one frame more).  The code can leave its own data structure in a
number of ways, and what it overwrites then is not followed: `trouble` names what
happened and the heap is not used any more.  All of them are reached in the run:

* `exhausted`: `heap_malloc` calls itself for ever at the end of memory;
* `gap`: the heap grows, but the hole that is extended is not the last chunk;
* `twice`: an aligned block whose hole was aligned already stays in the index;
* `overlap`: a part of one unit has its footer on its header, also when `realloc`
  leaves one (the test at `mm.c:311` never holds);
* `stale`: a hole is found through a footer whose pointer is from before a merge;
* `fault`, `ghost`: the header behind the last block is looked for beyond the end;
* `beyond`: the heap shrinks below a hole which is put into the index nevertheless.

`HeapIntact` says that all is well up to the first of them; a fix of one of these
places would take its branch out of the model.

`Paging` has the frame map, the kernel's pages and for each directory which of its
tables are the kernel's.  `content` and `seen` are what frames hold and what
programs last found, to state that address spaces are apart.  `MAP_MEMORY` includes
its end, as the code does; `KernelStays` depends on it.  The model assumes a free
frame where the code does.

### Vfs

A vnode is a pair of super block and inode.  A chain of mounts or of covers is
followed link by link (`Followed`) for as many links as there are super blocks, which
is always enough, since a root is made when it is mounted; the names of a path are
taken one after the other by a recursive function, as `igetdir` does.  The walk uses
covers like the code; the reference, `Walk`, keeps the list of directories that led to a place,
so that `..` is the one before.  The two agree on every path of up to three
components in every state, unless the list begins there or the task's root is
itself mounted on something, where it is open what `..` is to mean.  `sys_umount` is
modelled with all it frees, but `namei` never returns a mount point and so it never
gets that far.  `sys_reboot` calls it for `/dev` (`RebootUnmountsDev`) and for `/`
(`RebootUnmountsRoot`, behind which `close_vfs` ends the use of names); `halting` says how
far it is.  Nothing else happens in between, as it runs with interrupts off.
`VfsAssumption` says of
the tree that a directory is found in one place and that its `..` is that place, and of
`SomePaths` that they name no files: `sys_mount` does not ask whether its target is a
directory, and what is mounted on a file has nothing `..` could mean.

### Floppy, Console and NishDev

The drive of `Floppy` moves any number of the sectors it was asked for, answers in
time or too late, and its disk may be changed between any two steps.  `done` is set
by the first reset and never cleared, so nothing waits for the drive.

`Console` has an action for the call of `_kout` and one for a round of its loop, which
prints a character; the cursor is stored after the last.  The text memory behind
the screen is read by new line and backspace; such cells are `OffScreen`.

In `NishDev` a write is one action up to an exec command; behind the `sti` of its
fork, the return of exec, each byte that `memset` clears (`ClearByte`) and the reset of
the position are actions of their own, and other shells write in between.  So a `memset`
may clear bytes written after it passed by their front: the next write then completes
only the front of a command, and that is what is interpreted.  `run` remembers with the
text whether some shell was clearing, and `CommandsWhole` allows the front of one command
then and only then; parts of two, or a part from the middle, never.  The writes are those of
`usr/sh`: a command and its zero.  With more behind the zero, a writer that is
interrupted there could pass the end of the buffer; no program does that.

### Library

`call` is a call of a function with its arguments; `Calls` is the set of all calls
that are tried.  A part of an invariant names the function and compares what the translated
code returns with an independent definition: a printed number read back, a calendar
counted in days, the maximal runs of a string, a directory tree, the bytes of a
file.  What the code gets wrong is in the translation and is named in the property
that would otherwise fail: `ext2_read` leaves out a last block that the read ends at and
clears only 1024 bytes of a hole (`BytesInPlace`), a directory of two or more blocks ends
at the end of a block, so that `ext2_readdir` and `ext2_lookup`, which begin with
`ext2_read`, work on junk there, a counted name that no end follows is taken for every
name it is the begin of, and a search that finds nothing may run on behind the directory
(`EntriesFound`), `argc` of a missing `argv`, as `getty` and `login` pass it, is counted
from address 0 (`StackShows`), `strncmp` compares one character too many (`ComparisonsAgree` has
one direction only), `sleep` returns at once on a machine younger than the time to
sleep, group descriptors are right for volumes of one group (`InodesApart`).  An
`int` has `Bits` bits.

In `Ext2` a cell of the buffer that nothing was copied to is `Untouched`, and a record
whose place shows such a cell is `Junk`: whatever was in the heap.  What the code makes of
junk is not followed (`WildEntry`, `Wild`); the property says when it gets there.  A hole
has `HoleSize` zeros and is `Untouched` behind them.

## 3. Runs

| Run | Question | Bounds |
|---|---|---|
| `tasks_shipped` | Do processes and nish keep table, ownership and parenthood right? | 4 slots: kernel, init and two that can be parent, child, orphan and stranger to each other |
| `tasks_waitpid` | The same with programs that call waitpid for anybody | 4 slots |
| `tasks_live` | Does every ready task run, and every nish command return? | 3 slots |
| `devlock` | Mutual exclusion, lost wakeups, null head; is everybody served? | 4 tasks, 3 entries of the queue, of which the bad requests of one task may stay behind |
| `ttyin`: ring | Is the ring safe against the handler? | one tty, 3 entries, 8 characters: the ring wraps twice and overflows |
| `ttyin`: keyboard | Do characters go to their tty, does a modifier stick? | 2 ttys, 3 entries, 2 characters, all modifiers on both sides but CapsLock, a key for a tty that does not exist |
| `ttyin_overflow` | Is every loss of characters one of the overflow branch? (no) | as `ttyin`: ring |
| `files` | Are `FILE`s and vnodes counted right, whatever tasks share and close? | 3 tasks, 2 descriptors each, 2 `FILE`s, 4 vnodes; counts for two forks with an exit in between |
| `screen_ring` | Is the ring of lines a terminal, does the cursor stay on the screen? | 2 x 2 cells, 3 lines, parameters up to one too large |
| `screen_select` | Does the monitor show the current tty? | 2 ttys of one cell, 2 lines |
| `library` | Do the sequential algorithms compute what they should? | ints of 4 bits and all pairs of flags; every day at the end of a month from 1970 to 2069; strings of 3 to 6 characters; directories of two levels; files of 8 cells in blocks of 2, of which a hole clears one; directories of 1, 2, 4 and 5 blocks, of which 3 are direct; vectors of two words, or none; two segments |
| `kernel`: heap | Do blocks and holes tile the heap, whatever is asked for and freed? | 3 blocks of 1 or 3 units, aligned or not, in a heap of 8 to 20 units with pages of 4: it grows and shrinks, and every trouble is reached |
| `kernel`: paging | Are frames owned once, spaces apart? | 9 frames, 2 directories with 2 pages each, a heap page that comes and goes |
| `kernel`: vfs | Does a path lead where it should? | a tree of two levels, 2 mounts on 5 paths, all paths of 3 components, 2 devices |
| `kernel`: floppy | Are sectors moved to their place? | 2 heads, 2 tracks, 2 sectors; requests of up to 5 sectors, one change of the disk |
| `kernel`: console | Does the cursor stay on the screen, which shows the text? | 3 x 2 cells, outputs of one and two characters, all control characters |
| `kernel`: nish | Is the buffer safe and usable with several shells? | 3 shells, 7 bytes, cleared one by one; commands that fit, that fill it and that do not fit |
| `vfs_reboot` | Does `sys_reboot` unmount what it says? (no) | as `kernel`: vfs |

Two runs end in a violation and show where the code and its comments differ:

* `ttyin_overflow`: the comment at `kbd.c:112` calls its branch the overflow, but
  while `tty_read` is between increment and wrap the handler overruns the ring
  without taking it; the full ring then looks empty and its characters are lost.
* `vfs_reboot`: the comment at `sys.c:60` says that `sys_reboot` unmounts the devfs and so
  deletes the tty it prints on, and the next line announces it; but `namei` answers with
  the mounted root, of which `IS_MNT` is false (`mount.c:106`), so that `sys_umount`
  refuses and `/dev` leads to the devfs as before.

The models also reproduce three smaller differences that no run is about.
Alt+Shift selects the column that the keymap (`german_keymap.c:24`) heads AltGr,
not its column for Alt+Sh (`create_key_state`).  `CSI n ; m H` takes the column
first, where the page `tty.c:107` cites takes the row (`EscapeCursor`).  A new
background colour is ored onto the old one (`NewBackground`).

`tasks_shipped` and `tasks_waitpid` do not check for deadlock: a halted kernel
and a task that spins in a waitpid system call with interrupts off are ends the
code has.  `kernel` runs six parts, one at a time, with a variable that says which;
they share no state in the model.  It does not check for deadlock, as the heap stops
at its first trouble.  The runs of `TtyInput` do not either, as the bound on typed characters
ends them.  `ttyin` runs one
of two keyboards, and `desk` says which; neither has a CapsLock key, as CapsLock
toggles shift on press, release and repeat.  `files` does not check for deadlock,
as all processes may have exited.

A run checks invariants that are conjunctions of named parts: `HeapIntact`,
`MemoryApart`, `NamesResolve`, `DiskIntact`, `CommandsRun`, and in `library`
`PrintfRight`, `ClockRight`, `StringsRight`, `Ext2Right`, `ProgramRight`.  Each part
has its own comment in its module.  That two ttys implement two terminals is the
theorem `TtyScreenImplements`; `screen_select` only asks what the monitor shows.

### Bounds

`NR_TASKS`, the pools, `BadSectors` (the tasks whose requests may be bad), `MaxQueue`
(entries of a device queue; a task whose
requests are bad enters again and again), `MaxKeys` and `MaxSize` (characters
typed and asked for), `MaxCount` (of each vnode, at most the 255 of its `UCHAR`),
the size of screen and ring; `Requests` and `MaxBlocks` of the heap, `HeapTop` and
`Dirs` of paging, `MaxMounts`, `MaxDevices`, `DevPath` and the two sets of paths of `Vfs`, `HoleSize` of
`Ext2` (what the 1024 bytes are to `BlockSize`),
`MaxCount` (there: sectors of a request) and `MaxChanges` of the floppy, `Outputs`
and `Commands` of console and nish, `Calls` of the library.  Stacks and directories are
interchangeable, which the runs of `Tasks` use as symmetry, and so are the places
of `FILE`s in `files`.

### Fairness

`WF(Tick)`: the timer ticks as long as interrupts are on.  `SF` of the steps
of a task inside the kernel: they are enabled only while it has the CPU, and a
tick may take it away at any time; the code executes some instructions in every
slice.  Nothing is assumed of programs: they may compute, exit or call the
kernel, or never do.  `EveryRequestServed` excepts queues with an abandoned entry,
as the early return at `ramdisk.c:25` keeps the device for ever.

## 4. Proofs

* `TasksSafe` (`TasksProofs`): all invariants of `tasks_shipped`, for every
  number of slots, stacks, directories and exit codes.  The inductive invariant
  `Tasks!IInv` adds `PlacesAgree`: a pid is its slot number, task 0 is the one
  in the idle loop, and a task executes somewhere exactly if its slot is alive;
  without it a step of a dead task could not be excluded.  One lemma for each
  action; `SwitchFacts` says what `switch_task` leaves alone and is used in most.
  Hypothesis: programs that call waitpid and foreground commands of nish do not
  occur together.  waitpid takes anybody's child, so a program could reap the
  child of nish and leave it waiting for a stranger; no program under `usr/`
  calls waitpid.
* `DevLockSafe` (`DevLockProofs`): mutual exclusion, no lost wakeup, no null head,
  for every number of tasks and with bad requests.  The inductive invariant adds
  `InsideIsHead`: who transfers is the head of the queue, which gives mutual
  exclusion; and `NoLostWakeup` is inductive with `QueueHoldsWaiters`.
* `TtyScreenSafe` and `TtyScreenImplements` (`TtyScreenProofs`): for every size of
  screen, ring and set of ttys.  The argument: rows are different lines of the
  ring (`TTY_POSFacts`), advancing `scrln` moves every row up by one
  (`NextLineFacts`), the two `memcpy` find the same lines (`ViewLineIsTTY_POS`).
  The inductive invariant adds that nobody looks back into the ring (`ViewAtTop`)
  and that a tty which is not being written to is shown if it is current.

* `FilesSafe` (`FilesProofs`): `FileCounts`, `BusyFile` and `NodesHeld` for every
  number of tasks, descriptors, `FILE`s and vnodes and every bound of the counters
  up to 255.  The inductive invariant adds `DeadHaveNothing`: a task that has
  exited has no descriptors and is inside no call.  Without it a fork could
  overwrite references that are still counted.  The argument is about
  cardinalities: closing removes `{p} x S` from the references of a `FILE`
  (`FilesClosedCount`), a fork adds `{c} x ...`, which is disjoint from them
  (`ForkStep`), and a vnode loses one reference for each `FILE` that is freed
  (`NodesClosedHeld`).

* `TtyInputTypes`, `TtyInputInOrder`, `TtyInputNoStuckModifier` (`TtyInputProofs`): for
  rings of any length, any number of ttys and keys, wherever the handler interrupts a
  reader.  The inductive invariant `IInv` numbers the characters over all ttys and says
  of each ring: going round from `in_e` the characters get younger (`Ordered`); an
  entry is written before it is read (`Written`); and until the overflow branch is
  taken all that is unread is younger than what was read (`Ahead`).  Its delicate part
  is the reader between increment and wrap, where `in_s` is the length of the ring: the
  handler can then overrun the entry that is being read, but what is read is still
  younger than all before.  `KeyInv`, for the modifiers: a variable of `kbd.c` is set
  only while a key of its row is held down, or the second byte of its release is still
  to come; hypothesis: there is no CapsLock, which toggles shift on its release too.

* `PagingMemoryApart` (`MemoryProofs`): `MemoryApart` for memories, tables and numbers
  of directories of any size.  `PagingInv` adds `ProgramTables`: a directory has a table
  of its own for the pages of its program and shares those of the kernel.  Without it a
  page written by one program could be in the table of another.  `alloc_frame` takes the
  least free frame; that several are taken in a row without meeting is `RankExists`,
  which counts the frames below one (`Before`) and follows from the fact that sets of
  numbers have a least element.

* `HeapStaysIntact` (`MemoryProofs`): `HeapIntact` for frames, heaps and requests of any
  size, until a trouble.  `HeapOK` says that chunks tile the heap without a gap up to
  its end, that the index holds exactly the holes, each once, that no two holes touch,
  that the footers of blocks point to their own headers, and that all pages are mapped;
  `Served` relates blocks to requests.  The proof follows the
  functions of the code: cutting a hole (`MallocKeeps`), growing (`EnlargedKeeps`),
  merging with the right and the left neighbour and shrinking.

* `NishSafe` and `NishComesBack` (`DeviceProofs`): `CommandsRun` and `NishReady` for
  every size of the buffer, every number of shells and all commands, with other
  shells between any two bytes that `memset` clears.  The first needs
  `FrontOK`: unless the buffer is free, or filled by a command that did not fit, what
  stands before its first zero is a command, or the front of one while a shell is
  clearing: a zero that `memset` sets can only cut what stood there.  So a second writer
  runs it again.  The second needs `Owed`: each byte that is not zero is still ahead of
  the `memset` of some shell.

* `FloppyDiskIntact` (`DeviceProofs`): `DiskIntact` for every geometry, requests of any
  length and any number of changes.  `FloppyInv` adds what the track buffer and the
  calls still to be made have to do with the request (`CallsRight`, `ReadRight`,
  `WriteRight`); the arithmetic is that sector, head and track number the sectors and
  that the calls of `fdc_rw` cut a request at the ends of tracks (`PartArithmetic`).

* `ConsoleShowsAll` (`DeviceProofs`): `ConsoleShowsText` for screens of any width and
  height that fit the bytes of `_kout`, tabulators narrower than the screen, and all
  outputs.  `ConsoleInv` adds that in the middle of an output, too, the position is on
  the screen, and that it is the end of the text's last row: then a new line pulls up
  only what is below the text, which is blank (`ShowsPrinted`).

* `TasksNoInheritedChildren` (`TasksProofs`): the action property, from `Tasks!IInv`; a
  slot becomes used only by `sys_fork` (`OnlyForkUses`), and no used slot has a free one
  for its parent.  Under the hypothesis of `TasksSafe`.

* `VfsNamesResolve` and `VfsMountsStay` (`VfsProofs`): for every tree of files, any number
  of mounts, on each other or side by side, and paths of any length.  `NamesResolve` alone
  says nothing about where the task stands, which the next `chdir` starts from, so
  `VfsInv` adds (`MountsInv`) that the root of each mounted volume covers a vnode of an
  older one, that what is mounted on a vnode is a root which covers it, and that only
  directories are mount points; (`TaskInv`) that root and working directory are
  directories and that the list of directories which led to the latter is one in which
  the `..` of each leads back to the one before; (`DevInv`) the shape of the devfs.  From
  the first part each chain of mounts ends, after no more links than there are super
  blocks, at a directory on which nothing is mounted, and covers lead back along the same
  chain.  Then one step of `getdentry` and one step of the reference keep together, and
  by induction over the names so do `igetdir` and `WayOf`.  A mount changes the end of the
  chains that go through its point and of no others (`OneMoreFollowed`).  `MountsStay`,
  which no run checks and which the theorem shows directly,
  follows since the end of a chain is never a mount point, so that `sys_umount` finds
  nothing, be it called by a program or by `sys_reboot`.

* `ClockIsRight` (`DeviceProofs`): for all dates of the clock, not only the ends of
  months that TLC tries.  The formula for the day of the year grows from month to month
  by the length of the month (`YearDayNext`), so it is the sum of the months before; two
  digits are enough to know the leap years from 1970 to 2069; a register reads back in
  BCD and in binary; and the unsigned difference in `sleep` does not wrap once the
  machine is older than the time to sleep.  The invariant is that a call is one of
  `Calls`, whose assumption is that the clock shows a date.

* `ProgramIsRight` (`VfsProofs`): for arguments, environments and program headers in any
  number; each of the two vectors may be null.  In the stack (`StackHolds`) the place of each string follows from that of the
  next one, so the strings lie side by side below `pos` (`PlacesExist`, `PlacesApart`) and
  the pointers below all of them, `Ptr` cells apart (`SlotsOfVector`); each cell therefore
  belongs to one string or one pointer, a string ends at its own zero
  (`StringReadsBack`), and a vector that was written stays when the next one is written
  below it (`VectorStays`).  In the image
  (`LoadHolds`) the answer of `load_elf` does not depend on the pass (`AnswerAt`), so the
  second pass cannot fail after the first has succeeded; by induction over the program
  headers (`SegmentsIn`) each segment stays mapped and keeps what the file says except
  where a later one is written over it.

* `Ext2IsRight` (`VfsProofs`): for files, holes, offsets, sizes and directories of any
  size.  Every copied block holds the cells of its place (`CopiedCells`), so by induction
  over the blocks the text grows cell by cell (`TextGrows`) and only the last copy can be
  empty (`ReadRight`); if no block is missing, all that is there is delivered.  Of a
  directory, which is whole blocks long, that makes all cells but those of the last
  block of two or more (`DirectoryRead`).  Its records come one after the other
  (`EndsGrow`), so those shown, in direct blocks that were copied, are the first ones
  (`DirectoryShown`), and the next one is in a hole (`Zeros`) or was not copied (`Junk`);
  that it begins exactly at the border of a block is what `UntoldShown` needs.  The bytes
  left are the size minus the end of the record: `readdir` meets every record that is
  shown, then the end or junk (`ReaddirRight`).  `lookup` is one record ahead in its
  subtraction, so what it has left is too large by the length of the first record: it
  reaches what is shown and, if that is all and the length found behind the last one is
  smaller than that, also the memory there (`LookupAnswer`).  What a record is taken for
  is `NmatchMeans`.  The places of inodes are the quotient and the remainder of their
  number.

Each theorem of `PROJECT.json` states one property of a run; those about several
(`TasksSafe`, `DevLockSafe`, `FilesSafe`, `TtyScreenSafe`) carry the induction.

Assumptions on constants: a table of at least two slots, disjoint null pointer, a
screen that fits the `char` of the cursors, a ring of at least `Height` lines, an
input ring of at least two entries, parameters that fit an int, finitely many
`FILE`s, mount points that are directories and not themselves roots of mounts, heap
sizes that are multiples of a frame and requests above zero, programs whose pages are
in other tables than the kernel's, a disk with at least one sector, a tree of files in
which directories have one parent and mount targets that are directories, a clock that
shows a date of two-digit years, volumes of ext2 with one group, whose
directories are whole blocks long, without holes in the direct ones, and have records with
a length that stay inside a block, names without `/` and no record that begins with a byte
never written, strings without a zero in them, a stack with
room for arguments and environment below its top (`write_vector` marks a missing one by
address zero), and a zero somewhere from address 0 on, where a missing `argv` is counted.
`Ext2Right` asks nothing of the return code of a read that fails or is of nothing.

Only model-checked:

* liveness: `EveryReadyTaskRuns`, `NishReturns`, `EveryRequestServed`; the prover has no
  rule for fairness;
* the other invariants of `library` (`PrintfRight`, `StringsRight`, `ImageReadsBack`):
  printing, tokens, the command line and the image of the ramdisk are computed by recursion over the input, often with
  RECURSIVE operators like the code's own, and the reference is a recursion of its own;
  that the two agree on every input is an induction over data;
* the violations, `LossOnlyOnOverflow` and `RebootUnmounts`.

## 5. Plan

1. Done: the modules of section 2, their runs, and the theorems above.
2. Open to proof: `NoStuckModifier` with CapsLock, in the weaker form that holds.
3. A heap without the troubles as an abstract allocator that the code implements
   once they are repaired.

## 6. Not modelled

* The entry of interrupts and system calls, `sysenter` stubs and descriptor tables:
  assembly and fixed data.  Of them the models use that a system call runs with
  interrupts off.
* `glob_regs`, through which execve changes the registers of whoever was interrupted
  last: the registers are not part of any model.
* The bytes of escape sequences before they are complete, and parameters that do not
  fit an int.
* Offsets of files, ioctl, readdir by system call; uids and permissions (all is
  root's).
* ATA, serial line, ACPI, random numbers, speaker: ports without a protocol.
* The programs of `usr/`, beyond the two facts named in `PROJECT.json`.
* Calls of the heap and of paging that interrupt each other.  Each is one action, as
  nearly all run with interrupts off.  Behind the `sti` of `sys_fork` they do not: what
  `nish_exec` frees in the parent, and what `execve` allocates, maps and frees in the
  child of a nish command, runs with interrupts on and without a lock, so that the timer
  may strike inside of it and another task call `malloc` meanwhile.  `HeapIntact` and
  `MemoryApart` say nothing of that.
* What junk makes of `readdir` and `lookup` of ext2, holes inside a directory, and reads
  of nothing.
* Two readers of one tty; the echo of `tty_read`, which prints with interrupts on.
* The entry behind the task table that `sched.c:28` reads first.
