# Pico-OS in TLA+

Pico-OS is an operating system for the Raspberry Pi Pico: a preemptive kernel in C++
(`src/Kernel`), its own standard library (`src/Std`), a small C library with a shell and an
editor (`src/Userland`), and host tools that build the flash image (`src/Tools`).  This
directory holds TLA+ models of the kernel, of the containers it is built from and of its userland
programs, the TLC configurations that check them and the proofs that TLAPS checks.  Paths below are relative to `src/`.

## 1. The system

One core is used.  A thread runs until an exception is taken.  `SysTick` and
`Scheduler::trigger()` make PendSV pending, whose handler switches threads; `svc` enters
`syscall()`.  All handlers have the same priority, so they do not interrupt each other, and a
thread that masks interrupts (`MaskedInterruptGuard`) is not interrupted either.

| component | state | operations | talks to | hard because |
|---|---|---|---|---|
| Scheduler (`Kernel/Threads/Scheduler.*`, `Kernel/cpu.S`) | active thread, queue of runnable threads, queue of dangling threads, `m_enabled`, default and fallback thread | `scheduler_next`, `isr_systick`, `schedule`, `trigger`, `add_thread`, `loop` | every thread | preemption at any instruction; a handler may not destroy a thread; reference counts decide what a masked thread is |
| Thread (`Kernel/Threads/Thread.*`) | mask, stashed context, reference count, process | `setup_context`, `stash_context`, `unstash_context`, `set_masked_from_scheduler`, `wakeup`, `die`, the system calls | Scheduler, Process | life time, wakeup against block |
| KernelMutex (`Kernel/KernelMutex.hpp`) | holder, queue of waiting threads | `lock`, `unlock` | Scheduler | lost wakeup; hand-over |
| SystemHandler (`Kernel/SystemHandler.*`) | queue of callers, its thread, one worker per call | `syscall`, `notify_worker_thread`, `handle_next_waiting_thread` | Scheduler, Thread, user threads | handler and thread share a queue; the caller's saved context is changed by another thread |
| Process (`Kernel/Process.*`, `posix_spawn`, `wait`, `exit`) | parent, queue of terminated children, handles, working directory | create, wait, exit | SystemHandler, Scheduler, Loader | no synchronisation between the workers of two processes |
| CircularQueue (`Std/CircularQueue.hpp`) | offset, size, slots | enqueue and dequeue at the ends, clear, move | all of the above | indices that wrap around |
| Page allocator, heap (`Kernel/PageAllocator.*`, `Kernel/GlobalMemoryAllocator.*`, `Std/MemoryAllocator.*`) | free lists | allocate, deallocate, reallocate | KernelMutex | exhaustion, merging, a mutex that is not recursive |
| RefPtr, RefCounted (`Std/RefPtr.hpp`) | a count | ref, unref | Thread | the count is not atomic |
| File systems and their system calls (`Kernel/FileSystem/*`, `Thread.cpp`) | directories, files, handles, working directories | lookup, open, read, write, truncate, `fstat`, `chdir` | Process, Console, HashMap | shared by all processes without a lock, and preemptible everywhere; iterators, addresses and offsets that outlive changes |
| Console and UART (`Kernel/ConsoleDevice.*`, `Kernel/Interrupt/UART.*`) | DMA ring, consume offset | read, write | hardware | a ring filled by hardware, polling loops |
| SortedSet, HashTable, HashMap (`Std`) | a tree with parent links | insert, search, remove, iterate | file systems, Process | links to nodes that are gone; colliding hashes |
| Vector (`Std/Vector.hpp`) | inline storage or a block, size, capacity | append, extend, copy, move | everywhere | growth, the lives of the elements |
| RefPtr, OwnPtr, Optional (`Std`) | a pointer, a count in the object | copy, move, assign, destroy | everywhere | the order of the steps of an assignment; destructors that run in between |
| Path, Lexer (`Std`) | components | parse, `parent`, `filename`, `string` | file systems | slashes in odd places |
| Loader, MPU, StackWrapper | addresses, regions | load, hand over | Process | address arithmetic |
| LibC (`Userland/LibC`) | buffers | `memmove`, `strtok_r`, `readline`, system calls | Shell, Editor | bytes in memory that is accessed in words |
| Shell, Editor (`Userland`) | a line; a text buffer | commands | system calls | ends of commands after errors; offsets that outlive changes |
| Host tools, tests, build | | | | not part of the running system |

What makes each component correct:

* **Scheduler**: no thread is lost, in two places, or run with a context that was not saved;
  only threads that died are destroyed, and they never run again; no `VERIFY` fails.
* **KernelMutex**: mutual exclusion, first come first served, no lost wakeup.
* **SystemHandler**: every call is executed exactly once, returns to its caller with its own
  answer, and `exit` never returns; workers are cleaned up.
* **Process**: `wait` returns each terminated child once; nothing is lost between `exit` and
  `wait`.
* **CircularQueue**: a bounded deque.
* **Allocators**: live blocks are disjoint, freeing everything restores the heap, exhaustion is
  reported.
* **File systems**: a handle reads what was written, the size of a file follows its data, a directory is
  listed completely, and a path that led to a directory leads to it, whatever other processes do.
* **Console**: every byte is delivered once and in order while the ring is not overrun; calls end.
* **Containers and pointers**: they are the sets, functions, sequences and handles that their users
  take them for, and what they allocate is owned exactly once.
* **Programs**: what is typed is what is executed, with all of its words; the text is the edited one.

`PROJECT.json` lists the hazards behind these properties, each at its line, with the properties
that cover it, or a note that says why none does.

## 2. The modules

| module | what it is |
|---|---|
| `Queues` | what a `CircularQueue` of threads is to its users: a sequence, with `Range` and `Once` |
| `Scheduler` | the scheduler and what any kernel may do with it |
| `FairMutex` | abstract: a line of threads, the first of which is inside |
| `KernelMutex` | the mutex on top of an instance of `Scheduler` |
| `SystemCalls` | abstract: request, execute once, answer, return |
| `SystemHandler` | handler, workers, callers, boot thread on top of an instance of `Scheduler` |
| `Kernel` | `SystemHandler` and `KernelMutex` together: calls, workers and the default thread with `malloc_mutex` |
| `Process` | `posix_spawn`, `exit`, `wait` at the granularity of memory accesses |
| `Deque` | abstract: a bounded sequence that stops the machine beyond its bounds |
| `CircularQueue` | the ring |
| `PageAllocator` | the lists of free pages, with an instance of `FairMutex` |
| `Heap` | abstract: disjoint blocks in a range of bytes, refused only for want of room |
| `MemoryAllocator` | the free list of the kernel's heap |
| `OrderedSet` | abstract: a set, and a cursor that walks through it in order |
| `SortedSet` | the binary search tree in explicit memory, and its iterator |
| `Dictionary` | abstract: a function from keys to values |
| `HashMap` | the map, on an instance of `SortedSet` |
| `Handles` | abstract: an object exists as long as a handle reaches it |
| `Ownership` | `RefPtr`, `OwnPtr` and `Optional`, a step for each thing their methods touch |
| `Lists` | abstract: sequences that share nothing |
| `Vector` | storage and blocks, a step for each method that a method calls |
| `Paths` | the constructor of `Path` with the lexer, and what is asked of a path |
| `FileSystem` | the trees of the directories, and the calls that look up, create and list, load by load |
| `MemoryFile` | the content of one file in memory and the handles on it, store by store |
| `Console` | DMA ring, UART and the two polling loops |
| `Memmove` | the byte loop on memory that is accessed in words |
| `Shell`, `Editor` | the two programs |
| `DataLemmas`, `*_proofs` | lemmas and proofs |
| `MC*` with `*.cfg` | the instances that TLC checks |

`MCMemory` (pages, heap, trees and maps, children), `MCStd` (queues, pointers, vectors, paths) and
`MCUserland` (children, shell, `memmove`, editor, the content of a file, directories) each put several small components into one
run.  The components share nothing: the initial state chooses one of them (`considered`, `running`), and
the variables of the others do not change.  So a run shows of each component what a run of its own would;
the theorems `RunIsEach` and `StdRunIsEach`, and those about single components, say so of any instance.

`Scheduler` is the base.  `KernelMutex` and `SystemHandler` instantiate it with
`held <- Referenced`, the set of threads that their own state refers to, use its actions, and
are checked to implement its specification (`ImplementsScheduler`).  So whatever is checked or
proved of `Scheduler!Spec` holds of them.

### Scheduler

`active`, `queued`, `dangling`, `enabled` are the members; `masked` and `stashed` are the sets of
threads with `m_masked_from_scheduler` set and with a valid `m_stashed_context`; `pendsv` is the
pending bit; `reaping` is the local variable of the default thread (`Scheduler.cpp:135`); `dead`
is history, the threads that called `die()`.  The reference count is not a number: `held` is the
set of threads referenced from outside the scheduler, and `LastReference(t)` is the test
`refcount() < 2`.  `panic` says that a `VERIFY` failed ("verify") or that a queue was full
("overflow"); then nothing happens any more, as in `crash()`.

An action is what runs without being interrupted: a handler (`PendSV`, `SysTick`, `SystemCall`),
a region with interrupts masked, or one step of a thread.  `Spawn`, `Construct`, `Block`,
`Wakeup`, `Unmask`, `GiveBack`, `TakeReference`, `DropReference`, `DestroyDead` and `Die` are the
ways in which kernel code uses the scheduler; their guards are what the callers in the source
keep to, and the refinements check that they do.

`OnePlace`, `OnlyDeadThreadsReaped`, `DeadNeverRuns` and `NoVerifyFails` are the properties.

### KernelMutex

`Acquire` and `Release` are the bodies of `lock()` and `unlock()`, which run with interrupts
masked; `pc` says whether a thread is outside, about to return from `lock()`, or inside.  `lock()`
does not look at the mutex again after it was woken up, so `Enter` has no guard on the holder:
`MutualExclusion` depends on nobody else waking the thread.  `ImplementsFairMutex` maps holder
and queue to the line of `FairMutex`.

### SystemHandler

`calls` is `m_waiting_threads`, `taken` the local of `handle_next_waiting_thread()`, `serves` the
caller in the closure of each worker, `r0` the register that carries the number of the call and
then the answer.  The worker's steps are those between which it can be preempted: the call, the
write of `r0` with the decision whether to return, the unmasking, the queueing, and death.  The
closure of a worker that dies is never destructed, because `die()` does not return, so the caller
of `exit` stays referenced for ever (`leaked`).  What a call does is reduced to what matters
here: `posix_spawn` creates a thread, `exit` does not return, everything else is "plain".

### Kernel

`SystemHandler` assumes that memory is always at hand and `KernelMutex` that nobody else wakes a
waiting thread.  `Kernel` puts the two together, as the program does: it instantiates the actions of
`SystemHandler` (`H`), of the scheduler (`S`) and the bodies of `lock()` and `unlock()` (`Mutex`), and
`heap[t]` says where thread `t` is with `malloc_mutex`.  Before its next step a thread that allocates or
releases (`Allocates`) passes through the heap: the thread of the SystemHandler before it creates a
worker, a worker during its call (a plain call may do without), and the default thread, which
`KernelMutex` leaves out, before a thread is destroyed.  One use of the heap stands for those in a row.
The references that the mutex keeps are added to those of `SystemHandler` (`Kept`).

The assumptions turn out not to hold: see `kernel_wakeup` and `kernel_fallback` in section 3.  So the
theorems about `KernelMutex` hold for lockers that only `unlock()` wakes, which all threads but that
of the SystemHandler are, and what `PageAllocator` concludes from `FairMutex` holds under the same
condition.  The properties of `SystemHandler` hold for a heap that is free when it is needed.

### Process

Both ends of `m_terminated_children` are accessed by workers without any lock.  The kernel is
compiled with `-O0` (`CMakeLists.txt:28`), so an action is a load or a store: `++m_size` can be
torn apart.  `reaped` is history.  A process without `m_parent`, or whose parent has not stored
it yet (`Thread.cpp:300`), reports to nobody ("unreported"); its parent's `wait` never returns
because of it.

### CircularQueue

One action per operation, for several queues so that moves can be modelled.  Slots are integers:
the differences of `usize` wrap below zero, but `+ Size` brings them back.

### PageAllocator

`m_blocks[k]` is the list of free blocks of `2^k` bytes, `owned` the ranges in the hands of an
`OwnedPageRange`, `op[t]` the parameters and locals of the call of thread `t`.  The recursion of
`allocate_locked()` is unrolled: `Climb` goes to the next power, `Take` takes a block, `Split`
puts back an upper half on the way down.  Each is a step, so that another thread can run between
them; that it cannot come in is due to the mutex, an instance of `FairMutex`, which
`KernelMutex` is proved to implement.  The initial state is computed by `discover_blocks()`.
During boot the mutex is disabled and one thread runs; that is the case of no contention.

### MemoryAllocator

`m_freelist` is the list of free nodes in the order of their links, `held` the blocks whose
pointers callers have, with the size that their header keeps.  An action is a call, since
`GlobalMemoryAllocator` makes every call with `malloc_mutex` held.  `reallocate()` calls the
virtual `allocate()`, which in `GlobalMemoryAllocator` takes the mutex a second time and would wait
for itself: no code of the kernel calls it, and `Reallocate` is what it does in
`Std::MemoryAllocator`.

### SortedSet and HashMap

`node` is memory: a deleted node keeps its content until its address is allocated again, so that a
link to it shows.  An operation is one action; `operator++` takes a step for each parent it climbs
to, and insertions come in between, as files are created while a directory is listed.
`ImplementsOrderedSet` maps the nodes to their values and the iterator to the cursor.

The set is not iterated after a removal.  When `remove()` replaces the root, it does not reset
`m_parent` of the node that takes its place (`SortedSet.hpp:319-347`), and a walk then climbs to the
deleted node.  No code of the kernel walks through a set from which it removed something.
`NothingLeaks` and `ParentLinks` say what is true after removals all the same: what is allocated is what
can be reached, and parents are right but for that of the root.

`HashMap` orders nodes by hash and key and looks a key up with a node that has no value.  In the run
`memory`, which puts the trees beside the heap from which their nodes come, different keys have the same
hash.  It considers a map that is changed and asked (`Mapping`), or a tree that only grows while it is
walked through (`Walking`), as the directories of the kernel are.

### Ownership

One module is both `RefPtr` (`Counted`) and `OwnPtr`.  A method is a list of steps in `todo`: read
the source, drop the old object, store, reset.  The last reference continues with the destructor
of the object, which owns a pointer itself.  `before` remembers the abstract state at the
beginning of the call.  Not covered, because no caller does it: assigning a pointer to itself or from
inside an object that only the destination keeps, and cycles.  The count is not atomic; a thread
is never interrupted in a call here, and the kernel's counts are `Scheduler`'s `held`.

### Vector

`memory` has a cell for each place in the inline storage and in the blocks; a cell without a living
element is `Raw`, and touching it in the wrong state shows in `ElementsAreOwned`.  `extend()`
reserves and then appends, a move takes the block or moves element by element, as in the code.
Preconditions of the callers: no vector is assigned to itself, and the value that is appended is not
in the vector (`ensure_capacity()` would free it before it is copied).

### Paths

The constructor is followed character by character with the lexer; a component is a text without
slash.  Then the program may ask for `parent()`, append a path, or write the path and read it
again, which is what a process does with its working directory.

### FileSystem

The calls run in workers with interrupts enabled and take no lock (`Thread.cpp:158-211`, `341-362`), so a step is one
load or store of a directory's tree that another worker can see or disturb: one node of a search
(`Search`), the value of the entry that was found (`Value`), the store that links a new node (`Link`), the one
that sets its `m_parent` (`Complete`), and each move of an iterator (`Down`, `Climb`, `Top`).  A step ends
with a store that others can see, and stores happen in the order in which they are written: the kernel is compiled
with `-O0`.  `call[p]` holds the locals of the call that the worker of `p` is in, its path as far as it was
followed (`i`, `file`) and its place in a tree (`node`, `above`).  Which call it is and the flags matter only once the path is looked up,
so they are chosen there (`OpenExisting`, `OpenMissing`, `Chdir`).  An entry that exists is moved over: first its key is moved
away (`MoveKey`; from then until the new key is there a comparison with it can have any result, `Damaged`), then
its value is cleared and set (`MoveValue`).

Names are compared by `Rank`, the order of their hashes; two names with one hash are compared by their characters,
which `HashMap` models, and are not considered here.  `/` has `dev` and `bin`, `/dev` has `tty`, `/bin` has `sh`, which
stands for the programs; `/example.txt` (`main.cpp:63-69`) is a file like those that are created later.
Of each process the handle on a directory that it opened last is kept (`lister`), with history: what it listed, and what was
there when it was opened (`owed`).

The machine stops (`panic`) as in the code: at the assertion on the size of the buffer when a directory is read
with another size than that of an entry, as `cat /` does (`MemoryFileSystem.hpp:117`, `FlashFileSystem.hpp:95`; `CallStops`); when
the name does not fit into `d_name` (`126`) or the entry is being replaced and has no value (`125`; both `Entry`); when a directory is
written to; when the console or a file in flash is opened with `O_TRUNC` (`OpenStops`); when a file is created below
a file (`CreateStops`); and when two insertions took the same place (`Slot`).  `chdir()` keeps the path as it was given.

**What goes wrong in the code.**  `insert_impl()` links the node before it sets `m_parent` (`SortedSet.hpp:274-275`, `283-284`).
One worker that lists a directory while another creates a file in it can reach the new node in between; `operator++`
then finds no parent to climb to, takes the node for the root and ends, and the names behind it are not listed.  Two workers that
create at a time can link their nodes at the same place, and one of them is lost.  A worker that looks a name up while it is
replaced may not find it.  `ListsDirectory` therefore speaks of the listings that met no such node (`sure`) in
directories where no two insertions overlapped (`torn`); within these, insertions before, at and behind the iterator come at every
step of it.  `WorkingDirectoryIsThere` needs no exception: the mounted names are never replaced and their
nodes never move, whatever is hung below them.

Left out: the number of the handle and the table of the handles, the error that is returned, `m_next_ino++`, which two workers can
tear as they can the counts of `RefPtr`, `close()`, which does nothing, the working directory that
`posix_spawn()` copies (`Thread.cpp:301`; a directory that one process has is there for another one as well), and `getcwd()`, which formats.

### MemoryFile

One file and a handle on it in each of several processes.  `content[b]` are the bytes of block `b`, none when it is
not allocated; block 0 stands for the storage inside of the `Vector`, which has no places (`InlineSize` is 0), and a
block is not allocated twice, so that a pointer to a released one shows.  `write()` makes room for all bytes and then appends one after
the other, each with its own look at the capacity; growing is `Move` (the copy), `Release` and `Install`; a byte
is stored (`Place`, `Store`) and counted (`Count`), and only at the end `m_size` of the file follows (`Add`).  `read()` loads
the address, then the size, and copies (`Read`, `Slice`, `Copy`).  `truncate()` is `Clear` and `Reset`.  `log` is
history, what was written since the last truncation; a handle that has only read is `plain`.

**What goes wrong in the code.**  Two calls that change the file at a time lose bytes, write over the bytes of others or
behind their block, or release a block twice (`torn`, and `panic` where memory that is not the file's is overwritten): the
properties speak of histories in which changes did not overlap, and the model lets the calls of that time end and begins no others.  A
`read()` that has loaded the address before a write moves the bytes copies from a released block
(`MemoryFileSystem.hpp:73`); its handle is no longer `plain`.  After a truncation the handles that had read lie behind the end, and their next `read()` fails the `VERIFY` of `slice()`.
Before `m_size` follows, `fstat()` tells of fewer bytes than can be read, and between `Clear` and `Reset` of more: this is
what the two parts of `FstatTellsTheSize` leave.

### Console

`Receive` and `Transmit` are hardware and run beside everything, also beside the loops of
`UART::read()` and `write()`, which mask interrupts (`guard`); the loops of `ConsoleFileHandle`
poll.  The bytes that arrive are numbered, so `delivered` must be
`1, 2, 3...`; `wire` is history, the numbers of the bytes that each process gave to the UART
(at most `MaxWritten`).  A read into no bytes gets none and asks again for ever (`ConsoleDevice.cpp:15-20`): the model
begins such reads, and `ReadsReturn` speaks of the others, which they do not keep from their bytes.

### Memmove, Shell and Editor

`Memmove`: a byte is read and written by way of its word.  Every byte is named by its first address.

`Shell`: one action for each key, for each word, and for each call to the kernel, whose
answer is nondeterministic.  The words for a program are counted on the copy that `strdup()` made (`Count`), `argv` is allocated
for as many (`Allocate`), and then as many are taken from the line (`Collect`), each walk with an offset of its own.  The names of the built-in commands count as one character.
The heap of the LibC ends where it starts (`Userland/LibC/malloc.c:11`), so the assertion in
`malloc()` (`39`) fails from the second call on, the shell would not come past its second
prompt and the editor would stop at its first; the model takes this one assertion, which only hits a breakpoint, not to stop the program.

`Editor`: the buffer with everything that is left over behind the text.  An access beyond the buffer
ends in "undefined", a failed assertion in "aborted".  The model keeps the defects that the code
has, and the properties hold for what is left: `memmove()` is asked for `used` bytes wherever it
begins (`Editor.c:23`); a deletion moves as many bytes as it deletes instead of those behind
(`90`); "a" with a range uses an offset from before the deletion (`194-198`); lines that are loaded
are not counted (`127`); "w" does not close its handle (`165`).  The history variable `exact` is TRUE while
none of those that disturb the count has had an effect.

## 3. What TLC checks

| run | instance | shows |
|---|---|---|
| `scheduler` | 7 threads, queues of 4 | `NoVerifyFails`; `OnePlace`; only the dead are destroyed (`OnlyDeadThreadsReaped`) and none runs again (`DeadNeverRuns`) |
| `mutex` | 4 lockers, queues of 2 | `MutualExclusion`; refinement of `FairMutex` and `Scheduler`; every `lock()` returns |
| `system_calls` | 2 processes, 2 workers | one servant per caller; refinement of `SystemCalls` and `Scheduler`; every call but `exit` returns |
| `memory` | 2 threads and 5 pages of 2 bytes; a heap of 76 bytes; 4 keys at 3 addresses; 3 processes, one child at a time | no page and no node of a tree lost or doubled (`NothingIsLost`), the machine stops only for want of memory, every call ends; free blocks are merged, refinement of `Heap`, `OrderedSet` and `Dictionary`; `wait` returns |
| `std` | 2 queues of 3 slots; 3 objects and 4 variables; 2 vectors and 3 blocks; texts of 5 characters | everything is owned once, or counted exactly (`EverythingIsOwned`); refinement of `Deque`, `Handles`, `Lists`; paths say the same |
| `console` | 2 processes, a ring of 4 bytes, a FIFO of 1, calls with no byte included | bytes arrive once and in order, both ways; calls return, but for reads into no bytes |
| `userland` | lines of 7 keys, memory of 3 words, an editor's buffer of 5 or 6 characters; a file of at most 3 bytes in 3 blocks and 2 processes; directories with 2 new files, 2 processes and 3 look-ups; 3 processes, one child at a time | the queue holds the terminated children, `wait` is exact; screen, line and keys agree; the child gets the words; `memmove` moves exactly; lines are inserted and counted; reads see the beginning of the file (`ReadsBeginning`), and its size follows (`FstatTellsTheSize`); directories are listed completely (`ListsDirectory`); working directories stay (`WorkingDirectoryIsThere`) |
| `cleanup_starves` | 1 process, 2 workers | **violated**: see below |
| `exit_assert` | 3 processes, one child at a time | **violated**: see below |
| `kernel_wakeup` | 2 processes, 2 workers, calls of each kind | **violated**: see below |
| `kernel_fallback` | 2 processes, 2 workers, no `exit` | **violated**: see below |
| `console_wrap` | as `console`, one byte more | **violated**: see below |

The type invariants of the modules with proofs are proved instead of run.

**Bounds.**  The queues of the kernel hold 16 entries; the models use 2 to 4, so that "full"
happens: in `mutex` four lockers can overflow queues of two, and the machine then stops as in the
code (`overflow`).  Three extra threads in `scheduler` let one be dangling while another is being destroyed
and a third is active.  Four lockers let two wait while one is inside and one arrives.  Two workers for
two processes let both callers be served at once, or a dead worker be dangling while the other
serves.  `EnoughThreads` bounds the processes: `posix_spawn` is called only while an unused thread is
left.  `MaxLive = 1` in `memory`, `userland` and `exit_assert` is the way the shell works (`Userland/Shell.c:208-236`): it waits for each
child before it starts the next.  With two children exiting at once the unsynchronised queue loses
entries, as `FIXME: Syncronization` (`Thread.cpp:314`) admits; that is not counted as a finding.

In `memory`, the heap of pages begins between two pages and ends within one, is
divided into two blocks of different powers, and, as on the chip, is smaller than a block of
`max_power`; two threads exhaust it in many ways.  In the other heap up to eight blocks are held at once,
so that a released one lies between any combination of free and held neighbours, and one request is
not a multiple of a word.  Three nodes give every shape of tree in which a node with two children is
removed, at the root and below it, and a fourth key is refused; two of the keys have the same hash.

In `std`, three slots let a queue be empty, partly filled, full and wrapped around, and moved
into a ring at any offset; three objects are enough for a chain that a destructor takes apart while an assignment
is under way; one inline element and up to four let a vector leave its storage and grow twice; five
characters hold two components with slashes before, between and behind them, doubled ones included.

In `userland`, seven keys fill the line's buffer of seven, so that the shell reaches the abort of a full buffer (`aborted`) as well as
the assertion at the newline, which needs a place as well; three words of memory let source and
destination overlap in either direction at every alignment; a file of one character and five more
places let the editor's buffer fill up, and a `size_t` of eight values counts all of it, as one of 32 bits does.
Three blocks let the file grow twice while another process reads, and two bytes per call let it grow within `extend()`'s
loop when two writes overlap.  Three look-ups, each of which may create, open or change directory, let a second creation or a replacement happen while
the third is on its way or a directory is listed; there is no bound on the reads.  The paths go through files, through missing
directories and upwards; the new names sort before `..` and behind `dev`, and one does not fit into an entry.  The two processes of each of these
are alike and so are the two new files, so TLC considers one state of each orbit (`Symmetry`); the properties do not tell them apart.
In `console`, three bytes are received into a ring of four, the last
state before the wrap; `console_wrap` receives the fourth.

`CHECK_DEADLOCK FALSE` is set in `memory`, `std`, `userland` and `console_wrap`, where a failed assertion
(in `std`, that of a full or empty queue) or an exhausted bound is a final state, and in `exit_assert`, where, as in `memory`, every process may
have exited.
In the other runs a stopped machine stutters (`Crashed`), so a deadlock would be a real one.

**Fairness.**  In `mutex` and `system_calls`, weak fairness on the scheduler's step: a pending
exception is taken, and threads that only trigger do trigger.  Strong fairness on the steps of each other
thread: a thread is enabled only while it is active, and time slices, about a million cycles
(`Scheduler.cpp:36-39`), are far longer than one of its steps, so that a thread scheduled again and
again progresses.  That it *is* scheduled again and again is not assumed but follows from the
queue.  No fairness makes a thread lock, die, call or exit.  In `memory` weak fairness on each thread
inside a call stands for the scheduler's round-robin and for the wakeup by the mutex.  There,
too, the workers of different processes are assumed to progress (weak fairness), which the
scheduler's round-robin gives.  `kernel_fallback` has the fairness of `system_calls`, for the steps inside
of the heap as well; the fallback thread triggers.  In `console`, the UART sends what it has (weak fairness), a process
that has masked interrupts goes on (weak), and one that polls gets in again and again, since the guard
is free again and again (strong); nothing makes anybody type.

**What the violated runs show.**

* `cleanup_starves`: the default thread is not queued when it is preempted, and is preferred only
  while a thread is dangling.  Preempted after it took the last dangling thread, it waits until
  nothing else is runnable or until something else dies.  A process that computes, or polls the console,
  keeps the worker's stack and whatever its destruction would release.
  `Docs/Debug/Resolved/0018_deadlock.md` suspects this.
* `exit_assert`: the parent that polls in `wait` takes the entry out of the queue between the child's
  `++m_size` and the child's assertion that the queue is not empty; the kernel stops.
* `console_wrap`: the write address of the DMA channel wraps around with the ring, which the comparison of
  the offsets (`UART.cpp:103`) does not expect.  With the last byte of the ring the next `read()`
  stops the machine, unless the consume offset is 0 as well, as it is while nothing was read yet or once all was.  `Docs/Debug/0021` reports that typing quickly hangs.
* `kernel_wakeup`: the default thread is preempted inside the heap and the SystemHandler's thread waits for
  `malloc_mutex`.  The next system call wakes that thread (`SystemHandler.cpp:24`), `lock()` does not look
  again, and two threads are inside.  Its `unlock()` finds itself first in the queue and wakes itself, against
  the `VERIFY` in `Thread::wakeup()`.
* `kernel_fallback`: the SystemHandler's thread is preempted inside the heap, the default thread waits for
  `malloc_mutex` to destroy a thread, and another one dies.  While a thread is dangling `schedule()`
  chooses between the default and the fallback thread only (`Scheduler.cpp:77`), so the queued thread
  that holds the mutex never runs, and the machine loops in the fallback thread, the symptom
  that `Docs/Debug/Resolved/0013_deadlock.md` describes.

**What was seen besides**, without a run of its own, because the code makes no promise about it or
because the model stops there: the walk after the replacement of a root, what overlapping calls do to
directories and files, the `panic`s of `FileSystem` and `MemoryFile`, the empty read of the console, the assertion in `malloc()`, the defects of the editor
and the mutex that `reallocate()` would take twice, all described in section 2; and

* a child that exits before its parent has stored `m_parent` (`Thread.cpp:300`) reports to nobody, and
  the parent waits for ever.  `WaitReturns` speaks of the children that do report;
* in `Kernel`, a default thread that is preempted inside the heap is not queued, and the SystemHandler's
  thread waits for it: while one process computes, the calls of the others do not return.  It is
  `cleanup_starves` again, and `EveryCallReturns` holds only with a heap that is free.

## 4. What is proved

Every theorem holds for all values of the constants that the named assumptions allow: any sets of
threads, processes and values, any capacities and sizes.  The argument is the same each time: the
properties alone are not inductive, the conjuncts that are missing are written down at the end of the
component's module (`Inv`) or beside its proof (`OwnInv`, `PathInv`; TLC has checked them first), and the proof has one step per
action and, below it, one per conjunct that the action can disturb.

`Scheduler_proofs`: `Invariance`, hence `TypeCorrect`, `VerificationsHold`, `ThreadsInOnePlace`,
`OnlyTheDeadAreDestroyed`, `DeathIsFinal`, and `OnlyTheDeadVanish`: no runnable thread drops out of the
scheduler.  `Inv` adds that the three threads of
`loop()` stay referenced and alive and the fallback thread is never masked (`PermanentInv`), that
exactly the threads that exist and are not active have a saved context (`StashInv`), that a masked
ordinary thread is not queued and runs only until the switch it asked for (`MaskedInv`), and that a
masked thread is dead or referenced (`Scheduler.tla` gives the rest).

`KernelMutex_proofs`: `Invariance`, where the scheduler's
invariant is obtained from the refinement; `Exclusion`, `WaitersStayBlocked`, `RefinesScheduler`
and `RefinesFairMutex`.  The strengthening is that the line of holder and queue has no duplicates
(`LineInv`), and that a thread is in it exactly from `lock()` to `unlock()` and first when inside
(`LockerInv`).

`SystemHandler_proofs`: `Invariance`, `TypeCorrect`, `CallersAreServed`, and the two refinements:
handler, workers and callers use the scheduler only as it allows (`RefinesScheduler`, so that the
theorems above hold of them), and no call is lost, executed twice or answered too early
(`RefinesSystemCalls`).  `Inv` contains the scheduler's invariant and adds that
nothing runs before the handler's thread exists (`StartupInv`), that a worker refers to its caller from its
creation until it gave it back (`WorkerInv`), that a caller is in one place (`PlaceInv`), blocked
while it is there (`BlockedInv`), and that its register says "answer" exactly from the worker's write on
(`AnswerInv`).

`Userland_proofs`, first of the processes, under the assumption `OneChild` (a process starts a child when the one before it was
reaped, as the shell does): `QueueIsRight`, `WaitsAreExact`, and `OnlyExitAsserts`, which says that the
finding of `exit_assert` is the only assertion that can fail.  Each load and store of the two
unsynchronised sides is a step; `AddInv` and `TakeInv` say what the other side has left at each, and
`HoldInv` what the queue holds when nobody is adding.

Of the shell: `ShellInvariance`, hence `LineIsShown` and `ChildGetsItsWords`.  The words of a
line are those that begin behind a space or at its beginning (`AreWords`); `WordInv` says that the ones that were
taken are the first of them and that `strtok_r()` stands where the next may begin, which is why no call of it
can cut a word in two.  `CountInv` carries the count over: the offset in the copy is the one in the line that is as far behind `saveptr`,
no word lies across it, and so the program and the words counted are the first words of the line, and as many as
the second walk then takes (`Counting`, `Collecting`).  What the keys leave of a line is a function that recurs over the keys; that it exists and
depends on the earlier keys only is proved by taking the first place where it would not (`LeftOverExists`,
`LeftOverAgrees`).  `RoomInv` is about the buffer.

Of `memmove()`: `MemmoveInvariance` and `EveryByteMoves`.  `LoopInv` says of every byte of memory what it is in
the middle of the loop; the direction of the loop enters at one place, where the byte that is read turns
out not to have been overwritten (`LoopPlace`).  `RunIsEach` connects it, like the others, with the run `userland`.

Of a file in memory: `FileInvariance`, hence `ReadsFromTheBeginning` and `FstatNeverTooMuch`, for any processes, blocks
and sizes.  While changes do not overlap (`torn`), one call at most is changing the file (`AloneInv`); `GrowInv` says for each of
its steps what the new block holds and that nobody else has it, `SizeInv` how far `m_size` is behind, `DataInv` that the Vector's block holds
what was written until the new one does, and `LoadInv` that what a read has loaded is that block or a released one.  The
parts of a read fit together because the offset is the number of bytes read (`ReadInv`, `PartsJoin`).

Of the directories: `DirectoryInvariance` and `DirectoryStays`, under
`FileSystemAssumption` (the names have an order, files that are created are none of the mounted ones), through every step of every
insertion, overlapping ones included.  `MountInv` says that the mounted nodes keep their values and the links between
them, so a search for a mounted name passes only such nodes (`Ahead`), whatever hangs below; `HomeInv` that links do not leave a
directory.  A path that is being followed leads through mounted directories for `k` components, the working
directory's among them, and from there to no directory (`PathInv`); what is created is not there and replaces nothing mounted
(`InsertInv`), because the name was missing when `open()` looked and nobody can have mounted anything since.

Of the editor: `EditorInvariance`, `TypedLinesAreInserted` and `LinesAreCounted`.  `InsertInv` says of every
character of the text where it comes from; that `memmove()` takes what is behind the offset out of the way before the
piece is copied there is `InsertedIs`.  `CountInv` needs the number of newlines of a text that is put together from
parts of others (`NewlinesSame`, `NewlinesMove`), and `LineOffsetIs` says where `buffer_get_line_offset()` stops: behind as
many newlines as there are lines before the one it looks for, and nowhere only if the text has fewer.  The
assumption that a `size_t` counts what a buffer holds keeps `nlines` from wrapping around.

`Std_proofs`, the ring: `TypeCorrect`, and every step is a
step of `Deque` (`RefinesDeque`).  The arithmetic rests on a few lemmas that eliminate `%` from the
slots (`Wrap`, `SlotAt`, `NextOffset`, `PreviousSlot`); on them rests one lemma per operation about
the content.

Vectors: `VectorInvariance` and `VectorsAreLists`.  `StorageInv` says that exactly the first `m_size` cells of
the storage of a vector hold elements and that every block in use is the storage of one vector;
each method that touches storage has a lemma (`EnsureKeeps`, `ConstructKeeps`, `ClearKeeps`, `FreeKeeps`,
`TakeOverKeeps`), and that the rounded capacity is enough rests on powers of two (`RoundIs`).  A method is
a list of calls, so `WorkInv` says which lists can be left over and what each vector holds by then:
during `extend()` it holds what it held, followed by as many elements of the other one as were appended
(`Extending`).  The list of calls becomes empty only when the vectors hold what the method promises (`Outcome`),
which is the step of `Lists`; every step before is a stutter.

Pointers: `PointersAreHandles`, for any objects, variables and Optionals, `RefPtr` and `OwnPtr` alike.  Between
methods the count of an object is the number of the pointers to it, and every object that exists is reached
(`Idle`).  In the middle of a method that is not so, and the invariant (`OwnInv`) says for each place where a
method can stand what is missing: cells that are being cleared, with the chain of destructors that this set off
(`Clearing`), an `Optional` that was marked and not yet emptied, or the other way round (`Invalidating`, `Validating`), a
destination that is about to be filled (`Filling`) or whose object was not counted yet (`Counting`), a value that is on its way
through the temporary of `must()` (`Musting`).  In each case the assignment that the method will have been is fixed
(`Goal`), and with it the objects that remain, the ones that are still reached; the last step is the step of `Handles`,
the others are stutters.  What is reached is a least fixed point; `IterationExists` and
`IterationSettles` (`DataLemmas`) say that repeating a step often enough gets there.  An `OwnPtr` is a `RefPtr` that
nobody copies, so that no count exceeds one (`Single`, `OwningIsSharing`).  `EverythingHasAnOwner` joins this with
`VectorInvariance` to the invariant of the run.

Paths: `PathsSayWhatTheyRead`, for any letters and texts of any length.  `PathInv` compares what the lexer has
consumed with the components written one after the other, each behind a slash: at the head of the loop one slash
more, unless the text is at its end (`BetweenInv`); within a component, as much of it as was consumed
(`WithinInv`); behind it, exactly those (`BehindInv`).  A component that ends with the text is not empty, because the loop
began before the end of it, which is why a text that ends in a slash has lost nothing but that slash.
`string()` and the comparison are concatenations of any number of parts, again recursive functions, of which
`FlattenAppend` says what one more part changes; what holds of all paths is proved at a shortest one for which it would
not (`AllRead`, `BeginsWithFirst`).

`Memory_proofs`, first part: `Invariance`, `TypeCorrect`, `NoPageIsLost` and `OnlyExhaustion` of the page
allocator.  The blocks that calls are at work on count as a third place beside the lists and the owned
ranges (`PlaceInv`, `RangeInv`); that no list below the level of the search has a block (`LevelInv`) is kept
by the mutex (`MutexInv`).  That `discover_blocks()` finds every page is proved by taking the least power at
which the recursion would go wrong, and the facts about powers of two by counting subsets.  The hypothesis
`Constants` collects the module's assumptions; on the chip the heap is smaller than two blocks of `max_power`.

Second part: `HeapInvariance`, `StaysCoalesced` and `RefinesHeap` of the heap.  The invariant says that
every address is in exactly one block, free or held: the blocks are apart (`ListInv`, `HeldInv`) and cover
the heap (`CoverInv`).  Since free blocks never touch, a gap that is not held is one free block, and so the
search of `allocate()` fails only where there is no room.  `RunIsEach` connects both parts and the processes with
what the run `memory` checks.

Third part: `TreesAreSetsAndMaps` and `MapsAreDictionaries`, for any keys, hashes, data and addresses
(`TreeAssumption` collects the assumptions of `HashMap` and `SortedSet`), and `EverythingIsFound`, which
joins `NothingLeaks`, `ParentLinks` and the order of the tree with `NoPageIsLost` to the invariant of the run.
The invariant (`TreesInv`) is that of `SortedSet`, of which `Acyclic` is the part that is easily
forgotten: what lies below a node is a recursive function only if no links go round in a circle, in the memory
of deleted nodes either.  `SolutionExists` and `SolutionsAgree` (`DataLemmas`) then give one and only one solution of such a
recursion; search, leftmost node and what lies below are instances of it.  Each change of links has a lemma about what
lies below each node afterwards (`LinkedUnder`, `WithoutUnder`), and what the tree holds gains or loses the value that
compares alike (`Gains`, `Loses`).  The walk is in step with the cursor because the next node of the iterator is the
least of the later members (`LeastOf`), also after an insertion in between; while it climbs, what it leaves
behind is not greater than the last member.  That nothing is walked through after a removal is the hypothesis under which
this holds, and part of the run's specification.  For the map, at most one entry has a given key (`OneEach`),
since keys that collide compare by key.

`Console_proofs`: `TypeCorrect`; `InputInOrder`, that bytes are delivered in order and once as long as the
ring is not overrun (`NotOverrun`, a hypothesis about the behaviour, since nothing in the code prevents it);
`FirstLapInOrder` and `FirstLapGoesOn`, that it needs no hypothesis before the ring is full for the
first time, and that no read stops the machine before that, so that the finding of `console_wrap` starts
exactly there; `OutputInOrder`.  `RingInv` says where a byte that was typed and not read lies, `CallInv` that a
write never passes the end of its bytes.

Only model-checked: liveness (`EveryLockReturns`, `EveryCallReturns`, `EveryCallEnds`, `WaitReturns`, `ReadsReturn`,
`WritesReturn`), which is out of the prover's reach, as fairness is.  Of the safety properties that passing runs
check, all but `ListsDirectory` are stated by theorems.

## 5. What is not modelled, and what could follow

1. `page_allocator_mutex` and `dbgln_mutex` in `Kernel`; that repaired versions of `lock()` and
   `schedule()` would make its two properties true.
2. Liveness: a termination argument for the loops of the allocators and the console, should a prover for
   temporal logic with fairness become usable here.
3. A proof of `ListsDirectory`: an invariant that says where an iterator is among the nodes of a tree that grows, with the
   nodes that have no `m_parent` yet.
4. Two children at a time in `Process`, and the working directory that `posix_spawn()` copies.

Left out for good: the loader, the MPU and the layout of stacks (address arithmetic of one thread); the
ABI glue and the locks that nothing uses; formatting, `String`, `Span` and the other value types, which
are sequential and tested under `Tests`; process ids, by which nothing looks a process up; `malloc()` of the userland,
which only ever advances; `Example`, host tools and tests.  `PROJECT.json` gives the reason for each.
The second core is not used by this commit.
