# A verification project for mikelibc

mikelibc is a small C library: a thread-safe queue and linked-list macros
(`madt`), loggers (`mlog`), process and conversion helpers (`mutil`), sockets
(`mnet`), string splitting (`mstr`), base64 (`mbase64`), debug output (`mdebug`)
and a handful of command-line tools built on it. These TLA+ modules model the
parts that keep state or run concurrently, TLC checks them on small instances,
and TLAPS proves the central properties for every value of the constants.

## Inventory

| Component | State | Operations | What is hard about it |
|---|---|---|---|
| Queue, `madt.c:34-194` | array, `front`, `rear`, `gc_run`, `alloc_size`, `max_size`; a mutex and two condition variables | init, enqueue, dequeue, size, vacuum, destroy | unsigned wrap-around of `rear`, growth and compaction behind the clients' backs, lost and spurious wakeups, a public vacuum without a lock |
| Linked-list macros, `madt.h:16-100` | the caller's `start`, `current`, `previous`, `freenode` | add, find, remove, length | removal edits the chain it walks and relies on pointers it does not set |
| Binary tree, `madt.c:8-32` | none of its own | new, free, traversal | traversal order |
| Loggers, `mlog.c` | the list `mloggers`, `next_handle`, `nloggers`, `g_handle`, `logging_mutex`, the fields of each logger | get, shutdown, shutdown all, four setters, `mlogf` | `mlogf` holds the mutex, the setters do not; `free` after the unlock; a default handle that can go stale |
| `popenRWE`, `mutil.c:57-132` | descriptor tables of parent and children | pipe, fork, redirect, exec | failure after some of the pipes exist, inheritance of pipe ends, fork with a held mutex |
| Sockets, `mnet.c` | the descriptor table, the list of addresses | UDP and TCP servers, TCP and Unix clients, lookup, `read_dgram` | many early returns; error values that are also results |
| `msplit`, `mstr.c` | scanner position, word length, growing array | split, free | the last character, which ends a word and begins none; an array that grows when a word begins, by a count of those that have ended |
| base64, `mbase64.c`; OpenSSL variants, `mutil.c:134-178` | none | encode, decode | padding, widths of `unsigned char` |
| `followlink`, `mutil.c:355-385` | the caller's buffer, one array per recursion | follow | cycles, relative links, a copy without a terminator |
| `sfibonacci`, `mutil.c:35-55` | three static variables | next, reset | callers share the state; overflow |
| OpenSSL ciphers and digest, `mutil.c:180-299` | a context, a buffer | encrypt, decrypt, digest | who frees what after which error; the size of the output |
| Tools, `mb64.c`, `bins.c`, `flink.c`, `muri.c`, `sha1.c` | a buffer; a list of directories | their `main` | the read loop of `mb64`; what `bins` makes of the pieces of `PATH` |
| `tohex`, `uriencode`, `uridecode`, `mdebug`, version, `dstnow` | none | conversions, output | |

How they interact: the loggers keep their list with the list macros; `mutil`,
`mnet` and `mstr` log through `mdebugf` to the default logger, and so take
`logging_mutex`, also between `fork` and `execvp`; `bins` splits `PATH` with
`msplit`, and `mb64` encodes with `mbase64`; the tools call the library from one
thread; the queue is used by the clients' threads only.

What makes each part correct is listed, with the lines where it can go wrong,
under "hazards" in `PROJECT.json`.

## Modules

| Module | Models |
|---|---|
| `MQueueOps` | the array behind `mqueue_t` as operators on a record, in `uint64_t` arithmetic (modulo `Word`) |
| `MQueue` (extends it), `MCQueue` | the threaded queue: threads, mutex, condition variables |
| `FifoQueue` | what the threaded queue promises: an atomic FIFO queue |
| `MQueueSeq`, `SeqFifo` | the build without `MIKELIBC_THREADS`, and what it promises |
| `MQueueVacuum` (extends `MQueue`), `MCVacuum` | a client thread that calls `mqueue_vacuum` |
| `MLinkedList` | the list macros |
| `MLog`, `MCLog` | the loggers; two kinds of behaviour of them, for one run |
| `MPopen` | `popenRWE` |
| `MNet`, `MCNet` | the sockets |
| `MSplit`, `MBins` (extends it) | `msplit` and `free_msplit`; the tool `bins` |
| `MBase64`, `MMb64` (extends it) | encoder and decoder; the tool `mb64` |
| `MFollowLink`, `MCFollowLink` | `followlink`; file systems with paths of which one begins another |
| `MCrypto` | `encrypt_ssl`, `decrypt_ssl`, `digest_sha1` |
| `MFibonacci` | `sfibonacci` and `fibonacci` |
| `MCUtilities` | the single-threaded modules above, `MLinkedList` and `MQueueSeq`, for one run |
| `MQueueOpsProofs`, `MQueueProofs`, `MQueueSeqProofs`, `MLogProofs`, `MPopenProofs`, `MNetProofs`, `MStringProofs` (`msplit`, `bins`, `mb64`), `MUtilitiesProofs` (the list, `followlink`, the ciphers, `sfibonacci`) | proofs |

Every definition that models code is listed with its lines in `PROJECT.json`
("map"). Definitions named `X_Something` that a comment calls a mutant are
faulty versions of `X`, used to see that the properties notice.

### The queue

`q` is the `mqueue_t`; `EnqueueItem`, `DequeueItem`, `DequeueRest` and
`mqueue_vacuum` are the statements of the C functions. In `MQueue` a call goes
through `pc[t]`: `lock`, `check` (holding the mutex), `wait` (in `cnd_wait`),
`unlock`. What happens between lock and unlock is one step, because the mutex is
held; `cnd_wait` releases it, may return spuriously, and has to get it back. A
`realloc` may fail at any time, and must fail beyond `MemCells`: `rear` has been
advanced and the array is lost by then (`EnqueueLost`), the assertion ends the
process, and what is claimed of the array is claimed until then. The clients are
those of
`t/test_mqueue.c`: each thread makes a number of calls, all are joined, and the
queue is destroyed.

`MQueue` implements `FifoQueue` with `Contents(q)`, the slots from `front` to
`rear`, as the abstract queue while the process runs; a call takes effect in the step that changes `q`.

`MQueueVacuum` splits `mqueue_vacuum` at its shared accesses. It is kept apart
because the queue is correct without this client and not with it.

### The list

`mlinked_list_remove` is one step per iteration; the other macros are one step
each. `list` records what the client asked for. Freed nodes come back as new
ones. `FreshPointers` and `UniqueHandles` describe the client: `mlog.c` sets
`previous` and `freenode` to NULL before each removal and never has two nodes of
one handle.

### The loggers

A logger is its handle, the list the set of handles in it. Workers run `mlogf`
step by step, each step one read of the logger (the reads of `logtime` that
choose and fill the time buffer are merged); the main thread runs everything
else, as `mlog.h` demands, with the assignments of a setter as separate steps.
`ConfigureQuietly` says that the client uses the setters only while nobody is
in `mlogf`; `NullPaths` that it may ask for a file logger without a path, as
`get_mlogger(MLOG_FILE, ...)` always does by itself. `failed` records the calls of
`setloggertype` that returned 0 and whether they had a path.
Messages are their severity; `out` records what a message was given to.

### popenRWE

Each process has a table from descriptors to ends of pipes, and the kernel hands
out the lowest free one. Calls of `popenRWE` take a system call per step, so
that two threads and the children interleave; the child's closes and dups are
one step, since nobody else sees its table. `concurrent`, chosen at the start,
tells whether the calls may overlap or one thread makes them one after the other.
The kernel, `exe`, and the client that closes element 0 and then reads to the end
are external.

### Sockets

Each function is a sequence of system calls that succeed or fail. Calls overlap
and share the descriptor table. `read_dgram` is left out: it changes neither.

### Strings and `bins`

A string is a sequence of characters. The scanner of `msplit` is one step per
character, because the counters it carries from one to the next (`inword`,
`word_length`, the capacity of the array) are what can go wrong; `Words` defines
splitting without them, as the longest runs of characters that are no separators,
the k-th being the one with k - 1 others before it.
Every write of `msplit` is compared with what was allocated for it, and `outside`
records those that are not inside: the terminators of the words and of the caller's
separators always are, and the one of the array if the words fill it (`WithoutRoom`).
What such a write damages is not modelled; `msplit` goes on as if it had not.
`bins` calls `msplit` and looks into the directory each piece names; a name may
contain a colon, as a file system allows, and the last piece, too. All directories
hold the same entries, executable or not.

### base64 and `mb64`

A character is its index in the alphabet, and 64 is the `=`. Shifts of an
`unsigned char` lose what they shift out. `mb64` reads its input in pieces of any
size, each into the start of the buffer, and encodes as many octets as it has
read in all; where that is not inside the buffer its state is "undefined".

### Links, ciphers, Fibonacci numbers

`MFollowLink` is one step per system call, over every file system of a few
places: a link is absolute or relative, and `strncpy` without a terminator may
hand the recursive call a longer path than was read (`Unterminated`), depending on
what earlier calls left on the stack: one that names nothing ("overlong"), or the
path of another place that begins with the one that was copied (`Extensions`).
`MCrypto` follows the two blocks each function allocates, on every path,
and the length of the output for ciphers of any block size. `MFibonacci` is the
static state with a reset at any call, against the recursive function modulo
`UInt64`. In `MCUtilities` a behaviour is about one of these parts, its `subject`:
they do not interact, apart from `bins` with `msplit` and `mb64` with base64.

## Runs

Passing runs:

| Run | Bounds | Shows |
|---|---|---|
| `queue_bounded` | 2 producers with 3 and 2 calls, 2 consumers with 2 calls, at most 2 items, `GC_COUNT` 2, `Word` 32, 1 spurious wakeup | types, mutual exclusion, consistent array, bounded memory, no lost wakeup, FIFO, all calls return |
| `queue_unlimited` | 1 producer and 1 consumer with 6 calls, an observer, no maximum, heap of 4 slots, `Word` 8 | FIFO, with growth until the heap is exhausted |
| `log` | lifecycle: 2 workers with 2 messages each, 3 loggers that come and go. Configuration: 2 workers, 1 logger, all types with and without a path, 2 callbacks | no use after free, right count, messages go where the configuration says, only a file logger without a path makes an assertion fail, `mlogf` returns |
| `popen` | 2 calls, overlapping or not, 12 descriptors, another thread logging | each child has its own pipes; failures leak nothing; no circle of children waiting, and every client reads to the end, for calls made one after the other |
| `net` | 2 overlapping calls of any functions, 3 free descriptors, hosts of 1 and 2 addresses | returned sockets work, what is reported as an error is one, lists are freed, calls return, at most one socket is lost by a failed call |
| `utilities` | list: 3 nodes, 3 handles. Strings: at most 5 of 3 characters, an array of 1 word at first. Files: 3 places in 2 directories, one name beginning another. `mb64`: buffer of 4 octets, inputs of at most 5. Ciphers: blocks of 1, 2, 4, inputs of at most 9 octets. Fibonacci: `UInt64` 16, 12 calls. Queue without threads: at most 3 items, `GC_COUNT` 3, calls of any number and order | the chain is the list and removal ends; words are found as far as the last character allows, and nothing but terminators is written outside of an allocation; `bins` lists the executables, and no file of a directory that is not in `PATH`, but for the last one misread; `mb64` prints what decodes to its input; `followlink` finds the file and ends if no link's path begins another's; outputs are owned and large enough; the sequence is `fibonacci`; the array of the queue is consistent and bounded, and the queue FIFO |

Why the bounds are enough to be interesting: `GC_COUNT` 2 or 3 and an initial
size of 0 or 2 make the queue grow, vacuum with and without live items, and wrap
`rear` within a few calls (five items are one more than the array could take
without a vacuum); two threads of each kind are what it takes for one to
barge in on another's wakeup. Three nodes give a removal a head, a middle and an
end. Twelve descriptors serve three standard ones, three kept by a first call
and six of a second; two overlapping calls of `popen` can exhaust them.
Three loggers allow a stale default, a middle removal and a new logger after an
old one. Five characters are two words, three separators between or around them,
or a word of five; the array grows twice. Three places make chains of two links,
cycles of one to three, a relative link outside the working directory, and a path
that can be mistaken for a longer one; with two files more a mistaken path leads to
the wrong one. A buffer of four octets takes a whole block and one octet, and five are too many;
nine octets of input are two blocks of the largest size and one over. With
`UInt64` 16 the sequence wraps at its eighth number. The proofs below lift the
bounds where they exist.

Runs that show a disagreement between the code and what the repository says of
it; each is explained under "findings" in `PROJECT.json`:

| Run | Shows |
|---|---|
| `queue_vacuum_race` | `mqueue_vacuum`, offered to clients, runs without the mutex its comment claims; in the shortest trace a dequeue of an empty queue hands out a slot that was never written |
| `log_file_race` | `setloggertype` used from the main thread, as documented, races with `mlogf` and an assertion ends the process |
| `popen_fork_lock` | a child forked while another thread logs never gets to `execvp` |
| `split_words` | `msplit` loses a last word of one letter, and keeps a single separator at the end |
| `split_terminators` | `msplit` writes the terminator of a word, of the separators, and of an array that the words fill, behind the memory allocated for them |
| `follow_residue` | what an earlier call left on the stack completes the path of a link to that of another, whose file `followlink` returns |

### Other disagreements met while modelling

These have no run of their own; where a constant is named, setting it in the cfg
as shown, with the named property as the only one, reproduces a counterexample.

| Code | What it does | What is said | To reproduce |
|---|---|---|---|
| `madt.h:71` | a `previous` left from an earlier removal can close the list to a cycle | `madt.h:18-20` "should work with any singly-linked list" | `MCUtilities`: `FreshPointers = FALSE`, `RemoveEnds` fails |
| `madt.h:73` | of two matches at the head, the second is reported removed and is not | `madt.h:64` "freenode is populated with a pointer to the removed node" | `MCUtilities`: `UniqueHandles = FALSE`, `FreenodeIsRemoved` fails |
| `mlog.c:299` | a file logger without a path, such as every one that `get_mlogger` makes (line 171), returns 0 and keeps its type; its first message runs into the assertion of line 82 | `mlog.h:99-100` "On any errors, the logger type will be set to MLOG_NONE" | `MCLog`: `ErrorsDisableLogger` fails, and so does `NoAssertionFails` |
| `mlog.c:83` | a time is printed that line 62 did not format, if `setloggertime` runs in between | `mlog.h:115-116` `mlogf` is thread-safe | `MCLog`: `ConfigureQuietly = FALSE`, `TimeIsFormatted` fails |
| `mlog.c:326` | a callback can be called with another's data, or be NULL by then | `mlog.h:115-116` `mlogf` is thread-safe | `MCLog`: `ConfigureQuietly = FALSE`, `CallbackGetsItsData` fails |
| `mlog.c:43` | a callback gets the logger's severity | `mlog.h:66` "The log severity of the message" | plain from the line |
| `mlog.c:166` | the default handle is 0, whatever handle the new logger has, and outlives that logger | `mlog.c:22` "represent the default logger" | plain from the lines |
| `mutil.c:101` | with descriptor 0 free in the parent, `exe` has no stdin | `mutil.h:41-43` | `MCPopen`: `InitialFds = {1, 2}`, `ChildStdio` fails |
| `mutil.c:113` | the child logs into the pipe that stands for `exe`'s stderr | `mutil.h:42-43` | plain from the line |
| `mnet.c:94` | a server on descriptor 0 is reported as an error | `mnet.h:21` "Return the socket fd, or 0 on error" | `MCNet`: `UsedFds = {1, 2}`, `ReturnedSocketWorks` fails |
| `mnet.c:221` | the client stops at the first address that refuses | `mnet.c:236` "failed to connect to all resolved hosts" | plain from the line (`ConnectFails`) |
| `mnet.c:115` | an empty datagram is answered with NULL | `mnet.h:27-29` "returning NULL on error" | plain from the line |
| `madt.c:28-30` | the traversal visits the left subtree, the node, and the left subtree again | `madt.h:122` "in-order" | plain from the lines |
| `mutil.c:370` | a relative link is looked up in the working directory, not in its own | `mutil.h:135-140` "recursively follow the link" | `MCUtilities`: `FollowFindsTarget` without `Resolvable` fails |
| `mutil.c:378` | the path of the recursive call has no terminator, so that a chain of links may also end in -1, or lead into a cycle that the links do not form | `mutil.h:135-140` | `MCUtilities`: `FollowFindsTarget` without its last line, and `FollowEnds` without `Unambiguous`, fail |
| `mutil.c:379` | on a cycle of links the recursion does not end | `mutil.h:135-140` | `MCUtilities`: `FollowEnds` without its last premise fails |
| `mutil.c:188` | twice the input is too little for a padding cipher and a short input (with blocks of 16 octets, up to 8 octets, and 16), and for no input at all | `mutil.h:67-70` any `EVP_CIPHER` | `MCUtilities`: `CryptFits` without its premise on `text_size` fails |
| `mutil.c:206`, `:213` | the context is not freed when a step fails | | `MCUtilities`: `live = {}` for a failed `encrypt_ssl` fails |
| `mutil.c:292` | the digest is freed and returned when the last step fails | `mutil.h:97-98` "Return an unsigned char* with the digest" | plain from the line (`DigestFinalFails`) |
| `mb64.c:53` | an input that arrives in several reads is overwritten; one longer than the buffer is read from outside it | `mb64.c:14-15` usage | `MCUtilities`: `Mb64Encodes` without `reads <= 1` fails |
| `mb64.c:55` | the -1 of a failed read is added to the size | | plain from the line (`ReadFails`) |
| `mb64.c` | `-d` decodes nothing | `mb64.c:14-15` usage | plain from the lines (`Mb64NoEncode`) |
| `bins.c:48` | the test of the mode is never zero: files that are not executable are listed | the comment at `bins.c:47` | `MCUtilities`: `BinsListsExecutables` with `o[2].stat = "executable"` at its end fails |
| `mstr.c:54` | for a `PATH` with a single colon at its end, `bins` looks for its last directory under a name that ends in the colon, and lists the files of a directory of that name | `bins.c:82` splits at colons | `MCUtilities`: `BinsListsExecutables` without `misread` fails |

`ClientFinishes` and `StdinHeldByYounger` are claimed for calls of `popenRWE`
made one after the other (`~concurrent`). For overlapping calls TLC refutes
`ClientFinishes`: two children each inherit the writing end of the other's stdin
and wait for each other. No document of the repository promises more, so this is
listed as a hazard only.

### Fairness

`queue_bounded`: weak fairness of each thread's next step. A thread that wants a
mutex may be overtaken as long as others make calls; their calls are finite, so
nothing is assumed about the mutex or about which sleeper a signal wakes.
`utilities`: a running removal and a running `followlink` go on. `log`:
each call in progress goes on; nobody has to make one. `popen`: processes and
threads go on, `exe` stops at the end of its input, the client closes element 0,
and a thread that wants `logging_mutex` repeatedly free gets it (strong fairness,
since another thread may log for ever). `net`: calls in progress go on.

## Proofs

All for arbitrary constants that satisfy the named assumptions
(`QueueConstants`, `ThreadConstants`, `LogConstants`, `PopenConstants`,
`PopenNull`, `NetConstants`, `NetNull`, `SplitConstants`, `BinsConstants`,
`Mb64Constants`, `ListConstants`, `FollowConstants`, `CryptoConstants`,
`FibonacciConstants`), which the runs evaluate; what a theorem assumes beyond them
stands in its statement. Every invariant and every step property that a passing
run checks is a theorem.

* `MQueueOpsProofs`: what the operators on the record do to a consistent queue,
  in modular arithmetic: `WrapValue` and `SizeValue` show that the size is
  `End(q) - front` although `rear` may be `Word - 1`; `InitQueue`,
  `EnqueueQueue`, `VacuumQueue` and `DequeueQueue` show that the record stays
  consistent, that its contents change as those of a queue, and that the array
  stays below `AllocBound`; `LostQueue`, that it keeps its shape where `realloc` fails.
* `MQueueProofs`: the inductive invariant is `TypeOK /\ LockInv /\ QueueInv /\
  BoundedMemory`. No part is inductive alone: that live slots hold items needs
  the item a producer carries through its call (`LockInv`), the bound on memory
  needs the countdown in `QueueInv` (`front + gc_run <= GC_COUNT`), which bounds
  the dead slots. From it: `TypeCorrect`, `LocksCorrect`, `QueueConsistent`,
  `MemoryBounded`. `WakeupsNotLost` is a second induction on top, counting the
  threads on their way with the finite-set theorems. `QueueIsFifo` is the
  refinement: each step of the queue is a step of `FifoQueue` or a stutter.
  `QueueConsistent` and `WakeupsNotLost` speak of a process that has not been ended
  by the assertion after `realloc`, where `rear` is one too far.
* `MQueueSeqProofs`: the same for the build without threads, from the same lemmas
  (`SeqQueueConsistent`, `SeqMemoryBounded`, `SeqQueueIsFifo`).
* `MLogProofs`: `LoggersNotUsedAfterFree` and `LoggersCounted`. The invariant says
  that a worker inside `mlogf` holds the mutex and its logger is in the list,
  that listed loggers are not freed, and that the one being shut down is out of
  the list: `free` may come after the unlock because nobody can find the logger
  any more. It does not need `ConfigureQuietly`. `LoggersKeepTheirTypes` adds to it
  that a setter in progress was given values of its field's type (`SetterTypes`),
  and counts: listed loggers have distinct handles, so that `nloggers` stays in
  range. With `ConfigureQuietly`, `QuietInv` adds what is lost otherwise: while the
  main thread is inside a setter nobody is inside `mlogf` (`SetterInv`), so that a
  logger is complete whenever it is read, or is a file logger that was asked for
  without a path (`LoggerOK`), and each place of `mlogf` knows the tests it has made
  (`CallOK`). From it: `MessagesDelivered`, `CallbacksMatch`, and `AssertionsHold`,
  which leaves the missing path as the only way to an assertion that fails.
* `MPopenProofs`: `NothingLeaks`, `StdioIsRedirected` (for a parent that has
  `StandardFds` open), `StdinOrdered`. `TableInv` says which ends of a call's
  pipes are open in the parent at each point of the call (`OpenEnds`), each at the
  descriptor the call remembers; so a cleanup path has to close exactly those.
  `OrderInv` and `ChildInv` do the same for the children's tables: what a child
  inherited, which of it is its own, and that of sequential calls it is never a
  younger one's. That the kernel's lowest free descriptor exists comes from the
  library's theorem on well-founded relations.
* `MNetProofs`: `SocketsWork` (with descriptor 0 in use), `FewSocketsLost`,
  `AddressesFreed`. The invariant follows one call: the only socket it has, in
  which state (`SocketInv`), how it came out (`ResultInv`) and where its list may
  be allocated (`AddrinfoInv`). `StepOfCall` shows once that a step of one call,
  which touches a free descriptor or its own, keeps the invariant of the others.
* `MStringProofs`:
  * `WordsAlwaysFit`, for any string, separators, initial size and growth factor;
    the invariant adds types and a positive capacity to `WordsFit`. It does not say
    that `msplit` stays inside its memory, which it does not (`split_terminators`),
    but that terminators are all that it writes outside, and where.
  * `MsplitFindsWords`. `WordsBehind` says that in the loop the array holds exactly
    the words that end before the word being read, or before `i` between words; a
    step adds the next run or finds that there is none (`NextRun`, `NoRun`,
    `AddWord`). The iteration at the last character leaves `WordsFound`, which
    allows the last word to be missing or to have a separator at its end, and only
    if the string does not end cleanly.
  * `BinsSearchesPath`: `BinsCall` says that what has been printed is what
    `find_bins` prints for the pieces so far; at the end those are the words, but for
    a last piece that may be missing or have a colon at its end. Nothing is assumed
    about the names of directories.
  * `DecodeEncode` (decoding what was encoded gives the data, for data of any length:
    one block, then the padding, then the indexes) and `Mb64Correct`, whose invariant
    says what the buffer holds after one read (`HoldsInput`) and how the sizes relate
    to the input (`Mb64Reading`).
* `MUtilitiesProofs`:
  * `ListIsChain` and `RemovedNodeIsFree`, for the client that `mlog.c` is
    (`FreshPointers`, `UniqueHandles`; the table above has what TLC finds without
    them). The chain is kept by a removal in two phases: while the loop
    searches, the chain is still the list before the removal, `previous` is the
    neighbour of `current`, and at most one node matches (`Searching`); after the
    match, the chain is the list without it and nothing in the rest of the loop
    matches (`Removed`), so that the loop that goes on from the removed node's
    successor changes nothing more.
  * `FollowFinds`: the path in hand is on the way that links lead from the caller's
    path (`FollowPosition`), and a place on the way that is no link is its end
    (`EndOfTheWay`). For that it needs the premise of the property that no link on the
    way has a path that begins another link's (`Unambiguous`): a longer path that the
    stack makes of it then names no link, and the next `readlink` fails on it. That a way of as many steps as there are places is long enough
    is the pigeonhole principle (`OnTheWayClosed`).
  * `FibonacciSequence`: the two statics are the last two numbers of the recursive
    definition modulo `UInt64` (`FibIInv`).
  * `CryptOwnership` and `CryptOutputFits`: what is allocated at each point of each
    function, and that an update has put out at most what it was given
    (`CryptoSteps`).

  `Walk`, `Way` and `fibonacci` are recursive functions. `VisitEquation`,
  `WayEquation` and `FibonacciEquation` prove that each has the value its definition
  states, by building solutions for larger and larger domains; properties of all
  their values then follow by `NatInductive`, an induction over a set rather than a
  predicate, which rests on the library's theorem that the order of the numbers is
  well-founded.

Only model-checked: all liveness (`Termination`, `RemoveEnds`, `FollowEnds`,
`MlogReturns`, `ClientFinishes`, `CallReturns`), which needs fairness and `ENABLED`.
The six runs that expect a violation are TLC's counterexamples.

## Not modelled

The binary tree (`mbtree_int`): allocation, release and a recursive print, without
state of the library's own; what is wrong with the traversal is in the table
above. The text of messages and timestamps; `mdebug` (one mutex held for one
function); `tohex` and the URI functions (conversions by `sprintf` and libcurl);
what OpenSSL computes, and `base64_*_openssl`, which only call it; `read_dgram`,
one call that changes neither descriptors nor the library; socket options; the
tools `flink`, `muri` and `sha1`, a call of one function each; the version and
`dstnow`. What the writes of `msplit` behind its allocations damage, and room for
long paths in `followlink`.
The path of `digest_sha1` that returns a freed digest is in the model and is left
out of `CryptOwns`. Logging callbacks that log themselves (they would wait for a
mutex they hold) and builds with `NDEBUG` are hazards without a property; that a
time may be printed that was not formatted is one without a run, but in the table
above.

## Plan

1. Done: the queue in both builds, the list, the loggers, `popenRWE`, the
   sockets, strings, base64, links, ciphers, the Fibonacci generator and two of
   the tools; theorems for all of their safety properties that a run checks.
2. What is left is small: a module for the tree, if a client with state of its own
   ever uses it; `mdebug` with its mutex, composed with the loggers; and properties
   without their present exceptions (`HasTerminators`, `FollowReturnsTarget`,
   `NoAssertionFails`) once the code no longer needs them.
