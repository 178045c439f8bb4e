# Operating system challenges: TLA+ models

The repository holds five independent C programs, each written for one
challenge of an operating systems course. This directory models them in TLA+,
checks the models with TLC and proves theorems about them with TLAPS. All five
are modelled: the graph traversal on a thread pool, the heap allocator, the web
server with its HTTP parser, the shell and the C library. The sections below give
the inventory of the whole repository, the modules there are, what the runs and
the proofs show, what is left out, and what is left to do.

## 1. Inventory

| Component | State | Operations | Status |
| --- | --- | --- | --- |
| Thread pool (`parallel-graph/src/os_threadpool.c`) | task list, `taskAvailable`, two mutexes, a condition variable, worker threads | `enqueue_task`, `dequeue_task`, worker loop, create, wait, destroy | modelled |
| Parallel traversal (`parallel.c`) | `sum`, `graph->visited`, two more mutexes | `main`, `process_node`, `action`, `destroy_arg` | modelled |
| Serial traversal (`serial.c`) | `sum`, `visited`, the call stack | `main`, recursive `process_node` | modelled |
| Graph construction (`os_graph.c`) | nodes and neighbour arrays | `create_graph_from_data`, `create_graph_from_file`, `print_graph` | building modelled; parsing and printing not |
| Heap allocator (`mem-allocator/src/osmem.c`) | block list, program break, mappings | `os_malloc`, `os_calloc`, `os_realloc`, `os_free` | modelled |
| Web server (`async-web-server/src/aws.c`) | a state machine per connection, epoll set, AIO context | accept, receive, parse, send header, static file by `sendfile`, dynamic file by AIO | modelled, but for failures that end the process |
| Socket and epoll wrappers | none | thin system call wrappers | part of the web server's actions |
| HTTP parser (`async-web-server/src/http-parser`) | `http_parser`: state, header state, flags, lengths; marks into the current piece | `http_parser_init`, `http_parser_execute`, `http_should_keep_alive`, callbacks | modelled |
| Shell execution (`mini-shell/src/cmd.c`) | processes, descriptors, status | `parse_command`: simple, sequential, parallel, conditional, pipe; redirections; builtins | modelled |
| Shell loop and words (`main.c`, `utils.c`) | environment | read lines, expand words | the loop modelled; text handling not |
| Shell parser (`mini-shell/util/parser`) | the tree | lexer, grammar, display | priorities and shape of the tree modelled; text handling not |
| libc memory (`mini-libc/src/mm`) | circular list of mappings | `malloc`, `calloc`, `realloc`, `reallocarray`, `free`, `mmap`, `mremap`, `munmap` | modelled |
| libc strings (`mini-libc/src/string`) | none | `str*`, `mem*` | modelled |
| libc system calls (`io`, `stat`, `process`, `stdio`) | `errno` | one system call each; `puts`, `sleep` | results and `errno` modelled; what the kernel does with files not |
| libc start-up (`mini-libc/src/crt`) | none | entry, `main`, clean-up, exit | clean-up and exit modelled; assembly not |
| Samples and tests | | `printf.c`, generators, checkers, server samples, `test.c` of the parser | not modelled |

How the parts interact, what is hard about them, and what makes them correct:

* **Graph programs.** `main` builds the graph, starts four workers, submits the
  root and joins. A worker's task submits further tasks. The threads share the
  task list (`queueMutex`), the node states (`stateMutex`), the sum
  (`sumMutex`) and `taskAvailable` (`mutex` and a condition variable); nested
  locks are taken in one place (`stateMutex`, then `queueMutex`). Hard: a
  worker quits as soon as the queue is momentarily empty, the root is submitted
  after the workers have been started, and the broadcast that announces it is
  sent once and without the lock. Correct means: both programs add each node of
  the root's component exactly once, the parallel one never gives a node to two
  workers, frees each node exactly once, and ends.
* **Allocator.** One thread; all state is a doubly linked list threaded through
  the heap and the mappings. Hard: long legal sequences of calls, in which
  stale `prev` and `list_tail` pointers accumulate. Correct means: memory given
  to the caller stays apart and keeps its contents, the heap is tiled by
  blocks, free neighbours are merged before a search, the heap grows only when
  it must, and calls return.
* **Web server.** One thread driven by epoll and AIO completions. Hard: partial
  and refused sends and receives, completions that arrive late or not at once,
  connections freed in a callee and used in the caller, fields never
  initialised. Correct means: an answer is the header and then the whole file,
  in order; a connection is freed once and not used after; every connection
  ends.
* **HTTP parser.** A state machine fed with the bytes of a connection in pieces
  of any length; it keeps its state and no bytes, and gives its client each part
  of a message by callbacks, in as many pieces. Hard: a piece may end in any
  state and inside any word; many headers, flags and answers of the client decide
  how a body is framed; a connection carries several messages. Correct means: the
  client hears the same whatever the pieces are, hears what a well-formed message
  says, and a body ends where its headers say.
* **Shell.** A copy of the shell for each operand of `|` and `&`, a process per
  command, pipes between them. Hard: inherited pipe ends that keep a reader
  waiting, writers blocked on a full pipe, commands killed by a broken one,
  failures of fork, statuses that pass through exit codes. Correct means: exactly
  the commands run that the line means, an operand is over before what follows it,
  a pipe delivers all its writer wrote, nothing is left at the prompt, and every
  line ends.
* **libc.** Sequential. Hard: requests the kernel refuses in the middle of
  `realloc`, error numbers taken for addresses, overlap in `memmove`, prefixes,
  empty strings and bytes above 127. Correct means: the list of mappings is that
  of the program's blocks, blocks stay apart and mapped and do not leak, the
  string routines do what their definitions say, `puts` prints each byte once.

`PROJECT.json` lists under "hazards" each such difficulty at its line, with the
properties that would notice it going wrong.

## 2. The modules

| Module | Models |
| --- | --- |
| `NodeGraph` | the finished graph: nodes, values, neighbour lists; `Reachable` is the least set with the root closed under neighbours |
| `GraphTraversal` | abstract specification: visit nodes adjacent to visited ones, once each, and finish when nothing is left |
| `OsThreadpool` | `os_threadpool.c`: workers and the pool's part of `main`; what a task does is left open |
| `ParallelGraph` | `parallel.c` on top of `OsThreadpool`: the whole program; refines `GraphTraversal` |
| `OsGraph` | `create_graph_from_data`, one action per edge |
| `SerialGraph` | `serial.c` on top of `OsGraph`: construction and the recursive traversal with its stack |
| `MCParallelGraph`, `MCSerialGraph` | small instances |
| `ParallelGraphProofs` | proofs about the parallel program and its abstract specification |
| `SerialGraphProofs` | proofs about the construction and the serial program |
| `MemoryContract` | abstract specification of an allocator as its caller sees it |
| `OsMem` | `osmem.c` and its caller; refines `MemoryContract` |
| `MCOsMem` | small instances |
| `OsMemProofs` | proofs about the allocator, its contract and its stale pointers |
| `HttpAnswers` | abstract specification: each client is sent a growing prefix of its answer, and nothing once its connection is closed |
| `AwsServer` | `aws.c`, its clients and the kernel; refines `HttpAnswers` |
| `MCAwsServer` | small instances |
| `AwsServerProofs` | proofs about the server |
| `HttpParser` | `http_parser.c` and a client that collects messages from the callbacks |
| `MCHttpParser` | connections written from what they say, and the properties that compare this with what is heard |
| `MiniShell` | `cmd.c` and the loop of `main.c`, with the processes, pipes and files |
| `MCMiniShell` | lines with every operator, builtin and redirection |
| `MiniShellProofs` | proofs about the shell's processes and its pipes |
| `MiniShellLineProofs` | proof that the shell runs of a line what the line means |
| `LibcString` | `string.c`: pure functions of the memory |
| `LibcMemory` | `mm/`: the heap over a kernel that may refuse |
| `Libc` | a program that uses both, `puts` and the system call wrappers, and the reference definitions |
| `MCLibc` | small instances |
| `LibcProofs` | proofs about the heap of mappings, `puts` and the system calls, and what each string routine computes |
| `SetLemmas` | least and greatest elements, smallest sets and sums over finite sets, for the proof modules |

### How the graph modules correspond to the code

A thread is where its `pc` says: `"start"` to `"poll"` is
`thread_loop_function` up to its loop, `"poll"` and `"unlink"` are
`dequeue_task`, `"action"` to `"enqueue"` are `action`, `"destroy"` is
`destroy_task`; `mainPc` walks `main`, `process_node` and
`destroy_threadpool`. A lock is the variable that names its owner. Taking a
lock is merged with the first access made under it, and releasing it with the
last; all accesses in between are steps of their own, `sum +=` is a load and a
store, and `dequeue_task` a read and an unlink, so that a missing lock shows.
`pthread_cond_wait` is two steps, an atomic release-and-sleep and a
reacquisition after the broadcast; with `SpuriousWakeups` it may also wake by
itself, as POSIX allows. A task is its node, since every task has the same
action. `DIE` on failing `malloc` or pthread calls is left out.

### How `OsMem` corresponds to the code

`blocks` is the list in the order of the `next` pointers. That order is what the
code always keeps right; `prev` and `list_tail` are kept as the addresses they
hold, because the code lets them grow stale. Addresses are numbers: the heap
runs from 0 to `brk`, mappings lie at `MapAddrs`, far above. A call (`Call`)
first coalesces (`MergeNext`, `Advance`, one step per round of the loop), then
places (`heap_preallocation`, `UseBest`, `ExtendLast`, `add_new_block`,
`memory_mapping`) or, for `os_realloc`, resizes (`GrowTail`, `AbsorbNext`,
`Truncate`, or `Move`, which runs a nested `os_malloc` from its start and comes
back to `CopyAndFree`). `os_free` is one step.

The C program goes on after a wild access and anything may follow. The model
names the access in `fault` and stops there (`pc = "crashed"`), so the passing
properties speak of runs up to the first such access. The first three are reached with
the sizes of `MCOsMem`; the last needs a request that ends within a header of the
end of its last page, and none of those sizes does:

* `"dangling tail"`: `heap_preallocation` stores through a `list_tail` that was
  unmapped.
* `"stale block"`: `find_last_brk_free` returns a header that has been absorbed.
  Whether that header still reads as free depends on what was written over it
  since; `Overwritten` makes it a choice.
* `"unmapped block"`: a walk over the list reaches a mapping that was unmapped
  but not unlinked (`UNMAPPED` in `blocks`), because its `prev` named a block
  that had been merged away.
* `"overrun"`: `os_calloc` zeroes past the end of its mapping, when the
  request fills the last page.

### How `AwsServer` corresponds to the code

The thread waits in `"epoll_wait"`; the other places of `pc` are the system
calls of the handlers: `"recv"`, `"header"` (`connection_send_data`),
`"sendfile"`, `"submit"` (`connection_start_async_io`), `"getevents"`
(`connection_complete_async_io`), `"send"` (`connection_send_dynamic`) and
`"remove"`. `cur` is the connection being served. Each call is a step, since
clients and the kernel act in between: a client may read, close or reset its
end, and a submitted read may complete and change `send_buffer`. A loop of
sends is a loop of steps, each of which the socket takes part of.

An answer is a sequence of units: the header (one unit) and units 1, 2, ... of
the file. `sent` is what the socket has accepted and `taken` how much the client
has read; the difference fills at most `SocketRoom`. A new socket has room for
the header. `ready` is the edge of `EPOLLOUT | EPOLLET`: due (`"yes"`), to come
when the client reads (`"awaited"`), or already reported (`"no"`).

As in the allocator, the model stops at a use of memory that is not there:

* `"freed connection"`: `receive_data` (on a close, an error, or `EAGAIN` in the
  middle of a request) and `connection_send_data` free the connection, and the
  callers go on with it.
* `"no completion"`: `io_getevents` is given a zero timeout and returns no
  event if the read is not complete, or if none was submitted because the last
  send would have blocked; `events[0]` is used all the same.

`connection_create` does not set `file_pos` and `have_path`, so they hold what
the memory held before. The model starts `file_pos` at 0: only dynamic transfers
move it, and their connections are never freed and so never reused. A request
without a path is answered with 404 whatever `have_path` says, since
`request_path` is cleared.

### How `HttpParser` corresponds to the code

`http_parser_execute` is an operator on a record that holds the fields of
`http_parser` and, during a call, its locals: `marks` (the pointers to where a
field began, as positions in the piece), `at` (`p`) and `exit` (how the call is
left). `Go` is the loop over the bytes; `Step` is the `switch`, one operator per
state or group of like states. States that let one certain byte pass are the table
`Passes`; words matched letter by letter are the table `Words`. `Leave` says what
survives a call: `goto error` keeps only `s_dead`, a `return` from the middle of
the loop (an upgrade, or a callback that answers something else than 0) loses the
local `state`, `header_state`, `index` and `nread`. The macros keep their names.
`Receive` is one call with the next piece, `EndOfFile` the call with none. The
build is the repository's, where `HTTP_PARSER_STRICT` is on; `TOKEN`, `LOWER` and
the tables `tokens` and `unhex` are modelled for ASCII bytes.

The client is that of `http-parser/test.c`: it appends each piece of a field to
the last message. When headers are malformed (a name without a colon) it joins the
next name to the last, which `FramedByItsHeaders` takes into account.

### How `MiniShell` corresponds to the code

A line is a sequence of simple commands and the operators between them; the tree
follows from the priorities and the left associativity of the grammar (`Split`).
`path` is the stack of `parse_command` calls of a process, `pc` the place in the
innermost: `"eval"` at its start, `"fork2"` between the forks, `"setup"` in a child
of `run_on_pipe` before its `dup2`, `"close"` before the shell closes its ends,
`"wait1"`, `"wait2"` and `"wait"` at `waitpid`, `"return"` at the end. A child is a
copy of its parent with one node to evaluate; `held` are the pipe ends it has open
besides standard input and output. A process executed for a command reads its input
to the end or not at all, writes some units and exits with some status; a write to
a pipe nobody can read kills it. A redirection opens the files in the order of
`redirect_command`, in one mode for all of them.

`parse_simple` frees the name of an assigned variable, which belongs to the parser:
`free_parse_memory` frees it again, on which the C library aborts. `freed` records
it and `FreeParseMemory` kills the shell. In C a later `get_word` of the same line may
be given the freed chunk; then the second `free` goes unnoticed and the shell lives
on. The model stops at the double free and does not follow those runs.

### How the libc modules correspond to the code

Memory is a function from addresses to bytes, of as many bytes as the kernel maps
units: a page is a byte. Every block is a mapping, `list` the circular list in the
order of addition. `mmap()` and `mremap()` recognise a failure only if it is -1: a
refusal with `EPERM` is reported, one with `ENOMEM` (`EINVAL` for a length of 0) is
returned as an address, which the program and the list then hold; a list node or a
`free(NULL)` at such an address is a fault, where the model stops. `realloc` to a
length of 0, or of an address that is an error number, is always refused, with
`EINVAL`. Every refusal, these included, counts against `MaxRefused`. `free` unmaps the
node after the block, so it leaves `errno` at 0. The wrappers of
system calls are functions of the kernel's answer, which they store in an `int` of
`2 * IntHalf` values.

## 3. What the runs show

| Run | Shows |
| --- | --- |
| `pg_safety` | the program's four workers, spurious wakeups allowed: mutual exclusion of the four locks, no task in two places (`OneOwner`), every node freed exactly once and not before its last use (`FreedExactlyOnce`), and the inductive invariant `SafetyInv` the proofs use |
| `pg_complete` | three workers, no spurious wakeups: the program implements `GraphTraversal`, after the join exactly the root's component is `DONE` (`CompleteAfterJoin`), the printed sum is exact, node states only advance; under fairness one worker that gets to poll finishes the component (`OneWorkerSuffices`), and `main` returns unless a worker sleeps through the broadcast (`ExitsUnlessAsleep`): nothing else, the nested locks included, can block the program |
| `serial` | all edge lists of the instance: neighbour lists match the edges, the recursion follows a simple path and returned calls leave nothing unvisited (`RecursionInv`, in the inductive `SerialInv`), the sum is exact, the program ends |
| `om` | the heap is tiled, blocks in use belong to the caller's pointers and are large enough (`HeapInv`), free neighbours are merged before a search, a moving `os_realloc` copies what it should, stale `prev` pointers stay inside their predecessor; `OsMem` implements `MemoryContract`, the heap grows only when no run of free blocks would do, and calls return |
| `aws` | at each place of the handlers the fields of the connection account for all that has been sent (`ServerInv`), and `AwsServer` implements `HttpAnswers`: a client gets its answer in order, each unit once, and nothing after the connection is removed; a read never goes over bytes still to be sent and a dynamic transfer always has an event to go on with (`TransferInv`); it goes on to its end unless a fault, a failed submission or the client stops it (`TransfersGoOn`) |
| `http` | in whatever pieces a connection comes, the client hears the same and the same byte is the first refused (`PiecesAgree`); of well-formed messages it hears what they say, and nothing after one that closes the connection (`HeardWhatWasSaid`); of any bytes, a completed body is as long as its headers say (`FramedByItsHeaders`) |
| `shell` | exactly the commands run that the line means, given the statuses returned, and the directory and variable are those the last `cd` and assignment left (`RanWhatTheLineMeans`); nothing of a left operand runs beside its right one, and nothing is left at the prompt (`NothingOutlives`); the reader of a pipe gets all units in order and the end only after the writer (`PipeDelivers`); every line ends, also when a fork fails (`LineEnds`) |
| `libc` | whatever a program calls and the kernel refuses: the list holds exactly the program's blocks, they are mapped and apart, and nothing leaks (`HeapAgrees`); for every memory reached, copies leave what they should and touch nothing else (`CopiesAgree`); comparisons order strings as the first byte in which they differ, searches answer the first or last place of a byte passed as a `char`, or of a needle that does not also end the haystack (`QueriesAgree`; what they miss is proved in `SearchesMiss`); `puts` prints each byte once unless a write is refused, and wrappers return what happened, but for the `errno` of `sleep` and answers an `int` cannot hold (`CallsAgree`) |
| `pg_lost_wakeup`, `aws_static`, `shell_append`, `http_complete` | a statement of the repository's documentation, comments or tests that the code does not keep (section 5) |

Bounds, and why they are enough:

* Graph, parallel: six nodes, two cycles that share an edge, a node behind them
  and a node in another component. Several workers can see the same unclaimed
  neighbour by different edges, a worker can find the queue empty while another
  is scanning, and a node stays unvisited. Each node has a bit of its own in the
  sum, so a lost, doubled or foreign addition changes it. Two workers suffice
  for the temporal properties: every hazard involves one worker that is ahead
  and one that is not. Workers are symmetric; symmetry is used only where no
  temporal property is checked: three workers without it, four with it.
* Graph, serial: every simple graph of four nodes and at most four edges, the
  edges in every order.
* Allocator: three pointers; header 4, alignment 2, `MmapThreshold` 32, page 16,
  all relations of the real constants kept (header a multiple of the alignment,
  page below the threshold, header below the page). Sizes 5 (padded), 22
  (small for `os_malloc`, mapped by `os_calloc`) and 30 (mapped by both)
  produce splits that leave exactly a header, more and less, merges of two and
  more blocks, exact fits, and blocks too small. `MaxBrk` 40 allows the
  preallocation and one more block, after which `sbrk` fails and `DIE` ends the
  program; `MapAddrs` are the two places where `mmap` succeeds.
* Web server: two clients, so that the thread serves one while the other acts.
  Requests come in one or two segments. A buffer is two units and a socket takes
  two; a file of three units takes two reads and does not fit the socket at
  once; there is an empty file, a missing one and an unknown path.
* HTTP parser: every method, every form of target, headers that matter and headers
  that only begin like them, bodies by length, chunks and neither, trailers,
  upgrades, two messages on a connection, responses, and two connections with any
  one byte replaced by a blank, a letter, a colon, a CR or an LF. Pieces of 1, 3, 7
  and 19 bytes in any mixture cut every word at every place. Clients refuse nothing,
  one callback, the body, or go away at the headers. A size wraps at 10000 instead
  of 2^64 and `nread` at 256 as in the code; no header here is longer than the limit.
* Shell: thirteen lines that between them hold each operator left and right of the
  others, up to four commands, pipelines of three, both kinds of builtin position
  (the shell itself, a copy), missing and forbidden files; two lines in a row; a
  pipe of one unit, so that writers block; one failing fork, after which no line is
  typed, because the child left behind may live through any number of them.
* libc: five addresses and two blocks allow every overlap, exhaustion, moves in both
  directions and every copy of strings up to length four; bytes 0, 1 and 200 (a
  negative `char`); one refusal at any moment, a `realloc` to 0 counted as one; system call answers that are errors,
  fit an `int`, or do not.
* `CHECK_DEADLOCK FALSE` is set where the program may stop: it returns from
  `main`, blocks on the lost wakeup, dies of a failed system call, faults, or
  comes to the end of its input.

Fairness. Graph: weak fairness of `main` and of each worker. The kernel runs
every runnable thread; a worker that waits for a lock gets it although weak
fairness promises no strong turn, because the work is finite and the others run
out of it. Spurious wakeups are never forced. Serial program and allocator: weak
fairness of the single thread once a call has started; the caller need not call. Web server:
weak fairness of the thread inside a handler; strong fairness of each event,
because epoll serves ready descriptors in turn; weak fairness of a client's
reading and of the completion of a read. Clients need not connect, send or
leave. Shell: weak fairness of the steps of all processes together: each line
takes finitely many, so it is enough that the kernel runs some process that can
run. Nobody need type a line.

## 4. What is proved

All theorems hold for every value of the constants: any graph, any number of
workers, any clients and requests, any sizes, thresholds and addresses. They
assume what the named `ASSUME`s of the modules say of the constants, and nothing
else:

| Assumption | Says |
| --- | --- |
| `GraphAssumption`, `InputAssumption`, `InfoAssumption` | a root, neighbour lists of nodes, edges between numbered nodes, integer values |
| `PoolAssumption`, `TasksAreNodes` | there is a worker, `None` is no worker or task; a task is a node |
| `ServerAssumption` | a request is for a static or dynamic file of some size, or for neither; segments, buffers and sockets have a positive size |
| `MemAssumption` | sizes are positive; page, threshold and heap are in the order of `osmem.c`'s; a header and a unit of alignment are below the threshold (32 and 8 against 131072), so that the preallocation has room for a block |
| `MapAssumption` | the kernel places mappings aligned, and apart from each other and the heap |
| `LinesAssumption`, `BoundsAssumption` | a line is a sequence of simple commands with an operator between any two; exit codes are numbers; a pipe has room for something; no file can be opened that has no name |
| `MemoryAssumption`, `ProgramAssumption` | addresses are positive numbers, an `int` has a positive width, bytes are numbers below 256, answers are numbers, and error numbers fit an `int` |

Each module's argument, and the invariant it needs:

* `ParallelGraphProofs`: `SafetyInvariant` (with or without spurious wakeups),
  and from it `TypeCorrect`, `SingleOwner`, `FreedOnce` and `StatusAdvances`.
  `OneOwner` and `FreedExactlyOnce` are not inductive. `SafetyInv` adds which lock is held where (`LocksInv`), what a
  worker's position says of its task and of the neighbour it has claimed and not
  yet queued (`WorkersInv`), what `main`'s position excludes (`MainInv`), that
  queued nodes are `PROCESSING`, and that an unfreed node is either unvisited or
  in one of the places that will free it (`FreesInv`). The claim-to-queue gap is
  the heart: the node is in nobody's hands except those of the worker that holds
  `stateMutex`.
* `ParallelGraphProofs`, second half: without spurious wakeups,
  `CompletenessInvariant`, from it `CompleteOnJoin`, and `ImplementsTraversal`. `CompletenessInv` adds
  that a queued task always has a worker left to poll (`PollersInv`), that every
  neighbour of a `DONE` node is claimed or still ahead of its scanner
  (`CoverageInv`), and that only nodes of the component are claimed
  (`ClaimsInv`). The refinement maps the visited set to the `DONE` nodes and
  those whose value has just been added. `TraversalVisitsTheComponent` proves of
  the abstract traversal that it keeps to the component and exhausts it;
  `SumsTheComponent` carries that over to the program through the refinement.
  `PrintsTheSum` is about the number: the sum so far is the sum of the values over
  the set visited, which one more node changes by its value whatever the order
  (`ReportsTheSum`, proved of the abstract traversal and carried over).
* `SerialGraphProofs`: `SerialInvariant`, from it `RecursionIsSound`,
  `PrintsTheSum` and `RecursionDepth` (distinct nodes on the stack, so never more frames than
  nodes), and `ListsAreTheEdges`. `RecursionInv` speaks of calls that have
  returned; to be inductive it needs that a call still active has visited its
  node and the neighbours before its index (`CallsHaveVisited`). For the lists
  the invariant counts: each list holds a node as often as the edges entered so
  far name the pair.
* `OsMemProofs`: `AllocatorInvariant`, and from it `TypeCorrect`,
  `HeapStaysWhole`, `SearchesCoalesced`, `MovesContents`, `GrowsWhenItMust` and
  `KeepsContract`. `OsMemInv` says that the blocks on the heap tile it
  (`Tiled`), that mappings are where `mmap` puts them and not above each other
  (`Away`), that blocks in use and pointers stand for each other, but for the block
  a moving `os_realloc` has got and not yet handed over (`Owned`), and, for each
  place of the code, what the coalescing loop has already seen to (`ListInv`: no
  pair of free neighbours, no unmapped block and the right tail up to `cur`) and
  what `os_realloc` knows of the block it moves (`MoveInv`: outgrown, so that
  the copy fits). Under it are lemmas on each change of the list: merge, split,
  growth, insertion and deletion keep the tiling, and in which sense they keep
  the blocks in use. `GrowsWhenItMust` needs that a run of free blocks of a
  coalesced list is a single block. `ContractKeepsMemoryApart` proves that
  `MemoryContract` implies that no byte is given to two pointers, and
  `PointersNeverOverlap` that this holds of the program.
* `OsMemProofs`, last part: `StalePointersStayNear`. `PrevLeadsIntoPredecessor` is not
  inductive, because the next insertion copies `list_tail` into a `prev`:
  `LinkInv` adds that `list_tail` leads into the last block, and that what leads
  into a mapping leads to its header, as a mapping is never merged.
* `AwsServerProofs`: `ServerInvariant`, from it `TransfersAreSafe` and
  `ImplementsAnswers`. `TransferInv` relates `file_pos`, `send_pos` and
  `send_len` to what the socket has accepted; to be inductive it needs what is in
  `send_buffer` while sends and reads are partial (`DynamicInv`), what each
  place of the handlers may take for granted (`HandlerInv`), and how much of the
  request has arrived (`InputInv`). The refinement maps to what the sockets have accepted.
* `MiniShellProofs`: `ShellInvariant`, from it `TypeCorrect` and
  `EverythingIsWaitedFor`. `NothingOutlives` speaks of an operand and of the
  prompt; to be inductive it needs where every process is at every moment.
  `ProcsInv`, which holds whatever forks fail, says for each place of the code
  what the stack of `parse_command` calls, the pid and the descriptors are; the
  stack is a chain of ever smaller intervals because `Split` falls inside its
  node. `TreeInv`, which holds while no fork has failed, orders the processes:
  the parts of the line they evaluate are nested or apart (`Nested`), and a
  process has others within its part only where `Below` allows, which are the
  operands it has forked and not waited for (`OwnInv`). The heart is the wait: the
  child waited for has ended, an ended process has nothing below it, so nothing
  of that operand is left, however deep its own forks went. Where a fork fails
  this is lost (`cmd.c:317`), as the theorem says.
* `MiniShellProofs`, second half: `FlowInvariant`, from it `PipesDeliver`, also when
  forks fail. `PipeDelivers` speaks of a command that reads; to be inductive it needs
  who else holds an end of its pipe, at every moment, and what each of them may
  still do to it. A pipe is named after the node it was made for, and
  since `|` binds tightest a node under an operand of `|` is all pipes, evaluated
  from the right: the pipe into a command begins with the first command of its
  pipeline, so it is the only one (`IntoIsUnique`). `WiringsInv` says for each
  place of the code which descriptors a process has there, as input, output and
  held aside, from its stack alone. A process has a front, the first command it
  has not come to; whatever failed, nobody stands there yet (`FrontInv`, with
  `Nested` and `OneLine`), so each pipe has one reader and one writer. `DataInv`
  says for each pipe somebody is to read that the units read and those in the pipe
  are what the writer wrote, in order; the end is seen once nobody has the write
  end, and by `ParentInv` the copy that waits for the writer has it as its output
  until the writer is gone. The bound that no line is typed after a failed fork is
  part of this: what such a fork leaves behind belongs to the line it was made for.
* `MiniShellLineProofs`: `LineInvariant`, from it `LinesRunAsTheyMean`. A line means
  something from left to right, one command after the other; `parse_command`
  evaluates a tree, part of it in copies whose only answer is 8 bits of exit code.
  `LineInv` says of each process, from the first command of its own part on, that
  reading what is recorded so far leads to the command it stands at (`ReadSoFar`),
  and that nothing from its front on is recorded (`Fresh`). A status that
  `parse_command` returns for a node and the state in which the reading leaves that
  node are tied by `Leaves`: they agree only if no `;` or `&` is in the node, and that
  is enough, since `&&` and `||` take their left operand from such a chain
  (`ChainIs`), and what they skip is skipped command by command (`PassesCmd2`). For a
  copy less is left (`LeftByCopy`), and `|` and `&` ask for no more. That the results of two
  processes do not disturb each other is a matter of where they stand: a leaf about
  to be recorded is neither behind any other process nor in front of one
  (`LeafElsewhere`, from `Nested` and `FrontInv`). `Located` says which commands are the
  shell's own: those with no `|` beside them and no `&` above them in the tree, which
  is what `InShell` says of the line (`OuterOperands`, `InnerOperands`); so `AsLeft` can follow the
  directory and the variable. The invariant holds while no fork has failed; after
  that a copy may still run beside what follows it.
* `LibcProofs`: `TypeCorrect` and `HeapStaysConsistent`; `TypeOK` and `HeapAgrees`
  are inductive together. The work is in the list: a node is unlinked, appended
  or changed in the one position its block has, and error numbers, which are
  negative and may stand in several nodes, are never confused with addresses.
  On that invariant rest `CallersAreToldTheTruth`, which adds how much of the string
  `puts` has written (`PutsInv`), and `CopiesStayRight` and `QueriesStayRight`, about
  every routine of `string.c` on every memory the program can have. A terminated
  string lies inside its block, so each loop meets its terminator. `LoopExists` and
  `LoopStops` say that a loop which runs until an index in a set has an answer, and
  only the one of the first such index; `Carried` and `Ended` are what the loops of
  the copying routines leave. What is then compared is sequences: where two strings
  part (`Parts`, `Decides`) orders them, and the places of a character or a needle in
  memory are those in the string, moved (`Shifted`). The places `strstr` and `strrstr`
  try are all but the last at which the needle could stand (`PlacesTried`), so what they
  answer is exact unless the needle stands there too. `SearchesMiss` proves the
  disagreements with the comments: a needle that stands only there is never found,
  nor a byte above 127 passed as 128 to 255. `CallersAreToldTheTruth` says of
  `sleep` only that it returns -1: its `errno` is wrong (section 5).
* `SetLemmas`: a set of numbers has a least element, a bounded one a greatest, a
  family of finite sets a smallest member, by the well-foundedness of the numbers.
  A claim about all indices, or all finite sets, is proved from the least that
  breaks it; that is how the loops and sums above are reached without induction
  over an operator. `Total` is the sum of a function over a finite set.

Only model-checked, and why:

* all liveness properties (`OneWorkerSuffices`, `ExitsUnlessAsleep`,
  `Terminates`, `CallsReturn`, `TransfersGoOn`, `LineEnds`): fairness and
  `ENABLED` are beyond the prover;
* what the HTTP parser's loop hears (`MCHttpParser`'s invariants): `HttpParser`
  declares a `RECURSIVE` operator, and the reference is written for the connections
  of the instance.

The theorems about `OsMem` and `AwsServer` speak of runs up to the first fault,
like the models.

## 5. Findings

1. **Lost wakeup** (`parallel.c:80`, run `pg_lost_wakeup`): a worker between
   its test of `taskAvailable` and its sleep misses the only broadcast, and
   `main` joins it forever.
2. **Static files cut short** (`aws.c:436`, run `aws_static`): when the socket
   is full the answer should be tried again later; the connection is removed.
3. **Append truncates** (`cmd.c:159`, run `shell_append`): a command with `>>` and
   `2>>` has both flags, which equals neither, and its files are truncated.
4. **Requests without a length never complete** (`http_parser.c:1421`, run
   `http_complete`): `content_length` is unsigned, so "no length" (-1) is a body of
   nearly unlimited size. Five more things the parser does in this build follow
   from its code and are in the model: `nread` is kept in an `unsigned char`
   (line 1571), so the limit on headers binds only within a call; trailers may
   change keep-alive after `headers_complete` (test.c:1055 asserts they do not);
   misspelt `CONNECT` and `MKCOL` pass (line 618); blank lines before a response
   call `message_begin` again; after an upgrade the value returned does not count
   the last LF.
5. **Bytes above 127 are not found** (`string.c:141`, theorem `SearchesMiss`): `strchr`
   and `strrchr` compare a `char`, which is negative then, with the `int` they are passed.
   string.c:147 says they return NULL if `c` is not found.
6. **A needle at the end is missed** (`string.c:178`, theorem `SearchesMiss`): the loops
   of `strstr` and `strrstr` end one offset early, although string.c:196 and 211 speak of
   the first and the last occurrence. When the needle stands elsewhere too, `strrstr`
   answers an earlier place: the first `a` of `aa`.

Met by the models, without a run of their own, because a property would only
restate the line:

* a worker that wakes without a signal (`os_threadpool.c:92`: `if` for `while`) may
  find the queue empty before the root is submitted, and when all do the sum is 0;
  `pg_safety` allows it and shows that nothing is freed twice or lost;
* as faults of `OsMem`: the dangling and the absorbed `list_tail`
  (`osmem.c:271`, `osmem.c:420`), a mapped block that coalescing has made
  impossible to unlink, so that freeing it leaves it in the list (`osmem.c:85`), and,
  with other sizes, the overrun of a mapped `os_calloc` (`osmem.c:188`);
* as faults of `AwsServer`: the use of a freed connection (`aws.c:192`,
  `aws.c:400`) and of an event that was not returned (`aws.c:329`); and the
  connection of a dynamic file that nothing closes (`aws.c:373`);
* in `MiniShell`: the double free after an assignment (`cmd.c:191`); after a failed
  second fork of a pipe the shell keeps both ends and never waits for the first
  child (`cmd.c:317`), and the line ends all the same;
* in the libc modules: `malloc` and `realloc` list and return an error number as an
  address, because `mmap` and `mremap` take only -1 for a failure (`mmap.c:27`;
  malloc.c:20 says NULL); `puts` adds the error number of a failed write to what it has
  written, so it writes bytes again and returns another number than it wrote
  (`puts.c:13`); `sleep` sets `errno` to 1 whatever the error, having taken the -1 of
  `nanosleep` for an error number (`sleep.c:17`); an answer that does not fit an `int` is
  reported as an error or another number (`lseek.c:11`); `strstr` and `strrstr` miss an
  empty needle; `strncmp` calls a string equal to its prefixes; `strncpy` writes one
  terminator only; `munmap` takes success for a failure (`mmap.c:54`).

`dequeue_task`'s comment says that it blocks while no task is available and
returns NULL only when the work is complete; it returns NULL on any empty queue,
and its worker quits. `CompleteOnJoin` proves that the result is right all the
same: a worker that still has neighbours to submit polls again.

## 6. What is left out of the modelled components

* Overflow of `int` and `size_t` (the sum; `nmemb * size`).
* Failing `malloc` and pthread calls in the graph programs; malformed input
  files; duplicate edges in a file, which would overrun a neighbour array.
* Allocator calls that change nothing (size 0, `os_free(NULL)`) and calls with
  pointers the allocator did not return or has freed. `os_realloc(p, 0)` and
  `os_realloc(NULL, n)` are `Free` and `Call("malloc", ...)`.
* The bytes of a payload: the length copied is modelled, not what is copied.
* Web server: failures that end the process (`DIE`, `SIGPIPE` on a second send
  to a broken connection), errors and short results of an asynchronous read, the
  file descriptor a finished transfer leaks, requests larger than the receive
  buffer, and the bytes of requests and headers.
* HTTP parser: `http_method_str`; bytes above 127; `s_body_identity_eof`, which this
  build cannot reach.
* Shell: how lines are read and words expanded (text handling); the lexer; failures
  of `pipe` and `dup2`; a command that reads only part of its input; `cd` with several
  arguments.
* libc: what system calls do to files; `exit`; the wrapping of `nmemb * size`; the
  overflow of `int` lengths in string routines.

Not modelled at all: the socket and epoll wrappers as a part of their own (their
effects are steps of `AwsServer`), the samples of the server, test programs,
checkers, the graph programs' logging library and the allocator's `printf`: they
are vendored or support code, not the programs' own logic.

## 7. What is left

* `create_graph_from_file` as a reader of a stream of numbers that may end or be
  malformed anywhere.
* Runs of the allocator and the server beyond their first fault, once the
  repository says what should happen there.
