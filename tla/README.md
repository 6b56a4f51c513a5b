# A TLA+ verification project for rcutils

rcutils is the C utility library under every ROS 2 process: containers with
explicit allocators, process-wide logging, thread-local error state, a fault
injection counter for tests, and thin wrappers around the operating system. This
directory holds TLA+ models of its stateful parts, TLC configurations that check
them on small instances, and proofs that TLAPS checks for every instance. Paths
are relative to the repository root.

## 1. Inventory

| Component | State | Operations | Shared with |
|---|---|---|---|
| fault injection (`src/testing/fault_injection.c`, `include/rcutils/testing/fault_injection.h`) | one process-wide atomic counter | `set_count`, `get_count`, `maybe_fail` (load, then a compare-and-exchange loop), `is_test_complete`; the macros `RCUTILS_FAULT_INJECTION_TEST` and `RCUTILS_NO_FAULT_INJECTION` | every thread; checkpoints sit in the allocator, the containers and logging |
| hash map (`src/hash_map.c`) | capacity, size, an array of buckets, each an array list of pointers to entries | init, fini, set (and its growth loop), unset, get, key_exists, get_next_key_and_data | built on the array list; logging keeps levels in one |
| array list (`src/array_list.c`) | size, capacity, an array of cells | init, fini, add (doubles when full), set, remove, get, get_size | |
| string map (`src/string_map.c`) | capacity, size, an array of key/value slots with holes | init, fini, reserve, clear, set, set_no_resize, unset, get, getn, get_next_key, copy | |
| logging (`src/logging.c`, `include/rcutils/logging.h`) | initialized flag, default level, output handler, severities map with its validity flag, format string and list of handlers, all global and without a lock | initialize, shutdown, set / get levels, effective level, log, output handler, format | hash map; every thread that logs |
| logging macros (`resource/logging_macros.h.em`) | static variables per call site (once, skip first, throttle) | the generated `RCUTILS_LOG_*` | logging, time |
| error handling (`src/error_handling.c`) | per thread: error state, its lazily formatted string, two flags | set, get_state, get_string, is_set, reset | every component reports through it |
| char array, uint8 array (`src/char_array.c`, `src/uint8_array.c`) | buffer, length, capacity, and whether the char array owns its buffer | init, fini, resize, expand, vsprintf, memcpy, strcpy, strncat | logging formats into char arrays that begin on its stack |
| string array (`src/string_array.c`, `src/qsort.c`) | size, an array of owned strings, some of them missing | init, fini, resize, cmp, sorting | `split` returns one |
| string utilities (`split.c`, `repl_str.c`, `find.c`, `format_string.c`, `strdup.c`, ...) | none | pure functions with allocation | string array |
| time (`time.c`, `time_unix.c`) | none | read a clock; write a time point as nanoseconds, seconds or date | log lines, the throttle condition |
| filesystem (`filesystem.c`) | during a walk: the list of directories still to visit, an open directory | directory size, directory iterator, mkdir, tests and paths | other programs change the tree |
| shared library (`shared_library.c`) | handle, path, allocator; the linker's pending error | load, get_symbol, has_symbol, unload | `dlerror` is shared by all callers |
| env, process, sha256, strerror | none | wrappers of system calls, one fixed computation | |

**What is hard.** Three things recur. *Allocation failures*: nearly every call
allocates in the middle of changing a structure, and tests reach only some of the
failing steps; each has to leave the structure as it was and free what it took.
*Positions*: arrays grow, shrink, have holes and are searched by hash, by prefix
or by separator, and the code keeps several offsets and lengths in step.
*Unsynchronized state*: the counter is atomic, logging and the static variables
of its macros are not; logging may be initialized by whichever call comes first,
and the file system changes while it is walked. There is no persistence, no
network and no timer in the library's own logic, so there is nothing to model for
those.

**What makes each component correct.** The counter fails exactly the checkpoint
it counts down to, once per setting; the test macro makes every checkpoint fail
once and ends. A map or list is the dictionary or sequence its header promises,
through growth and failed growth, and owns each block once. The effective level
of a logger is that of its closest ancestor with a level; a message that a handler
receives is of at least that severity; setting one logger's level leaves the others
alone. Messages that threads log at the same time come out whole, and a line is
printed whole or not at all. An array holds what was put into it, followed by its
end, and one block. An error string belongs to the last error. What is split,
replaced, measured or written as text is what a one-line definition says it is.
`PROJECT.json` lists the hazards line by line.

## 2. Modules

| Module | Models |
|---|---|
| `FaultInjection` | the counter and any number of threads at checkpoints: one action per atomic access |
| `FaultInjectionTest` | the test macro and the pause macro, driving `FaultInjection` from one tester whose code passes `Points` checkpoints |
| `KeyValueStore` | abstract: a dictionary and a traversal of it, as `hash_map.h` promises |
| `HashMap` | `src/hash_map.c`; implements `KeyValueStore` (`Store`) |
| `NextPowerOfTwo` | `next_power_of_two` of `src/hash_map.c`, shift by shift, on words of `Width` bits |
| `ListStore` | abstract: a sequence |
| `ArrayList` | `src/array_list.c`; implements `ListStore` (`Store`) |
| `StringMap` | `src/string_map.c`, several maps, because copy takes two |
| `Logging` | `src/logging.c`: one caller, all of levels, initialization and dispatch |
| `LogFormat` | `src/logging.c`: `create_format_string` and `parse_and_create_handlers_list`, one action per iteration, through repeated initializations |
| `LoggingThreads` | `src/logging.c`: threads inside `rcutils_log`, one action per access to a global |
| `CharArray` | `src/char_array.c` and `rcutils_reallocf`: a buffer that is the caller's, the array's own, or none, byte by byte |
| `LogOutput` | `src/logging.c`: the console output handler, which formats a message and a line into two char arrays (it EXTENDS `CharArray`), one action per part |
| `Uint8Array`, `StringArray` | `src/uint8_array.c`; `src/string_array.c` with the comparison for sorting |
| `ErrorHandling` | `src/error_handling.c` and `error_handling_helpers.h`: one thread's error state and string |
| `LogMacros` | `resource/logging_macros.h.em`: threads at one call site of a conditional macro, one action per access to its static variables |
| `Split`, `ReplStr` | `src/split.c`, `src/repl_str.c`, one action per iteration |
| `TimeString` | `src/time.c`, `src/time_unix.c` |
| `DirectorySize` | `src/filesystem.c`: the walk of a directory tree, one action per system call, while another program removes entries |
| `SharedLibrary` | `src/shared_library.c`: handles, paths and the pending error |
| `Buffers` | the three arrays together: the blocks of memory they hold (`BuffersAreAccounted`) |
| `FaultInjectionProofs`, `ArrayListProofs`, `HashMapProofs`, `StringMapProofs`, `LoggingProofs` | theorems about the module of that name (the first one also about `FaultInjectionTest`, the third one about `NextPowerOfTwo`) |
| `ThreadsProofs` | theorems about `LoggingThreads`, `LogMacros` and `ErrorHandling` |
| `ResourceProofs` | theorems about the arrays of `Buffers`, about `LogOutput` and about `SharedLibrary` |
| `UtilitiesProofs` | theorems about `Split`, `DirectorySize`, `ReplStr`, `TimeString` and `LogFormat` |
| `MC...` | constants for TLC; `MCArrays`, `MCUtilities`, `MCSequential` (these two together) and `MCThreads` put several components into one run (section 3) |

A call is one action where its structure belongs to one caller (the headers say
that the containers are not thread-safe); `rcutils_array_list_init` is two, one for
each of its allocations. A loop whose steps can fail or whose
termination is in question is one action per iteration: the growth of the hash
map, the copy of string maps, the walk along a logger's ancestors, the decoding
and cutting of the output format, the parts of a log line, the tokens of `split`,
the matches of `repl_str`, the entries of a directory, the retry of the counter.
Threads, and programs that change the file system, interleave only where the code
lets them.

*Allocation.* Every allocation is a disjunct that may fail; `MaxCapacity`,
`MaxBuffer` and `MaxBytes` make the ones beyond the bound always fail. `live` (in
`Logging`: `keys`, in the others `...Blocks` or the field `blocks`) counts blocks,
so that a leak or a double free shows as a wrong count; in `ArrayList` it is the set
of them, an array being told by its size. The allocator itself
(malloc) is external.

*Data.* Values, items and messages are model values. Keys of string maps and
logger names are sequences of characters, since the code compares prefixes and
cuts at separators. The hash function is a constant chosen so that keys collide.
Calls with NULL arguments, which return before touching anything, are left out.

State and actions, where the names alone do not say it:

- `HashMap`: `list[b]` and `room[b]` are bucket `b`'s array list (contents and
  capacity); `stage`, `new_list`, `new_room`, `map_index`, `bucket_index` are the
  locals of `hash_map_check_and_grow_map`; `cursor` and `seen` belong to a caller
  that iterates. `SetNew`, `SetFails` and `SetExisting` are the ways into
  `rcutils_hash_map_set`, `Grow` its trailing growth, `SetReturns` its end.
- `StringMap`: `sm[m].pairs` is the array of slots; `copying` is the copy in
  progress; `cut[m]` records that a reservation cut off pairs of `m` (see the
  findings), after which its size and its blocks cannot be right any more.
- `ArrayList`: `array` is the number of cells that were allocated, `capacity` what the
  list believes it is.
- `Logging`: `g` is the record of globals; a level in the map carries the mark
  bit of `add_key_to_hash_map`; `walk` is the loop of
  `rcutils_logging_get_logger_effective_level`; `InitOutcomes` are the ways an
  initialization can end, all of which `RCUTILS_LOGGING_AUTOINIT` goes on from: the
  handler and the default level are reset even where it fails, so a handler the user
  has set is lost.
- `LogFormat`: `buffer` is the static buffer, `decode` the locals of
  `create_format_string`, `at` and `handlers` those of the parser with the list in
  `g_handlers`; a literal part is a handler with an empty token. The value of the
  variable is preceded in memory by its name, which is what reads before its
  beginning find. Once the buffer is left, the stage is `"undefined"` and nothing
  follows.
- `CharArray`: `chars.buffer` says where the buffer is: `"null"`, the `"caller"`'s,
  on the `"heap"`, or freed while the array still points to it (`"dangling"`; see
  the findings); after that only `fini` is called. Either `vsnprintf` may fail. `text` is the string the calls so far
  have put together; a call that is refused leaves it as it was.
- `LogOutput`: `outStage` is the position in the handler, `line` the handlers
  still to be called. The literal parts and tokens are those that `LogFormat`
  produces; what a token expands to is a constant, and nothing for a name or a
  location that is missing.
- `ErrorHandling`: strings are sequences of characters cut at `MessageMax`, `FileMax`
  and `StringMax`; `, at ` and `:` are one symbol each, digits are numbers, and a line
  number is at most `UINT64_MAX`. `lastError` is what the last call that set an error
  was given, before anything is cut.
- `LogMacros`: `conditions` are the `condition_before` macros the call has still to
  pass, in the order of `feature_combinations`; a message that passes them all is
  taken to be logged.
- `DirectorySize`: `dirList` is `dir_list`, `unread` what `readdir` will still
  return. An entry may disappear between any two system calls; a directory that is
  removed after `opendir` is an `"orphan"`, which has no entries even if one of the same
  name is made. The tree is `Parent`
  with `DepthOf`, one more than the parent's; sizes are numbers of bytes, so that
  the size of a set of files is the number of their bytes.
- `NextPowerOfTwo`: `bits` is `v`, bit by bit, until it is returned, `shifts` the loop
  counter `i`.
- `TimeString`: `snprintf`, `localtime_r` and `strftime` may fail.
- `SharedLibrary`: `dlError` is what `dlerror` would return; `OtherError` leaves
  one there, as a failed call elsewhere in the process does.
- `LoggingThreads`: `handlers` is the prefix of `g_handlers` in use. Of what an
  initialization writes, the format string (always the same one), the default level and
  the map's valid flag are left out; no property depends on them. The data
  races on globals are resolved as interleavings of whole accesses; C leaves more
  outcomes open, so a safety property that fails here fails in the code, and one
  that holds where the threads only read (`initFirst`) has no race to resolve.

## 3. Runs

| Run | Bounds | Shows |
|---|---|---|
| `fault_injection` | 3 threads, counts -2..2, fair; a test of 4 checkpoints, each inside or outside a pause | `AtMostOneFailure`, `ExactCountdown`, `RetryEnds`; `EveryPointFailsOnce`, `OneFaultPerRun`, `TestTerminates` |
| `hash_map` | 4 keys in 2 hash classes and one colliding at every size, 2 values, capacities 1 to 8 | `MapIsSound`: entries are counted, distinct, within their buckets, and growth loses none when it fails midway; `EveryEntryIsFound`; `MemoryIsAccounted`; `ImplementsStore`; `SetTerminates` |
| `sequential` | list: 3 values, capacity up to 4, indices beyond it; char array: strings of up to 2, capacity up to 8; log line: stack buffers of 2, up to 4 parts; byte array up to 3; 2 string arrays of up to 2 strings; all 256 words of 8 bits; all formats of up to 4 characters out of a letter, backslash and braces, and 8 longer ones, buffer of 9, 3 handlers, 2 initializations; all strings of up to 6 to split, of up to 5 to search; time points around the ends of seconds; a tree of depth 3; 2 libraries | `ItemsAreWritten`, `MemoryIsAccounted`, `ImplementsList`; `StringIsKept`; `LineIsWhole`; `BuffersAreAccounted`, except for finding 4; `CmpIsAnOrder`; `RoundsUp`, `FormatIsRead`, `TokensAreTheRuns`, `EveryMatchIsReplaced`, `TimeCanBeReadBack`: each against a reference definition; `SizeIsOfTheTree`; `LibrariesAreSound` |
| `string_map` | 2 maps, keys "a" and "ab", 2 values, capacity up to 2 | `MapsAreSound`: sizes, keys, the code's assertions; `MemoryIsAccounted`; `FailureIsContained`; `CopyIsComplete`; `CopyTerminates` |
| `logging` | names "", "a", ".a", ".a.b"; levels 0, 10, -1 | `EffectiveLevelIsNearest`, except for finding 6; `HandledIsEnabled`, `SettingIsLocal`, `StateIsConsistent`, `SearchEnds` |
| `threads` | 2 threads, a format of 3 parts; 2 callers, 2 calls each, clock up to 4, interval 2; messages around the length of the buffer, lines 0, 7, 10, 99 | `ThreadsAreServed`, `EveryLogReturns`; `FirstCallIsSpecial`, `ThrottleKeepsInterval`; `ErrorStringIsCurrent` |
| `string_map_truncates`, `log_format_tail`, `logging_threads_race`, `char_array_dangling`, `time_milliseconds`, `default_level` | violations | findings 1 to 6 |

`MCSequential` and `MCThreads` join components that share no state but the allocator:
they let each of them move while the others are as in the beginning, so that a run explores the sum of their state spaces and
not the product. `MCSequential` is `MCArrays` and `MCUtilities`, of which two of the
findings are runs of their own. `MCThreads` adds to the threads that log, once they are done, the
macro and the error state; `MCFaultInjection` runs the test first and then lets
the threads loose on the counter. `LogOutput` is composed with `CharArray`, on
whose operators all of its steps are built.

Why the bounds suffice. *Counter*: three threads give a winner, a loser and a
thread that sets the counter between the two; counts up to 2 let the countdown
pass through every case more than once. *Hash map*: from capacity 1 the map
doubles to 8 with four keys, two of them with equal hashes and a third one that
shares their bucket at every capacity, so buckets outgrow their initial two cells
while the table grows. *Array list*: from one cell to four is two doublings, with
removal at either end and in the middle. *String map*: two slots have a hole below
a pair, a full array and a shrunk one; one key is the beginning of the other.
*Logging*: the names give ancestors two levels up, the empty name, a leading
separator and a name that begins with another without descending from it; -1 is a
legal default level and the error value of the search. *Format*: the
letter is an escape, a token's name and plain text at once; the longer formats mix
escapes of both lengths with text, nest braces, do not fit, or need more handlers
than there are; the second initialization starts from whatever the first left.
*Threads*: two are a thread that logs and one that initializes at any of its
steps, and every initializer takes the same steps; three parts let a message be
formatted in the middle of a list that is being rebuilt. *Char arrays*: from a
borrowed buffer of any size up to 3 the strings need one move and two growths;
the log line adds a color, so that each step of the handler can be the one that
leaves the stack. *Splitting, replacing*: six characters hold two tokens with
delimiters doubled between them and at both ends; five characters and patterns of
two hold overlapping matches, and replacements are shorter, as long and longer;
the cache of positions grows by 1, then 2, and is at its limit. *Time*: fractions
of 4 digits are the fewest with a digit behind the milliseconds. *Directories*: a
file at each of three depths, sizes that add up in one way only, and as many
removals as it takes to remove an inner directory. *Error strings*: messages and files that fit their
buffers and that have to be cut; `UINT64_MAX` is 99, two digits instead of 20. `MaxLost`, `MaxLeak`,
`MaxCapacity`, `MaxBuffer`, `MaxBytes`, `MaxInits`, `MaxClock`, `MaxCalls`,
`MaxRemoved`, `MaxCloseFailures` and `Points` are the only bounds on otherwise
unbounded counters.

**Fairness.** Only the liveness properties need it. `FaultInjection`: a thread
inside `maybe_fail` keeps running, which any scheduler grants. `FaultInjectionTest`:
the tester runs. `HashMap`, `StringMap`, `Logging`: a sequential loop goes on;
the copy of string maps must end by itself, so the fairness is on its successful
steps and a failing allocation never rescues it. `LoggingThreads`: every thread
runs; no step of it blocks (`MCThreads` keeps that fairness). `RetryEnds` is conditional: while callers set the
counter again and again, the lock-free loop may retry for ever.

Deadlock checking is off where the modelled program ends: `MCSequential`, `MCArrays`,
`MCUtilities` and `MCLogFormat` (the line has been printed, the functions have returned),
`LoggingThreads` and `MCThreads` (all calls have returned), and `Logging`.

Every property has a mutant in `PROJECT.json`: a variant of one definition with a
plausible slip (marked `Mutant` beside it) under which TLC finds the property
violated.

## 4. Findings

1. `string_map_truncates` (`src/string_map.c:161`). `rcutils_string_map_reserve`
   with less than the capacity reallocates to the number of pairs, not to the slot
   behind the last pair. With holes, pairs are cut off: they stay in `size`, their
   strings leak. `string_map.h` promises that none is truncated.
   The run `string_map` shows that sizes and blocks are right until then, and
   (`MapsAreSound`) that the `assert`s of `set_no_resize` survive it.
2. `log_format_tail` (`src/logging.c:476`). The format is copied into a static
   buffer without a NUL behind it. After a shutdown and an initialization with a
   shorter format, messages end in the tail of the longer one.
3. `logging_threads_race` (`src/logging.c:746`). `rcutils_log` is documented as
   thread-safe with itself; when two threads log first, one zeroes the map and
   rewrites the handlers while the other logs, and messages are dropped or
   garbled. `ThreadsAreServed` shows that initializing logging before starting
   threads is enough.
4. `char_array_dangling` (`src/char_array.c:105`). When an owned buffer cannot be
   enlarged, `rcutils_reallocf` frees it, and the array keeps the pointer, its
   capacity and `owns_buffer`: `fini` frees the buffer again. The console output
   handler does this whenever its second growth fails.
   `BuffersAreAccounted` says nothing of a char array in that state; it shows that
   nothing else in the three array types leaks or frees twice.
5. `time_milliseconds` (`src/time.c:94`). The date string takes the first three
   characters of the nanoseconds written without leading zeros: 5 ms past a second
   are shown as `.500`. `TimeCanBeReadBack` shows that the other two forms are
   exact.
6. `default_level` (`src/logging.c:1176`). Setting the level of the logger "" stores it
   in the map and in the default level; `rcutils_logging_set_default_logger_level`
   changes only the second. The effective level of "", and of names that begin with a
   separator, is then the old one, where `logging.h:338` and `373` make the empty name
   another word for the default level. `EffectiveLevelIsNearest` and `HandledIsEnabled`
   leave out names whose search ends at such a stale entry (`StaleFor`), and hold for
   all others.

Met while modelling, and not the subject of a run:

- A backslash before a character that is no escape (`src/logging.c:525`) is counted
  in `start_offset_previous_not_copy`, which the final copy subtracts from an
  offset that never included it: the text is lost, or copied from before the
  format. `FormatIsRead` excludes such formats; the model has them.
- `logging.h:53-58` says that a failed initialization still counts as one, and
  `logging.h:101-103` foresee logging that is initialized without a map; the code
  returns with the flag unset, and every later call tries again. `StateIsConsistent`
  takes no side: it says that a valid map is there only while logging is initialized,
  not that logging is uninitialized without one.
- `rcutils_string_map_getn` compares as many characters as the longer of the two
  lengths (`src/string_map.c:258`): `getn("ab", 1)` finds the key "ab"
  (`GetnFindsTheKey` in `StringMap` says that it does not).
- `char_array.h:91` says that `fini` has no effect on an array that does not own
  its buffer; the code resets it all the same. An array that leaves a borrowed buffer of
  capacity 0 writes the NUL in front of its new buffer (`src/char_array.c:118`);
  an owned array that shrinks keeps no NUL at all. `StringIsKept` leaves out
  strings the caller cuts off.
- `rcutils_string_array_init` sets `size` before it allocates and leaves it set
  when that fails (`src/string_array.c:52`); `split` passes such an array on.
- The throttle condition loses its interval when the clock fails (it stores 0) or
  when calls overlap, and ignores calls while the clock is smaller than the
  interval; `ThrottleKeepsInterval` is about calls that do not overlap, and begins
  anew with the first call that is alone. The code compares with `>=`, so a call exactly
  the interval after the last message is logged; `logging.py:65` and the comment above
  the macro say that a message is ignored when the last one is "not longer ago than
  the specified duration", which taken literally includes that call. The property follows
  the code.
- `rcutils_split_last` of "//a" formats its first part with size 0, which leaves it
  unwritten (`LastPartsAreWritten` in `Split`), and with no inner delimiter it keeps
  a trailing one.
- `rcutils_time_point_value_as_date_string` refuses buffers below 32 characters,
  where `time.h` says that the string is truncated; `llabs` of the smallest time
  point is undefined.
- `rcutils_get_symbol` does not clear the pending error first
  (`src/shared_library.c:206`), so that with a linker that keeps errors until
  `dlerror` is called, as POSIX has it, it refuses a symbol that is there
  (`GetSymbolFinds` in `SharedLibrary`); `unload` forgets the handle when
  `dlclose` fails.
- `filesystem.h:266` says that an iterator starts at its first entry. In a directory that is
  removed between `opendir` and `readdir` it has none, and its NULL name is
  compared (`src/filesystem.c:390`; the stage `"undefined"` of `DirectorySize`). A directory
  removed after it was listed makes the whole walk fail; an error of `readdir` in
  the middle of a directory is taken for its end.
- The macros that append the previous error append "error not set" when there is
  none (`error_handling.h:319`).

## 5. Proofs

`FaultInjectionProofs`, for every set of threads and counts:

- `TypeCorrect`: `TypeOK` is inductive; its point is that no race takes the
  counter below `NEVER_FAIL` unless a caller set it there.
- `CountdownIsExact`: `TypeOK /\ ExactCountdown` is inductive. The exchange
  succeeds only if the counter still is the value that was loaded, so whatever
  happened in between, the turn is taken from the current value; the failing
  turn is number `value + 1` and afterwards the counter is `NEVER_FAIL`.
- `OneFailure` follows from it.

`ArrayListProofs`, for every set of items, capacities and positions, from
`ListAssumption` (markers are no items, capacities are numbers) and
`NotASequence` (NULL is no sequence, which the refinement needs to tell a list
that is not there from one that is empty):

- the inductive invariant `Inv` is `TypeOK`, `ItemsAreWritten` and
  `MemoryIsAccounted` together with `impl => capacity >= 1` and the empty state of
  a list that is not initialized. Capacity at least one is what makes doubling
  grow the array; `ItemsAreWritten` alone is not preserved by `AddItem` without it.
- `TypeCorrect`, `WrittenItems`, `AccountedMemory`: its consequences. The last one says
  which blocks are in use, also between the two allocations of init and when a
  reallocation has failed.
- `Implementation`: `Spec => ImplementsList`. Each action of the array maps to
  one of the sequence (`AddRefines`, `SetRefines`, `RemoveRefines`), failures and
  queries to stuttering steps on the sequence; the sequence is read off the first
  `size` cells.

`FaultInjectionProofs` also proves the test macro, for every number of checkpoints
(`PointsAssumption`) and a tester that is one of the threads (`TesterAssumption`):
`EveryPointFails` (`[]EveryPointFailsOnce`) and `OneFaultInEachRun`
(`[]OneFaultPerRun`). The inductive invariant `TestInv` ties four pieces of state:
inside a pause the counter is `NEVER_FAIL` and the value it had is saved
(`BlockInv`); what a checkpoint loaded is still the counter, since the
tester is alone (`CheckpointInv`); the counter, or the saved value, is what is
left of the run's number after the checkpoints passed outside the pause (`RunInv`);
and exactly the points of the runs so far have failed, once each (`FailedUpTo`).

`HashMapProofs`, for every set of keys and values, every hash function and every
capacity, from `KeyAssumption` (keys are finitely many, NULL is none), `HashAssumption`,
`CapacityAssumption` (a power of two within the bound is there for every initial
capacity) and `MaskAssumption` (doubling keeps a power of two, and `hash & (capacity -
1)` is then the remainder: arithmetic on bits is beyond the prover, so `&` is a
constant operator, the assumption is all the proofs know of it, and TLC evaluates the
assumption with the operator on bits):

- `Inv` says of the table and, while it grows, of the half-filled new one that they
  are bucket arrays: every entry is in the bucket of its hash, no key is there
  twice, no bucket has more entries than cells. The new table is a part of the old one
  (`RehashKeepsEntries`), which is why a rehash that fails midway can be forgotten,
  and at the end holds all of it (`AllMoved`). Size and blocks are counted.
- `HashMapSound`, `EntriesFound`, `HashMapMemory` follow: what `set` stored, `get`
  finds, across collisions, removals and growth.
- `HashMapImplementsStore`: `Spec => ImplementsStore`. One lemma per operation on
  what it does to the dictionary that is read off the buckets (`DictAppended`,
  `DictReplaced`, `DictRemoved`); growth is a stuttering step. The traversal needs an
  invariant of its own (`TraversalInv`): the keys given so far are those up to the
  position of the last one, in order of bucket and place.

`StringMapProofs`, for every set of maps, keys, values and capacities, from
`StringMapAssumption`:

- `Inv`: every map is `Sound` (keys without repetition, a value for each key, the
  size never more than the slots); as long as `reserve` has cut no pair off (finding
  1) its size is exact and `live` is the number of blocks it holds; and a copy in
  progress is between two maps that are there. `MapsSound` and `MemoryAccounted` follow; the
  `assert`s of `set_no_resize` hold even after finding 1.
- `FailuresContained` and `CopyComplete` are action properties. A call on one map that
  reports a failure leaves every pair as it was, though the map may have grown; only
  `fini`, when it cannot finish, has removed the pairs of its map. A copy that fails has
  left the pairs of the slots it has passed in the destination (`string_map.h:421`), what
  was there before under every other key, and other maps alone. A copy that ends well has
  overwritten exactly the keys of the source. Both need that a copy in progress has transferred the pairs up to the slot it is at and no
  other (`PartialCopy`), also when a map is copied to itself.

`LoggingProofs`, for every set of names and levels, from `LoggingAssumption`:

- `Inv`: the globals are consistent, every key of the level map is owned or counted
  as lost, and `WalkInv`: every ancestor of the name asked for that has a level
  is shorter than the prefix the walk has come to, so the first one met is the
  nearest. Cutting at the last separator leaves no ancestor out
  (`NextAncestorIsNext`).
- `StateConsistent`, `NearestLevelFound`, `HandledEnabled` and the action property
  `SettingLocal`: setting a level changes the entry of no other logger. `HandledEnabled`
  is about messages that a handler receives (enabled, logging initialized, the handler
  in place) and those dropped as disabled (below the level); a message can also be lost
  for want of a level, a time or a handler, of which it says nothing.

`ThreadsProofs`, for any number of threads and parts of the format, from
`ThreadsAssumption`: when logging was initialized before the threads start, none
writes a global and what each has formatted is the beginning of the format
(`InitializedIsStable`); when they race to initialize it, the map is missing only
while one of them is about to make it (`MapComesBack`). `ThreadsServed` follows from
the two.

For the macros, with any number of callers and calls, from `MacroAssumption`.
`FirstIsSpecial`: whoever sets the flag of `_ONCE` is on the way to logging, whoever
clears that of `_SKIPFIRST` ignores its call, and a call that begins after another
was decided finds the flag used up (`OnceIsUsedUp`, `FirstIsUsedUp`).
`IntervalKept`: while calls do not overlap, the stored time is never behind the
last message, and a thread past the comparison has a time `Duration` ahead of all of
them (`IntervalIsAhead`); a call that is alone finds no other thread inside the macro
(`SerialPeriods`), so after an overlap the argument starts again.

For error handling, from `ErrorAssumption` (callers pass C strings; the digits of a line
number fit the buffer for them, as those of any `uint64_t` do):
`ErrorStringsAreCurrent` (`[]ErrorStringIsCurrent`). The invariant `ErrorInv` says
that the stored state is the last error cut to its buffers and that a string marked
as formatted is that state's; what setting, formatting and chaining keep follows from
it. The digits need a lemma of their own: the row that repeated division by ten leaves,
reversed, denotes the number.

`ResourceProofs`:

- `LibrariesSound` (`LibAssumption`): a struct has a path exactly while it has a
  library, every library opened is held by a struct or could not be closed, whichever
  step of loading or unloading fails; a symbol that is found is there.
- `CmpOrders` (`StringsAssumption`): for any sizes, comparing two string arrays the
  other way round gives the opposite (`CmpMirrored`), and zero means equal contents
  (`CmpEqual`).
- `TextKept` (`CharsAssumption`): for all strings and sizes, the string that the calls
  put together is in the buffer, and terminated, until the caller cuts it off or
  copies raw bytes in. The invariant `CharInv` relates the buffer, its owner and its
  length to the string. The functions of `char_array.c` call each other, so the proof
  goes bottom up: `ReallocatedFacts`, `MovedFacts`, `ResizedFacts`, `ExpandedFacts`,
  `WrittenFacts`, `FormattedFacts` say what each returns on success and on failure,
  and the actions follow from them.
- `BuffersAccounted`: no array loses a block or frees one twice, a char array whose own
  buffer could not be enlarged (finding 4) excepted, from
  `BytesInv`, `StrInv` (the blocks are the data and the strings of the entries of
  all arrays, counted as one finite set) and `CharInv`.
- `LinesAreWhole` (`OutputAssumption`): for every format, expansion, message and size of
  the two buffers on the stack, `[]LineIsWhole`. The invariant `OutInv` says of each
  stage of the handler that the output array holds the color and the parts expanded so
  far, each whole, and that both arrays are sound in the sense of `CharInv`; it rests
  on the facts about `char_array.c`, so that whichever growth fails,
  the line is given up and the blocks are freed.

`HashMapProofs` also proves `CapacityRoundsUp` (`[]RoundsUp`), for every argument and words
of any even number of bits (`WidthAssumption`). The invariant `RoundInv`: after some
shifts, that many bits from the highest bit of `v - 1` down are set, twice as many after
every iteration, and none above it; when the last shift is half of the word, all bits
below the highest one are set, and the number they are is one less than a power of two.

`UtilitiesProofs`, what the utilities compute, for every input:

- `SplitYieldsTheRuns` (`SplitAssumption`). `SplitInv`: the counter is the number of runs
  without a delimiter that end before the position reached, and the tokens so
  far are those runs.
- `DirectorySizeIsRight` (`EntryAssumption`, `TreeAssumption`), for every tree, depth and
  sequence of removals. The directories in the list, the entries not yet read and the
  files counted are apart from each other, and every file that stayed is in one of them or
  below one of them; so none is counted twice and none is left out.
- `MatchesAreReplaced` (`PatternAssumption`, `CacheAssumption`). `ReplInv`: the
  positions in the cache are the occurrences from the left, and what is copied so far
  and the rest with its occurrences replaced are the whole result.
- `TimesCanBeReadBack` (`TimeAssumption`). `TimeInv`: the time point is within the digits
  that a time point has; that a row of digits is read back to the number it was written
  for is a lemma on quotients by powers of ten.
- `FormatsAreRead` (`FormatAssumption`). `FormatInv`: while a format is
  decoded, what is written and the meaning of the rest are the meaning of the format,
  the three offsets agree, and on the first initialization all behind
  what is written is NUL; while the text is parsed, what the handlers spell
  and the pieces of the rest are the pieces of the text.

The reference definitions of these properties, and some definitions of the models, are
recursive functions. The prover knows of such a function only that it is a solution of its
equation if there is one; lemmas such as `UnrolledExists`, `LinearExists`, `JoinedExists` and
`StepsExist` show that there is one. They, and whatever else needs induction, argue with
the least counterexample (`LeastOf`, from the well-foundedness of the natural numbers),
which needs no rule with an operator as a parameter.

Only model-checked:

- liveness (`RetryEnds`, `TestTerminates`, `SetTerminates`, `CopyTerminates`,
  `SearchEnds`, `EveryLogReturns`): fairness is outside the prover;
- the assumption on `&` in `HashMap` (`MaskAssumption`), which TLC evaluates with the
  operator on bits.

## 6. Not modelled

- SHA-256 is a fixed computation on 32 bit words, out of TLC's reach. `strerror`,
  `strcasecmp`, `snprintf`, `strdup`, environment and process calls forward to
  the platform; `cmdline_parser` searches `argv`.
- `src/time_win32.c` and the Windows and macOS branches of `filesystem.c`,
  `shared_library.c` and of the console colors: the models follow the Linux build.
- Paths are nodes of a tree: `join_path`, `to_native_path`, `expand_user` and
  the access tests build or pass on text. Symbolic links are left out, so a
  tree is finite; that the walk does not follow them (`filesystem.h:221`) is not checked,
  and `stat` does.
- What time, line number, severity and location expand to in a log line are
  constants; `rcutils_logging_severity_level_from_string` changes no state.
- Threads inside a pause of the fault injection counter: a checkpoint that one of them
  passes there is forgotten when the count is restored, which `OneFaultPerRun` cannot see.
- `rcutils_repl_str` with an empty pattern, which does not end; transitivity of
  `rcutils_string_array_cmp`.
- The helpers of `stdatomic_helper` are macros over compiler intrinsics; an access
  is one step.
- NULL-argument checks and error messages are left out everywhere.

## 7. Plan

1. (done) The core: counter, containers, logging levels, output format and
   threads; their abstract specifications; proofs for the counter and the array list.
2. (done) The arrays and the console output on top of them, error handling, the
   logging macros, `split`, `repl_str`, time, directory size, shared libraries.
3. (done) Proofs: `HashMap` and its refinement of `KeyValueStore`, `StringMap`,
   `Logging`, threads, macros, arrays, shared libraries, the fault injection test.
4. (done) Proofs: the loops over data, that is the console output, the error string, the
   directory size, splitting, replacing, time strings, the output format, and rounding
   up to a power of two. Every safety property of the passing runs is the statement of a
   theorem.
