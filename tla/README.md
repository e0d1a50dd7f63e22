# asap_filesystem in TLA+

TLA+ models, TLC runs and TLAPS proofs about `asap_filesystem`, an implementation of
`std::filesystem` for C++11/14. The models are of the POSIX build on Linux (`ASAP_WINDOWS`
undefined, `ASAP_FS_USE_SENDFILE` 1). Paths below are relative to the repository root.

The library is sequential code over a file system that is not: almost every operation is
several system calls on *names*, and other threads or programs may change what a name leads to
between two of them. Three kinds of state outlive a call: the attributes cached in a
`directory_entry`, the stack of open directories of a `recursive_directory_iterator`, and the
decomposition a `path` stores beside its text. The project is about these, and about what several
system calls, of one call or of many, make of a tree.

## Inventory

| Part | Code | State | What is hard, what makes it correct |
|---|---|---|---|
| `directory_entry` | `include/filesystem/fs_dir.h`, `src/fs_dir_iterator.cpp:60-330` | `path_`, `cached_data_` (a cache type EMPTY/BASIC/EXTRA/FULL, a file type, flags, attributes) | Fillers called in any order by getters, each with an error object of its own; cached data must be one picture of the object, answers must be true of it |
| `DirectoryStream`, `directory_iterator` | `src/fs_dir_iterator.cpp:540-871` | `DIR*`, root, one reused `directory_entry` | `errno` protocol of `readdir`; the entry's cache is reused for every entry |
| `recursive_directory_iterator` | `src/fs_dir_iterator.cpp:876-1033`, `fs_dir.h` | `dir_stack`, options, `recursion_` | The stack must be the trail to the current entry through pops, disabled recursion, errors and changes of the tree; everything is visited, nothing twice; it ends |
| `remove`, `remove_all` | `src/fs_ops.cpp:1235-1337` | recursion stack, count (`uintmax_t`) | Races of two calls, links, errors deep in the tree, the arithmetic with `npos` |
| `copy_file` | `src/fs_ops.cpp:300-600`, `src/posix/file.cpp` | two descriptors, `stat` results, offsets | Decisions on names that move; partial transfers; fall back from `sendfile` to the loop |
| `copy`, links, symlinks | `src/fs_ops.cpp:176-296`, `:597-622`, `:753-806` | the recursion | Decision table over options and types at every level; errors in the middle; a source that changes; a directory copied into itself |
| `create_directory`, `create_directories` | `src/fs_ops.cpp:630-750` | stack of the missing levels | Races for each level of the chain; what is an error and what is another call's success |
| `permissions`, `last_write_time`, `resize_file`, `rename` | `src/fs_ops.cpp`, `src/posix/time.cpp` | none | `permissions` with add/remove is read, then write; links; times before the epoch; widths |
| `space`, `file_size`, `hard_link_count`, `is_empty`, `equivalent` | `src/fs_ops.cpp` | none | multiplication at the width of `uintmax_t`; two looks at a name |
| `canonical`, `absolute`, `relative`, `read_symlink`, ... | `src/fs_ops.cpp` | none | on POSIX thin covers of `realpath()`, `readlink()` and `path` |
| `path` | `src/fs_path.cpp`, `include/filesystem/fs_path.h` | the text and its decomposition (`cmpts_`, with positions) | edits that change text and decomposition separately: they must describe the same path; separators, dots, normalisation |
| errors | `src/fs_error.h`, `src/filesystem_error.cpp` | none | cleared, stored or thrown: part of every call |
| enumerations, times, portability | `include/filesystem/fs_*.h`, `src/posix/*.cpp` | none | bit operators, conversions |

Components interact by calls only. `recursive_directory_iterator` asks the cache of the entry
inside its innermost stream what to descend into; `remove_all` is a `directory_iterator` loop
that calls itself and `remove`; `copy` is a loop over a `directory_iterator` that calls itself,
`copy_file`, `create_directory` and the link operations; `create_directories` climbs with
`path::parent_path`; everything classifies `stat()` results through `posix/stat.cpp` and reports
through `ErrorHandler`.

`PROJECT.json` lists each component with its status, and each hazard at its line with the
properties that cover it or the reason there is none.

## Modules

| Module | Models | Extends |
|---|---|---|
| `EntryCache` | what one call does to `cached_data_`: fillers, getters, refresh, errors; pure operators | - |
| `DirectoryEntry` | a `directory_entry` and its program, while objects are replaced | `EntryCache` |
| `DirectoryStream` | the tree, `readdir`, opening and advancing a stream | `EntryCache` |
| `RecursiveIteration` | the iterator and the program that drives it | `DirectoryStream` |
| `EntryCacheProofs` | an inductive invariant each for the two objects that use the cache; five theorems about `DirectoryEntry` and four about `RecursiveIteration`, the refinement of `Traversal` among them | `RecursiveIteration`, `DirectoryEntry`, `TLAPS` |
| `Traversal` | abstract: what an iteration promises | - |
| `RemoveAll` | any number of `remove_all` calls on one tree, with other programs | - |
| `RemoveAllProofs` | five inductive invariants and six theorems about `RemoveAll` | `RemoveAll`, `TLAPS` |
| `CopyFile` | one `copy_file`, system call by system call, with other programs | - |
| `CopyFileProofs` | four theorems about `CopyFile` | `CopyFile`, `TLAPS` |
| `Path` | a `path`: text and stored decomposition, every member as an operator | - |
| `Levels` | the climb of `create_directories`: which levels it pushes | `Path` |
| `PathObject` | one object under any sequence of calls of its members | `Levels` |
| `PathProofs` | what is split off a text of any length; that every climb ends in a chain, and that edits keep text and decomposition in step | `PathObject`, `TLAPS` |
| `PathObjectProofs` | that equal paths answer alike, that edits undo each other, that `lexically_normal` yields the normal form, and that the relative path leads back | `PathProofs` |
| `CreateDirectories` | any number of `create_directories` calls, with other programs | `Levels` |
| `CreateDirectoriesProofs` | inductive invariant and four theorems | `CreateDirectories`, `TLAPS` |
| `CopyTree` | `copy` with its recursion, with other programs | - |
| `CopyTreeProofs` | the inductive invariants of a copy that others may disturb, of one they do not, and of a plain one; five theorems | `CopyTree`, `TLAPS` |
| `Attributes` | the operations on attributes, racing | - |
| `AttributesProofs` | eight theorems about `Attributes` | `Attributes`, `TLAPS` |
| `MC*` | instances for TLC | the module of that name |

Operators named `Mistake: ...` in their comment are variants of the definition that follows
them, with a plausible slip in the code. No specification uses them; `PROJECT.json` ("mutants")
says which property notices each of them.

### EntryCache and DirectoryEntry

A C++ member function that fills and answers is an operator from a *call* record to a call
record: the cache, how errors are reported (`"throw"` or `"ec"`), the error so far, the answer,
and whether an `ASAP_ASSERT` was false. An exception stops the chain, an error code does not, and
each filler's own `ErrorHandler` clears the code first, as in the source. Sizes, times, link
counts and permissions are abstracted to *stamps* `<<path, version>>`: the `stat()` the value
came from. This is exact for the properties, which ask only whether two values were read
together and when.

`DirectoryEntry` has one action per operation: `Assign` (`assign`, `replace_filename`, `refresh`,
in both error modes), one for each getter, and `Replace` for the rest of the world. The queries
`exists`, `is_directory`, `is_regular_file`, ... are all `FileType`, since all of them ask `GetFileType`.
`fs[p]` remembers what `p` has named since the beginning, so that properties can say "at one
moment since the last refresh". An object has two types, what `lstat()` and what `stat()` say of it, so that a
query that follows links and one that does not are asked about different things.

### DirectoryStream, RecursiveIteration, Traversal

A stream is a record (root, entries still to come, current entry, the entry's cache). `readdir`
returns entries in any order. An entry removed while the stream is open may or may not still be
returned, which is what POSIX allows, so a stream may end when only removed entries are left.
Opening gives a set of streams and a set of errors. `Increment` is the whole of
`do_increment`: classify by the entry's own cache, recurse or not, and otherwise `Advance`, which pops
every exhausted stream. An iterator without `impl_` is `pc = "end"`.

An increment is atomic in the model. Within it the code looks at the file system up to three
times (classify, open, read the first entry); the actions have already the nondeterminism an
interference between these calls would add to what they see at the entry - it may be gone, closed
or no longer empty between the increment that stood at it and the one that descends - but not
a change between the calls of one increment.

`Traversal` is the promise of the class comment, whatever happens to the tree: a node is stood
at once, its parent before it, the end is final. `RecursiveIteration` implements it
(`ImplementsTraversal`), with `at` mapped to the entry of the innermost stream, or the root when there
is no stream.

### RemoveAll

`frames[c]` is the C++ stack of call `c`. A frame goes through `stat` (`symlink_status_impl`), `open`
(the `directory_iterator`), `scan` (its loop) and `unlink` (`remove_impl`), one system call a
step, so that two calls, and programs that create, unlink or replace, interleave between any two. A node is a
*path*. Another program may move a directory away and put a link to another directory in its place (`Relink`):
`lstat()` takes it for a link from then on (`IsDirectory`), while `opendir()` and every name below
follow it, and what is `present` behind it is what the other directory shows. `swapped` holds these directories,
`caught[c]` those that call `c` had already taken for directories and was about to read, or was reading, when it
happened: the code cannot notice, and unlinks what is behind. An entry
created after the directory was opened may be returned or not: `Scan` chooses at once which of the
later ones will be. Counts are `uintmax_t` of `Modulus` values. What is assumed of the constants is what
a file system is: `Parent` leads up from every node of the tree to its root (`ClimbAssumption`), an entry of a
directory that is made later is made later too (`OthersAssumption`), and the nodes can be counted in
a `uintmax_t` (`WidthAssumption`).

### CopyFile

Two names lead to inodes, and may be symlinks: `lstat` sees the link and `stat` and `open` what it
leads to. Contents are sequences of blocks. Every system call of `copy_file_impl`,
`do_copy_file_sendfile` and `do_copy_file_default` is an action; descriptors keep their inode when a
name moves. A transfer may move any positive number of blocks; that a `write()` was short is remembered, and so is how
often the target's name was moved between the two looks at it (`swaps`). `io_fails` says whether calls may
fail in this behaviour. (It is chosen in `Init`: in a behaviour without failures, fairness cannot
force one.)

### Path, Levels, PathObject

A `path` keeps its text and a decomposition of it with positions. `Path` has both: a record of
`str`, `cmpts` and `type`, over an alphabet of the separator, the dot and one other character. Most
members build a text and split it again (`Split`, which goes through the text once, as the loop of
`SplitComponents` does: `Scanned` is one turn); `ParentPath`, `RemoveFilename` and
`LexicallyNormal` edit the decomposition, `RelativePath`, `RemoveFilename` and `ReplaceExtension` cut the text
at remembered positions, as the code does. A local variable that is returned by name is either
constructed in place or moved, and the move constructor splits the text again: `Returned` has both,
since a build may do either. Where the code reads before the first component, the step takes every
outcome and says so (`fault = "undefined"`).

`PathObject` is one object on which a program calls anything, storing each result back.
`Levels` is the first half of `create_directories`: climbing by `parent_path` and stacking levels.

### CreateDirectories

Calls on overlapping paths, each `stat()` and `mkdir()` a step, while other programs create and
remove. The levels of a call come from `Levels` once, when the call starts (`Plan`): they depend on
the text alone. `Trail` is the kernel's lookup of a text, name by name, so that a call
meets a file, a hole or a closed directory on its way where `stat()` would. `removed` remembers that
something was taken away; `made` remembers what each call's `mkdir()` made.

### CopyTree

One `copy` as a stack of `copy_impl` calls. `Look` is the pair of `stat()`/`lstat()` and the
decision; every call it leads to is an action. `copy_file` is two, since it looks at the target and opens it
later: `LookAtFiles`, its look and its decision, and `WriteFile`, its `open()`, its second look and the transfer,
of which `CopyFile` shows the rest. `looked` is what the first has seen. `readdir()` may fail, other programs make and remove between any two steps. A node
has an id, shared by hard links; contents are named after the file they came from, so that "is a
copy of" is an equation. Names are bounded by `MaxLen`, which is `PATH_MAX`: the code relies on it
to end a directory that is copied into itself. A tree to start from has everything in a directory, the id
of a file is one of the places it is at, and no symlink leads to another, since a lookup goes to the end of a
chain anyhow (`TreeAssumption`); `Reached`, the kernel's lookup, is a recursive function
of the number of names taken.

`PlainStart` is a copy that has no reason to fail: directories and files only, to a name that is free,
with a place for each image that is not too long (`HasRoom`), and not asking for symlinks. `Plain`
adds that nothing has interfered and every directory could be read to its end.

Of other starts `SuccessMeansCopied` says as much as the code can promise, and says for which: those that
are `Apart`. Neither of source and target is in the other; no symlink is on the way to a place at or below the
target (`Direct`), and none that the copy looks through, in the source or on the way to it (`OnTheWay`), leads
there; and a file that `overwrite_existing` may
write has no other name, since two files of the source would be written over each other. Links on the way to the
source were missing here until the attempt to prove the property: where they lead is changed by a copy to there,
and the rest of the copy reads another source. A copy without an
error into the source itself is only excluded where no symlink is on the way (`IntoItself`).

### Attributes

Each system call of `permissions`, `last_write_time`, `resize_file`, `rename`, `space` and the queries is a
step; calls race. Names lead to inodes through links. Integers have the width of the module:
`Modulus` values for `uintmax_t`, half of them not negative for `off_t` and `file_time_type`, `Ticks` per
second. Multiplication wraps.

## Runs

| Run | Question | Instance | Result |
|---|---|---|---|
| `EntryCached` | every sequence of refreshes, assignments and queries under replacement | 2 paths (symmetric), 6 kinds of object, 2 objects per path | pass |
| `Iterate` | increments, pops, disabled recursion, queries, removals, closing, failing reads; is the end reached? | 4 nodes, 3 levels, two branches; a link or none; 3 options | pass |
| `IterateAfterLink` | is everything visited in a tree with a link? | the trees with a link | **violated** |
| `RemoveRace` | two calls, each obstacle, failing reads, a creator, an unlinker, and a directory replaced by a link | 6 nodes, one of them late, and one seen through a link | pass |
| `CopyOnce` | every option, every pair of names, failures, short writes, two interferences | sources of 0, 2 and 3 blocks, a longer target, `SendMax` 2, buffer 2 | pass |
| `CopySwapped` | is the file that is truncated the one that was looked at? | as `CopyOnce` | **violated** |
| `PathObject` | every sequence of calls of a path's members | texts of up to 6 characters, arguments of up to 3 | pass |
| `PathMisplaced` | is the relative path what follows the root? | up to 5 characters | **violated** |
| `CreateRace` | two calls, two interferences of others, a file or a closed directory in the way | 6 paths, a tree of two levels | pass |
| `CopyTree` | every kind of source onto every kind of target, and into itself, under 9 sets of options; failing reads, one interference | a directory with a file or link and a directory, 3 levels of names | pass |
| `CopyUnread` | does an answer without an error mean a whole copy? | as above, no interference | **violated** |
| `Attributes` | every two calls of 26 | 2 names, 2 files and a directory, 8 arrangements | pass |

**What the passing runs show.**

* `EntryCached`. `OneSnapshot`, `StableUntilRefresh`, `ThrowingAnswersWereTrue`: a populated cache has type, size and
  time of one `stat()` of the present path, not older than the last refresh; no query changes it;
  a type answered by a throwing query that follows links was true of what the path led to at one moment since
  (`is_symlink`, which should not follow them, is another matter, see below). `FullNeverAsserts`: once FULL, no
  query trips an assertion (from EMPTY or BASIC some do, see below).
* `Iterate`. `StackIsTrail`: every stream was opened on the entry below it, on a link only when links are to
  be followed. `CompleteWithoutLinks`: an unpruned iteration that ends without an error stood at
  everything still there below directories it could open, in a tree without links (with one it need
  not, see below). `QuietSucceeds`: no error without a cause, none for a closed directory that
  is to be skipped, and every error leaves the end iterator. `ImplementsTraversal`, `Terminates`.
* `RemoveRace`. `ErrorMeansItRemains`, `RacesAreSilent`: a `remove_all` fails only if the root is still
  there, and racing calls without obstacles never report an error. `AloneIsExact`: a call that is
  alone takes the tree with an exact count, or there is an error and the root remains. `OnlyInside`:
  no path outside the tree is removed, and none behind a link but one that took the place of a directory after the
  call had looked at that directory and before it had read it to the end. `Terminates`.
* `CopyOnce`. `SuccessMeansCopied`, `RefusalsChangeNothing`, `OneSwapIsCaught`, `Terminates`: an undisturbed
  success none of whose `write()`s was short is an exact copy, also over a longer file and when `sendfile` gives up
  half way; a refusal changes nothing; a name that is moved once between the two looks never makes another file
  be truncated; an undisturbed call returns.
* `PathObject`. `OnlyParentPathMisplaces`: text and decomposition stay in step through every call but
  `parent_path`. `NormalIsTheNormalForm`: `lexically_normal`, one pass with edits in place, yields what the
  standard's rewriting rules do. `EqualPathsAnswerAlike`, `EditsUndo`, `RelativeLeadsBack`: laws over all
  such objects, not only freshly constructed ones. `ClimbEndsInAChain`: the climb of
  `create_directories` ends and each of its levels needs only levels before it, for texts without two separators
  in a row and for all texts if the copy `parent_path` returns is not elided (of the others see `PathMisplaced`).
* `CreateRace`. `ErrorHasCause`: calls and programs that make the same directories never make a call
  fail. `SuccessMeansMade`, `AnswerIsExactAlone`, `Terminates`.
* `CopyTree`. `SuccessMeansCopied`: undisturbed and with every directory read, no error means that at
  every place below the target there is what the options ask for, and a directory copied into itself
  is an error. `CallsMirror`: the stack copies each name to the same place below the target.
  `PlainCopySucceeds`. `NothingIsReplaced`: whatever others do, no step removes what is there or puts something else
  in its place, and content changes only where `copy_file` has found that very file and `overwrite_existing` is set,
  or has found nothing: a file that another program makes there before `open()` is written over under any option.
  `Terminates`, also for a copy into itself.
* `Attributes`. `ChangesHaveACause`: permissions a file gains or loses were asked for by a call on that file.
  `TimesReadBack`, `QuietAnswers`: times survive the two conversions on either side of the epoch, and
  answers that took two looks are right while no name changes. `SpaceIsExactOrUnknown`: for a count of blocks other
  than 0, what `space` answers is the product where it fits `uintmax_t`, and unknown where not (for 0 see below);
  `EmptyIsTrueThen`: `is_empty` is true of what has the name at the moment it answers.

**Bounds.** Two objects per path are enough for a cache to mix two reads and for a refresh to be
outdated. The iteration tree needs two branches, for going up and on, and three levels, for
several streams that end together; the third level is below a directory that can be closed or
removed. The `remove_all` tree has a directory in the root beside a link and a late file, so that a call
can be outrun below, beside and above where it is; the directory has one entry and may become a link to one that shows
an entry of that name or none; two calls suffice for a race and the model treats
calls alike. `Modulus` 16 exceeds the nodes, so that a wrap is `npos` arithmetic and not an overflow of
an honest count. The copies of files have a source below, at and above what `sendfile` and the buffer take, and two interferences, since
one move of a name is noticed and two need not be.
Six characters hold a root, two names, a redundant separator and a dot name, and the calls build
longer shapes by appending; the positions in the text go wrong from three separators on. The levels
of `create_directories` depend on each other in pairs, so that two levels show every dependence. A
copied directory has one entry of each kind that is treated differently, and one level below. In
`Attributes` a time is before the epoch, after it, and beyond the range; block sizes are below, at and
above the wrap. `MaxVersions`, `MaxDisturbances`, `MaxOthers`, `MaxLen` and `MaxArg` are the
only bounds in guards (`MaxLen` of `CopyTree` is `PATH_MAX` and so part of the model);
everything else is finite by itself.

**Fairness.** `Iterate` assumes that the program's loop goes on (`WF` of `Drive`, the
constructor and `increment`; not of `pop` or the queries). `RemoveRace`, `CopyOnce`, `CreateRace` and
`CopyTree` assume that the thread of a call is scheduled (`WF` of its steps), nothing about other
programs or about which entry, transfer or error comes.

**Deadlock** is not checked where a call returns and nothing is left to do (`CHECK_DEADLOCK FALSE` in
the runs of `RemoveAll`, `CopyFile`, `CreateDirectories`, `CopyTree` and `Attributes`).

## Where code and documentation disagree

Each of these has a run whose counterexample shows it.

* `IterateAfterLink`: `advance()` sets the `symlink` flag of the stream's only entry and
  never clears it; a directory read after a link is not descended into (`src/fs_dir_iterator.cpp:807`).
* `PathMisplaced`: `parent_path` drops redundant separators from the text and keeps the positions its
  components had before (`src/fs_path.cpp:283`). If the result is constructed in place,
  `relative_path` of it is cut at the wrong place or throws, and `create_directories("//a/b")` climbs
  for ever.
* `CopyUnread`: the loop of `copy` ends on the end iterator before it looks at the error that
  `increment` reported (`src/fs_ops.cpp:286`): a directory is copied in part, without an error.
* `CopySwapped`: the comments at `src/fs_ops.cpp:553` and `:571` say that the file that was opened is checked to be
  the one that was looked at. `RefreshStatus` looks at the name again with `lstat()`, not at the descriptor
  (`src/posix/file.cpp:33`): with two renames around `open()`, a file nobody looked at is truncated.

These have a property that says what is documented or tested, and that does not hold. No run is spent on them; the
counterexample comes with the property as an `INVARIANT` of the cfg named. The properties that do pass say what
they leave out for it.

* `ErrorCodeOverloadsAnswer` (`EntryCached.cfg`): `GetFileType(ec)` answers `none` whenever an `error_code` is given
  (`src/fs_dir_iterator.cpp:327`), so `is_directory(ec)` is false for a directory. `ThrowingAnswersWereTrue` is about
  the other overloads;
* `SymlinkQueriesSeeTheLink` (`EntryCached.cfg`): the cache is filled by `stat()` (`src/fs_dir_iterator.cpp:105`), which
  follows links, so `is_symlink()` of an entry built from a path is never true; `fs_dir.h:160` says "does not
  follow symlinks". `ThrowingAnswersWereTrue` is about the queries that follow links;
* `TrueMeansCopied` (`CopyOnce.cfg`): what `write()` returns is only compared with 0 (`src/fs_ops.cpp:381`); of a
  short write the rest of the buffer is lost and the answer is true, which `test/ops_copy_file_test.cpp:106` takes for
  a complete copy. `SuccessMeansCopied` says nothing of such a call (`~short`);
* `FreeIsWithinCapacity` (`Attributes.cfg`): `space` answers the value for unknown when a count is 0
  (`src/fs_ops.cpp:1419`), so that a full disk has more free than its capacity, against
  `REQUIRE(s.capacity >= s.free);` in `test/ops_space_test.cpp:43`. `SpaceIsExactOrUnknown` is about other counts.

Met while modelling; the models do what the code does, and no property is spent on them:

* a query of a missing object trips the assertions at `src/fs_dir_iterator.cpp:209` and `:278`;
  with an `error_code`, `last_write_time` then loses the error, as a later filler clears it;
* `hard_link_count` is never read and `file_size` is only read for regular files, and both answer
  their initial value for what was not read; `status()` has unknown permissions;
* a recursive iterator with `follow_directory_symlink` asks `GetFileType(ec)`, so it
  never descends (`ErrorCodeOverloadsAnswer` again): of following links `Iterate` shows safety only;
* where `readdir` has no types (`DTypes = FALSE`) entries are not classified either;
* two calls of `remove_all` can each meet an entry the other has just removed, stop with "nothing
  removed, no error", and leave the directory (`src/fs_ops.cpp:1331`), which `test/ops_remove_test.cpp:282`
  (`REQUIRE(!exists(dir));`) does not expect of one; a call whose tree loses an entry to others adds
  `npos` for it: one less for each; a directory that is replaced by a link between `symlink_status`
  (`src/fs_ops.cpp:1294`) and the `opendir()` of the iterator (`:1300`), or later while it is read, has what is behind
  the link removed (`OnlyInside` allows this, and nothing else outside the tree);
* `copy_file` writes over a file created after the look at the target (`src/fs_ops.cpp:557`), under any option and
  without truncating it (`NothingIsReplaced` of `CopyTree` allows this); the source is
  classified by `lstat`, so a symlink to a file is never copied; a source shortened during
  `sendfile` makes it loop (so `Terminates` is about undisturbed calls);
* `create_directories(p, ec)` throws where a level cannot be looked at, since it asks
  `is_directory(top)` without the code (`src/fs_ops.cpp:678`); `create_directories("a/")` makes nothing and
  answers false; a file at the last level is answered by false without an error;
* `copy` without options descends into subdirectories; it fails for a symlink to a file unless
  links are copied or skipped, and when it would overwrite through a symlink; an empty directory is
  copied "successfully" onto a dangling link, and onto a file that was made in between;
* `last_write_time` refuses to write times before the epoch that it can
  read, and overflows for times that fit `time_t` but not `file_time_type`; `permissions` with add or
  remove loses what another call changes between its two system calls.

## Proofs

TLAPS checks these for every value of the constants that satisfies the named assumptions.

`EntryCacheProofs` on `DirectoryEntry`, for any paths, objects and number of replacements. The invariant has, besides
`EntryTypeOK`, `OneSnapshot` and `ThrowingAnswersWereTrue`, the part `Own` about the cache alone: none of the
flags that an iterator sets is set, the cache is never BASIC, an EMPTY cache has no type, and a cache
without a type holds no attribute. It is needed because a query may `stat` again: the picture stays
one only because no operation of the entry leads to the branches that read an attribute on its own.
Each filler and each getter has a lemma that it keeps `Own` and either keeps the data or takes all of
it from one `stat`; a step of the entry is then a use of one of them.

* `EntryTypeCorrect`, `Snapshot`, `ThrowingAnswers`: the invariants of `EntryCached`;
* `Stable`, `NoAssertionOnceFull`: its two action properties;
* `EntryInvariance`: the inductive invariant itself.

`RemoveAllProofs`, for any tree, number of calls, other programs, and width of the count. The
invariant says of every frame of every call that it works on a node of the tree, that
it is in its loop only on a directory, and that the entries left to it are entries of its node; without
it nothing ties the path a frame unlinks to the tree. Three lemmas say what replacing the top
frame, pushing and popping do to a stack of such frames.

* `AlwaysSafe`: the inductive invariant; `TypeCorrect`: `TypeOK`.

Of links, `LinkInv` says that a stack leads down: each frame works on an entry of the directory the frame below it is
reading. So what is behind a link is worked on only while the link is being read as a directory, and that is
only when it was a directory when the call looked at it: then the call is among those that were `caught` when it was
replaced.

* `StaysInside`: `OnlyInside`.

About races, the second invariant adds what a stack *knows*: of the entries that are still there, those of a
directory that is being read are left in its frame or are worked on by the next frame, and a directory
that is about to be unlinked has none. Unlinking by anyone only makes this easier, so it is kept by
all calls at once, as long as nothing is created and no directory becomes a link.

* `RacesStaySilent`: `RacesAreSilent`, for any number of calls;
* `ErrorsMeanItRemains`: `ErrorMeansItRemains`. When a call fails, something stopped it at the end of
  its stack, and that stack goes down from the root through directories that were open. So there is a
  set of nodes that are present, with the root in it, each of which is locked, closed, or has a child in the
  set: no call can remove the first of them, and that is what stays true once there is an error. What
  a node is in is there as long as the node is, which is a part of the invariant too.

About a call that is alone, the last invariant gives each frame a *share* of what the call has removed
(`Counted`): the shares are disjoint, together they are what was removed, and the count of a frame is one, for
the node it will unlink, and the size of its share; so a return hands down the count of a union. It needs that
everything the frames work on, or will, is there (`Here`): then a lone call meets no node that is gone and
`npos` is never added, and by `WidthAssumption` no sum wraps. That nothing of the tree is left when the root is
unlinked follows from `ClimbAssumption`: a node left over would be in a directory that is left, up to the root.

* `AloneStaysExact`: `AloneIsExact`.

`CopyFileProofs`, for any files, links, contents, sizes of buffers, and any number of interferences.

* `RefusalsAreClean`: `RefusalsChangeNothing`; the invariant is that nothing is changed
  before `fchmod()`, and that after it only an I/O error ends the call without a complete copy;
* `OneSwapIsNoticed`: `OneSwapIsCaught`; the invariant relates what the two looks saw and what was opened
  to how often the name was moved between the looks: not at all, they agree; once, the second look sees it, or
  the file that was opened is the first one. That twice is once too often is the counterexample of `CopySwapped`;
* `CopiesAreExact`: `SuccessMeansCopied`, for sources of any length: the invariant says that a call that copies has two different
  inodes open, the ones it looked at, and that its target holds the blocks that have gone, unless a `write()` was short;
* `TypeCorrect`.

`CreateDirectoriesProofs`, for any number of calls, paths whose levels form a chain (`ChainAssumption`,
which `ClimbsEnd`, below, shows of the levels the code computes), any tree and any number of interferences. The
invariant is that the levels a call has taken off its stack are there as long as nothing was removed;
so a lookup gets as far as its last name, and what can go wrong there is in `Troubled`.

* `ErrorsHaveCauses`, `SuccessIsMade`: `ErrorHasCause` and `SuccessMeansMade`;
* `AnswersAreExactAlone`: `AnswerIsExactAlone`, from the further invariant that for a call that is alone
  `created` runs ahead of `made` only while its level is missing; `TypeCorrect`.

`AttributesProofs`, for any names, files, operations, widths and clock resolutions.

* `TimesRoundTrip`: the two conversions, written in different files, are inverse; `TimesAlwaysReadBack`;
* `MultIsExactOrUnknown`: for a count other than 0, the division test accepts exactly the products that did not wrap;
  the value for unknown stands for the others, and for a count of 0; `SpaceNeverWraps`: `SpaceIsExactOrUnknown`;
* `ChangesAlwaysHaveACause`: the invariant is that a call between its two steps has read permissions that
  are themselves explained, of the same file as long as no name changes; `TypeCorrect`;
* `EmptyAnswersAreTrue`: `EmptyIsTrueThen`: the step that answers looks itself, and fails where the
  first look no longer holds; `QuietAnswersAreRight`: `QuietAnswers`, where the invariant relates the first of two looks
  to what the name leads to.

`EntryCacheProofs` on `RecursiveIteration`, for any tree, root and set of links, with entries coming and going. The
invariant `IterInv` says that the stack is a trail: each stream was opened on the entry the one below
stands at, which is a directory, no two streams are on one directory, and what a stream has left
is not visited yet; that what was visited is closed under parents and has nothing below the current
entry; and that a cache in a stream is never EMPTY and holds the type `readdir()` gave.

* `StackStaysATrail`, `TraversalRefined`: `StackIsTrail`, and the refinement `ImplementsTraversal`: nothing is
  stood at twice, and nothing before its parent, because what is left of a stream and what is below the
  current entry are unvisited;
* `ErrorsHaveReasons`: `QuietSucceeds`, where `readdir()` gives types (`DTypes`);
* `NothingIsLeftOut`: `CompleteWithoutLinks`, that is, for trees without links and iterators that are not to follow
  any: as long as the program prunes nothing, every entry of a directory that was stood at is visited, still
  to come in some stream, or an entry of the current one.

`CopyTreeProofs`, for any names, places, trees, options, lengths of a path and interferences. What a lookup
computes is left open, but that it is a place or nowhere (`Walk`). The invariant says of the
stack of calls that it mirrors the source, that all but the innermost call stand in their loop, and which
options led a call to the step it is at; without the last, a symlink made deep in the recursion could lead
to what is no place, and a hard link could share the content that a copy writes.

* `CallsAlwaysMirror`: `CallsMirror`, from lemmas on changing, popping and pushing the innermost call; `TypeCorrect`;
* `CopiesReplaceNothing`: `NothingIsReplaced`: a step puts at most one node, where nothing was, and only the second
  step of `copy_file` writes, the file that `looked` names or one where it names none (`LookedOK`).

The rest is about undisturbed copies. In these the two steps of `copy_file` act as one: what the first has seen is
there when the second opens the target (`Fresh`), so every step is a `QuietStep`. It needs what a lookup computes, for trees and names of any depth; it
begins with induction. The induction theorems of the library take an operator and cannot be used; `Induction` states the
same of a *set* of numbers, from the least element of its complement (`NatMin`), and `RecursionExists` and
`ReachedIs` get from it that a recursive function of the numbers satisfies its equation. With them
`StraightWalk` says that a name below which there are no links is looked up as it is written, as far as
there is something. The invariant `PlainInv` is about plain copies only, at any depth and with any number of entries:

- the disk (`PlainDisk`): there is nothing new but below the target, and no link there;
- the stack (`PlainStack`): each call copies an entry that the call above it has read, to the same place
  below the target, and is at a step its entry has led it to; what it is to make is not there yet.

* `PlainCopiesSucceed`: `PlainCopySucceeds`;
* `SuccessIsACopy`: `SuccessMeansCopied`, for every start: sources and targets that exist, with links, under any
  options. It takes four invariants of a copy that nothing has interfered with:
  - `StackInv`: each call on the stack is below an entry that the calls around it have read;
  - `TargetInv`, where no link is on the way to the target (`Direct`): the disk is what it was and what the calls have
    made, each thing where nothing was and below the target (`MakesOne`), and each call is at a step that what it
    has found at its target leads to. So a text below the target is looked up as it is written;
  - `SpineInv`, for a directory that is copied into itself: a call whose target is in what it copies has the entry on
    the way there among its entries, and once it has read this, the next call on the stack is the copy of it, again
    such a call; so none of them returns, and the copy ends in an error or not at all;
  - `SourceInv`, where source and target are `Apart`: files keep what they hold (`FilesAreThere`), a file that may be
    overwritten keeps its one name (`OneNameLeft`), and of what the calls on the stack have read everything has been
    copied with all that is below it, but for what the next call is copying (`Progress`). A lookup on the side of the
    source meets nothing that the copy changes (`Steady`), each kind of entry is copied when its call returns
    (`FileImage`, `KeptLook`, `MadeFinds`), and what has been copied stays so, since all later steps happen
    elsewhere (`DoneIsElsewhere`, `DoneStays`).

`PathProofs`, for texts of any length. The induction is that of `CopyTreeProofs`, stated for sets of texts
(`TextInduction`): a text with one more character is split by one more turn of the loop (`ScanAppend`), and from that
`ScanShape` says what components are and where in the text they lie.
Components are *packed* where nothing but one separator is between any two. What `parent_path` joins is split into
packed components again (`Rejoined`), which are the same whether the compiler elides the copy or not; so every path of a
climb after the first is known by how many components of the first it has left (`Form`, `OneTurn`). The invariant of
the loop (`Climbed`) goes over how many turns it has made: the locations the kept components go through are those
of the first path up to there (`TrailOf`), and each location on the stack rests on one above it on the stack or on one
still to come (`StackFrom`). At the end nothing is to come, and the stack is a chain.

* `ClimbsEnd`: the climb ends in a chain, whose last level is where the text leads, for every text without two
  separators in a row, and for any other text where the compiler does not elide the copy. The rest is the
  finding of `PathMisplaced`. This is what `ChainAssumption` of `CreateDirectoriesProofs` asks of the levels;
* `EveryClimbEndsInAChain`: `ClimbEndsInAChain` of every object that calls can leave, with the precondition of
  `ClimbsEnd`: of texts such as `//a/b` it says nothing where the copy is elided. It comes from the invariant that every
  member leaves an object (`Types`). It is not the shape of the model: `lexically_normal` looks up the component
  before the last while it edits, and that there is one, with a position within the text, needs the invariant of
  its loop (`Ordered`);
* `EditsKeepThePlaces`: the action property `OnlyParentPathMisplaces`. That an object is described by its text says
  nothing of the types of its components, and the next edit depends on them: "exact" (`Exact`: the object holds the
  components of its text) is what an edit keeps. The two agree on objects that hold names in order (`Formed`, an
  invariant that `parent_path` keeps too), because a text has only one list of names in order with their positions:
  their characters are all of the text but the separators (`Placed`, `OnePlacement`). `remove_filename` and
  `lexically_normal` keep an object exact since a text can be cut where its last name begins (`ScanCut`);
  that the latter may take off one trailing separator needs that its result has no two in a row, which is
  part of the invariant of its loop (`Neat`).

`PathObjectProofs`, which goes on from there:

* `EqualPathsDoAnswerAlike`: `EqualPathsAnswerAlike`, from the same invariant. What a member answers is built from the
  stored components in a way of its own, by positions in one, by joining texts in another, by edits in the third;
  so for each member there is a lemma that gives the elements of the answer as a function of the elements of the object
  (`Shows` says how these are stored, `LeavesElements`, `RelativeElements`, `ParentIs` what is left of them), and equal
  paths have equal elements;
* `EditsDoUndo`: `EditsUndo`, from one invariant more. That an object is described by its text does not say that this
  text is the one it would be split to again: `//` is one root directory. But a member that leaves a list of nothing
  but the root directory has also made its text (`Tidy`), and other redundant separators are kept by the split
  (`TextStays`). An extension put in its own place makes the text that was there (`ExtensionStays`), and is then split;
  the generic format is read again element by element (`TellsAll`, `GenericSame`);
* `NormalFormIsReached`: `NormalIsTheNormalForm`. The code goes through the elements once and edits text and
  components of its result; the standard rewrites a list of names and separators, first the dots, then the detours,
  then the parents of the root. `Passed` says what becomes of a list of elements at the next one, and `Normalized` is a
  run of it (`Run`, `DotDotShows`). The same run may go over names and separators instead of elements, and no rule that
  rewrites the list changes where it ends (`DotTurn`, `DetourTurn`, `RootTurn`); a rule takes something off the list
  or is used up, so it is used up after as many turns as the list has items (`RewrittenIs`). From a list that no
  rule applies to the run takes nothing (`Reduced`, `ReadsAll`), so both results have the same elements;
  and of the texts without redundant separators only one has given elements (`OneText`);
* `RelativePathsLeadBack`: `RelativeLeadsBack`, by the same run. The base followed by the relative path has the
  elements of the one and then of the other (`ReachesFrom`, on texts: `AppendedShows`). Over the elements of the
  base the run makes these; each parent reference of the relative path takes the last name (`Backward`), down to
  the longest beginning that both have in common (`CommonIs`); the names after it are those the path goes on with
  (`Onward`). What the normal form shows of such a list is the list (`NormalPlace`).

Only model-checked:

* All liveness, and with it `ENABLED`, which is beyond the prover. Every safety property that a passing run checks
  is stated by a theorem.

## Not modelled

* The Windows and macOS branches.
* `canonical`, `weakly_canonical`, `absolute`, `relative`, `read_symlink`, `temp_directory_path`: on POSIX
  each is one pass over the answers of `realpath()`, `readlink()`, `getcwd()` or the environment,
  combined with members of `path` that are modelled; they keep no state and change nothing.
* `directory_iterator` beyond its use as the loop of `remove_all` and `copy`; copies of an iterator that share
  one `impl_`.
* Comparisons and hashes of entries, the order of unequal paths, stream operators, conversions of
  encodings, texts of exceptions.
* The bit operators of the enumerations: options are sets.

## Plan

Done, in this order: the entry cache with its proofs, the iterator over it and its abstract
specification, `remove_all`, `copy_file`, `path`, `create_directories`, `copy`, the attributes, and
their proofs. What is left, most useful first:

1. A second copy of an iterator on the same `impl_`.
