# spm in TLA+

A verification development for `spm`, a small package manager written in C: it
resolves the dependencies of the packages a command line names, fetches their
archives into a package store, extracts them into a temporary tree, records
their metadata and copies the tree into an installation root. It also removes
packages, keeps an index (a *manifest*) of the store and mirrors remote ones.

Paths below are relative to the repository (`src/spm.c` is the main program).

## 1. The system

### Components, their state and their operations

| component | source | state | operations | model |
|---|---|---|---|---|
| Dependency resolution | `lib/resolve.c` | the static array `requirements[]`, its static index `req_i`, the C stack | `resolve_dependencies`, `resolve_has_dependency` | `Resolver` |
| Install command | `lib/install.c` | the package store, the records under `var/db/records`, the root, the list of requirements, `tmpdir` | `spm_do_install` and what it calls | `Resolver`, `Spm` |
| Remove command | `lib/purge.c` | records, root | `spm_do_purge`, `spm_purge` | `Spm` |
| Command line | `src/spm.c` | run-time flags, the package list, the manifests of the run, the exit status | argument loop, default manifests, checks, dispatch | `CommandLine`, `Spm` |
| Local manifest and manifest lists | `lib/manifest.c` | `manifest.dat` of the store, the manifests of a run, the sticky `spmerrno` | `manifest_from`, `manifest_write`, `fetch`; `manifest_read`, `manifestlist_append`, `manifestlist_search` | `Spm`; `ManifestList` |
| Version specifiers | `lib/version_spec.c` | none | `find_by_strspec`, `find_by_spec`, `version_from` | `VersionSpec` |
| Archives, package metadata | `lib/archive.c`, `lib/metadata.c` | files in `tmpdir` and in the records | extract, read, verify and remove metadata files | steps of `Spm`; `Tree` |
| File system helpers | `lib/fs.c` | directories | `fstree`, `rmdirs`, `mkdirs`, `rsync`, `spm_mkdtemp` | `Tree`; steps of `Spm` |
| Prompt | `lib/user_input.c` | the position in `stdin` | reads until an answer is valid | `Prompt`; a choice in `Spm` |
| String lists, strings | `lib/strlist.c`, `lib/str.c` | a growing array; strings changed in place | append, remove, set, reverse, sort, item; split, join, strip, normalise | `StrList`; `Text`, `Buffers` |
| Shell runner | `lib/shell.c` | an output buffer | run a command, collect what it prints | `Shell` |
| Runtime environment | `lib/environment.c` | a list of `NAME=value` | copy, set, get, expand, apply | `Environment` |
| Relocation | `lib/relocation.c` | contents of files, prefix files | record prefixes, replace them | `Relocation` |
| Run paths | `lib/rpath.c`, `lib/shlib.c` | dynamic sections of programs | find libraries, set the RPATH | `Rpath` |
| Mirrors | `lib/mirrors.c` | a mirror list and tree | list, clone | `Mirror` |
| Configuration | `lib/config.c`, `lib/config_global.c` | `SPM_GLOBAL` | read at the start | `Config` |
| Internal commands | `lib/internal_cmd.c` | none | drivers of the others | with what they drive |
| Build script | `scripts/spmbuild`, `lib/spm_build.c` | temporary trees, the stores of sources and packages | the stages of a build | `Build` |
| Errors, MIME types, URL stream, checksums | `lib/error_handler.c`, `lib/mime.c`, `lib/extern/url.c`, `lib/checksum.c` | `spmerrno` | | `spmerrno` in `ManifestList` and `CommandLine`; the others not |

### How they interact

`main` reads the manifests once, in the order of the command line, then the
remote default and the store's own. `spm_do_install` searches them, calls
`resolve_dependencies` once per item of the command line (all calls share the
static array), fetches or copies the archives that the store lacks, rewrites the
store's manifest if something was fetched, then extracts, relocates and records
each package that has no record, and in the end copies the temporary tree into
the root. `spm_do_purge` checks that every named package is recorded, then
unlinks what each record's filelist names and removes the record. Everything is
sequential within a process; two processes share the store and the root through
the file system, and there is no lock anywhere.

### What is hard

* **Static state across calls.** `requirements[req_i]` is written before it is
  certain that the slot is kept; nested calls and the next item overwrite it.
* **Two kinds of state for one fact.** A package is installed when its record
  has a descriptor; its files arrive later, after all records were written. A
  crash, a failed copy or another process can fall in between.
* **Two lists for one package.** The archive brings regular files, links and
  directories; the filelist, by which a removal goes, has the regular files only.
* **Names for packages.** Records go by the name, plans by the package: another
  version of a name counts as installed.
* **Check, then act.** The directory of a record is looked for and then made, the
  archive looked for and then opened, by any process.
* **Ignored results.** The outcome of an extraction, of a record, of the
  removal of a file and of `manifest_write` is dropped; the temporary tree is
  shared by all packages of a command.
* **Half-written metadata.** A record with a descriptor and no filelist makes
  every later command on the package dereference NULL.
* **Transfers.** A transfer that is cut short is a success and leaves its file
  under the final name.
* **Termination.** Cyclic requirements; a fetch from a store another process
  changes.
* **Two ends of one list.** Some readers of a string list go by its count, others
  by the first NULL; `strlist_remove` and `strlist_set` move NULLs about.
* **In-place scans.** The loops over strings (`strchrdel`, `runtime_expand_var`,
  the prompt) step over a character after a match, so that what stands next to it
  decides what happens.
* **Substrings for equality.** Duplicates, libraries and directories are looked
  for as parts of strings.
* **Errors that stay.** `spmerrno` is never cleared, and decides later what a
  failure means.

`PROJECT.json` lists each of these at the line where it bites, with the
properties that are about it, and those that no property covers yet.

### What makes each component correct

* Resolver: what stays in the list comes after what it needs; nothing is in it
  twice; nothing is in it that nobody needs; what was asked for stays; the
  count the caller keeps is the length; the array is not overrun; the recursion
  ends.
* Install and remove: every regular file under the root can be found by a removal;
  records name their own package's files; an exit status of 0 means that the
  packages are there in some version (or what their filelists name is gone); a
  package recorded is whole when nothing runs;
  the local manifest promises only archives that are there; every command ends.
* String lists: count, storage and the sentinel agree. Shell: the buffer has room
  for what is appended. Version specifiers and manifest list: the answer is the
  newest version that is admitted, of the last manifest that has one. Command
  line: the commands see every manifest in full. Mirrors: a clone is a copy.
  Prompt: only a valid answer is acted on. Configuration and environment: what is
  written is what is read back. Relocation and run paths: every prefix is moved,
  and programs find their libraries. Trees: a removal is whole. Builds: the
  manifest lists whole archives.

## 2. The modules

| module | what it is |
|---|---|
| `Resolver` | `resolve_dependencies` and the loop of `spm_do_install` around it |
| `MCResolver` | small sets of manifests for TLC |
| `ResolverProofs` | theorems about `Resolver` |
| `Spm` | the commands `install`, `remove`, both in one line and `--reindex`, by any number of processes |
| `PackageLedger` | the promise: a root in which every file has an entry |
| `MCSpm` | small package stores and roots for TLC |
| `SpmProofs`, `SpmReportedProofs` | theorems about `Spm`: orphans, records and the ledger; the manifest, exit statuses and packages at rest |
| `StrList` | the growing array of strings |
| `Shell` | the output buffer of a command |
| `Text`, `Buffers` | the string functions, and their use in chains |
| `Config` | reading the configuration |
| `Environment` | the runtime environment and its expansion |
| `Prompt` | the loop that reads an answer |
| `MCLibrary` | these parts of the library side by side, for TLC |
| `TextProofs` | theorems about `Buffers`, and the lemmas on strings and sequences |
| `LibraryProofs` | theorems about `StrList`, `Shell`, `Prompt`, `Rpath` and `Tree` |
| `VersionSpec`, `ManifestList`, `CommandLine` | versions and queries; reading and searching manifests; `main` on top of both |
| `VersionProofs` | the order of versions as integers |
| `Tree` | directory trees: `fstree`, `rmdirs`, `mkdirs`, the removal of metadata |
| `Relocation`, `Rpath` | prefixes from the build to the installation; run paths |
| `Mirror` | clones of a server that publishes in between |
| `Build` | builds that share their stores |
| `CommandsProofs` | theorems about `CommandLine`, `Mirror` and `Build` |
| `Induction` | induction over numbers, for the proofs about data |
| `MCCommands` | the command line and these commands side by side, for TLC |

### Resolver

The recursive function becomes a stack of frames (`pkg`, loop index `i`); `pc`
says where the control of the top frame, or of `spm_do_install`, is. What a
search of the manifests returns is data: `needs[p]` are the packages found for
the requirements of `p`, `newest[p]` is what a search for `p`'s archive name
returns, which drops the version (`get_name` in `lib/version_spec.c`) and finds
the newest of the name, and `asked` is what the items of the command line find.

| definition | code |
|---|---|
| `AskFor`, `CountUp`, `CountPast`, `Finish` | the loop of `spm_do_install`, `install.c:395-411` |
| `Call`, `Leaf` | the entry of `resolve_dependencies`, with the early return of line 41 |
| `Unresolved`, `AlreadyThere`, `Recurse` | lines 46-55: exit, `free(requirement)`, or the recursive call |
| `Store` | line 56: `requirements[req_i] = requirement`, without advancing `req_i` |
| `AppendSelf`, `SelfAlreadyThere`, `Return` | lines 60-65 |

A write at or above `ReqMax` ends in `overrun`, a count that finds no free slot
in `overread` and a call on a full stack in `overflow`: the behaviour of the
program is undefined from there on.

### Spm

A package is one version of a name (`NameOf`). Its archive brings the paths
`Contents[p]`; its filelist names `Files(p)`, those that are not in `Link`, since
`spmbuild:355` lists what `find -type f` finds while `spmbuild:388` archives links
and directories too. `Link` is global: a path is a link or a directory in every
package that has it, or in none.

The disk is four variables: `cache` (each archive absent, partial or whole),
`catalog` (what the local manifest lists: to start with `Stored`, and the archives
in `Gone`, deleted since), `rec` (for each *name* the path, descriptor and
filelist of its record, the latter two by the package that they describe) and
`root` (the paths). The rest is one process's memory: the command, the manifest it
read at the start (`known`), the list to install, the loop index, `fetched`,
`num_installed`, the temporary tree and what a scan or a copy has left to do.

| actions | code |
|---|---|
| `Start`, `PurgeEnds`, `Exit` | `main`: the dispatch and the exit statuses |
| `Resolve`, `Prepare`, `Prompt` | `install.c:387-440` |
| `FetchSkip`, `FetchRemote`, `Connect`, `Download`, `DownloadRefused`, `CopyArchive`, `MissingArchive`, `FetchDone` | the fetch loop, `install.c:444-490`, with `spm_install_fetch` and `fetch` |
| `Index`, `IndexNothing`, `Truncate`, `Write`, `Indexed` | `manifest_from` and `manifest_write` |
| `InstallSkip`, `InstallDies`, `Extract` | the install loop, `install.c:508-525`, with `spm_check_installed`, which is given the name |
| `FindRecord`, `MakeRecord`, `PutDescriptor`, `PutFilelist`, `Installed` | `spm_install_package_record`: the directory is looked for (263), then made by `mkdirs`, which looks again (`fs.c:534`) and takes the result of `mkdir`, so that of two processes one may get EEXIST; its status is dropped (522) and the package counts as installed |
| `InstallDone`, `SyncFile`, `SyncEnds` | `install.c:536-560`; the copy is one step per file |
| `CheckListed`, `CheckFails`, `Confirm` | the checks and the prompt of `spm_do_purge` |
| `PurgeGone`, `PurgeDies`, `PurgeReads`, `Unlink`, `DropScan`, `DropDescriptor`, `DropFilelist`, `DropDirectory`, `PurgeDone` | `spm_purge`; the last four of a package are `rmdirs` on its record |
| `Crash` | the operating system kills the process |

`Faults` names what may go wrong in a run: `net` (a transfer breaks or never
begins), `http` (a status of 400 or more), `copy`, `record` and `sync` (the
copies into the store, a record and the root), `storage` (a directory or the
manifest cannot be created), `tar`, `unlink` and `crash`. Every fault is a
disjunct of the action it hits, with what the code does about it.

`PlanOf[want]` is the resolver's list: `Resolver` and `Spm` compose at that
interface, and the orders in `MCSpm` are ones that `Resolver` produces.

`PackageLedger` is what a root promises: a package is entered before its first
file arrives, files come and go only while an entry names them, and an entry is
struck out only when none of its files is left. `Spm` implements it for the regular
files, with `listed` mapped to the packages whose name's record has both files of
them, and `files` to what is under the root without the links.

### The library

`StrList` has a list as its storage, its count and its slots from 0, where a NULL
is a value of a slot as in the code. Its actions are the functions, with every
index, those at and past the end included; `careful` records whether all indices
so far were those of items, and `ub` that the code has read outside of the
storage (`strlist_reverse` of an empty list) or a NULL string. `qsort` is taken
by what it promises: an order in which neighbours compare as they should. The
integer readers cut down what `strtol` and `strtoul` return to a number of bits
that is a constant per type.

`Shell` follows the two counters of the loop in `shell()`. A byte of the buffer
is a text byte, a NUL or `any`, what `realloc` has left there.

`Text` has the string functions as operators on sequences of characters, their
peculiarities included (`strip` never looks at the first character of a longer
string, `strchrdel` steps over what has moved up); `Buffers` lets them follow each
other in any order, on the string and the array that one of them splits off.
`Config` (`config_read`, then `init_config_global`), `Environment` and
`Relocation` are built from them. A configuration file is written as lines with
a key, quotes, a value and a remark, and read as characters; a template is
written as parts and expanded as characters, so that the properties compare what
was meant with what is read. `Environment` writes the loop of
`runtime_expand_var` as a recursive function of the position.

`Prompt` has the lines the user types and where `stdin` is read, a line and a
column, prompts one after the other (removal and installation in one command
line), and the end of the input, whose -1 the callers take for a yes.

### The command line and the other commands

`VersionSpec` packs a version into an integer of `VersionMax * PartBits` bits as
`version_read` and `version_from` do, with `|` and with letters in the addendum,
and finds what a specifier admits. `ManifestList` adds the files (found or not,
valid or not) and the rules of `manifest_read` and `manifestlist_append`: which
file is validated, which errors end the program, which leave an empty manifest.
`CommandLine` is `main`: an action per option, the default manifests (`AppendDefault`:
the remote one, then the store, whatever the command line has), the checks,
the removal and the installation with every status they may end with. What those
two do is `Spm`; the words that `CommandLine` has collected are the `want` of
`Spm`, and its manifests what `Resolver` and `Spm` are given as data.

`Tree` has paths as sequences of names and the operations as operators on trees, the
walk of `fstree` as a function of how many levels down it has come; its actions build
and remove trees in any order, links included. `Relocation`
follows the prefix files from `prefixes_write` through `prefixes_read` to the
rewriting, one action per entry, with the failures that nobody looks at. A file is
text, binary, metadata, or of the fourth kind that `mime.c` takes for neither text
nor binary, and which is never relocated.
`Rpath` installs packages with libraries and programs, command by command: a
program's directories are looked up in the temporary tree as it is when its
package is relocated. `Mirror` clones target by target and archive by archive;
transfers may be cut, fail or leave what was there, the command may be killed,
and the server publishes at any time. `Build` goes through `spmbuild`: up to
`set -e` a failing command is passed over, from there on it ends the script and
the trap of `EXIT` cleans up, the three trees it knows of; the directory that
`spm_build_fetch` makes is not one of them. Builds follow each other over the same
stores.

## 3. The runs

| run | question | bounds |
|---|---|---|
| `resolver_graphs` | does the array keep its shape, and the count its meaning, on every graph? | all requirement tables of 3 packages with at most 2 requirements each, cycles included; command lines of 1 or 2 items; 3 slots, so that the list may fill them, and 4 frames |
| `resolver_versions` | is the list ordered, minimal, and does it keep what was asked for? does the recursion end? | 4 packages, two of them versions of one name, one leaf, requirements that pin a version or find nothing; up to 4 items; 6 slots |
| `resolver_leaves` | (violation) is everything that is needed listed? | as `resolver_graphs` |
| `resolver_pins` | (violation) is a pinned version honoured? | as `resolver_versions` |
| `spm_killed` | what holds when commands are killed at any step, one process at a time? | 3 packages, two of them versions of one name, two that share a file and a link, local directories, all four commands, a list that names something twice, faults `copy`, `storage`, `sync`, `crash` |
| `spm_rough` | what holds whatever goes wrong? | 2 packages, one remote; all nine faults, all four commands, a list that names something twice |
| `spm_reported` | what holds while only those faults happen that `spm` reports? does every command end? | as `spm_killed`, one package remote, another listed by the local manifest although its archive was deleted (`Gone`), no file shared by two names, faults `http`, `copy`, `storage`; under `FairSpec` |
| `spm_pair` | what holds for two installations at once? | 2 processes, 2 packages in the store, with a link, faults `copy`, `sync`, `storage` |
| `spm_unfetched` | (violation) does a status of 0 mean the packages are installed? | as `spm_reported`, installations alone, fault `net` alone |
| `library` | do the parts of the library keep their data as their callers read it? | lists of at most 3 items of 3 strings, indices up to 4; strings of at most 4 characters of 4 kinds; 2 configuration lines and a buffer of 13; templates of 2 parts and values of 2 characters; 3 lines for 2 prompts; a `BUFSIZ` of 3 and 8 bytes |
| `commands` | the same of the command line, clones, trees, relocations, run paths and builds | 3 options, 4 manifests and 48 choices of their contents, empty ones included, versions of 3 parts of 2 bits; 2 targets of 2 archives in 2 versions, any number of clones; trees of 5 paths and depth 3; files of 3 parts and all four kinds, a line buffer of 5, 3 roots; 5 libraries in 3 directories, 3 packages; 3 builds of 2 packages |
| `manifest_priority` | (violation) has the remote location priority over the store? | as `commands` |

**What the resolver runs show.** The write that does not advance `req_i` is
harmless to the order: whatever overwrites the slot, a package that stays is
preceded by every requirement that has requirements of its own
(`DependenciesFirst`), because the nested call for that requirement appends it
itself. `TailIsFree` is why the three loops that stop at the first NULL see the
whole list, and `CountIsExact` why the loop that frees it frees all of it. What
the order does not cover are leaves: `resolver_leaves` shows that a package
without requirements is not installed, unless it is left over in the last slot
(`scripts/spmbuild:481` gives every package but `filesystem` itself the
requirement `filesystem`, which is then such a leaf), and `resolver_pins` that the nested
call, which searches by archive name, takes the newest version where the
requirement pins another. `Terminates` is stated for acyclic manifests: a cycle
exhausts the C stack.

Three packages give cycles of every length that differs in kind (a self-loop, a
pair, a longer one), diamonds, and requirements met twice; two requirements each
are enough for one to overwrite the slot of the other, and two items for the
second call to start with a slot in use. The second family adds what the first
cannot have: leaves, two versions of a name and failing searches.

**What the runs of `Spm` show.** `NoOrphans` is the reason for the order of
steps of both commands: a record is complete before a file of its package is
copied, and goes after the last file has gone, so that a kill at any step leaves
no regular file that a later removal cannot find. It is about one process. With
two, one that loses the race for the directory of a record copies its files all the
same: `NoOrphans` fails in `spm_pair`, and what holds is `OrphansAreAdopted`, that
another process is about to finish the record. That in turn needs that nothing is
killed, and that the two install the same version of the name: with the versions of
`spm_killed` side by side, or with `crash`, TLC violates it. `RecordsAreOwn` holds
although all packages of a command share a temporary tree and failures are ignored,
as long as the archives are whole. `HalfByInstallOnly` shows that the order in which
`rmdirs` removes a record (the descriptor first) makes a killed removal
harmless, so that the record that kills later commands comes from installations
only. `CatalogIsStored` holds whatever fails: the indexing gives up rather than
list a cut archive. In `spm_reported`, where all faults are ones the code
reports, every package recorded is whole at rest, and a status of 0 means for an
installation that each name of its list is there in *some* version, whole
(`SuccessMeansInstalled`: asked for the newer version of a name that is recorded,
`spm` skips it and returns 0), and for a removal that the records are gone and what
their filelists name is, up to a word that comes twice (`RemovesWhatIsListed`). Links
and directories stay in the root after every removal. `CommandsEnd` is checked
under the same faults. `spm_unfetched` shows where a status of 0 means nothing:
a transfer that never begins ends `fetch` with 2, which is below 400; the archive
is absent, its extraction fails unseen, and the record of the package gets the
metadata that the one before it has left in the temporary tree.

**What `library` shows.** Whatever the indices, a scan for the NULL of a string
list ends inside its storage (`ScansEnd`), and with indices of items the NULL is
where the count says (`CountIsTerminator`), so that the two kinds of readers
agree and the list is the sequence its users take it for (`KeepsASequence`). The
buffer of `shell()` is never overrun, although its size is computed from a
counter that starts anew (`OutputFits`); that its end is terminated holds for
short output only (`ShortOutputIsWhole`). The other properties say for which
inputs the scanning loops do what they are for, with the condition they need:
words are kept whatever the blanks, deleted characters are gone unless they were
neighbours, a configuration of plain lines and a template of separated parts
mean what they say, the first clear line answers a prompt. Where there
is a condition, it leaves out inputs for which the code does something else.
`ReadsWhatFits` reads numbers exactly if their type holds them.

**What `commands` shows.** After the argument loop the manifests of the run are
all there, the remote default and the store behind those of the command line
unless these are overridden, in full and none of them NULL, but for a default one
whose file is empty and the store's behind an empty remote one (`ReadInFull`); this
needs `main` to stop for the `spmerrno` an empty manifest of the command line has
left, which is the property's mutant. A query is answered by the newest admitted
version of the last manifest that has one (`NewestOfTheAdmitted`), for versions that
fit their bits: the integers order them as versions are meant. The last manifest is
the store's, which `manifest_priority` holds against the comment at `spm.c:221`.
`CloneIsACopy` is why a clone may be repeated after anything: the checksum comes
from the server's manifest, so that cut, missing and old archives are fetched
again. `TreesGoWhole` rests on the second visit of each directory,
`EveryPrefixIsMoved` on what the build writes and the installation reads being the
same list (it says of text and binary files that every prefix is moved, and of the
others that they stay as they are), `FindsItsLibraries` on the tree being read after
each extraction, and `BuildsArePublished` on `set -e`, on the indexing that stops at a
cut archive, and on the trap, which leaves no more than the directory of a fetch
that found its source stored.

**Bounds.** For the runs of `Spm`: two names that share a file and two versions of
one name are the cases the file sets can differ in for a removal; a list of two is the
shortest in which the temporary tree carries something over; three origins (remote,
directory, store) are all the code distinguishes. Commands follow each other without
a bound: the state is finite because counters are reset at each exit. `spm_rough`
takes two packages because nine faults multiply; `spm_pair` two, each of which both
processes may install, since its races are for one record at a time.
Files are copied in any order, which covers rsync's. `spm_killed` leaves out
`net`, because a cut archive makes the next installation record foreign
metadata, and uses local directories, because a kill during a download leaves the
same cut archive behind; `spm_pair` leaves out `crash` for what is said of
`OrphansAreAdopted` above.

In `library` and `commands` the modules do not interact: a variable `part` says
which of them a behaviour is about, and the others keep their initial values, so
that the states are the sum of the parts'. The bounds are the smallest at which
each effect occurs: a list of three has an item before, at and behind an index;
three occurrences of a character have two neighbours and one apart; a line of
the configuration may be one character too long for its buffer; a `BUFSIZ` of 3
grows twice within 8 bytes; a part of 4 overflows its two bits; trees of depth
three have a directory in a directory that is not empty; the third file part
may hold a second prefix behind a newline; three builds let a killed one stand
between two.

**Deadlock.** The runs of `Resolver` and `Spm` check it: an idle process can
always start a command, and the resolver stutters in its final states
(`Stopped`). `library` and `commands` do not: a command line, a prompt, a
relocation, a configuration and the last build come to an end.

**Fairness.** `Resolver!FairSpec` asks that the sequential program goes on.
`Spm!FairSpec` is weak fairness of each process's own steps: the operating
system schedules it, a prompt is answered and a transfer ends. Nobody is made to
start a command, no fault is made to happen or not to happen, and no choice is
fair: `CommandsEnd` does not rest on a fetch that succeeds in the end.

**Mutants.** Each property of a passing run has a mutated definition in the
module (marked `Mutant:`), a plausible bug in the same code under which the
property fails; they are used by nothing else.

## 4. Findings

1. `resolve.c:41`: a package without requirements is not listed, so it is not
   installed when asked for, nor as the dependency of another, unless it happens
   to be left over in the slot `req_i` (`resolver_leaves`).
2. `resolve.c:55`: a pinned requirement is replaced by the newest version of its
   name (`resolver_pins`).
3. `install.c:362`, `install.c:518`: a transfer that never begins passes for a
   success, and the command for one too, with a record of another package's metadata
   or none (`spm_unfetched`).
4. `manifest.c:621`: of a package that the remote location and the store both have,
   the store's is taken, although `spm.c:221` gives remote manifests the priority
   (`manifest_priority`).

Other things the models have as the code has them, at odds with a comment or
with what a user expects, which no run singles out:

* `install.c:522`: the records are written before the copy into the root; when
  that fails, a second run finds the packages recorded, copies nothing and
  returns 0 (`Spm` with the fault `sync`).
* `manifest.c:330`: a cut transfer is a success as well, and its archive stays in the
  store, where later runs extract what they can of it.
* `install.c:511`: with any version of a name recorded the asked one is passed over,
  and the status is 0.
* `spmbuild:355`: links and directories are in no filelist, so a removal leaves them
  (`purge.c:48`), and the record that told of the package is gone.
* `purge.c:93`: a name given twice to `--remove` ends the removal at its second turn,
  with the status 0 and the packages behind it still there.
* `install.c:263`, `fs.c:535`: of two installations of a package the one whose `mkdir`
  comes second fails with EEXIST, ignores that (522), and copies its files although
  the other may be killed before its record is complete.
* `install.c:438`: a refusal exits with 254, not with the 2 `main` has for it
  (`spm.c:291`), and leaves the temporary directory behind.
* `manifest.c:459`: `manifest_read` validates the store's manifest, not the one it
  reads. A bad store hides every manifest, and a bad manifest beside a good store
  is read field by field until a missing one ends the program.
* `manifest.c:583`: an empty remote manifest sets `spmerrno`, which nothing
  clears, and so the store's manifest is taken for empty as well; an unreachable
  one ends the program, for `--remove` too.
* `spm.c`: `--root /` is refused, `--root //` is not.
* `str.c:91`, `str.c:541`: `strchrdel` leaves every second of equal neighbours,
  and `strdeldup` drops strings that are parts of earlier ones.
* `environment.c:324`: `$A$B` has the value of `A` and the text `$B`;
  `environment.c:392` cuts every variable of the environment at a second `=`.
* `user_input.c:21`: an answer of several letters may be read from its second
  letter, and the newline behind an answer is the default of the next prompt.
* `shell.c:81`: output of `BUFSIZ` bytes or more is not terminated.
* `strlist.c:262`: reversing an empty list reads outside of it.
* `fs.c:261`: `rmdirs` of a link removes what it points to.
* `rpath.c:63` speaks of RPATH or RUNPATH, `shlib.c:72` looks for `RPATH` only;
  `rpath.c:231` drops the directory `lib` behind `lib64`, `fs.c:128` finds
  `libz.so.1` as `libz.so.10`, and libraries of packages installed by an earlier
  command are looked for in `lib` whatever their directory.
* `relocation.c:91`: a prefix across the end of the line buffer stays.
* `mime.c:139`, `mime.c:160`: what is neither `text/*` nor a binary `application/*`
  (JSON, SVG) is in neither prefix file, and keeps the prefixes of the build.
* `version_spec.c:201`: the comparator of the sort returns 0 or 1 only, which C does
  not allow; glibc's merge sort sorts with it all the same.
* `mirrors.c:94`: the status of the last transfer is compared before it is
  assigned; `mirror_clone_interface` returns 0 whatever `mirror_clone` does.
* `spmbuild:299`: a source that is stored leaves the script in its temporary
  directory, and that directory behind for good; `spmbuild:303` keeps the page of an
  HTTP error as the source; a cut archive in the store stops the indexing of every
  later build.

## 5. Proofs

`ResolverProofs` proves, for every value of the constants that satisfies
`ConstantsAssumption` (any finite set of packages, any requirements, cyclic or
not, any command lines, any number of slots and frames):

| theorem | states |
|---|---|
| `TypeCorrect` | `Spec => []TypeOK` |
| `ScansSeeAll` | `Spec => []TailIsFree` |
| `Ordered` | `Spec => []DependenciesFirst` |
| `AskedPackagesStay` | `Spec => []AskedStays` |
| `NoOverrun` | `Spec => []ArrayIsEnough` |
| `SettledStays` | `Spec => SettledForever` |
| `ListedOnce` | `Spec => []NoDuplicates` |
| `CountedExactly` | `Spec => []CountIsExact` |
| `NothingElseIsListed` | `Spec => []OnlyWhatIsNeeded` |

**The argument.** The first six are not inductive by themselves: whether a package may be
appended depends on what the calls on the stack have done. `IInv` (at the end of
`Resolver`) adds it. A requirement is *covered* by a set of packages if it, or
the newest version of its name, is in the set, or that version is a leaf.
`FramesAreCovered` says that each frame's requirements up to its loop index are
covered by the *settled* packages, those in slots that `req_i` has passed;
`CallsArePending` ties each frame to the requirement its caller waits for, and
says that a call that has returned settled it. `TailIsCovered` is what makes the
overwritten slot harmless: whatever waits in it is covered by the settled
packages already, so that a later `resolve_has_dependency` that finds it there
may skip it although it will be overwritten. `SettledOnce` gives the distinct
packages from which `NoOverrun` counts, and `NewestIsFixed` (searching again for
what a search by name found finds the same) is the assumption on the manifests
that `version_spec.c` justifies: the highest version of a name is unique.
`Inductive` is `Spec => []IInv`, with one step per action; these six follow.

The last three have strengthenings of their own on top of `IInv`. A package can
be twice in the array while a call is open: a nested call for a requirement
appends it, and `Store` has written the same package into the next slot. `OnceInv`
says when that is harmless. `TailIsNew`: once the outermost call has settled its
package nothing more will take the slot `req_i`, and what is in it is new.
`CallsOfSettledAreSettled`: a package that is settled although its call is open (it
was met again through a cycle) waits only for calls whose packages are settled as
well. `WaitedForIsNew`: what a call waits for is not settled before the call
returns. `CountInv` says that a counted slot is never freed and that between two
items the first slot that is not counted is free. `NeededInv` says of every set of
packages that has what the items ask for and, with a package, its requirements and
what the calls for them find, that it has the array and the stack; the least such
set is what `OnlyWhatIsNeeded` allows.

`SpmProofs` proves about `Spm`, again for any packages, files (shared or not),
origins, requests, plans, processes and commands that satisfy
`ConstantsAssumption`:

| theorem | states |
|---|---|
| `TypeCorrect` | `Spec => []TypeOK`, whatever fails |
| `FilesHaveOwners` | `Gentle /\ Alone /\ Spec => []NoOrphans` |
| `OrphansHaveParents` | `Gentle /\ Orderly /\ Spec => []OrphansAreAdopted` |
| `OwnRecords` | `Gentle /\ Spec => []RecordsAreOwn` |
| `HalvesByInstall` | `Gentle /\ Spec => HalfByInstallOnly` |
| `KeepsTheLedger` | `Gentle /\ Alone /\ Spec => LedgerSpec`: `Spm` implements `PackageLedger` |

`Gentle` is what the last five assume beyond the types of the constants: the
faults exclude `record`, `tar` and `unlink`; either every package that is not in the
store to start with comes from a directory, or one process runs alone and its
transfers are cut neither by the network nor by a kill (`Undisturbed`); and a
removal has no other process beside it, while any number of installations may run
at once. Each part is necessary. A download killed or cut short leaves a partial
archive, and with it, or with a failing `tar`, a record may get the metadata of the
package extracted before it; a record that was not written leaves files without an
owner, and a failing `unlink` a record without its files' names; two processes of
which one removes break `NoOrphans` (section 6). `Alone` is one process, with kills
anywhere. `Orderly` is that, or any number of installations of packages in one
version that nothing kills: what the race for the directory of a record leaves of
`NoOrphans`.

**The argument.** `NoOrphans` speaks of the root only, so it says nothing of the
files on their way there. `IInv` (at the end of `Spm`) follows them. A file is
*claimed* if an installed package has it in its filelist, or if, beside others, a
process is between the two copies into the record of a package that has it. All
regular files of the root are claimed (`FilesAreClaimed`), and those of the temporary
tree but for the package's that is being recorded (`ExtractedIsClaimed`), which get
their claim with the record: it has the package's own two files (`RecordingOwn`),
because the archive was whole when extracted, and that is because the fetch loop has
passed it (`PlanIsFetched`) and an archive is partial only while it comes, which
nobody else can see (`ArchivesAreWhole`). A process that finds the directory of its
record made, or loses it to another, leaves its files to the one that makes the
record: `DirectoriesAreFilled` says that there is one, as a directory with less than
a record in it is being filled by somebody, which a kill would spoil and which two
versions, each filling the same directory, would leave with a half of each. In a
removal the regular files of the package that are still there are among those left to
visit (`RemovalIsOrderly`), so that the record goes when none is left; a file that two
packages share goes with the first. `PathsAreDirectories` makes the record of an
absent package empty, so that making its directory does not revive it.

A step of one process is a step in the presence of the others. For an
installation `Grows` says what the others may rely on: archives, directories and
claims only become more, so `OthersKeep` carries their part of `IInv` over. For
a removal there are no others (`RemovesAlone`). `InstallKeeps` and `PurgeKeeps` have one
step per action; `Moves` maps each step to one of the ledger or to a stutter:
`PutDescriptor` and `PutFilelist` to `Register` if they complete a record, `DropDescriptor`
to `Strike`, `SyncFile` of a regular file to `Deploy`, `Unlink` to `Retract`.

`SpmReportedProofs` adds what the other runs of `Spm` check:

| theorem | states |
|---|---|
| `StoredAsPromised` | `OneDownloads /\ Spec => []CatalogIsStored`, whatever else fails |
| `InstalledIsIntact` | `Reported /\ Spec => []IntactAtRest` |
| `InstallationsSucceed` | `Reported /\ Spec => []SuccessMeansInstalled` |
| `RemovalsSucceed` | `Reported /\ Spec => []RemovesWhatIsListed` |

`OneDownloads` says that the manifest lists no deleted archive to start with, and that
one process runs alone or nothing comes from a URL: without the latter a second download
empties an archive that the first has listed (section 6). All nine faults are allowed. `Reported` asks for one process, for no
faults but `http`, `copy` and `storage`, which the code reports, and, if there are
removals, for names whose packages share no regular file. Each part is necessary:
with `crash` or `sync` records are left whose files never came (section 4), with
`net`, `tar` or `record` a success may lack its package (`spm_unfetched` for the
first), with `unlink` a removal leaves files, and a file that two packages share goes
with the first that is removed. Neither versions nor words that come twice are
excluded: `SuccessMeansInstalled` says that a name of the list is there in some version,
and `RemovesWhatIsListed` speaks of the words before the first that comes again, where
`spm_purge` returns 1 and the loop ends; `main` stops at -1 and -2 only (`spm.c:272`).

**The arguments.** `StoredInv` follows a package from the scan to the manifest:
what a scan has found to be whole stays whole until it is written, because
transfers write only to archives that are not whole (`Safe`). The other
three rest on `IInv`, which `Reported` implies, and on `ReportedInv`. A record with one
of its two files is just being made (`HalvesAreInTheMaking`), so that no command
dies of one; a complete one has the files of one and the same version
(`RecordsAreWhole`), since a version is recorded only where no other is; what the
archive of an installed package that is not leaving brings is in the root or on the
way there (`FilesAreThere`, where `num` must be set, as `spm_do_install` copies only if
it has installed something); and `LoopsAreInOrder` says what each of the three loops
has done for the items it has passed and what it may rely on for those ahead: a word
ahead of a removal is recorded, or is one of those behind it. `OnceRemoved` is what is
left of that at the end.

`TextProofs` (for `Buffers`) and `LibraryProofs` prove, for any strings, lengths and
numbers, any buffer size and any output, any typed lines, any packages, libraries and
run paths, and any trees:

| theorem | states |
|---|---|
| `ListsEnd` | `SLSpec => []ScansEnd`, with `StrListAssumption` |
| `CountIsNull` | `SLSpec => []CountIsTerminator`, with `StrListAssumption` |
| `ListsAreSequences` | `SLSpec => KeepsASequence`, with `StrListAssumption` |
| `NumbersAreRead` | `SLSpec => []ReadsWhatFits`, with `WidthAssumption` |
| `ShellFits` | `Spec => []OutputFits`, with `ShellAssumption` |
| `ShellKeepsShort` | `Spec => []ShortOutputIsWhole`, with `ShellAssumption` |
| `FirstClearAnswers` | `PromptSpec => []FirstAnswerIsMeant`, with `PromptAssumption` |
| `WordsAreNormalised` | `BufferSpec => []NormalisedIsWords`, with `BuffersAssumption` |
| `DuplicatesAreCovered` | `BufferSpec => []DedupCovers`, with `BuffersAssumption` |
| `TheIsolatedAreDeleted` | `BufferSpec => []DeletesTheIsolated`, with `BuffersAssumption` |
| `ProgramsFindLibraries` | `RpathSpec => []FindsItsLibraries`, with `RpathAssumption` |
| `TreesAreTakenAway` | `TreeSpec => []TreesGoWhole`, with `TreeAssumption` |

`StrListAssumption` says that NULL is not a string, `ShellAssumption` that `BUFSIZ`
is positive, `WidthAssumption` that each integer type has at least one bit, none is
wider than a `long` and a `char` is narrower, which every platform grants.
`PromptAssumption` and `BuffersAssumption` say that what is typed and what comes in
are strings, a typed line without a newline of its own; `RpathAssumption` that
libraries are paths as a tree lists them (`./` in front, a name behind the last
slash), that plans are lists, and that packages hold libraries of the list;
`TreeAssumption` that the names, those of the metadata among them, form a sequence and that
paths have a bounded length.

**The arguments.** For the lists, `SLInv` is that both are *sound*: the slots are
those of the storage, the count is below it, and the last slot is NULL, which
every operation keeps because none writes the last slot but to append one behind
it. `CleanInv` adds that the second list, which only `strlist_copy` fills, is
always clean (strings up to the count, NULLs behind) and the first as long as the
indices are those of items; the sort needs that the first NULL is at the count,
so that it permutes the items and nothing else. `ListsAreSequences` compares the items
before and after each operation with what the operation is on a sequence; for
the sort, whose result is described by an injection of the indices, it takes that
an injection of a finite set into itself misses nothing (`FS_Injection`).
`NumbersAreRead` is arithmetic: a value that a type holds survives the way through
`strtol` or `strtoul`, the remainder and the sign. For the shell, `IInv` says that
the bytes read and a whole `BUFSIZ` are at most the size and `i`: the room left
is what `i` has still to count. `ShortInv` says that up to the first growth the
buffer is the cleared one with the bytes printed so far.

`PromptInv` adds to the property what the first prompt has read while it has no
answer: the lines before the one at hand are unclear ones, and of that one at most
a wrong letter, whose newline was taken with it, so that the next character is the
first of a line again.

The properties of `Buffers` hold of every string over the alphabet, and `BufferType`
(every operation stays within it) is what makes them invariants. Each is proved along
the string, on the functions that give what a loop has made of every prefix: for
`strchrdel` that the positions passed hold none of the characters if no two of them
are neighbours, and that the rest is what it was; for `strdeldup` that what is kept
covers the strings passed; for `normalize_space` that what is written is the words of
the fields so far, and that a word is under way exactly if the last character was not
a blank.

`RpathInv` follows a command through its packages. `TreesAgree`: the temporary tree
holds the libraries of the packages passed, those that a program may have *seen*;
`ProgramsAreCovered`: the RPATH of a program has, for each library it needs, the
directory that a search of that tree gives, be it the fallback `lib`, or one whose path
contains it. From there the property is about names: the first directory with the
name is that of the library, unless another one hides it. The proof found the
hypothesis too weak as it stood: the fallback is one of the directories that are
searched, so it may hide a library, and a library in it may be hidden (with a library
in `lib` whose name another directory has, TLC violates the earlier form).
`Unmistakable` now speaks of it as well.

`TreesGoWhole` needs of a tree that each of its paths is in a directory (`TreeType`, whose
`Stands` every operation keeps). By induction over the levels, the walk from a path records
that path and everything below it, and each of them has a *turn*: a place behind which
nothing inside it is recorded any more. For a directory that is its second visit, without
which the theorem is false. Taking the files first and the directories then keeps the
turns, as files have nothing inside. By induction along the list, whatever is still there
has a turn ahead of it: when a directory is at its last turn, what was inside has had its
own, so that `remove` finds the directory empty.

`CommandsProofs` proves properties of the other commands:

| theorem | states |
|---|---|
| `ClonesAreCopies` | `MirrorSpec => []CloneIsACopy`, with `MirrorAssumption` |
| `ManifestListsWhatWasBuilt` | `BuildSpec => []BuildsArePublished`, with `BuildAssumption` |
| `ManifestsAreInFull` | `Spec => []ReadInFull`, with `ManifestListAssumption` and `CommandLineAssumption` |
| `TheNewestIsFound` | `Spec => []NewestOfTheAdmitted`, with these and `VersionAssumption` |

The first two assumptions are the types of the constants (the targets are a sequence,
`NoArchive` is not an archive, the bounds are natural numbers); the third that
the remote default is one of the locations and that NULL is not the empty manifest.
`VersionAssumption` says that a version has at least one part, a part at least one
bit, and that the integer has the bits of all of them.

**The arguments.** `MirrorInv`: while nothing went wrong (`clean`) the targets before the
one at hand are copied, and of that one the manifest and the archives before the
next; an archive is passed over only if its checksum is that of the server's
manifest. `BuildInv`: a whole archive in the store went through every stage, because
the stages are counted and `set -e` ends the script at the first that fails, and the
one about to be listed is of this build; `LeftByFetch` adds that where nothing was
killed, the directory of a fetch is there only if its source is stored. `LoadInv`: the
list of manifests is read in full as long as `spmerrno` is clear; `main` stops if it is
set at the end of the arguments, so that only the defaults can go wrong, and the remote
manifest is the last of the list, if empty the only one not in full, when the store's
is appended. The proof would not
close for an earlier form of `ReadInFull`, which let only an empty remote manifest
excuse the store's: the store's own manifest may be the empty one.
`TheNewestIsFound` needs no stronger invariant than `ReadInFull` has, but arithmetic,
which `VersionProofs` has: joining the bits of a part to those of the parts before it
is an addition, as they have none in common (`Ors`), and by induction over the parts
the integers of two versions that fit their bits are ordered as the versions are
(`IntsOrder`). The search is then a maximum over a list. It is restricted to
the operators that compare (`Comparisons`).

`OnceInv`, `CountInv`, `NeededInv`, `IInv`, `StoredInv`, `ReportedInv`, `PromptInv`,
`BufferType`, `RpathInv`, `TreeType`, `MirrorInv`, `BuildInv` and `LoadInv` hold in the runs of
their modules as well.

**Induction.** The lemmas about data are inductions along a number: the position in a
string or a list, or a bit. The induction theorems of the library take an operator and
cannot be used here; `Induction` states it with sets instead, from the fact that `<` is
well-founded on the numbers: `UpTo` (a set that has 0 and with `k` also `k + 1` has
all of them), `LeastOf` and `GreatestOf`, and `AlongNumbers`, by which a function defined
along the numbers exists. A loop is therefore written as a function of how far it has
come (`Splits`, `Joins`, `Kept` in `Text`, `Visits` and `Removals` in `Tree`), whose last value
is the result.

**Only model-checked.** `Terminates` and `CommandsEnd` are liveness, which is out of
the prover's reach. `EveryPrefixIsMoved` rests on RECURSIVE operators of `Relocation`, which
no module with a proof may reach, and on prefixes that occur in a file only where a part of
it is one, which the choice of characters in `MCCommands` grants.
`ReadsWhatIsMeant` and `ExpandsWhatIsSeparated` compare a scan of characters with the
parts the text was written from, for parts that `MCLibrary` chooses: what they say
depends on which characters these may have. The refuted `DependenciesAreListed` and
`PinsAreHonoured` need no proof.

## 6. What is not modelled, and why

* **Simplified in `Spm`.** The scan of the store by `manifest_from` is one step,
  and so are the two reads of a record at the start of a removal. Where two
  processes write the manifest at once the last one wins as a whole; the runs
  with two processes avoid indexing or have one package. A download beside
  another of the same archive leaves a partial file until the last one ends.
  What a corrupted filelist holds, a failing removal of the metadata in the
  temporary tree, and what relocation changes inside files are left out: none
  of the properties tells contents apart. A path is a link or directory in every
  package or in none, and the directories that files need on the way are not paths of
  their own.
* **Two processes.** `spm_pair` has two installations, without kills. With an installation
  beside a removal of the same package `NoOrphans` fails, and with two downloads
  of one archive `CatalogIsStored` does (the check at `install.c:361` is old by
  the time the file is opened). No document says that `spm` may run twice at
  once, so these are listed as hazards without a run.
* **Beside the modules.** `CommandLine` and `Spm` are not run together: the words
  and manifests of the one are the constants of the other. Of a manifest's line
  only the name and the version count. `found[255]` of `manifestlist_search` is a
  set of any size. Trees have at most five paths, so that `PATH_MAX` never
  matters; strings have no length limit but the configuration's and the
  relocation's line buffers.
* **Left out of string lists and strings.** `strlist_cmp` and the floating-point
  readers, `num_chars`, `strchroff`, `substring_between`, `join_ex`, `strdup_array`,
  `strcmp_array`: pure functions with unit tests that no modelled part calls.
* **Left out.** Formatting, listing, searching, `runtime_export` and the commands
  that print a value only print. The verification of metadata headers reads
  fixed text. `mirror_list` makes a list that nothing reads, `resolve_free` has no
  caller. The URL stream and checksums wrap libraries; MIME types, `objdump`,
  `patchelf`, `reloc`, `tar` and `rsync` are external programs, taken by their
  outcomes. The modules follow the branches of a Linux build, not those for macOS and Windows.

## 7. Plan

Done, with their proofs: `Resolver`, `Spm` with `PackageLedger`, `StrList`, `Shell`,
`Prompt`, `Text` and `Buffers`, `VersionSpec`, `ManifestList` and `CommandLine`, `Mirror`,
`Build`, `Rpath`, `Tree`. Done and model-checked: `Config`, `Environment`, `Relocation`.

Left, in this order:

1. `Config` and `Environment` with assumptions on the characters of their parts, and
   then what their scans read.
2. `Relocation` without RECURSIVE operators, and then `EveryPrefixIsMoved`.
3. The refinement of a command line by a sequence of commands of `Spm`.
