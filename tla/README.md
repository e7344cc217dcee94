# Verification of gonexus in TLA+

gonexus is a Go port of the `nexusformat` library (package `gonexus/`) and two
HTTP servers, one in Go (`servers/go`) and one in Python (`servers/py`), that
show the NeXus/HDF5 files of an S3 bucket. This directory models the parts of it
that keep state: the modules are translated from the source, TLC checks them on
small instances, and TLAPS proves every safety property of the passing runs for
instances of any size. `PROJECT.json` maps every definition to the lines it stands
for and lists the runs, the mutants, the hazards, the findings and the theorems.

    tlc -workers 2 -config MCS3Store.cfg MCS3Store     # one run
    tlapm TreeServerProofs.tla                         # the proofs of one module

## 1. Inventory

| Component | Source | State | Operations | What makes it correct |
|---|---|---|---|---|
| Cache store, Go | `servers/go/s3store.go` | per object a cached file and an `.etag` sidecar on disk, temp files, `keyLocks` in memory | `Ensure`, `lockFor`, `localPath` | requests for one object exclude each other; a sidecar speaks for the file beside it; an old download never wins; the path returned holds a version of the request's interval |
| Tree server, Go | `servers/go/main.go` | `treeCache.trees`, `treeCache.mu` | `treeCache.get`, `load`, the handlers | the HDF5 library is entered by one goroutine at a time; all clients see one version; every request is answered |
| Server, Python | `servers/py/s3store.py`, `server.py` | the same cache directory; per worker key locks and open `h5py` files | `ensure`, `_load`, the views | the same contracts, over failures of the file system as well; workers converge |
| Field paging | `nexusview.go`, `main.go`, `nexusview.py`, `server.py` | none | `/field?offset&limit` | pages tile the field, end, and respect the cap |
| NeXus tree | `gonexus/group.go`, `object.go`, `attr.go`, `link.go`, `field.go`, `classes.go` | children and attributes, each a slice and a map kept in step by hand; every object's copy of its name and parent | `Insert`, `Delete`, the constructors, `Set`, `Get`, `GetGroup`, `GetField`, `Component`, `NXPath` | slice and map agree; an object knows its place and is found under the path it gives itself; searches are complete |
| Views of a tree | `servers/go/nexusview.go` | none | `/entries`, `/group` | who follows the listings sees the whole tree |
| NeXus files | `gonexus/file.go`, `hdf5io.go`, `api.go`, `util.go` | an HDF5 file, an open handle, the tree | `OpenFile`, `WriteFile`, `ReadFile`, `Save`, `Load`, `Duplicate`, `Close` | a save that returns nil wrote everything, and one that fails leaves at most a part of one object; only mode `w` destroys; what was saved loads as what it was; a copy loads as the original |
| Service script | `servers/go/manage_gonexus` | a PID file, server processes, the port | `start`, `stop`, `restart`, `status` | no server runs that no PID file leads to; stop stops; a restart applies the configuration |
| Server configuration | `servers/go/config.go`, `servers/py/config.py` | the environment, `config.yaml`, one record per server | `loadConfig`, `applyFileConfig`, `Config` | layers in the documented order; both servers agree on an environment |
| Listing | `Store.List`, `list` | none (reads the bucket) | `/files?prefix` | nothing that stayed in the bucket is left out, nothing is made up, sorted, each file once, all or an error |
| S3 client, package configuration, conversions, JSON, examples, build files | | none that anything depends on | | |

How they interact. A handler of the Go server calls `Store.Ensure`, which holds
the mutex of its key for the S3 calls and the changes to the disk, and *releases
it before it returns the path*. The handler then takes `treeCache.mu`, under
which it finds the parsed tree of that path or calls `gonexus.Load`, which opens
whatever file is at the path by then. The Python server does the same with an
open `h5py.File` in place of the tree, in every thread of every worker process.
Nothing but the directory is shared by the workers. A killed process leaves its
files and starts again with empty maps. The handlers of the Go server walk the
tree that `gonexus.Load` made of the file. The server itself is started and
stopped by the script, and reads the environment of the shell and `config.yaml`
once in between, while somebody may be editing the latter.

What is hard to test here: goroutines for one object between the two mutexes; an object
that changes between `HeadObject` and `GetObject`, and again while requests wait; a
crash between the rename of the file and the write of its sidecar, or inside that write;
a cleaner of `$TMPDIR`; failures of every S3 and file-system call; Python workers that
interleave replacement and sidecar; sequences of inserts and deletes; objects without a
name; a save that fails before, in or after an object, or in its last flush, over files
of every origin; a shape that does not fit its value; a file copied onto itself; a
server that dies, ignores `SIGTERM` or outlives its PID file; an edit of the
configuration in the middle of a restart. `PROJECT.json` lists each of these at its
line, under "hazards".

## 2. Modules

| Module | Models | Composition |
|---|---|---|
| `FreshCache` | abstract: a request for an object is answered with one version the object had since the request, or refused | contract of `Ensure`, both servers |
| `S3Store` | `Store.Ensure`, one S3 call or system call per action; bucket owner, cleaner, crash | implements `FreshCache` |
| `PinnedView` | abstract: the first answer about an object fixes the version every later answer of the process shows | contract of both servers |
| `TreeServer` | `treeCache.get`, `load` and the handlers, on top of `S3Store` | EXTENDS `S3Store`, implements `PinnedView` |
| `PyServer` | `Store.ensure` and `_load` in threads of several workers | with one worker, implements `FreshCache` and `PinnedView` |
| `FieldPage` | the limit rule and the slice of both servers, and a client that pages | |
| `Listing` | `Store.List` of both servers: prefix, continuation tokens over a bucket that changes, suffix filter, sort, error | |
| `Browsing` | a client that lists, picks a file and pages through a field of it | EXTENDS `Listing` and `FieldPage` |
| `OrderedMap` | the slice-and-map pair of `NXgroup` and `AttrSet` | used by `NXTree` |
| `NXTree` | the tree, its edits, its queries, and the views `/entries` and `/group` give of it | used by `NXFileIO` |
| `FieldData` | what becomes of a value on the way to a dataset and back: types, shapes, elements | used by `NXFileIO` |
| `NXFileIO` | `Save` and `Duplicate`, object by object, and `Load`, over files of every origin | EXTENDS `NXTree`, `FieldData`; its steps are steps of `NXTree` |
| `ServiceControl` | `manage_gonexus`, command by command, and the server processes | |
| `ServerConfig` | the settings each server makes of an environment and a config file | |
| `Deployment` | servers that the script starts, which read the configuration while it is edited | EXTENDS `ServiceControl`, `ServerConfig`; implements `ServiceControl` |
| `S3StoreProofs`, `TreeServerProofs`, `PyServerProofs`, `FieldPageProofs`, `ListingProofs`, `NXTreeProofs`, `NXFileIOProofs`, `ServiceControlProofs` | theorems | EXTEND their modules, `ListingProofs` that of `Browsing`, `ServiceControlProofs` that of `Deployment` |
| `MC...` | instances for TLC | |

### State and actions against the code

`S3Store`. An object's content is a version number; its ETag is the same number,
because S3 derives it from the content. `file[k]` and `sidecar[k]` are what is in
`localPath(k)` and `localPath(k).etag`, 0 for a missing file and for an empty
sidecar. `pc[p]` names the call that request `p` executes next; "head" to
"write" are the lines between `Lock` and the deferred `Unlock`. `os.WriteFile` of
the sidecar is two actions, `TruncateSidecar` and `WriteSidecar`, since the
process may die between them. Each call that can fail has an action for its
failure, with what the code does then: `HeadFail` answers 404 for every error,
`DownloadFail` removes the temp file, `SidecarFail` returns the path all the
same. `Put`, `Delete`, `CleanFile`, `CleanSidecar` and `Crash` are the
environment. `since` is a history variable: the version when `Ensure` was called.

`TreeServer` adds `trees`, `treeMu`, and `at[p]`, where `p` is after `Ensure`.
Opening (`OpenFile`) and parsing (`Parse`) are two steps, and the file may be
replaced between them: the open handle keeps the old inode, so `view[p]` is
fixed when the file is opened. `born` is a history variable.

`PyServer` has, per thread, the steps of `ensure` and `_load`, with locks and open
files per worker: two threads exclude each other only if they are `Siblings`. `Fail`
is an exception of an S3 call or of the file system (reading the sidecar,
`makedirs`, `os.replace`, emptying and writing the sidecar), which leaves behind what
was done before; `os.path.exists` is false on an error instead. The cache directory
is under `$TMPDIR` as that of the Go server and has the same cleaner, so a file may
vanish between `exists` and `h5py.File` (`OpenFail`). `born` is a history variable:
what the bucket held when a worker was started.

`FieldPage` computes the response of either server with the arithmetic of the
code, wrap-around included, and lets a client follow the documented protocol:
add `count` to `offset` until a page is not truncated.

`NXTree` knows objects by identity, as Go pointers are; `children[g]` is the pair
`order`, `entries` of a group, `name` and `parent` are the fields of `base`. `Insert`
writes four things, `Delete` one, and the gap between them is what `KnowsItsPlace` and
`PathsResolve` are about. `Construct` is `newSimpleGroup` with one or two children: of
two with one name the second stays. `BuildGroup` with `GetGroup` and `Briefs` is what
the handlers answer; `ViewsLeadOn` follows every listed name with another request.
`Under`, `NXPath`, `Walk` and `Component` are recursive functions of the tree. `Get`
splits the names of its path at their slashes and drops the parts "" and "." as
`group.go:107-116` does: `Parts[n]` is what becomes of a name `n`, and a name is `Plain`
when that is the name itself. Objects may be born without a name, as `NewField` makes
them. `Walk` follows names as they are, which is what the package does when it has a
group in hand. `NXPath` is one of the objects that are in the tree: the loop of `nxPath`
(`object.go:46-65`) ends there, and would not on parents that deleted objects remember
in a circle.

`NXFileIO` represents a file by its set of HDF5 objects, each with path, kind, types of
attributes, and data, and by two flags: are the attributes of its root written, and can
it be opened and they be read. `todo` is the stack of the recursion of `writeObject`: a
group that is written is replaced in it by its `Entries`, a field by nothing, and each
object is a step of its own. HDF5 may fail in each: before the object is made, or after,
which leaves one of its `Fragments` in the file (`WriteFails`), as does an attribute of
a type `writeAttributeValue` does not know. The entries of a loaded tree are in the
order of their names, in which HDF5 enumerates them. `SaveOpens` is `OpenFile`. `Stamp`
writes the root attributes, and sets them in the tree first, where the program that
called `Save` finds them; its tree has changed. `Returns` is the deferred `Close`, which
may fail to write what HDF5 has in memory: the file is then `Damaged`, and nobody is
told. `flushed` is a history variable that says so. `Duplicate` is `Load`, then the same
steps with what was loaded in place of the tree. Files of other tools (`Foreign`) hold
what gonexus itself never writes: groups without `NX_class`, links, booleans of h5py.
`FieldData` tells apart what the code tells apart: the kind of the elements, scalar or
slice, the shape that is stored beside the value, and NULs behind a text. A dataset gets
as many elements as the shape says; those behind the end of the slice are `Garbage`.

`Listing` has an action per step of the loop: `ListFiles` is the request, `ListPage`
one answer of S3 with the sort when it is the last, `ListFails` the error that
drops what was collected. Every page sees the bucket as it is then. A key is a
number and its order that of the keys; the store enumerates in an order of its
own, which S3-compatible stores need not share with Go's and Python's sort.
`steady` and `seen` remember what the bucket held during the request.

`ServiceControl` has one action per command of the script whose outcome other
processes can change. `SIGTERM` only lets a server die; `kill -9` ends it.

`Deployment` puts `LoadConfig` between the start of a process and its listening, and
`Edit` of `config.yaml` anywhere. Texts are texts here, since whether a text parses is
what the layers differ in; `IntOf` and two sets of texts stand for `strconv`, `PyIntOf`
and a third set for `int()` and `_env_bool`, which read other texts. `asked` and `since`
are history variables: the last command of a shell and what the file held since then.

## 3. Runs

| Run | Bounds | What it shows |
|---|---|---|
| `go_store` | 1 key, 3 requests, 2 versions, 1 crash, faults, cleaner | types, mutual exclusion, `SidecarNotAhead`, `PathHoldsVouched`, `NoTempAfterReturn`, `FileNeverRegresses`, and `Ensure` implements `FreshCache` |
| `go_server` | 1 key, 2 requests, 2 versions, 1 restart, faults, fair | types, one goroutine in HDF5, one version for all clients, never older than the process, implements `PinnedView`, every request is answered |
| `py_server` | 1 worker, 2 threads, 2 versions, 1 kill, faults, cleaner, fair | the same contracts as the Go server's, `FreshCache` and `PinnedView`, the sidecar is never ahead, every request is answered |
| `browsing` | 3 keys, one without a NeXus suffix, enumerated backwards in pages of one; 2 prefixes, 2 changes, 1 failing page; then scalars, 0 to 4 rows of 1 or 3 columns, offsets 0 to 5, absent, negative, zero, legal and excessive limits, cap 3, default above the cap | listings are complete, truthful and sorted; pages tile the field, nothing is missed, the cap holds for the kinds that are sliced, the session ends |
| `nexus_files` | 3 groups, 1 field born without a name, 2 other names, 3 attributes, 1 content, 2 files, one of which may be another tool's in 2 ways, 4 modes, 1 save or copy, failures at every step, 1 object lost by a `Close` that fails | order and map in step, paths, `Component`, views that lead on, whole saves, what failed saves leave, round trip, faithful copies, no loss of others' files |
| `service_control` | 1 shell, 3 servers, 2 rounds of waiting, 5 environments, 4 config files, 1 edit | no orphan, stop stops, a restart applies the configuration, the servers agree, every command ends |
| `store_revert` | 2 requests, contents may come back | **violated**: `ChangedIsRedownloaded` |
| `server_stale` | 1 request at a time, no faults | **violated**: `AnswerIsFresh` |
| `py_converge` | 2 workers | **violated**: `WorkersConverge` |
| `py_stale` | 1 worker, 2 threads | **violated**: `AnswerIsFresh` |
| `field_cap` | the fields, offsets and limits of `browsing` | **violated**: `EveryPageWithinCap` |
| `nexus_links` | links in the tree | **violated**: `LinksAreRefused` |

Why the bounds are enough. Keys do not interact in `Ensure` (each has its own
file, sidecar and mutex), and in `TreeServer` only through `treeCache.mu`; the
proofs cover any number of them. Three requests let one hold the mutex, one wait
and one have returned; two versions tell old from new and the races need no more,
which the proofs confirm. One crash between any two calls meets every state of
the disk, and the proofs allow any number. In `browsing` a listing of up to
three pages lets a key come or go before, on and behind the page in flight, and a
page may hold no NeXus file; a cap of 3 over up to 12 elements gives up to twelve
pages and every alignment of the last one.
`nexus_files` needs three groups, two of them of one class, so that a search meets
a match inside a match. All groups are born with one name, so that children of one
constructor clash, and the field without any; `Insert` gives another, for which
objects replace each other. The attributes are one of the field that gonexus has a
name of, one that only other tools set, and one for the four of the root; the content
is a matrix of texts with NULs behind one of them. One save or copy after any edits
is enough, since a second meets the same kinds of file that `Foreign` and the first
already are; two files let a copy go elsewhere or onto itself. A `Close` that fails
loses one object, as a subtree is lost one object after another, or makes the file
unreadable. That a type of attribute cannot be written, and a shape that does not fit
its value, are left to the proofs, which take any; in the run HDF5 fails in place of
the first. The run has 1.3 million states.
In `service_control` a third server lets a restart be followed by another one; the
environments hold texts that both servers, one or none of them understand or that
only Python takes for a number, and the files no setting, settings of their own, an
empty bucket, or nothing that can be parsed; one edit comes before, in or after any
command (0.7 million states).

Each property has a mutant in `PROJECT.json`: a definition of the model changed
the way a plausible bug would change the code, under which TLC finds the property
violated. The mutated forms (`Mut...`) stand before the definitions they change.

Deadlock is checked in every passing run except `browsing` (a client that has
everything stops), `nexus_files` (after its last save the program is done) and
`service_control` (all three server processes may have been used up, and the one
edit made).

### Fairness

- `TreeServer`, `go_server`: a handler that can take its next step again and again
  takes it some time. S3 and system calls return, with an answer or an error, so
  nearly every step stays possible until it is taken; a `sync.Mutex` is free again and
  again only, but switches to starvation mode after a millisecond and is then handed
  over in order. Clients, owners, cleaners and crashes have no fairness.
- `PyServer`, `py_server`: weak fairness of a thread's next step and strong fairness of
  its two locks. `threading.Lock` promises no order; strong
  fairness states that an operating system does not pass over one waiter for
  ever; it is an assumption about the platform and not a promise of CPython.
- `Browsing`: the client goes on, S3 answers a page that does not fail, and the
  servers answer; nothing says that the bucket changes or that a page fails.
- `ServiceControl`: the shell runs its next command. The servers need do
  nothing: they may ignore `SIGTERM` for ever, and never start listening.

## 4. Proofs

`S3StoreProofs` proves, for all values of the constants that meet
`S3StoreAssumption` (names do not clash, bounds are numbers):

- `TypeCorrect`, `TempsAreRemoved`, `EnsureIsExclusive` with no further
  assumption;
- `SidecarCorrect`, `PathCorrect`, `FileMonotonic` and
  `EnsureImplementsFreshCache` for an owner who never uploads earlier content
  again (`~Reverts`). Without it they are false, and `store_revert` shows why:
  an ETag that comes back matches a sidecar whose file is another version.

None of the properties is inductive. `IInv` adds what connects them. Mutual
exclusion needs `LocksShared`: the mutex a request was given is *still* the one in
`keyLocks`. `SidecarNotAhead` needs a chain for the request that holds the mutex,
one link per call: the sidecar and the file are not newer than its ETag
(`EtagAhead`, `FileBehindEtag`), its ETag is not newer than the body it downloaded
(`BodyAhead`), and that body is in place when the sidecar is written
(`BodyInPlace`). Each link rests on mutual exclusion, which keeps others from
moving the disk in between. `PathHoldsVouched` is about a request that holds no
mutex any more, so it needs `LaterEtag`: whoever asks for an ETag after the
return learns of one that is no older. The refinement needs `SinceBehind` and
`HitIsFresh`: a hit is at least as new as the request. The step lemmas split
`Next` into its actions.

`TreeServerProofs` carries the store's invariant over, since every step of the
server is a step of the store or leaves it alone (`ServerStepsAreStoreSteps`):

- `ServerTypeCorrect`, `HDF5IsExclusive` and `ViewsAlwaysAgree` hold for any
  owner. They rest on `PastEnsure` and on `ParsesOnce`: nobody fills the entry
  that the holder of `treeCache.mu` parses for.
- `NeverOlderThanProcess` and `ServerImplementsPinnedView` assume `~Reverts`. The
  argument is a chain of ages: process start, request (`BornBehind`), path
  (`PathIsRecent`), file opened (`PathHoldsVouched`), tree (`ParsedKnown`).
- `HoldersNeverWait` says that whoever holds a mutex that another request waits for
  waits for none itself, so no circle of requests can form over the mutexes of the
  keys and that of `treeCache`: `Ensure` has let the first go before
  `treeCache.get` takes the second.

The safety half of each liveness property is a theorem, a measure (`StepsLeft`) that
every step of an actor's own lowers and no step of anybody else raises:
`HandlersAlwaysGoOn` and `ThreadsAlwaysGoOn` (a request, of any number of workers),
`CommandsAlwaysGoOn` (a command of the script, in any number of shells). For a
session of `Browsing` it is the continuation token (`TokensAlwaysGoOn`) and the
client's offset (`PagesAlwaysGoOn`), which only go up to the number of keys and to the
length of the field. What is left to TLC is that those steps do happen: that a
waiter gets its mutex some time, and that calls return.

`FieldPageProofs` proves `PagesAlwaysTile`, `NothingIsMissed` and `PagesWithinCap`
for fields of any shape, any limits, default and cap, of both servers. They assume
`FieldPageAssumption` (the length of a field plus the cap is a Go `int`, so the
addition in `sliceGeneric` does not wrap). The first two also assume that the client
starts at an offset that is not negative: the Go server echoes a negative one as it
is, and a client that adds `count` to it reads some elements again. The cap and the
progress of the client (`ResponseLeadsOn`) need no such assumption. `SliceIsRange`
says what the arithmetic of one slice yields, `ElementsJoin` that adjacent ranges
concatenate to one, `ResponseIsPage` that a response leads the client to the end of
what it holds; `PagingInv` adds that the client only goes forward and stops at the
end.

`PyServerProofs` proves, for any workers, threads, keys, versions and kills, and with
failing file operations and a cleaner at any moment, `TypeCorrect` and
`AnswersAlwaysVersions`, which is what is left of the contract when several workers
share the cache directory: an answer is some version the object has had, and the answers
of one worker agree. (That a path still leads to a file is not true: a cleaner may be
faster, and `OpenFail` is the answer then.) For one worker (`OneWorker`) that may be
killed between any two steps it proves `SidecarCorrect`, `EnsureImplementsFreshCache`
and `ServerImplementsPinnedView`. The chain is that of `S3StoreProofs` over the code of
another language (`EtagAhead`, `BodyAhead` on top of the mutual exclusion of the
worker's own locks), and it says why one worker is safe: the locks die with the worker
that was inside them, and what it left on disk still has the sidecar behind the file.
`BornBefore` adds the ages of the worker for `PinnedView`. With two workers the first
two are false, as `py_converge` shows. Owners upload new contents here, never old ones.

`ServiceControlProofs` is about any servers, environments and config files.
`TypeCorrect` and `CommandsAlwaysGoOn` are about any number of shells that run the
script at once; the rest is about a script that one shell runs at a time
(`OneShell`). `NoOrphanEver` and `StopAlwaysStops` rest on `Known` (which server may
be alive at each line of the script), `CopyIsFile` (the shell's `$PID` is still that
of the file) and `StillStopped`. `DeploymentRunsService` shows that the composition
implements the script's own module, so `RestartAlwaysApplies` can use its invariant
and adds `LoadedInTime`, `RestartGoesOn` and `OnlyRecent`: whatever is alive after
the stop of a restart read a file of its interval. `ServersAlwaysAgree` is about the
records the two servers make of one environment: without a config file they are the
same field by field, and one server starts when the other does, as long as the
environment is of texts that both read alike (`PlainEnvironment`; numbers that
`Atoi` and `int()` both read, and read as one, are among its conditions, and section 5
says which texts are not). It needs no invariant, but lemmas on what the helpers of both
languages read of a text (`FirstOfTwo`, `NoFileNoChange`, `TextsReadAlike`).

`ListingProofs` proves `ListingsAreComplete` and `ListingsAreTruthful` for any keys,
enumerated in any order, any prefixes and page size, any changes of the bucket
between the pages and any failed pages, of the listings that the client of
`Browsing` makes. `ListingInv` says of a listing under way that what was collected
so far is among what was asked for, as the bucket held it, each file once and behind
the token (`Passed`), and that nothing that stayed in the bucket is missing up to
the token (`Covered`): `PageIsTaken` shows that a page moves both to the next token,
whatever the bucket did since the last. The model states the page of a store and the
sort by the ranks of their members in a finite order, and `Ranks` and `Places` prove
that each member has one, and that each rank is that of some member.

`NXTreeProofs` is about any objects, names and attributes. Its lemmas say of an
ordered map that `Put` and `Drop` keep slice and map in step and move nothing they
do not remove (`PutIsSound`, `PutKeepsOrder`, `DropShifts`, `DropIsSound`,
`DropKeepsOrder`); `OrderAlwaysMatches`, `OrderAlwaysKept` and `PlaceAlwaysKnown`
follow for every sequence of operations. The rest of the module is about the tree
as a whole, and about functions that are recursive over it:

- `TreeInv` adds to `IInv` that the root has no parent and that the groups are
  `Acyclic`, said without paths: in every set of groups one holds no other of the
  set. Each step keeps that, since the group that `Insert` or `Construct` changes is
  not below what it adds. `Kids` of different groups are disjoint, as an object
  knows its one parent (`KidsShareNothing`).
- The recursive functions are `CHOOSE`s in TLA+, so a lemma must show that a
  function with their equations exists. `RecursionExists` does it for recursion
  over numbers (`Walk` and `Get` over a path, `Component` over the entries of a group),
  `UnderUnfolds` for `Under`, which is the least closed set, `PathUnfolds` for
  `NXPath`, from the one chain of groups that leads from the root to an object, and
  `ComponentUnfolds` for `Component`, from a function on a largest set of groups
  (`SomeFind`), which `Acyclic` shows to be all of them.
- `PathsAlwaysResolve`: from the root down, `Walk` finds an object under its path
  (`KidIsFound`, `EachIsFound`), and different objects have different paths
  (`PathsDiffer`). `Get` does what `Walk` does where the names on the way are plain
  (`PlainGet`), and only there: the theorem and the property say so. `ViewsAlwaysLeadOn`
  is that plus `AllAreShown`, and `ComponentAlwaysComplete` an induction over the groups
  below one (`FoundInGathers`, `ComponentFindsAll`): each match once, since what is
  below two children is disjoint.

`NXFileIOProofs` shows with `FilesUseTree` that a program with files changes its tree by
the operations of `NXTree` only, the attributes that `Save` sets at the root among them,
so these theorems hold in it. `TypeCorrect` includes that every call releases its
handle; `OthersAlwaysKept` that no call takes anything from a file but in mode `w`, or
when its `Close` fails. Both rest on `FileInv` (the open file is one of the files).
`ValuesComeBack` is about the data: a value of any kind and length, written with a shape
that fits it, can be read and is what it was, but for NULs behind texts.

Four more theorems are about whole calls: `SavedIsAlwaysWhole`,
`NothingEverInvented`, `DuplicatesAreFaithful` and `TreesComeBack`. HDF5 may fail in
every step of the calls they are about. The first and the third speak of calls whose
`Close` did not fail (`flushed`), which their caller cannot know; the second
of all, and allows a call that failed one object that is a part of what it should
be. They hold for
any tree, any edits, any contents whose shapes are sequences of numbers, and any
files that other tools may have left, as long as each is a finite tree
(`NXFileIOAssumption`; in HDF5 only a hard link to a group above makes another).
Their invariant is `SaveInv`, which TLC checked on the instance of `nexus_files`
before it was proved:

- `Progress(W)` is the state of the recursion: the file holds what it held before
  and the items in `W`, whole, everything in `todo` has its place in `W`, and *every item
  of the tree that has its place in `W` is in `W` or in `todo`*. Writing a group
  keeps it because its `Entries` are all the items directly below it
  (`EntriesOfTree`, and `EntriesOfLoaded` for `Duplicate`, which needs that any
  finite set of numbers can be put in order, `SomeAscent`).
- When `todo` is empty, `W` is therefore closed under "has its place", and then it
  is the whole tree: an item that is not in `W` has a group above it that is not,
  which has a shorter path (`AllHavePlaces`).
- `CallSound` ties the call to its file and its source. For `Duplicate` it holds
  that each loaded object would be read again as what it is: `WhatIsReadFits` says
  that what a reader makes of a dataset fits its shape and has no NULs left, so
  `ValuesComeBack` applies to it (`ReadTwice`).
- `TwinSound` holds of a file that was saved whole and alone, until the tree or the
  file changes, that it is the tree, item by item. `WrittenIsReadable` and
  `WrittenComesBack` show that the reader refuses none of it, and that distinct
  items come back as distinct objects since their paths differ (`ImageIsTree`).

Only model-checked: liveness (`EveryRequestAnswered` of both servers, `SessionEnds`,
`CommandsEnd`), which is out of the prover's reach but for its measures. No other
property of a passing run is without its theorem, but some theorems assume more than
the code ensures: `~Reverts` of the owners, `OneWorker`, `OneShell`, a client that
does not start at a negative offset. `store_revert` and `py_converge` show that the
first two are needed.

## 5. Findings

Six runs end in a violation of what a document says; `PROJECT.json` quotes it.

1. `store_revert`: the ETag stored is that of `HeadObject`, the body that of the
   later `GetObject`. If the object changes between them and later changes back,
   the wrong file is a hit.
2. `server_stale`: `treeCache.invalidate` is never called; after a re-download
   the server shows the old tree until it is restarted.
3. `py_converge`: two workers can leave an old file under the current ETag.
4. `py_stale`: a worker goes on answering from the `h5py` file it opened first, after
   `ensure` has downloaded a newer one, until it is restarted.
5. `field_cap`: a field of 8- or 16-bit or unsigned integers is returned whole.
6. `nexus_links`: a link group is saved as an ordinary, empty group, silently.

Smaller divergences, met while modelling and visible in the definitions:

- An object that did not change is downloaded again once after the race of
  finding 1 (`servers/README.md:21-24` says it is not).
- Every failure of `HeadObject` is a 404 (`HeadFail`); `servers/README.md:82-84`
  promises 500 for S3 failures.
- `servers/go/apis.md:106-131` says of a 2-D `int64` field that a request for ten
  elements is answered with all of it, `total` 1. That leaves open whether gonexus reads
  such a field as `[][]int64` or as a flat `[]int64`; it reads it flat, which is a
  kind that is sliced, so `PageWithinCap` holds of it.
- The Go server slices the flattened array, not rows, and echoes `offset`
  unclamped (`GoPage`); `servers/README.md:75-77` says rows. `truncated` is false
  on a last page that holds fewer than `total` elements, against lines 78-80.
- The comment of `createSoftLink` (`hdf5io.go:152-155`) says links are written as
  copies; it returns an error.
- A deleted child keeps its name and parent (`Delete`), though
  `object.go:15-17` says an unattached object has none. The constructors drop the
  first of two children of one name, and children without a name get the name ""
  (`Construct`). `NXPath` of such an object is that of its group with a slash behind it,
  and `Get` finds the group under it; an object named "." is not found either, and for one
  with a slash in its name `Get` looks elsewhere (`group.go:107-116`,
  `classes.go:161-163`). `PathsResolve` is about plain names.
- `Save` in modes `a`, `r+`, `rw` over a file gonexus wrote always fails, because
  the root attributes are there (`StampFails`).
- `Save` and `Duplicate` return nil when `H5Fclose` could not write what HDF5 had in
  memory (`Returns`): `api.go:56` drops the error that `file.go:88-92` returns, and the
  file lacks objects or cannot be opened.
- An error after an object was made leaves a part of it in the file (`Fragments`): a
  group without `NX_class`, which loads as an `NXgroup`, or a dataset without its
  contents (`file.go:289-291`, `file.go:306`, `hdf5io.go:435-438`). A boolean or a slice
  as the value of an attribute is enough, since `writeAttributeValue` knows no such type.
- `Save` changes the tree it saves: it sets four attributes of the root (`SetFileAttrs`,
  `file.go:242-245`), also when it fails afterwards.
- `Save` and `Duplicate` truncate the target before a failure; `Duplicate` of a
  file with links always fails, against `api.go:60-64`.
- `file.go:209-217` should keep a load going past an unreadable dataset, but the
  error it waits for is returned by nothing (`LoadFails`).
- `README.md:294-298` says that values are read as `string`, `float64`, `int64` or
  `bool`; `elementGoType` reads every width of integer and float as what it is, and
  booleans of h5py as 8-bit integers (`Decode`). Attributes, on the other hand,
  come back as `float64` whenever they are numbers (`ReadType`).
- `Shape` is never compared with `Value`: a shape that is too large makes the
  write read behind the end of the slice (`Encode`).
- A link is listed with the type "NXlink" (`BriefOf`), though the comment of
  `NodeBrief` knows "group" and "field" only. A group without children answers
  `"children": null`.
- A value or an attribute that is NaN or infinite answers 200 with an empty body,
  since the error of the JSON encoder is dropped.
- The servers read some environments differently (`PySettings`): "yes" and "on" are true
  for Python only, an empty `NEXUS_CACHE_DIR` is a directory for Python and not set for
  Go, and `int()` takes limits with spaces around them, with underscores or beyond 64
  bits for numbers where `Atoi` leaves the default (`PyIntOf`), although
  `servers/README.md` says they read the same.
- An empty `aws` key in the config file does not clear the one of the environment,
  as `applyFileConfig` skips it for `os.Setenv`.
- The Go server never loads `S3_TLS_INSECURE_SKIP_VERIFY` and `S3_TLS_CA_FILE`,
  which `config.go:46-58` and `servers/README.md` describe.
- The script finds its PID file beside itself, but `bin/` and `config.yaml` in the
  directory it is called from.

## 6. Not modelled

- The set-up of the S3 client and of TLS (`newStore`, `buildHTTPClient`): one
  construction, without state; what the client does is the environment.
- The package configuration: nothing in the package reads it.
- Formatting and conversions: `Tree`, `Dir`, `Signal`, `Float64`, `Int64`,
  `naturalSortKeys`, the text of values; pure functions no other part depends on.
- JSON and the error values; the views of the Python server, which show the HDF5
  file itself and hold no tree.
- Go's `int` and `bool` as kinds of values, whose width in a file is a matter of
  the HDF5 binding, and variable-length strings.
- In files: names with slashes (`NXFileIOAssumption`; HDF5 makes groups of them),
  attributes of the root other than those `WriteFile` sets, slices and booleans as
  attributes, should the binding write some, healthy files that fail to be read
  (the reads of a load fail for the reasons of `CanRead` only), modes of `Load` other than
  "r" and "rw", which read the same, and another program that makes the file between
  the `Stat` and the `CreateFile` of mode "a".
- The HDF5 binding itself, which is not in the repository. `ElementGoType` takes its
  `GoType` for the sign of an integer only, and takes 8-byte references and array
  types, which the code would read by their size, for types that do not occur.
- An empty key: both servers answer 400 before `Ensure` is called, and `Ensure` refuses
  it before it touches anything (`s3store.go:181-183`).
- An error of `os.Remove` of a temp file, which the code ignores.
- A script that is interrupted between the start of the server and the write of its
  PID file, or cannot write that (`manage_gonexus:34-38`): then a server runs that no
  PID file leads to, and `NoOrphan` says nothing of it.
- A subtree inserted in two places, or above itself: `Insert` does not check it,
  and no code of the repository does it.
- Two shells that run `manage_gonexus` at once. `ServiceControl` allows them
  (`Calls`) and they break it, since the script has no lock; no document says that
  may be done, so no run claims it. The same holds for a PID file that outlives a
  reboot.

`PROJECT.json` gives the reason for each component, and, under "hazards", for
each hazard that no property covers.

## 7. Plan

Done, in the order of importance the modules were written in: `S3Store` with
`FreshCache`, `TreeServer` with `PinnedView`, `PyServer`, `FieldPage`, `NXTree` and
`NXFileIO`, `ServiceControl`, `Listing` and `Browsing`; then the contents of fields,
`Duplicate` and the views of the server, `ServerConfig` and `Deployment`; and the
proofs about all of them.

Left, in order:

1. A tree that is loaded, edited and saved again, so that what the loss of
   attributes does over several generations of a file shows.
2. The environment of two Python workers with a lock on disk, should the server
   get one: `WorkersConverge` would become a theorem.
3. What two shells and an owner who uploads earlier content again do not break: the
   theorems of section 4 that assume `OneShell` or `~Reverts` in the weaker form that
   holds without, as `AnswersAlwaysVersions` is for several workers.
