# A TLA+ verification project for oci-tool

`oci-sync` mirrors container images from one or more registries, listed in a
YAML file, to a destination: a local directory or another registry. Its own logic
is a thread pool that runs what it is given on the caller's stack when no worker
is free, a copy algorithm in which images share layers and wait for each other's
downloads on that pool, a content store on a file system, and a client of the
registry protocol. This directory holds TLA+ models of that logic, TLC
configurations that check them on small instances, and TLAPS proofs of all
the safety properties they check for every value of the constants: every number of threads
and every tree of tasks, every catalogue of tags, images and shared layers, every
size of a blob and every number of failures.

Paths below are relative to the repository; `STM` is
`include/gobha/SimpleThreadManager.hpp`, `Copy.cpp`, `Sync.cpp`, `Dir.cpp`,
`Yaml.cpp` and `Client.cpp` are under `src/lib/OCI/` (with `Extensions/` and
`Registry/`).

## 1. The system

### Components

| component | state | operations | what makes it correct |
|---|---|---|---|
| thread pool, `STM` | `fg_funcs_`, `bg_funcs_` (FIFO), atomic `idle_`, `run_thr_`, one mutex and one condition variable | constructor, worker loop, `background`, `execute`, `wait`, destructor | each function runs once; a join returns after what it joins; nothing queued is forgotten; nested joins never use up all workers; `wait` means done; shutdown ends |
| `OCI::Copy` | `working_digests_` under `wd_mutex_`, `finish_download_` | `execute` of a manifest list and of an image manifest, the download function | a layer is downloaded by one thread at a time; a claimed digest is released; a manifest is written after its blobs; "completed" is true; every image gets on |
| `OCI::Sync` | counters and condition variables on the stack | `execute` of a catalogue and of a repository, `repoSync` | every tag is visited, and the call returns |
| `OCI::Extensions::Dir` | a tree of blobs, image directories and manifests, temporary files | `hasBlob`, `putBlob`, `putManifest`, `fetchBlob`, `fetchManifest`, `catalog` | what is found under a digest is that content; a manifest only refers to what is there, also after a crash |
| `OCI::Registry::Client` | the token, the HTTP clients, the upload session of the server | `hasBlob`, `fetchBlob`, `putBlob` (`initiateUpload`, `uploadStatus`), `putManifest`, authentication | a blob arrives once, whole; retries end |
| `OCI::Extensions::Yaml` | the parsed file, the current domain | `catalog`, `tagList`, `copy` | the requested tags of the requested repositories, no others |
| schemas, `Inspect`, factory, programs | values | conversions, argument parsing | (no state of their own) |
| `gobha::Util::Thread::Queue` | | | included by nothing, and does not compile (`std::lockguard`) |
| vendored code | | | httplib, nlohmann/json, Yaml, digestpp, spdlog, indicators, args |

### Interactions

`oci-sync` builds a `SimpleThreadManager` and hands it to `Sync`, which hands it
to `Copy`. `Sync` and `Copy` submit lambdas: `repoSync` puts repositories or
tags in the background queue, `Copy` puts images and layer downloads in the
foreground one. A manifest list holds a thread until its images have returned
(`thread_count` and `count_cv` on its stack); an image holds a thread until all
its layers are at the destination. Downloads are joined by nobody: an image
polls `hasBlob` and sleeps up to 30 s on `finish_download_` between polls.
Downloads stream from source to destination through a callback
(`fetchBlob` calling `putBlob`).

### What is hard to test here

* `execute` reads `idle_` without the lock, and a worker decrements it after it
  has released the lock under which it popped (STM:76-82, 119-131). Both races
  decide which thread runs what; on an unlucky schedule a queued task and its
  joining parent compete for the last worker.
* One condition variable serves the workers and the client in `wait`, so
  `notify_one` can be taken by somebody who has no use for it. The 250 ms
  timeouts are load-bearing.
* An image reads the set of digests being downloaded, the blobs at the
  destination and its own list of missing layers in separate critical sections,
  each stale by the time it acts.
* A download can fail and be retried, a registry can answer wrongly once, or
  not at all.
* A crash of the process or a full disk between the steps of `Dir`.
* Upload offsets (inclusive ranges, `int` against `size_t`) and the 401 retries of
  the registry client.

`PROJECT.json` lists all of them at their lines with the properties that cover
them; those without a property say why.

## 2. The modules

| module | models | composes |
|---|---|---|
| `Executor` | what a thread pool promises to those who submit to it: tasks go from new to running to done once each, and one that joins is done after those it submitted | |
| `TaskPool` | the scheduling discipline of `SimpleThreadManager`: two queues, `idle_`, `execute`'s choice, nested calls | refines `Executor` |
| `TaskPoolProofs` | theorems about `TaskPool` | extends `TaskPool` |
| `SimpleThreadManager` | the same with the condition variable, its timeouts and spurious wakeups, `wait` and the destructor | refines `TaskPool` |
| `Copy` | `Copy::execute`, `working_digests_`, and `repoSync` on the pool, with a directory or registry as destination | refines `TaskPool` |
| `CopyProofs` | theorems about `Copy` with any destination, among them that it implements `TaskPool` | extends `Copy`, uses `TaskPoolProofs` |
| `CopyClaimsProofs` | theorems about `working_digests_`, and about the lifetime of downloads when the destination is a `Dir` | extends `CopyProofs` |
| `SimpleThreadManagerProofs` | theorems about `SimpleThreadManager` | extends it, uses `TaskPoolProofs` |
| `ContentStore` | what `Copy` relies on in a `Dir`: blobs, manifests and the list that appear, and stay | |
| `DirStore` | `Dir` as a destination by its steps on the file system, with crashes, a full disk, broken connections and concurrent writers | refines `ContentStore` |
| `DirStoreProofs`, `DirMirrorProofs` | theorems about `DirStore` | extend it |
| `RegistryUpload` | `Client` as a destination: the upload of one blob part by part, with its tokens and retries | |
| `RegistryUploadProofs` | theorems about `RegistryUpload` | extends it |
| `YamlSync` | `Sync` with a `Yaml` source: domains, repositories, tags, their counters, and what is asked of which registry | refines `Executor` |
| `YamlSyncProofs` | theorems about `YamlSync` | extends it |
| `MCTaskPool`, `MCSimpleThreadManager`, `MCCopy`, `MCDirStore`, `MCRegistryUpload`, `MCYamlSync` | the instances TLC checks | |

The modules meet where the code does. `Copy` and `SimpleThreadManager` each refine
`TaskPool`, and `TaskPool` refines `Executor`, which is what `YamlSync` assumes of a pool.
`Copy` has a destination that answers `hasBlob` and takes blobs and manifests;
`ContentStore` is that promise made precise for a `Dir`, and `DirStore` shows that the
files keep it. `RegistryUpload` opens up one download of `Copy` to a registry.

### TaskPool

A *task* is one function object given to the manager. The shape of the program
enters as a tree: `Parent[c]` is the task whose body submits `c`, `Joins` the
tasks whose body waits for those it submitted before it returns, `BackgroundTask`
those handed to `background` (only the owner of the pool, `Main`, hands any:
`repoSync` is called on the main thread). A body submits its kids in any order,
or only some of them. `stack[t]` is the chain of bodies on the call stack of thread
`t`: `execute` of a function when no worker is idle adds one on top.

| action | code |
|---|---|
| `Background` | `background`: push under the lock (STM:111-117) |
| `ExecuteFoundIdle`, `PushForeground` | `execute` reads `idle_ > 0`; later it locks and pushes (STM:119-126). They are two actions because the read is outside the lock |
| `ExecuteInline` | `execute` reads `idle_ == 0` and calls the function (STM:127-131) |
| `PopForeground`, `PopBackground` | the body of the critical section of the worker loop; the foreground queue goes first (STM:60-77) |
| `Begin`, `End` | `idle_--` before and `idle_++` after the call, outside the lock (STM:79-83) |
| `Return` | a body returns, if it joins only when what it submitted is done |

A join is a counter on the parent's stack that each child decrements (in a
`CountGuard`) and a `condition_variable` the parent waits on with a predicate;
the model has its condition, that the children are done, as the guard of `Return`.

### SimpleThreadManager

Adds `run_thr` and `pc`. All actions on queues and stacks are those of
`TaskPool`, conjoined with the `notify_one` the code makes in the same critical
section. `NotifyOne` takes any waiting thread, client or worker; when none waits
the notification is lost. A worker's round is `TestRunThr` (the `while`), then,
under the lock, `Sleep` or `PopAndNotify`, after 250 ms `Timeout`, then
`PopAndNotify` or `NothingAfterTimeout` (STM:57-84). `ClientSleeps` ...
`JoinWorkers` are `wait` and the destructor (STM:96-109, 133-149).

### Copy

The tree of tasks is `Main` (`repoSync`), tags (`Copy::execute` of a manifest list,
run in the background), images (`Copy::execute` of an image manifest, submitted by
their list with `execute`) and downloads (submitted by images with `execute`). A
download is named `<<image, digest, attempt>>`, since an image that finds a layer
missing again submits another function for it. `at[p]` is where the body of `p`
stands. One action is what happens between two points at which another thread
can interfere: the test of `working_digests_` and the claim are under one lock
with the `hasBlob` between them (`SkipWorking`, `FindLayer`, Copy.cpp:156-172),
the second `hasBlob` is alone (`LayerPresent`, `LayerMissing`, 185-193), the
submission is the pool's two steps, the transfer (`FetchLayer`) and the
`DelayedCall` that takes the digest out again (`Finalize`, 195-208) are two.

Data are abstracted to identities: a blob is its digest, a manifest list is its
tag, a manifest its image. Two tags that name one image are two images with the
same layers and configuration.

The destination is a `Dir` (`DirDestination`) or a registry. A `Dir` answers
`hasBlob` exactly and does not accept a manifest without a directory made by an
earlier `putBlob` of the same image (Dir.cpp:268-274, 551-591). A registry may
answer an existing blob with an error status, which `hasBlob` turns into
`false` (Client.cpp:518), and may make any call throw. A transfer can fail before any
data, after some, or with the blob stored (`Transfer`); a configuration that fails to
arrive is either not noticed or ends the image (`FetchConfig`). Each such event counts
towards `MaxFaults`.

`SyncOutlivesDownloads` is about the lifetime of the `Copy` itself: downloads capture
`this` and nobody joins them, so the object must not be destroyed before the last of
them is over (Copy.hpp:46-53 and Copy.cpp:196).

### DirStore

One tag is mirrored `MaxRuns` times while its manifest list at the source moves from one
version to another (`Follows`). A writer `<<i, d>>` is the `Dir` object that receives
blob `d` for image `i`; each has its temporary file (`temp`), `bytes_written_`, and
the Get that feeds it (`sent`, `gets`). A file is abstracted to how much of it is
there: `temp` to a length and whether its content is a prefix of the blob, a blob to
absent, short, whole or wrong, a manifest to absent, torn or whole.

| action | code |
|---|---|
| `StartLayer`, `StartConfig` | `Copy` has found the blob missing and makes a `Dir` for it |
| `SkipPart`, `Append`, `AppendFails` | `putBlob` of the next part: it makes the image's directory, finds the blob there, or writes to the temporary file (Dir.cpp:263-304) |
| `RemoveDirty`, `LeaveOther`, `StartCopy`, `FinishCopy`, `CopyFails` | the last part: `validateFile`, the second look under `DIR_MUTEX`, and `copy_file` (Dir.cpp:305-332) |
| `ConnectionDrops`, `ErrorAnswer`, `EndOfBlob` | how a Get of `Client::fetchBlob` ends; a broken one is repeated into the same callback, three Gets in all |
| `CompareImage` ... `ManifestWriteFails` | an image's way through `Copy::execute`, `fetchManifest` and `putManifest` (Dir.cpp:399-452, 551-590) |
| `CompareList` ... `ListWriteFails` | the manifest list's: stale image directories go first, then the old list, then the new one is written if all manifests exist (Dir.cpp:352-397, 482-548) |
| `Crash`, `Rerun` | `oci-sync` is started again, at any point or after a run; only the files stay |

`DIR_MUTEX` is held from `StartCopy` to the end of the copy, and while the list is
written; the actions that lock it have `MutexFree` as a guard.

### RegistryUpload

One blob is wanted at a registry that requires a token or not. The image polls
(`HasBlob`), a download is submitted (`StartDownload`), and each part that arrives from
the source goes through `putBlob`: the first opens a session (`InitiateUpload`), the
following ask where the session stands (`UploadStatus`), and each is sent with
PATCH or, if `last_offset + blob_part_size == total_size`, with the final PUT
(`Patch`, `Put`, `PutRefused`; Client.cpp:546-623). `last_offset` is an `int`
that receives a `size_t` (`Narrowed`).

Every request may meet a token that is missing or has expired, and is made again after
`auth`, which brings one or not (`Authorize`, `AuthorizeInVain`, `TokenExpires`). `putBlob`
makes its `headers` before it asks where the session is, so its own first request may be
refused although that question has just been given a token. A request may be lost before or
after the server acted on it, which throws (`RequestFails`), except where `uploadStatus` asks
again after a 401: it then returns 0, and `putBlob` sends the part as if it were the first
(`StatusUnknown`, Client.cpp:1039-1048).

The source may break off and be asked again (`GetAgain`), three times in all (`GetGivenUp`),
or answer with an error status, whose text has then gone through `putBlob` into the session
before `fetchBlob` looks at the status (`ErrorAnswer`: `body` is what the current Get
delivers; `EndOfBody`). The server is external: it appends what it gets,
reports what it has either as a count or as the last byte of an inclusive range, and
stores the content if it has the digest.

### YamlSync

The owner goes through the domains of the file one after the other. For each it makes
the catalogue (`Catalog`: `current_domain_`, a new client, short names renamed
to `library/`; a domain without images throws there and ends the program), hands one background function per repository to the pool
(`Background`) and joins them (`Joined`). The function of a repository asks for its
tags (`ListTags`: those of the file if it lists any under that name, else the
registry's through the filter), submits one function per tag and joins those
(`ExecuteTag`, `RepoReturns`). All of them copy one `Yaml` object when they run, not
when they are submitted: `asked` records the domain such a copy finds. `AuthThrows` is
an exception that reaches no `catch` on a worker and ends the process.

## 3. What TLC checks

| run | instance | shows |
|---|---|---|
| `pool` | `MCTaskPool`: 8 tasks (two repositories, their tags, two images and a download nobody joins), 3 workers | types, the queues hold exactly what is queued, `idle_` counts what it should, the workers are never all waiting, and the pool implements `Executor`, progress included |
| `stm_shutdown` | `MCSimpleThreadManager`: 5 tasks, 2 workers and the client | used as `Sync` uses the pool (the owner joins): no queued task is forgotten, the destructor ends and leaves nothing behind, and the whole implements `TaskPool` with its fairness |
| `stm_wait_early` (violation) | the same, the owner does not join | `wait` returns too early, finding 1 |
| `copy_dir` | `MCCopy`: one tag, 2 images that share a layer, 3 workers, a `Dir` with up to two blobs beforehand (the shared layer and a configuration), 2 failures | one download per digest at a time, `working_digests_` holds only what somebody is busy with, no image passes its layers before they are there, no download is left when the sync returns |
| `copy_registry` | the same, a registry, 2 failures of any kind, wrong answers included | the layers are still there before the manifest; a layer the registry lacks is downloaded by one thread at a time |
| `copy_finishes` | one tag, 2 images sharing a layer, 4 workers, 1 failure | the sync returns; without failure every tag is mirrored and what is reported completed is there: list, manifests and blobs |
| `dir_store` | `MCDirStore`: 2 images that share their configuration, a tag that names both and then one of them, blobs of 2 units, 3 runs, one broken connection, one crash or full disk at any step | what stands under a digest was validated; a list has its manifests; a run in which nothing fails mirrors the tag whatever the runs before it left; every run ends; the files keep the promise of `ContentStore` |
| `registry_upload` | `MCRegistryUpload`: 6 or 14 bytes in parts of 1, 2, 3 or 6, an `int` that ends at 5, counting and inclusive ranges, error answers of up to 3 bytes, 3 faults | the session has exactly the parts that were sent; the PUT never comes before the last part, and with a counting server comes with it if an `int` can hold the size; such a blob arrives once faults stop |
| `yaml_sync` | `MCYamlSync`: 2 domains, up to 2 repositories each, 2 tags; a file that lists no tags, one that lists some, one with filters, one with a domain without images; 2 failures of registries | each registry is asked for exactly what the file names, the pool is used as `Executor` allows, the sync or the process ends |
| `copy_all_asleep` (violation) | as `copy_dir`, no failure | finding 2 |
| `copy_leaked_digest` (violation) | as `copy_registry` | finding 3 |
| `copy_tag_alias` (violation) | two tags that name one image | finding 4 |

### Bounds and why they are enough

* **Threads.** Two workers let every race between a worker, another worker and
  the owner happen; the third of `pool` and `copy_dir` lets one more task be
  queued behind two that hold a worker. In `copy_finishes` there are four,
  because the pool can really fall asleep when the tasks that may wait (the tag
  and the two images) are as many as the workers: that is what
  `copy_all_asleep` shows with three. The result of `copy_finishes` is therefore a
  statement about a pool with more workers than waiting tasks, not about every
  pool.
* **Tasks.** The trees contain joins inside joins, a task that is not joined by
  its parent, and siblings that compete for one worker. For `TaskPool` the
  proofs remove the bound.
* **Layers.** Two images that share a layer in different positions and have one of their own is
  the least instance in which an image skips a layer another one downloads and
  finds it stored later.
* **Failures** (`MaxFaults`, 1 or 2; 3 for uploads). Failures are counted over the whole run;
  two let a retry fail too. `Attempt == 1 .. MaxFaults + 1` bounds the downloads
  an image can need for a layer; it never blocks a step, as an image submits the
  layer again only after a failed one.
* **Files.** A blob of two units is the least that can be half there, and the least
  for which a repeated Get can append to the wrong place. Three runs let a run meet
  what two earlier ones left, one of them killed. One accident and one broken
  connection fall at every step; the proofs remove all these bounds.
* **Uploads.** Six and fourteen bytes can be cut into one, two equal or many unequal
  parts. With `IntLimit = 6` an `int` goes from -6 to 5: it holds every offset in a blob
  of six bytes; in one of fourteen they turn negative and, at twelve, start again
  from 0, without any fault. Three faults let a session be spoiled, asked for once
  more and given up. The proofs remove the bounds from the safety properties;
  `BlobArrives` is claimed, and the last part is claimed to be recognised, where an
  `int` can hold the offsets (`size <= IntLimit`): section 5 says what happens beyond.
* **Yaml files.** Two domains are the least for which a function of one could run
  under the next. `Follows <- Forward` (`dir_store`) and the files of `yaml_sync`
  are assumptions about the input, not only bounds: section 5 says what happens
  without them. The proofs keep these assumptions, in the form `NeverReturns` and
  `ReadAsMeant`, and remove the bounds on domains, repositories, tags and failures.
* **Symmetry** (`WorkerSymmetry`) is used in runs without liveness properties.
* Deadlock is checked in every run but `yaml_sync`, whose program really stops, when the
  owner is through or the process has ended; the other systems end in a `Terminated` step.

### Fairness and what justifies it

* Each thread that can go on in the body of its task or in its loop goes on (weak
  fairness per thread): the operating system's scheduler.
* The queue mutex is handed over fairly (weak fairness of the critical sections of a
  worker).
* `SF(Timeout(w))` in `SimpleThreadManager`: `wait_for` with a predicate computes one
  absolute deadline, so spurious and useless wakeups do not postpone it.
* Nothing obliges `notify_one` to choose the client, so that `wait` returns is
  not claimed; `DestructorFinishes` starts where `wait` has returned.
* `DirStore` has weak fairness per writer, per image and for the tag: each is a body
  on some thread. Nothing obliges a mishap to happen, or anybody to start another run.
* `RegistryUpload` has weak fairness of the download as a whole, which is one thread and a
  server that answers.
* `YamlSync` has weak fairness of each step of each function: the pool starts
  what it is given. `QueuedTasksFinish` is where that is checked of the pool.

## 4. What is proved

`TaskPoolProofs` proves, from `PoolAssumption` alone (a finite non-empty set of
workers, a client that is not one of them, a parent for every task but `Main`, and
that only `Main` uses `background`), for every number of workers and every tree:

| theorem | statement |
|---|---|
| `TypeCorrect` | `SafeSpec => []TypeOK` |
| `IdleCounts` | `SafeSpec => []IdleCountsIdleWorkers`: `idle_` never wraps around and never exceeds `thread_limit_` |
| `QueuesDisciplined` | `SafeSpec => []QueuesHoldWhatIsQueued`: no task is lost or queued twice |
| `PoolNeverWedges` | `SafeSpec => []NeverAllStuck`: the workers are never all waiting for others |
| `PoolImplementsExecutor` | `SafeSpec => Promise!SafeSpec` |
| `JoinsHold` | `SafeSpec => []JoinsAreOver`: a body that joins has returned only after what it submitted |

The argument. `NeverAllStuck` is not inductive. A worker that joins can be stuck
because a kid of its task is queued; what saves the pool is that a kid is queued only
if `execute` saw an idle worker. The invariant that carries this, `IndInv`,
adds to the properties: `StackMatchesMode` and `StacksDisjoint` (a task is on at most one
stack, and status, mode and stack agree), `MainOnClient`, `KidsAfterParent` (a task
has no submitted kids before its body runs, none unfinished after a join) and
`SomeBusyWorkerFresh`: whenever all workers are busy, one of them is `Fresh`, that is,
everything the tasks on its stack have submitted has returned or is itself the next
task on that stack. The last worker to become busy makes `idle_` zero; it has
submitted nothing yet, and while all stay busy `execute` in its body runs inline. A
Fresh worker waits for nobody else, so its innermost task can return, and in the end the worker
takes what is queued. That `idle_` is zero exactly then is `IdleCountsIdleWorkers`,
whose proof rests on lemmas about the cardinality of a set that loses or gains one
worker.

`CopyProofs` and `CopyClaimsProofs` prove, from `CopyAssumption` alone (workers and
client as above; tags, images, downloads and `Main` are different tasks; every image has
a tag, a sequence of layers and a configuration), for every catalogue, every number of
workers and every bound on the failures:

| theorem | statement |
|---|---|
| `CopyImplementsTaskPool` | `SafeSpec => ImplementsTaskPool`: every step of `Copy` is a step of the pool or leaves it alone |
| `CopyTypeCorrect` | `SafeSpec => []TypeOK` |
| `LayersComeFirst` | `SafeSpec => []LayersStoredBeforeManifest` |
| `CompletedIsWritten` | if every image that a `Dir` does not hold has a blob to bring that it alone brings (`ImagesBringBlobs`): `SafeSpec => []CompletedMeansWritten` |
| `CopyNeverAllStuck` | `SafeSpec => []Pool!NeverAllStuck`: what `PoolNeverWedges` says, of the tasks of a sync |
| `OneDownloadAtATime` | for a `Dir`: `SafeSpec => []OneDownloadPerDigest` |
| `MissingOnce` | for any destination: `SafeSpec => []MissingLayerDownloadedOnce` |
| `ClaimsAreDownloads` | for a `Dir`, if no configuration blob is a layer of some image (`ConfigsAreNoLayers`): `SafeSpec => []WorkingIsDownloading` |

The argument. `CopyImplementsTaskPool` goes action by action; with it, and with the
assumption of the pool proved of the tree of `Main`, tags, images and downloads
(`CopyIsATreeOfTasks`), the theorems of `TaskPoolProofs` hold of `Copy`. `CopyTypeOK`
carries besides the types that an iterator the code is about to dereference stands on
a layer: `layers.erase` invalidates it, and the scan starts again. `LayersInv` adds that a
layer which an image no longer lists is at the destination, and that a manifest which
is there has its layers.

For `CompletedIsWritten`, `WrittenInv` follows a tag back through its images to their blobs,
with the results nobody hands on: an image returns `void`, so a tag that has joined
its images knows only that they are over (`OverWhenDone`), and that an image which is over
is at the destination (`ImagesWritten`) holds as long as no call failed. A manifest that was
to be written is written because its blobs are there (`ManifestsHaveBlobs`) and, in a `Dir`,
because its directory is: only `putBlob` makes one, so `DirectoriesMade` says that an
image whose own blobs are all in the store has a directory. `ImagesBringBlobs` is a
condition on the initial state only, and one that the code needs: without it finding 4
is a counterexample. For a registry it is vacuous.

`ClaimsInv` says who is responsible for a digest in
`working_digests_`: its *holder* is the image between finding the layer missing and
submitting its download, then that download up to its finalizer. Where `hasBlob` tells the
truth (`Exact`: of every digest in a `Dir`, and of those a registry lacks, since a registry
denies what it has but never the opposite), every holder's
digest is in the set (`HoldersClaim`) and no two hold one digest (`OneHolder`), which is why
the unlocked second question and the late erasure do no harm. `OneDownloadAtATime` and
`MissingOnce` are what this says of a `Dir` and of any destination. For a `Dir` every digest in
the set also has a holder (`ClaimsHeld`). This needs both conditions of
`ClaimsAreDownloads`: a registry that changes its answer between the two questions,
or a configuration that arrives there as somebody's layer, leaves a digest without a
holder (finding 3).

`JoinsHold` rests on `Custody`: a task that is being pushed has its submitter between the
two halves of an `execute`, and one that has begun is on some thread's stack until it is
done. `Custody` serves two more proofs.

`CopyClaimsProofs` also proves `DownloadsEndFirst`: for a `Dir`,
`SafeSpec => []SyncOutlivesDownloads`. Nobody joins a download, so the argument goes through
the image that submitted it: an active download has its layer on its image's list, and
the image has not passed its layers (`DownloadsFollowed`), because it can drop a layer only
when that layer is at the destination, and then no download of it is in anybody's hands
(`FoundFree`, which needs the holders of `ClaimsInv`). So the image has not returned,
nor, by `Custody`, its tag, nor `Main`, which joins the tags. The condition is needed: a
registry that answers one `hasBlob` with an error status makes the image submit a
download of a layer that is there, find it present, and leave.

`SimpleThreadManagerProofs` proves, from `ManagerAssumption` (which is `PoolAssumption`):

| theorem | statement |
|---|---|
| `ManagerImplementsTaskPool` | `SafeSpec => Pool!SafeSpec`: whoever takes a notification, queues and stacks change as `TaskPool` says |
| `ManagerTypes` | `SafeSpec => []TypeOK`; with it, a worker that sleeps or has exited holds no function |
| `NothingIsLeft` | if every task is below `Main` (`AllUnderMain`) and who submits anything is joined by its parent (`SubmittersAreJoined`): `SafeSpec => []NothingLeftBehind` |
| `JoinedMeansDone` | if every task is joined by its parent: `SafeSpec => []WaitMeansDone` |

The argument. `Moves` says what any step may do to the places of the threads, and
the theorems of the pool come with `ManagerImplementsTaskPool`. The client gets past
`check` only when `Main` is done. By `Custody` no task that submits others is then
running, because each is joined by its parent up to `Main`; so nothing is pushed any more,
and queues found empty stay empty. They say nothing of what the workers have popped:
that is over when they have been joined, since a worker at its exit holds no
function. Downloads, which are not joined, satisfy the condition of `NothingIsLeft` because they
submit nothing; they do not satisfy that of `JoinedMeansDone`, and the unit test of the
pool (finding 1) satisfies neither.

`DirStoreProofs` and `DirMirrorProofs` prove, from `DirAssumption` (the types of the
constants), for all images, versions, sizes and numbers of runs and mishaps:

| theorem | statement |
|---|---|
| `DirTypes` | `SafeSpec => []TypeOK` |
| `DirBlobsVerified` | `SafeSpec => []BlobsVerified` |
| `DirListHasManifests` | `SafeSpec => []ListHasManifests` |
| `DirImplementsContentStore` | `SafeSpec => ImplementsContentStore` |
| `DirManifestsHaveBlobs` | `SafeSpec => []Store!ManifestsHaveBlobs`: a manifest refers to blobs that are there, an invariant of `ContentStore` that the refinement brings down to `Dir` |
| `DirUndisturbedRunMirrors` | if every image has a blob of its own (`ImagesHaveOwnBlobs`) and the source never goes back (`NeverReturns`): `SafeSpec => []UndisturbedRunMirrors` |

The argument. `DirInv` adds to the properties that a file which is being copied
is whole and validated, goes to a short blob, and that nobody else copies to that digest
(`CopyingInv`: the second look is under the same lock as the copy); that an image being
mirrored belongs to the version of the run (`WritingInv`); and that a list which is being
written has all its manifests (`ListInv`). For the last theorem `MirrorInv` follows a run: every
blob of an image that has passed its layers is there, and an image whose blob of its own
is there has a directory, unless it belongs only to versions the source has left (`DirsOK`).
Both conditions are needed, see section 5.

`RegistryUploadProofs` proves, from `UploadAssumption`, for every size, every set of lengths
of parts, every `INT_MAX`, every length of an error answer and every number of faults:

| theorem | statement |
|---|---|
| `UploadTypes` | `SafeSpec => []TypeOK`: a source is asked at most three times in a download, and no more is passed on than the body at hand has |
| `UploadSession` | `SafeSpec => []SessionHoldsWhatWasSent`: while one Get runs the session has exactly what `putBlob` was given, and a prefix of the blob if that Get delivers the blob |
| `UploadFinish` | `SafeSpec => []FinishedByItsLastPart`: no part but the last finishes an upload, with either kind of range and any width of `int`; with counts that an `int` can hold the last one does, unless `uploadStatus` returned 0 for want of an answer |

`UploadInv` ties the place of the client to the session of the server: a request about the
first part has no session, one about a later part has one that holds just what was sent, and
`last_offset` never runs ahead of it, also when it is an inclusive end or a narrowed one, or 0
for want of an answer; with counts below `IntLimit` it is exact or that 0. The first gives the
one direction of `FinishedByItsLastPart` (`FinalIsLast`), the second the other (`LastIsFinal`).

`YamlSyncProofs` proves, from `YamlAssumption` (the types of the files and registries, finitely
many tags, a domain is named once in a file, full names are not short ones), for every file
and every bound on the failures:

| theorem | statement |
|---|---|
| `YamlTypes` | `SafeSpec => []TypeOK`: among other things the two counters never go below zero |
| `YamlReferences` | `SafeSpec => []ReferencesValid`: a function that is queued or running counts down a counter that is not zero, under a call that has not returned, and finds the domain it was made for |
| `YamlNeverStuck` | if the file has a domain: `SafeSpec => []SomebodyIsReady`: until the sync is over or the process has ended, some body can go on |
| `YamlAsksOnly` | for a file that is read as it is meant (`ReadAsMeant`): `SafeSpec => []AsksOnlyWhatTheFileNames` |
| `YamlAsksAll` | for such a file: `SafeSpec => []AsksAllTheFileNames` |
| `YamlImplementsExecutor` | `SafeSpec => ImplementsExecutor` |

The argument. A function copies the `Yaml` object, and with it `current_domain_`, when it
runs and not when it is submitted, so all depends on the owner not moving to the next domain
while one is on its way. `CountersCount` says that `repo_thr_count` is the number of
functions of repositories that were submitted and have not returned, and each `thread_count`
that of functions of its tags; its steps are again lemmas about a set that loses or gains
one element. Hence a counter at zero means that nobody is left, and every function that is on
its way is of the domain at hand (`PlacesInStep`, `OwnerInStep`, `FunctionsInStep`). A counter that
is not zero means that somebody is on its way, and can go on: that is `YamlNeverStuck`, stated by
the guards of the actions since ENABLED is beyond the prover, and worth a proof because the run
does not check deadlock. What is
asked for is then on the list of its own place (`AskedListed`), and what is on a list is still
to be submitted, on its way, or was asked for (`NothingForgotten`, `CopiedIsAsked`).
`ReadAsMeant` is a condition on the file alone, which the files of the run satisfy: tags listed under a short name are also under the full one, and
where none are listed the one filter that is left is the filter of the domain. The code needs
both; section 5 says what happens without them. For the refinement the owner is one more task
of the executor (`OwnerTask`), and `TaskState` is what an executor sees of a sync.

What is only model-checked: everything about progress, which needs fairness, which the
prover does not treat (`QueuedTasksFinish`, `DestructorFinishes`, `EveryTagMirrored`,
`SyncReturns`, `RunEnds`, `BlobArrives`, `SyncEnds`, and the fairness in the pool's
`ImplementsExecutor` and the manager's `ImplementsTaskPool`). Every invariant that a passing
run checks is a theorem, some of them under the conditions stated above. The community
modules' `RemoveAt` is covered by a lemma (`RemoveAtFacts`) proved from its definition.

## 5. Findings

1. `wait` may return while a worker holds a function it has popped and not yet run
   (`stm_wait_early`). `Sync` joins what it submits, so `oci-sync` is not affected; the unit
   test of the pool is.
2. Every worker can sleep for a download that is queued behind them
   (`copy_all_asleep`). The pool's own guarantee, `PoolNeverWedges`, does not
   help, since an image that polls is not a join: it waits for a
   task somebody else submitted, and that task may have been queued.
3. A digest stays in `working_digests_` when the second `hasBlob` throws or
   contradicts the first (`copy_leaked_digest`).
4. A second tag of an image that a `Dir` has already is reported completed and not
   written (`copy_tag_alias`).

Further observations, which the models show when an instance is changed as described,
and which quote no promise of the repository:

* A download can outlive its `Copy` when the destination is a registry
  (`SyncOutlivesDownloads` fails on the instance of `copy_registry`).
* A registry that denies, by error statuses, a layer it has makes two threads download it at
  once (`OneDownloadPerDigest` fails on the instance of `copy_registry`, with two
  denials). `MissingLayerDownloadedOnce` is what is left.
* A blob beyond 2 GiB that comes in parts is never finished, even by a server that counts and
  without any fault: `last_offset` is an `int` (Client.cpp:547), negative from there on, and
  its sum with the length of the last part is not `total_size` (line 567). The image finds the
  blob missing, and downloads it again and again (`EveryServerServed` fails in
  `registry_upload` with `Sizes = {8}`, `RangeStyles = {"count"}` and `MaxFaults = 0`).
* With an inclusive range, which is what the distribution protocol specifies, the finishing
  condition at Client.cpp:567 does not recognise the last of several parts, and after a
  first part of one byte `uploadStatus` loops for ever on a range that ends in 0
  (`EveryServerServed` fails in `registry_upload`).
* A torn `ImageManifest.json` is never written again: it exists. `Mirrored` therefore
  claims whole manifests only of a history without accidents.
* An image that comes back to a tag after its directory was removed, with its blobs still in
  the store, gets no directory, and every later run refuses the list
  (`UndisturbedRunMirrors` fails in `dir_store` with `Follows <- AnyWhere`). An image all of
  whose blobs belong to other images as well meets the same.
* Tags that a file lists for a short name of docker.io are ignored, because `catalog` renames the
  repository and `tagList` looks for the new name; all tags of the registry are
  mirrored (`yaml_sync` with file `short`).
* The tag options of the last domain of a file that has any decide for all domains
  (`yaml_sync` with file `filters`).
* A domain of a file without images ends the program at its turn: `catalogs.at(domain)`
  throws (Yaml.cpp:92-98), and the domains after it are not mirrored (`yaml_sync` has such
  a file, `bare`; `SyncEnds` counts this as an end).
* `Dir::fetchBlob` throws after it has delivered a whole blob whose size is a multiple of its
  buffer. `Copy` has that outcome among those of a transfer.

## 6. Plan

What a continuation would add, in this order:

1. `Dir` as a source: the map of directories and its construction, `catalog`, `tagList`
   and `fetchBlob` by parts.
2. `Client::fetchManifest` with its retry flag, redirects and `ping`.

Not modelled, and not planned: the JSON conversions of the schemas and of
`Error.cpp`, `Inspect` (a stub), the client factory, argument parsing in the
programs, progress bars and logging, the Schema1 overloads of `Copy::execute` (they log
and return), `Queue.hpp` (dead). The unwinding of an uncaught exception from the source's
`fetchManifest` (Copy.cpp:114) destroys counters that queued functions refer to; what
happens then is undefined and left out of `Copy`, whose source always has its manifests.

Vendored code is not modelled either: httplib, nlohmann/json, spdlog with fmt, args,
indicators, digestpp and the YAML parser. That is nearly all of the repository, about 97 % of
its 71 000 lines; the models cover the concurrent and stateful part of the
remaining few thousand, and no larger share of the whole can be reached without
modelling libraries the program only calls.
