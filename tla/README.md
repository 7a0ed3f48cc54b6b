# A TLA+ verification of akua

akua packages Kubernetes configuration: `akua.toml` declares dependencies (charts
and packages in OCI registries, Helm repositories, git or on disk), `akua.lock`
pins them, `.akua/vendor` may hold copies of them, and `akuapkg render` evaluates
`package.k` over what was resolved. This directory models the part of it that
keeps state and can go wrong in ways a test hardly reaches, checks the models
with TLC and proves the main invariants with TLAPS.

## The system

| component | source | state | operations | what must hold |
|---|---|---|---|---|
| manifest | `akua-core/src/mod_file.rs` | `akua.toml` | load, add/replace/remove a row, save | never half written unless a process died |
| lockfile | `lock_file.rs` | `akua.lock` | load, validate, find, upsert, save | one entry per (name, version); metadata belongs to the bytes it was issued for |
| resolver | `chart_resolver.rs` | none | resolve each dependency, in name order: replace, vendored tree, path, OCI, Helm, git | what is returned is what the pin says; a mismatch is an error, and only a mismatch with a pin of that dependency is |
| verbs add, remove, lock, update, verify, render, vendor | `akuapkg-cli/src/verbs/*.rs` | none between commands | read both files, resolve, merge, write | pins move only on purpose; lock is idempotent; a locked workspace renders offline |
| vendoring | `vendor.rs` | `.akua/vendor/<name>` | add, check, list | `vendor check` accepts what `vendor add` wrote |
| OCI fetcher | `oci_fetcher.rs` | blob cache under `$XDG_CACHE_HOME` | fetch by pin or by tag, unpack, offline lookup | a slot of the cache is complete or absent |
| git fetcher | `git_fetcher.rs` | bare clones and checkouts | clone, refresh, resolve a tag, check out | a checkout is complete; a tag is what the remote says |
| Helm fetcher | `helm_repo_fetcher.rs` | archive cache | index, download, compare, unpack | bytes agree with the pin |
| cache inventory | `cache_inventory.rs` | the caches | list, clear | a cleared slot is fetched again |
| OCI transport, push, pull | `oci_transport.rs`, `oci_auth.rs`, `oci_pusher.rs`, `oci_puller.rs` | bearer token | request, 401 challenge, blob uploads, manifest | a manifest never names a blob that is not there; an expired token is made good |
| signing and provenance | `cosign.rs`, `cosign_sidecar.rs`, `slsa.rs` | sidecar files | sign, attest, verify | a signature is its publisher's and for the manifest it is stored with |
| publish, push, pull | `verbs/publish.rs`, `push.rs`, `pull.rs`, `package_tar.rs` | none | pack, upload, sign, attest; fetch, check, unpack | success means all of it is there; a reader takes what was published |
| evaluation | `package_k.rs`, `kcl_plugin.rs` | thread-local stack of render frames | push a scope, call an engine plugin, pop | no cycle, bounded depth and time, posture inherited |
| composed rendering | `pkg_render.rs` | output directory | resolve a child, render it, write manifests | a child is no more trusted than its parent |
| render worker, engine hosts | `render_worker.rs`, `akua-render-worker`, `engine-host-wasm` | wasmtime store, epoch ticker, pooled sessions | request, run, interrupt, answer | a request has one answer; a run ends |
| dev loop | `dev.rs`, `verbs/dev.rs` | watches, debounce window, channel, stop flag | edit, flush, render, stop | every edit gets its verdict; the loop comes to rest; stop is honoured |
| test runner, directory diff | `test_runner.rs`, `verbs/test.rs`, `dir_diff.rs` | `snapshots/` | render a case, compare it, replace its snapshot | "updated" means the next comparison passes; "pass" means equal |
| export, inspection, scaffold, API, login, SDK | see PROJECT.json | little or none | | mostly pure functions and I/O |

The verbs run as separate operating-system processes over one workspace; no file
lock protects it. The caches are shared by every workspace of a user. Inside one
process the resolver calls the fetchers synchronously, rendering calls back from
KCL into akua through plugin functions on the same thread, and only the dev loop
and the epoch ticker of the render worker use threads of their own. Publishers and
consumers meet in a registry, which serves one request at a time and moves tags
between any two.

What is hard about it: several processes over unlocked files; a crash between
any two writes (`fs::write` truncates first); registries whose tags move between
two reads; three different digests for one dependency (archive, tree, commit)
that flow between the resolver, the vendoring and the lockfile; caches that are
consulted before the source; a publish made of up to nine requests, each of which
may be lost or refused; an author who edits while the watcher, the debouncer and
the render are each at another version of the files; and long sequences of
commands, each legal, whose combination nobody tested. `PROJECT.json` lists each hazard at its line.

## Modules

| module | stands for |
|---|---|
| `LockFile` | data of both files; `to_locked_fields`, `find_slot`, `upsert_locked_from_source`, `merge_into_lock`, the `retain` of remove, the `expected_digests` map. No state |
| `Workspace` | the state machine: files, caches, upstream, and the processes that run verbs |
| `WorkspaceProperties` | the properties |
| `MCWorkspace` | initial upstreams for TLC |
| `WorkspaceProofs` | type correctness, unique entries and bound metadata, proved |
| `WorkspacePinProofs` | served pins, pinned renders and founded drift, proved for any processes |
| `WorkspaceSoloProofs` | what a verb that runs alone leaves, proved |
| `FetchCache` | the directories in which the OCI, git and Helm fetchers keep packages, file by file |
| `PackageStore` | what such a cache promises: a package is there whole or not at all, and stays |
| `MCFetchCache` | instances of `FetchCache` for TLC |
| `FetchCacheProofs` | type correctness, whole slots and the refinement, proved |
| `RenderStack` | one render: the frames of packages composed through `pkg.render`, the time and depth budget, the resolver's posture, and the epochs that interrupt wasm code |
| `MCRenderStack` | packages, dependencies and command lines for TLC |
| `RenderStackProofs` | type correctness, posture, bounded composition, late starts, the strict root and the clock, proved |
| `Registry` | publishers, readers and one repository of a registry: pack, sign, push and publish request by request, pull, pinned and keyed fetch, the attestation walk of verify |
| `RegistryProperties` | the properties |
| `MCRegistry` | publishers, keys and contents for TLC |
| `RegistryProofs` | type correctness, resolved tags, late sidecars, own signatures, pins, authorization, and what publishers leave and readers take, proved |
| `DevLoop` | `akuapkg dev`: the author, the watcher and debouncer, the channel, one render file by file, the stop flag |
| `DevLoopProperties` | the properties, safety and liveness |
| `MCDevLoop` | files and directories for TLC |
| `DevLoopProofs` | type correctness, no lost edit, earned silence, prompt stop, proved |
| `Golden` | `akuapkg test` with golden snapshots: cases, their directories, update and comparison file by file |
| `GoldenProperties` | the properties |
| `MCGolden` | packages, inputs and versions for TLC |
| `GoldenProofs` | type correctness, kept baselines, exact passes and true updates, proved |

### Workspace

A process (`job[p]`) holds the verb, its phase and its own copy of manifest and
lockfile. One step is one file operation or the resolution of one dependency:

    add, remove   mtrunc - mwrite - readlock - (resolve) - ltrunc - lwrite
    lock, update  readlock - resolve - ltrunc - lwrite
    check         readlock - resolve                      (lock --check)
    render        readlock - resolve
    vendor        vfetch - vremove - vcopy - vcopying - vlock - ltrunc - lwrite

Between two steps a tag can move (`Publish`), another process can act, the
registry can be out of reach (`Unreachable`), the process can die (`Crash`). Hand
edits of the workspace and `cache clear` happen between commands.

Data are abstracted to what the properties tell apart. A package is a content;
a digest is a pair of the thing hashed (archive, tree, commit, or tree under the
git prefix) and its content, so that two forms of one content never compare
equal, as in the code. A dependency's name is its alphabetical rank, since the
resolver walks a sorted map, and its version a rank, since the lockfile is
sorted by it. `sig` stands for all fields an upsert carries only under an
unchanged digest. The phase `mtrunc`..`mwrite` is `fs::write`, which truncates.

Left out, deliberately: cosign verification inside the OCI fetch, version ranges
(a version is an exact one), `vendor list`, the copy of dependencies into a
published archive, attestation walks of `verify`, tags that disappear upstream; of the
caches, a `cache clear` that races a fetch (it is one step between commands here;
`FetchCache` has the race).
`verify` is a predicate on the workspace (`VerifyPasses`), since it writes nothing.

### FetchCache

`Workspace` treats a cache as a set that a fetch adds to in one step. `FetchCache`
looks inside: several processes, without any lock, fill directories named after a
digest or a commit, and a later fetch decides by looking at the directory whether
it may be used. The three fetchers do it in three ways:

    OCI (extract_blob)           download - land - stage ... - rename - root
                                                              \ place ... - root
    git (checkout_commit_into)   download - land - place ... - seal
    Helm (unpack_chart)          download - land - place ...

An OCI archive is unpacked into a temporary directory, renamed into its slot, and
copied file by file where the rename fails (`StuckSlots`: the temporary directory
and the cache are on different file systems). A git checkout is written in place
and sealed by a sentinel file. A Helm archive is unpacked in place, and taken for
complete as soon as `Chart.yaml` is there. A file is opened (created or truncated)
in one step and filled in another, so that others can see it half written; tar
replaces a file that is open elsewhere (`MayFill`). A process can fail or die
between any two steps. `spoiled` is a history variable: the slots in which a
writer stopped half way, or of which a clear took files and did not finish.

`cache clear` (`reap`) is one `remove_dir_all` per cache. It removes the slots of
`Cleared` file by file, in any order, the sentinel and the directory too, and the
temporary directories that OCI pulls keep beside their slots; it can stop anywhere.
An unpack then goes on into what is left of its directory, a rename brings what is
left of the temporary one, and if that is gone the copy creates an empty slot and
fails. Slots that are copied to are not in `Cleared`.

`PackageStore` is the abstract cache: packages are put into it whole, and handed
out. Its refinement mapping takes the slots with all files for the store and the
slot of a process whose fetch returned for what it holds. It is over the OCI slots
that a rename fills and nobody clears (`RenamedSlots`).

### RenderStack

A render runs through these phases (`phase`):

    idle - resolve - host - launch - eval ... - idle
                                     eval - load - eval          pkg.render
                                     eval - (init) - engine - eval   helm, kustomize
                                     any error or interrupt - unwind ... - idle

`stack` is the thread-local `RENDER_STACK`. A frame's `inherited` record is its
`BudgetSnapshot` and `ResolverContext` together (deadline, depth cap, offline,
replace gate); `strict` belongs to the frame alone. The steps that push, copy and
drop frames are those of the code: `enter_for_render_with_budget` for the root
after its dependencies are resolved, the checks of `pre_check` before a child is
loaded, `enter_for_render` after its dependencies are, and `RenderScope::drop`,
one frame at a time, on the error paths too. Between any two steps time may pass.

Only wasm code can be interrupted, and only at an epoch: the root package
(in the worker) while no plugin call is under way, and an engine. A composed
package is evaluated natively inside the plugin call and only looks at the
deadline when it starts. `Ticks` is `epoch_ticks_for_remaining`. The number of epochs
is computed when the worker is called (`Measure`) and given to the store once the
request is encoded and the directories are opened (`Launch`, `set_epoch_deadline`);
`left` and `engineLeft` are what worker and engine still have of theirs. `age` is how
long the epoch under way has lasted, anything up to its length when a command starts.
Its ticker sleeps for `TickLength` and ends the epoch when it gets to it (`Tick`), which
may be later. `lost` (history) is the time that so counts for no epoch: between
`Measure` and `Launch`, and at the end of late epochs. An engine session is made at the
first call and kept; `EngineReady` and `CallEngine` give it new epochs, as `init_with`
and `call` do. What is reported for an interrupted engine depends on how the engine
words it, so the model allows both causes.

A process renders many times (`Begin`): the Node binding calls the verb in one
process with new options each time, so a frame left behind would be found by
the next render. `late`, `reached` and `raw` are history variables, reset by
`Begin`.

Left out: what KCL computes, the guard on paths other than strict mode, memory
limits, the marshalling of requests, and the writing of manifests (in `DevLoop`).

### Registry

Publishers take one package from a workspace to a repository, readers take it
from there. A step is one request, or one local act between two requests:

    publish   pack - layer - config - manifest - key - payload - sigconfig - sig
                   - attest - envelope - attconfig - att
    push             layer - config - manifest - payload - sigconfig - sig
    fetch     manifest - (signature) - blob - accepted | refused
    pull      manifest - blob - accepted | refused

Contents stand for their digests. A `Tarball` holds the sources, the lockfile,
the dependencies that were vendored into it and the file times (tar records
them); a `Manifest` names an archive and the version of akuapkg, which its config
blob holds. So two publishers with different binaries, or one that checked out
anew, have two digests for the same sources, as in the code. `sigs` and `atts`
are the manifests at the tags `sha256-<digest>.sig` and `.att`, of which a later
push replaces the earlier. `disk` is the archive that `pack` writes, with the
sidecar that `sign` writes next to it, both carried to the host that pushes.

A request needs a live token. Without one the registry answers 401: the client
trades its credentials for a token and sends the request again, once
(`FetchToken`, `AuthRequired`); each `push_*` call starts without a token. The
challenge of a 401 may be one the client cannot read: it is no bearer challenge, or it
has a comma inside a quoted value, as in `scope="repository:x:pull,push"`, which
`BearerChallenge::from_resp` splits. Such a request fails at once. `Readable` is
the requests whose challenge can be read; the instance leaves one out. A token
may expire at any time. `account` says whether the token endpoint trades the
credentials: once revoked, it refuses or answers without a token, and both end the verb.
A registry that takes the credentials without a challenge (a raw token, or anonymous
access) is one whose first answer is a token. A request may be lost on its
way, or take effect with its answer lost; either ends the verb, as does a signing
key that cannot be read, which the verb finds out only after the tag has moved.

Left out: the two requests (POST, PUT) of one blob upload are one, as are those
for the manifest and the payload of a signature; size caps, media types, the
wording of a challenge beyond whether it can be read, and the credentials file;
cross-repository copies.

### DevLoop

    load - inputs - eval ... - collect - watch ... - check - recv - (load ... | check)

The loop's thread renders, then watches each directory, then waits for batches
of changed paths and renders again. The author edits any file at any step, so a
render can read a mixture of old and new ones: `got` is what the render under way
has read of each, `shown` what the last verdict is about. An edit in a watched
directory goes to `noticed` (the debouncer's thread), from there as a batch into
`channel`, and from there, through `filter_relevant`, to a render. The render's
own manifests are files too. A file may be broken or never evaluate; the latter
is interrupted only outside composed packages. `stop` is set by Ctrl-C or by a
write to a pipe that nobody reads.

Left out: the arm of the receive for a channel without a sender (`dev.rs:177`). The
sender belongs to the debouncer, which the loop itself keeps until it returns, so the
arm is taken only if the debouncer's own thread panics.

`blind` (history) holds the files edited where no watch was at the time and not
read since; `late` the renders begun after `stop`.

### Golden

A case is a package with one of its inputs files. `--update-snapshots` renders it,
then removes the case's directory under `snapshots/` and copies the render there;
`--golden` renders and compares with `dir_diff`. Removal (`Wipe`), creation
(`Create`) and content (`Write`) are separate steps for every file, since
`remove_dir_all` and `fs::copy` are not atomic; `Torn` is a file that was created
and not yet written. Two commands may run at once and be killed at any step, and
the author edits in between. `fresh` and `alone` are what a run knows of itself
for the properties: that no edit, and no other update, happened since it began.
Left out: the assertion tests but for their verdict, symbolic links in a snapshot.

### Instances

`Verbs`, `AddKinds` and `Events` choose what may happen in a run, so that each run
explores one question in full:

| run | question | instance | states |
|---|---|---|---|
| `pins` | do pins hold, and move only on purpose? | 2 OCI names, 1 version, moving tags, outage, signing, cache clear | 1.3 M |
| `kinds` | do lock, verify, vendor and drift agree on what a pin is, whatever the source? | 1 name, 1 version; path, OCI, git, Helm; vendored trees, forks, hand edits, moving upstream, outage, crashes | 1.5 M |
| `races` | two processes over one workspace | 1 OCI name, 2 versions, 2 processes that add, lock and vendor; signing | 2.0 M |
| `caches` | is a usable slot a whole package? | 3 processes, 2 files, clears; one slot: OCI, OCI that is cleared, OCI behind a failing rename, git or Helm | 0.3 M |
| `render` | is a render bounded in depth and time, and its posture everywhere? | 3 packages, 2 graphs, 12 command lines, 2-unit epochs, 1 unit lost, 3 calls; fairness | 0.9 M |
| `registry` | do publishers keep out of each other's way, and do readers get what was published? | 2 publishers (one with a key), 1 reader, 1 tag, 2 lockfiles, 1 unreadable challenge, 1 fault, 1 edit | 0.2 M |
| `devloop` | does every edit get its verdict, does the loop rest, does it stop? | 4 files in 4 directories, 2 edits, 1 watcher error; fairness | 0.2 M |
| `golden` | do update and comparison agree? | 2 commands, 2 packages, 3 versions, 1 edit, 3 starts | 1.5 M |
| `helm_retry`, `attest_found`, `dev_relative`, `dropped_replace` | see "Does not hold" | | |

Two contents are enough to tell a moved tag from an unmoved one, two names to
tell a dependency from its neighbour, two versions to tell a pin from another
version's; properties compare at most two of each. A third (`Partial`) is what an
interrupted copy leaves. `kinds` has every kind of source, since what one kind pins
is what another is held to, and `races` has the second version, which is what makes an
expectation the wrong one. In both, the constraint `Combined` lets a behaviour combine any
two of: content published anew, a fork, a vendored tree, a second entry, a second
kind, a signature, a file left torn. Each property is about at most two of these, and
the theorems have no such bound. In `caches` two files are enough for a directory with
and one without the marker to be incomplete, and three processes for one to find
what a second left while a third writes; slots share nothing, so the constraint
`OneSlot` lets each behaviour use one. In `render` a package that composes itself
through a link, a pair that compose each other and a shared third are every way
a chain can repeat; depth caps 0 and 3 are below and at the length of such a
chain; three plugin calls (`MaxCalls`) reach the cap and leave one to be refused.
Time is bounded by `MaxStart` before evaluation (so a deadline of 0 is long past
and one of 5 ahead), `MaxEngineStart` for engine calls and `MaxTime`, which lies
past every deadline and the end of every epoch. `MaxLost` lets one unit, half an epoch,
be lost to the launch or to a late epoch. One flag stands for offline and
the replace gate, since one graph has remote dependencies and the other forks.

In `registry` the two publishers differ in every way that shows in a digest or a
signature: lockfile, binary and key (the second has none, so what it publishes is
unsigned); the lockfile of one does not resolve. The constraint `Combined` lets a
behaviour combine any two of: the publishers, the reader, the archive on disk, a
fault, an edit. One tag is enough for two publishers to move it under each other.
In `devloop` the files are one for each way a change is treated: the package, its
inputs, a chart file, and one in a directory that does not exist at the start; two
edits let one come during the render that another set off. In `golden` one
version has a manifest more than another, and a third does not render; one
package has an inputs file, the other none. Three starts allow for an update that
is killed, another update, and a comparison. `golden` is bounded by its number of
commands (`MaxRuns`) and `kinds` may end where a process that died while it
wrote `akua.toml` leaves one that no verb can load: these two do not check for
deadlock. Every other passing run does.

### What the runs show

Holds: the lockfile never has two entries for one version, even with two racing
writers (`OneEntryPerVersion`); signatures and vendor digests stay with their
bytes (`MetadataBound`); a pin was served by its own upstream (`PinWasServed`); a
render uses the pinned content online and offline (`RenderedIsPinned`); a drift
error is about content that is served and about an entry of that dependency which
pins either a tree, left there by a fork or by `vendor add`, or another archive its
upstream served (`DriftIsFounded`), so that no cache, outage, lost lockfile, race or
switch of kinds raises one; add and lock never
move a pin of a version (`PinsMoveOnlyByUpdate`) and `update --dep` moves no other
(`UpdateLeavesOthers`); `lock --check` and `render --offline` succeed right after
`lock` (`CheckAfterLockClean`, `OfflineAfterLock`); manifest and lockfile name the
same dependencies (`LockMatchesManifest`); `vendor check` accepts what `vendor
add` wrote (`VendorAddIsClean`); `verify`, offline and without pins, passes what
`lock` wrote online (`VerifyAfterLock`). Of the caches: what a fetch would use is
complete, unless a writer is in it or stopped in it (`UsableIsWhole`; a checkout
nobody sealed is not used, so a crash in it does no harm); and slots filled by
rename implement `PackageStore` whatever dies or races (`StoreSpec`). Of a render:
no frame outlives it (`TypeOK` ties the stack to the phase); no package of the
composition leaves the posture of the command line (`NothingForbidden`); a chain
is never longer than the depth cap, and repeats a package only through a linked
`package.k` (`BoundedComposition`); at most one nested evaluation begins after the
deadline, the one that was being loaded when it passed (`AtMostOneLateStart`); the
worker's code stops by the deadline or within one epoch, late by no more than what
went by before it had its epochs and at the end of late ones (`GuestStopsInTime`); a
timeout is reported only within the last two epochs before the deadline or for
code that used up all its epochs (`TimeoutIsDue`); and a render ends even if the
root package or an engine never would, and hangs only in a composed package that
does (`RenderEnds`).

Of publishing: whatever is lost, no tag or sidecar names a blob that is not there
(`TagsResolve`) and no sidecar comes before its manifest (`SidecarsFollow`); when two
publishers move one tag, each signs and attests its own archive, and a sidecar made
for another archive is refused (`SignedByItsPublisher`); what a reader takes is an
archive published under that tag, whole and, with a key, signed, though the tag
moves between its requests and a proxy may serve other bytes (`ReadIsPublished`);
a pinned fetch gets its pin or fails (`PinnedOrRefused`); a publish that reports
success has left the manifest, a signature that verifies and an attestation
(`DoneIsComplete`, where every signer holds the trusted key); it fails for want of
authorization only with a refused account, with a challenge for that very request
that cannot be read, or if a token expires between its issue and the retry
(`AuthFailureIsEarned`). Of the dev loop: an edit in a watched
directory is always in the debouncer, the channel, the render under way or the
last verdict (`NothingLost`), and gets its verdict (`EditsAreShown`); what a verdict
did not look at is hidden behind an error (`SilenceIsEarned`); the loop comes to
rest when the author does (`Idles`); after Ctrl-C at most one render begins
(`StopsWithinOneRender`) and the verb ends (`StopEnds`). Of golden snapshots: after an
update that reports success, or two at once that both do, the snapshots are the
renders (`UpdatedIsBaseline`); a case passes only if they are equal, also over what a
killed update left (`PassIsExact`); and a snapshot is touched only when the render
that replaces it is there (`BaselineUntilReady`).

Does not hold, with the line that promises it in PROJECT.json `findings`:

- `helm_retry`: an unpack that fails after `Chart.yaml` leaves a directory that the
  next fetch takes for the chart.
- `attest_found`: `publish` stores an attestation under the manifest's digest, `verify`
  looks for it under the archive's, which is what `akua.lock` has; so it reports every
  attested package as `AttestationMissing`.
- `dev_relative`: `dev` with its default `--workspace .` compares absolute event paths
  with a relative one and never renders again (`Rooted = FALSE`). `devloop` checks the
  loop for an absolute workspace.
- `dropped_replace`: `lock` records the tree hash of a fork as the digest of the OCI
  artifact it replaces. Without the replace, `add` and `lock` hand it to the fetcher as
  the archive's digest and fail with a mismatch, though nothing moved upstream;
  `chart_resolver.rs:113` says that removing the replace just works.

Seen while modelling and not checked by a run, because the code does it on purpose,
or no text promises otherwise, or a passing run is stated around it:

- *Pins.* `add --force` to another version hands the old version's pin to the fetcher,
  and locks the old bytes under the new version when they are cached (`add.rs:209`
  looks a name up without its version; `PinsMoveOnlyByUpdate` is about one version), and
  report drift when they are not, though nothing moved; `DriftIsFounded` counts a pin of
  another version among the grounds. `vendor add` pins a tree hash under an `oci://` source, so a
  second one reports drift, and so does `lock` once the vendored tree is gone
  (`vendor.rs:382`; `docs/lockfile-format.md:216`): a tree's pin is the other ground. Helm and
  git pins are never compared by `lock` (`lock.rs:135`); `update` of a git dependency
  resolves its tag in the cached clone (`git_fetcher.rs:156`). Resolving a vendored git
  dependency overwrites its commit pin by a tree hash (`chart_resolver.rs:571`).
- *Lockfile and manifest.* Neither file is saved atomically (`lock_file.rs:294`). A process
  that dies after the truncation, or a reader at that moment, makes `lock`, `update` and
  `render` take the lockfile for none: its pins are lost, and the next `lock` accepts
  what is served then. The models have these steps, and `PinsMoveOnlyByUpdate` is about
  lockfiles that can be read; no property says that a torn file is repaired, since no
  code repairs it. `lock` and `lock --check` keep entries that `akua.toml` no
  longer declares (`chart_resolver.rs:1055`; `lock.rs:8` says that `--check` catches an
  `akua.toml` edited since), and `verify` reports them; `VerifyAfterLock` leaves them out. One dependency
  that does not resolve softly fails `add` and leaves all others unlocked
  (`add.rs:232`); a failed `add` does not restore `akua.toml`. A dependency that needs
  the network stops `verify`'s comparison of the path dependencies
  (`verify.rs:228`), which then passes.
- *Vendoring.* A vendored tree is rendered as found, whatever is pinned
  (`chart_resolver.rs:535`); `vendor add` refuses Helm dependencies.
- *Caches.* A pinned package in the cache is taken without a look at its signature, so a
  key configured later is not applied to it (`oci_fetcher.rs:410`). Nothing keeps a
  `cache clear` and a fetch apart (`cache_inventory.rs:177`). One that removes staged
  files of a pull before its rename leaves an incomplete package, which later fetches
  take for the whole; one that removes the temporary directory makes the rename fail and
  the copy leave an empty slot, which every later pull takes for done and then finds no
  package in, until the cache is cleared again. `UsableIsWhole` exempts such slots.
- *Rendering.* A package composed through `pkg.render` is evaluated with strict mode
  off (`package_k.rs:152`; `docs/roadmap.md:166`), so `StrictRootIsTyped` is about the
  root. `--timeout` starts after the root's dependencies are resolved and does not bound
  the network (`render.rs:379`); one longer than an hour is cut to an hour for the
  worker; an engine session that was interrupted serves the next call
  (`engine-host-wasm/src/lib.rs:449`).
- *Publishing.* A challenge with a comma inside quotes is not understood
  (`oci_transport.rs:167`), so the push fails with a good account; a comment there says
  that registries quote values, not that these may hold commas. The tag moves before the signing key is read (`publish.rs:185`), so a
  publish that fails there leaves an unsigned package. `publish` reads `akua.lock` again
  for the provenance (`publish.rs:335`), whose materials may then differ from the
  archive's. An archive records file times (`package_tar.rs:10` calls it
  byte-deterministic), so two checkouts have two digests. A second signature of one
  manifest replaces the first, also by another key. One dependency that does not resolve
  leaves all of them out of the archive, with a warning. `pull` unpacks over what an
  older version left. Two logins load, change and save `auth.toml` without a lock and
  through one temporary name (`oci_auth.rs:355`); an entry that asks for a docker
  credential helper is listed but yields no credentials.
- *Dev loop.* A workspace below a directory with a skipped name (`dist`, `.x`) is
  filtered like one (`dev.rs:217`); manifests of resources that are gone stay in the output
  directory; a chart file with another extension sets off no render; a directory that
  is new gets no watch; with `--out` in a watched directory the loop renders for ever.
- *Golden.* `inputs.yaml` and `inputs.json` of one package share a snapshot directory
  (`test_runner.rs:236`), so an update writes both there and the next comparison fails;
  snapshots of cases that are gone are never reported.

## Fairness

`Workspace`, `FetchCache`, `Registry` and `Golden` assume none: their properties are about
what may happen, and nothing in those verbs waits for another process.

`RenderStack`'s `FairSpec` adds weak fairness of `Advance`, since time passes, of `Tick`,
since the ticker is a thread that only sleeps and counts (`spawn_epoch_ticker`), and of
`HostStep`: what the host does by itself (resolving, launching, loading, setting
up an engine, dropping frames, the epoch's interrupt) is ordinary code that
returns. No evaluation is assumed to end: none of `FinishRoot`, `FinishChild` and
`EngineReturns` is fair. What keeps a render is therefore said in the property:
`RenderEnds` holds unless the run stays in the evaluation of one composed package
for ever, which happens in the host, where no epoch interrupts it.

`DevLoop`'s `FairSpec` adds weak fairness of `Loop`, the thread of the verb, and of `Flush`,
the debouncer's thread, which sends what it has once its quiet period is over. The
author, the watcher's errors, Ctrl-C and the reader of the output are not fair.
Weak fairness of `Loop` is enough, since none of its steps is disabled by another
actor for good; `Hung` is the one state in which it has none, and the liveness
properties name it.

## Proofs

`tlapm WorkspaceProofs.tla` proves, for every number of names, versions,
contents and processes and any choice of verbs and events:

- `TypeCorrect`: `Spec => []TypeOK`. The induction needs `WorkInv`: a process
  resolves only names its manifest declares, and holds a resolved entry by the
  time it writes one; otherwise an entry of no kind could be built.
- `UniqueEntries`: `Spec => []OneEntryPerVersion`. `LockfileStep` first reduces
  every step to the few ways a process's lockfile changes (loaded, merged,
  pruned, upserted by vendor, signed, dropped); each preserves uniqueness, since
  a merge deletes the slots it writes.
- `MetadataFollowsBytes`: `Spec => []MetadataBound`. The induction needs that the
  pin `vendor add` carries is a tree or a commit of the content it copied.

The constants' assumptions are `SizesAssumption` and `ModelAssumption`.

`tlapm WorkspacePinProofs.tla` proves, still for any number of racing processes:

- `PinsWereServed`: `Spec => []PinWasServed`. The inductive invariant `ServedInv` follows
  a content from the registry through caches, clones, vendored trees and forks into
  what a process has resolved: what a cache holds for a name need not be its own, so it
  is the digest a process takes, not the bytes, that must have been served.
- `RendersArePinned`: `Spec => []RenderedIsPinned`. `PinnedInv` says that a render at work
  holds the lockfile it read, and that what it fetched for a name has the digest that
  lockfile expects (`HonoursPin`); nothing is required of the lockfile on disk,
  which others may be writing.
- `DriftHasGrounds`: `Spec => DriftIsFounded`, with no hypothesis on verbs, events,
  versions or processes. `DriftArises` traces the error to the OCI fetcher, called by the
  resolver or by `vendor add` with a digest from a lockfile; `OciFormInv` says that an entry
  of kind OCI pins an archive or a tree and nothing else, through merges, pruning,
  vendoring and switches of kind; and `ServedInv` that an archive it pins was served.

`tlapm WorkspaceSoloProofs.tla` proves what a verb promises when no other process works on
the workspace (`\E p : Procs = {p}`). akua takes no lock on its files, and with two
processes these promises are broken: run `races` has the properties that hold then. The
hypothesis leaves names, versions, kinds, verbs and events free unless said
otherwise.

- `UpdateKeepsOthers`, `OnlyUpdateMovesPins`, `PinsHold`: `UpdateLeavesOthers`,
  `PinsMoveOnlyByUpdate` (where there is one version), and `HighestPinStays`, its form for
  any number of versions. `SoloInv` relates the files to what the process read: a verb past
  its load still holds what is on disk. `FetchedInv` says what was fetched from a
  registry has the digest it was held to.
- `CheckIsClean`, `VerifyAgrees`: `CheckAfterLockClean`, `VerifyAfterLock`. `Reproduces`
  says of a dependency, its entry and the state of caches, trees and upstream that resolving it
  again gives that entry; `SettledInv` carries it for every dependency from the resolution, which
  itself fills caches and clones (`Grows`), through merge and write to the check. `MergeSame`: merging such an
  answer is the identity. `OfflineFinds`: a resolution without network or pin hashes the
  same tree or gives up.
- `LockfileMatches`: `LockMatchesManifest`, if `"crash"` is no event: a crash between
  akua.toml and akua.lock leaves them apart. `NamesOf` says which
  names a lockfile held by a verb may have.
- `OfflineIsReady`: `OfflineAfterLock`, for paths and OCI artifacts with no rejected replace.
  A git dependency is never resolved offline, a Helm chart is fetched again whenever there is a
  network, from an upstream that may be down by then, and a rejected replace fails every verb.
- `VendorAddLeavesClean`: `VendorAddIsClean`. `Vendored` says that a vendor add about to
  write the lockfile holds an entry that describes the tree it has copied, in
  `vendored` or, where that is empty, in `digest`.

`tlapm FetchCacheProofs.tla` proves, for any number of processes, slots and files,
under `CacheAssumption` (the three kinds of slots are disjoint, the marker is one
of the files, slots that are copied to are not cleared):

- `CacheTypeCorrect`: `Spec => []TypeOK`.
- `OciImplementsStore`: `Spec => StoreSpec`, over the slots that a rename can
  fill and nobody clears. The invariant `StoreInv` says that a process about to rename
  has staged every file (`StageInv`, over the files not yet opened, opened and filled),
  that such a slot is empty or whole (`SlotInv`), and that nobody writes into it in
  place (`ProcInv`). `ClearTouches` bounds what a clear can change.
- `UsableSlotsAreWhole`: `Spec => []UsableIsWhole`. Besides `StoreInv` it needs that
  a writer in place has filled every file it is done with, unless another writer
  was there (`PlaceInv`), and that a slot is sound as soon as a process is about to
  make it usable, that is one step before the sentinel (`KeptInv`). A clear spoils
  what it takes files from, or takes what nobody will use (`TakingStep`).

`tlapm RenderStackProofs.tla` proves, for any packages, dependencies, command lines
and clock, under `RenderAssumption` (types and nonzero epochs only):

- `StackTypeCorrect`: `Spec => []TypeOK`.
- `CompositionStaysInside`, `CompositionIsBounded`, `LateStartsAreBounded`: `NothingForbidden`,
  `BoundedComposition` and `AtMostOneLateStart`. `StepKinds` first reduces every step
  to what it does to the frames (nothing, begin, admit, push, pop). The inductive
  invariant `IInv` adds that all frames share the root's posture (`Inherited`,
  without which a grandchild could be laxer than its parent), that a child being
  loaded passed the pre-check against the stack it will be pushed on (`Waiting`),
  and that a late start leaves an expired deadline at the bottom (`Late`).
- `StrictRootStaysTyped`: `StrictRootIsTyped`, if the root's `package.k` is no link to
  another (`FileOf[Root] = Root`). The cycle check compares the called path with the
  resolved ones on the stack, so a root that is a link may be composed again inside
  itself, in a frame that is not strict, as no child's is. The proof uses that the bottom frame is the
  root's (`RootBelow`) and that no directory is on the stack twice (`BoundedComposition`).
- `TimeoutsAreDue`, `GuestsStopInTime`: `TimeoutIsDue` and `GuestStopsInTime`. A deadline
  becomes a number of epochs by floor division and a clamp (`Ticks`), which are counted
  down one tick at a time. The invariant bounds the time since `Measure` from below and
  above by the epochs used up, the age of the one under way and, above, what was `lost`.
  The overrun is bounded by `lost` and not by a constant, since the code
  bounds neither the set-up nor the ticker.

`tlapm RegistryProofs.tla` proves, for any publishers, readers, keys, contents and
bounds, under `RegistryAssumption` (the constants' types; `None` is none of them):

- `RegistryTypeCorrect`: `Spec => []TypeOK`.
- `TagsAlwaysResolve`, `SidecarsAreLate`, `SignaturesAreOwn`: `TagsResolve`,
  `SidecarsFollow` and `SignedByItsPublisher`, from one invariant (`RegInv`) that says
  what a publisher in each phase has already put: its archive's blob before its config,
  both before the manifest, the manifest before any sidecar; and that a job which signs
  has an archive its key's holder packed or was handed. It needs that blobs are never removed, which
  the interface the code uses does not offer.
- `PinsHold`: `PinnedOrRefused`, with `Reads`: a pin is what an earlier fetch took.
- `AuthFailures`: `Spec => AuthFailureIsEarned`, for any set of readable challenges, with
  `Auths`: a job that has tried and holds no live token has seen one expire.
- `DoneLeavesAll`, `ReadsArePublished`: `DoneIsComplete` and `ReadIsPublished`, if whoever
  signs does so with the key the readers trust: a signature by another key replaces the
  first. `SoundInv` says that what was put, signed or attested stays so (`RegistryMoves`),
  that a publisher past its signature has one at the registry (`Dones`), and that a
  reader keeps a manifest it found under the tag (`Serves`), wherever the tag points now.

`tlapm DevLoopProofs.tla` proves, for any files, directories, extensions and bounds, under
`DevAssumption`:

- `DevTypeCorrect`: `Spec => []TypeOK`.
- `NoEditIsLost`: `NothingLost`, if event paths lie below the workspace (`Rooted`). The
  invariant relates the content a render has read to the one on disk: where they differ,
  the edit came after the read, so its event is still noticed or in the channel, unless
  its directory had no watch.
- `SilenceHasAReason` and `DevStops`: `SilenceIsEarned` and `StopsWithinOneRender`.

`tlapm GoldenProofs.tla` proves, for any packages, inputs files, versions and number of
commands, under `GoldenAssumption` (the constants' types):

- `GoldenTypeCorrect`: `Spec => []TypeOK`, with what each runner has of its own
  (`Steady`): in each phase how many results there are for how many cases, and that the
  render in hand is one of the case at hand. `FlattenIsSeq` shows that the flattened list of
  cases is a sequence, for any length: the library's function is recursive, so a least
  length for which it is undefined is refuted.
- `BaselineIsKept`: `BaselineUntilReady`, from `Steady` alone.
- `PassesAreExact`: `PassIsExact`. `Exact` says that a comparison under way that is
  alone has listed the same names and found each file it has dealt with equal; `Alones`
  and `LoneSnaps` say that nobody writes meanwhile.
- `UpdatesAreBaseline`: `UpdatedIsBaseline`, for a lone update and for any number of
  concurrent ones (at least one: `Runners # {}`). The invariant `Kept` takes the commands
  in question as a group: once each of them has removed what there was of a case, each
  file there is right or open in one of them (`Written`), and one of them has put or still
  has to put every file (`Puts`), namely the last to remove. A file that is removed
  under a writer loses its bytes, but then its remover has yet to copy.

The last two assume `SnapshotsApart`: no case's snapshot directory is at or in
another's. `inputs.yaml` beside `inputs.json` breaks it (one directory for both), and so
does a root package with `inputs.yaml` beside a package in a directory named `inputs`: then
`snapshots/inputs` is a snapshot of the one and holds those of the other, an update of the
first removes what is there of the second, and both properties fail.

Only model-checked: liveness (`RenderEnds`, `EditsAreShown`, `Idles`, `StopEnds`), which is
outside the prover's reach, as is ENABLED; and the four runs that expect a
violation, whose counterexamples are TLC's. What a recursive definition computes for
every input cannot be proved by the library's induction, which takes an operator; what is
needed of the one recursion in the models (`FlattenSeq` in `Golden`) is proved as said.
The hypotheses of the theorems about verbs that run alone, about trusted keys and
about snapshots apart are those under which the code keeps its promise; the runs `races`
and the findings show what is left without them.

## Plan

1. Done: lockfile, resolver, verbs, vendoring (`Workspace`), their properties and
   the first three theorems.
2. Done: the caches on disk (`FetchCache`), with clears beside fetches, their
   refinement of `PackageStore` and its proof.
3. Done: `RenderStack`, with the epochs of worker and engines; proved,
   the clock included.
4. Done: `DevLoop`, with its liveness and the theorems about lost edits and stopping.
5. Done: `Registry`, from pack to verify, with lost requests and the 401 challenge.
6. Done: `Golden`, with the directory diff it uses, and the theorems about it.
7. Parallel renders in one process, each with its own stack and sessions over one epoch
   ticker.
8. Done: the theorems about pins and about verbs that run alone.
9. Done: a theorem for every safety property the runs check.
10. Theorems left: which of the promises of `WorkspaceSoloProofs` survive two processes
   that race, under weaker hypotheses than one process, and the refinement of `PackageStore` by the git and Helm caches, where it holds.

## Not modelled

- Export, the inspection verbs, the project scaffold, the source hash: functions from
  files to output that keep no state another part reads, and have no order of steps
  to get wrong. What they compute is text.
- The hosted API, login and `auth.toml`: one HTTP request or one save per verb. The
  unlocked save is the hazard of `akua.lock`, which `Workspace` has.
- The command line contract (arguments, exit codes, wording) and the Node binding and
  SDK, which call the verbs that are modelled.
- What KCL, Helm, Kustomize and the Go runtime compute, cryptography, and formats
  (TOML, tar, YAML, DSSE envelopes): data. They appear as outcomes.
- `verify --tarball` and the strict-signing check: they compare fields of one file.
- Size caps, media types, index parsing, version ranges, cleanup of temporary files.

The implementation's lines include the unit tests that each Rust file carries, and
parsing, messages and command line handling make up most of the rest, which is
why the share that the map covers is small.
