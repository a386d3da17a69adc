# A TLA+ verification project for russignol

russignol is a Tezos remote signer that runs on a Raspberry Pi Zero 2W with an
e-paper touch screen. A baker (octez) sends blocks, preattestations and
attestations over TCP; the device signs each with a BLS key, and must never
sign two different things at one level and round. What keeps it from doing so
is the *high watermark*: per key and operation type, the highest position
signed, kept in memory and in a file on the SD card. A host utility flashes the
cards, sets the baker's machine up, rotates keys and repairs cards.

The project models the device and the host utility as they are written
(`src/`), checks them with TLC on small instances, and proves for every
instance, with TLAPS, the main safety properties of the signer, the user
interface, the panel, the server, the key file's migration, the boot, card
flashing and the host's setup.

## 1. Inventory

| Part (source) | State | Operations | Talks to | What is hard |
|---|---|---|---|---|
| Watermark store (`libs/signer/src/high_watermark.rs`) | per key: 3 files, `entries`, `disk_ceiling`, `disk_entries` | `load`, `check_and_update_parsed`, `write_watermark`, `rollback_update`, `rollback_disk_watermark`, `write_ceiling`, `update_to_level`, `seed_floor` | called under one `RwLock` by handlers, ceiling threads, UI | crash between pwrite and fdatasync; I/O errors; belief about the disk going stale |
| Request handling (`server.rs`, `handle_sign`) | one thread per connection | prechecks, check-and-update, sign and persist in parallel, rollback, reply | store, UI callbacks | check under a read lock, act under a write lock; two results, each may fail |
| Ceiling threads (`server.rs:713`) | a slot and a level | sleep 1 s, `write_ceiling` | store | run after the state they were scheduled from is gone |
| UI event loop (`rpi-signer/src/main.rs`, `app.rs`, `pages/`) | `AppState`, current page, modal flag, event queue, unknown-key list, screensaver | one handler per event and state, a list of effects each | every thread sends it events | stale dialogs, double taps, events that overtake a page change |
| Boot (`init`, `main.rs`, `setup.rs`, `storage.rs`, `watermark_setup.rs`) | partitions, mounts, marker, staged config, privileges | probe, mount, partition, format, keygen, consume config, drop privileges, start | store, App, host utility | power loss between any two steps |
| Key file (`tezos_encrypt.rs`) | v1 and v2 blobs, attempt counter | decrypt, stage v2, verify and promote, revert | PIN thread | crash at any point must leave a blob that decrypts |
| TCP server and protocol (`server.rs`, `protocol.rs`, `signer_server.rs`) | connection count, sockets | accept, frame, decode, dispatch, restart | handlers, LED, CPU, activity | connection limit, timeouts, silent clients |
| LED, CPU boost, signing activity (`led.rs`, `cpu_freq.rs`, `signing_activity.rs`) | reference counts, generation, ring | begin, end, deferred off, record | server threads | nested sessions, a late deferred off |
| Display (`libs/epd-2in13-v4`, render side of `app.rs`) | last frame, dirty mask, pending render | push, defer, sleep, wake | event loop | busy panel, deferred transitions, screensaver |
| Card flashing, restore, migration (`host-utility/src/image.rs`, `restore_keys.rs`, `migrate_keys.rs`) | cards, download cache | verify, write, read back, stage, copy keys | operator, reader, node | which card is in the reader; interruption |
| Card diagnosis (`disk.rs`) | snapshot of a card and of a node | inspect, classify, plan, repair | node, device | staged repairs that the device applies later |
| Key rotation (`rotate_keys.rs`, `keys.rs`) | none of its own: wallet aliases and chain | import, submit, wait, promote, clean up, roll back | wallet, chain, baker, device | resuming from what an interrupted run left |
| Host setup (`main.rs`, `phase2.rs`, `phase3.rs`, `config.rs`, `purge.rs`), the tool's own binary (`install.rs`, `upgrade.rs`) | `config.json`, `/etc` files, wallet, registration | phases, purge, install, upgrade | device, node, services | each step may be the last one of a run |
| Log writer, device information, host queries, xtask, website | | | | |

Correctness, part by part:

* store and handlers: no position is signed twice; nothing that left the device
  is forgotten by a crash; the fast path (no write) is taken only under a
  ceiling that really is on the card; a crash costs at most one level; every
  request is answered; a staged floor never lowers a mark;
* UI: keys are generated once and behind the gates; the signer starts once; no
  page that ignores touches stays for ever; the screensaver timer is never left
  parked;
* panel: no pixel is reversed in motion, a sleeping panel is left alone, the
  last frame arrives;
* boot: nothing serves with more rights than it needs, keys are never formatted
  or generated over, the device comes up;
* key file: at every instant some blob on the card decrypts with the PIN;
* server: never more than the limit of connections, each one released; answers
  belong to their requests; LED and CPU follow the sessions;
* host: each multi-step command can be run again after a failure, and a success
  it reports is one.

## 2. Modules

| Module | Models |
|---|---|
| `Marks` | `WatermarkEntry`, the order on it, the comparisons of `check_and_update_parsed` and `ceiling_covers` |
| `HighWatermark` | the store: state and the state changes its methods make |
| `Signer` | handlers, ceiling threads, UI watermark dialogs, boot and power loss, interleaved over the store |
| `SignerPromise` | the abstract signer: strictly rising positions until a floor is installed under one |
| `App` | the UI thread: setup, PIN entry and lockout, signing, screensaver and unknown-key alert, with the threads that send it events and the state of the card |
| `Panel` | refresh policy and driver of the e-paper panel, and the render side of the event loop |
| `Boot` | from power-on to serving: init script, storage, setup, privileges, with failing commands and power losses |
| `KeyMigration` | the key file's v1 to v2 migration: PIN checks one file operation at a time, the UI thread's reaction, page cache, flash, reboots and power losses |
| `Wire` | the binary protocol: encoders and decoders |
| `Server` | accept loop, connection threads and their requests, LED, CPU frequency, activity record, restart loop |
| `RotateKeys` | `rotate-keys` and its resumed forms |
| `DiskCheck` | `check disk`, its repairs, and the device's consumption of what they stage |
| `FlashCard` | `image flash`, plain, `--restore-keys`, `--migrate-keys` |
| `HostSetup` | `setup`, `config`, `purge` |
| `HostTool` | `install` and `upgrade` of the utility's binary |
| `Host` | the composition of `HostSetup` and `HostTool` |
| `MC*` | instances for TLC: requests, frames, initial cards, symmetry sets |
| `SignerProofs` | order lemmas, type correctness, the inductive invariant, the safety theorems, the refinement, why seeding never lowers a mark and what a crash costs (TLAPS) |
| `DeviceProofs` | `Boot`: confinement, and keys that stay; `KeyMigration`: bounded restarts, and what is safe until two checks overlap; `Panel`: what the driver knows, no pixel reversed, sleep undisturbed (TLAPS) |
| `AppProofs` | lemmas on the event channel, what it may hold, and the four safety properties of `App` (TLAPS) |
| `ServerProofs` | the ring, the slots and the sessions of `Server`; the round trips of `Wire` and the answers (TLAPS) |
| `FlashProofs` | types, trusted images, the kept source and the good card of `FlashCard` (TLAPS) |
| `HostProofs` | what setup, purge and upgrade of `Host` promise (TLAPS) |
| `DiskCheckProofs` | why `check disk` keeps a card's chain and its floors (TLAPS) |
| `RotateKeysProofs` | why the consensus alias follows the chain (TLAPS) |

### How `Signer` corresponds to the code

*Files.* `disk[s]` is the **set** of contents that the file of a slot may have
after a power loss. `write_all_at` adds the new record (and, with `TornWrites`,
a record that does not verify, `NoMark`); a successful `sync_data` makes the
new record the only member; a failed one leaves the set as it was. A boot picks
one member. All statements about crashes are thus statements about every
member. Any fdatasync may fail (`Failing`). One that puts another mark over a
claimed ceiling and fails, in `rollback_disk_watermark` or `update_to_level`,
leaves `disk_ceiling` as it was: `doubt` remembers that until the next write
of the file that succeeds, and `risked` that a position was signed on such a
ceiling.

*Threads.* `lock` is the holder of the store's write lock. A handler goes
`idle → check → fast | pwrite → sync → (undo → undosync) → respond → idle`:
`Precheck` is the two prechecks under the read lock, `CheckAndUpdate` takes the
write lock, `SignCovered` is the fast path, `WriteMark` and `SyncMark` are the
persist arm joined with the BLS arm, `UndoWrite`/`UndoSync` are
`rollback_disk_watermark`, `Respond` schedules the ceiling (`checked_add(1)`)
and returns. `CeilingWrite`/`CeilingSync` are `write_ceiling` in its thread.
Steps are split where another thread, an error or a power loss can come
between: every pwrite and every fdatasync is a step of its own.

*UI.* `queue` is the event channel, `dialog` the modal page. `HandleAlert`
opens a confirmation unless a modal page is up, `Tap` sends the page's event
(each touch sends one, as `confirmation.rs` does), `HandleUpdate` starts
`update_to_level`, which `UpdateWrite`/`UpdateSync` carry file by file;
success queues the return to the menu, failure shows the error dialog.

*Boot.* `StageConfig` is the host utility's write to the boot partition, `Boot`
consumes it before the PIN (a delete that fails is only logged), `Unlock` loads
the files, `SeedFloor` applies the level key by key, `StartSigner` starts the
server. `PowerLoss` is enabled in every state that is not off.

*Refinement.* `Promise` instantiates `SignerPromise` with the positions issued,
whether one was repeated and whether that has an excuse: a floor set under a
signature (`lowered`), or a signature on a ceiling in doubt (`risked`).
`PromiseKept` is its specification.

*Abstractions.* Messages, chain ids and signatures are left out; a request is a
slot and a mark. `MaxLevel` and `MaxRound` stand for `u32::MAX`. The read lock
is a guard (`lock = None`) because it is taken and released within one step.
Requests that a precheck refuses leave no trace but the alert.

### How `App` corresponds to the code

One step takes one event off the channel and does everything its handler and
the handler's effects do (`drain_events`, `handle_event`, `apply_effects`):
only the UI thread reads the channel and owns the page. A touch is interpreted
by the page that is up when it is *handled* (`Buttons`, `Enter`), and the event
the page sends goes behind whatever arrived meanwhile: that order is what makes
this component hard. `Drop` is the event a state has no arm for, or whose guard
on the modal flag or the screensaver fails. Effects that may fail end the
process (`End`), and `init` leaves the device stopped until a power cycle.

`queue` is the channel, `page` what is up, `saved` `current_page_spec`
(progress pages and the failure dialog of an update do not set it), `timer` and
`reset` the screensaver thread and its channel, `storing`, `generating` and
`verifying` count worker threads by what they do next. `parts`, `keys`,
`marker` and `config` are what is on the card and survive `PowerCycle`, which
may come at any time; the host may stage a config then. The card is fresh or
set up at first.

Folded together: the pages Status, Signatures, Watermarks and Blockchain
(`info`), the two watermark alerts, the three migration notices, and the
touches that edit a PIN. `NoPin` is an entry too short to be one. Two things
are taken from time: what a touch causes is handled within the minute its reset
gives (`TimerFire`), and the five minutes of a lockout outlast the event that
ends the process. The expiry of a lockout in `handle_pin_entry` is therefore
never reached. What decryption does to the key file is in `KeyMigration`, when
a page reaches the panel in `Panel`, how the card is made in `Boot`;
`VerifyPin` may return each outcome. The build feature `warn-only-gate` is off,
as in the default build.

Two storage threads can run after a double tap on Begin; the kernel adds a
partition number once (`BLKPG_ADD_PARTITION`), so `StorageCreate` succeeds for
one of them only.

### How `Panel` corresponds to the code

A frame is the set of its black pixels. `HandleEvent` takes an event off the
channel, `ApplyEffect` one effect of it at a time, `Flush` is the end of a turn
of the loop and `Timeout` the poll that retries a deferred render. A push works
as `Display` and `Epd2in13v4` do: `partials` decides between a full and a
partial refresh, `dirty` and `lastMode` whether a push must wait for the busy
line, and a push that may not wait is put off in `pending` (`PendingRender`).
`ram` is the panel's memory, `ink` how the pixels look and `driven` those a
running refresh moves; `RefreshDone` ends a refresh. While the panel sleeps its
busy line may read either way. Registers, wave forms, and the 10 s limit on a
panel that hangs are left out; at start the panel may show anything.

### How `Boot` corresponds to the code

`card` is what the kernel shows, `flash` what is written; a power loss keeps or
loses each file that differs. The places of `pc` are the steps of the `init`
script (`probe`, `keys`, `data`, `supervise`, `start`, `recover`), of the
first boot's storage (`table` to `mount`), of the setup (`verify`, `gate`,
`pinset`, `pubkeys`, `consume`, `delete`, `marker`, `sync`) and of the effects
that end in service (`readonly`, `drop`, `pin`, `unlock`, `serving`). Each
mount and command may fail, and then does what the code does: an error screen,
a log line, or nothing. `HostStages` is the host writing a config, `PowerCycle`
the operator after an error screen. Sizes, alignment and the gadget's
supervision are left out. The result of `init`'s own `mount -o remount,ro` is
not looked at (`init:161`): when it fails, `/keys` stays writable and the boot
goes on. `remountFailed` remembers that for the rest of the boot.

### How `KeyMigration` corresponds to the code

Each member of `Checks` is a thread of `spawn_pin_verify` inside
`migrate_and_decrypt`; `pc` is the file operation it does next, `read` the
attempts it has read, `fd` the name its open file goes by at the moment (a
`File::create` truncates whatever has the name, and a rename by another check
moves the file under it). `stage`, `create`, `write` and `rename`, and then
`count`, `mark` and `publish`, are `stage_v1_to_v2`: the same `atomic_write` for
the blob and for the attempt counter, each with a temporary file the checks
share (`tmp`, `tmpTries`). `verify`, `promote`, `fallback` and `revert` are
`verify_v2_or_revert`. Every operation may fail, and does on a read-only mount.

`cache` is what the kernel shows, `disk` what is on flash. `Checkpoint` writes
everything back, as f2fs does; a restart or a power loss leaves `disk`. A blob
`rot` reads well until then and is damaged on flash, `bad` never decrypts. The
init script keeps `/keys` writable exactly while the v1 file is there
(`Boot`). `phase` is what `App` has in detail: a check's outcome unlocks,
restarts the device, shows a notice to be acknowledged, or counts as a wrong
PIN. `Demote` is the list of effects before privileges are dropped.

A PIN may be entered while another is being checked, or while a notice is up:
`App` shows how two get into the channel. `overlapped` remembers that one was,
for the properties that hold only until then. A counter that is missing, empty
or no number reads 0 (`read_counter`), which is how a truncated one counts;
`emptied` remembers that a check put a counter in place that another had
truncated and not yet written. A card that damages the counter's file is not
modelled; there the guard against restarts does not hold.

### How `Wire` and `Server` correspond to the code

A message is a sequence of cells, one per field; tags are bytes with the values
of the code. Each encoder and decoder of `protocol.rs` is an operator of its
name. `MCServer` states as an assumption, which TLC evaluates, that every
request decodes to itself and that one that lost its last field does not
decode.

`server` is the thread of `start_integrated_signer`, `inst` the `Server` value
of the present turn of its restart loop and `count` the counter of each of
them: a connection thread lives on over a restart and gives its slot back to
the counter it took it from. `conn` has a record per connection: where its
thread is, what its socket holds, the request, the answer, the alert raised.
`Send` and `HangUp` are the client; the thread notices when it reads or writes,
or when its read times out. `LoadKeys` and `list_keys` are the key manager,
`check_magic_byte` and the two parsers are `magic_bytes.rs`; the watermark's
verdict on a well-formed operation is a free choice here (`Signer` has it).
`Led_deferred` is the thread that puts the LED out if no session began since;
`SigningEventRing` keeps its `head` and `len`.

LED and CPU callbacks are one step: their locks are independent. Thread panics
are left out; signatures, proofs and nonces are opaque values that name their
key and payload, so that an answer for another request is told apart.

### How `RotateKeys` corresponds to the code

A key is identified with the device that holds it. `wallet[file][role][slot]`
has the three aliases of a role, in files that octez-client changes together
and `rename_alias_locally` one at a time; `show address` reads the first. `Run`
is the detection of where an earlier run stopped (`detect_rotation_state`) with the
flags of this one, and `pc` the step of the path taken. `job` is a list of
renames under way: a promotion, its undo, or a rollback. `ActivateKey` is the
change of cycle. Wrong devices, failed calls, lost transactions and
interruptions are counted as faults.

`rename_alias_locally` truncates the file and writes it again (`keys.rs:354`):
an interruption or a full disk may cut the write off (`CutOff`), and the file
is then in `broken` and holds no alias. octez-client reads no wallet with such
a file, so every later run ends in its preconditions (from the use of
octez-client, external); what the operator does about it is not modelled. The
detection takes a probe that fails for an alias that is absent
(`rotate_keys.rs:1714`): `Seen` is what it makes of the wallet, and `misled`
remembers that a run went another way for it than the wallet says.
`has_backups` is such a probe too, and so `Cleanup` may leave backups it did not
see, as it does when the operator keeps them. Both tools and the wallet are in one
machine; its own loss of power is not modelled.

### How `DiskCheck` corresponds to the code

`card` has the files `check disk` looks at: public keys, `chain_info.json` with
owner and mode, the staged config, the marks of each key, and the flags for a
panic file, a migration in progress and setup. `ThoroughCheck` reads the card
and a node, classifies (`resolve_node_for_card`, the findings) and leaves the
repairs the operator confirms in `todo`; `Repair` makes them in the order of
`execute_repairs`, one write at a time. `Boot`, `Unlock` and `PowerOff` are
the device as far as it changes the card. One head stands for the heads of all
chains; it never goes down.

### How `FlashCard` corresponds to the code

An image stands for its bytes, its hash and the identity of the partition table
it carries. `slot` and `slot2` are the cards in the readers; the operator
exchanges them where the command waits (`SwapIn`). `Identity` is what the
command compares to tell source from target: the id of the card's manifest,
or where the card cannot be mounted the UUID of its partition table, or where
`blkid` fails nothing. Both readings, before the exchange and after it, may go
wrong in either way (`Misreads`); `misread` remembers that one did. `view` is
the table the kernel uses after the write: the new one, or the card's former
one. `cache` is the download cache. All writes before a sync are done or
dropped together. The re-execution under `sg` happens once at most; clean-up of
the cache, the structural check and the reports are left out. An image is
opened again after it was verified (`image.rs:836-843`, then `2344`); that
nothing exchanges the file in between is taken for granted.

### How `HostSetup`, `HostTool` and `Host` correspond to the code

A command is a record `cmd` with its step, its mode (asking, `--yes`,
`--dry-run`) and what it has read so far. Phase 2 installs each file by
`BackupFile`, `MoveFile`, `SetMode`, and then reloads what changed; phase 3 is
registration, stake, discovery, import and the key operations on the chain.
`Abort` ends a command at any step: node unreachable, balance too low, sudo
refused, interrupted. `Plug`, `Unplug` and `Restart` come between any two
steps. `live` is what the running services have read.

The code compares an alias with the signer by looking for the key's hash and the
signer's host in one text (`phase3.rs:800`); the port is dropped
(`config.rs:68`). `Names` is that test and `Alike` says which endpoints pass it
for another: the same host at an old port, or a longer address (10.0.0.12 for
10.0.0.1). `Former` are endpoints where no signer answers any more. `Path::exists`
is false in a directory that the user may not search: a file there (`hidden`) is
neither copied before it is replaced nor removed by a purge (`phase2.rs:399`,
`purge.rs:28`). An interface gets its name when the device is plugged in after
udevd has read the rule (`named`): the rule is for `add`, and
`ReloadUdevRules` triggers `change` (`phase2.rs:18`, `454`);
`WaitForNetworkInterface` gives up without the name.

`HostTool` has the installed binary and its `.old` neighbour. `Host` runs one
command at a time, from a binary that runs, with common bounds.

## 3. Runs

| Run | Instance | Checks |
|---|---|---|
| `signer` | 1 key, 2 files, 2 handlers, 1 ceiling thread, every write may fail, and so may BLS | types; no double signing unless excused; signed positions stay covered in every state a crash may leave; refinement of `SignerPromise`; seeding never lowers |
| `signer_live` | 1 file, 2 handlers, 2 ceiling threads, 4 levels, torn writes, every write may fail, and so may BLS, fair threads | a ceiling is on the card unless it is known to be in doubt; a crash blocks at most the next level; every request is answered |
| `stale_dialog` | no I/O error, no torn write | **violation** of `NoDoubleSign` |
| `app` | fresh and set-up cards, 2 PINs, 2 unknown keys with a cap of 1, 2 attempts | the signer starts once; the timer is never stuck; setup generates keys behind its gates and never endangers them; no progress page without something that ends it |
| `migration` | 2 checks that may overlap, budget 2, 2 wrong PINs, 2 power losses, corrupt producer and card, both formats at the v1 path | until two checks overlap, the keys survive and the right PIN is refused in two cases only; restarts are bounded until an emptied counter is put in place |
| `rotate` | 2 devices, 2 wallet files, any flags, 2 faults, failed probes and writes that are cut off among them | "complete" means the active key; no key is promoted early and the active alias is lost only in the ways named; a rotation that is gone on with completes |
| `disk` | 1 key with 2 marks, 2 chains, 3 levels, 2 faults, host user 1000 | the card's chain is kept; repairs keep floors; repairs converge to a good card |
| `flash` | 3 cards, 2 images of which one has a bad signature, all commands, 1 fault | the source is not overwritten unless an identity was misread; only trusted images are written; success is a good card; commands end |
| `host` | 2 devices, both back ends, both endpoints and a former one that passes for one of them, a directory only root may search, 3 commands, 1 fault | "complete" means set; "clean" means clean, of what the user can see; what was overwritten is kept; an unhindered setup completes; the binary survives upgrades |
| `server` | 3 clients, limit 2, ring of 2, 3 requests, 1 failing call | slots, LED, CPU and ring agree with what the threads did; answers match their requests, lookups of unheld keys are reported, known keys come in role order; slots come back; the LED goes dark |
| `boot` | 7 initial cards, 3 power losses, 3 failing commands, the remount included | nothing serves unconfined, but for `/keys` after a failed remount; keys on flash are never replaced; the device comes up unless only a flash can help |
| `panel` | 3 pixels, 3 pages, 2 states of the data, 5 inputs, a full refresh every 2 | no pixel reversed in motion; sleep undisturbed; the last frame arrives |

The type invariant of `Signer` is checked and proved; those of `App`, `Panel`,
`KeyMigration`, `Boot` and `FlashCard` are proved. Those of `RotateKeys` and
`DiskCheck` document the state; no run lists them.

*Bounds.*

* `Signer`: levels and rounds range over the least sets in which a request can
  be below, at and above a mark in level, a ceiling can be under, at and over
  it, and `checked_add` can overflow. Two handlers suffice for every pairwise
  interleaving under one lock; a ceiling thread is a third party. One queued
  event is enough for a stale dialog. `MaxQueue` bounds the channel in the
  guards of the senders (the code's channel is unbounded); `Ceilers` bounds
  outstanding ceiling threads: with none free the answer goes out and its
  ceiling is not written, which is what a slow thread looks like. Torn writes are
  left to `signer_live`, whose single file keeps them small; `Failing` has all four
  kinds of write in both runs. `stale_dialog` has rounds 0 and 1.
* `App`: a channel of three during setup (`SetupQueue`) lets an Enter, the
  digits of another PIN and a second Enter be waiting when the first is
  handled, which is what it takes to have the same PIN confirmed twice; two
  (`MaxQueue`) are enough later for a second, empty PIN, for a touch racing an
  alert and for a touch racing the screensaver. Seven touches (`SetupTouches`)
  take a card from Begin through a PIN confirmed twice, six (`MaxTouches`) take
  a device through unlocking and dismissed notices; touches count again after a
  power cycle. Senders wait for room (`Room`); the events handlers and workers
  send are never held back. Two keys with a cap of one reach the overflow.
* `KeyMigration`: a budget of 2 (the code's is 4) and two power losses, with
  the restarts the device makes by itself, let the budget be used up and tried
  once more. Two checks are enough to share both temporary files; a slot is used
  again when its outcome was handled. With 8,987,185 states this is the largest
  run.
* `RotateKeys`: two devices are a rotation, two files a rename in two halves,
  two faults an interrupted run that goes wrong again when resumed. Three
  devices were checked, before failed probes and cut writes were added, with one
  fault, and without liveness with two.
* `DiskCheck`: two chains let the host be on the wrong one; three levels and a
  gap of one make a mark too far behind, near and ahead. An instance with two
  keys was checked during development.
* `FlashCard`: three cards are a source, a target and a wrong one; one command
  per behaviour, started on every mix of blank, used, set-up and Octez cards of
  `MCStarts`.
* `Host`: three commands are a setup that stopped, a purge or an upgrade, and a
  setup again. One former endpoint is enough, since all that counts is whether it
  passes for the configured one.
* `Server`: three clients against a limit of two reach the refusal; a ring of
  two wraps with three signatures; one failing call reaches the restart.
* `Boot`: three cuts and three faults reach a setup interrupted twice and
  completed by a third boot.
* `Panel`: three pixels give frames that overlap and frames that do not, and one
  that changes with the data; five inputs reach a full refresh that falls due
  while a page change is put off, and one that falls due while the panel sleeps
  with a page opened behind the screensaver.

Deadlock is checked for `Signer` and `App`. The other systems may rest: a
device that is unlocked or stopped with its power losses used up, an operator
who runs no further command, a panel nothing happens to.

*Fairness, and why the code justifies it.*

* `Signer` (`FairSpec`): each handler, each ceiling thread and the UI thread is
  strongly fair: the operating system schedules every runnable thread, and a
  thread that waits on the store's lock gets it (Rust's futex `RwLock` wakes
  waiters in turn; no thread holds it across a wait on another). Weak fairness
  would not do, since a waiter's step is disabled each time another thread
  takes the lock. Power losses, requests, taps and errors are not fair.
* `Server`: weak fairness of each thread (its reads time out), of the accept
  loop and its restart, and of the deferred off. Clients are not fair.
* `Boot`: weak fairness of the boot's steps and of the operator who
  power-cycles a device that shows an error; strong fairness of the host that
  stages a config for a device that asks for one. Faults and cuts are bounded.
* `Panel`: weak fairness of the loop and of the end of a refresh.
* `RotateKeys`: weak fairness of a run's steps when nothing goes wrong and of
  the change of cycle; strong fairness of the operator who runs the command
  again with each device. The message of every failure asks for that.
* `DiskCheck`: strong fairness of the thorough check, of booting and of
  unlocking, weak fairness of the repairs, of switching off and of the chain:
  the operator repeats what the report asks for, and blocks go on.
* `FlashCard`: weak fairness of the command, strong fairness of each card being
  put in: the loops wait for the operator.
* `App`, `KeyMigration` and `Host` need none: "never hangs" and "an unhindered
  setup completes" are stated as safety properties.

### What the violation shows

`update_to_level` installs the confirmed level without comparing it with the
marks it replaces, and every tap on the confirmation page sends the event
again. A second tap (or a dialog answered late) arrives after the signer has
moved on and takes the floor back to `(level, 0)`; rounds above 0 of that level
can then be signed again. The analysis in
`docs/security/watermark-crash-analysis.md` claims the probability of a double
sign is zero by construction. `NoDoubleSignUnlessExcused` states what does
hold.

### Observations that are not the subject of a run

Read in the code, or met as counterexamples of stronger properties. Where a
property has a premise or an exception, this is why.

*Signer, App, key file.*

* If `sync_data` fails in `rollback_disk_watermark` (`high_watermark.rs:507`) or
  in `update_to_level`, `disk_ceiling` stays as it was, though the file may hold
  the lower mark. Where the properties had no exception for it TLC found a double
  sign with no operator in it: under a claimed ceiling the BLS call fails, the
  undo of the mark is written and its sync fails; the next signature takes the
  fast path on the ceiling still claimed; the power is lost, the file holds the
  earlier mark, and the position is signed again. `risked` is that signature, and
  `CeilingIsOnDisk` excepts `doubt`.
* The missing-mark precheck looks at the maximum of a key's three marks
  (`server.rs:590`). When only one is unreadable, requests for that operation
  are refused under the write lock and only logged; the recovery dialog is
  never raised.
* A tap and, right behind it, a request for an unknown key: the tap's `ShowMenu`
  is unguarded (`app.rs:943`) and paints over the notice, and the key stays
  recorded.
* Setup can generate keys twice. A wrong confirmation sends `PinMismatch` to the
  channel's end (`app.rs:648`); a matching entry queued before it starts the
  generation, and the `PinMismatch` then brings the PIN page up again
  (`app.rs:592`) while keys are being generated. A PIN created there starts a
  second generation, whose `generate_and_encrypt_keys` (`main.rs:1168`) does not
  look for keys and replaces the first one's. It takes ten touches faster than
  the display; the bound of the `app` run is seven. A `ShowGreeting` queued
  behind the entry is another way there. Both are before the marker is written.
* PIN checks are not serialised. One that finds both files before the restart
  verifies v2 out of the page cache and unlinks v1 (`tezos_encrypt.rs:246`);
  hence "until two checks overlap". Two that stage together share
  `.migration_attempts.tmp`: one truncates it, the other renames it, and a power
  loss before the first writes leaves a counter that reads 0, so that the device
  may restart itself more often than the budget says (`RebootsBounded` has the
  exception).
* A v2 blob at the v1 path is refused (line 185), and `app.rs` counts the
  `format` error as a wrong PIN; so it does an `io` error, when the v1 file
  beside a verified v2 cannot be unlinked. The module's comment
  (`tezos_encrypt.rs:3-5`) says that "a v2 blob still living at the v1 path" is
  converted too; `RightPinAccepted` names the two cases in which the right PIN
  counts as a failure.

*Boot.* Cards only a flash gets going again (`Lost`): the power went between
making the partitions and formatting both (`needs_storage_setup` only looks for
the third); keys were generated and the marker is not durable (a failing write
of it is only logged); the image is damaged. `chain_info.json` is written
without fsync and the config removed before the sync, so a cut may keep the
removal and lose the file; the staged level is only in memory until the unlock.
An interrupted setup resumes because the config still staged makes `init` run
the signer as root. When the unchecked remount at `init:161` fails, the device
serves with `/keys` writable: the signer's own remount is only done by a boot
that started as root (`Confined` has the exception `remountFailed`).

*Panel.* A touch handled just before the screensaver comes on leaves its page
event in the channel (`app.rs:878`), and that page is drawn on a sleeping
panel; with a full refresh due the frame is lost, and `last_frame` being equal,
the redraw after waking is skipped. The comment at `app.rs:450` says a
transition always lands. The driver then also believes in a frame the panel
never took: its mask of dirty pixels is wrong and the next partial refreshes may
turn a pixel round in motion; waking a panel that the page has already woken
aborts a refresh with the same effect. The attempt to prove `NoPixelReversed`
found this; it takes five inputs. The ghost `behind` is true from such a page to
the next full refresh that reaches the panel, and is the exception of both
`PanelCatchesUp` and `NoPixelReversed`.

*Server and protocol.* A restarted server counts from zero while old threads
live on, so the total may pass `max_connections` after a failed accept (the
limit is stated per `Server` value). The read timeout is per `read()`, so a
client that sends a byte now and then keeps its slot. `check_http_and_size_error`
compares two bytes with `"GET "` and never matches. A frame that does not decode
closes the connection unanswered. A payload under 5 bytes is signed without
asking the watermark. `encode_response` writes the tag of `AuthorizedKeys(Some)`
as 1 and the decoder expects 255; the server sends `None` only.

*Rotation.* Stopped between the second and third rename, every later run is
refused by its preconditions (`rotate_keys.rs:757`); between the third and the
fourth, the companion alias is missing when the run says "complete". A companion
transaction that failed is never submitted again. An undone promotion loses the
active alias (line 1530), and a rollback after the activation drops it.
`--dry-run` matters on the fresh path only (line 154). After `--replace` an
interruption leaves an alias that is not compared with the pending key. A
rewrite of a wallet file that is cut off loses every alias in it
(`keys.rs:354`), the active one included. A probe that fails during the
detection is taken for an absent alias: a fresh import can then overwrite the
alias of the active key, a key already pending can be submitted again and become
active between the last gate and "complete", and a rotation seen as half rolled
back waits for a rollback the operator declines, run after run.

*Check disk.* A host without f2fs takes any node for the card's
(`disk.rs:1413`), and so does one that cannot read a root-owned 0400
`chain_info.json`. A card that lost `chain_info.json` is given that of the host's
node, after which marks of the old chain count as floors (`RepairsKeepFloor`
excludes it). Root that declines the change of owner and confirms that of the mode
leaves a `chain_info.json` the device cannot read. A lagging node lowers a staged
level. A torn config is not
reported; levels over 100,000,000 are staged and refused by the device.

*Flashing.* A keyed flash does not read the image back. The staged level is the
head at the node check, which the source's marks may pass. `--url` cannot
succeed. The guard against the source in the reader lets an unreadable identity
pass, and so it does when one reading got the manifest's id and the other, after
a mount that failed, the UUID of the table (`restore_keys.rs:368`, `1131`): the
source itself is then written as the target (`SourceKept` has the exceptions).
Two cards of one image share an identity, so the second is refused as a target
for ever (`NoTarget`). With three keys on an Octez card and one role given, the
companion is the first other key.

*Host setup.* Phase 2 compares contents only: stopped between `mv` and `chmod`,
or before the reload, a later setup does not repair it (`SetupResumes` has the
premise). A first setup with the device connected waits 45 s for an interface
that gets no name and gives up, until the device is plugged in again. An alias
of this device at an old port, or at an address of which the configured one is a
part, counts as imported, and setup reports "complete" with the wallet pointing
where no signer answers (`CompleteIsSet` speaks of the text, as the code does).
In a directory that the user may not search, NetworkManager's
`system-connections`, a file is overwritten without a copy and a purge is clean
with the file still there. A declined or dry purge returns clean (`purge.rs:20`
says otherwise). `--signer-endpoint` is saved though meant for one invocation
(`config.rs:79`); `setup --dry-run` writes `config.json` and backups; an active
key with another pending counts as set; skipping the key phase still ends as
"Setup Complete". `russignol.old upgrade` removes what it installed
(`ToolSurvives` excludes it).

## 4. Proofs

`SignerProofs.TypeCorrect`: `Spec => []TypeOK`, for all constants that satisfy
the assumptions of `Marks`, `HighWatermark` and `Signer`. It needs `RequestInv`
(a handler past the prechecks has a request, so its slot and mark are defined)
and `LockInv` (who holds the lock is at which point).

`SignerProofs` further proves, whichever writes fail:

* `CrashForgetsNothing`: `[]SignedStaysCovered`;
* `CeilingSound`: `[]CeilingIsOnDisk`;
* `NeverTwice`: `[]NoDoubleSignUnlessExcused`;
* `ImplementsPromise`: `PromiseKept`, the refinement of `SignerPromise`.

The inductive invariant is `SignerInv`. Why each part is there: a signature is
safe when the mark it advanced to is on the card (slow path) or the ceiling is
(fast path), so `HandlerInv` ties each point of `handle_sign` to the ceiling
(`fast` only under it, `pwrite` only over it) and keeps the mark before the
advance, which covers all signatures so far, for the undo; `CeilerInv` says a
ceiling thread inside `write_ceiling` writes above both mark and ceiling, so
that either outcome of its fdatasync still covers; `UpdateInv` says memory is
ahead of the files during `update_to_level`, so that `lowered` is already set
if a file is about to go under a signature. A ceiling in doubt bounds nothing
on the card; what is signed on it sets `risked`, and a write that succeeds
settles it. The refinement holds because a
position is signed only above the mark in memory, which bounds everything
signed before.

`SignerProofs.SeedingOnlyRaises`: `Spec => SeedNeverLowers`, from type correctness
alone: no thread runs while a floor is seeded (`LockInv`), and `seed_floor` goes
on only when the level is above the highest mark of the key. That there is a
highest one follows from the bound on levels and the well-foundedness of the
natural numbers.

`SignerProofs.CrashCostsLittle`: `[]CrashCostsOneLevel`, from `WritesSucceed` (no
mark and no floor fails to be written; ceilings may). `NearInv` says that a file
nobody is writing is at most one level ahead of memory, and so is the level a
ceiling thread will write, since it follows a signature. The assumption is
needed: the undo of a mark that failed may fail too (`NoDoubt` says that none
does) and leave its level, up to
`GapThreshold` ahead, in the file. The requests of the runs are one level apart,
so the property holds there with failing writes as well.

`DeviceProofs` has the proofs of three parts of the device. For `KeyMigration`
it proves `MigrationTypeCorrect` and `RebootsStayBounded` (`[]RebootsBounded`)
for any number of overlapping checks (restarts until one puts an emptied counter
in place, `emptied`), and, until two of them overlap, `KeysAlwaysSurvive` and
`RightPinOpens` (`[]RightPinAccepted`, whose premise names the overlap itself).
Overlapping checks do lose each other's updates of the counter and one may clear
it while another has a staged outcome, so the counter covers the restarts only
while the v1 file exists (`CounterCovers`); that suffices, since a check clears
the counter only when v1 is gone, and v1 does not come back (`ClearReport`). The
temporary counter is truncated, or holds a count that covers the restarts
(`TmpCovers`). A staging check's stale count is still no lower than the restarts
as long as its write can succeed (`ReadCovers`: a restart follows the read-only
remount), and a staged outcome that will be acted on leaves room for one more
(`StagedHasRoom`). For the other two the invariant says that a check that
replaces or removes v2 still has v1 (`Backed`), that a blob the flash does not
hold was written since the boot by a check after which the PIN page does not
come back (`RotIsFresh`), so that a check about to unlink v1 has read one the
flash holds.

For `Boot`, `DeviceProofs` proves, for any number of power losses and of
commands that fail, `BootTypeCorrect`, `ServesConfined` (`[]Confined`) and
`KeysStay` (`KeysNeverReplaced`). The invariant `BootInv` says that keys and
partition table are the same in the cache and on flash, so that a power loss
cannot bring back an older state of them (`SyncedFields`); that there are no
keys without a table and no mount or node without one (`TableInv`), so that a
boot that makes the table formats nothing of value, and one that finds it does
not format; that no key is visible where keys are about to be generated
(`NoKeysYet`); that a process that was started without root finds `/keys`
read-only, no marker, or the remount failed (`MountInv`); and that `/keys` is
read-only once root is dropped, with the same exception (`GivenUp`).

`AppProofs` proves `StartsOnce` (`[]SignerStartsOnce`), `NeverStuck`
(`[]TimerNeverStuck`), `SetupSafe` (`[]SetupIsSafe`), `HangsNever`
(`[]NeverHangs`) and `TypeCorrect`, for a channel of any length, any touches,
workers and power cycles. The handlers are simple; what makes them right is what
may be in the channel, so the invariant speaks of it with `In`, `Once` and
`After`: `KeysDecrypted` is there at most once and only with the key manager
that it takes (`SignerInv`); the timer parks only when no touch is on its way
(`TimerInv`); whatever leads to key generation, an event in the channel
included, was let through the config gate, and the card stays as the gate wants
it (`GateInv`, `DiskInv`); each event that brings up a progress page has behind
it a worker or an event that takes it down (`SetupWaits`, `PinWaits`,
`ActiveWaits`).

For `Panel`, `DeviceProofs` proves `NothingReversed` (`NoPixelReversed`), `SleepsOn`
(`SleepsUndisturbed`) and `PanelTypeCorrect`, for any pixels, frames and inputs. The
driver cannot see the panel. `DriverInv` says that, unless `behind`, its last
frame is the panel's memory and its dirty mask covers the pixels in motion;
that holds because pushes reach a panel that is awake and wake-ups one that
sleeps, which depends on the effects still to be applied (`TodoInv`,
`SaverInv`, `SleepInv`).

`ServerProofs` proves `SharedExact` (`[]SharedStateExact`), for any finite set of
clients, any frames, connection limit, ring size and failing calls. `SlotsInv`
counts the threads of each `Server` value, in whatever turn of the restart loop
they end; `SessionInv` says that CPU and LED count the connections between
their two callbacks, so that a deferred off finds the LED in use whenever one is
served; `RingInv` says where in the ring the last events are (`Slot`), and
`PushHolds` that a push moves none of them, by the arithmetic of one wrap
(`SlotsStay`).

`ServerProofs.AnswersAreRight`: `[]AnswersRight`, for any key files, clients and
frames. It rests on the codec: `RequestRoundTrip` says that every request is
decoded to itself, `AnswerRoundTrip` and `ReadsError` the same of every answer
the server gives, built from one lemma per field. A list of keys is laid out by
index, two cells a key (`raw_pkhs`, `read_pkh`), so that its round trip
(`ReadsList`) is arithmetic on places and needs no induction; `KeysInRoleOrder`
says what `list_keys` starts with, and needs that a set of numbers has a least
one (`Least`). `AnswerInv` then follows a request: what decodes is what the client
asked, what is signed is what was decoded, for a key that is held, and an answer
is the one of that request or an error that was reported. The assumptions are
`FramesAssumption` (a client sends the encoding of what it asks, or what does not
decode at all), `KeyFilesAssumption` (keys are numbered in the order of their
hashes) and `MaxDataLenAssumption` (an error text fits in a message).

`FlashProofs` proves `WrittenIsTrusted` (`[]TrustedImage`), `SourceIsKept`
(`[]SourceKept`), `SuccessMeansGood` (`SuccessIsGood`) and `TypeCorrect`, for
any cards, images and exchanges. The invariant follows the command: an image
that is chosen was checked (`ImageInv`), the card to be written is in its reader
(`TargetInv`), what the command remembers of the source is true, unless it was
misread, and the two cards were told apart (`SourceInv`, `BackupInv`), and what
each step of the writing has left on the card (`WrittenInv`).

`HostProofs` proves `SetupSets` (`[]CompleteIsSet`), `PurgeCleans`
(`[]CleanIsClean`), `BackedUp` (`OverwrittenIsKept`), `SetupTakesUp`
(`SetupResumes`) and `ToolIsKept` (`ToolSurvives`), for any devices, faults and
number of commands. `FilesInv` says a file is moved over only with a copy kept,
`KeysInv` that the roles dealt with name the key of the device that answered and
that the chain has it. `SetupResumes` needs most: for a setup that nothing is in
the way of (`cmd.sure`), each file is ours or still in its list and each service
has read its files or is going to (`ReadyInv`, `InstallInv`), the signer answers
and the baker becomes active (`BakerInv`).

`DiskCheckProofs` proves `DiskTypeCorrect`, `ChainKept` (`CardChainKept`, from
`HostReads`) and `FloorKept` (`RepairsKeepFloor`, for a host user other than
root), for any chains, keys, damage and faults. Repairs are chosen from what was
read and made later, one by one, so `RepairInv` says what the ones still to be
made were chosen on: a config is deleted only while every mark of every key
covers it, and `chain_info.json` is rewritten only when it was not readable;
`ChainInv` that card, staged config and node are of one chain; `LevelInv` that a
staged level is not above what a node answers later, since the head never goes
down. Both conditions are needed. `HostReads` (f2fs, and root or the device's
uid): TLC moves a card to another chain without either. Not root: `OwnerInv` says
that `chain_info.json` is the device's or open to it; root may decline the change
of owner and confirm that of the mode, after which the device cannot read the
file and the floor counts for nothing.

`RotateKeysProofs` proves `RotateTypeCorrect`, `CompleteMeansActive`
(`CompleteIsActive`) and `AliasFollows` (`AliasFollowsChain`), for any devices,
number of wallet files, faults and runs. A run remembers nothing of the one
before it, so the invariant ties each place of the command to the wallet's first
file and to the chain: no backup exists before the promotion and nothing is
pending on the chain from the swap on (`StageInv`), so that the active key
cannot change between the last gate and "complete", all of it unless a run was
misled; until `--replace` drops an alias, the pending alias names what is
pending on the chain, or was and became active (`PendingInv`, `FreshInv`); and
`JobInv` says how far a promotion is, rename by rename, so that one that is cut
off between two renames leaves the active key under one of the three aliases. A
file cut off within its write is the exception (`broken`), and ends the story:
no later run gets past its preconditions.

Only model-checked: liveness and fairness (outside TLAPS), in particular
`RepairsConverge` and `RotationCompletes`. Every safety property of the runs is
stated by a theorem, under the assumptions named above.

## 5. Not modelled, and the plan

Left out for good: cryptography (BLS, MAC and AEAD are library calls that
succeed or fail), drawing and fonts, SPI and I2C programming, device
information and host queries (they read and format, and change nothing),
subprocess and RPC wrappers, the supervision of the USB gadget, build tooling
and website. The log writer's rotation is not modelled yet.

What would come next: the log writer and the rotation of its files.
