# rustytune: a TLA+ verification project

rustytune is a tuning and logging server for Speeduino-style engine control
units (ECUs).  A Rust server downloads the ECU's configuration pages over a
serial line, lets browser clients edit them, pushes the edits into the ECU's
RAM, burns them to EEPROM on request, polls and records telemetry, and, as an
appliance, powers itself off when the engine stops.

This directory holds TLA+ modules that model the parts of it whose correctness
depends on order, concurrency and failure, the TLC configurations that check
them on small instances, and TLAPS proofs for every instance.  Pure algorithms
(decoders, expressions, templates, the preprocessor, encodings) are operators that
are compared with a second, simpler statement of what they should compute.

## 1. The system and its parts

| part | state | operations | hard because |
|---|---|---|---|
| tune model (`crates/tune-model/src/lib.rs`) | per page: `data` (wanted), `ecu` (RAM shadow), `burned` (EEPROM shadow); `loaded` | `load_page`, `set_constant`, `dirty_spans`, `mark_sent`, `resync_ecu`, `mark_burned`, `sync_shadows` | the shadows are beliefs about another machine |
| comms thread (`crates/server/src/comms.rs`) | command channel, place in the loop, log writer, shutdown monitor | download, flush, verify, burn, poll, log, calibrate | runs beside the HTTP handlers; takes the tune lock for one statement at a time |
| protocol session (`crates/ecu-proto/src/session.rs`, `pages.rs`) | none between requests, except what is left in the serial input | `request`, `read_page`, `write_chunk`, `page_crc`, `burn` | no sequence numbers; a timeout leaves a late answer in the line |
| decoders (`envelope.rs`, `secondary.rs`) | a byte-level state machine | `push` | resynchronisation after noise, reads cut anywhere |
| command templates (`command.rs`) | none | `parse`, `build` | an escape language of its own |
| ECU (`tools/fake-ecu/fake_ecu.py` and the firmware it stands for) | RAM and EEPROM pages, calibration table | serve one command; power cycle | carries a command out whether or not its answer arrives |
| connection lifecycle (`crates/server/src/api.rs`, `lib.rs`) | comms handle, `Status`, tune, writer token, pending `.msq` | connect, disconnect, auto-connect, offline open and close, msq apply | several mutexes, released and taken again between steps |
| engine-off shutdown (`comms.rs`, `config.rs`) | armed, countdown, requested | `observe` on every frame | time, silence, restarts |
| datalog and retention (`crates/datalog`, `comms.rs`) | open writer, directory of files | start, row, stop, prune, import | commands that time out and still run; a size limit |
| log viewer (`crates/server/src/log_view.rs`) | index in memory, cache file, finished views | load, build, restore, persist, collect | caches against a file that grows, goes and comes back |
| `.msq` files (`crates/tune-model/src/msq.rs`) and typed constants (`lib.rs`) | the uploaded file | parse, diff, apply, save | diff and apply must agree; scales depend on other constants |
| calibration (`calibration.rs` in server and ecu-proto) | none | transfer, verify | a transfer of many commands that can stop half way |
| pairing and tokens (`auth.rs`, `admin.rs`, `config.rs`) | pairing window, approved tokens, two files | open, approve, revoke, check, configure | a copy taken under a lock is written after it |
| INI (`crates/ts-ini`) | none | preprocess, parse and evaluate expressions, menus, dialogs | nesting, precedence, scope |
| menus and forms (`api.rs`: `tune_menus`, `tune_dialog`) | none | resolve entries, panels, conditions | panels that contain one another |
| desktop shell, web client, OLED configurator | user interface state | - | not protocol logic |

Handlers and the comms thread share `Arc<Mutex<..>>`s: the tune, the status,
the comms handle, the writer token.  Handlers send `Cmd`s through an mpsc
channel and wait with a timeout for a reply.  The thread alone talks to the
ECU.  Status and telemetry go out on a broadcast channel.

What makes each part correct:

* **tune, thread, session, ECU together**: the shadows tell the truth about the
  ECU unless an exchange failed; edits are neither lost nor invented; bytes
  nobody edited are never written; an Ok to a burn is honest; firmware with pages
  of another size is never written to.
* **engine-off shutdown**: power is cut only for an engine that ran and then
  was not seen running for the whole delay.
* **lifecycle**: no thread is lost track of, flags agree with the thread, no
  deadlock between locks, no offline edit dropped silently, the connection comes back.
* **datalog**: a power cut costs less than the sync interval, a closed file is
  synced; retention removes oldest first and ends within the limit.
* **log viewer**: an answer shows the recording as it was at some moment between
  request and answer, whatever was cached, and is no longer than asked for.
* **decoders, templates, expressions, preprocessor**: each computes what the bytes,
  characters, tokens or lines mean, said without the state machine.
* **msq**: a saved file restores its tune; an empty comparison can be trusted; an
  edit touches nothing but its own bits.
* **calibration**: what a client is told is written is in the ECU.
* **pairing**: a code lets in one device, a logout holds, a restart finds what was
  acknowledged.
* **forms**: a dialog offers every setting its panels reach, and hides one only
  when a condition can be evaluated and says so.

The hazards, each with its line and the properties that cover it, are listed in
`PROJECT.json`.

## 2. Modules

### TuneSync: the tune against the ECU

Composes the tune model, the comms thread, the session, the serial line and the
ECU, because their correctness is a relation between them.

| state | code |
|---|---|
| `data`, `ecu`, `burned`, `loaded` | `PageState`, `Tune::loaded` |
| `ram`, `eeprom`, `resized` | the ECU: working and burned pages; the pages its firmware sizes otherwise than the INI |
| `toEcu`, `inbox` | requests on the wire, answers in the serial input |
| `pc`, `cur`, `todo`, `chunk`, `spans`, `sent`, `got`, `at`, `attempt`, `burning` | where `run` / `download_tune` / `flush_dirty` / `do_burn` / `read_page` are, and their locals |
| `cmds`, `reply` | the mpsc channel, the last answer to `Cmd::Burn` |
| `blind`, `unsure`, `excused` | ghosts: pages with an unverified failed exchange; pages whose EEPROM the session has not seen; bytes edited in the session, or all of them if it began with requests of an earlier one on their way |

One action is what the thread does between two serial exchanges, that is from
one answer (or its failure) to the next request.  The tune mutex is never held
across an exchange, so edits interleave exactly there.  `flush_dirty` is
`StartFlush` (list of dirty pages), `FlushPage` (spans of one page),
`WriteAcked` / `WriteFails` (one chunk), `Verified` / `VerifyMismatch` /
`VerifyFails`, `ReadOn` / `Resynced`; `do_burn` is `StartFlush` with `burning`,
then `StartBurn`, `BurnAcked`, `BurnFails`.

Failures: a request dropped by the ECU, an answer lost (`MessageLost`), an answer
corrupted (`CrcMismatch`, which flushes the input), a deadline before a late
answer (`Timeout`, which flushes nothing), answers dropped with the rest of a
256-byte read (`Leftovers`), an answer accepted by a request it does not belong
to (`Accepts`), a lost device (`PollDisconnects`), an ECU power cycle.

A signature that does not match is only reported (`comms.rs:307`).  What then
protects the ECU is the checksum of the download: of a page it sizes otherwise it
sums other bytes than were read (`resized`).  Firmware whose pages have the INI's
sizes and other fields answers as any ECU does, since nothing in an answer tells
what its bytes mean: that is the case `resized = {}`, and a known limit.

Abstractions: pages are functions from a few offsets to `Values`, all of one
size; CRC32 is collision free (a checksum is the page it sums); answers are
whole frames (the decoders are Wire's); an answer of another kind has the wrong
length for `p` and `d`; a transport error outside the poll is like a timeout;
connect and disconnect are atomic, the old thread gone before the new one
starts; the engine-off return is EngineShutdown's.
Faults, late answers and power cycles share one budget, `MaxTrouble`.  The ECU is modelled from
`tools/fake-ecu`, which is how the repository itself simulates the firmware.

### EngineShutdown: the engine-off monitor

`armed`, `counting`/`since`, `requested` are the fields of
`EngineShutdownMonitor`; `Frame` is a decoded frame shown to `observe` with what
`run` does when it fires, `Ends`/`Starts` sessions; silent and corrupted polls are
not shown to it and change nothing.  An `Instant` is its age, counted up to `Delay`, because `observe` only
compares it with `Delay`.  `ran`, `still` and `heard` are ghosts: whether a frame
showed the engine running, the age of the last frame that did not show it stopped,
and the age of the last frame.

### Lifecycle: connections, offline sessions and the tuning lock

Requests (connect, disconnect, the admin socket's reconnect and restart,
offline_open, offline_close, edits, lock_release), the auto-connect supervisor and
the comms threads run concurrently.  A request is a row of steps, one per lock
region: `do_connect` is `CheckOffline`, `CheckDirty`, `LockComms`, then, with the
comms mutex held, `AlreadyConnected` or `Reap`/`Reaped`, `OpenPort` or `OpenFails`,
`ReplaceTune`, `ResetWriter`, `NoPageCommands` or `Spawn`; `disconnect` is
`TakeHandle`, `SendShutdown`, `Joined`.  A thread downloads page by page
(`DownloadPage`, `DownloadFails`), sets `loaded` and then the status (`SetLoaded`,
`Announce`), flushes, and leaves in two steps (`Unload`, `Leave`) or at once after
the poweroff request (`EngineOffReturn`).

| state | code |
|---|---|
| `connected`, `offline`, `announced` | `Status::connected`, `offline`, `tune_loaded` |
| `loaded`, `fetched`, `dirty`, `filed` | the tune: flag, pages that came from the ECU, dirty pages; ghost: opened from a file |
| `writer`, `msq`, `usable`, `comms` + `lock` | the fields of `AppState` (`usable`: the definition has page commands), the holder of the comms mutex |
| `op`, `step`, `who`, `mine` | per request: kind, place, client, the handle it took |
| `tpc`, `next`, `stop` | per thread: place, next page, whether Shutdown is queued |

Two ghosts mark the races the code loses.  `overtaken` has the requests whose check is
out of date: another request changed what they checked.  `confused` says that the
status was last written by such a request, or by a thread that another one had
replaced.  `engine_shutdown` says whether the engine-off shutdown is configured; the
constant `Enabled` gives the values a run starts with.

The serial port is opened without exclusive access (`transport.rs` is a plain
`open(2)`), so a connect can succeed while an older thread still has the port.

### HandlerLocks: the order of the mutexes

Each handler is a list of `take`, `drop` and `join` operations in the order of its
code; handlers and one comms thread run them concurrently.  Early returns are
prefixes followed by the drops and add no nesting.

### Datalog: recording, retention, imports

The directory is a set of files with rows, synced rows and a modification time; a
thread has a writer and walks through `finish_log` and `prune_logs` one file
operation at a time (`FinishLog`, `Sync`, `ReadActive`, `ListLogs`, `RemoveNext`,
`Pruned`).  Names are seconds of the clock, made when the log is asked for.
Imports look for a name and write in two steps.  Writes, syncs, removals and the
reading of the directory can fail.  Any number of threads share the directory and
`Status::log`.  Two ghosts mark where they get in each other's way: `clobbered`, the
status was last written while another thread had a log open; `disturbed`, threads in
`prune_logs` beside which a log was started, or a file removed or written over, since
they asked which log is active, or whom the status misled.

### Pairing: tokens, pairing windows, settings

Every request runs on its own thread and is a record `req[r]` of where it is.
`require_auth` is the middleware; `approve` keeps the pairing mutex until the new
token is on disk, `revoke` does not; `persist` is `Snapshot` (a copy under the
approved mutex), `Truncate` and `Write` or `WriteFails`, so two writers interleave.
Settings are written by `appliance_config_put` and the admin socket's `configure`
in the same two steps (`ConfigTruncate`, `ConfigWrite`).  `Stop` may cut any of
them short; `Boot` is what `main` makes of the two files, the refusal of an open
listener without authentication included.  `Load` is `RuntimeConfig::load`: the file is
merged over the profile, and since the text of settings leaves out an option that is
None, one that was cleared (`socket`) has the profile's value after a restart.
`issued`, `paired`, `leaving`, `revoked`, `acked`, `raced` and `clash` are ghosts: what devices and the owner were told, and which
writers got in each other's way.

### LogFile, LogView, LogIndex: the log viewer and its refinement

`LogFile` is a recording as a reader finds it: lines, the last of which may be half
written.  `LogView` is the promise, with no cache in it: a request sees the
recording at the states it passes through (`seen`), and the answer shows one of
them.  `LogIndex` is the code: `Stat`, then `UseMemory`, `Restore` or `Build`, then
`Find` (a finished view) or `Reread` (rows fetched through the index), `Persist` to
the cache file; beside it the recording is created, grows by cut and completed
lines, is deleted and made anew, old cache files are collected and the process
restarts.  The modification time is coarser than the writes.  The run checks
`Abs!AbsSpec`, with `asked` mapped to `query`: LogIndex implements LogView.  The
recording is `msl` in these modules, the uploaded tune file is `file` in Msq.

### TuneValues and Msq: typed constants and tune files

`TuneValues` is the typed half of the tune model as operators on one sequence of
bytes: raw values with sign and width, bit fields, arrays, scale and translate,
scales that are expressions over bit fields, rounding and clamping as `f64` does it
(integers, two millionths to the unit step, stand for the floats).  An expression may
give no scale (`NoScale`) or zero: then a value does not encode, and an edit is an error
that changes nothing.  `Msq` has one
action per handler, which the tune mutex makes atomic: single edits, batches, PC
variables, `msq_save`, `msq_upload` (own files and files of other programs),
`msq_apply` of a selection, `offline_open`, `offline_close`, `do_connect`,
`disconnect`.  `save`, `parse_body`, `diff` and `apply` are operators.  `save` leaves out
what the INI marks `noMsqSave` and what has no value, `parse_body` reads a single number
back as a number, whatever it was written for, and `diff` says nothing of an array that
does not encode.  A failed batch keeps the edits before the failure, as the code does.

### Wire, Calibration, Commands, IniExpr, IniLanguage, Preprocess, Forms

* `Wire`: `envelope.rs` and `secondary.rs` byte by byte, driven by the read loops of
  `session.rs`: a request has a fresh decoder, a read may be cut anywhere, bytes
  behind a frame in the same read are dropped, a bad checksum flushes the line.
  The reference (`Envelope`, `Echo`) is a statement about the bytes alone.
* `Calibration`: `do_calibration` and both handlers; an exchange may be served or
  not, answered or not, on time or late, and a late answer is taken by the next
  request; the client may give up while the thread goes on.  The last chunk may be
  short.  The ghost `swamped` marks a transfer that began with more late answers than
  it makes requests before the one for the checksum.
* `Commands`: `Template::parse` and `build` over characters, against templates
  grown piece by piece as an author means them.
* `IniExpr`: the precedence-climbing parser and the evaluator of `expr.rs`;
  `IniLanguage` grows trees, writes them by C's rules with no needless bracket, and
  has IniExpr read them back.
* `Preprocess`: `#if`, `#elif`, `#else`, `#endif`, `#set`, `#unset`, `#define` one line a
  step, against the block structure of the lines.
* `Forms`: the `[Menu]` and `[UserDefined]` sections line by line, and what
  `tune_menus` and `tune_dialog` serve of them; conditions are IniExpr trees.

These, EngineShutdown, HandlerLocks and Pairing share no state, so `MCParts` runs them
side by side: `job` picks the part that moves, the others stay in one initial state.
`MCFiles` does the same for Msq and LogIndex, whose instances are `MCMsq` and `MCLogIndex`.

`MCTuneSync`, `MCLifecycle`, `MCHandlerLocks`, `MCDatalog`, `MCMsq`, `MCFiles`, `MCParts`
and EngineShutdown itself are the modules the configurations run; the `...Proofs` modules
are those of section 4.  How the modules relate: the exchanges that Lifecycle abstracts to "a page arrives, or not" are
TuneSync's; the connects that are atomic in TuneSync are Lifecycle's rows of steps;
TuneSync's frames are the outcomes of Wire's requests; the edits that TuneSync sends
as bytes are Msq's typed ones; the frame after which EngineShutdown fires is
Datalog's `EngineOff` and Lifecycle's `EngineOffReturn`; the recording LogIndex reads
while it grows is the one Datalog writes.

## 3. Runs

| run | question | bounds | result |
|---|---|---|---|
| `edits` | edits racing writes, burns and reads over two sessions, ECUs of other page sizes included; every edit reaches the ECU (liveness) | 1 page of 3 bytes, blocking factor 2, gap 1, 2 edits, 1 burn, 1 fault, late answer or power cycle; 900 000 states | holds |
| `parts` | the nine parts of `MCParts`: the shutdown monitor, calibration, decoders, templates, expressions, preprocessor, forms, the order of the mutexes for any mix of handlers but msq_diff, pairing and settings | delay 3; table of 4 in chunks of 3 and 1, 3 late answers; 6 bytes on the line; 3 template pieces; 2 operators; 5 source lines; 5 INI lines; 3 handlers and the thread; 3 pairing requests on 3 threads, 2 tokens, 2 codes (one the PIN), 1 tick, 1 restart; 830 000 states | holds |
| `requests` | threads tracked, flags, offline edits with overlapping requests, threads free to end, the engine-off return and unusable definitions | 2 requests at a time, 2 threads, 1 client, 1 page; 1 500 000 states | holds |
| `overlap` | the supervisor brings a thread back, requests end (liveness) | supervisor and one user, 2 threads, 1 page, no engine-off shutdown; 58 000 states | holds |
| `datalog` | loss at a power cut, closed logs synced, retention beside an import | 1 thread, 1 importer, logs by hand and automatic, 2 seconds, 2 rows, sync interval 1, limit 3, 2 import names, one file that cannot be removed; 1 570 000 states | holds |
| `two_logs` | status against writers, retention, poweroff after finish, with overlapping threads | 2 threads, 2 seconds, 1 row, limit 1, no imports; 590 000 states | holds |
| `files` | a saved file restores, an empty diff is right, edits stay in place; LogIndex implements LogView, answers bounded, caches sound | 13 constants over 11 bytes, 4 tunes, 5 steps; recordings of up to 7 lines, 4 changes of the file, 2 requests, 1 restart, 2 views; 830 000 states | holds |
| `verify_heals`, `burn_reconnect` | what comments say of flush and burn | smallest that shows it | violated, see below |
| `locks_msq` | the circle of waits with msq_diff | 2 handlers and the thread | violated, see below |
| `silence` | missing telemetry cancels the countdown | delay 3 | violated, see below |
| `diff_silent` | a comparison drops nothing silently | the definition of `files`, 1 tune, 3 edits, 6 steps | violated, see below |

Why the bounds are enough.  Two values tell changed from unchanged.  The race
between an edit and a write of the same byte needs two edits; a page of three bytes
with a blocking factor of two has a full and a short part, and gap one with three
bytes has edits that are merged over an unedited byte.  A burn that meets an
unburned page of an earlier session needs two sessions.  Faults in numbers are left
to the proofs, which bound nothing.  Two overlapping requests and two threads give
every pair of lock regions in both orders; a third request adds waiting, not new
pairs (the circles of `parts` have three handlers).  Pruning with two seconds and two
imports has a stuck, a removed and a kept file; the races of two recorders need no
more than a row each.  Pairing needs two threads for the race of two persists, two
codes for a window that draws the PIN, and three requests to open, approve and log
out.  The log viewer needs one request to fill the caches and one to use them, and
four changes for a recording that is deleted and made anew with the size it had.  A
restore whose scale depends on a later bit field needs save, upload and two applies,
and a fifth step to disturb it.  Late calibration answers must be able to stand for
every request of a transfer before its checksum (three: the check of the speed and
two chunks); a transfer that is `swamped` needs a fourth and is left to the
proof.  The two operators of an expression are the pair whose precedence decides.

Every property of a passing run has a mutant of the code (a dropped guard, a
skipped resync, a wrong copy) under which TLC finds it violated.

What the failing runs show:

* `verify_heals`: after a verify mismatch the page is read again so that "the
  edit goes out again next pass".  If that read fails as well, the shadow keeps
  the bytes `mark_sent` gave it, the page counts as clean and the edit is never
  sent.
* `burn_reconnect`: `load_page` takes the downloaded RAM for the EEPROM content.
  Edits in RAM that were not burned before a reconnect look burned; a burn answers
  Ok and does nothing.
* `locks_msq`: `msq_diff` nests the .msq in the tune, `msq_apply` and `offline_open`
  the tune in the .msq; two such requests wait for each other, then the comms thread
  and everyone who needs the tune waits for them.
* `silence`: silent and corrupted polls never reach `observe`, so an engine-off
  countdown goes on through an outage and the first frame after it may request poweroff,
  although `docs/raspberry-pi-appliance.md:96` says that missing telemetry cancels it.
* `diff_silent`: `diff` clears what it found of an array and goes on when an element does
  not encode (`msq.rs:264`): an array whose scale is zero or does not evaluate is neither
  different nor unresolved, although `msq.rs:9` says that nothing is dropped silently.  The
  shipped INIs have no array with such a scale.

### Known limits

The properties of the passing runs hold within the bounds above.  With a constant
widened, the same modules show where the code's guarantees end:

* *Firmware with equal page sizes.*  The shipped INIs of 202405-dev and 202501.7 have the
  same `pageSize` list and use page 10, offset 191 for different things (lines 1292 and
  1362).  The signature is not fatal, every checksum agrees, and such an ECU is loaded and
  written under the wrong names.  `WrongSizesNeverWritten` speaks of page sizes only.
* *Overlapping requests.*  A condition is checked in one lock region and used in a later
  one.  A connect inside an offline_open (`api.rs:1445`) gives an offline session over a
  live thread, an edit inside a connect (`api.rs:218`) is dropped with the offline tune; the
  ghosts `overtaken` and `confused` excuse just these in `OfflineMeansNoSerial` and
  `OfflineEditsKept`.  An edit goes through although the tuning lock was reset or released
  after `acquire_writer` (`api.rs:701`); stated for the other edits the property would
  repeat the guard, so there is none.
* *A thread that outlives its session.*  disconnect releases the comms mutex before the
  join (`api.rs:352`), and a thread does not look at its queue during the download: it
  announces a loaded tune after a new connect has put a blank one in its place, and the old
  thread's end clears the status and the loaded flag of the new session.  `confused` covers
  the status.
* *Engine-off return.*  The thread returns after the poweroff request with the status
  still connected (`comms.rs:494`); if the machine stays up, nothing ever connects again.
  `UpAgain` and `ConnectedHasThread` are therefore stated without the shutdown
  (`~engine_shutdown`).
* *Unusable page commands.*  The early return at `api.rs:269` leaves the status connected
  without a thread; the same two properties are stated for `usable` definitions.
* *Late answers* (`burn_reconnect` with one session and `MaxTrouble = 1`).
  A timeout flushes nothing, so a late `RC_OK` is taken for the answer to the burn that
  follows, and `BurnMakesDurable` fails without a reconnect, too.
* *Requests that outlive a session.*  `flush_input` drops what the kernel holds, not what
  the ECU has taken and not answered.  With five deadlines missed in one session (one page
  of one byte, `MaxTrouble = 5`, two sessions) the line keeps a read, a checksum request
  and a write in that order over a reconnect; the next download takes the answers of the
  first two, its pages agree with their checksums, and the write that follows them
  alters a byte nobody edited in the new session.  `UneditedBytesUntouched` therefore
  excuses a session that begins with requests of an earlier one on their way.
* *Power cycles.*  Polling survives an ECU power cycle and the shadows do not learn of
  it; `Quiet` restricts the properties on shadows to behaviours without a power cycle.
* *Two imports at a time*: the search for a free name and the write are two steps
  (`api.rs:596`), so two imports of one name write over each other.  With one at a time a
  property would repeat the `exists` check, so there is none.
* *Two comms threads at a time.*  connect resets the whole status; while the thread before
  is still closing its log, the status names none, `prune_logs` may take that log for an old
  one and remove it while it is written, and a poweroff request does not wait for it.
  `clobbered` and `disturbed` excuse these in `StatusShowsLog` and `RetentionKept`;
  `FinishedBeforePoweroff` leaves out the logs another thread has open.
* *A second StartLog* drops the open writer without `finish`; the ghost `replaced`
  excludes that file from `ClosedLogsSynced` and `FinishedBeforePoweroff`.
* *Two logs in one second* have one name, and creating truncates: `Create` models it,
  and no property claims that the old rows survive.
* *Restoring a file.*  `crates/tune-model/src/lib.rs:272` wants a restore to be byte
  for byte.  One apply does not give it where a scale depends on a bit field that
  comes later in the file (the shipped INI has such at its lines 403, 746 and 5577),
  nor where a combo list bears a label twice (`wmiEnabledPin`, lines 1324-1331).
  `RestoreSettles` says what does hold: the second apply settles it, up to the first
  slot with the same label.  Never written back are strings; arrays of one element, which
  a file gives back as a number (`msq.rs:63`) and apply skips as a shape mismatch
  (`msq.rs:351`): the shipped 202405-dev INI has one, `unused11_190_191` (line 1292); and
  constants that had no scale when they were saved.
* *Comparing a file.*  `EmptyDiffTrusted` leaves out what `diff` lists as not compared, and
  arrays without a scale, of which it says nothing (`diff_silent`).
* *Saved but unsaved.*  `msq_save` leaves the shadows alone (`api.rs:1710`), so an
  offline tune that was saved still refuses a connect as having unsaved edits.
* *Calibration.*  The frame that shows the engine standing (`comms.rs:734`) may be a
  late one.  A transfer that begins with more late answers on the line than it makes
  requests may take an old checksum for its own; `WrittenMeansHeld` excuses it
  (`swamped`), and nothing in the code bounds the late answers.
* *Overlapping persists.*  `persist` writes after it has released the mutex
  (`auth.rs:95`): of two, the older copy may be written last, and a logged-out token is
  back after a restart.  Files are truncated and then written: a stop in between loses
  the sessions, or the settings.  The ghosts `raced` and `clash` mark these behaviours,
  and the properties are stated for the others.
* *Cleared settings.*  An option of the settings that is cleared is acknowledged, left out
  of the file (`api.rs:330`), and back with the profile's value after a restart
  (`config.rs:121`).  `SettingsSurvive` says so of the admin socket.
* *Settings through the admin socket.*  `configure` starts from the settings the
  process was started with, so a change made since through the web page is undone
  (`SettingsSurvive` speaks of the last acknowledged settings as a whole).
* *A dialog defined twice* is emptied where it first stood, while the fields that
  follow go to the dialog defined last.  `Forms` does the same.

### Fairness

`FairSpec` of TuneSync assumes weak fairness of the comms thread (a loop with no
blocking call without a deadline) and of the ECU (it answers what it is sent);
clients and faults have none.  `FairSpec` of Lifecycle assumes
that started requests and threads go on (spawn_blocking and OS threads), that a
download ends (every exchange has a deadline), and strong fairness for taking the
comms mutex: a waiting thread is not passed over forever.  `AutoSpec` adds that the
supervisor looks again (its loop sleeps at most 30 s) and that a port that is tried
again and again opens in the end.

## 4. Proofs

Eight modules hold theorems, checked by TLAPS for every value of the constants that
satisfies the assumptions named in the modules: `TuneSyncProofs`, `LifecycleProofs`,
`HandlerLocksProofs`, `PairingProofs`, `DatalogProofs`, `LogIndexProofs` (LogIndex and
its refinement of LogView), `SerialProofs` (Calibration, Wire and EngineShutdown) and
`FormatProofs` (Preprocess, Commands and Msq).  The assumptions are what the code fixes:
positive sizes, blocking factor, sync interval and delay; `Zero` a value; natural
bounds; `ArmRpm > StopRpm`, which `RuntimeConfig::validate` enforces; numbers that are
integers and presets whose lines rise (Calibration); two different
echo bytes (Wire); some device (Pairing); recordings made of lines (LogIndex);
letters that are not the characters an escape begins with (Commands); tunes of bytes,
all of one length, and a definition with one constant to a name, constants inside their
pages, bit fields inside their words and bytes of its own for each page (TuneValues, Msq); the
`No...` values outside their sets.

Some theorems have a hypothesis of their own.  `KnownScales` only says what an expression
may give; without one of the others the property is false, and the known limits above
say how:

| theorem | hypothesis |
|---|---|
| `NoCircularWaitHolds` | no msq_diff among the handlers (`Kinds \subseteq OrderedKinds`) |
| `EmptyDiffTrustedHolds` | no scale finer than the six decimals of a file (`FineScales`), and none that tells apart the slots of a list that bear one label or depends on a bit field that is not saved (`LabelsTellScale`) |
| `RestoreSettlesHolds` | these two, and constants that share bits agree on them (`WellLaid`): two bit fields over the same bits are fields of one word, a scalar or array over a bit field covers it and has a scale of its own, neither's list bears a label twice |
| `EditsStayInPlaceHolds` | an expression gives a natural number or no scale (`KnownScales`), zero included |

TuneSync: type correctness, `ShadowMatchesRam`, `BurnedMatchesEeprom`,
`UneditedBytesUntouched`, `BurnReplyHonest`, `PendingEditsSurvive`,
`WrongSizesNeverWritten`.  None is
inductive.  The invariant `IInv` adds

* `LoadInv`: a tune is loaded only past the download and never from an ECU that sizes
  every page otherwise; everything that writes runs with a loaded tune;
* `LayoutInv`: such an ECU is sent no write or burn, and none of its checksums is that of
  a page;
* `SizeInv`: while no deadline has passed over an answer, or in a session that began on an
  empty line, the pages a download is done with have the INI's size;
* `AtInv`: a page read begins at the first offset;
* `WireInv`: while no deadline has passed over an answer, the line holds nothing,
  the request the thread waits for, or its answer computed from the RAM of now;
* `ShadowInv`: `ShadowMatchesRam` also for the pages a running download has done,
  and for the part of a page already read again;
* `BurnedInv`: the same for the EEPROM shadow, and an answered burn has been done;
* `BurnListInv`: every page a burn found pending is burned, being burned or to come;
* `FreshInv`, for `UneditedBytesUntouched`, with any number of late answers: a session that
  began on an empty line downloads with nothing on it but its own query and, behind it,
  the request of now or its answer (`DownloadOwn`), so what it loads is the ECU's;
  from then on every write under way carries the wanted value of the bytes no client
  edited (`LoadedOwn`), however late it arrives.

`WireInv` is what makes the others inductive: "the answer in the inbox is the
answer to my request" is the fact the protocol does not carry in its frames, and
it holds exactly as long as no deadline passed over an answer.

EngineShutdown: `PoweroffJustified`, from `MonitorInv`: armed implies the engine
was seen running, and the countdown is never older than the last frame that did
not show it stopped.

Lifecycle: type correctness, `NoOrphanThread`, `ConnectedHasThread`, for any number
of overlapping requests and threads.  `NoOrphanThread` needs `LockInv` (who is past
`LockComms` in a connect holds the mutex, and from the reaping to the spawn the slot
is empty, so `Spawn` overwrites no handle) and `MineInv` (a request has a thread of
its own exactly while it stops and joins it); `ConnectedHasThread` needs `OpInv`
(which steps belong to a connect).

`OfflineMeansNoSerial` and `OfflineEditsKept` hold for any overlap as well, up to the ghosts.
`SerialInv`: unless the status is `confused`, a thread runs, or is about to, only with the
status connected and not offline; and beside a request that has checked the status for the
other mode and was not `overtaken` there is neither.  `FileInv`: a tune from a file belongs
to an offline session but for the moments in which one begins or ends.  `ReplaceInv`: a
connect past its checks and not overtaken finds no edits in such a tune.

HandlerLocks: `NoCircularWait`, for any number of handlers.  Mutexes and the join of the
thread have ranks (comms and the .msq, then the join, then the tune, then the rest);
`Safe(program, held)` says that what an actor has still to do takes upwards of what it
holds and gives everything back.  Every handler's program but msq_diff's is safe;
every step keeps `LockInv`, and whoever waits, waits for one with a higher rank, so in
every set of actors the one furthest up waits for nobody of the set.

Pairing: types, `CodeUsedOnce`, `LogoutHolds`, `PairingsSurvive`, `SettingsSurvive`.
`WindowInv` numbers the windows: one that is open stands behind no approval yet.
`TokenInv` and `MoveInv` follow a token from the approval to the file and out of it;
`CopyInv` is the heart: without a race one request at most persists, and the copy it
carries agrees with what devices were told, whatever was approved and revoked since it
was made.  `SettingsInv` is the same for the settings file.

Datalog: types, `LossBounded` and
`ClosedLogsSynced`, `StatusShowsLog`, `FinishedBeforePoweroff` and `RetentionKept`, for any
number of threads, which may write one file, and of imports.
`LossInv`: the oldest unsynced row of a file is no older than the last sync of every
writer that has it open, so a row that finds the interval over syncs it in time.
`PathInv`: a thread has a writer only in its loop, and one it took only to sync.
`PruneInv` says what a `prune_logs` that was not `disturbed` still accounts for (`Covers`):
no thread writes a log but the one it took for active, its running sum is the size of those files, its list has each of them that can be removed, with its time and
size, and what it does not account for was imported meanwhile and is no older.  The
running sum is a sum over a set of files: `SumRemove` and its neighbours show that it
does not depend on the order and falls by the size of a file that goes.

LogIndex: `CacheSound`, `BoundedAnswer` and `AnswersFaithfully`.  `Fits`: an index is older than the recording,
or shorter, or an index of it, in memory and on disk alike; it is kept because a
change that keeps the modification time makes the file longer, a file made anew has
a new time, and a half-written line is not indexed twice.  The bound needs the length
of `Keep`'s answer: five rows to a bucket at most, and marks.
That LogIndex implements LogView rests on `RInv`, the request's view of it: the
recording of now is among those the request has seen; what it is about to match, or
serves from, is an index of one of these (`Matching`, `Serving`); a view kept in memory
shows what LogView allows of its query (`Good`).  Every step of LogIndex is then a
change, a question, an answer or a dropped request of LogView, or a stutter.  Two facts carry it: rows read again from a longer
recording are those of the one indexed, because appending changes no complete line, and
sampling by buckets of the index is sampling of the rows it names.

Calibration: types and `WrittenMeansHeld`.  `LateInv`: a transfer takes one answer off
the line with each request it goes on from, so a checksum that was late when the
transfer began has been taken before its own is due, unless the transfer was `swamped`.

Wire: `FirstFrameFound`.  `WireInv` relates a waiting decoder to all the bytes it was
given (`EnvTracks`, `EchoTracks`): none of them begins a frame and the last is kept, or
the buffer holds what came after the first beginning.  One byte keeps that
(`HeaderStep`, `PayloadStep`, `EchoStep`, `BlockStep`), so does a chunk (`ChunkReached`).

Preprocess: `SurvivorsAsNested`, for any INI file.  The code keeps a stack, the property
speaks of the blocks of the whole file.  `PrepInv`: the stack has one frame for each open
block, outermost first (`Nest`), whose flags `parent_active`, `active` and `taken` are what
the heads of that block up to here say, and the symbols are those of `Seen` at the next
line.  The recursive functions of the property are shown to have a value, and one that
depends on earlier lines alone, so a line that is read changes nothing of what was said.

Commands: `CommandAsWritten`, for any pieces.  The parser is a recursion from the back of
the text, the author's template a sequence from the front: `ParsedAs` goes backwards
through the pieces, and shows that parsing the rest of the text from where a piece begins
gives that piece's part and goes on where the next one begins.  `Unglued` is why: no
letter that could continue a name stands behind one, so a name ends where its author ended it.

Msq: `EmptyDiffTrusted`, for any definition that keeps the hypotheses and any sequence of
edits, batches, files, selections and connections.  `MsqInv`: every handler leaves a tune a tune, files hold
values, and a file that came from `msq_save` holds what `save` made of the tune noted in
`origin`.  If the diff is empty, every constant that owns its bytes and had a value when it
was saved has an entry, which does not differ unless it is listed as not compared or is an
array without a scale.  Bit fields come first: they are compared by slot, so
the two tunes agree on them up to slots with one label, hence on every scale.  Then the
six decimals of `fmt_num` and the rounding of `encode_impl` give back the raw value, for
every width and sign (`FineScales`).  The two hypotheses hold of the definition in `MCMsq`,
and the shipped INI keeps to them as far as its scales depend on bit fields (`idleRes`,
`fuelLoadRes` and its kind tell apart only slots with labels of their own); a scale made
from a scalar (`0.1 / stoich`) is outside the model.

`RestoreSettles`, for any definition that keeps the hypotheses and any tune the file is
applied to; what it restores is what can be written back (`Restorable`).  `Settling`
adds to `MsqInv` what the file has restored so far: applied once, every bit field holds
what it held in the saved tune up to slots with one label (`BitsSame`); applied twice,
everything does.  A saved file is one run over the owners (`FileRuns`).  An entry
restores its own constant (`ApplyHit`), a bit field always, a scalar or an array as soon
as its scale is that of the saved tune, and an array although its elements are written
one by one (`ArrayHit`); and it undoes no constant that is restored already
(`ApplyKeep`): owners that are not bit fields have bytes of their own (`OwnersApart`),
and what shares bits with a bit field agrees with the saved tune on them, so either
write leaves the other's bits as they were (`FieldKeep`, `RawBytes`, bit by bit by
`CutBits`).  So the first pass ends with `BitsSame`, which the second keeps from its
first entry on (`BitsStay`), and with it every scale is right when it is used.
`WellLaid` holds of the definition in `MCMsq`, which has both kinds of sharing, and of
the shipped INIs: `canWBO` and `unused0_126` share a bit of one byte, and the
`outputPin`, `firstDataIn` and `secondDataIn` fields of eight bits lie in byte arrays
with constant scales; the lists with a repeated label (`wmiEnabledPin` and its kind)
share their bits with nothing.  The INIs keep `LabelsTellScale` too: what they mark
`noMsqSave` are PC variables, no bit fields of a page.

`EditsStayInPlace`, in any tune that `MsqInv` allows.  Framing: a write changes no byte
outside its constant (`WriteFrame`, `EditFrame`) and a raw value depends on no other
(`RawFrame`).  Two bit fields of one word need arithmetic: what `SetBits` writes is the
old word plus a multiple of its field's unit, a field below does not see what is added
above it (`FieldIgnores`), a field above does not see the field below replaced by another
value of its width (`FieldAbove`), and what is read back is what was written up to what
the bytes hold (`ReadBack`), which is above every field.

Only model-checked:

* liveness (`EditsReachEcu`, `RequestsFinish`, `UpAgain`), which is out of the prover's
  reach;
* `ReadAsC`, `FormOffersReached` and `MenuAsWritten`: IniExpr, IniLanguage and Forms are
  written with RECURSIVE operators (trees have no bound on their depth).

Out of the prover's reach: liveness under fairness and ENABLED; theorems with an
operator for a parameter, and with them induction in its usual form.  What the proofs
use instead is the least element of a nonempty set of naturals (`LeastNat`,
`NatSetInduction`); that was enough for the recursive functions in Wire, Datalog,
Preprocess, Commands and Msq and for the prefixes of a recording.  `SelectSeq` and
RECURSIVE operators are opaque: no theorem stands in a module that uses them.

## 5. Plan

Done: TuneSync, EngineShutdown, Lifecycle, HandlerLocks, Pairing, Datalog, LogIndex and
its refinement of LogView, Calibration, Wire, Preprocess, Commands and Msq with their
proofs; IniExpr, IniLanguage and Forms, model-checked.

To come: an abstract specification of a connection (down, coming up, up) that Lifecycle
implements.

## 6. Not modelled

* The lexer of the INI and the sections that fill records with constants, channels,
  tables, curves and gauges: text to data, without state that later text depends on.
  Their results are the constants `Def`, `Known`, `Arrays`, `Lists` of the modules.
* The syntax of `.msq` (XML) and `.msl` files, and JSON: formats.  What a format does to
  a number (six decimals, one number read back as a number) is in Msq.
* `transport.rs`: the operating system's serial port.
* The other read handlers of `api.rs`: views of state the modules keep.
* The desktop shell, the web client and the OLED configurator: user interfaces.
* Hashing of tokens, cookies and TLS headers in `auth.rs`: tokens are model values.
