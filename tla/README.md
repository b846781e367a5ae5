# Verification of esp32-music-server

TLA+ specifications of the music server in this repository, model-checked with
TLC, with safety theorems proved with TLAPS.

## The system

An ESP32 serves music from an SD card over HTTP (`actual`); the same server runs
on a PC for development (`development`). One cooperative executor runs all tasks:
code between two `await`s is never interrupted.

| part | source | state | operations |
|---|---|---|---|
| file manager | `file_manager/src/lib.rs` | `state: Mutex<FileManagerState>`: `NoCard`, `Active{vm, vol}`, `Processing` | `with_root_dir`, `with_root_dir_async`, `resolve_path_iter`, `close_file_type`, `is_card_active`, `try_mount`, `handle_ejection` |
| volume manager (crate `embedded_sdmmc`) | used through `file_manager`, `server` | table of 4 open directories, table of 4 open files, the card | open, close, read, write, delete |
| database (crate `alpa`) | used by `upload.rs`, `delete.rs`, `list.rs`, `*_impl.rs` | tables `files`, `music`, `count_tracker` | insert, update, delete, query |
| static buffers | `server/src/statics.rs` | two mutexes, `BUF` and `BUF2` | `get_buf`, `get_buf2` |
| streaming | `server/src/range.rs` | raw file, start, length of each response | `GET /stream` |
| uploads | `server/src/upload.rs`, `chunk.rs` | cursor of each upload | `POST /upload-new`, `/upload-chunk`, `/upload-end` |
| deletion | `server/src/delete.rs` | none | `DELETE /delete`, `/db`, `/fs-music-delete` |
| browsing | `server/src/list.rs`, `fs.rs` | raw file or directory of each response | `GET /list`, `GET /fs` |
| HTTP tasks | `actual/src/http_task.rs`, `router.rs`; `development/src/main.rs` | the connection each task serves | accept, serve, 10 s timeout |
| control plane | `actual/src/router.rs`, `event_handler.rs` | `EVENT_CHAN` (capacity 2), two shared signals, Wi-Fi controller | status, configuration, connect |
| station configuration | `actual/src/sta_config.rs` | 256 bytes of flash | load, save (erase, then write) |
| boot | `actual/src/main.rs`, `embassy_impl.rs`, `tokio_impl.rs` | `FILE_MAN` (OnceLock), directories, tables | `init_file_system` in a retry loop |
| runtime abstraction | `file_manager/src/runtime` | channels, signals, mutexes | tokio and embassy versions |
| browser | `server/src/htm` | upload loop with 5 attempts per chunk, player | calls the routes |

How they interact: an HTTP task calls a handler; the handler waits for the file
manager's mutex, runs a closure with the volume manager, and may take a buffer
while it holds the mutex. Some handlers keep the mutex while they read from or
write to the socket (`/upload-chunk`, `/list`, the body of `/stream` and `/fs`).
`/stream` and `/fs` release it between opening a file and sending it, and carry
a *raw* handle (a number) across. The control routes talk to `event_handler_task`
through `EVENT_CHAN` and get answers through two static signals.

What is hard: requests interleave wherever a handler awaits; a client may go
away at any socket operation; the 10 s timer drops a handler at any await; raw
handles are not closed by dropping them; the tables have four entries; a panic
halts the device but ends only one task on a PC.

What makes each part correct:

- mutexes and buffers: no deadlock, the mutex is released on every path;
- handles: owned by one request, closed once, none lost, the tables suffice;
- streaming: the announced bytes exist until they are sent, whatever else runs;
- files: appear, grow and disappear under one owner at a time;
- HTTP tasks: every request ends;
- catalogue: a row names a file that exists, an id is not given out twice;
- an upload: the card has a beginning of the user's file, and all of it when the
  user is told "success";
- control plane: an answer is never older than its question or than a write confirmed
  before it; what a request waits for is lost only to another one that shares its
  signal, and then the timer ends the wait; a confirmed write gets into the flash;
- boot: the loop ends when a card is there, and does no harm until then.

`PROJECT.json` lists the hazards of the code line by line.

## Modules

| module | models | lines of code |
|---|---|---|
| `VolumeManager` | the tables of open directories and files, the files on the card | external crate |
| `FileManager` | the mutex, the buffers, what a suspended request owns; helpers that lock, acquire, release and forget | `file_manager/src/lib.rs`, `server/src/statics.rs` |
| `StreamHandler` | `GET /stream` | `range.rs` |
| `UploadHandler` | `/upload-*`, `/delete`, `/db`, `/fs-music-delete` | `upload.rs`, `chunk.rs`, `delete.rs` |
| `BrowseHandler` | `/list`, `/fs` | `list.rs`, `fs.rs`, `resolve_path_iter`, `close_file_type` |
| `MusicServer` | the composition: tasks, requests, timer, panics; properties | `http_task.rs`, `router.rs`, `development/src/main.rs` |
| `FileOwnership` | abstract: what is promised about one file | |
| `MCMusicServer` | instances for TLC | |
| `MusicServerProofs` | inductive invariant and theorems | |
| `OwnershipProofs` | what requests own, how handles get lost, the refinement of `FileOwnership` | |
| `CapacityProofs` | how many table entries the server needs: with them, and without failures, no handle is lost and nothing panics | |
| `ControlPlane` | the control routes, `EVENT_CHAN`, the two shared signals, `event_handler_task`, the configuration in flash | `actual/src/router.rs`, `event_handler.rs`, `sta_config.rs`, `main.rs` |
| `MCControlPlane` | instances for TLC | |
| `ControlProofs` | inductive invariants and theorems of `ControlPlane`; the order of the commands in the channel | |
| `Catalog` | rows, counters and files, and the operations that change them write by write, with boot and power losses | `upload.rs` (`new`), `delete.rs`, `init_file_system` of `embassy_impl.rs`, `main.rs` |
| `CatalogProofs` | inductive invariant and theorems of `Catalog` | |
| `Boot` | extends `Catalog`: how the two programs start, with or without a card, and the loop around `init_file_system` | `actual/src/main.rs`, `embassy_impl.rs`, `development/src/main.rs`, `tokio_impl.rs`, `with_vol_man` of `lib.rs` |
| `MCBoot` | instances of `Boot` for TLC | |
| `BootProofs` | both programs implement `Catalog`, and inherit its theorems | |
| `AgreementProofs` | rows and files agree where nothing is interrupted, in `Catalog` and in `Boot` | |
| `UploadProtocol` | one upload: the browser's loop over the chunks against the handlers, with everything that gets lost in between | `list.htm` (`uploadFile`), `chunk.rs`, `upload.rs`, `http_task.rs` |
| `MCUploadProtocol` | instances for TLC | |
| `UploadProofs` | inductive invariant and theorems of `UploadProtocol` | |

### State and actions: the file routes

`pc[t]` names the `await` at which the request of task `t` is suspended, `req[t]`
its route, file, position and the buffers still to be sent. `dirs[t]` and
`files[t]` are the handles its future owns. `held` maps each mutex to its holder.
`openDirs` and `openFiles` are the entries of the volume manager's tables:
an entry that no `dirs[t]` or `files[t]` contains is leaked. An action is what
runs from one `await` to the next; code that holds the mutex and never awaits is
one action.

| phase | suspended at |
|---|---|
| `lock` | `state.lock()` of the handler's first call |
| `streamHead` | the headers of a `/stream` response, raw file open, mutex free |
| `streamCheck`, `streamLock` | `is_card_active`, `with_root_dir_async` (range.rs:61-62) |
| `streaming` | a chunk of the body (range.rs:39), mutex and `BUF` held |
| `receiving` | the body of an upload (chunk.rs:45), mutex and `BUF` held |
| `listLock`, `listing` | `with_root_dir_async` (list.rs:120); a write of the list, mutex held |
| `fsHead`, `fsLock`, `fsSend`, `fsClose` | headers; `state.lock()` (fs.rs:24, 58); a write, mutex held; `close_file_type` (fs.rs:99) |
| `panicked` | a failed `unreachable!()` or `unwrap()` |

Waiting for the mutex and then for a buffer is one action, because a buffer is
only taken under the mutex and so is always free then; `BuffersNeverContended`
is the invariant that justifies it.

Lengths and positions count buffers of `BUF_SIZE`. A directory handle is a member
of `DirSlots`, a file handle is the file itself, because the crate refuses to
open a file twice. Rows of the database are not modelled here: where a route
looks up or inserts a row, both outcomes are possible.

What is assumed of the external crates: `Directory`, `File` and alpa's `Database` close
what they own when dropped; so does `Database::new_init` when it fails, with the raw
directory in the `DbDirSdmmc` that it was given (upload.rs:41, delete.rs:24, list.rs:23:
`NewRefused`, `DeleteRefused` and `ListNoDb` rest on this); `RawDirectory` and `RawFile`
do not; a file is open at most once; an open file cannot be deleted; `ReadWriteCreate`
refuses an existing name. `used` holds the names that the counters of the database are
past; when the update of a counter fails (`io`), `upload::new` has created a file whose
name is given out again once that file is deleted.

### State and actions: the control plane

`pc[t]` is the command that the request of HTTP task `t` sends next (`ask` for the
two questions) or `wait`, suspended in `Signal::wait`; `handler` says whether
`event_handler_task` is in `select`, in `connect_async` or in the two seconds after
it. A signal is modelled as embassy implements it: a value (`value`) or the waker
of one task (`waker`). `signal()` stores the value and wakes that task, `reset()`
clears both, `wait` polled without a value stores the poller's waker and wakes the
task whose waker it replaces. `woken` holds the tasks the executor is going to
poll because of that; a task may also be polled for another reason (`Poll`).
`link` stands for the whole `WifiStatus`, `flash` for what `load()` returns,
`Fits` for the configurations that `save()` can serialise. `/print-alloc` asks as
`/status` does. `Hazards` are the 10 s timer, a radio that refuses or drops the link,
and power losses, also between erase and write. A start that panics because the radio
refuses (main.rs:113 and 115) leaves the device off, so it is no action of its own.

Both tasks serve the same router (router.rs:73-84), so nothing is assumed about who
asks what: any request may reset, take and answer the signal another one waits for. What
a property needs to know of the past is in history variables. `seen` are the answers
that have been true since a question was asked. `saved` is the last fitting configuration
whose write was confirmed ("wrote", router.rs:23), `recent` those confirmed since the
reads now in the channel were asked for, and `due` what each reader may get: its own
question may be answered by the command of a read before it. `cut` says that a request
timed out after its `SetConfig` and before its `Connect`, and no `Connect` was sent since.

### State and actions: the catalogue

`Catalog` looks inside what `UploadHandler` treats as one action. `op` is the
operation that holds the file manager's mutex, with the write it does next, or
`Idle`. None of these operations awaits anything while it holds the mutex, so
neither the timer nor another request gets between its writes; a power loss or an
error of the card does. `tables`, `counter` and `rows` are the database, `files`
the directory `files` and `music`. One operation of alpa is one write: alpa logs
its pages before it changes them, and `Database::new_init` replays the log.

| operation | writes |
|---|---|
| `upload::new` | `NewFile` (reads the counter, creates the file), `NewRow`, `NewCount` (advances the counter, answers) |
| `DELETE /delete` | `DeleteFile`, `DeleteRow` |
| `DELETE /fs-music-delete` | `FsMusicDelete` (the row stays) |
| `DELETE /db` | `DeleteDb` (tables and counters go, the files stay) |
| `init_file_system` | `boot1` to `boot3` create the tables, `boot4` and `boot5` insert the counters |

The HTTP tasks of the device run while `main()` boots, so requests may come
between two failed attempts (`BootRetry`) and find some of the tables missing. A name is a number
and an extension, which the client chooses; `IdLimit` is the limit in the code
(99999999). The card writes names in capital letters (`Upper`, `OnCard`), the database,
the page and the answers to clients as they are spelled: an upload looks for its name
on the card in capital letters, a deletion deletes the file in capital letters
(delete.rs:28) and the row as it is spelled (delete.rs:34), and a client may spell the
name in its own way. `files` keeps the title for which a file was created, to tell one
upload's file from another's; `given`, `spent`, `orphans` and `widows` are history
variables: what clients were told and nobody deleted, which names the present
database has given out, which files `/db` left behind, and which rows stayed when their
files were deleted under another spelling or by `/fs-music-delete`. Sizes and contents of
files are not modelled here. `Faults` are a power loss anywhere (`power`), a power
loss while no upload or deletion runs (`restart`; a start may be interrupted), and a
write that fails, be it on the card or because the database refuses it (`io`).

### State and actions: the start

`Boot` extends `Catalog` with `main` (where `main()` is: `off`, `attempt`, `booting`
while an attempt holds the mutex, `sleep` for a second, `serving`), `manager` (what
`FILE_MAN` contains: `unset`, or a file manager whose `CardState` is `NoCard` or
`Active`), `inserted` (a card is in the slot) and `platform`, which of the two
programs runs. They differ in four places:

| | device (`actual`) | PC (`development`) |
|---|---|---|
| the manager is made | by every attempt, and dropped if `FILE_MAN` has one (`OnceLock::init`) | once, before the loop |
| a table that exists | counts as created (`CreateTable`) | `DuplicateKey` ends the attempt (`CreateTableOnce`) |
| requests | from the start | after the loop (`Listening`) |
| `/fs-music-delete` | routed | not routed |

`FileManager::new` looks at the slot once (`Mounted`), and nothing in either program
looks again, so `MoveCard` matters only before the first attempt.
`StartsImplementCatalog` says that both programs do to the card what `Catalog`
allows with all faults: an attempt that ends at a table that exists is a failure
that writes nothing.

### State and actions: one upload

`UploadProtocol` follows one user's file. `page`, `chunk` and `try` are the script's
control and its two loops, `told` is what it shows in the end; `pc`, `idx` and
`done` are the requests for chunks in the HTTP tasks, `conn` is the task whose answer
the page waits for. Positions count pieces, what `receive_chunks` reads and writes
in one turn of its loop, so a chunk is cut short after any piece. `card` records
for each position *which* piece of the user's file is there: a piece in the wrong
place is seen. Positions on the card are computed modulo `Limit`, 2^32 bytes
(chunk.rs:42), and FAT has no file of that length, so what is written at the last
position is left out. Nothing in the page or in `chunk.rs` bounds the length of a file;
`upload::new` reads it as `usize` (upload.rs:18), so the device refuses lengths from
2^32 on (`Usize = Limit`) and a PC does not (`Usize > Limit`). A file `Fits` if it is
shorter than `Limit` or refused; on the device every file does.

| action | code |
|---|---|
| `PostChunk`, `PostFails`, `Disconnect` | `fetch` in `list.htm`: the request arrives, does not, or its connection breaks while the handler may run on |
| `TryAgain` | the `continue`s of the inner loop, and the way out of it after the last attempt |
| `BeginChunk`, `Refuse` | the mutex, opening the file, `seek_from_start`, which refuses a position past the end |
| `WritePiece`, `Complete`, `Break`, `Timeout` | the loop of `receive_chunks`, its end, its errors, and the timer |
| `NextChunk`, `Tell` | the page compares the confirmed length; an error ends the upload |
| `EndUpload` | `/upload-end`, which only opens the file |
| `Delete` | another client deletes the file |

A handler whose client is gone (`conn` is another task, or none) goes on until it
ends by itself or by the timer, so several handlers of one chunk may exist; the
mutex makes them write one after the other. `received` and `givenUp` are history
variables. A refusal is a text with status 200, which the page compares with the
length and takes for a final error, not for a reason to try again.

### Faults of the file routes (`Faults`)

`write`: the client is gone and a socket write fails; `timeout`: the 10 s timer; `io`:
the card fails to read, write or iterate, or a directory does not open, which at
delete.rs:21 loses the database's directory as a full table does; `range`: a client asks
for a range that starts at or after the end of the file (an empty file has no other
ranges).

## Runs

The runs `firmware` to `list_unreachable` use `MCMusicServer`, the next three
`MCControlPlane`, `catalog` and `boot` `MCBoot`, the last two
`MCUploadProtocol`.

| run | question | bounds |
|---|---|---|
| `firmware` | are mutexes and tables consistent under all faults, does a stream keep its promise, how can a handle get lost, and does every file follow `FileOwnership`? | 2 tasks (`pool_size = 2`), 1 file + database, 4 directory and 3 file entries, files of up to 3 buffers, 2 buffers per answer |
| `faultfree` | without faults, is anything lost, does anything panic, and do four entries suffice? | 2 files + database, 4 + 4 entries as in the code, files of up to 2 buffers |
| `requests_end` | does every request end, on the device with an unfair mutex and the timer, and on a PC without the timer? | 2 tasks, 1 file of at most 1 buffer, 3 directory entries, 5 routes, all faults, a panic ends one task, no symmetry |
| `stream_unreachable` | is range.rs:69 unreachable? | violated |
| `list_unreachable` | is list.rs:122 unreachable? | violated |
| `control_shared` | when tasks share a signal, time out and lose their power, can a read be older than a confirmed write, what can a question, a wake-up and the stored configuration be lost to, and do connects follow configurations? | 2 tasks that both read and set, 2 configurations, timeouts and power losses, symmetry of the configurations |
| `control_live` | can an answer be older than its question, can a confirmed write be lost, is a question that one task asks answered, does every wait end, is each confirmed write that fits carried out? | 2 tasks that both read, 1 configuration, timeouts and radio failures |
| `write_dropped` | does "wrote" (router.rs:23) mean written? | violated |
| `catalog` | what survives a power loss or an error between any two writes, and do both programs implement `Catalog`? | 1 extension, 2 titles, numbers below 3 in each directory, both platforms, with and without a card |
| `boot` | do rows and files agree if the power fails only while no upload or deletion runs, however names are spelled, and does the boot loop end? | 2 extensions that are one on the card, no symmetry |
| `upload` | what is on the card, and what does the user hear, when requests, answers and handlers get lost, late or repeated? | 2 tasks, files of 0, 1, 4, 5 and 9 pieces, chunks of 2, positions modulo 8, the device's `Usize`, 2 attempts |
| `upload_gap` | does "success" mean that the whole file is there? | violated |

Why the bounds are enough: two tasks are all the firmware has. One file and the
database's two fill a table of three, two files one of four. Four directory
entries are the code's; with three the table fills up sooner, which exercises the
same refusals. Three buffers with two per answer give a stream that ends because
of its size limit and one that ends with the file, and writes before, at and after
a reader's position. `MaxLen` bounds a file's length in `ChunkWrite`; `ChunkLen`
stands for the eight buffers of 16 KiB. The channel has the code's capacity; two
tasks fill it, because `/set-config` sends two commands. Two configurations that fit tell
a new one from an old one, as `NoConfig` tells one from none; one that does not fit is
in `write_dropped`, and the theorems hold for any `Fits`. Nothing counts without limit.
In the catalogue the numbers 1 and 2 are the first and its successor, and 3 is
refused as 99999999 is in the code; two titles tell two uploads that meet at one
name apart.

In an upload two tasks let a late handler run beside the next attempt; two attempts
distinguish a retry from the last one; files of no chunk, of one that is not full,
of two full ones and of three with a short last one have every kind of boundary, and
one is longer than `Limit`.

Runs that allow `CHECK_DEADLOCK FALSE` are those of `MCMusicServer` with faults,
where a panic halts the device, after which nothing runs; `control_live` and
`write_dropped`, where clients may just ask nothing; and those of
`UploadProtocol`, where an upload ends. `faultfree`, `control_shared`,
`catalog` and `boot` check for deadlock.

What they show: no interleaving of two tasks, timeouts and lost clients breaks
the ownership of mutexes and handles; a `/stream` response always finds the
bytes it announced; every request ends; handles are lost only at the end of `/stream`, `/fs` and
`/delete` requests, and for good; without faults nothing is lost, nothing panics, and the tables
of four are exactly large enough for the two tasks. The two violated runs show that
`unreachable!()` is reached: by a client that leaves during a stream, and, when the
table of directories is full, by the next `/list`. In the second trace three clients of
`/fs` went away before the headers of their responses were written, so that each
`FsIterChunks` (fs.rs:117) was dropped with its raw directory, and a fourth request
holds the last entry. On the device this is a halt.

The control plane never answers a question with an older value, and never with a
configuration older than the last write confirmed before the reads then on their way were
asked for. When both interfaces ask the same at once they share a signal: one may
take the answer or `reset()` the other's waker, and the request that is left over waits
for its timer. `ForgottenOnlyByReset` and `LostOnlyToAnother` say that this is all that is
ever lost, `TimerEndsWaiting` that the timer ends the wait, and `EveryQuestionAnswered`
that a question nobody else asks needs no timer. `StationFollowsConfig` is for a radio
that does not refuse, and for requests that do not time out between their two sends: one
that does leaves the station in the old network with the new configuration set.
The stored configuration disappears only when the power fails during `save()`.
`write_dropped` shows that a configuration of more than 256 bytes is
confirmed and dropped.

The catalogue keeps what it has reported: an upload whose client was told a name
has its file and its row until somebody deletes it, and no database gives out a
name twice. What it does not keep is progress. An upload that is interrupted
after `NewFile` leaves a file under the next name, and every later upload with
the same extension is refused, because `ReadWriteCreate` finds that file, until
somebody deletes it by a name that nobody was told; `NothingBeyondTheCounter`
limits the damage to the names with that one number. After `DELETE /db` uploads
are refused until the next start, which counts from 1 again and meets the files of
the old database in the same way. An interrupted `/delete`, every
`/fs-music-delete`, and a `/delete` of a name in another spelling leave a row without a
file. If the power fails only while no upload or deletion runs, nothing but `/db` leaves
a file without its row, and nothing but the last two a row without its file
(`CatalogAgrees`).

`BootEnds` needs a card at the first attempt: the manager that is in `FILE_MAN`
without one is never replaced, so a card that is put in later is not found until
the next start. On a PC it also needs a card image nobody has used: with one that
has tables the loop repeats for good, and so it does after a start that failed or
was interrupted between the first table and the last. In every one of these cases
what is on the card stays as it was.

An upload leaves no hole and no misplaced piece whatever is lost, repeated or late,
because `seek_from_start` refuses to go past the end and a repetition starts at its
chunk's own position; the pieces a late handler writes are those that are there
already. A chunk that was given up and is missing is noticed if another one follows,
which is refused; after the last one there is none, and `/upload-end` answers
"success" for any file that opens (`upload_gap`). `CompleteUnlessLastGivenUp` says
that this is the only way to a "success" for an incomplete file. All this is for files of
less than 4 GiB. The device refuses longer ones because their size is no `usize`
(upload.rs:18), which `upload` checks with a file of nine pieces. On a PC
`idx * CHUNK_LEN` wraps (chunk.rs:42), and a chunk behind the boundary is written over the
beginning of the file and confirmed: TLC finds this when it checks `PrefixOnly` with
`NewUploadAnySize`, which reads a length of any size, in the place of `NewUpload`.

### Fairness

The properties of `requests_end` name their fairness. `FirmwareFairness` is weak
fairness of "the request steps or times out": the executor polls every woken
task, socket operations end by themselves or by the timer, and `with_timeout`
covers the wait for the mutex as well. Nothing is assumed about the order in
which embassy's mutex wakes its waiters. `DevelopmentFairness` has no timer and
is strong fairness of a request's steps: tokio's mutex is first come, first
served, and picoserve's own read and write timeouts end a stalled socket
operation. No fairness is assumed of clients.

`LiveSpec` of `ControlPlane` assumes weak fairness of the start of the device, of
`event_handler_task` (the radio ends each `connect_async`, and the timer of two
seconds fires) and of each woken task. It does not promise that a sender gets its
place in a full channel: another task can overtake it again and again until its
timer ends it, so the properties about answers and writes start at a command in the
channel. `TimerEndsWaiting` has the timer's fairness as its premise: a request
gets on with its send or is timed out.

`BootLiveSpec` assumes weak fairness of the return of the power, of `main()`'s next
step, which the executor polls whenever its timer or the mutex wakes it, and of a
request that holds the mutex. It is used where the card works: one that
always fails keeps the loop from ending.

`LiveSpec` of `UploadProtocol` assumes weak fairness of the script in the page
(`fetch` ends, and the loop goes on) and of each handler, which ends by itself or by
its timer. Breaking connections and deletions are not fair.

## Proofs

`MusicServerProofs` proves, for any finite set of tasks and files, any table
sizes and any combination of faults, from `VolumeAssumption`,
`ServerAssumption` and `RouteAssumption`:

- `TypeCorrect`: `Spec => []TypeOK`;
- `BuffersTheorem`: `Spec => []BuffersNeverContended`;
- `HandlesTheorem`: `Spec => []HandlesOwnedOnce`;
- `PromisedBytesTheorem`: `Spec => []PromisedBytesOnCard`.

The invariant `IInv` is inductive. `TypeOK` alone is not: a stream's position
stays within a file because the promised bytes are there
(`StreamsOwnTheirBytes`); they are there because the stream's file is open
(`HandlesOwnedOnce`), open files are not deleted (`OpenFilesExist`) and nobody
else shortens them (`OpenFilesGrow`); and a stream starts with a file of the
right kind because requests name one (`RequestsNameFiles`). The proof has one
lemma per conjunct, each split by the route that steps; `LockKept`,
`LockTaken`, `LockReleased`, `AcquireOnce`, `ReleaseOnce` and `GrowOnce` say what
the helpers do and are cited for every action that uses them.

`OwnershipProofs` proves from the same assumptions:

- `LeaksAreForeverTheorem`: `Spec => LeaksAreForever`;
- `LeaksHaveOneCauseTheorem`: `Spec => LeaksHaveOneCause`;
- `FilesHaveOneOwnerTheorem`: `Spec => FilesHaveOneOwner`, the server implements
  `FileOwnership`.

They need more than `IInv`: `OInv` adds what a request owns in each phase
(`HandlesMatchPhases`: a waiting request owns nothing, a stream one file, a
listing only database files) and that an upload never writes past the end of its
file (`UploadsLeaveNoHole`, otherwise a write would make a file grow by more than
one).
`Effects` classifies every step by what it does to the handles (nothing, acquire
fresh ones, release, forget, or one of the two losses inside a handler) and
`DiskEffects` by what it does to the files; the theorems are case distinctions
over these two. In the refinement `FileOwner` says who has a file open; `OneFile`
makes sure a step hands over at most one file, as `FileOwnership` demands.

`CapacityProofs` proves from the same assumptions, for any number of tasks `n`, if
nothing fails (`FaultFree`: no lost client, timeout, card error or range outside a file):

- `NothingLeakedTheorem`: `Spec => []NothingLeaked`, with at least `n + 2` entries for
  directories (`RoomForDirs`);
- `NobodyPanicsTheorem`: `Spec => []NobodyPanics`, with the same;
- `CapacityTheorem`: `Spec => []CapacitySuffices`, with `n + 2` entries for files
  as well (`RoomForFiles`).

The firmware's four and four are exactly `n + 2` for its two tasks. The
argument goes in a circle that the invariant `CapInv` closes. While the mutex is free
a suspended request owns at most one directory and one file (`OneEach`), and one that
is about to take the mutex owns none; nothing is leaked, so the open entries
each have an owner among the `n - 1` others, and by the pigeonhole principle
(`FewerThanTasks`) at least three are free (`Room`). So the error paths that lose a
handle or reach `unreachable!()` because the table of directories is full are never
taken (`NoLoss`), and nothing is leaked after the step either. The third of these
paths is a range that starts past the end of its file: a client that asked for a part
of a file that was there must not meet a shorter one, so `CapInv` also says that
files only grow until they are deleted and that no name comes back (`NamesUsed`,
`EmptyOffCard`, `StreamsInRange`). A PC serves any number of connections, so there
the condition is one on how many are open at once.

`ControlProofs` proves from `ControlAssumption`, for any number of tasks, any
capacity of the channel and any hazards:

- `ControlTypeCorrect`: `Spec => []TypeOK`;
- `AnswersAreFreshTheorem`: `Spec => []AnswersAreFresh`, whatever the tasks ask;
- `ForgottenOnlyByResetTheorem`: `Spec => ForgottenOnlyByReset`;
- `LostOnlyToAnotherTheorem`: `Spec => LostOnlyToAnother`;
- `ReadsSeeConfirmedWritesTheorem`: `Spec => []ReadsSeeConfirmedWrites`;
- `ConfirmedUntilWrittenTheorem`: `Spec => ConfirmedUntilWritten`, for all hazards;
- `OnlyInterruptedSavesEraseTheorem`: `Spec => OnlyInterruptedSavesErase`;
- `StationFollowsConfigTheorem`: `Spec => []StationFollowsConfig`, if the radio does not
  refuse or drop the link (`RadioObeys`); requests time out and the power fails.

None of them but the last has a hypothesis: any two tasks may ask the same question,
and every request has its timer.

`AnswersAreFresh` is not inductive: an answer is fresh when it is put into the
signal because the answer the handler would give has been observed by every
question in progress (`AnswerObserved`).

A waiting task is forgotten when it would not be polled again: it is neither woken nor
the waker of its signal. It is unserved when its question is not in the channel and its
signal is empty. The proofs of the first two theorems above show, step by step, that no
step of the handler and no step of another task does either to it, but for `reset()` of
the signal that they share and, for the second, taking its answer.

Two of the theorems are about the order of the channel. Their invariants are written
with three notions: an event of `K` is queued behind place `i` (`After(K, i)`), the
channel holds one of `K` that none of `L` is behind (`Last(K, L)`), and none of `L`
is behind one of `K` (`Final(K, L)`). A lemma for each says what sending and
receiving do to it (`AfterAppend`, `AfterReceive`, `LastReceive`, ...). The station
follows its configuration because a `Connect` comes after every `SetConfig`
(`ConnectFollows`): it is queued behind the last one, or a task is about to send it,
or it is being carried out with that configuration, or the request timed out before it
sent it (`cut`). With a radio that refuses, TLC finds the property violated.

A reader gets what it may get because the flash does or will hold it in time
(`Covers(due[t])`): it holds one of these configurations and no other one is queued, or
one of them is queued before the first read in the channel and no other one behind it.
The last write that was confirmed is in the flash or behind all others
(`Stored(saved)`). With several readers only the first of the reads in the channel
matters, because its answer may be taken by any of them.

`CatalogProofs` proves from `CatalogAssumption`, for any extensions, titles, limit
of the numbers and faults:

- `CatalogTypeCorrect`: `Spec => []TypeOK`;
- `ReportedUploadsTheorem`: `Spec => []ReportedUploadsAreKept`;
- `NothingBeyondTheorem`: `Spec => []NothingBeyondTheCounter`;
- `NamesGivenOnceTheorem`: `Spec => NamesGivenOnce`.

The inductive invariant `CatInv` adds that the names given out are behind the
counter (`SpentIsBehind`), that an upload in progress has the number whose turn it is
and owns its file, then its row (`UploadInProgress`), and that a name is withdrawn
before its row goes (`DeletionInProgress`). An upload never meets a file of
another's reported upload because `ReadWriteCreate` refuses its name, and never its
row because the insertion refuses it.

`BootProofs` proves from the same assumption `StartsImplementCatalogTheorem`
(`BootSpec => StartsImplementCatalog`), action by action: the only step of `Boot` that
is not one of `Catalog` is an attempt on a PC that meets a table, and it is a
failure that changes nothing. An instance of `CatalogProofs` with all faults then
gives `StartsKeepTheCatalog` and `StartsGiveNamesOnce`: the theorems above hold of
both programs.

`AgreementProofs` proves, if the faults are at most `restart` (`OnlyRestarts`: the power
fails only between operations, and the card works),
`CatalogAgreesTheorem` (`Spec => []CatalogAgrees`) and `StartsAgreeTheorem`, the same of
`BootSpec`. `CatalogAgrees` speaks of moments at which no operation runs; the
inductive `AgreeInv` says for each write of an upload or a deletion which of the
agreements its name is exempt from (`FilesHaveRows`, `RowsHaveFiles`, `NextIsFree`), and
adds that rows are behind the counter (`RowsAreBehind`), which is why an upload finds
its name free in the table and the error of `insert_to_table` does not occur.

`UploadProofs` proves from `UploadAssumption`, for any number of tasks and attempts,
any length of chunk, any `Usize` and any sizes:

- `UploadTypeCorrect`: `Spec => []TypeOK`;
- `PrefixTheorem`: `Spec => []PrefixOnly`;
- `ReceiptsTheorem`: `Spec => []ReceiptsHold`;
- `CompleteTheorem`: `Spec => []CompleteUnlessLastGivenUp`;
- `GapsTheorem`: `Spec => []ReceiptsBeforeGaps`.

`PrefixOnly` needs that nobody who writes stands beyond the end (`WritersFit`), which
another handler could only undo if it shortened the file, and that no position wraps.
The properties are about files that `Fits`: a position in one shorter than `Limit` does
not wrap because no request is about a chunk outside the file (`RequestsFit`), and one
that the server refuses has no chunks (`Refused`). For a longer file that is accepted,
which needs a PC, they would be false, as the mutant `NewUploadAnySize` shows; of it
only `TypeOK`, `RequestsFit`, `OneWriter`, `Awaited` and `ChunksInOrder` are left. The
other properties need that the page takes an answer only about its own chunk (`Awaited`)
and has been through all chunks before it (`ChunksInOrder`). Multiplication is confined
to a few lemmas on `Start` and `End`.

Every invariant and every action property of a passing run is proved. Model-checked
only are the liveness properties and the absence of deadlock: they need fairness and
ENABLED, which the prover does not handle. That the hypotheses `RadioObeys`,
`FaultFree` and `OnlyRestarts` can be met shows in the runs `control_shared`,
`faultfree` and `boot`, whose instances satisfy them.

## Not modelled

- The user interface, DHCP, the network stack, the allocators, `build.rs`, the
  examples and `_main.rs` (not part of the firmware), and `handle_get_chunk`
  (chunk.rs:88-192, not routed).
- `handle_ejection` and the state `Processing` it leaves behind, `open_dir`,
  `close_dir` and `root_dir_lock`: no program calls them, and `try_mount` only
  `FileManager::new` does. A card that is pulled out while the server runs shows as
  failing reads and writes (`io`).
- `Signal` and `Channel` of `file_manager/src/runtime`: the control plane uses
  embassy's own, and nothing else uses these. Of the runtime abstraction only the
  mutex has callers; its two kinds of fairness are those of `requests_end`.
- The contents of rows other than the title, and the walk of `resolve_path_iter`
  over path names, of which only the directories it opens are kept.

## Plan

The capacity theorem and the theorems about the order of the channel, the last two
points of the former plan, are proved. What may follow:

1. the safety halves of the liveness properties that are left: no request waits for a
   mutex that nobody will release, and no upload makes more attempts than its chunks
   allow;
2. how many failures the tables survive: that each loses at most one directory and one
   file, so that `n + 2 + k` entries are enough for `k` of them.
