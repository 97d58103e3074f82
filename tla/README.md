# Nuage in TLA+

Nuage stores files as documents in a private Telegram channel and keeps a
SQLite index of them. Two stores are written in separate steps, by HTTP
requests that run concurrently, by CLI processes beside the server, by recovery
commands that rebuild one store from the other, and on behalf of a browser tab
that knows the index from lists it fetched earlier. These modules model those
steps and state what must hold of the stores, of the sessions and of what is on
screen, however the steps interleave and wherever they are cut short. Small
instances are checked with TLC; the main results are proved with TLAPS for all
values of the constants.

## The system: inventory

| component | state | operations | what makes it hard | correct when |
|---|---|---|---|---|
| File index, `internal/index` | table `files`, AUTOINCREMENT sequence | insert, lookups, rename, delete, reset, owner backfill | shared by server and CLI processes; ids outlive rows; `UNIQUE(owner, hash)` rejects | ids never denote another file; statements are all or nothing |
| Index migration, `migrateOwnerColumn` | old or new schema | rebuild of the table | column looked up outside the transaction | ids keep their files; opening again changes nothing |
| Storage channel, Telegram | messages with document and caption, per channel | send, edit, delete, get, history | external, no transaction with the index; another channel may be selected | rows refer to live messages with their content |
| Core engine, `internal/core` | per request: what the handler has read | Upload, Download, Stream, Record, Rename, Delete | each is several statements and calls; contexts are cancelled; two requests on one file | no file lost, no wrong content, no effect on other owners |
| Engine lifecycle, `New`, `Close` | goroutine, `ready`, `done`, context | connect, close | the client may end at any of its steps | nothing is left when `New` or `Close` has returned; a restarted process serves again |
| Disaster recovery, `Reindex`, `BackfillCaptions` | history walk, fetched page, listing | reset and rebuild, rewrite captions | runs beside the server; wipes before it rebuilds; aborts | index equals the captioned documents; captions stay truthful; the walk ends |
| Profiles and config, `internal/config`, `cmd/nuage` | `config.json` | user add, user rm, auth, init | load, prompt, save without lock; truncating write; adoption of unowned files after the save | the last profile stays; adoption is complete |
| Login limiter, `internal/web/auth.go` | failure times per address | allow, record, reset | check and record lock separately around a slow password check | overrun bounded by the handlers; a lockout ends |
| Sessions and tokens, `internal/auth`, `internal/web/auth.go` | signed cookies, the server's copy of the profiles | login, logout, verify, expiry | tokens outlive logins, profiles and processes | a session was paid for with a password; it fades when its profile goes |
| Virtual paths, `normalizeVirtualPath`, `app.js` | none | join, clean, fold into folders | two cleanings, one of them relative | a file lands where its path means, never above the root |
| Web frontend, `app.js` | list, rows on screen, requests in flight, upload batch | list, open a folder, rename, delete, upload, login, logout | answers out of order, lost, or under another cookie; row and record held since the click | a click changes the file that was clicked; list and screen converge |
| Installation, `cmd/nuage` | server up or down, sessions | serve, upload, get, all commands, move to a new machine | all of the above together | a profile's uploads stay its own |
| Offline shell, `sw.js` | cached assets | install, refresh | parts refreshed one by one | not modelled |
| Telegram client | none | prompts of `nuage auth` | nothing stateful in this code | not modelled |
| Deployment, `deploy/nuage.service` | none | restart on failure | | the server comes back |

The web server and the CLI call the engine; the engine calls the index and the
channel; `user add` calls the index directly; the tab calls the server over
HTTP with the cookie it has at that moment. Everything shared is `index.db`,
`config.json` and the channel. `PROJECT.json` lists the hazards of this code at
their lines, each with the properties that cover it or the reason none does.

## Modules

| module | models | extends |
|---|---|---|
| `FileIndex` | `index.go`: one operator per SQL statement | |
| `Channel` | the Telegram channel (external), `metadata.go` | `FileIndex` |
| `Engine` | `engine.go` requests as the handlers and CLI drive them | `Channel` |
| `FileStore` | abstract: one file per owner and content, handles used once | |
| `EngineStore` | refinement mapping from `Engine` to `FileStore` | `Engine` |
| `EngineInvariant` | the inductive invariant of `Engine` | `Engine` |
| `Channels` | several channels, one of them selected by `nuage init` | `Engine` |
| `Maintenance` | `Reindex`, `BackfillCaptions`, loss of the index, beside requests | `Engine` |
| `Profiles` | `config.json` and its commands, adoption of unowned files | `FileIndex` |
| `Upgrade` | `index.Open` with `migrateOwnerColumn`, by `user add`, CLI and server, beside the profile commands | `Profiles` |
| `Nuage` | the installation: server, sessions, CLI, all commands | `Maintenance`, `Profiles` |
| `VirtualPath` | `normalizeVirtualPath`, the joining of `handleUpload`, the folders of `app.js`, and a reference definition | |
| `Browser` | `app.js` in one tab against the handlers and the index | `FileIndex`, `VirtualPath` |
| `Connection` | `core.New`, `Close` and the goroutine between them | |
| `Logins` | limiter, login handler, tokens, `requireAuth` | |
| `Serving` | `nuage serve` under systemd with its logins | `Connection`, `Logins` |
| `EngineProofs`, `EngineStoreProofs`, `MaintenanceProofs`, `ProfilesProofs`, `UpgradeProofs`, `NuageProofs`, `ServingProofs`, `BrowserProofs` | theorems | |
| `MCEngine`, `MCMaintenance`, `MCUpgrade`, `MCNuage`, `MCServing`, `MCBrowser`, `MCChannels` | values and symmetry for TLC | |

How state corresponds:

- `files` and `lastId` are the rows and `sqlite_sequence`. One SQL statement is
  one atomic step. Ids are function arguments, so the table is a function from
  ids to records. Size and `uploaded_at` are left out: the size is determined by
  the content, and no property is about listing order. The column `channel_id`
  is a variable of `Channels`, the only module in which channels differ. A
  content is identified with its SHA-256.
- `messages` and `lastMessage` are the channel. Message ids grow and are never
  reused; deleting a message that is gone succeeds; editing one that is gone
  fails, and editing a caption to the text it already has succeeds or fails
  (`EditRejected`), since Telegram may answer `MESSAGE_NOT_MODIFIED`. The
  history walk has offset 0 until it has fetched its first page. In `Channels`
  `messages` is the selected channel and `elsewhere` keeps the others.
- `req[r]` is a request in flight: a step label and exactly the local variables
  the handler still uses, such as a row read before a Telegram call. Between two
  statements or calls anything else may happen. `Fail` ends a request at any
  point (error, cancelled context, dead process), so a call that took effect
  but whose answer was lost is the call's step followed by `Fail`. Checks that
  fail before anything changed are stuttering steps. `deleting` is history: ids
  a delete request was accepted for.
- `cmd` is the maintenance command: `walk` with the page fetched and still to be
  handled, or `caption` with the rest of the list. `had` is history: per
  message, the row it had when the index was last lost or reset and had one for
  it. `Legacy` are uploads from before captions and profiles.
- `hasOwner` is whether the table has its owner column, `opening[p]` how far a
  process is in `index.Open`: it has looked for the column and will migrate, or
  has opened the index. The migration is one transaction and one step. A row of
  an old table is a row with owner `""`.
- `config` is whether `config.json` parses and the usernames in it; `adm[a]` the
  command in a terminal. `Save` is two steps, truncation and write, as
  `os.WriteFile` does: between them the file is `Truncated`. A write over what
  another command has written since the truncation may leave the rest of a
  longer text behind (`Torn`), however many writers there are.
- In `Nuage`, `sessions` are the profiles whose cookies verify: all that the
  server has been started with since the session secret was generated.
  `requireAuth` looks at the signature only, so sessions of removed profiles
  keep working and the model lets them. `uploader` is history: who sent each
  message. `Serving` has the life of a session in detail.
- `engine`, `run`, `ready`, `done` and `cancelled` are where `New` or `Close`
  stands, where `client.Run` stands, the two channels and the context. Both
  channels are buffered, so a send never waits. The callback reports on `ready`
  and returns (`returning`), `Run` ends and its result is sent on `done` in a
  later step, so that `New` may read the report in between.
- `failures[a]`, `cookies[b]` and `users` are `loginLimiter.attempts`, the
  cookie of each browser and `Server.users`. The code compares times; here each
  failure and each token has an age and `Tick` lets all of them grow, up to the
  first age at which they no longer count. `Kept` is the loop of `prune`, a
  recursive function on the length of the list, so that it can be proved about.
  `logins[h]` is an attempt between `allow` and its outcome, while the password
  is checked. `given` is history: how long ago a right password was last given
  for a profile.
- `calls[c]` is a request of the tab together with what its handler keeps across
  the `await`; `answers[c]` what the server has answered to it. The engine's
  work for it is one step on the index, which is what `EngineStore` shows it to
  amount to; only the second read of a renaming is a step of its own, because
  its outcome is shown, and may fail after the name has changed. The slots in
  `adrift` hold requests the tab no longer waits for, because their connection
  broke or the page was loaded again, but which the server may still execute.
  `records` is `allRecords`, or `NotAList` once the body
  of an error was stored in it, a function on the id 0 that no file has; `shown`
  are the rows in the page; `heldRows` and `heldRecs` say whether the row
  element and the record a handler has held since the click are still the ones
  in the page and in the list. `sync` and `unpainted` are history, explained at
  `ListInSync` and `PaintedAsListed`.
- A path is the sequence of its segments. `CleanRooted` and `CleanRelative` are
  `path.Clean` on either kind; `Meant` says independently what a path with `.`
  and `..` means: a name stays if the `..` after it never outnumber the names
  after it.

Operators whose comment says *Faulty variant* are not part of any
specification; each is a plausible mistake in the operator after it and shows
that a property can fail.

## Runs

Passing:

- **engine_faults** (2 request slots, 4 requests, 2 profiles and the CLI, 2
  contents, failures anywhere): `NoFileLost`, `ServedContent`,
  `OthersUntouched`, and `StoreSpec`, the refinement of `FileStore`. Two slots
  give every pairwise interleaving; four requests are what the longest story
  needs (upload, open a download, delete, upload something else).
- **maintenance_sequential** (one request or command at a time, no failures,
  index lost once, one legacy file, pages of 2 messages): `RowsRecovered`,
  `IndexMirrored`. Up to five messages, so the walk crosses page boundaries.
- **maintenance_faults** (two request slots, failures, commands while no request
  runs): `RebuildExact`, `RowsReachable`.
- **maintenance_online** (two slots, failures, command beside requests):
  `CaptionsTruthful`, `ServedContent`, and the liveness property `WalkEnds`
  (checked without symmetry).
- **upgrade_shared** (two terminals, four commands, another process that opens
  the index and uploads, interruptions; an old table, or a migrated one with a
  recovered row in the way of adoption): `SomeProfileStays`,
  `InheritsAllOrNothing`, `FilesSurvive`. `SomeProfileStays` says that profiles
  go only with the whole file, when a save is cut short between truncation and
  write or two saves write over each other, and that what is saved afterwards
  has a profile again. Three openers give every order of
  look-up, migration and adoption, migration twice included.
- **nuage_cli** (whole installation, two requests, two commands, two profile
  commands, one loss or move): `OwnUploadsOnly`. Calls do not fail here, but
  `user add` may be interrupted; failing calls are the subject of the others.
- **serving** (one address shared by two login handlers, one browser, two
  profiles, a limit of 2 failures, window and token life of 2 units, two faults,
  two changes of `config.json`): the invariants `FailuresBounded`,
  `NothingLeft`, `SessionsEarned` and the liveness properties `LockoutEnds`,
  `ServiceReturns`, `SessionsFade`. Two handlers are what it takes to exceed the
  limit; the limiter treats addresses independently, so one is enough.
- **browser** (one tab with two requests in flight, three clicks, one change by
  another tab or device, lost, failed and late requests, batches of up to two
  files, folders two deep named by an ordinary name or `..`): `ListInSync`,
  `PaintedAsListed`, `HitsWhatWasShown`, `StoredAsMeant`. Two slots are every
  order of two answers, or a request left with the server beside one the tab
  waits for; three clicks are an upload, a second request that overlaps with it
  and a third on what either left on screen. The two slots are interchangeable,
  and so are the two files with their contents.

Each passing run also checks the module's type invariant where it is named.

Violations, each against a sentence of the repository (quoted in
`PROJECT.json`):

- **reindex_duplicates**: two concurrent uploads of one content leave two
  messages; reindex has wiped the index when it fails on the second
  (`engine.go:390`). The same happens when a file is uploaded again after
  `index.db` was lost and before reindexing.
- **upgrade_twice**: a process that looked for the owner column before another
  one migrated rebuilds the new table once more and wipes the owners assigned in
  between (`index.go:97`).
- **nuage_inherited**: adoption is not written to the captions, so a reindex
  undoes it (`index.go:171`). Followed by a move to a machine with another first
  profile, that profile then inherits the files.
- **channel_switched**: the engine looks up a row's message id in the channel
  configured now and never reads the row's `channel_id`; after `nuage init` has
  selected another channel, deleting one profile's old file removes whichever
  message has that id there (`engine.go:335`).

## Related behaviours

Seen in the models and not given a run of their own:

- Two renamings of one file may leave the caption with the name that lost in the
  index (`engine.go:314`); the comment at 291-293 wants the two to agree. A
  `backfill-captions` that listed the rows before a renaming puts the old name
  back into the caption (`engine.go:419`).
- A renaming whose row cannot be read again is answered with an error although
  the name has changed (`engine.go:307-310`); the tab shows the old name until
  it asks for a list.
- A request the tab has given up on, or that was in flight when the page was
  loaded again, may take effect after the list the tab has asked for since
  (`app.js:362`, `app.js:442`); the tab does not ask again by itself.
- An address that was locked out may try again at once after a restart, because
  the limiter is in memory only (`auth.go:49`).
- After a deletion cut short between message and row, an upload of the same
  content is answered with the dangling row and nothing is stored
  (`engine.go:140-143`).
- `user add` cut short between saving and adopting leaves files that no later
  `user add` assigns, since another profile is then no longer the first
  (`user.go:77`; the comment at 63-65 promises them to the first profile).
- A message deleted while reindex holds it in a fetched page comes back as a row
  without a document.
- Two terminals that both create a first profile, or an `auth` that saves an
  older configuration, overwrite each other's profiles. `SomeProfileStays` is
  therefore stated for `user add` and `user rm` only.
- An interrupt between the truncation of `config.json` and the write leaves an
  empty file, and with it no profile (`config.go:142`).
- Migration drops the old table and with it its entry in `sqlite_sequence`, so
  numbering goes on from the highest id copied, not from "the highest id it has
  ever seen" (`index.go:92-95`); `Migrate` does the same.
- `New` waits for ever when `client.Run` returns before it has called the
  callback, because only the callback sends on `ready` (`engine.go:84`). The
  state is called `Hung`, and `ServiceReturns` excepts it.
- The client may end while the server goes on serving; nobody looks at `done`
  before `Close` (`engine.go:79`). `ConnectFaulty` lets it.
- An answer to a renaming or deletion whose row was drawn again since the click
  changes the list but not the screen, or neither (`app.js:301`); the history
  variable `unpainted` marks exactly these cases.
- The list is compared with 401 only; the body of any other error becomes
  `allRecords`, and later handlers throw on it (`app.js:120`).
- A list answered late, after a logout, shows the app view again.
- A folder typed as `..` or `.` is shown as a folder, but what is dropped into
  it is stored where the path means, so the folder stays empty on screen.

## Fairness

`WalkEnds` assumes weak fairness of the command's own steps: a running process
is scheduled and its calls return. Nothing is assumed of requests. The walk ends
although messages are added because it pages towards older ids from an offset
fixed when the first page is fetched.

`serving` assumes weak fairness of three things. `Restart`: the unit file says
`Restart=on-failure`, and a process that is scheduled takes its next step.
`Connect`: the client and Telegram answer in the end; refusals are faults of
their own, bounded by `MaxFaults`, and not fair. `Time`: the clock goes on.
`LockoutEnds` and `SessionsFade` rest on `Time`, `ServiceReturns` on the other
two. No browser, user or administrator is assumed to do anything. `LockoutEnds`
holds without such an assumption because attempts that are refused are not
recorded, and `SessionsFade` because a token is never renewed.

`browser` has safety properties only: every request may be lost.

## Bounds

`MaxRequests`, `MaxCommands`, `MaxLosses`, `MaxChanges`, `MaxMoves`,
`MaxSwitches`, `MaxClicks`, `MaxOthers`, `MaxFaults` and `MaxEdits` count what
is begun; they appear in the guards of the actions that begin something and
nowhere else. `MaxDepth` bounds the folders a user opens. `MaxAttempts`,
`Window` and `TTL` are the program's own constants, made small. Symmetry is used
for sets whose members no definition of the run tells apart, and never for
liveness. Deadlock is checked in every run: the specifications stutter
explicitly where the bounds are used up.

## Proofs

`EngineProofs` proves for `Engine!Spec`, for any number of profiles, contents,
names, slots and requests, with and without failures:

- `TypeCorrect`: `TypeOK`;
- `FilesKept`: `NoFileLost`;
- `ContentServed`: `ServedContent`;
- `OwnersIsolated`: `OthersUntouched`;

and `EngineStoreProofs` proves `Refinement`: the table implements `FileStore`.

`MaintenanceProofs` proves for `Maintenance!MaintenanceSpec`, with requests and
commands in any order, cut short anywhere, for any page size and any losses of
the index:

- `AllTypesCorrect`: `AllTypeOK`;
- `CaptionsAreTruthful`: `CaptionsTruthful`;
- `ContentServedOnline`: `ServedContent`;
- `RebuildsExactly`: `RebuildExact`, which itself speaks of commands that run
  while no request does (`Exclusive`);
- `FilesReachable`: `RowsReachable`, if commands run alone (`Exclusive`). Beside
  requests it is false: a message deleted while reindex holds it in a fetched
  page comes back as a row (see above);
- `RowsComeBack`: `RowsRecovered`, and `IndexMirrorsChannel`: `IndexMirrored`,
  if besides nothing fails (`~MayFail`) and requests do not overlap
  (`OneAtATime`). These are the switches of the run **maintenance_sequential**.
  Without them both are false: an upload cut short leaves a message without a
  row, a renaming cut short or overtaken leaves the old name in the caption.

`NuageProofs` proves for `Nuage!NuageSpec`, the whole installation:

- `InstallationTypesCorrect`: `InstallationTypeOK`;
- `UploadsStayOwn`: `OwnUploadsOnly`.

`UpgradeProofs`, with the lemmas about terminals in `ProfilesProofs`, proves for
`Upgrade!UpgradeSpec`, for any number of terminals, openers, profiles and old
files, with and without interruptions:

- `UpgradeTypeCorrect`: `UpgradeTypeOK`;
- `InheritanceComplete`: `InheritsAllOrNothing`;
- `FilesSurviveUpgrade`: `FilesSurvive`;
- `LastProfileStays`: `SomeProfileStays`, if `auth` and `init` are not run again
  (`~Resetup`; with them it is false, see above). Interruptions are allowed: the
  theorem says in which steps they, and saves that overlap, lose the file.

`ServingProofs` proves for `Serving!ServingSpec`, for any number of browsers,
addresses, handlers, faults and edits:

- `ServingIsTyped`: `ServingTypeOK`;
- `NothingIsLeft`: `NothingLeft`;
- `FailuresAreBounded`: `FailuresBounded`;
- `SessionsAreEarned`: `SessionsEarned`.

`BrowserProofs` proves for `Browser!BrowserSpec`, for any number of requests in
flight or left with the server, clicks and other devices:

- `BrowserIsTyped`: `BrowserTypeOK`, which types list, screen, requests and
  answers as well: every id in them was assigned at some time, every record has
  a path and a name, every answer fits the request in its slot;
- `ClicksHitTheirFile`: `HitsWhatWasShown`;
- `ScreenShowsList`: `PaintedAsListed`;
- `TabKnowsItsFiles`: `ListInSync`.

Assumptions: the named ASSUMEs of the modules (no profile is called `""`; bounds
are natural numbers, switches Booleans; the old files are finitely many and
there is a path; what is uploaded into a folder a user can open has a path in
`Paths`), evaluated by TLC in the runs.

None of the engine's properties is inductive, because requests act on what they
read earlier. `IInv` in `EngineInvariant` adds what ties those local variables
to the stores: rows have distinct messages (`RowsOwnMessages`) that hold their
content (`RowsMatchDocuments`); an upload between sending and recording is alone
with its message (`InsertInv`); an id held by a rename or delete still belongs
to the profile it was checked for, if the row still exists (`HeldRow`, which
rests on ids never being reused); a message id taken from a row belongs to no
upload in flight (`HeldMessage`); the caption a rename is about to write differs
from its row at most in the name (`EditInv`); the message a delete is about to
remove is that of its row, which is in `deleting` (`DeleteInv`); what a download
has read so far is about one content (`ReadInv`). The proof takes one lemma per
action and per group of conjuncts it can disturb. `OwnersIsolated` follows from
the invariant by cases on the acting request, and `Refinement` from the
uniqueness of `(owner, hash)` in the table.

Reindexing breaks most of `IInv`: rows come back for messages that are being
deleted, under other ids than requests hold. What survives are claims.
`TruthInv` in `MaintenanceProofs` says that every pair of a message id and a
hash that anybody holds (a row, a request, the page of the walk, the listing of
backfill-captions, a caption) is true of the message if it is still there.
Message ids are never reused and documents never change, so a true claim stays
true, and every row, caption and answer is made from one. `OwnersInv` in
`NuageProofs` is the same argument about owners: every pair of a message id and
an owner that anybody holds names the profile that uploaded the message, unless
nobody in particular did. It outlives messages, indexes and servers; adoption
keeps it because it changes rows without an owner only.

In `Upgrade` the type invariant carries most of the weight: it bounds the ids by
`lastId`, which is what keeps a migrated table from taking an old id for a new
row, and it says who may inherit. `LastProfileStays` needs `SavesSomebody`
besides: whatever a command is about to save has a profile in it, and the
profiles are finitely many, so that the guard of `user rm` means something.

What a reindex recovers is another matter: it compares what a walk has done with
what the channel holds, which only makes sense while nothing else runs.
`RebuildInv` says that a walk is alone and that the rows are at any time exactly
those of the captioned messages it has handled, all that are newer than its
offset and not in the rest of its page. It rests on `PageIsNewest`: a page
leaves out nothing in its range, and is empty only at the end of the channel.

`ReachInv` is what `IInv` becomes with commands that run alone. A row that is
not in `deleting` has its message, which is enough only because no two rows
share one, an upload between sending and recording is alone with its message
(`UploadAlone`), and the message a delete is about to remove is that of its own
row and of no other (`DeleteHeld`). A reindex that was cut short leaves fewer
rows, each with a message; `RebuildInv` provides that for the walk itself.

`MirrorInv` relates four things that change at different times: rows, captions,
the history `had` and the one request in progress. A row's caption gives the row
back, unless a renaming is on its way to write it (`RowsMirrored`); what was
lost is given back by its caption or has a row again, which may have been
renamed since (`HadKept`); no caption is without a row in the index, in `had` or
about to be inserted (`CaptionsHeld`); the request in progress agrees with the
stores (`SlotsMirrored`). The proof needs that the request is the only one: each
step of another one would have to be one of its own. It also showed that `had`
has to keep one row per message: with every row ever lost in it `RowsRecovered`
was false, after a file was recovered, renamed and lost again.

`ConnectionInv` says how far the client is for every state of `New` and `Close`:
an error in `ready` that it is returning or has returned, so that `New` has to
wait for `done`; a value in `done` that it has returned, one in `ready` that
`New` is still there to take it, and after the value in `done` is taken none
follows. `SessionInv` says that a token is no younger than the latest right
password of its profile, which logins in progress, restarts and time keep.

`BInv` in `BrowserProofs` says that whatever id the tab has ever learnt (from a
list that arrived, a list still on its way, a row on screen, a request in flight
or left with the server) still denotes the file it was learnt for: the row with
that id, if there is one, has the path it was listed with. It is inductive
because ids are never reused and a renaming does not change the path. The owner
need not be remembered, since the server checks it when the request arrives.

`PaintInv` adds to `PaintedAsListed` that a row held since the click is on
screen as long as its file is listed (`RowsHeld`), and that lists, on their way
or arrived, are lists. Drawing a list again after one record was renamed or
taken out is then the same as changing or removing the one row
(`RenderedRenaming`, `RenderedWithout`), which is what the handlers do.

`SyncInv` says what the tab can rely on. A request is left with the server only
while `sync` is `unknown`, and no list that is asked for beside it makes it
anything else. While `sync` is `asked`, only lists and logins are in flight,
every list is that of the cookie, and its answer is what the server would answer
now (`AskedInv`). While it is `known`, the list in the tab differs from the
server's only in what requests in flight account for: a deletion answered, an
upload begun, a renaming done and not yet read (`UpToDate`). Requests that
overlap are about different files (`Apart`), and a file whose deletion was
answered is gone for good (`DeletedGone`). `ListInSync` is the case that nothing
is in flight.

`BoundInv` says of the limiter that recorded failures and attempts in progress
together stay within the limit and the other handlers. Letting an attempt in
needs room below the limit; a failure moves one from the second number to the
first; time, success and pruning only lower the first. That pruning does
(`KeptMonotone`: growing older keeps no more entries; `KeptTurn`: a new failure
adds one) is an induction along the loop of `prune`, from the least length that
could be a counterexample (`Along`), since an induction theorem cannot be cited
here.

The least and greatest message of a page (`MinIsLeast`, `MaxIsGreatest`) exist
by well-founded induction over the naturals, cited from the library.

Model-checked only: `StoredAsMeant`, which compares two ways of reading a path
of any length (two folds that keep a stack, one after the other, and counting),
an induction over sequences that has not been done; and the liveness properties
`WalkEnds`, `LockoutEnds`, `ServiceReturns` and `SessionsFade`, since fairness
and ENABLED are outside the prover. Every other property of a passing run is a
theorem. No module uses RECURSIVE; where code loops, the model has a fold or, in
`Kept`, a recursive function.

## Not modelled

- Listing order, MIME types, JSON and multipart parsing, password hashing,
  cookie attributes, part-wise transfer (an upload or download of the bytes is
  one step of the channel), log output.
- Concurrent writers to one SQLite file from several processes wait for each
  other or fail, which is a step or `Fail`. `config.json` is assumed to exist.
  A document that is not Nuage's has the caption `NoMeta`.
- Staging of uploads: the file is hashed and then opened again, so a source
  that changes in between is recorded under the first hash. A request holds one
  content for both.
- `sw.js`: with one version of the server there is nothing a stale shell could
  disagree with.
- The prompts of `nuage auth` and the gotd client; in `app.js` the lightbox, the
  highlighting of the drop zone and the progress display.

## Plan

1. `StoredAsMeant` along the segments of a path: the stack of `CleanRooted` after
   each prefix is what `Meant` keeps of that prefix.
2. `RowsReachable` with commands beside requests, for the messages that no
   deletion in flight and no page of a walk names.
3. Staging of uploads: the source read twice, the temporary file removed.
4. Two tabs of one browser instead of one tab and a cookie that changes.
