# A TLA+ development of PlotPop

PlotPop is a workspace for producing serialised short drama. What exists of it today is
a web application (Next.js, `apps/web`), an api (Hono, `apps/api`) over PostgreSQL and an
object store, a worker with a health endpoint, and a command-line experiment
(`scripts/research`) that buys video generations from a provider and decides whether the
product can be built on them. This directory holds the specifications of the parts that
keep state and can be interrupted, raced or repeated, the TLC runs that check them on
small instances, and proofs that hold for every instance. All paths below are relative to
the repository root.

- `PROJECT.json` lists the components, the runs with their properties, for every property
  a mutated definition that breaks it, the source lines every definition stands for, the
  hazards the properties are aimed at, and the proved theorems.
- To check a run: `tlc -config characters.cfg MCCharacters.tla`. To check the proofs of a
  module: `tlapm CharactersProofs.tla`.

## 1. Inventory

### The parts and how they interact

A browser tab talks to the api through typed calls that can fail or whose answers can be
lost. It writes the bytes of an image straight to the object store, with a url the api
signed. Request handlers of the api run concurrently and share nothing but PostgreSQL (at
READ COMMITTED, so each *statement* of a transaction sees its own snapshot) and the
object store. Server Components read the page again when `router.refresh()` is called;
client components keep state over such a refresh, and their handlers keep what the render
they were created in had closed over. Release steps run migrations against the same
database, several at a time when several replicas start. The research runner is a
separate process, alone with its append-only log and the provider.

| Component | State | Operations | What is hard |
| --- | --- | --- | --- |
| Character history (`packages/db/src/characters.ts`, `apps/api/src/routes/characters.ts`) | `character` with a revision, append-only `character_version`, the assets each version pins in order | list the cast, read a history, create, append a version | conditional claim under a row lock, several statements in several snapshots, roll-back after the claim |
| Assets (`packages/db/src/assets.ts`, `apps/api/src/routes/assets.ts`, `storage.ts`) | `asset` row (pending, ready, rejected), the object, the signed url | reserve and sign, upload, confirm | the store is read between two statements; confirmations race and repeat; the url outlives the confirmation |
| Browser upload (`apps/web/lib/asset-upload.ts`) | one call in progress, the chosen file | ticket, PUT, confirm | each call may take effect and look failed |
| Image field (`apps/web/components/reference-image-field.tsx`) | the list its host holds | choose, add, remove | the handler closes over the list of an older render |
| Character row and its history, create form, the page of a series (`apps/web/components/character-row.tsx`, `character-create-form.tsx`, `series-detail.tsx`, `app/series/[seriesId]`) | text, images, pending, the history panel; the revision and version of the props; the page's last read | open, type, submit, cancel, open and close the history, create, refresh, reload | text and revision come from different renders; reads of the history overlap; a refresh any of them asks for reaches all; a lost call disables its form |
| Workspace provisioning (`packages/db/src/workspaces.ts`, `apps/api/src/auth-service.ts`, `routes/workspaces.ts`) | user, personal workspace, credit account, member | sign-up hook, first read, list | the hook runs after the user row committed and may fail; it races first reads |
| Migrations (`packages/db/src/migrations.ts`) | schema, ledger, advisory lock | one run | concurrent releases with different files, failures and crashes in the middle |
| Research runner (`scripts/research/src/runner`, `records`, `failures.ts`, `providers`) | the log, the spend rebuilt from it, tasks at the provider | decide, buy, poll, append, interrupt, resume | a task is paid for before it is on record |
| Series (`packages/db/src/series.ts`, `routes/series.ts`) | name, revision | create, list, conditional rename | as the character claim; why an update matched nothing is read by a second statement |
| Series library (`apps/web/components/series-row.tsx`, `series-create-form.tsx`, `app/series/page.tsx`) | editing, name, pending, the page's last read | rename, create, reload, refresh | a refresh that read before a rename is shown after it; text and revision come from different renders |
| Readiness (`packages/observability/src/readiness.ts`, `probes.ts`, `apps/api/src/app.ts`, `apps/worker`) | one socket and one timer per probe of a report | report: connect, ask, read, settle | an open socket is no answer; a probe races its timer and the other probes; services change while they are probed |
| Review (`scripts/research/src/review`, `cli/review.ts`) | scorecards, the un-blinding key | build a packet, file a card, score | files of several builds mix, the key is written last; thresholds over few observations |
| Test set (`scripts/research/src/testset`) | thirty frozen shots | parse | two orders (list and rank) the gates and the sequence questions each use one of |
| Economics and percentiles (`scripts/research/src/stats`) | none | report on the log | must say of a run what the gates say |
| Creation wizard, episode studio | step index, selected shot | next, back, select | nothing concurrent |
| Sign-up and sign-in (`apps/web/components/auth/credential-form.tsx`, `lib/api-server.ts`, `apps/api/src/middleware/session.ts`) | pending, error, the session in the browser | submit, switch forms, follow links, redirect, read the library | the account outlives a sign-up that looks failed; a form that was left still signs in; the library takes two reads, and either may throw |
| Config, contracts, logger, ui, pages | none of their own, or kept by a library | | |

The outbox, the queues, the credit ledger and the generation pipeline are decided in
`docs/adr` and planned in `docs/implementation-plan.md`; no code exists, so there is
nothing to translate.

### What makes each part correct

- **Character history**: no version is appended by somebody who had not read the one it
  follows; revisions count versions; every image pinned is usable and of the workspace;
  what several snapshots return is still one history; requests end.
- **Assets**: an asset is settled once, to what its bytes were; every answer about it
  agrees with that; a refusal is deserved.
- **Browser**: an id in a form is the file that was chosen; a submitted list is one the
  server accepts; nobody overwrites what they have not seen, unless their page was read
  again under an open form; the history is what is behind the version on screen; what was
  saved appears, or its form says why not.
- **Provisioning and sign-in**: one complete home per user, and no way of failing that locks a
  creator out of it.
- **Migrations**: ledger and schema are one history, whatever stops where.
- **Runner**: bounded overrun of the cap, no purchase that is not due, every task
  accounted for, the log trusted or nothing bought.
- **Readiness**: a dependency is up because it spoke, down because of its own trouble, and
  the report always comes.
- **Review**: a run is passed only if its own clips earned it; the gates are what the
  research document defines; the two reports on one run agree.

## 2. Modules

| Module | Models | State and actions |
| --- | --- | --- |
| `Characters` | the cast | One action per SQL statement. `revision`, `home`, `version` are the committed tables; `draft[c]` is what the transaction of request `c` has written, invisible until `Commit`; `rowLock` is the lock of a character row. Requests: `GetCast` `ListRows` `ListImages`; `GetHistory` `HistoryRows` `HistoryImages`; `PostCharacter` `InsertVersion` `Pin` `Commit`; `PostVersion` `Claim` (waits for the lock, re-evaluates its condition on the row that survived) `Classify` `ReadLatest` `InsertVersion` `Pin` `Commit`. `Crash` rolls back; `SettleAsset` is the other component at work |
| `VersionHistory` | what the cast promises | one history per character, extended only at its end by somebody who had read to the end |
| `Assets` | assets and the store | `PostAsset` `Presign` (urls may be signed and never used), `PutObject`, `ExpireUrl`, `PostConfirmation` `Inspect` `Decide` `MarkRejected` `MarkReady` `Reread`, `Crash` |
| `AssetLifecycle` | what an asset promises | reserved once, settled once, to bytes that fit |
| `AssetUpload` | `uploadAsset`, composed with `Assets` | `Choose` `ReserveAsset` `ReceiveTicket` `PutFile` `ConfirmAsset` `ReceiveConfirmation` `LoseCall` `ApiDies` |
| `ReferenceImageField` | the list of images and the upload closures | `ChooseFile` `UploadEnds` `RemoveImage` `Unmount`; extended by the row and the form that hold one |
| `CharacterRow` | a row of the cast with the field in its editor, over a server reduced to the promise of `Characters` | editor: `StartEditing` `StopEditing` `RowFieldStep` `Submit` `Serve` `SaveRefused` `Saved`; history: `OpenHistory` `CloseHistory` `ServeHistory` `HistoryAnswers`; `OthersAppend` is another author |
| `CharacterCreateForm` | the form for a new character with its field | `FormFieldStep` `CreateSubmit` `ServeCreate` (an error answer does not mean that nothing was created) `Created` `CreateFailed` |
| `CastPage` | the page that holds the rows and the form | their steps, each with what it asks of the page: `SaveEnds` `Reload` `CreateEnds` call `Refresh`; `ReadPage` `ShowPage` (one refresh in flight, one remembered; a read that throws takes the page off the screen); `ReloadTab` after that or a lost call |
| `Workspaces` | sign-up, the reads of the workspace routes, the provisioning transaction | `SignUp` `GetCurrent` `GetList` `GetWorkspace` `Upsert` (waits on the partial unique index) `AddAccount` `AddMember` `Commit` `Fail` |
| `SignIn` | the credential forms, the session, the links from the landing page on and the library page with its two reads, composed with `Workspaces` | `SubmitSignUp` `SubmitSignIn` `Accepted` (to the landing page) `Refused` `Dropped` `Lose` `SwitchMode` `Reload`; `FollowLink` (landing, prototype home, library); `Redirect` `ReadCurrent` `ReadSeries` `ShowLibrary` `ReadThrows` `ReadIsLost`; `OtherRead`. A form that is left leaves its call running. An api that dies over a call is an error answer (of the proxy) or a call that rejects |
| `HomeOnce` | what provisioning promises | each user is given one home, once |
| `Migrations` | concurrent release steps | `Lock` `ReadSource` `NextSource` `SkipRecorded` `RefuseChanged` `RefuseOutOfOrder` `Execute` `Commit` `Fail` `Die`; however a run ends, its unlock may not arrive, and the lock goes when its session does (`Disconnect`) |
| `ReleaseTurns` | what release steps promise | they take turns: each applies the next files of its release and leaves with an outcome there is a reason for |
| `SeriesApi` | series | `CreateSeries`, `ListSeriesForWorkspace` (a read), and `renameSeries` as `Claim` `Classify` `CommitRename` `FailRename`. The revision stands for the name, because one statement writes both |
| `SeriesRow` | the library page in several tabs, over `SeriesApi` | `StartEditing` `StopEditing` `Submit` `Serve` `SubmitEnds` `Reload` of a row; `CreateSubmit`; `ReadPage` `ReadThrows` `ShowPage` (one refresh in flight, one remembered); `ReloadTab` after a read that threw or a lost call |
| `TestSet` | the schema of the test set and the one set there is | operators: `Accepted` (ids, ascending ranks, who is in frame, coverage) and the constant `MidnightNoodleRun`, thirty shots |
| `Lists` | `filter` and `sort` of JavaScript arrays, which the three modules below are built on | operators: `Kept`, `Sorted` (stable, as places computed from the keys) |
| `Gates` | `gates.ts`, and what `scores.ts` refuses, over the set | operators over cards and a key: `Refused`, `Miscalibrated`, `Passed`, `GateOutcomes`, `Verdict` |
| `Economics` | `economics.ts`, `percentiles.ts` | operators over the log: resolved and first-pass shots, accepted takes, `Percentile` |
| `Review` | the files of a review | `Generate` (the run goes on), `Build`, `BuildDies`, `FillCard`, `FillSequenceCard`; `review score` only reads, so it is the operator `Verdict` evaluated in every state |
| `ExperimentRun` | the paid run over the log, under any environment `config.ts` accepts | `Start` `StartUnreadable` `Finish` `Skip` `StopAtCap` `Begin` `Submit` `SubmitFails` `PollFails` `PollPastDeadline` `PollFindsSuccess` `Deliver` `DeliveryRefused` `DeliverNothing` `Settle` `Interrupt`; operators for what is pure: `ClassOf` and `Disposition` of a failure, `Usable` and `Estimate` of an environment, `Measurable` and `Quantity` of a render |
| `ShotAttempts` | what a run leaves for the readers of its log | a shot is tried again, a bounded number of times, only while all it came to is worth another try |
| `Readiness` | the reports of the api and the worker | `Request` `Connect` `Data` `Break` `Timeout` `Respond`; `Change` is a service that starts, stops, hangs or is replaced |

Each `MC...` module instantiates one of these for TLC. The refinement mappings
(`Abstract == INSTANCE ... WITH`) stand at the end of `Characters`, `Assets`, `Workspaces`,
`Migrations` and `ExperimentRun`, because runs and proofs use them. Each `...Proofs` module holds theorems
(section 4): `CharactersProofs`, `AssetsProofs` (with the browser), `WorkspacesProofs` (with
the sign-in forms), `DeploymentProofs` (the release steps and the readiness of what they
bring up; `Readiness` names its specification `ReadySpec` so that one module can speak of
both), `ExperimentRunProofs`, `SeriesProofs`, `CastPageProofs` and `ReviewProofs`. Definitions named `X_Variant`, with a
comment that begins "Mutant", are not part of a model: they are plausible bugs in `X`,
which the run of the property named in `PROJECT.json` must notice.

Abstractions all modules share: texts, names and images are model values; validation of
payloads is kept where it decides something (the list of images, the size of a file) and
dropped where it only words an error; ids are never reused; the clock is left out, so an
order by creation time is not modelled; PostgreSQL, the S3 client and better-auth are
modelled by what the code relies on (row locks with a re-evaluated condition, the wait of
an upsert, transactional DDL, an advisory lock that a lost session gives back).

## 3. Runs

| Run | Question | Instance and why it is enough |
| --- | --- | --- |
| `characters` | Does the cast keep its promise when requests interleave statement by statement and die? | Two callers of whom one is a member of two workspaces, one character (histories never meet), one image, three versions: enough for a stale writer, a rolled-back claim and a third version over both |
| `assets` | Do racing, repeated and late confirmations settle an asset once and tell the truth? | Two callers, two uploads of one asset with bytes of every kind |
| `assets_bytes` | Does "the bytes cannot have changed" hold? (no) | the same, one caller |
| `asset_upload` | What does the browser know after a call that failed? | Two tabs of one member, two assets, files that fit, lie about their type, are empty or too large |
| `cast_page` | When can an editor overwrite? Are the lists of images what was meant? Is the history whole, and does what was saved appear? | one row and one create form, two images, three versions, three creations. Five instances in one run (`MCBounds`), each with room for one dance: images in a row, a history over saves, two creations with images, three of which two are twins, a creation beside an open editor. A second tab would be a second author, and is one: `OthersAppend` |
| `workspaces` | One complete home per user, and does everybody get to theirs? | two tabs, of two creators or of one, two requests at the api, one failure or lost call, three ids (one to be lost in a roll-back) |
| `migrations` | Is the ledger the database whatever stops where, and do the steps take turns? | four release steps: two releases in a row, one from a branch that skipped a number, one with an edited file; two sources; two failures or deaths |
| `experiment` | How far can a resumed run overspend, buy what is not due or forget? Is its log one history of each shot? | two shots, two attempts each, two starts, two interruptions, under five environments: four billable units at one price and cap, and a dry run (two more are refused). Four renders: of the length asked for, billed beyond every estimate, longer than asked for without a frame count, and without a length. Failures of each disposition, and a refusal that comes as a status otherwise retried |
| `experiment_cap` | Is the cap ever crossed? (yes) | the same |
| `series` | Who may a rename overwrite, is a conflict real, does a saved name appear? | two tabs of one workspace, one series (rows never meet), renames up to revision 3: a stale writer, a second conflict, and a refresh that overlaps each |
| `review` | Can a run be passed by mistake? Are the gates what they are defined to be? Do the reports agree? | the frozen thirty shots, and a copy out of order that the schema refuses; three raters or two; a paid trial of two shots before the whole set. The ways the attempts may go and the raters may judge stand around the thresholds of thirty: seven late shots (as many as Gate A allows) or eight, three in a row, five of the nine on the rooftop, one that never comes, and dissent on six clips (a fifth) or seven. The shuffle is a rotation, so every code moves when the log grows |
| `readiness` | Is a dependency up because it spoke and down because of itself, and does the report come? | one report over one dependency of each kind of probe, asked again and again while the services change (five ways each address may behave) |

Bounds are constants of the modules, each with the word "bound" at its declaration:
`MaxVersion` (versions of a character), `MaxRevision` (names of a series), `MaxPuts` (uploads of an object),
`MaxFailures` (failed statements and dead processes), `MaxStarts` and `MaxInterrupts`
(runs of the experiment), and the records `Bounds` of the page of a series. `MaxSize` and the
maximum of images are constants of the code itself. Deadlock is not checked where the
system really stops: migrations end, and so does a bounded experiment. Symmetry
is used only in runs without a liveness property.

The two runs that end in a counterexample each show a sentence of the repository to be
too strong:

- `assets_bytes`: the confirmation route answers a repeated request from the row because
  "the bytes cannot have changed", but the signed url stays valid after the confirmation
  and the same client can put other bytes of the same length under the same key.
- `experiment_cap`: the spend cap is compared with an estimate and the price is known
  later. `OverrunIsOneAttempt` shows how far it can go: one attempt's difference.

Several more behaviours are the stated exception of a property that holds:

- A row (of a character or a series) sends the revision of its newest props together with
  a text seeded from older ones, so a re-read of the page between the two, which any other
  row or form of the page may ask for, lets an author replace a version they have not
  seen. `OverwriteNeedsRefresh`: nothing else does.
- An upload appends to the list of the render it began in. If the list was shortened,
  extended or started over meanwhile, what was removed is back, or what was added is gone.
  `ListIsDeliberate` bounds the damage image by image: the images that came or went
  under a running upload may be wrong, every other one is there exactly if its author
  wants it, before and after, and none is there twice.
- A second character of one create form may have photographs of the first in two ways.
  A creation may be answered with an error although it was committed (the urls of its
  images are signed after the commit, `routes/characters.ts:169`, and the proxy answers
  for an api that died): the form keeps its images and is sent again, which makes a twin.
  And an upload that was started before the form was submitted and ends after it was
  emptied brings its old list along. `InheritanceIsExplained`: there is no third way, a
  form that was once told of a success makes no more twins of what it held, and of an
  upload only the images of the list it closed over come back.
- The history of a row leaves out "the current version", which is the one of the render
  that asked (`character-row.tsx:218-221`). Once the page is re-read under an open history,
  the version that was on screen is in neither, and one that is newer than the row may be
  listed as earlier. `HistoryGapsNeedRefresh`: whatever is closed, opened and answered
  late, nothing else leaves a gap.
- A request that rejects (no network) is caught by no handler: its form stays disabled
  (`character-row.tsx:172`, `character-create-form.tsx:90`, `credential-form.tsx:84`,
  `series-row.tsx:80`) until the page is loaded again. `SavesEnd` has this as one of its
  ends, and `CreatorsArrive` assumes the reload.
- A re-read of a page throws at any answer but those it expects (`app/series/page.tsx:36`,
  `51`, `[seriesId]/page.tsx:29`, `42`), and the error boundary replaces the rows and the
  form with all they held. `SavesEnd` and `SavedNameIsComing` have this as one of their
  ends; a call that was under way ends without a page.
- The forms send whoever is in to `/`, a landing page that links to the prototype home
  only, from where the navigation leads to the library. `CreatorsArrive` is about the
  whole way, links and both reads of the library included, and assumes that a creator
  follows the links.
- `packet.ts:53-58` says that a rebuilt packet gives a filled-in card the same clips. It
  does while the log stands still; once more clips were delivered, the same code may be
  another clip, or the card too short. `GatesAreAsDefined` therefore speaks of cards of
  the packet the key describes; a card of an older one can *fail* a run that deserves to
  pass. `PassIsEarned` has no such condition: it can pass none that does not.
- A probe knows PostgreSQL by the first byte of its reply and Redis by a prefix, and the
  probe of a store never reads the body. Another service may pass for one of them (the
  banner of an SSH server begins with S): `UpHasSpoken` counts it as having spoken.
- A clip that ffprobe cannot measure, or a provider that reports zero seconds of compute,
  makes the record invalid (`attempt.ts:29`): the process dies of it with its paid task
  unrecorded, and the next one buys the shot again and may die the same way.
  `TasksAreAccountedFor` counts each such death.

### Fairness

Safety properties assume none, and `series`, `review` and the assets state no other.
`characters`: a handler that was entered runs on (weak fairness; it is an event loop), and
a statement that waits for a row lock gets it in the end (strong fairness; PostgreSQL
queues the waiters of a row, and a process that dies has its transaction rolled back).
`workspaces`: handlers run on; a wait for a row ends because provisioning one user is
finite. The pages run on; and the one assumption about people is made here: a creator
submits the form on screen, follows the link below it when it does not help, loads a
dead page again, and follows the links from the landing page to the library. The link
below the form is modelled for those whom the form keeps waiting or refuses: nobody goes
to and fro for ever without submitting anything. `cast_page`: the api answers or the browser gives up, handlers run on, the
router carries a refresh through; nobody has to type, reload or close anything.
`readiness`: timers fire and the process runs on; nothing is assumed of a dependency.
`migrations`: a started step runs on and closes its connections (`migrate.ts:26`), the
database ends the session of a dead one, and waiters of the advisory lock are queued. `experiment`: the process runs on until it ends or is interrupted, and
the offline provider, which is part of it, answers; nothing is assumed of a real provider,
because every request carries the deadline of its attempt. No fairness is given to
failures, crashes, others who write or urls that expire.

## 4. Proofs

Every safety property that a run finds to hold, invariant, action property or refinement,
is also a theorem for all values of the constants: 55 theorems over 375 lemmas. They stand
in eight modules, each of which extends the module it is about (or the composition of it
with its clients), and each follows the same argument: a strengthening `Inv` of what is to be shown, that it holds initially, that
every action preserves it (one lemma per action, in it one step per conjunct the action
can disturb), and that it implies the property.
`tlapm XProofs.tla` checks a module.

What the proofs assume are the named assumptions about constants, which TLC evaluates on
every run: types of the constants, and that `None` is none of the values it stands beside.
Those that say more: files of one release and source have different versions
(`MigrationsAssumption`), the shots of the test set are distinct and some clip can be
measured (`ExperimentAssumption`), a row and a form are different parts of a page
(`CastPageAssumption`), and in a review a shuffle loses no clip, ranks are natural
numbers and no take of a shot is bought after a delivered one (`ReviewAssumption`: the
last is what `LogIsAHistory` proves of the runner).

### The cast (`CharactersProofs`)

For any callers, workspaces, series, characters, assets, appearances, lists of images and
any `MaxVersion`:

| Theorem | States |
| --- | --- |
| `InvAlways`, `TypeCorrect` | the inductive invariant, `TypeOK` |
| `VersionsFollowRevision` | a character at revision n has exactly the versions 1..n |
| `UpdatesAreNotLost` | whoever appended version n + 1 had read version n |
| `PinsStayUsable` | pinned images are ready and of the workspace of the character |
| `CastReadsAreVersions` | a row of the cast is a version that exists, with its images, though read in two snapshots |
| `UniqueConstraintNeverFires` | the unique constraint behind max + 1 is never the one to refuse |
| `StaleMeansOvertaken` | "stale" is answered only if a later revision was committed (an action property) |
| `CastIsForMembers` | nobody is shown a character of a workspace they are not in |
| `HistoriesAreWhole` | a history answered is the versions 1..n of one character with their images |
| `CastIsAHistory` | the statements implement `VersionHistory` (a refinement) |

The claim about lost updates is not inductive by itself: that a version is right when it
is committed depends on what every statement before has established and nobody could
disturb. `Inv` therefore says, per request and per statement, what is known there
(`RequestOK`, `ClaimOK`, `DraftOK`, `FetchedOK`): between `Claim` and `Commit` the request
holds the row lock, so the revision is still the one it named and its draft is the next
version; a row read for the cast is a version that exists and, since versions never
change, goes on existing. `CommitInv` is the case where the tables change. `TablesKept`,
`CallerKept` and `ViewKept` say once what a step of one request leaves true of the others.

The last three theorems are invariants relative to `Inv`. `RowsStand` says what every step
leaves of committed rows: they grow at their end and stay in their series. So a scope
that the first statement of a request established still holds when a later one reads
(`ScopeOK`), and the rows a history was read from are still the versions 1..n when their
images are joined to them (`HistoryOK`, `JoinedHistory`). The refinement maps a commit to
the extension of one history (`CommitExtends`), which its author wrote with all of it in
view, and every other step to a stutter.

### Assets and their upload (`AssetsProofs`)

For any callers or tabs, workspaces, assets, bodies, declarations and any `MaxPuts`:

| Theorem | States |
| --- | --- |
| `InvAlways`, `TypeCorrect` | the inductive invariant of `Assets`, `TypeOK` |
| `ConfirmationsAnswerTruly` | `AnswersAreTrue` |
| `AssetsAreSettledOnce` | `Assets` implements `AssetLifecycle` |
| `UploadInvAlways` | the inductive invariant of `AssetUpload` |
| `UploadsReportTheirFile` | `OutcomeIsTheFile` |
| `UploadsSettleOnce` | so does `AssetUpload`: storing and forgetting change no row |

A request that has inspected bytes decides by a declaration that does not change, and
knows whether the row is still open only from its own conditional update (`RequestOK`);
a usable row names bytes that fit (`AssetOK`). Whoever lost a race is told of the
row it lost to, which stands for ever (`RowsAdvance`). For the browser two facts are
added: nobody else has the asset a client holds (`OwnAsset`), because tickets are for
fresh rows and a client confirms only what it has put; and where its call stands says what
is stored, declared and read for it (`TicketOK`, `PutOK`, `ConfirmOK`, `ResultOK`). A lost
call leaves its request behind at the api, whose result no longer counts; no new file can
be chosen before it is over.

### Homes (`WorkspacesProofs`)

For any users, requests, ids, tabs and failures:

| Theorem | States |
| --- | --- |
| `ApiInvAlways`, `InvAlways`, `TypeCorrect` | the inductive invariant, of `Workspaces` alone and under `SignIn`, and `TypeOK` |
| `HomesAreWhole` | `WorkspacesAreComplete` |
| `OneHomeIsNamed` | `AnswersNameOneHome` |
| `HomesAreGivenOnce` | `SignIn` over `Workspaces` implements `HomeOnce` |

Completeness is about committed rows, and a commit writes three at once from a draft: the
invariant says what a transaction past its upsert has (`DraftOK`). It holds the lock of
its user, works on that user's home or on one that is nobody's yet, and no two
transactions work on the same id (`DraftsDiffer`). A step of the forms either is a step of
`Workspaces` or leaves its variables alone.

### Release steps (`DeploymentProofs`)

For any release steps, releases, sources, files and failures:

| Theorem | States |
| --- | --- |
| `InvAlways`, `TypeCorrect` | the inductive invariant, `TypeOK` |
| `LedgerIsExecuted` | `LedgerIsTheDatabase` |
| `VersionsAscend` | `AppliedInOrder` |
| `ReleasesReportTruly` | `ReportsAreTrue` |
| `ReleasesTakeTurns` | `Migrations` implements `ReleaseTurns` |

Only the holder of the lock is past the wait for it (`LockOK`), though it may hold it
still when its run is over, and that does not make
what it read true for ever: it reads the ledger of a source once and goes on appending to
it. `LoopOK` says that whatever was recorded since is below what is still to be looked at,
so the comparison with the older reading decides the same. The refinement maps the lock, while its holder is at work
(`AtWork`), to the turn: a commit applies the next file of the release of its holder (`CommitApplies`),
whatever ends a run ends the turn with an outcome that is deserved (`EndLeaves`), and what
is read or compared in between is a stutter.

### Readiness (`DeploymentProofs`)

For any reports at once, any dependencies and any services behind them:
`ReadyInvAlways`, `ReadyTypeCorrect`, `UpWasHeard` (`UpHasSpoken`), `DownHadTrouble`
(`DownIsItsOwn`). The invariant `ProbeOK` follows the socket: a peer that speaks, though
its service may be replaced after the connection, is one that has spoken since the
report was asked for; an answer is what the probes came to (`ReportOK`).

### The experiment (`ExperimentRunProofs`)

For any test set, environments, failures, renders, and any number of processes and
interruptions:

| Theorem | States |
| --- | --- |
| `InvAlways`, `TypeCorrect` | the inductive invariant, `TypeOK` |
| `CapIsPassedOnce` | `OverrunIsOneAttempt` |
| `AttemptsAreCounted` | `NumbersFollowTheLog` |
| `TasksAreNamed` | `TasksAreAccountedFor` |
| `TasksAreBoughtWhenDue` | `PurchasesAreDue` (an action property) |
| `LogIsAHistory` | `ExperimentRun` implements `ShotAttempts` |

A process knows what the log cost and reserved the estimate of the attempt it is in
(`SpendOK`); the attempt is the next of its shot, begun over a log that could be read
(`AttemptOK`); a record that another of its shot follows could be retried (`LogOK`); and
every task but one per attempt under way, per unanswered request and per dead process is
named (`TaskOK`). Sums over the log are recursive functions, whose equations are proved from
the induction principle of the natural numbers, stated there for sets. The refinement reads
the log as a history: what a process appends (`SettleTries`) is the next number of its
shot, after attempts that could all be retried; everything else, the tasks nobody recorded
among it, is a stutter.

### The page of a series (`CastPageProofs`)

For any rows, forms, assets, `MaxImages` and bounds:

| Theorem | States |
| --- | --- |
| `InvAlways` | the inductive invariant, with the types of all variables |
| `ListsAreMeant` | `ListIsDeliberate` |
| `SavesReplaceWhatWasRead` | `OverwriteNeedsRefresh` |
| `PanelsAreWhole` | `HistoryGapsNeedRefresh` |
| `InheritanceHasACause` | `InheritanceIsExplained` |

Three invariants, of which each component has one. `FieldInv`: every list on the page
names nothing twice, and the list and every list an upload closed over are, but for the
images that were crossed, what its author means (`Agrees`, `ListOK`); two uploads of one
field run at once only if one of them outlived the field it was begun in. `RowInv`:
version n of a history names n - 1 (the server made sure), whatever a row shows, saves
from or reads over is a version that exists, and a history that was read reaches the
version it was opened over, so that leaving out that one leaves all behind it. `FormInv`:
what is in the form (`OpenOK`), in its uploads (`PendingOK`) and in the request it awaits
(`SentOK`) is in no character it created before, unless the form has been told of every
one since that it failed, or the image was crossed (`Inherits`, `Past`); an upload itself
brings an asset that is new (`Unseen`). The filter that removes an
image is a recursive function (`Without`), whose result is characterised by `WithoutOne`.

### The series library (`SeriesProofs`)

For any tabs, workspaces, members, series and any `MaxRevision`:

| Theorem | States |
| --- | --- |
| `InvAlways`, `TypeCorrect` | the inductive invariant, `TypeOK` |
| `StaleMeansRenamed` | `ConflictsAreReal` |
| `RenamesReplaceWhatWasRead` | `OverwriteNeedsRefresh` (an action property) |
| `SavedNamesAppear` | `SavedNameIsComing` |

None of the three is inductive. A conflict is real because the classification, a statement
later than the update it explains, can only find a series that the update would have found
too: a row sends only what a page has shown, what was shown was reached by the user, and a
series that exists stays in its workspace with a revision that only grows (`Known`,
`Grows`). A commit lands on the revision that was sent because the lock is held since the
claim (`PatchOK`). A saved name appears because a page that is not asked to be read again
is, in its next state at least, no older than what its rows were told (`PageOK`), unless
a re-read that threw has taken the rows away.

### The review (`ReviewProofs`)

For any test sets of which the schema accepts one (twenty to thirty shots), any raters,
opinions, outcomes of attempts, shuffles, stages of the run and lists of raters:

| Theorem | States |
| --- | --- |
| `InvAlways` | the inductive invariant |
| `PassIsEarnedAlways` | `PassIsEarned` |
| `GatesAreAsDefinedAlways` | `GatesAreAsDefined` |
| `ReportsAgreeAlways` | `ReportsAgree` |

`Inv` says what a file can hold: no attempt is recorded twice and each record is what the
provider said (`Recorded`); the key, and every packet a card was ever handed out for,
was built of the clips that some beginning of today's log had delivered (`PacketsOK`);
a filed card is of such a packet and says what its rater thinks of those clips
(`CardsOK`); where there is a key there is a sequence card (`SequenceCardOK`). It is
preserved because the log only grows, so the clips delivered at any time are a beginning
of those delivered later (`KeptOfLonger`, `DeliveredGoesOn`).

*A pass is earned.* Cards of different builds may lie side by side, and their codes may
name other clips than the key does. The verdict "passed" needs Gate B: every shot is named
by a code that passed. The runner leaves one clip per shot, so a packet has at most as many
codes as there are shots, and one that names them all is of all the clips there will ever
be; the cards have the same codes as each other and no fewer than passed, so they are of
that packet too (`GateBNeedsTheRun`). From there the verdict is about the clips of the run,
and the next argument applies. Without Gate B in the conjunction a mixture could pass.

*The gates are as defined.* Each code of the packet of the run is one clip and each clip
one code (`PacketsList`), so the codes that passed are the shots two thirds of the voters
find publishable (`GatesLookAtTheClips`). What is left is the arithmetic and the loops:
`3 * yes >= 2 * all` and two thirds, the threshold rounded up and three quarters, a fifth
of the codes, more than half of a scene (`ScenesByMajority`), and Gate C's run of
failures, which starts over at each first pass. That loop is shown to reach three exactly
if three consecutive places of the sorted list failed (`RunsOfThree`), the sorted list to
be the list itself because the schema insists on ascending ranks (`StoryOrderIsTheList`),
and three consecutive places to be the shots of an interval of ranks that holds just three
(`ThreeConsecutiveRanks`), which is how `Earned` defines it without any order of a list.

*The reports agree.* The takes Gate D is asked about are found by filtering the shots of
the set, those the costs are counted of by looking at each shot; both come to the one
delivered take of a shot (`SequenceIsOfTakes`). A percentile is the value at a place of
the sorted sample, which is the least one that p% do not exceed whatever the sample
(`RankedValueIsLeast`), with ties and with a place computed by integer division.

The lemmas on `filter` and `sort` are about recursive functions over a list of any
length. The induction they need is stated for a *set* of naturals (`UpTo`: a set that
holds 0 and, with n - 1, n holds all up to m), which needs no operator parameter.

### Only model-checked

- Liveness (`RequestsEnd`, `CreatorsArrive`, `SavesEnd`, `ReportsAnswer` and both
  `RunsEnd`): fairness and ENABLED are out of the prover's reach.
- That `MidnightNoodleRun`, the frozen set, is one the schema accepts, and that the copy
  out of order is not: TLC evaluates both in the initial states of `review`.
- That `bound` values of the runs are large enough is argued in section 3, and for what
  is proved it no longer matters.

`AppliedInOrder` of `Migrations` and `NumbersFollowTheLog` of `ExperimentRun` are proved
and in no run: what they say is part of the promise (`ReleaseTurns`, `ShotAttempts`) that
the run of their module checks step by step.

A property of a run that names several answers of one question is a conjunction of named
parts: `AnswersAreTrue` of `Assets` (`AnswersAgree`, `RefusalIsHonest`), `OutcomeIsTheFile`
of `AssetUpload` (`UploadedIsTheFile`, `UnsupportedIsTheFile`), `ReportsAreTrue` of
`Migrations` (`SuccessMeansMigrated`, `RefusalsAreReal`).

## 5. Not modelled, and why

- Of the series library, the wait of the create form and the validation of names; of the
  review, csv syntax and the seeded generator (any shuffle that depends only on the number
  of clips); of the economics, money and latencies.
- A rename or an edit that is cancelled and opened again while its request is pending is
  closed by the late answer (`series-row.tsx:98`, `character-row.tsx:191`), and a history
  that is closed while it loads is opened again by its answer (`character-row.tsx:219`).
  The steps are in the models; the documents do not say what should happen, and no
  property forbids it.
- Within `Review`, an interruption between the attempts of a shot: a `generate` appends
  the attempts of its shots in one step. `ExperimentRun` is the module that interrupts a
  run there. `review build` is given every rater once (`ReviewAssumption`): with one
  named twice the sequence card would ask them twice, and `scores.ts:238` refuse it.
- The 404 of a confirmation whose row has gone between its two reads
  (`routes/assets.ts:189`): no statement deletes a row.
- Preview urls: `URL.createObjectURL` of an upload that ends after the form is gone is
  never revoked. A leak without a consequence for state.
- The message of a refused sign-up: which code the library answers an address in use with
  is outside of this repository, so only that it refuses is modelled. Wrong passwords,
  sessions that expire and signing out (no page offers it) are left out.
- Sizes, names and urls in the experiment's records, and the parsing of ffprobe's and the
  provider's text: what they come to (a length or none, a class of failure) is modelled.
- A shot that names a character twice counts as one with two in frame
  (`schema.ts`): the operator `Meets` does the same, and the frozen set has none.
- The default run id contains the day (`config.ts:152`): a run resumed after midnight
  without naming it starts over with an empty log. The run id is chosen outside of
  `ExperimentRun`, which is one run.
- `economics.ts` counts what failed attempts were billed into the total, but `run.ts`
  records no usage for a failed attempt, so that share is always zero; sums of money are
  not modelled.
- Reservations whose upload never comes are never collected; no sweep exists.
- The bill of the provider. A failed attempt is recorded with `usage: null`
  (`run.ts:219`, `241`, `261`) whatever was billed for it, so the cap counts what was
  recorded; and a network error or a 5xx of a single poll settles an attempt as retryable
  while the task may go on running (`replicate.ts:170`).
- Creation wizard, episode studio: prototypes over static data, sequential.
- Sessions, proxying, the configuration of the services, logging, the design system:
  stateless, or state that a library keeps.

## 6. Plan

Everything that keeps state and has code is modelled and checked, and every safety
property a run checks is proved. What is worth adding:

1. `Review` over the log of `ExperimentRun` itself. Today `ReviewAssumption` asks of the
   outcomes of a shot what `LogIsAHistory` proves of the log, and a reader compares the two.
2. A packet of several takes per shot. It cannot come about while the runner stops at the
   first delivered take; a change there would take `GateBNeedsTheRun` away, and with it the
   argument that a pass is earned.
