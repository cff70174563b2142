# notes-platform in TLA+

A model of the notes platform (Go server, PostgreSQL, Cloudflare R2, a file
worker), checked with TLC; the safety of all but one of its modules is proved
with TLAPS.  The modules follow the code, not its documentation; `PROJECT.json`
maps every definition to the lines it stands for.

## 1. The system

| Component | State | Operations | Talks to |
|---|---|---|---|
| Admin notes (`internal/handlers/admin_notes.go`, `internal/academic/note_repository.go`, `internal/storage/r2.go`) | `notes` rows; objects in the bucket; locals of each request | Store (one file or a ZIP of images), Update, Archive, Unarchive, DeleteArchived, ReplaceFile, lists | PostgreSQL, R2, audit log |
| Public notes (`public_notes.go`, `public_repository.go`) | `view_count` | view, search, home, galleries, pages of the hierarchy | PostgreSQL (read), link signer |
| File links (`internal/fileproxy`, `workers/file-proxy`) | none; a link carries key and expiry, signed; the shared secret | sign, redeem; the browser caches | browser, R2 |
| Hierarchy administration (`admin_{classes,semesters,subjects,units,chapters}.go` and repositories) | five tables, each row with parent, slug, `is_published` | Create, Update | PostgreSQL, audit log |
| Login rate limiter (`internal/ratelimit`) | a bucket per address, in memory | Allow, cleanup | `POST /admin/login` |
| Owner and admins (`internal/admin`, `cmd/bootstrap-owner`, `cmd/create-owner`, `admin_management.go`) | `admins` rows | OwnerExists, CreateOwner, CreateAdmin, UpdatePassword | PostgreSQL |
| Sessions, login, password change (`admin_auth.go`, `admin_account.go`, `internal/auth`) | session blob, `password_hash` | login, logout, change password | PostgreSQL |
| Audit log (`audit_helper.go`, `internal/audit`) | `admin_audit_logs` | write after a change, paged list | PostgreSQL |
| Dependent selects of the note form (`admin_htmx.go`) | the form in the browser | four lookups | PostgreSQL |
| Server (`internal/server`, `cmd/web/main.go`) | requests under way | routing, 60 s deadline, shutdown in 10 s | all |
| Validation, watermark, rendering, SEO, dashboard, configuration, migrations | none, or external | | |

Requests are goroutines; none of them holds a lock across two calls, and apart
from `CreateOwner` none opens a transaction with more than one statement.  So
between any two remote calls of a request anything may happen: that is where
the hard behaviours are.

* Two stores without a common transaction: a note is a row and an object.
  Calls fail, or take effect and report an error; requests overlap; the server
  stops between two of them.  *A note must never lose its file, an unused
  object must go or have a known cause, what the admin is told and what the
  audit log says must be so.*
* Readers work on what they read earlier: a link outlives the note it was made
  for, a page of several queries sees several snapshots, a list is counted and
  then read.  *Hidden material must disappear in bounded time, a link must work
  until then, a page must be one that made sense at some instant, or be refused.*
* An edit form shows what was read when it was opened and is saved whole, hours
  later perhaps. *A save must not undo what nobody touched, and the audit log
  must tell every state a row was saved in.*
* Races for a unique thing: the one owner, an email, a slug.  *Never two, and
  never nobody because two jobs got in each other's way.*
* A session is a blob, loaded when a request starts and stored whole when its
  response begins, over whatever is there by then; requests of one browser share
  it and their answers come in any order.  *No session may come to belong to
  another admin, an admin must not be told that a password is in force which is
  not, a browser left in peace is signed in as it was told.*
* A form of selects that depend on one another, filled faster than the look-ups
  answer.  *What is sent must be a path that exists.*
* Two programs in two languages that must agree on an encoding, a second and a
  secret.  *A link of the one must work with the other, for as long as it says.*
* Forgetting: the limiter drops buckets. *Nobody may gain from that.*
* Arithmetic at its limits: page numbers, sort orders, expiry in whole seconds.

The hazards, each at its line and with the properties that look after it, are
listed in `PROJECT.json`.

## 2. The modules

| Module | What it models | Correspondence |
|---|---|---|
| `NoteFiles` | the admin note handlers on both stores | `row`, `audit`: the tables; `bucket`: R2; `pc`: the next remote call of a request; `newKey`, `oldKey`, `note`, `op`: locals of the handler; `reply`: what the admin reads. One action per SQL statement or R2 call |
| `NoteCatalog` | what these handlers promise: a catalogue with atomic operations | refined by `NoteFiles` (`ImplementsCatalog`) |
| `NoteReading` | visitors, links and the worker, composed with all of `NoteFiles` | `shown`: places whose hierarchy is published; `vpc`, `viewed`, `link`: a request and its browser; `Redeem`: the worker; `Curate`: edits of the hierarchy, in one step because these pages find a note by one query |
| `NoteFilesProofs` | theorems about `NoteFiles`, that it implements `NoteCatalog`, and about `NoteReading`, whose readers rest on them | |
| `FileProxy` | one file link from the signer through the worker to the browser's cache: tokens and signatures as strings of base64 digits, the worker's steps between two awaits, both clocks, both deployments of the secret | `Sign`: SignedFileURL; `Receive`, `Verify`, `Reply`: fetch of `index.ts`; the pure functions of `index.ts` have operators of their names; `cache`: the browser's copy |
| `FileProxyProofs` | theorems about `FileProxy` | |
| `NoteForm` | the five selects of the note form, htmx and the four look-ups | `options`, `chosen`: the selects; `sent`, `reply`, `queued`: the request htmx has under way for a select, what the server made of it, and whether another is to follow |
| `NoteFormProofs` | theorems about `NoteForm` | |
| `Accounts` | login, logout, change of the password, and the session blob around every request | `store`: the sessions table; `req`: requests with their copy of the blob; `Load` and `Commit`: the two halves of `scs.LoadAndSave`; `Verify`, `Save`, `Renew`, `Destroy`: the statements of the handlers |
| `AccountsProofs` | theorems about `Accounts` | |
| `PublicBrowse` | the pages that walk down the hierarchy, with a query (and a snapshot) per step, while rows are created, renamed, moved, hidden and shown | `Queries` is the list of queries of each page; `FindRow` and `ListRows` run the next one, or meet its error (`Fail`); `Fits` is the schema's foreign keys and UNIQUE constraints |
| `PublicBrowseProofs` | theorems about `PublicBrowse` | |
| `HierarchyAdmin` | the five handlers that administer the hierarchy, and the forms open in browsers meanwhile | one action per statement and per request: `ListParents` and `FindRow` make an edit page, `Update` and `Store` save, `Audit` writes the entry; `options`, `shown`: the page in the browser; `entry`: what RETURNING gave the handler |
| `HierarchyAdminProofs` | theorems about `HierarchyAdmin` | |
| `Paging` | the algorithm shared by the search, the list of notes and the audit log | `Count`, `List`, `Relist` are the statements; `Offset` is Go's 64-bit product |
| `PagingProofs` | theorems about `Paging` | |
| `OwnerSetup` | owner jobs at READ COMMITTED, and CreateAdmin | `inserted`: rows of open transactions; `Waits` and `Clash`: the unique indexes |
| `IPLimiter` | the token buckets with admission, refusal and sweep | `visitors` is the map; credit counts time, a token is `Interval` of it |
| `LoginQuota` | what the limiter promises: an account that is never forgotten | refined by `IPLimiter` (`ImplementsQuota`) |
| `AdminGuardProofs` | theorems about `OwnerSetup` and `IPLimiter`, which share no state | |
| `MC*` | instances for TLC | |

Definitions named `X_Something` right before `X` are faulty variants of `X`
(a forgotten guard, a skipped clean-up): with one of them in the place of `X`,
TLC must find a property violated, which shows that the property can fail.

### Abstractions

* A storage key is a value that is never drawn twice, as it contains a fresh
  uuid. A title is reduced to its `Place`, the pair of chapter and slug that
  the table keeps unique. File contents, descriptions and names are left out.
* Validation of forms, files, ZIPs and PDFs is the choice between `Reject` and
  going on.
* Every call may fail without effect (`"db"`, `"r2"`), or take effect and
  report an error (`"dbAck"`, `"r2Ack"`). A deadline that runs out is such a
  failure: clean-up uses the same context, so it may fail too. `"crash"` stops
  a request anywhere; nothing is resumed after a restart, so later requests
  simply find what was left, and each run includes requests that start after it.
* `NoteReading` counts time in units in which the server's and the worker's
  clock agree, so `LinksDie` is about the worker and exact clocks. `FileProxy`
  has the detail of a single link instead of the notes: ticks that are fractions
  of a second, clocks apart, and the browser's copy.
* In `FileProxy` the JSON of a payload is some string of bytes that tells key and
  expiry (`Json`, which the instance for TLC makes of the bytes of the key and a
  digit), and HMAC is the pair of secret and token: no two pairs collide. File
  name, content disposition and the headers other than the cache's are left out,
  as is the refusal of keys with `..` or a leading slash, which no upload makes.
* In `NoteForm` htmx (vendored, not part of the repository's own code) is
  modelled by its defaults: `hx-sync` of an element keeps the request under way
  and queues the last one; a status of 400 or more is not swapped in.
* In `Accounts` a hash is the password it was made of, and a session is the
  admin and whether there is a flash message: name, email and role are stored
  together with the admin and never apart. `scs` is modelled by what it
  does: `RenewToken` deletes the row and makes a token, `Destroy` deletes the
  row, the copy is stored if it was changed. "work" is any handler that leaves a
  flash message, "page" any page that shows it.
* `Paging` takes the order of a list to be strict. The code sorts by
  `created_at` and title; rows that tie may change places between queries. In
  the list of all notes, archived ones come last (`note_repository.go:661`), so
  archiving a note moves its row there and removes none: in the model a row
  goes and another comes.
* The limiter counts per address as `clientIP` returns it
  (`internal/ratelimit/middleware.go`), which trusts `X-Forwarded-For`; how an
  address gets there is not modelled.
* In `HierarchyAdmin` the content of a version of a row is its number among the
  saves of that row. Input that a handler refuses before its statement is the
  choice `Refused`; an id without a row (status 404) cannot come up, as these
  rows are never deleted. Description and sort order are columns like the name.
  Lost updates are possible in the code, there is no version check; the module
  says what is certain in spite of them.
* In `PublicBrowse` any query may fail, and a deadline that runs out is such a
  failure. The handlers log the error and answer 404
  (`public_notes.go:314-317`, `361-365`, `382-386`, `465-469`), so a visitor can be
  told of a page that exists that it is not there; the properties say which
  requests this may happen to, and what they never see instead.
* In `PublicBrowse` the photos of a gallery are the notes of the chapter; the
  filter on `content_type` is left out, as is the sorting of rows. One
  statement writes one row, as in the repositories; there is no DELETE of
  hierarchy rows in the code, and a deleted note is a row that is not `open`.

## 3. The runs

| Run | Question | Bounds |
|---|---|---|
| `NoteFilesFaults` | Do overlapping requests with every fault keep `EveryNoteHasItsFile`, `OrphansExplained`, `AuditTruthful`, and do row and object together behave as `NoteCatalog` (`ImplementsCatalog`)? Is what the admin was told so, and does a request answered with an error leave nothing behind but what a mishap explains (`AnswersHonest`)? | 2 requests of any kind, 2 notes, 4 keys, 2 places, ZIPs of 2 images, any initial table |
| `NoteFilesLive` | Is every request answered, and does every unused object go? | 1 place, failing R2 calls and crashes; no symmetry |
| `NoteFilesOverlap` | A finding, see below | 2 requests, without faults |
| `NoteReading` | Is what was hidden served for no longer than deadline and link last (`LinksDie`)? Is a visitor served what he looked up until then, unless an admin took the file out of its note (`LinksServe`)? | lost commits, failing calls and crashes of the admin's request; 2 visitors who may load their links again, 1 admin request on a note, 3 keys, clock to 3, TTL and write deadline of 1 |
| `FileProxy` | Are exactly the whole links of the worker's secret taken, and for the file they name (`WholeLinksOnly`)? For how long (`LinkLifetime`)? Does a deleted file fade from the browsers (`GoneFilesFade`)? | 3 keys, of texts of 2 to 4 bytes with the expiry; 2 secrets; half-seconds, clocks up to one of them apart; TTL and max-age of 1 s, clock to 3 s; 1 file, 1 link, 1 browser |
| `NoteForm` | `ShownPathExists`, `OptionsFollow` | 3 selects with 2 rows each, any of 4 trees, 5 choices, 1 row moved, failing queries and an ended session |
| `Accounts` | `StoredSessionsSound`, `SignedInAsTold`, `PasswordAsTold` | 1 browser, 2 admins, 2 passwords, 2 requests at once, 4 in all, 3 tokens, every fault |
| `PublicBrowse` | `OneTableLooksAtomic`, `HidingHidesShowingShows` | any query failing, a chain of six rows and a second unit, 2 slugs, 2 edits, 1 request for any page |
| `HierarchyAdmin` | `KeepsUntouched`, `AuditMatchesSaves`, `LogEndsWithRow` | a row in each of the five tables and a unit to be created, 2 names, 3 saves, 1 lost reply or entry; one admin works on all tables, one on chapters |
| `Paging` | `PageAsAsked`, `NoBlankPage`, `ReviewMissesLittle` | 4 rows, pages of up to 3, 4-bit integers, 3 edits |
| `OwnerSetup` | `OneOwner`, `JobsEnd` | 3 jobs, 2 emails, each job started twice, every fault |
| `IPLimiter` | `WindowBound`, `WaitingHelps`, `ImplementsQuota` | 2 addresses, burst 2, interval 2, TTL 4, clock to 8 |

Why the bounds are enough to be of interest.  Two requests are what every
conflict of `NoteFiles` needs, each handler meeting each other one; four keys
let both of them mint twice (a ZIP of two images), or replace the files of two
notes there are.  The theorems cover larger numbers.  In `NoteReading` the
clock passes TTL plus write deadline once, so a link can die while the request
that made it is under way; one admin request is enough there, as that no
overlap of several takes a note's file away is `FilesSafe`. `HierarchyAdmin`
needs three saves for its worst case: a unit is created, a chapter moves below
it, and an edit page of the chapter that lists the units of before is saved;
without the condition on `older` in `KeepsUntouched` TLC shows this run.  `PublicBrowse` needs two edits for the anomaly it
excludes: with edits of two tables a page that never existed can be shown, and
TLC finds it as soon as the condition on the tables is dropped.  4-bit integers
in `Paging` make the product of page and size wrap to negative and to small
positive values.  In `IPLimiter` the clock runs through two sweeps and the TTL
equals a full bucket, the tightest setting the theorems allow; the server uses
5 tokens, 10 s and 30 minutes.

`FileProxy` has keys whose tokens have each length there is modulo four and use both
characters in which the alphabets differ; the worker may cut into any step a
deployment, a deletion and a tick.  In `NoteForm` two rows per table let a select
show the options of the wrong parent, and three selects have what five have: one
without a parent, one that follows and is followed, and the one that is sent.
`Accounts` needs three tokens for a session that is renewed and then ended while
an older copy is in a request's hands, and one browser, as browsers share
nothing but the accounts; that a copy of an ended session can be written back is
reachable there, and `SessionsSound` covers any numbers.

Requests, visitors, edits and jobs are finite in number, so these models end.
In `NoteFiles` and `NoteReading` the ends are named (`Terminated`) and
deadlock is checked; `PublicBrowse`, `Paging`, `OwnerSetup`, `IPLimiter`,
`NoteForm` and `Accounts` stop at their bounds on edits, runs, clock, choices and
requests, and their runs do not check it. In `HierarchyAdmin` a page can always
be opened or left, in `FileProxy` a program always be deployed, and deadlock is
checked.
Bounds: `MaxImages` (`uploads.MaxZipImageFiles` in the code), `Horizon`,
`MaxEdits`, `MaxRuns`, `MaxSaves`, `MaxLost`, `MaxFiles`, `MaxLinks`, `MaxPicks`,
`MaxMoves`, `MaxTokens`, `MaxRequests`, and the sizes of the sets.

### Fairness

`NoteFiles!FairSpec` has weak fairness of each request's own steps: a goroutine
is scheduled, and each remote call returns since its context has a deadline
(`middleware.Timeout`).  Nothing is assumed about which outcome a call has.
`FairSetupSpec` has it for the regular steps of each job, which run under
`context.WithTimeout`; errors are never counted on, so `JobsEnd` says that the
waits on the indexes end by themselves: each is for one transaction that has
inserted its row and is about to commit. A job has one INSERT, so none waits
while it holds an entry of an index itself, and a deadlock cannot come up.  `NoteForm!FairSpec`
has it for the look-ups, which have the deadline of any request, and for htmx
handling their replies; the admin need never act.  The other
specifications have safety properties only.

### Findings

* `NoteFilesOverlap`: two overlapping replacements of one note's file leave the
  file of the first in R2, without a row and without a log line
  (`admin_notes.go:1002` deletes what was found before the upload).

Seen on the way, and described under "hazards" rather than by runs of their own:

* When the INSERT of an upload fails and the deletion of its object fails too,
  the admin still reads "Uploaded file was cleaned up" (`admin_notes.go:363`); the
  error of the deletion is only logged. `AnswersHonest` says that the answer is
  false in this case only; the other handlers tell the admin
  (`admin_notes.go:863`, `1014`).
* The public pages answer a failed query like a page that does not exist, with
  404 (`public_notes.go:457-469` and the like).
* A replacement whose old file could not be deleted (`admin_notes.go:1017`), and
  a ZIP import that stopped half way, change notes without an audit entry.
* A request under way when its session is logged out stores that session again.
* The worker's test (`workers/file-proxy/test/index.spec.ts`) still expects the
  "Hello World!" of the template it was made from.

## 4. The theorems

All proofs are machine-checked to the last leaf.  They hold for any sets of
requests, notes, keys, places, rows, visitors, addresses, browsers and admins,
and for any bounds.  What the assumptions on the constants say is what the code
or the schema gives: tables a server may start on satisfy the constraints, the
markers for "nothing" are no values of the program, limits are natural numbers.

`NoteFilesProofs`, from `FaultAssumption`, `NullAssumption`,
`ServesAssumption` and `MaxImagesAssumption`:

* `TypeCorrect`: `Spec => []TypeOK`. `TypeOK` is inductive only with `Routed`,
  which says which handler can be at which statement, and that it then has a
  note id or a key.
* `FilesSafe`: `Spec => []EveryNoteHasItsFile`. The property is not inductive:
  a request about to delete a key must not hold one that a row refers to. The
  strengthening `KeysOwned` says who may hold which key: rows have distinct,
  minted keys (`RowKeys`); a key about to be given to a row is in R2, in no row
  and in no other request's hands (`GivenKeys`); a key to be cleaned up, or to
  be deleted as an old one, is in no row, but for a commit that was not
  acknowledged (`CleanedKeys`, `DeletedKeys`); ReplaceFile holds a key that no
  other note has (`ReplacedKeys`). Then one lemma per handler step.  Uploads
  keep it because keys are fresh, replacements because the row gives up its key
  in the same statement that takes the new one.
* `OrphansAccountedFor`: `Spec => []OrphansExplained`. Each step of a request
  leaves every object it knew of in a row, in its hands, or with a mishap
  (`Accounts`), and takes none from another request (`OthersAccount`).
* `AdminToldTruly` and `LogTruthful`: `AnswersHonest` and `AuditTruthful`. They
  follow from what a request knows at each of its steps of the notes it wrote
  and removed (`Reported`). The changes by other requests do not falsify it, as
  ids and keys are not used again (`LocalHonest`). What becomes of the key a
  request uploaded is another invariant (`FiledInv`): when an error was answered
  it is out of the bucket, or a failed call of R2 is on record, and it is in a row
  only if a commit went unseen; when success was answered no row has it in doubt
  (`Filed`). Others do not disturb this, because a step puts no key into a row
  but the new one of its own request, and a key gets in doubt only by such a step
  or by one that takes it out of its row (`Marks`, `OthersFiled`).
* `NotesImplementCatalog`, with `EntryAssumption`: `Spec => ImplementsCatalog`.
  The mapping: the file of a note is its key if the object is there, or if a
  statement committed unseen (then the clean-up may have taken it); a key counts
  as used once no request is about to give it to a row. Given `KeysOwned`,
  INSERT, UPDATE and DELETE map to the operations of the catalogue, each with
  its file; uploads, deletions of objects, audit entries, answers and crashes
  map to stutters or to giving up a key, since no object that a row refers to is
  ever touched.
* `ReadingTypes`, `ServedWasOnDisplay` and `LinksServeReaders`, with
  `ReadingAssumption`: types, `LinksDie` and `LinksServe` of `NoteReading`. What a
  visitor found was on display then (`FoundSeen`), and the expiry of the link is
  bounded by the instant of the look-up once the browser has it, by the clock
  before (`LinksSigned`). A key that a visitor looked up is in
  the bucket unless a request took it out of its note or had a statement commit
  unseen, and no request will give it to a row or clean it up (`Kept`, over all
  steps of all handlers); and the link he gets does not expire before the TTL
  after his look-up. `ServeInv` has both.

`PublicBrowseProofs`, from `HierarchyAssumption`:

* `BrowseTypes`: `Spec => []TypeOK`, which contains that no statement gets the
  tables out of what the schema allows (`SavedIsSound`).
* `LooksAtomic` and `HidesAndShows`: `OneTableLooksAtomic` and
  `HidingHidesShowingShows`. The argument is about `Rest`, the page the queries
  still to come would make of given tables. From the first query on it is the
  page that should be listed (`WholePage`); running a query on the tables as they
  are leaves it the same (`NextRest`); so only edits change it. An edit of a level
  that is not read any more changes nothing (`SameRest`), and while the levels
  already read are untouched, `Rest` is the right page for the tables as they are
  (`Follows`). Hiding rows can only make it smaller and showing them larger
  (`GrownUnder`, hence `Hides` and `Shows`). A query that fails ends the request
  with 404, which is not a page of `Rest`: what is said of such a request is that
  it lists nothing.

`HierarchyAdminProofs`, from `AdminAssumption`:

* `AdminTypes`: `Spec => []TypeOK` with the constraints of the schema.
* `LogMatchesSaves` and `LogEndIsTheRow`: `AuditMatchesSaves` and
  `LogEndsWithRow`. Every version of a row is logged, due in the hands of one
  request, or lost, and never two of these (`Accounted`, `DueOnce`); the last
  entry of a row is that of its last version unless saves overlapped (`Sharp`).
* `UntouchedIsKept`: `Spec => KeepsUntouched`. A page offers at least the parents
  there were when it was asked for (`OfferedEarly`), so it shows the row it read
  unless the row's parent is none of those (`ShowsRead`).

`AccountsProofs`, from `AccountAssumption`:

* `TypeCorrect`: `Spec => []TypeOK`, and `SessionsSound`:
  `Spec => []StoredSessionsSound`, from one invariant `IInv`. The property of the
  stored rows needs the same of every copy a request holds (`CopySound`), since
  `Commit` stores copies without a look at the row; a copy about to be stored
  under an ended token must have been under way when the token ended. `Handled`
  says what a handler knows of its request at each step. A login gets a token
  beyond all made so far, which no row and no copy can have.
* `PasswordIsAsTold`: `Spec => []PasswordAsTold`. While nothing doubtful happened
  there is at most one stored change without an answer, and its password is the
  one in force (`PasswordSound`).
* `SignedInIsAsTold`: `Spec => []SignedInAsTold`. A token is in the hands of one
  browser only (`OneHolder`); a browser that is not named as astray has a login
  under way by itself, requests under way that agree with what it knows
  (`InOrder`), and before one of them has taken effect it is signed in as it was
  told (`BrowserSound`).

`AdminGuardProofs`, about `OwnerSetup` from `SetupAssumption`:

* `SetupTypes` and `OneOwnerOnly`: `SetupTypeOK` and `OneOwner`. The indexes keep more
  than the committed rows apart: no two rows clash even if some are in
  transactions still open (`RowsApart`), so a commit cannot create a clash.

and about `IPLimiter` from `QuotaAssumption` (in particular `Full <= TTL`: a
bucket forgotten would have been full), `HorizonAssumption` and
`AbsentAssumption`:

* `TypeCorrect`, `WindowsBounded`, `WaitingIsEnough` and
  `LimiterImplementsQuota`, all from one invariant `IInv`: types, clocks of the
  buckets in the past (`Clocks`), and the credit used in a window being owed to
  the bucket or paid back since (`WindowOwed`).

`NoteFormProofs`, from `FormAssumption`:

* `FormTypes` and `FormShowsPath`: `TypeOK` and `ShownPathExists`. What a select
  offers are children of the choice its look-up was sent with, but for rows moved
  since (`LookedUp`); and for every choice the select below has its options, or a
  look-up that asks for them is under way, queued or failed (`ChoicesFollowed`).

`FileProxyProofs`, from `ProxyAssumption` and `JsonAssumption`:

* `ProxyTypes`, `LinksTakenWhole`, `LinksLive` and `GoneFilesFadeAway`. The codec
  of the two programs is proved inverse for strings of bytes of any length: a
  group of three bytes becomes four digits and back, and the padding that the one
  cuts off the other adds. So a token tells its payload, and with the signature
  over it (`LinksSigned`) only a whole link is taken, as what the worker looks at
  came of a link, whole or not (`RequestsArrived`). A file in the bucket was there
  just now (`FilesSeen`), a copy's file was there when the copy was made or later
  (`CopiesSeen`).

`PagingProofs`, from `PagingAssumption`, for lists, pages and machine integers of
any size:

* `PagingTypes`: `Spec => []TypeOK`. No number of the handlers leaves the
  integers but the offset, which wraps.
* `AskedPageIsShown`: `Spec => PageAsAsked`. The row with k rows before it is on
  page `k \div n + 1`; the rows of a list have the ranks 0, 1, ... up to its
  length, each once (`RankUnique`, `RankTaken`), so there are as many pages as
  `Pages` says (`AllPages`), and LIMIT and OFFSET cut out one (`PageRows`). A
  page number whose offset wraps is beyond the last page and gets corrected.
* `RowsAreShown`: `Spec => []NoBlankPage`. `RequestInv` says how far the COUNT of
  a request can be off: by what came and what went since (`CountKept`), and so
  the same of the page it was corrected to (`Corrected`).
* `ReviewSeesMost`: `Spec => []ReviewMissesLittle`. The property speaks of the end
  of a review only; `ReviewInv` says it for the places passed so far
  (`PassedSeen`): a row not seen gets there only if one before it goes, which
  moves one row, the first after these places, onto them. The next page takes on
  the places of its rows because no offset on the way wraps (`InsideWord`).

Only model-checked: liveness (`Answered`, `UnusedFilesGo`, `JobsEnd`,
`OptionsFollow`), with what needs ENABLED. Every other property of a passing
run is one of these theorems. Induction over data is beyond the prover, and is
not needed: `Up` of `PublicBrowse`, a recursive function, is unfolded over its six
levels, the codec of `FileProxy` works on functions of positions, and the rows of
`Paging` are counted by an injection between the ranks and the list.

## 5. What is not modelled

* `Slugify`, upload validation and the PDF watermark: pure functions on strings
  and file contents. Their outcomes are choices in `NoteFiles`.
* Routing, headers, CSRF tokens and middleware other than the deadline and the
  access check; rendering, SEO, static pages, health checks, dashboard,
  configuration: they keep no state that could go wrong between two steps.
* The page scripts `home-gallery.js` and `gallery-lightbox.js` hand an element to
  an external widget, once; `vitest.config.mts` configures a test runner.
* Migrations: the schema is in the models as constraints; goose, which applies
  it, is external, as are the deployment scripts.
* The gallery page of a subject and the sitemap, which read like the pages that
  are in `PublicBrowse`, in the same kinds of queries.

## 6. The plan

In order of weight; all are done.

1. `NoteFiles` with `NoteCatalog`: the two stores. Proofs of type correctness,
   file safety and the refinement.
2. `IPLimiter` with `LoginQuota`, and all its proofs.
3. `NoteReading`, composing readers with `NoteFiles`.
4. `PublicBrowse`, `HierarchyAdmin`, `Paging`, `OwnerSetup`.
5. `FileProxy`: the link between the two programs.
6. `NoteForm`, and `Accounts` with the proofs about sessions.
7. Proofs of the safety properties of these modules.
8. `Paging`: its type invariant, `PageAsAsked`, `NoBlankPage` and
   `ReviewMissesLittle`, with lemmas on the ranks of rows.
