# Verification of kd-server

kd-server keeps one record per real-world person and asset for several client
applications ("tenants").  It is one Go process in front of MongoDB; an
operator's terminal program (the TUI) works on the same database.  No call holds
a lock or a transaction across two database calls: what keeps concurrent calls
apart are the unique indexes and the filters of single updates.  These modules
say, for each component, what such calls may do to each other and what holds
anyway.

Paths below are relative to `src/`.

## 1. Inventory

| Component | State it keeps | Operations | What is hard |
|---|---|---|---|
| Ingest of raw records (`internal/store/ingest.go`) | `raw_records`, `sources` | save a batch | a batch that stops half-way and is sent again; records of one batch share a time |
| Resolve (`internal/services/resolve.go`, `store/person.go`, `store/raw.go`) | `people`, `links`, status and person of `raw_records` | one run over the pending records | five kinds of database call per record, overlapping runs, a failure anywhere, lists read long before they are used |
| Review queue (`services/review.go`) | status of `raw_records` | list, decide | a decision against a run that still holds the record |
| Lookup (`services/lookup.go`) | none | find a person and its links | two reads beside the runs that write both |
| Identity documents (`services/identity_document.go`, `store/identity_document.go`) | `identity_documents`, `identity_document_history` | save, list | read, replace and snapshot as separate calls of several editors |
| Document extraction (`services/document_extraction.go`, `http/admin.go`) | a temporary directory per call | OCR of pages, halves and regions, fields from the text | external commands without a timeout, a client that goes away, a copy of an identity document on the disk, a side decided twice |
| Asset numbering and ingest (`services/asset.go`, `store/asset.go`) | `assets`, `asset_links`, `asset_history` | ingest records of several units | read the last number, check, insert; tenants share the number space |
| Asset transfer and disposal (same files) | `assets`, `asset_history` | transfer, dispose | read and write back the whole document |
| Asset queries (same files) | none | query, lookup, history | count and page are two reads, pages are cut by offset while assets are created |
| Asset classification (`services/classification.go`) | a table loaded once | read | none |
| Tenants and API keys (`store/tenant.go`, `services/admin.go`, `cmd/tui/tenants.go`) | `tenants`, `keys` | create, rename, issue, verify, revoke | two operators at once, revocation against requests under way |
| Request authentication (`http/server.go`, `auth/jwt.go`) | none | authenticate, then serve | what was verified is used later |
| Admin sessions (`http/admin_auth.go`) | table in memory, under a mutex | log in, check, log out | clock read before the lock, expiry, loss at a restart |
| Indexes, start and shutdown (`store/mongo.go`, `cmd/api/main.go`) | index specifications | ensure, shut down within five seconds | calls cut off between two database calls |
| Admin page and TUI menus | none | markup, prompts | none |
| Configuration, version, logging | none | read at start, print | none |

How they interact: an HTTP request passes `authMiddleware`, then one service,
which calls the store.  The console and the TUI reach the same services.  All
interaction between calls is through the collections; the only shared memory is
the table of admin sessions.

What makes each one correct:

* **Resolve and review**: an external key never belongs to two people; a record
  keeps its person; a run that reports success has dealt with everything it
  listed; nobody is recorded twice; pending records are eventually dealt with;
  reviewers' decisions stand.
* **Identity documents**: what is acknowledged is in the history; a version is
  recorded once; versions have no gaps; a history starts with its creation.
* **Asset numbering**: a number is given once, numbers of a series have no gap
  and a bound, and what a call reports exists and is its own.
* **Transfer and disposal**: the audit trail explains where the asset is and
  whether it is disposed of.
* **Lookup**: a person the runs have attributed a record to is found, with the link.
* **Asset queries**: paging misses nothing that was there, repeats no more than
  was created meanwhile, and its totals are not promises the pages break.
* **Document extraction**: a call nobody waits for ends; a date is not taken for
  the other one; the copy on the disk goes with the call.
* **Access**: revocation and logout stop everything that arrives later; nothing
  is written for a tenant other than the credential's; a second revocation
  overwrites nothing.

The hazards behind these are listed, each at its line, in `PROJECT.json`.

## 2. Modules

| Module | Role |
|---|---|
| `Attribution` | abstract promise of resolving: a key is bound to one person once, a record is attributed to the person of its key |
| `Resolve` | ingest, resolve runs and reviewers, one action per database call; refines `Attribution` |
| `MCResolve` | payload scenarios and symmetry |
| `ResolveProofs` | theorems about `Resolve` |
| `Lookup`, `MCLookup`, `LookupProofs` | lookups, composed with `Resolve`: it extends the module and adds a variable |
| `Journal` | abstract promise of an identity document's history: entries are only added, one per version, and a save is acknowledged exactly when its entry is added |
| `IdentityDocuments`, `MCIdentityDocuments`, `IdentityDocumentsProofs` | saving identity documents; refines `Journal` |
| `Ledger` | abstract promise of numbering: a series gives out 1, 2, 3, ... up to its documented capacity and at most one beyond, all to one tenant |
| `AssetNumbering`, `MCAssetNumbering`, `AssetNumberingProofs` | ingesting assets; refines `Ledger` |
| `AssetLifecycle`, `MCAssetLifecycle`, `AssetLifecycleProofs` | transfers and disposals |
| `AssetQueries`, `MCAssetQueries`, `AssetQueriesProofs` | paging through assets while they change |
| `Extraction`, `MCExtraction`, `ExtractionProofs` | reading an uploaded identity document |
| `Authority` | abstract promise of API keys: granted once, withdrawn once, admitting only while in force, and writing for one tenant only |
| `Access`, `MCAccess`, `AccessProofs` | tenants, keys, requests, admin sessions; refines `Authority` |

`Lookup` reads the collections `Resolve` writes, so it is composed with that
module: its steps and those of the runs interleave.  The other modules share no
variable because their components share no collection, with two exceptions:
people are created by `Resolve` and only counted by `IdentityDocuments` (its
action `PersonAppears`), and an asset's life begins in `AssetNumbering`, goes on in
`AssetLifecycle` (its action `CreateAsset`) and is watched by `AssetQueries` (its
actions `CreateAsset` and `UpdateAsset`, one for each kind of write the others
do).

### Conventions

A collection is a set or a function over ids.  A call under way is a program
counter and the local variables it carries between database calls; one action is
one database call together with the computation around it, since a single
MongoDB document operation is atomic and nothing else is.  A unique index is a
guard of the insert it protects, with a separate action for the duplicate-key
error.  A call whose database call fails, or which the shutdown cuts off, takes
the `Fail` (or `DatabaseError`) action, which stands before the effect of the
call.  Definitions marked "Fault" are wrong variants, used only to show that a
property notices.

### Resolve

`status`, `owner` and `payload` are the raw records; `people`, `identifiers` and
`links` the collections a run writes.  A run lists the pending records
(`ListPending`: any list of at most `BatchSize` of them in order of time, ties in
any order), and for each sets it aside when it has no identifiers (`SetAside`),
or finds a person (`FindPerson`, `FindNobody`), updates or creates it, upserts
the link (`UpsertLink`, or `LinkConflict` when the unique index refuses) and marks
the record.  At the end it writes what it has set aside (`FlushReview`) and
returns.  `FindPerson` picks any match because the code's `$or` with `FindOne` has
no sort.  A reviewer decides any record of the tenant (`Decide`), listed or not and
whatever its status, since neither the service nor the store looks
(`services/review.go:66-92`).  `settled` is history: the records that had left the
queue when a run began.

### Lookup

A lookup finds any person with the e-mail address or phone (`LookupPerson`,
`LookupNobody`) and then that person's links (`FindLinks`); a failure ends it
anywhere.  `known` is history: the records attributed to somebody under that
identifier when the lookup began.

### IdentityDocuments

`Save` counts the person, then inserts or reads the document, replaces it with
the next version, and records a snapshot guarded by the unique index on document
and version.  Contents are arbitrary, so a form filled long ago is covered.

### AssetNumbering

A call works through the units of its records: read the highest number of the
caller's own assets, check the next number against everybody's, insert, link,
append the event.  `SerialModulus` is 10000 in the code: the serial is the last
four digits of the number.  The capacity of `Ledger` is the documented one, 9999;
the number 10000, which the code gives out against the documents, is an action of
its own there (`Overrun`).

### AssetLifecycle

One asset; `TransferAsset` and `DisposeAsset` read it, change their copy, write
the whole copy back and append an event, whose failure is dropped.

### AssetQueries

An asset has what a filter may ask for and no handler changes (`class`), the time
`CreateAsset` stamped before inserting, and a status.  A query is two database
calls, `CountDocuments` and `FindPage`; the page follows the first `offset` matches in
the order of `createdAt`, newest first, ties in any order.  A client of the API gets
`EffectiveLimit` for the limit it asked for and walks on until a page is short; the
TUI shows one page.  `start` and `shown` are history: what matched when the client
began and what it has seen.

### Extraction

A call copies the upload into a workspace, renders at most two pages, cuts a wide
image in two, makes three OCR passes over each segment, takes its side from what
they read, reads that side's regions, and parses all the text at the end.  OCR is
not modelled by its words: a pass or a region gives one of a set of pieces
(`PageReadings`, `RegionReadings`), each saying which labels, dates and values it
contains, and the text is kept to what the parser can still see of it (the labels,
the first two dates, the first value of each field, the first line of each tag).
Rendering and OCR are commands under the request's context and fail once the
client has gone.  `workspaces` counts the directories on the disk: `End` removes the
call's own on every way out, unless the removal fails, and `Stop`, the end of the
process, skips the removal and leaves those of all calls under way.

### Access

`tenants` and `keys` are the collections, `sessions` the in-memory table, and
`cookies` what browsers were told.  A spelling of a tenant is the slug, text that
normalizes to it, or text that `slugPattern` refuses.  Console calls pass
`CheckSession`; operators of the TUI do not.  Requests pass `VerifyAPIKey` or
`VerifyToken` and are served by a later action, under the tenant as the header
spells it, which is what the code puts in the context.  A token may lack any of
its three times, and then that time is not checked (`TokenAdmits`).  `begun` and `ended` are
history variables: what was revoked and which sessions had ended when a call
arrived.

## 3. Runs

| Run | Question | Instance |
|---|---|---|
| `ResolveRaces` | do links, attributions and decisions survive overlapping, failing runs over contradictory payloads? refines `Attribution` | 2 records of one time, 3 people, 2 runs, 2 identifiers, batches of 2, 1 failure; about 523,000 states |
| `ResolveSerial` | without overlap: no duplicates, the queue drains, and a lookup beside the runs finds whom they attributed | 2 records, 2 times, 2 people, 1 run at a time, 1 lookup by e-mail address, batches of 1, 2 failures, fair; about 447,000 states |
| `ResolveDuplicates` | two overlapping runs create one person twice (violation) | 2 runs |
| `ResolveBlocked` | one record with a conflicting link blocks the queue (violation) | 2 records, fair |
| `IdentityRaces` | are acknowledged saves recorded once, and how much can failures cost the history? refines `Journal` | 2 documents, 2 people, 2 contents, 2 editors, 4 saves, 2 failures; about 305,000 states |
| `IdentitySnapshotLost` | an update can miss its snapshot (violation) | 2 editors |
| `AssetNumbers` | are numbers contiguous, reported once, of one tenant, and created assets traced? refines `Ledger`, bound and overrun included | 2 tenants, 2 series, 2 calls of 2 units, modulus 3, 3 calls, 1 failure; about 544,000 states |
| `LifecycleRaces` | does the trail explain the asset, and do disposals settle? | 3 locations, 3 calls at once, 4 in all, 2 failures; about 182,000 states |
| `LifecycleResurrected` | a transfer undoes a disposal (violation) | 2 calls |
| `AssetPages` | does paging miss anything, how much does it repeat, and do totals fit the pages? | 3 assets, 2 classes, 3 times, 2 statuses, 4 filters, limits 0, 2 and 3 of which 2 is the largest allowed and 1 the default; 1 client; about 2.1 million states |
| `ExtractionReads` | does a cancelled call end, are dates kept apart? | 5 uploads of up to 3 pages, 5 page readings, 10 region readings, 1 call, 1 failed removal or stop; about 61,000 states |
| `AccessRaces` | do revocation, logout, expiry and restart stop what comes later? refines `Authority` | 2 tenants, 4 spellings, 2 keys, 2 sessions, 1 token, 2 calls at once, 4 in all, 3 clock readings; about 1.2 million states |

Why the bounds are enough to be interesting: two overlapping calls show every
race of two, three in `LifecycleRaces` show one call between the steps of two
others; one failure shows every place where a call can stop, and two, where
losses are counted, that they do not multiply; a modulus of 3 lets
a series fill and wrap, a batch smaller than the number of records lets the
limit matter, and a time-to-live of one clock reading lets sessions expire while
calls wait. Clients that page, and extractions, do not write what others read,
so one of each shows what several would; three assets with pages of one or two
make walks of several pages with insertions before, inside and behind them. An
upload of three pages has one that is not read. The bounds `MaxCalls`,
`MaxSaves`, `MaxUnits`, `MaxFailures`, `MaxTime` only cut off counters. Deadlock
is not checked where the bounded number of calls lets the system come to rest.
Symmetry is used only with safety properties and refinement, never with
liveness.

Three properties count what is lost instead of excluding failures, because the
code drops the errors of its trailing writes: `HistoryGapless` (versions that are
neither recorded nor about to be), `CreatedIsTraced` (assets without their link or
event) and `TrailExplainsAsset` (facts of the asset that no event led to) allow one
loss for each call that has failed, and no more.

Others hold only under a condition that the run states: `NoDuplicatePerson`,
`LookupFindsResolved` and `PendingDrains` where runs do not overlap.
The instance has payloads with one identifier each; the theorems need less.  For
`NoDuplicatePerson` sharing an identifier must be transitive among payloads
(`SharingIsTransitive`: no record joins two people), for `LookupFindsResolved` payloads
that share one must also agree on the others (`SharingAgrees`: nothing is
overwritten).  `DecisionStands` needs neither, and holds of overlapping runs: it is
about the records that had left the queue when a run began, and says nothing of a
decision taken while a run is under way, which that run may overwrite.

### Fairness

`PendingDrains` assumes weak fairness of the steps of each resolve run:
`docs/CLIENT_INTEGRATION_GUIDE.md` has runs started on a schedule, and a Go handler
that has started keeps going.  `CancelledEnds` assumes weak fairness of what the
server does of itself (`OwnStep`) and of what becomes of a command whose context is
cancelled (`Killed`): `exec.CommandContext` kills it.  A command that is not
cancelled may run for ever, since the code sets no timeout.  Nothing is assumed of
clients, reviewers, lookups or failures.

### What the violations show

Each is a disagreement between the repository's own words and its code, with the
quotation in `PROJECT.json`.

1. `ResolveDuplicates`: find and create are two calls and no index covers an
   identifier of a person.
2. `ResolveBlocked`: `UpsertLink` fails for a conflicting record and ends the run;
   the record stays at the head of the queue.
3. `IdentitySnapshotLost`: two saves replace the same version, and the second
   snapshot is refused after its document was written.
4. `LifecycleResurrected`: a transfer writes back the status it has read.

### Seen in the code, outside the runs

What the modules show when a condition of a property is dropped, or leave to the
reader:

* The guide's matching order (national id, then e-mail, then phone,
  `docs/CLIENT_INTEGRATION_GUIDE.md:172`) is not the code's: one `$or` with `FindOne`
  (`store/person.go:44`) takes any match, as `FindPerson` does.
* One run at a time can make a duplicate too: a person with identifier a, another
  with b, then a record with both.  `FindPerson` takes either, and
  `UpdatePersonIdentifiers` writes the other's identifier into it
  (`store/person.go:92`).  `SharingIsTransitive` excludes such a record.
* The search for the last serial looks at the caller's assets and the check for a
  free number at everybody's (`store/asset.go:57`), so a series belongs to the tenant
  that began it and is closed to the others; `SeriesHasOneTenant` is that fact.  The
  rules of `docs/ASSET_MANAGEMENT_SPEC.md:222-224` take the highest serial of all assets with
  the prefix, which would share a series between tenants.
* A series does not end at 9999, as `docs/ASSET_MANAGEMENT_SPEC.md:23` and
  `docs/ASSET_QUICK_REFERENCE.md:133` have it: `fmt`'s four digits are a minimum, so the
  number after 9999 ends in 10000, which no lookup's pattern accepts.  Its last four
  characters are stored as the serial, 0000 (`services/asset.go:126`), so the highest
  serial stays 9999 and 10000 is asked for again, which is taken: the series is
  closed.  `Overrun` of `Ledger` is that one number.
* A reviewer may accept a pending record before any run has listed it; a record with
  identifiers is then resolved without a person, and no later run gives it one.
* `docs/IDENTITY_DOCUMENTS.md:26` says that the directory and the uploaded copy "are
  deleted immediately".  A removal that fails is ignored
  (`services/document_extraction.go:131-133`), and a shutdown that does not finish in
  time ends the process past the deferred removal (`cmd/api/main.go:167`): the copy
  stays on the disk.  The model has both outcomes; no property denies them.
* Paging by a status filter skips assets when one is disposed of between two
  pages, and equal creation times leave the order to the database; the paging
  properties exclude both.  A client that stops at `total` instead of at a short page
  misses what was created meanwhile.  A limit above 100 silently becomes 20
  (`http/asset.go:329`), while `docs/ASSET_USAGE_GUIDE.md:582` asks for 1000.
* A back of which only "Finger Print" is read has its regions read as a back, but
  its expiry date becomes the date of birth (`document_extraction.go:546`); that is
  the exception in `ExpiryIsNotBirth`, which therefore does not catch it.  A front's date that is read more than once
  becomes the expiry date too, and the name on the front of a two-sided upload is
  dropped for the common name on its back.
* When no extractor was found at the start, the interface in `http/admin.go:124` holds
  a nil pointer and is not nil: the call is answered with an error by `Extract`
  itself (`ExtractRefused`).

## 4. Proofs

`tlapm` proves, for every value of the constants that meets the named
assumptions of the modules (the absent value is none of the ids, bounds are
natural numbers, moduli are positive, spellings and payloads are well-formed,
kinds of credentials are disjoint), every safety property of the passing runs.
Some theorems state properties that no run lists: those that others imply or
overshadow (`AttributionStable`, `AcknowledgedVersionsDiffer`, `AcknowledgedIsRecorded`,
`HistoryWellFounded`, `KeysHaveTenant`, `FirstRevocationStands`, `NumbersBounded`,
`LookupTypeOK`), and those that are about the size of a run or a call
(`RunsAreBounded`, `CallsAreBounded`, `PagesAreBounded`) or the choice it has
(`MatchesAreUnique`).

Four refinements are proved step by step: `RunsImplementAttribution`,
`SavesImplementJournal`, `NumberingImplementsLedger` and `KeysImplementAuthority`.

* **Resolve.**  `TypeInv` adds to the types where in its list a run stands and
  that a run with a person has a person that exists.  `LinkInv` adds that the link
  a run is about to use is written; it is needed because `MarkResolved` relies
  on a link made one call earlier.  From both follow stability of
  attributions and the refinement of `Attribution`.  `ProgressInv` relates what a
  run has passed to its list and owners to what it has resolved, and gives completeness
  of successful runs.  Absence
  of duplicates is proved for one run at a time and payloads whose sharing is
  transitive: `LookupStands` says the answer of a lookup is still right when it is
  used, and `PeopleRepresented` that a person carries the identifiers of some payload
  and others only from payloads that share one with it, so that people with an
  identifier in common stem from payloads that share.  The
  same invariant shows that `FindOne` has at most one match to choose from.  That
  decisions stand is proved for any number of runs and any payloads (`SettledInv`: what
  had left the queue when a run began is neither in the list of that run nor among
  what it has set aside, and a run writes to nothing else).
  `RunsComeToAnEnd` gives a run at most two calls and four for each record of its
  batch: a measure that falls with each step of the run and that nobody else's step
  raises.  It is the part of `PendingDrains` that needs no fairness.
* **Lookup.**  Every behaviour of `LookupSpec` is one of `Spec` with lookups that
  change nothing, so the invariants of the runs carry over.  For one run at a time
  and payloads that agree where they share, the people with an identifier are one
  person, and
  an attributed record's person carries the identifier; a lookup that has found a
  person therefore has the right one, whose links only grow.
* **IdentityDocuments.**  `RecordInv` ties every acknowledged save to its entry;
  `VersionInv` says that of the versions up to the stored one no more are neither in
  the history nor carried by a save about to record it than calls have failed: a
  step loses at most the one version its call carried, and then it is a failure.
  For `Journal` the entry a save is acknowledged with is the one that its unique
  index let in.  `FoundedInv` that drafts name people that exist.
* **AssetNumbering.**  `NumberInv` needs that a serial a call carries follows one
  in use of the same tenant, although others insert meanwhile; `ReportInv` that an
  asset belongs to the one call that inserted it.  For `Ledger` the numbers below
  the one inserted must be exactly those in use, which uniqueness and contiguity
  give, and all of one tenant.  Traces are counted as versions are: an asset is lost
  only when its own call fails.
* **AssetLifecycle.**  `TrailInv` accounts not only for the asset but for every copy
  a call holds, since any of them may be written back: `Unexplained` collects the facts of all of
  these that no event led to, and a failure adds at most one.
* **AssetQueries.**  With distinct times, what a page skips and shows is an initial
  segment of the matches in their order.  Insertions only push assets to larger
  offsets, so what has been passed was shown or is new: the invariant says that
  all but `shown` of `start` lies behind the offset.  What a page skips and shows is
  therefore among what the client has seen and what was created since it began, and
  counting both sides bounds the rows it sees twice.  The total is right or low, since
  assets are never deleted.
* **Extraction.**  The invariant says that the labels heard of a segment are in the
  text, that an expiry date in the text comes from a back, and that a back with none
  of the three labels has been remembered as such.  `CallsComeToAnEnd` orders the
  stages of a call lexicographically, with what is left of each, so that each of its
  steps brings it closer to its end; it is what `CancelledEnds` rests on besides
  fairness.  `PagesAreBoundedHolds` limits the images of a call.
* **Access.**  `IInv` adds that what was revoked or ended when a call arrived still
  is, that the session table agrees with the cookies, that a login is the only
  holder of its token until it is in the table, that a request let in keeps naming
  its key's tenant, and that a tenant found is still there when its key is stored.
  Lemma `Moves` classifies what a step does to one call, so that each invariant
  looks at a few cases instead of every action.  For `Authority`, `ServedForOwnTenant`
  says that the tenant a served request writes for is still its key's, which was
  checked one step earlier; every other step at most takes admissions away.

What stays with TLC: `PendingDrains` and `CancelledEnds` (liveness under fairness,
which this prover does not handle, as it does not handle ENABLED; what is proved
of them is that no run and no call can take steps for ever), and the violations.  Nothing here depends on induction over data.

## 5. What is abstracted or left out

* One tenant's data in `Resolve` and `IdentityDocuments`, one asset in
  `AssetLifecycle`: every query is filtered by tenant or by number.  Numbers are
  shared between tenants, and there several tenants are modelled.
* Reading a cursor is atomic.  Fresh ids never collide.
* A failed call stops before its effect.  An asset insert whose reply is lost after
  it was applied is not modelled: the driver retries such writes.
* `asset_history` is a set: what is recorded, not how often.
* A decision on an id that names no record changes nothing and is left out.
* The JWT library decides whether a signature is genuine; tokens here are
  genuine, with their tenant, whichever of the three times they carry, and the leeway.
* Logins with a wrong password, and requests with a wrong secret, change nothing
  and are left out.
* `Extraction` abstracts pixels, words, confidences and warnings, and the search
  for installed programs; `AssetQueries` the fields of an asset beyond the class, the
  time and the status.
* The read of one asset with its links, the listing of its history and the
  number format a lookup accepts (`services/asset.go:329`) are not modelled: single
  reads, and a pattern over text.
* Classification (a table loaded once from embedded data), the admin page, the
  menus, configuration, version and logging are not modelled: they keep no state
  that changes.  The start-up that ensures the indexes is left out; the modules
  assume them there.

## 6. Plan

1. Done: `Resolve` with `Attribution`, then `IdentityDocuments`, `AssetNumbering`,
   `AssetLifecycle`, `Access`, each with its proofs.
2. Done: the readers, `Lookup` composed with `Resolve` and `AssetQueries`, and
   `Extraction`, each with its proofs.
3. Start-up: the indexes being built while an older instance or the TUI writes,
   composed with `Access` and `Resolve`.
4. Number formats: what ingest produces against the pattern a lookup accepts.
5. Done: abstract specifications of numbering (`Ledger`), of identity histories
   (`Journal`) and of keys (`Authority`), refined by the modules here.
6. Done: conditions for `NoDuplicatePerson` and `LookupFindsResolved` weaker than one
   identifier per record, and losses counted where failures were excluded.
7. An abstract specification of paging (a walk over the matches in their order)
   and of the console's sessions, refined by `AssetQueries` and `Access`.
