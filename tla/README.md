# TLA+ verification of ksiegowy-vibe

ksiegowy-vibe is an invoicing application for small Polish companies. It numbers and issues
invoices, stores them as PDF and as FA(3) XML, sends them to KSeF (the national e-invoice
system), takes in the invoices of others as scans and from KSeF, and copies all files to a
Google Drive. The web pages (`apps/web`, Next.js) are forms over a Fastify API (`apps/api`)
with PostgreSQL (Prisma), a directory of files, and cron jobs in the same process.

The requests of the API run concurrently, also in several processes. They share the database
and the files, and lock little: most handlers read a row, decide, and write it with a later
statement. In between they talk to KSeF, to Google or to an OCR engine, where calls time out
and replies get lost. A document that is sent twice or shown to the wrong party cannot be taken
back, so this is what the models are about: **every database statement or transaction, every
exchange with another system and every file operation that others can see is one action, and any
other request, or a crash, may come in between.**

All paths below are relative to `src/`; API paths to `src/apps/api/src/` where it is clear.

## 1. Inventory

| Part of the system | State | Operations | Who touches it besides | Module |
|---|---|---|---|---|
| KSeF submission (`services/ksef.service.ts`, routes in `routes/invoices/outgoing.ts`, `lib/cron.ts`) | `InvoiceKsefState`, `KsefSubmission`, legacy column `Invoice.ksefStatus` | submit, hourly retry of the offline queue, reconciliation, attaching references, polling, restore from history | issuance (revert, claim), KSeF | `KsefSubmission`, `KsefDelivery` |
| KSeF client, sessions, credentials (`packages/ksef-client`, `ksef.service.ts:64-206`, `routes/companies.ts`, `KsefSettingsForm`, confirmation of production) | `KsefSession`, `CompanyKsefCredential`, `Company.ksefEnv` and `ksefTokenEnc`, the environment that a page shows | press and confirm, look up, refresh, authenticate, store, the chain of calls with its retry after a 401, save a token, change the default | submission, synchronization | `KsefSession` |
| Outgoing invoices (`services/invoice.service.ts`, `services/storage/local-fs.ts`, `services/invoice-ksef-submission.service.ts`, `routes/invoices/outgoing.ts`) | `Invoice`, `Company.invoiceSeq*`, `FileRecord`, files on disk | edit, issue (reserve number, totals, PDF, XML, finalize), reset of a stale reservation, revert to draft, rebuilding the document for KSeF | submission, backup | `InvoiceIssuance` |
| Register, corrections, figures (`outgoing.ts:1690-1936`, `routes/reports.ts`, `contractor-financials.service.ts`, `dashboard-summary.service.ts`) | `Invoice` with lines, `InvoiceVatBreakdown`, `correctionRequestHash` | draft, issue, verdict, idempotent correction, revert; turnover, VAT register, dashboard | issuance and submission, one step each | `InvoiceRegister` |
| Arithmetic, FA(3) XML, PDF, amount in words (`packages/fa3-xml`, `packages/pdf-templates`, `packages/shared-utils`) | none | totals with rounding, build, check and parse the XML, VAT table of the PDF, words | issuance, the register, the forms | `InvoiceMath`, `InvoiceDocuments` |
| Drafting: contractors, catalogue, agreed rates, the forms and the page of an invoice (routes of the API and `apps/web`) | one row each, and what a page keeps | create, edit, archive, agree a rate; select, type, save, refresh | other users | `InvoiceDrafting` |
| Incoming invoices (`routes/invoices/incoming.ts`, `services/ocr/process.ts`, `services/ksef-incoming.service.ts`) | `IncomingInvoice`, OCR job in memory | upload, OCR, confirm, reject, synchronization with KSeF | KSeF, OCR engine | `IncomingInvoice` |
| Google Drive backup (`services/backup/gdrive.ts`) | `GoogleDriveCredential`, `BackupRun`, files on the drive | connect, incremental backup | `saveFile`, revert, Google | `CompanyBackup` |
| Backup policy, schedule, triggers (`company-backup-policy.ts`, `routes/backup`, `routes/companies/backup-policy.ts`, one-shot runner) | `CompanyBackupPolicy` with `lastScheduledRunKey`, cookie of an authorization | update, authorize, due test, slot reservation, backups by hand and after issuing | backup | `BackupPolicy` |
| Authentication, members, invites (`routes/auth/google.ts`, `plugins/auth.ts`, `routes/members.ts`, `routes/companies.ts` and `apps/web` sessions) | tokens in cookies, `CompanyMembership`, `UserInvite` | sign in, refresh, load a page, sign out, found a company, change a role, remove, invite, accept | everything (the role in the token) | `Access` |
| iCloud backup (`services/backup/icloud.ts`) | `FileRecord.backedUpAt` | copy and mark | `saveFile` | not modelled |
| Lists, file serving, health, translations, scripts, `ops/` | none | read-only queries, one-off jobs | | not modelled |

What makes each part hard, and what makes it correct:

* **Submission.** Two calls claim one invoice; a reply is lost after KSeF has taken the invoice;
  a crash falls between the flag and the transmission; a poll writes an answer after somebody
  else has. Correct means: sent at most once, verdicts only as KSeF gave them, nothing that was
  sent is lost sight of, and what was not sent is tried again.
* **Sessions.** A token is replaced while an authentication with the old one is on its way; a cached
  session outlives what KSeF honours; a page changes its environment between the button and
  the confirmation. Correct means: sessions follow the credential, requests run where they were
  pressed, access comes back.
* **Issuance.** Numbers come from a counter, artifacts from the row at the time, and a request
  may stop anywhere or run for longer than its reservation holds. Correct means: one number per
  invoice and none shared, the documents show what the row says, an issued invoice does not
  change, KSeF gets the invoice that was issued.
* **Register and arithmetic.** Equal requests for a correction arrive together; amounts are rounded
  in several places, from numbers as typed and as stored. Correct means: one correction, which
  undoes its invoice to the grosz, and rows, XML, words and figures that agree.
* **Drafting.** Forms outlive the row they were filled from, answers come late, two programs
  calculate the same sum. Correct means: what was shown is what is saved, under its own name.
* **Incoming.** OCR, users and synchronizations write one row without looking. Correct means: a
  synchronized invoice is stored once and stays, a scan is linked to the invoice it shows, and
  no scan is stuck in OCR.
* **Backup and its schedule.** The window of a backup is computed from times read at different
  moments, backups and runners overlap, local time jumps. Correct means: no file is passed
  over, a slot is run once, a stored policy can be evaluated.
* **Access.** Handlers go by the role in a token. Correct means: a lost role ends with the token,
  an invitation grants one membership, no page is redirected for ever.

`PROJECT.json` lists each hazard at its line with the properties that would catch it.

## 2. Modules and plan

| # | Modules | Proofs |
|---|---|---|
| 1 | `KsefSubmission`, abstract `KsefDelivery` | `KsefProofs` |
| 2 | `InvoiceIssuance` | `InvoiceIssuanceProofs` |
| 3 | `IncomingInvoice` | `IncomingInvoiceProofs` |
| 4 | `CompanyBackup` | `BackupProofs` |
| 5 | `BackupPolicy` | `BackupProofs` |
| 6 | `Access` | `AccessProofs` |
| 7 | `KsefSession` | `KsefProofs` |
| 8 | `InvoiceMath` <- `InvoiceDocuments` <- `InvoiceRegister` | `InvoiceMathProofs` <- `InvoiceRegisterProofs` |
| 9 | `InvoiceMath` <- `InvoiceDrafting` | `InvoiceMathProofs` <- `InvoiceDraftingProofs` |

`A <- B` means that B extends A. `InvoiceRegister` composes the amounts, the documents and the
life of the rows; what issuance and submission are in detail is one step there, justified by
1 and 2. `KsefDelivery` is the abstract specification of what the submission promises; 1
implements it.

Worth doing next: the patterns of invoice numbers and what resets the counter
(`invoice.service.ts:60-166`); a composition of 1 and 2 over their interface (status, claim,
verdict), which appears in 2 as the variable `ksef`.

For each component `X` there is the specification `X.tla` with its properties at the end,
`MCX.tla`, which holds the constants and symmetries of the runs, `X_<run>.cfg`, and
the proofs named above. `KsefProofs` is about submissions and about sessions, `BackupProofs` about when a
backup runs and what it does; each extends both its models, which is why the specifications of
the second ones are called `SessionSpec` and `BackupSpec`. `InvoiceMathProofs` has the lemmas about
amounts that the register and the forms of an invoice share. Definitions whose comment starts with
"Mutant" are broken variants of the definition that follows them; they are in no specification and
show that a property notices such an error.

Every mapped definition names its source lines in `PROJECT.json`.

### KsefSubmission

A worker is one call of `submitInvoiceToKsef`, from the route (`ReadForSubmit`) or from the cron
job (`ReadForRetry`); a poller is one call of `pollKsefSubmissionStatus`, from the status route,
from reconciliation or from `attachKsefSubmissionReferences` (`StatusRequest`, `CronPoll`,
`Attach`). The program counter `pc` of a worker goes through

    read -> Claim -> session -> MarkStarted -> Transmit -> ReplyArrives / ReplyLost / SendRefused
         -> RecordSubmitted -> RecordAccepted / RecordLegacySubmitted, or RecordFailure

Rows: `status`, `last` are `InvoiceKsefState`; `legacy` is `Invoice.ksefStatus`; `count`,
`subStatus`, `started`, `refs` and `number` are the `KsefSubmission` rows by attempt.
KSeF is the environment: a transmission flies, is received, and is accepted or rejected later, in
any order with all else (`Receive`, `Decide`). Environment checks are left out because every
statement has the same one. `AuthLookalike` says whether the text of a lost reply may contain
"401": the test for a 401 is a search in a text that holds the URL, the session reference and
the body (`packages/ksef-client/src/client.ts:67-79`, `ksef.service.ts:357`).

### InvoiceIssuance

Issuers, reverters and submitters are requests. A draft stands for lines, dates and contractor,
an account for the company data that are copied when issuing; an artifact is the record of what
it was made from (`Documents`). `stale` is the passing of five minutes since `issuingStartedAt`;
unless `Slow`, a request has ended by then. A number is a period and a count, the
patterns being planned for module 5. `Lose` damages a file that is on disk.

### IncomingInvoice

The upload request with its OCR (`ocr`), reviews (one read, one unconditional write) and
synchronizations (`spc`), which take the invoices KSeF listed one by one: lookup by reference,
lookup by seller and number, link, create or skip. Rows that synchronizations create are named by
their KSeF invoice. Amounts, dates and contractors are copied and never looked at, so they do not
appear.

### CompanyBackup

A run is one `backupCompany`; `pending` holds the records with the path that the query returned.
Time is a counter that both `createdAt` and the cutoff are read from. `LateInsert` allows a
record to become visible arbitrarily long after its time was taken. `drive` keeps, for each
file, in which state it was uploaded.

### BackupPolicy

Three kinds of processes: updates of a policy (`Patch...`: two queries at once, a merge, an upsert of
every column), authorizations (a flow, its signed state, and the cookie it is bound to), and
the one-shot runners of the scheduled backup, which read all policies once and then reserve slot
by slot with a conditional `updateMany`. Local time is a function of the minute (`LocalDay`,
`LocalTime`), so that an instance can set clocks back. What a backup does with the
credential is one step (`BackupOutcome`). The variable `disturbed` collects the companies for which
`SlotRunsOnce` promises nothing: their schedule was changed, or a runner kept them waiting over
midnight, when the key of one slot can overwrite another's.

### Access

`authToken` and `refreshToken` are the cookies of a user's browser, with the claims they were made
from; `rows` are `Company` and `CompanyMembership`. Handlers of the API are one step against
the token (`Claim`); two statements whose order matters are two steps (`join`: the look-up of
an invitation and the transaction that accepts it; `sign`: the rows are read and the token is made
of them). A page goes round `load` and `refresh`.

### KsefSession

One company. A request is `asking` for confirmation, then `lookup`, `touch`, or, without a usable
session, `load`, `keys`, `challenge`, `post`, `poll`, `redeem`, `store`, and then the chain of
calls of its kind (`Following`). A call that is refused goes back once to authenticate
(`Reauthenticate`). The field `late` of a session says that its authentication ran while the
credential was being saved; `EnvironmentOf` says for which environment a token was made, which the
code cannot see.

### InvoiceMath, InvoiceDocuments, InvoiceRegister

`InvoiceMath` has decimals of any scale with the rounding of `invoice-math.ts`, and what the columns
of the database keep. `InvoiceDocuments` has the FA(3) XML as a record of tags and amounts, its
checks, what the parser reads out of it, the table of the PDF, and the amount in words.
`InvoiceRegister` gives rows these amounts: a draft is computed from the lines as typed (`Typed`,
`Retyped`), the documents at issuance from the lines as stored, a correction copies the columns
with a sign before them. Requests for a correction are the look-up by hash, and the creation under
the lock on the original with the unique index; reverts and submissions are a read and a write, so
that they can overtake one another.

### InvoiceDrafting

One user with one page (`page`) and one call at a time (`call`), against changes of others
(`OthersChange`) and answers that are lost (`Failed`). The pages are the catalogue of services,
the list of contractors with its summary, one contractor with the agreed rates, the form of an
invoice, and the page of an invoice with its buttons. A field stands for its content by naming
the service it was typed for. On the page of an invoice two calls can be under way (`Slots`),
as its buttons are guarded by one variable `loading`.

## 3. Runs

Eleven runs finish without error; the last shows where the code departs from what a comment
of the repository says.

| Run | Bounds | What it shows |
|---|---|---|
| `submission_safety` (24k states) | 1 invoice, 2 workers, 1 poller, 3 attempts | sent at most once; retry never resends; verdicts are KSeF's; refinement of `KsefDelivery`; a safely failed attempt is followed by another |
| `issuance_documents` (329k) | 1 invoice, 3 issuers, 2 submitters, 2 drafts, 2 accounts, files get lost | an issued invoice has artifacts of what its row says, adds up, does not change, and is what KSeF gets |
| `issuance_numbers` (415k) | 2 invoices, 3 issuers, 1 reverter, 1 submitter, 2 periods, slow requests | numbers are never shared; retries use up none |
| `incoming_sync` (690k) | 1 upload, 2 KSeF invoices of one seller, one of them unnumbered, 2 reviews, 2 synchronizations | counted invoices stay, scans are linked to what they show, fetched rows do not change, OCR ends |
| `backup_files` (2.6M) | 1 file, 2 runs, 4 readings of the clock, 2 copies, 1 grant, files get lost | neither `lastBackupAt` nor a recorded success passes over the file |
| `backup_schedule` (40k) | 2 companies, 2 runners, 3 minutes: the second repeats the local time of the first, the third is that of the next day; daily and weekly | a slot is run once; what a runner found due is run although other backups fail |
| `backup_updates` (1.2M) | 1 company, 2 updates, 2 authorizations in one browser, 3 minutes | the policy stored can be evaluated; an authorization that was overtaken or is late connects nothing |
| `access_members` (435k) | 2 users, 1 company, 1 invitation, 1 page, 2 acceptances; tokens live 1 and 2 units of time, of which there are 2 | a lost role is honoured no longer than a token lives; an invitation grants one membership; only a former administrator takes away the last; pages are decided |
| `ksef_session` (671k) | 1 request, 2 administrators, 2 tokens of TEST and 1 of PRODUCTION, 1 fault, 2 changes | sessions follow the credential; requests run where they were pressed; a second copy only if the text of a lost answer looked like a 401; access returns |
| `register_corrections` (335k) | 1 original with 1 draft and 1 edit, 2 corrections, 2 requests, 4 bodies of which 2 are refused | equal requests make one correction; what was corrected stands; a cancellation undoes its invoice; rows, XML, PDF, words and figures agree |
| `drafting_pages` (964k) | 2 contractors, 2 services, 3 initial catalogues and drafts, 2 lines, 1 new rate, 1 visit, 1 trouble | what is typed for one service is not saved as another's; summaries, prices, sums and the page of an invoice show what they are of |
| `register_turnover` (violation) | as above | the turnover of a contractor leaves out all ordinary invoices (`contractor-financials.service.ts:42`) |

Why these bounds are enough to meet the interesting cases:

* *Submission.* One invoice: rows of different invoices are never in one statement, and workers
  and pollers keep no state across calls. Three attempts are needed: the first fails safely, and two
  calls that have read the queue compete for the second and the third. One poller writes late
  over what two workers do; with two pollers and three attempts the liveness check takes
  too long, and the proofs cover every safety property of this run but `QueuedIsRetried` for any
  number of pollers.
* *Issuance.* A stale reservation that is reset and taken again needs two issuers; three give a
  duplicate request in the same moment. Two drafts and two accounts make an edit visible. Numbers
  need two invoices and two periods; reverts and slow requests are there, files are not the point.
* *Incoming.* Two invoices of one seller, of which one is listed without its number, can be
  mixed up by a lookup; two synchronizations race to link and to create.
* *Backup.* Files are independent of each other except that one that is missing stops all, which
  is a failure like any other for the second; one file, and two runs that overlap in all ways.
  Four readings of the clock put a file before, at and after the cutoffs of two runs.
* *Policy.* Two runners compete for a slot, and the three minutes hold a clock that is set back and a
  midnight. More runners are covered by the proof of `SlotRunsOnce`. Updates and
  authorizations touch no slot, so they have a run of their own.
* *Access.* Two users can demote one another, one can accept while removed; two units of time let
  one token expire while the other is good, and then the other.
* *Sessions.* Two administrators overlap a save with a change of the default; one fault suffices for
  the only retry that there is, and the request can be pressed again and again.
* *Register.* The lines of `MCInvoiceRegister` are chosen for their rounding (half a grosz in VAT and
  in net, three and five decimals) and for irregular words. Two requests race; the second
  correction may be one of a correction.
* *Drafting.* Three starts: a catalogue of one service, of an archived and an active one with the
  draft of a cancellation, and one with a draft. One lost answer and one change by others are what
  the properties except.

Symmetry sets are used only in runs without liveness. Deadlock is checked where processes go on for
ever; where processes or clocks are bounded, runs end in states without a next step, and
`CHECK_DEADLOCK` is off in their cfg.

**Fairness.** `KsefSubmission!FairSpec`: weak fairness of the next step of every call (the process
goes on running it; `WorkerDies` and `PollerDies` stay possible), weak fairness of the cron job
reading a queued invoice (it fires hourly, `lib/cron.ts`), and strong fairness of `Claim`, so that
not every call is killed before its first transaction. `IncomingInvoice!FairSpec`: weak fairness
of the steps of an OCR, whose calls return or time out; `StopOcr`, a process that stops, is always
possible, and `OcrSettles` excepts it. `BackupPolicy!FairSpec`: a runner that was started goes on
until it exits or fails, since its calls to Google end or time out. `Access!FairSpec`: the API
answers and the browser follows where it is sent. `FairSessionSpec`: handlers run on,
and sessions reach their time of expiry. That administrators keep a good token and users keep
pressing is a premise of `AccessReturns`, not an assumption. Nothing else is assumed to happen.

## 4. Proofs

All theorems hold for any constants that meet the named assumptions: any numbers of invoices,
calls, files and runs.

| Module | Theorem | Needs |
|---|---|---|
| `KsefProofs` (submissions) | `TypeCorrect`, `ReceivedIsWithinReach` | |
| | `TransmittedOnce`, `RetryIsSafe`, `FlagIsWrittenAhead`, `VerdictsAreTrue`, `DeliveryImplemented` (refinement) | `AuthLookalike = FALSE` |
| `InvoiceIssuanceProofs` | `TypeCorrect`, `NumbersAreUnique`, `NumbersAreKept` | |
| | `IssuedInvoicesAreDocumented`, `IssuedInvoicesAddUp`, `SentInvoicesAreIssued`, `IssuedInvoicesAreFinal` | `Slow = FALSE`, no reverts |
| `IncomingInvoiceProofs` | `TypeCorrect`, `FetchedInvoicesAreFinal` | |
| | `CountedInvoicesArePresent`, `SyncedScansMatch` | `Corrects = FALSE` |
| `BackupProofs` (policy) | `TypeCorrect`, `PoliciesStayConsistent`, `SlotsRunOnce`, `LatestFlowsConnect` (an action property) | |
| `BackupProofs` (backup) | `BackupTypeCorrect` | |
| | `NoFileIsSkipped`, `SuccessfulBackupsCover` | `LateInsert = FALSE` |
| `AccessProofs` | `TypeCorrect`, `AdministratorsAreRecent`, `InvitesGrantOnce`, `FormerAdminsStrand` | |
| `KsefProofs` (sessions) | `SessionTypeCorrect`, `SessionsFollowCredentials`, `RequestsRunWherePressed`, `SecondCopiesNeedMisreading` | |
| `InvoiceRegisterProofs` | `CorrectionsAreUnique`, `CorrectedInvoicesStand`, `CorrectionsBalance`, `XmlSaysTheRows`, `WordsAreRight`, `TheBooksAgree` | |
| `InvoiceDraftingProofs` | `SavesGoToTheirServices`, `SummariesAreTheirOwn`, `SavedAsShown`, `PricesAreTheBuyers`, `PagesShowTheInvoice` | |

The assumptions in the last column exclude the behaviours described in 5, in which at least one of
the theorems of that line fails; the invariants below are inductive only without them.

**The arguments.** *Submission:* no property is inductive by itself. `SafetyInv` says who may hold
the right to transmit: at most one worker is beyond its claim on the latest row of an invoice
(`ClaimInv`), nothing was sent for an invoice whose worker has not come to its transmission
(`UnsentInv`), a worker about to send has its flag up in the database (`SendingInv`), nothing was
sent for what looks retryable (`RetryInv`), and a transmission belongs to the latest row with its flag up (`SentInv`). A claim can then
only succeed where nothing was sent. `VerdictInv` adds that whatever a call remembers of KSeF's
answers (`KnownInv`, `AnswerInv`) is still true when it writes, because verdicts are never taken
back; the refinement uses both, since only with a single transmission the booked verdict is
unambiguous. `ReachInv` says that a row is decided only by a call that had references for it, and
that references are never taken away, so the last row either has them or is open to attaching them.
*Issuance:* `NumberInv` says that every number used in a row, an artifact, a transmission or a
request is at most the counter of its period and belongs to one invoice. `DocumentInv` says
that, unless requests are slow, one issuer works on an invoice at a time and everything it holds
is what the row says, because a reserved row cannot be edited. `IssuedInvoicesAreFinal` follows from it: no
step changes an issued row, and the latest PDF is what the row says before and after each step. *Incoming:* a seller reaches a row
only by the one write of its OCR, which comes before any link, so what a synchronization has found
is still so when it links, and two runs that found the same scan found it for the same invoice.
*Backup:* a covered time lies in the past, and a record becomes visible with the present as its
time, so coverage is stable; a run inherits the coverage of the time since which it looks, has
every other file of its window pending or on the drive, and covers its cutoff when
nothing is pending. Strictness (`snapshotCutoff < instant` once the query has run) is what
keeps a file stamped at the cutoff from being missed.

*Policy:* a merge that was validated is consistent once the times of no schedule are dropped, and
an update only writes such merges, whatever the row has become. For slots, `SlotInv`
says of every company that is not disturbed that what runners have read or have due is of today,
and that a slot of today that was run is the one whose key is stored; a slot of an earlier day is not due
again because calendar days do not go back (`CalendarAssumption`). This part of the proof is why a runner that
has not read the policies by midnight counts as waiting. *Access:* claims are bounded through
both tokens and every request that is about to sign: whatever they grant was granted by a row
read no longer ago than the life of an access token. An administrator does not manage himself,
so the last one goes only at the hands of somebody who is none in the rows. *Sessions:* `SessionInv` is
about requests on their way to a session: the token that one authenticates with is that of the credential,
or the credential was saved since it was read; and a request that has sent its invoice only has
`close` and `accept` before it, unless an answer was misread. *Register:* two corrections with
one hash are excluded by the index, and a request's hash names an accepted original (`Wanted`);
`CorrectedAccepted` carries this over to the rows, and `Standing` says that only a revert that read
before a claim turns an accepted invoice into a draft.

*Amounts.* What the register says about amounts rests on lemmas about `InvoiceMath` and
`InvoiceDocuments` for every amount and any number of lines. Sums, breakdowns and words are recursive
functions on `0 .. n`; a fact about all `n` is proved by taking the least number that is a
counterexample, which exists because the order of the numbers is well-founded
(`LeastNumber`, from `WellFoundedInduction`). The lemmas say that a sum may be split, extended and
regrouped by rate; that rounding is odd (`HalfAway` of the opposite is the opposite), so that the amounts
of a cancellation, which are computed again, are the opposites of the original's; that a number
of at most four decimals is stored as typed, so that the XML, made of the rows, and the breakdown, made
of the request, are sums of the same line amounts; that the VAT of the template is at most a grosz a line from
the stored one; and that reading the words that `integerToWords` puts together gives the
number back, group by group. `Contents` is the invariant that is inductive together with
`RegisterInv`: rows hold lines the schema lets in, with the totals and the breakdown calculated of
them (`RowsHold`); the files of an issued row are those that are made of it as it is now (`FilesOK`);
the lines of a correction are the corrected lines of its original (`LinesOK`); and what a request has read
of the original is still what the original says (`WishesOK`), unless a revert overtook a
submission. It is needed because the correction is written of lines that were read statements before,
and its XML is built later still. The words are right below a thousand millions
(`WordsEnd`): `integerToWords` writes the number of millions with the words of three digits.

*Drafting:* `Framed` says that a call belongs to the page that sent it; with it an action of one page
says nothing about the others. `CatalogueOK` says that every field of the form stands for the
service it was typed for, wherever the form, a call or an answer has taken it, so that the save,
which names the service selected, is of the same one. `SummaryOK` says that the summary asked for is that of the
contractor who is selected now, since the effect asks again whenever the selection
changes. `RatesOK` and `FormOK` say that a price taken from a rate is that of the buyer of
the form, and that the amounts which the form sends along are those of its lines; that they are
also those which the server calculates is arithmetic (`CalcLineIs`, `RoundsAlikeMeans`): the lines of a form are those
with a name and those without, and their amounts add up, line by line rounded alike.
`InvoiceOK` says that the page of an invoice shows the invoice or a refresh is on its way: an
action that changes the row is followed by one, however two calls overlap.

Some theorems are not about a property of a run: the `TypeCorrect`s, `FlagIsWrittenAhead`
(`TransmissionIsFlagged`) and `ReceivedIsWithinReach` (`NeverOutOfReach`). The types hold for all
constants, so no run repeats them.

**Assumptions on the constants.** `LinesAssumption` and `RowsAssumption`: lines are what the
schemas of the requests let in, sequences of numbers with a known rate of VAT; drafts found at the start are
drafts that the form made, or cancellations. `PricesAssumption` (`RoundsAlike`): of no price do the net amount or
the VAT end in exactly half a grosz. The code justifies the first two. The third excludes what the
code does not get right for certain: `Math.round` on binary fractions may round such an amount down where the server
rounds it up (a price of 1.005 is shown as 1.00 and saved as 1.01). It says nothing about any other
price, of however many decimals. Of the others, `CalendarAssumption` is explained above and the rest
are types of bounds and of sets.

**Only model-checked:** the liveness properties `QueuedIsRetried`, `OcrSettles`,
`SlotIsServed`, `PageIsDecided` and `AccessReturns`, since liveness under fairness and `ENABLED` are
beyond the prover. Every invariant and every action property of a passing run is also a theorem.

## 5. What the models showed

One violation is checked by a run and is in `PROJECT.json` under "findings". The following were met
while the models were written and are in the models or their comments, or were left out of them as said
here. For some a document or a comment says otherwise; it is quoted by its place.

* *Submission.* A late write of a worker can turn an accepted invoice back to SUBMITTED
  (`ksef.service.ts:387`; `docs/data-model.md:442`). An attempt that was interrupted after its claim
  stays OFFLINE_QUEUED, and the cron job skips it for ever (`:653`; `docs/data-model.md:730`).
  With `AuthLookalike = TRUE` a lost reply whose text contains "401" counts as unauthenticated
  and the invoice is sent again (`:357`). The legacy column is written SUBMITTED without looking
  (`:445`), so it may disagree with the state row (`docs/data-model.md:839`). PENDING also
  stands for an outcome that is unknown (`:464`; `docs/data-model.md:735`).
* *Sessions.* An authentication that is in flight while a credential is saved stores a session of the
  old token. Saving a credential over a change of the default can leave a token of TEST as the
  company's for PRODUCTION. A refused refresh leaves the row until it expires. Polling a status has no
  retry after a 401. `setActiveKsefEnvironmentFromBrowser` has no caller, and its cookie's
  name differs from the one that is read. `session.update` throws if the row was deleted meanwhile.
* *Issuance.* KSeF gets the company's present bank account, the customer has the one stored at issuance
  (`invoice-ksef-submission.service.ts:130`). A revert racing a submission makes a draft without
  a number of an invoice on its way to KSeF (`outgoing.ts:1655`). A request that outlived its
  reservation finalizes another version (`invoice.service.ts:573`; comment `:206`). A revert that
  stops after deleting the file records leaves an issued invoice without artifacts
  (`outgoing.ts:1653`). A number that was kept stays when the draft moves to another period
  (`invoice.service.ts:492`). Artifacts made from A, B and A again are served as B, because
  `saveFile` finds the first record (`local-fs.ts:133`). The counter is the company's and not the
  environment's, and a pattern without a month or year repeats numbers, at which the unique index
  stops the issuance (`invoice.service.ts:127`).
* *Register and documents.* The VAT register and the dashboard count formal corrections, whose
  amounts repeat the original's. Two cancellations with different reasons may both undo one
  invoice. A cancellation of a cancellation writes "--" before an amount and fails with a 500
  (`CorrectionFails`). Numbers of more than four decimals make the stored breakdown differ from the
  XML (`fine`). The schema of a line accepts "007", which the arithmetic refuses. The PDF computes VAT
  from net amounts that are not rounded (`invoice-template.ts:63`; `docs/data-model.md:477`), and always says
  "Faktura VAT" and PLN. The parser's net amount leaves out the rates without VAT.
* *Drafting.* An amount of exactly half a grosz may be shown a grosz lower than it is saved
  (`InvoiceLineItemsEditor.tsx:47`). Priced lines without a name count in the sum that is shown and are dropped when saving.
  Switching the contractor keeps the price of the former one. Fields that are cleared are sent as undefined
  and stay. The form of an invoice refuses negative prices, so the draft of a cancellation cannot be saved in
  it. The edit form is written back as a whole. A lost answer and a second press make a second draft. On the
  page of an invoice one variable `loading` serves all buttons, so a second e-mail may be sent while the
  first is under way; failed calls are not followed by a refresh.
* *Incoming.* OCR overwrites a decision that was given before it started (`ocr/process.ts:32`;
  `docs/data-model.md:558`). A crash during OCR leaves OCR_PROCESSING for ever. Two users who confirm
  and reject at once both succeed (`incoming.ts:584`). If KSeF lists an invoice before the OCR of its
  scan has ended, there are two rows. With `Corrects = TRUE`, a number corrected between search and
  link lets a second link replace the first reference. KSEF_SYNCED arises only from a link to a
  scan; fetched invoices are CONFIRMED at once, where `docs/data-model.md:750` says otherwise.
* *Backup.* A damaged file is uploaded and its repair never is (`gdrive.ts:435`, `local-fs.ts:183`;
  `docs/data-model.md:541`). With `LateInsert = TRUE` a record that was stamped before the cutoff
  and inserted after the query is passed over by `lastBackupAt`. A run that read the old
  credential can store its tokens, or the need to connect again, over a new connection
  (`gdrive.ts:333,350`). Overlapping runs can set `lastBackupAt` back, which costs duplicates and
  nothing else.
* *Policy.* A runner at work backs up a company that was switched to MANUAL meanwhile. A minute that is skipped
  when clocks go forward never comes. A crash after the reservation loses the slot, and an `updateMany` that
  fails loses those of the companies that follow. A schedule changed within a day, or a runner held up over
  midnight, can bring a slot back. The callback clears the cookie of the flow that overtook it. A backup
  started by hand does not look whether the connection is enabled, nor report that it must be renewed.
* *Access.* Two administrators with old tokens can demote one another. An invitation can be accepted
  again by a second acceptance in flight after its user was removed. Invitations outlive the removal of
  who made them. The refresh of another tab can set cookies again after signing out, or older claims over
  newer ones (`docs/architecture.md:268`). The link of an invitation has no page.

## 6. What is not modelled, and limits

Read-only queries, lists, translations, formatting and parsing of XML, PDF layout, the text of
e-mails, the database dump, the backup to iCloud and one-off scripts: no state that others could find
inconsistent. The patterns of invoice numbers (a number is a period and a count). Access checks are
taken as passed outside `Access`. Database failures are failures of a statement as a whole; PostgreSQL
keeps row locks and unique keys. Prisma transactions are atomic actions where the code locks the row
first. KSeF takes a number once from a seller and does not take back a verdict. Encryption of
credentials. Binary fractions: the template, the parser and the forms add them, and the models take them
as exact; the forms' amounts of exactly half a grosz are excluded by `PricesAssumption` (see 4).
`CompanyBackup` leaves out folders, and lets a run start at any time, which is more than any
trigger does; `BackupPolicy` says when the triggers do. `InvoiceDrafting` has one page at a time; other
users change rows only as far as the open page shows or sends them, and one draft.
`KsefSession` has one company.

## 7. Running

    tlc -workers 2 -config KsefSubmission_safety.cfg MCKsefSubmission
    tlapm KsefProofs.tla

Each pass run takes half a minute to four minutes, each proof module up to seven minutes.
`InvoiceRegisterProofs` and `InvoiceDraftingProofs` extend `InvoiceMathProofs`, whose lemmas are
proved by a call of its own.
