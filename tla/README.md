# Translation console: specifications, model checking and proofs

The translation console lets translators work on the labels of a program
without access to its repository. A project has branches, a branch has a
*translation source* (property files in Subversion). A *request* exports the
difference of two versions of the source, collects new labels and merges them
back; a *contribution* proposes labels directly. The server is written in Java;
its pages are templates that JavaScript fills and drives.

The specifications are written from the code under `src/`. Paths of the server
are relative to `src/txconsole-backend/src/main/java/net/txconsole/backend/`
unless they start with `txconsole-`, paths of the browser to
`src/txconsole-web/src/main/webapp/static/`.

## 1. Inventory

### Server

| Component | Code | State | Operations | What is hard | What makes it correct |
|---|---|---|---|---|---|
| Translation requests | `RequestServiceImpl`, `dao/impl/RequestJdbcDao` | rows of REQUEST, REQUEST_ENTRY, REQUEST_ENTRY_VALUE | create, edit an entry, upload a response, merge, delete; lists, views and controls read | every operation checks, works and commits without a lock; the source is outside the transaction | the diff stored is that of its versions; a closed request is merged; events tell the status |
| Maps and diffs | `TranslationMapServiceImpl`, `TranslationMap`, `TranslationDiff*` | none | diff, apply a diff, merge maps, controls | null, blank and absent labels; only the default locale classifies a key | a merge touches its own keys |
| Translation source | `support/SimpleTranslationSource`, `SVNTxFileSource`, `SVNServiceImpl` | the repository | read a version, write a map | reading and writing use two checkouts; Subversion rejects out-of-date files only | what was written is in the version recorded |
| Property format | `PropertiesTxFileFormat` | files of a working copy | read, write | files that are not rewritten; locales that differ between groups | deleted keys leave the files |
| Contributions | `ContributionServiceImpl` | CONTRIBUTION, CONTRIBUTION_ENTRY | post (staged or direct), review, reject | source written before the row is checked; mails before the commit | mails tell what became of it; its labels reach the source |
| Configuration | `AdminServiceImpl`, `ConfigurationJdbcDao`, `MailServiceImpl`, `DefaultLDAPProviderFactory` | CONFIGURATION, three layers of caches | save, get | evictions before the commit; values read one by one | caches agree with the table, sooner or later |
| Projects and branches | `StructureServiceImpl`, `ProjectJdbcDao`, `BranchJdbcDao` | PROJECT, BRANCH, parameters, ehcache | create, delete, read | entries that are not evicted; cascading deletions | a read returns what is committed |
| Accounts and rights | `AccountServiceImpl`, `SecurityUtilsImpl`, LDAP provider | ACCOUNT, PROJECT_AUTHORIZATION, sessions | login, grant, revoke, profile | rights cached in the session | a password is one that was typed twice |
| Events | `EventServiceImpl`, `EventJdbcDao` | EVENT | add, list | written in the transaction of their cause | one event per committed change |
| Working directories | `support/HomeDirIOContextFactory` | directories on disk | create, clean up every 12 hours | clean-up by age, not by use | none in use is removed |
| Exchange files | `PropertiesTxFileExchange` | none | export a diff, read a response | escaping, names in the archive | a response names its entries |
| Messages | `MessageServiceImpl`, `MailPost` | none | send | mails leave before the transaction commits | see contributions |
| Web controllers | `txconsole-web/.../web/controller`, `web/resource` | sessions | one service call each | none of their own | |

### Browser

| Component | Code | State | Operations | What is hard | What makes it correct |
|---|---|---|---|---|---|
| Calls | `js/lib/ajax.js` | indicators | send, answer, fail | answers out of order or never | indicators end |
| Request page | `js/app/controller/request-view.js`, `template/request-*.html` | fields, marks, previous values, filters | load an entry, edit, save, cancel; filter rows | a field stays editable while it is saved; two saves of a field | the value to go back to was on the server; a quiet field is saved |
| Dynamic lists | `js/lib/dynamic.js`, `render.js`, `js/app/controller/*` | offset, rows, buttons | first page, next page, reload, delete | pages and reloads overlap; the list changes meanwhile | no row lost or shown twice |
| Contribution page | `js/app/contribution.js` | list of editions, fields | search, edit, cancel, submit, review, reject | answers replace a list that is being edited | no edition is forgotten |
| Dialogs | `js/lib/dialog.js`, `js/app/component` | open forms | open, fill, submit, leave | a hidden form stays in the page under the same id | what is sent is what is shown |
| Configurable field | `js/lib/jcombo.js`, `jconfigurable.js` | choice, box | choose, load, read | scripts and templates arrive late | the choice is displayed |
| Accounts | `js/app/accounts.js`, `account-*.js`, `password.js`, `profile.js`, `controller/header.js`, `acl-project.js` | forms, look-up | create, update, reset, change; look up | late answers, hidden fields | see above |
| Templates | `js/lib/handlebars.js`, `js/app/template` | none | parse, compile, run | nested programs and outer scopes | compiled and plain meaning agree |
| Widgets | `bootstrap/js/bootstrap.js` | open menus, sections | click, keys, transitions | transitions, keys and the mouse | one menu, one section |

### How they interact

A controller calls one service method; the method is one database transaction
(`@Transactional`, READ COMMITTED on H2 with MVCC) that calls other services
and the DAOs, the source and the mail server. Services share the database, the
ehcache regions and the repository; nothing else synchronises them. Developers
change the repository without the console. A page calls the server and goes on;
its handlers run one at a time, in the order the answers, the templates and the
user's events come. `PROJECT.json` lists the hazards of the code, each with the
properties that watch it.

## 2. Plan

Done, in this order:

1. requests over the translation source, with an abstract lifecycle;
2. contributions over the same source;
3. settings and their caches;
4. the request page, the lists and the contribution page, over one model of the
   calls they make;
5. the controls of the pages, and the templates.

Left, most important first:

1. projects and branches: cascades and cached rows, against the promise that a
   read returns what is committed;
2. sessions and rights: what a revoked right can still do;
3. working directories: creation, use and clean-up by age;
4. request handlers and contribution handlers over one repository (each is now
   composed with developers, who may commit whatever the other would).

## 3. Modules

### Server

**`TranslationMaps`** has the data: maps (key, locale, label), diffs, and the
functions on them. A key with no label and an absent key are one and the same,
since no property file can tell them apart. `Blank` stands for every label
`StringUtils.isBlank` accepts, `NoValue` for null. `Diff` classifies a key by
its default locale only, as `diffBundle` does. `WriteTo` says what a working
copy holds after `PropertiesTxFileFormat.writeTo`: whole files are rewritten,
but not those the map has no label for.

**`TranslationSource`** is the repository: a sequence of revisions. A commit
(`CommitRevision`) sends the files that changed in the working copy and is
rejected (the action is not enabled, the handler aborts) when one of them
changed after the checkout. `CommitNothing` is the commit without change,
which returns -1. Subversion itself is outside the repository; it is modelled
from the way `SVNServiceImpl` uses it.

**`RequestService`** models `RequestServiceImpl` for one branch.

| Variable | Code |
|---|---|
| `repo` | the repository |
| `requests` | committed rows of REQUEST and of its entries |
| `nextId` | the identity column of REQUEST, which a rollback does not reset |
| `events` | rows of EVENT written per code and request |
| `tx` | for each thread, the operation it runs and its local variables |

A handler starts an operation (`Begin...`, with the checks of the code as
guards), goes through its accesses to the source and the database one action at
a time, and ends with `Commit...` or `Abort`. What it writes to the database
appears when it commits. A step is a separate action exactly when another
transaction, or the repository, can change between it and the one before.
Creation: `BeginCreate`, `Export` or `ExportFails`, `CommitCreate`. Edition and
upload: `BeginEdit` or `BeginUpload`, `LoadEntries`, `CommitEdits`. Merge:
`BeginMerge`, `ReadMap`, `LoadDiff`, `LoadValues`, `Checkout`, `CommitSource`,
`CommitMerge`: `LoadDiff` reads the entries, `LoadValues` the values of one after
the other, as each is a query of its own. Deletion: `BeginDelete`, `CommitDelete`. `Developer` commits to the repository.
The intermediate status CREATED is never committed: creation, export and final
status are one transaction. **`RequestLifecycle`** is the abstract promise on
the status of requests; `RequestService` implements it (`ImplementsLifecycle`).

**`ContributionService`** models `ContributionServiceImpl` for one branch.

| Variable | Code |
|---|---|
| `repo` | the repository |
| `contributions` | rows of CONTRIBUTION and of its entries: never inserted, staged or deleted |
| `nextId` | the identity column of CONTRIBUTION |
| `mails` | what `MailPost.post` was given; the sender swallows its failures |
| `tx` | for each thread, the operation it runs and its local variables |

Stage: `BeginStage`, `NotifyReviewers`, `CommitStage`. Save, for a direct post
(`BeginDirect`, id 0) or the acceptance of a staged contribution
(`BeginReview`): `ReadMap`, `Checkout`, `CommitSource`, then `EndDirect`, or
`LoadReviewed`, `NotifyAccepted`, `CommitSave`. Reject: `BeginReject`,
`NotifyRejected`, `CommitReject`. The reviewer may post other labels than those
staged (`Proposals`). The code grants direct posts and reviews together
(`AccountServiceImpl.getACL`), so `post` saves exactly when the user is a
reviewer. That a deleted row differs from one that was never inserted is a
history distinction for the properties; the guards treat both as absent.

**`SettingsCache`** models the settings of the mail: `db` is the table, `keys`
the values cached one by one (`ConfigurationJdbcDao`), `configuration` what
`AdminServiceImpl` makes of them, `sender` what `MailServiceImpl` makes of that.
A get goes through the layers from the sender or the configuration down, and
fills each on its way back; a save evicts and writes key after key, ends with
the eviction of the two upper layers, and commits or rolls back. Entries expire
after their time to live, and a restart empties everything. `settled` is a
history: no get has overlapped a save since the caches were last empty, by a
restart or by a save that nothing overlapped.

### Browser

**`Ajax`** has the calls in flight, one per connection: a call is served or
refused, answered, or lost before or after it was served. It also has the modes
of the loading indicators, and what they do to an element.

**`RequestPage`** is the edition of one entry. `fields` has, for each locale,
what the field shows, the value it would go back to, its marks and its
indicator; `rendering` the answers that wait for the template; `server` the
values and the status of the request, that other users change. A field is saved
when it is left (`Blur`), by Shift+Enter or by its button; `Saved` and `Failed`
are the handlers of the answer. `held` is a history of the values the server
had, `disturbed` of the fields touched while they were being saved.

**`ListPage`** is a dynamic section: `listing` on the server, `offset`, `rows`
and `handlers` (how many handlers each button has) in the page, `rendering` the
pages that wait for their template. `more` and `paged` tell three kinds of lists
apart. Requests are asked for page by page, and the server pages them
(`SQL.java:52`). Events are asked for in the same way, but their queries have
neither limit nor offset (`SQL.java:38-39`, `EventJdbcDao`): each answer is the
whole list, so with a page of events or more each click shows all of them again
and the button stays. The other lists come as a whole and are loaded again
after a deletion. `clean` is a history: no load failed, no page was asked for
before the last one came or from a list that changed, no reload was shown after
a newer one (`older`).

**`ContributionPage`** has `list`, the editions to submit; `fields`, those the
last search brought; `shown` and `toShow`, the box of the list and the rendering
it waits for. Nothing is assumed of the ids of the fields (`IdOf`):
`getContributionId` joins the names of a key with dashes and replaces its first
dot and slash, so two labels may share an id, and an id may be one no selector
finds (`Selectable`). `kept` is a history of the editions that nothing due to
come may replace.

**`RequestFilters`**, **`Menus`**, **`Accordion`**, **`AccountField`** (the
typeahead and the look-up behind it), **`ConfigurableField`**, **`DialogForms`**
and **`AccountForms`** each model one control of the pages with the code that
uses it. They share no state in the code.

**`Templates`** gives the meaning of a template (`Rendering`): statements
rendered in order, names looked up in the innermost scope, `..` one scope out.
`Program` is a set of programs, with the programs of their blocks; `Nesting`
counts how many blocks of a program are one in the other, and `PageValue` has the
values that templates are rendered with. **`TemplateParser`** makes statements of
tokens with the actions of the grammar. **`TemplateCompiler`** compiles them to
opcodes, chooses what each program gets of the scopes around it (`Depths`), and
runs the opcodes on a stack: `FunctionContext` is the function generated for a
program, a closure pairs a program with the contexts it looks out to, and a
context that was not passed is a reference error. In the page a name looked up
on an undefined or null context raises an exception; the model gives
`Undefined`, and no context of the run gets there. The code numbers the programs
of a template (`guid`) and looks them up by number; a program stands for its
number here, as equal programs share theirs in the code too
(`matchExistingProgram`). **`PageTemplates`** has every form of template the pages
use, how it is written, and the data, for TLC.

### Claims, instances and proofs

`RequestServiceClaims` and `RequestPageClaims` have what documentation, messages
and comments say and the code does not ensure. `MC...` modules instantiate
the above for TLC. Theorems are in `TranslationSourceTheorems`,
`RequestServiceProofs`, `ContributionServiceProofs`, `SettingsCacheProofs`,
`RequestPageProofs`, `ListPageProofs`, `ContributionPageProofs` and
`PageControlsProofs`.

## 4. Runs

| Run | Question | Result |
|---|---|---|
| `request_service` | one request, two handlers, four revisions: stored diff, events, effect of a merge, lifecycle | holds |
| `contribution_service` | one contribution, direct posts, two handlers, three revisions: mails and table, version mailed, effect of a post | holds |
| `settings_cache` | two settings, two configurations, two handlers: what caches hold was stored, is fresh when nothing overlapped, and becomes fresh | holds |
| `request_page` | one field, two calls in flight: what is taken for saved, indicators | holds |
| `list_page` | two items, pages of one: offset, order, reach, buttons, deletions | holds |
| `contribution_page` | two labels, two values, two calls in flight: list, fields and box | holds |
| `page_controls` | the controls and the templates, one at a time | holds |
| `upload_deleted` | are deleted keys safe from edition? (E-011) | no, an upload edits them |
| `lost_change` | is the map written into the latest version? | no, changes between the two checkouts are undone |
| `deleted_key` | do deleted keys leave the source? | no, not the last key of a file |
| `save_cancelled` | does the mark "submitted" tell the truth? | no, not after a cancel or on a field left while a save is under way |
| `edition_cancelled` | does an escape cancel the changes of a label? | no, its edition stays in the list |

**Bounds.** Two handlers are enough for every race of the services: an operation
reads and writes one request, so a race has two sides, the developer being a
third actor. `MaxRevision` 4 lets a merge be overtaken by two commits after its
export. One request and one contribution are checked; the theorems of
section 5 cover any number, ids included. Three keys: two share their files, the
third has a file of its own in a group that is not configured for every
locale. Three contents of the source give an addition, an update, and a
deletion that leaves a label in another locale. Two labels and a blank one tell
a change from none. The deletion of the last label of a file has contents of
its own (`MCLastKeyMaps`). For contributions, `MaxRevision` 3 lets a post be
overtaken once before and once after its checkout, or by the post of another
reviewer; the posts set labels of two keys, one in a locale its group is not
configured for, or clear a label. Two settings that a get and a save take in
opposite orders, and two configurations that differ in one of them, are what a
mixed configuration needs. Two connections are enough for two answers in the
wrong order and for a call lost beside one that is not. In `list_page` two items
and pages of one give a second page, an empty page and a shift; `MaxOffset` 2 lets
the page after the last one be asked for (the offset of a list of events grows
with each click). In
`contribution_page` two fields, one of which no selector finds. `MaxRendering`,
`MaxPending`, `MaxOpenings`, `MaxPosts`, `MaxCalls` and `Query` bound what waits
for a template, the clicks, and the calls in flight of each control; with one
account and one call the run of `AccountForms` is small, and `PasswordsTypedTwice`
covers the rest. `CHECK_DEADLOCK FALSE`: once the bounds are reached, nothing
may be left to do; a user may leave a page for good. Handlers are symmetric in
the runs of invariants of the services.

**Fairness.** None in the services of requests and contributions: their
properties are safety properties, and the code neither retries nor schedules any
of their steps. In `SettingsCache` a handler that has begun ends, and entries
expire: ehcache gives each a time to live (`ehcache.xml`), and a thread of the
server runs to its end. In the pages a call is served and answered, or lost:
the browser reports one or the other; the callback of a template runs once it
is there; the script and the template of a choice are loaded. Nothing is
assumed of users: what they never do is allowed. Every fairness is weak.

**Mutants.** Each property of a passing run is broken by one mutation of the
model that a bug in the code would be (`Mutant:` in the modules); `PROJECT.json`
lists them.

## 5. Proofs

Assumptions: the named ASSUMEs of the modules (shape of the constants, nothing
on their size); TLC evaluates them in the runs.

* `RequestServiceProofs`: the inductive invariant is
  `Inv == TypeOK /\ HandlersKnow /\ EventsTellTheStatus`. `EventsTellTheStatus`
  alone is not inductive: a creation could commit over a request that exists,
  which `CreationsAlone` and `FreshIds` exclude, and a merge could close a
  request in error, which `MergersExported` excludes. One lemma per conjunct,
  one step per action; `Frame`, `BeginLocal`, `AbortLocal` and `ContinueLocal`
  say once what a step leaves alone. `ExportMatchesHistory` and
  `MergeVersionIsOwnRevision` then follow from `Inv` and the immutability of
  revisions, the refinement of `RequestLifecycle` from what a step can do to a
  status, and `MergedLabelsReachedSource` and `MergeTouchesOnlyItsKeys` from what
  a commit does to a label. `RetriesSendNothing` goes with the hazard of a merge
  that is rolled back after its commit: in the state its commit left, trying it
  again with the same entries sends nothing.
* `TranslationSourceTheorems`: types of the operators; `RetriedMergeSendsNothing`
  (from the version a merge made, its diff writes the same files again, those
  with no key left, which are not written, included, so no file is sent; nothing
  is claimed once somebody else commits or an entry is edited); and what a commit
  does to a label: it brings those of the map written
  (`CommitBringsLabels`) and, when Subversion accepts it, keeps those the map has
  as its checkout (`CommitKeepsOthers`). The latter needs that a file untouched
  by the revisions between two versions is the same in both; that would be an
  induction over versions, and is proved instead as an invariant
  (`UntouchedFilesAreKept`), by induction over behaviours.
* `ContributionServiceProofs`: the inductive invariant is
  `Inv == TypeOK /\ HandlersKnow /\ MailsTellTheStatus`. Mails precede commits,
  so `MailsTellTheStatus` needs what a handler about to commit knows: its mail
  was sent (`MailsSent`), nobody else stages under its id (`StagingAlone`,
  `FreshIds`), the contribution it handles was staged (`TargetsStaged`). The
  effect of a post on the source then follows as that of a merge does.
* `SettingsCacheProofs`: types (with the position of each handler in its list of
  keys), `CachedWereStored` (the values a handler carries were stored too), and
  `QuietSettingsAreFresh`. For the latter, while no get has overlapped a save at
  most one save runs and no get with it (`Alone`), what is cached agrees with
  the table or belongs to a key still to be written (`Settled`), and once every
  key is written the upper layers are evicted (`Emptied`).
* `RequestPageProofs`: types; `PreviousWasOnServer`, which needs that every
  answer under way carries a value the server has had (`AnswersWereOnServer`);
  `QuietFieldsAreSaved`, which needs that the saves under way for a field that
  was left undisturbed carry the text the field shows, and that one is under way
  while the text differs from the previous value (`TextsAreSent`).
* `ListPageProofs`: the inductive invariant `ListInv` adds these facts to those the
  run checks: nothing is there before the first load (`NothingBeforeStart`), a
  list without pages is always replaced (`WholeListReplaces`), the page that
  starts a table is alone until it is answered (`FirstPageFirst`);
  while a list paged by the server stays and no load fails, the only load in
  flight asks for the page at the offset (`NextPageNext`), and the rows are the
  first of the list (`FirstItemsReceived`); while a list of events stays it comes
  at once (`WholeAtOnce`). The rows received are a concatenation of
  pages (`FlattenSeq`, a recursive function of the length): that it extends with
  the last page and splits off the first is proved by taking the least length
  for which it would not.
* `ContributionPageProofs`: the inductive invariant `PageInv` adds to those the
  run checks that entries of one id are of labels that share it
  (`IdsTellLabels`), that a call has the arguments its answer needs until then
  (`CallsCarry`), and that no edition is kept while an answer due to come may
  replace it (`NothingKeptIsReplaced`): a pending submission has it in its list.
  No assumption says that ids differ; `NoEditionForgotten` and
  `NothingKeptIsReplaced` are about the labels that have one of their own
  (`OwnId`).
* `PageControlsProofs`: the safety properties of the controls.
  `NothingHiddenWithoutFilter` rests on `HiddenByAFilter` (what is hidden is
  hidden by an active filter that applies to it), `OneSectionShown` on what may
  move beside a section that is shown, `MenuCanBeUsed` on the text each query
  was sent for and on the accounts the page knows, `PasswordsConfirmed` on `SendsTyped` (a call that sets a password
  carries one that was typed twice) and on the mode of forms without a choice of
  it. `PostsWhatIsShown` rests on `FormsInv`: while no form was hidden or opened
  over another, at most one is asked for or open and the page has its fields
  alone (`Tidy`), and a name is typed only in a form that was shown
  (`TypedInForms`). Its second half, about the forms that look for their fields in
  themselves, needs no such condition (`OwnPosts`). `FieldTyped` and
  `ConfiguredOnceLoaded` hold of every instance and are not spent a run on.
* `PageControlsProofs` ends with the templates: `TemplatesRender` says that a page
  shows what its template stands for, whatever the programs are. It rests on
  `FunctionsRender`: the function generated for a program renders the program in
  any scopes, when it is given the context of each scope that it looks out to
  (`Given`). That is an induction on `Nesting`. `DepthsAre` shows that a
  program lists every depth that its statements and the programs inside look out
  to, so that a closure has what its program needs (`DeclaredGiven`: `d` scopes
  out of a block is `d - 1` scopes out of the statement). Then each statement
  leaves the stack of the machine as it was and adds to the buffer what the
  statement stands for (`NodeRenders`, with a lemma for each opcode sequence:
  `PushIdPushes`, `PushParamsPush`, `ProgramsPush`, `BlockPushes`), and a program
  adds its statements one after the other (`ProgramRenders`). The definitions by
  recursion on programs are functions over `Program`, well founded by `Nesting`
  (`RenderingEquation`, `FunctionContextEquation`, `DepthsEquation`). What a text
  is parsed to is an assumption of this theorem (`PageTemplateAssumption`), which
  TLC evaluates for each text of the run.

**Only model-checked**: liveness (`StaleEntriesExpire`, `IndicatorsEnd`,
`ConfirmedDisappear`, `ManageBoxCatchesUp`, `ChoiceIsDisplayed`), out of the
prover's reach with fairness and ENABLED; and that the parser makes of a text the
statements it was written for. Every other property of a passing run is a
theorem. The claims of section 4 that fail are refuted by TLC.

## 6. Divergences that no run is spent on

The models allow what follows, as the code does; no property forbids it:
an edition that passed its check is stored after a merge closed the request;
two merges of a request overlap and both write the source; a contribution is
both accepted and rejected when two reviewers handle it at once; each click on
"more" shows the events again once there is a page of them; two quick clicks show
a page of requests twice; a reload overtaken by a newer one is shown last; a
rejected
contribution may have reached the source; a label that a reviewer clears is not
written back; a form hidden by the cross takes the place of the next of its kind;
a configuration is sent under the id of a choice made while another was being
loaded; two labels whose fields share an id share one edition; the form that updates an account shows the first role, not that of the
account.

## 7. Not modelled, and why

* **Projects and branches**, their caches and the deletion of a branch under a
  request: planned.
* **Rights**: users of the models hold every right of the project; the rights a
  session keeps are planned.
* **Working directories**: a clean-up by age needs a bound on how long operations
  last, which the code does not give.
* **Controllers and resources**: one call of a service each. Refused operations
  change nothing and have no action.
* **LDAP and general settings**: kept as those of the mail, but what is read
  depends on the key that enables LDAP.
* The text and delivery of mails; the text, escaping and order of property files
  and archives; the version the page proposes for the next request
  (`getLastVersion`): the user may choose any, and so does the model. Several
  response files in one upload are one set of labels: they are written in one
  transaction.
* **Code of the browser that no page uses** (times, plots, cookies, the
  deparametrisation of addresses, filters of keys, tooltips), the widgets of
  `bootstrap.js` no page uses, and `jquery.flot.js`.
* **`handlebars.js`**: the tables of its lexer and parser, the allocation of
  registers, partials, hash arguments, data variables and lambdas, which the
  templates of the pages do not use. **`text.js`**, jQuery and RequireJS: loading
  only.
* Style sheets, images, `src/README.md`.
