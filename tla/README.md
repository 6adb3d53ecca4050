# EasyDMP in TLA+

EasyDMP is a Django web application in which researchers fill in *data
management plans*. A *template* is a tree of *sections* of *questions*; a *plan*
is a set of answers to a template, made by several users at once, and goes
through a life of its own: validated, locked, published, copied into new
versions. This directory holds TLA+ models of that code, the TLC runs that check
them and the TLAPS proofs about them. All paths below are relative to
`src/src/easydmp/` of the repository.

## 1. The system

There is no background worker and no message queue. All behaviour is that of web
requests (views, the admin, the API), each in a thread of its own, over one
relational database. `ATOMIC_REQUESTS` is not set: a request is a *sequence* of
transactions, one per `@transaction.atomic` method or single query, and between
them any other request may run and the worker may be killed. Rows are read into
objects and written back later; `Model.save()` without `update_fields` writes
every column, and inserts the row again when it was deleted meanwhile. Nothing in
the code locks rows (`select_for_update`) or compares versions. What the database
enforces is its unique constraints and foreign keys. This is where the hazards
are. The models take each transaction as one indivisible step; what two
transactions under READ COMMITTED may do to each other beyond that is left out.

| component | state | operations | interacts with |
|---|---|---|---|
| answersets (`plan/models.py`) | `AnswerSet` rows: plan, section, parent, identifier, skipped, data | create missing rows, repair (`fix_answersets`), add, remove or skip, un-skip, copy with a plan | sections give the tree and the flags; plans own the rows |
| answers and validity (`plan/models.py`, `dmpt/models/base.py`) | `AnswerSet.data`, `previous_data`, `Answer.valid`, `AnswerSet.valid`, `Plan.valid` | save a choice, validate, hide unreachable answers | the flow of the section; the row of the plan |
| plan status (`plan/models.py`, `plan/views/`) | the columns `locked`, `published`, `valid`, `version`, `cloned_from`, `generated_html` of `Plan` | start, rename, validate, lock, publish, new version, save as, delete | every request that answers a question saves the plan too |
| accesses (`plan/views/access.py`) | `PlanAccess` rows | grant, change, leave, copied with a new version | decide who sees which plan |
| invitations (`invitation/`) | `PlanInvitation`: created, sent, used | invite, resend, revoke, accept | accepting gives an access |
| branching flow (`dmpt/flow.py`, `dmpt/models/base.py`) | none: computed from questions, their explicit branches and the data | all paths, next and previous question, validity of a path | answers behind a branch not taken are hidden |
| pages (`plan/views/__init__.py`, `plan/models.py`) | none: the page is in its address | links, Next and Prev over sections, questions and answersets | decides which answerset an answer is stored in |
| summary, text (`plan/models.py`, `dmpt/models/base.py`) | maps read by one request | repair, read list by list, put together | shows what answersets, sections and question types keep |
| templates, sections (`dmpt/`) | `Template`, `Section`, `Question` rows | edit, clone as new version, lock, publish; positions | plans point into them |
| positions (`dmpt/utils.py`, `dmpt/positioning.py`) | `position` columns | move up, down, first, last; renumber | unique per section or template |
| import, export (`plan/import_plan.py`, `dmpt/import_template.py`, `rdadcs/`) | import metadata rows | import once per origin | creates plans, answersets, templates |
| external entries (`eestore/`), event log (`eventlog/`) | cached entries; log rows | get or create; append | read by questions; read by nobody |

What makes each correct:

* answersets: the rows of a plan form the tree of its sections; a non-repeatable
  section has one row per parent; only optional sections have skipped rows, and a
  skipped row hides no answers; no answers disappear unasked; a section never
  loses its last row; a plan can always be copied.
* plan status: only a locked plan is public; a public plan stays public; a locked
  plan is read only; versions count up along the chain of copies; nothing of a
  deleted plan comes back.
* answers and validity: `valid` says what the data says; a published plan was
  valid; answers of two users of the same row both survive.
* accesses and invitations: a revoked invitation gives no access, a used one is
  not lost, an invitation is used by one user.
* flow: the path shown is a path of the branching graph, unique for the data.
* pages: an answer is stored in an answerset of its own section; Next and Prev
  pass no section over.
* positions: after every move, a permutation without gaps.
* summary and text: everything there is to be shown, and nothing else.
* imports: one plan per origin, whatever is repeated; what arrives is what was sent.

## 2. What is modelled

### AnswerSets

`AnswerSets.tla` models every operation of `plan/models.py` that creates, repairs,
copies, skips or removes rows, and the requests around them.

* **State.** `rows` is the table; a row has its key, parent, identifier, the
  skipped flag, whether `data` is non-empty and what it says of the identifier
  question. `optional` and `repeatable` are the flags of the sections: an
  administrator with superpowers may change them while plans use the section
  (`SectionAdmin.get_readonly_fields`, and templates that are not locked:
  `docs/howtos/rdadcs.rst`). `req[w]` is the request a worker serves, with the
  *row it has loaded*. `serial` numbers the creations, as primary keys do.
* **Keys.** A key is (plan, serial number of the creation, section), because one
  call of `create_answerset` or `get_answersets_for_section` inserts a row and,
  through `add_children`, the rows of all sections below it. `Numberings` leaves
  open in which order one transaction fills several slots.
* **Actions.** One per transaction. `add_answerset` is `AddFix` (the repair, then
  the early return), `AddSibling` (what `add_sibling` reads), then `AddUnskip` or
  `AddCreate`; `remove_answerset` is `RemoveFix`, `RemoveCount`, then
  `RemoveConvert` or `RemoveDelete`; `AnswerSave`, `ValidateSave` write back what
  their request loaded; `AdminAddSibling` is the button of the admin page.
  `Repair` is `fix_answersets`; `FixChildren` is what generating the text of a
  plan does to each top-level row; `AddMissingAnswersets` is what every display
  does, including its skipping of levels (`Visited`: `add_children` goes from a
  row with children to the children of those). `ClonePlan` is
  `clone_answersets`, whose two passes and two identifiers (`FirstIdentifier`,
  `SecondIdentifier`) decide whether the database accepts the copy. `Crash` ends
  a request anywhere.
* **Database.** `Accepts` is the two unique constraints and the foreign keys;
  `Saved` is `Model.save()`, re-insertion included; `Cascade` is `on_delete`.

Abstractions. Answers are only there or not, and name the row or not. Identifiers
given by answers are disjoint from the counted ones (an identifier question
answered with "2" is left out). The flags of a section are read when they are
used, not when the request loaded the section. Copies are numbered in the order
of the originals. Rows edited by hand in the admin, and imports, are left out:
the first can break anything, the second are in `PlanTransfer`.

### PlanStatus

`PlanStatus.tla` models the life of plans and the accesses to them.

* **State.** `plan` is the table (a row, or `NoRow`), with the columns of the
  status; `content` abstracts the answersets of a plan to a member of `Content`,
  and `Complete` are the contents `validate_data` accepts; `access` is the table
  of accesses; `req[w]` holds the row its request has loaded.
* **Actions.** Each view has an action that loads (its `get_queryset` is the
  guard: `LockPlan`, `PublishPlan`, `DeletePlan`, ...) and one that acts (`Lock`,
  `Publish`, `Delete`, ...). `WriteBack` is `Plan.save()`. Starting a plan is
  three transactions, answering a question up to five (`UpdateAnswer`,
  `SavePlan`, `Check`, `Mark`, `SaveLast`), of which two save the whole row of the
  plan. `Mark` and `ValidateData` write `valid` alone (`update_fields`).
  `ChangeAnswersets` stands for adding and removing answersets, which do not
  touch the row of the plan.
* **Copies.** `SaveAs` keeps the editors whatever the form says: the view passes a
  string. `CreateNewVersion` copies the row the request loaded. `CopyOf`
  abstracts `ClonePlan` of AnswerSets: the skipped flags are lost, so a complete
  plan may have an incomplete copy, and it may be refused (`Abort`).

Abstractions. `valid` has no third value: no guard tells NULL from false. Titles,
and with them the check for an existing plan of the same title, the visited
sections and the DOI are left out, and so are superusers in the instances (they
are in the model). `Plan.save(question=...)` is not called by any view.

Locked plans. The views that save answers never ask whether the plan is locked:
only the links are hidden (`views/__init__.py:1150`), while
`plan_confirm_lock.html:7` says it will be read only. So `AnswerQuestion` of
`PlanStatus` has no such guard, and no property says that a locked plan keeps its
answers.

### Flow

`Flow.tla` models a planner in one branching section: `dmpt/flow.py`, the
navigation of `Section` and `Question` (`dmpt/models/base.py`),
`AnswerSet.hide_unreachable_answers_after` and the views that post an answer and
go to the next or the previous question.

* **State.** The template is chosen once: `trunk` (the `on_trunk` questions),
  `branch` (the `ExplicitBranch` rows), `zero` (a first question at position 0,
  as optional sections have). `data`, `okay` and `valid` are the answerset, `at`
  the page.
* **Operators.** `QuestionMap` and `SectionMap` are the two constructions of a
  transition map; `NextQuestion` the way forward; `Paths`, `AllPaths`,
  `CompletePath` and `ValidateData` the judgement of a section; `PrevQuestions`
  with its three ways the way back; `Hidden` what a changed answer hides. All
  recursion is by recursive functions over the questions.
* **Actions.** `Open`, `Leave`, `PostAndNext`, `PostAndPrev`, `PostInvalid`: each
  is a whole request. Races between requests are the subject of Answers.

`WellDesigned` is what a template must satisfy by its documentation: no loops, no
branch over an `on_trunk` question. Observed, and stated in the module's
properties or kept in no run:

* `is_complete_path` takes the *beginning* of a path for a complete one (base.py
  1172), so a section is valid although questions that would be shown are not
  answered: `ValidIsComplete` does not hold, although `docs/reference/
  terminology.rst` (about line 70) calls a section valid when all necessary
  questions are. `MarkIsEarned` is what does hold: in a template without a branch
  that ends the section (`ShortcutToEnd`), a section that is marked valid, or
  validates, does validate and has an answer to every question that is shown. It
  says nothing of templates with such a branch.
* `GetAnswerView.get_prev` calls `get_summary_url`, which that class lacks
  (`plan/views/__init__.py:919-929`): posting "previous" where no previous
  question is found ends in an `AttributeError` (`NeverFails` does not hold).
* A question with one branch for an answer and another for all the rest can make
  the way back lead to a question that was never shown (base.py 1882-1958):
  `PrevLeadsHere` and `NothingHiddenKept` exclude it (`MixedBranches`).
* `NotListedMixin._serialize_condition` looks for "choice" inside the choice and
  is always false, so such a question never hides anything when it is changed: where
  one branches, hidden answers stay (`BranchesListed`, the hypothesis of three of the
  theorems, says that none does).

### Answers and AnswerStore

`Answers.tla` models answering, validating and displaying a plan, transaction by
transaction, by any number of threads, each of which may be killed at any point.
`row` holds data and mark of each answerset, `okay` the `Answer.valid` marks,
`planValid` the mark of the plan, `req[w]` what a thread has loaded. A post is
`Load`, then per changed question `UpdateAnswer`, `SavePlan`, `MarkAnswer`,
`MarkSet`, then `HideUnreachable`, `ValidateAnswers`, `StoreValidity`,
`PlanInvalid`, `LastSave` as the section and the answers demand; an invalid post
is `UnmarkAnswer`, `UnmarkSet`, `UnmarkPlan`; a validation is `CheckSet`,
`CheckStore`, `CheckPlan` for each answerset, then `Verdict` and `SavePlanValid`;
a GET of the detail page is the last two. `Visible` is given as a constant, so
that any flow fits. `shared`, `stirred` and `alone` are history: which answersets
two requests edited at once, in which marks were written during an edit, and
whether requests have only followed each other.

`AnswerStore.tla` is the abstract specification: an answerset is a set of
registers, one per question; a step writes one, or empties those the form does
not show. Of answersets two people edit at once nothing is promised, because
`update_answer` saves the whole row it loaded. `StoreImplemented` is the
refinement (`Store == INSTANCE AnswerStore WITH data <- ...`), checked by TLC and
proved.

Observed: an invalid post of an answer that was okay unmarks it, though the old
answer stays; posting the same choice again saves nothing, so the section stays
unmarked; a plan wrongly marked valid cannot be validated again by the button,
whose queryset is `.invalid()`, until an answer changes or its page is displayed.

Abstractions. `previous_data` and notes are left out; skipping is AnswerSets'
subject; the Answer rows of one validation are stored in one step; answersets do
not come and go; validation is completeness of what is shown.

### Sharing

`Sharing.tla` models the accesses to one plan and the invitations that give them
(`plan/views/access.py`, `invitation/`). `access` is the table per user with its
primary key, `inv` the invitations with `created`, `sent` and `used`, `clock`
counts days, `req[w]` holds the row a request has loaded. Actions come in pairs of
loading and acting: `OpenInvite`/`CreateInvitation`/`SendInvitation`, `Resend`,
`OpenAccept`/`AcceptInvitation`, `OpenRevoke`/`RevokeInvitation`,
`OpenChange`/`ChangeAccess`, `OpenLeave`/`Leave`; `Abort` ends any. Superusers are
in the model but not in the instance; deleting the plan is in PlanStatus.

Observed, and in the model: `is_valid` uses the setting while `valid_only` counts
30 days, so they agree only for the default; accepting asks neither whether the
invitation is out of date nor whether it was used; the views on an invitation are
open to any logged-in user who has its uuid; a re-inserted invitation gets a new
creation date; the last editor may leave, and two may demote each other.

### QuestionTypes, CannedTexts, Positions, Imports, Rdadcs, Pages, TemplateTransfer, PlanTransfer, Summaries

These share no state with each other, except that `CannedTexts` reads what
`QuestionTypes` stores; `MCCatalogue.tla` lets one run explore them side by side.

`QuestionTypes.tla` takes each input type through making a form, posting it,
storing the choice and validating it later: `MakeForm`, `MakeOtherForm` (another
question of the type, in the same page or another thread), `Submit`,
`ChangeList`. `Clean` follows the fields (`dmpt/fields.py` and the question
modules), `Verdict` Django's formsets, `Serialize` and `ValidateChoice` the
classes of `dmpt/forms.py` and `dmpt/models/questions/`. A text is one of a few
that fields tell apart. Observed: dates are refused by `validate_choice` in the
posting request and valid after; a storage of zero is accepted and never valid; a
blank row of an optional URL or cost question raises `IndexError` (`compress` of
an empty list), an empty estimate `TypeError`; the url of a typed reason is
always lost (`access_url` against `url`); an optional identifier left blank is
stored, because its type is always posted, and never valid; the not-listed fields
refuse blanks even when optional; `generate_formset` writes `required` into the
class that all questions of a type share. Abstractions: several picks of a
not-listed field count as one, a forecast has `MaxRows` rows for its five, a
cost's currency is as its description; the rows after the first are blank or full.

`Positions.tla` models moving, adding, editing and deleting sections by several
designers (`dmpt/utils.py`, `dmpt/positioning.py`, `SectionAdmin`): `Move` reads
the orders, `Start`, `Shift`, `Settle`, `Renumber` are the updates, `Save` a form
opened before. Of the admin's reorder views only `SectionAdmin.reorder_sections`
works: those of templates, questions and canned answers (`dmpt/admin.py` 358, 594,
912) compare values of different types and never do anything. Super sections may
form rings (only the section itself is excluded), which no numbering reaches.

`Imports.tla` models importing templates and plans by several requests:
`BeginTemplate`, `EnsureTemplate`, `CreateTemplate`, `ConnectTemplate`,
`BeginPlan`, `CreatePlan`, `CommitPlan`. A template is its uuid and one section
with the template's key. Observed: `build_metadata` gives `via` where the origin
belongs, so "already exists in this origin" (`plan/import_plan.py:95-104`) never
fires; the origin looked for always equals the stored one, so the *local* template
with the same primary key is taken and nothing else is ever imported: a plan of
another site, posted to the API, lands on an unrelated template if the section keys
fit, and fails with an uncaught error otherwise (the other ways in may refuse it
before, which `Imports` leaves to `PlanTransfer`), unlike `docs/howtos/api/export.rst:10-12` and
`docs/howtos/api/import.rst` say. `_map_imported_sections` builds its map the
wrong way round (`import_template.py:356`), so connecting an export to a template
that is there raises `KeyError` unless the keys are equal. A template is looked
for by its uuid before its origin and key, so an export with a uuid is connected
here although the same, exported without one, has made a second template already.

`Rdadcs.tla` models plans that come as RDA DCS documents, are finished by their
users and leave as documents again (`rdadcs/lib/`), with the shipped template.
`ImportRDADCS` is one transaction; `Confirm`, `Decline`, `Complete` and `AddHost`
are what the user does to the imported plan; an export is a step per list
(`BeginExport`, `GetContactObject` ... `GetCostList`), as each list is a query of
its own while the helpers of the answers were made at the beginning. Two keys of
an object stand for those the questions and the export treat alike. `RoundTrip`
compares what comes out with `ComesBack`, a definition over the document alone,
which names each loss the code has: of the costs only the first is imported
(`repeatable` in `import_plan.py:329` is the child's, and costs have none), the
type of a dataset is asked for under a path no question has, a distribution
without url and end date, a funding without grant and a technical resource without
description are asked for more than RDA DCS does, and contributors and costs
without all keys are left out. An imported optional object is exported only once
the user has confirmed the section; one who declines it gets `null` in the list,
which cannot be imported again. `docs/overview/rdadcs.rst:5-9` promises a complete
import and export. Nothing looks for an earlier import of the same document, and
its `via` is stored under a name the model does not have (`import_plan.py:139`).

`Pages.tla` models how a planner gets from page to page of one plan. The outline
of the template is chosen once (`outline`, `asks`, `optionals`, `repeaters`);
`twice` and `skipping` are the answersets, `page` what the browser shows, with the
answerset and the question in its address. `NextAnswerSet` and `PrevAnswerSet`
are the traversal of `AnswerSet`; what can be done at a page is what it shows a
link or a button for. Observed, and why the two properties have the premises they
have: a question is found by positions and its answerset by the tree, so
where a section with questions has subsections, repeats, or is optional and
skipped, branching pages ask the questions of one section in an answerset of
another (`plan/views/__init__.py` 915-945); Prev at the first subsection of a
section with questions leads to itself; Next reaches neither the answersets
beside the last section with questions nor those beside a row with children; Next
into a child section without questions, and Prev at a repeating section behind a
skipped one, raise `AttributeError`; so does Prev at a section behind one that
repeats and is skipped, because the answerset taken for the one before is the last
below any sibling, of whatever section (`plan/models.py` 661-682: with sections 2
and 3 below 1, and 4 repeating, optional and skipped, Prev at 5 goes to 3 even when
3 has no questions; five sections are the fewest that show it); a plan whose first section has no questions
cannot be started by its form (`StartPlanView.get_success_url`). Abstractions:
which question a branching section asks next is any of the later ones; no
answerset is removed; one section repeats, with two rows at most.

`CannedTexts.tla` adds no state: `GetCannedAnswer` and `PprintHtml` are what the
text and the summary tell of a choice stored by `QuestionTypes`, for each set of
canned answers the question may have by now and each list of entries still
cached. A text is the set of the parts of the choice it tells. `AnswerIsTold` says
that every part that can be found is told in both, and names the exceptions: an
identifier's type is looked up and never found, so it is not in the text; a
question that kept a single canned answer tells that one whatever was chosen
(`get_canned_answer` asks for the count first); a not-listed question with two
canned answers of its own raises, because its class cannot serialize the value.

`TemplateTransfer.tla` models the contents of a template on their way to another
site. `design` is the template, `taken` what the export has read of it, a step per
list in the order of `Lists`; between two lists a designer may add or delete
(`AddSection` ... `DeleteBranch`), as nothing holds the export together. Then
`ImportContents` makes a new template for each kind of site (`knows`: the input
type, RDA DCS path and EEStore source it may lack) or `ConnectContents` pairs the
rows with those of a template that is there (`fixture`). `ExportIsWhole` says when
an import may fail and what it keeps. Observed: a section's super section is
written into the section the first loop left behind (`import_template.py:326`), so
only the last created keeps its place; a template without questions loses names
and links of its sections (the function returns early, 392-397); top sections and
others at one depth cannot be sorted (`None < 1`), which templates whose
`section_depth` was not kept up have; a path that is missing raises `KeyError`
rather than a refusal when the export does not list it, as older versions' do.

`PlanTransfer.tla` models the answersets of a plan on their way into another plan.
A plan is edited (`AddSibling`, `RemoveAnswerSet`, `AnswerQuestion`), exported, and
imported over each of four channels into a template that may have lost a question
or a section, or got an identifier question. `WithoutParents` and `WithParents`
are the two passes of `_create_answersets`. `dbase` is the database imported into:
which primary keys of answersets it has, and of sections and questions of other
templates. `IsKnown` is what the serializers of `plan/export_plan.py` look up there,
as no field of theirs is read-only (in Django REST framework 3.12.2, which
`requirements-django32.txt` pins and which does not check `UniqueConstraint`s);
`ReadErrors` is what reading ends in, `StoreErrors` what storing does.
`ArrivesAsSent` says what arrives and when nothing does.

Only what is posted to the API is not looked up. `docs/howtos/api/import.rst` tells
that an export moves a plan to another EasyDMP, or restores it from backup: over
`/api/v2/plans/import/` it may, where its template has the same keys, over `/api/v2/plans/import/url/`, the frontend and
the command the export of a plan is "malformed" unless the database has rows
of the same keys as its answersets, in general those of the original plan.

Observed besides: the `skipped` flag is not exported, so optional
sections nobody wanted come back as wanted ones; `Answer` rows are exported and
not imported; without parents identifiers collide in plans that are legal (after a
removal, or where rows are named by an answer), and the import fails; the second
pass numbers rows of sections with an identifier question anew; an empty plan is
stored although the request ends in `TypeError` (`warnings.append` of two
arguments, `plan/import_plan.py:318`). `TemplateImportError` is caught by nobody. A
file that is no export ends in `KeyError` when posted to the API; JSON that is no
object does in the frontend too (`data.keys()`, line 57); an export without
the id of the plan or of an answerset, or another field the serializers do not ask
for, does everywhere, as `deserialize_export` hands on the file and not what was
validated; of what a URL may fail with only a time-out is caught.

`Summaries.tla` models the two pages that show a whole plan. `ViewSummary` and
`ViewText` begin with the repair each of them does, `RunQuery` reads the next map
(`SummaryQueries` and `TextQueries` are the orders), `PutTogether` makes the page
of the maps alone. In between other requests add, answer, skip and remove rows
and add sections. `lasting` and `ever` are history: what was there all the time,
and at any time; `numbered` is the last primary key that was given, since keys are
never given twice. Observed: the summary repairs only what is missing below the last
of several top-level rows, and skips levels (`add_missing_answersets`), so after a
section was added it fails with `IndexError` (`plan/models.py:1409`) until the text
is generated; it fails with `KeyError` if rows went or sections came between its
queries; the stand-in text of an optional section is told only while nobody has
answered that section *in any plan* (`dmpt/models/base.py:1066` counts the
answersets of all plans). Of several rows of a section the head, its links and its
validity are those of the last parent: `sectionobj.summary` is shared; this is
left out.

### Claims

`AnswerSetClaims.tla` and `PlanStatusClaims.tla` hold what the repository *says*
(the KARNAUGH table of `add_answerset`, a docstring, the confirmation pages)
where the code turned out to do something else, or does it only when requests do
not overlap. `MC*.tla` give the constants values.

## 3. The runs

| run | question | instance | result |
|---|---|---|---|
| `AnswerSets_edit` | what stays true of the rows of a plan while its sections are edited | 1 plan, section `top` with `sub`, one worker, flags of `top` change, 3 creations | 6 properties hold (124,500 states) |
| `AnswerSets_clone` | ... while plans are copied | 2 plans, `top` named by an answer, 2 creations each | 1 holds (233,609 states) |
| `AnswerSets_two` | does a repair leave order when two requests interleave | 2 workers, the plan may be deleted, 2 creations | 1 holds (272,707 states) |
| `Claims_add` | does adding work where the table says `add` | one worker, 4 creations | **violated** |
| `Claims_copy` | can every plan be copied | `sub` named by an answer, 3 creations | **violated** |
| `PlanStatus_one` | is a public plan public for good, one request at a time | 2 plans, 2 users, one worker, all kinds of requests | 1 holds (269,719 states) |
| `PlanStatus_late` | what survives rows saved, or deletions made, late | 2 plans, a worker that changes the status and one that renames and deletes | 4 hold (about 1,014,000 states) |
| `PlanClaims_public` | the same as `PlanStatus_one`, with the late worker | as `PlanStatus_late` | **violated** |
| `Flow_walk` | do hiding, validating, forward and backward agree | every template of 4 questions, 2 of which may branch, with up to 2 branches | 6 hold (249,968 states) |
| `Answers_apart` | are marks earned, and answers kept, when requests overlap and are killed; does the plan's mark settle | 2 threads, a branching and a linear section of 2 questions, 2 posts | 4 hold, among them the refinement and a liveness property (865,641 states) |
| `Sharing_two` | who gets and loses which right | 2 users, 1 invitation, one worker of all kinds and one late, 2 days | 4 hold (1,048,572 states) |
| `Catalogue` | question types and texts, positions, imports, documents, pages, contents of templates and plans sent, plans shown, side by side | all types, 2 keys, 2 rows; 2 designers, 4 sections; 2 importers, 4 + 2 exports; 42 documents, 2 imports, 2 edits; all templates of 3 sections; every nesting of 3 sections; 6 pairs of templates, 4 edits, 4 databases; 5 plans, 2 pages, 2 other requests | 13 hold (1,060,528 states) |

The three violations are findings, told in `PROJECT.json`:

1. *Adding is refused* (`Claims_add`). The next identifier is the number of rows
   plus one. Rows "1" and "2", "1" removed: the next one is "2" again, and the
   unique constraint raises an `IntegrityError` the view does not catch.
2. *A plan that cannot be copied* (`Claims_copy`). Two rows of a nested section
   under different parents, both named "ann", are a legal plan. Copying inserts
   all rows with no parent first: the two copies collide, and neither a new
   version nor "save as" is possible any more.
3. *A public plan is hidden again* (`PlanClaims_public`). A rename that loaded the
   plan before its publication saves `published = NULL` after it.

Bounds. `Section` is `top` over `sub`: one level of nesting shows cascades,
parents that vanish and siblings under different parents; the parity in `Visited`
needs three levels, which the proofs cover and the runs do not. `MaxSerial`
bounds the creations per plan: three are needed for a repair to choose among
siblings that are skipped, filled and empty, four for the collision of
identifiers after a removal; in the runs with two plans or two workers it is two,
the size of the state space being the reason. Two workers suffice for every race
described above: each is between a request that holds something old and one that
changes it. In `PlanStatus`, two plans give a plan and its copy; `Serves` says
which worker gets which kinds of requests, so that the two-worker instance stays
small: one changes the status, the other is late. Keys of deleted plans are not
given again, so an instance ends when its plans are used up and nobody has access
to one: this is why those runs do not check for deadlock. Symmetry is used on
plans, users, workers and importers, which are interchangeable in every action and property
they are declared symmetric for.

Four questions in `Flow` are the fewest that show a branch over a question, a
question behind it and a way back past both. In `Answers`, two posts suffice for
an edit that meets another, or a validation, or its own death; two answersets for
a plan that is valid in one and not in the other. In `Sharing`, `TTL` is one day
and two days pass, so that an invitation can be valid, out of date and renewed;
three accesses are created, so that a user can leave and come back while an old
request holds the first. In `Positions` three sections, with a gap in their
numbers, and a fourth to add; one designer moves once, the other does anything twice, before, between
and after its updates. In `Imports` exports
with and without uuid, of this site and of another, whose keys collide with keys
here. In `Rdadcs` two changes suffice to confirm every optional section a document
of the instance has, and a second import takes what the first export gave. In `Pages`
three sections give a child, a sibling and a section before or after both; two
questions give a first and a last one. In `TemplateTransfer` one act of a designer
falls between any two lists; templates of one or two sections and questions have,
one at a time, each thing an import looks for. In `PlanTransfer` four edits suffice
for two rows below each of two, a removal and the number that comes twice; the
databases are the one the plan came from, one that only has the first of its rows, one
whose keys are those of others, and an empty one. In
`Summaries` two requests disturb a page, or change the plan before it, so that the
page meets a row added and answered, or added and removed.
`CHECK_DEADLOCK FALSE` is set where posts, days, requests or keys are
bounded: such an instance ends when they are used up.

Fairness. `Answers` assumes `WF_vars(Work(w))` for each thread: a request that
was begun goes on, as threads of a server do; nobody has to post, to display or
to validate, and no thread has to die. `MarksSettle` adds in its own premise that
displays or validations are again and again finished. The other modules assume
none: requests may be killed at any transaction, users need not come back, and
nothing in the code retries.

## 4. What is proved

Theorems hold for every template (any tree of sections of any depth, by
`TreeAssumption`), any number of plans, users and workers and any bound.

`AnswerSetsProofs.tla`:

* `TypeCorrect`: `Spec => []TypeOK`;
* `TreeStaysConsistent`: `Spec => []TreeConsistent`;
* `SkipsStayOptional`: `Spec => []OnlyOptionalSkipped`.

`TreeConsistent` is not inductive. `Cascade` deletes by the recorded ancestors of
a row, so the invariant `TreeInv` (theorem `TreeInvariant`) has to say that the
ancestors of a row are exactly its parent and the ancestors of its parent, that
all of them are alive, in the same plan and in sections above its own; that rows
held by requests, which may be inserted again, satisfy the same; and that plans
that are not alive have no rows and the serial numbers above the counter no keys.
Then a cascade never leaves a row whose parent is gone, a late save is accepted
only below a living parent, and a copy maps ancestors to ancestors. For
`OnlyOptionalSkipped` the rows held by requests have to be of such sections too.
The lemmas of the module are about the operators (`Saved`, `Cascade`, `NewRows`,
`AfterFix`, `Copy`): each says that the operator keeps the tree.

Further:

* `FixesLeaveOrder`: `Spec => FixLeavesOrder`;
* `SkippedHoldNothing`, `SingletonsStaySingle`, `SectionsStayCovered`, `AnswersStay`:
  `OneWorker => (Spec => []SkippedHoldsNoAnswers)`, and so for `SingletonHasOneRow`,
  `SectionsKeepRows` and `AnswersLostOnlyOnRequest`.

The repair looks at the rows alone, so what it leaves needs no more than `TreeInv`.
The other four are false when requests overlap: the rows a request has counted are
not the rows it acts on, and a save brings back the row it loaded. `OneWorker` says
that requests do not overlap, and takes nothing else away: plans, trees, flags and
creations are arbitrary, workers may be killed between any two transactions, and the
runs that check the four have one worker as well. `SoloInv` adds to the four that
keys are not used twice and that the copy a request holds (`CopyOK`) knows of all
answers its row has, does not put a row back beside the one that took its place, and
is not deleted as the last row of a top-level section.

`FlowProofs.tla`, for any number of questions, any kinds, conditions and branches:

* `TypeCorrect`: `Spec => []TypeOK`;
* `MapsAlwaysAgree`, `AnsweredIsKnown`: `Spec => []MapsAgree`, `[]WalkIsKnown`;
* `HiddenAnswersGo`, `BackIsBack`, `SectionMarkIsEarned`:
  `Spec => [](BranchesListed => NothingHiddenKept)`, and so for `PrevLeadsHere` and
  `MarkIsEarned`.

The two constructions of the transition map give the same rows, because a branch
under the key of the step by position replaces it in the one and keeps it out of the
other. What the recursive functions compute is not had by induction theorems but by
closed forms: what the form shows is the least set with question 1 that its steps do
not leave (`ShownIsLeast`), a path is a trail of the map (`PathsAre`), and the
complete path is the longest trail of answered questions (`CompletePathIs`); each is
shown by the least counterexample. The invariants are `TemplateOK` (branches lead
forwards to questions of the section, one for each answer, and over no question on
the trunk), `WayInv` (every answer, and the page, is on the way the form takes) and
`MarkInv` (a section marked valid validates).

`AnswersProofs.tla`, for any sections, flows, threads and bounds:

* `TypeCorrect`: `Spec => []TypeOK`;
* `AnswersAreRegisters`: `Spec => StoreImplemented`;
* `MarksAreEarned`, `PlanMarkIsAlwaysEarned`: `Spec => []MarkIsEarned`,
  `Spec => []PlanMarkIsEarned`.

The refinement needs an invariant: a request that edits an answerset which no
other has edited meanwhile (not in `shared`) holds the data that are in the table,
and two requests edit the same one only if it is in `shared`. Then each save of a
whole row changes one register, and hiding empties those not visible.

For the marks, `MarksInv` says of an answerset on which no requests have met that one
request at most works on it, that its marks are earned when none does, and otherwise
how far the request has got and what it has yet to take back or to write
(`Progress`); `PlanInv` says the same of the plan's mark while requests follow each
other (`PlanProgress`). Both rest on `ForkAssumption`: what is asked
depends on the answers to the branching questions (`Forks`) alone, which are the ones
the view hides after. This leaves out sections with a branching "not listed"
question, whose changes hide nothing (`dmpt/models/questions/mixins.py:77-79`).

`SharingProofs.tla`, for any users, invitations, workers, kinds of requests and
days:

* `TypeCorrect`, `InvitationsLostLate`, `RightsComeFromEditors`,
  `EditorsOnlyByEditors`, `AgesAgree`: each `Spec =>` the property of the run.

The invariant `IInv` adds to the types that a request that will save an invitation
holds one with its uuid, that those given out include all rows, and that a request
to change an access was begun by an editor; `NextOK` shows it kept together with
the three effects the action properties are.

`PlanStatusProofs.tla`, for any number of plans, users and concurrent requests of
any kinds:

* `TypeCorrect`: `Spec => []TypeOK`;
* `PublishedStaysLocked`: `Spec => []PublishedIsLocked`;
* `VersionsAlwaysFollow`: `Spec => []VersionsFollow`;
* `NothingOutlivesPlan`: `Spec => []DeletedLeavesNothing`;
* `StatusIsLostOnlyToLateSaves`: `Spec => StatusLostOnlyToLateSave`;
* `PublicStays`: `OneWorker => (Spec => PublicForGood)`.

The proofs go in two stages. `NextOK` shows once, action by action, that a step
keeps the types and does one of five things to the table (`PlanEffect`: nothing,
save a row derived from the one a request held, mark a plan invalid, delete one,
create one), and that the rows requests hold were just read or were held before
(`HeldEffect`). The invariants are then proved of the effects. None is inductive
as it stands, because a late save puts back what a request holds: `LockInv` says
of the rows held, too, that published implies locked. For the versions,
`VersionInv` says that there *is* a number for each key, such that every row of a
plan, in the table or held, old or new, has the number of its key, and the one
after the number of its origin: a key used for the first time extends the
numbering, and no save can then contradict it. `DeletedLeavesNothing` is
inductive with the types. `PublicForGood` is false with two workers, as the run
`PlanClaims_public` shows; with one, `PublicHeld` says that a request that holds a row
of a public plan holds it as public, and that none is about to delete it.

`ImportsProofs.tla`:

* `RepeatsAreUnseen`: `ImportSpec => RepeatedOnlyUnseen`, for any exports, requests and
  bounds;
* `CopiesArrive`: `PlanTransferSpec => []ArrivesAsSent`, for any pairs of templates, any
  first rows, any edits, channels and databases;
* `DocumentsComeBack`: `RdadcsSpec => []RoundTrip`, for any documents, imports, edits
  and exports;
* `ContentsArrive`: `TransferSpec => []ExportIsWhole`, for any templates, any number of
  changes while they are exported, and any site.

For the first, `IInv` says that keys are given in
turn, so that what a request has seen keeps its key, and that a request about to
make a template, connect one or commit a plan knows that none of the rows it has
seen which are still there is of the same origin and key, or of the same template.
It needs no assumption. For the second, `TransferInv` says that, as long as no row was
removed and no section has an identifier question, the identifiers of a section are
different numbers no larger than the number of its rows (`NumberedRows`): the next
one given is then new (`AddedNumbers`), and two rows of one section never clash
although the first pass of the import stores them all without parents (`NoClash`). An
export that is not read either names keys the database lacks or a section that
is missing (`UnknownKeeps`).
`FormsAssumption` says what a template is (sections and questions are not numbered 0,
no section is its own super section, an identifier question is a question) and
that a plan begins with rows of its template which are numbered.

For `DocumentsComeBack`, `RdadcsInv` says what the sections of a plan that was only
imported hold of its document, row by row, and what each list of the export has to
hold once it was read, if the user does not overtake it. The two recursive functions,
what is kept of a document and what comes back, are had by closed forms, objects being
three deep (`KeptIs`), and the last list decides (`CostStep`): what is asked for in
the confirmed sections is what comes back (`ConfirmedIsAsked`). `DocumentAssumption`
says of documents what `validate_json` and the shape of RDA DCS see to: an object is
below one of the right kind, none of them null, a distribution has one host, and the
plan has a title.

For `ContentsArrive`, `ContentsInv` is about what the export has read of each list or
would read now (`Seen`): as long as designers only deleted, these lists refer to each
other as those of a template do, but for the RDA DCS keys of sections (`Fits`). Reading
a list does not change what is seen; a deletion only shrinks lists that are not yet
read, and those are read after what they refer to (`ShrunkFits`; in the order of the
mutant `ChoicesFirst` it fails). Then an import finds a key for each reference
(`FailureIs`), the last section created is the one whose super section is kept
(`OneSuperIsLeft`), and sections of a depth have different places in it
(`PlacesDiffer`), so that equal templates are connected row by row. `DesignAssumption`
says of templates what the unique constraints and the forms of the admin see to.

`QuestionProofs.tla`, for any keys, any number of rows and every input type:
`FormsAndQuestionsAgree`, `AcceptedRowsAreStored`, `FormsFailOverBlanks`,
`AnswersAreTold`: `QuestionSpec =>` always `AcceptedIsValid`, `AcceptedIsKept`,
`OnlyBlanksFail` and `AnswerIsTold` of CannedTexts. The invariant `QuestionInv` adds to
the first three that what is stored has the shape its type gives it, whatever keys
have come and gone (`Shapes`). Two lemmas carry the rest: `CleanIsSound` says what the
fields of a form let through, by type;
`NthIsOnto` that counting the rows that are kept reaches each of them, so that
`Serialize` loses none. The keys are finitely many and none is the empty string
(`KeyAssumption`), and there is a row (`RowsAssumption`).

In the same module, for any plans that fit their template, any number of pages and of
other requests: `PagesAreWhole`, `SummarySpec => []PageIsWhole`. `SummaryInv` says of
each list, from when it is read (`Got`), how it agrees with the lists read before it and
with the plan as it is now (`MapsHold`), whatever the others have done since: a key in a
map is the key of the same row or of one that is gone (`KeysHold`), because keys are
never given twice (`numbered`); what was there all the time is below what was there all
the time (`LastingKnown`), and is in every list; what unfolds in the list of rows was
there when that was read (`RowsHold`). `DisturbanceKeeps` shows this for all requests
of others at once, which `AddRowIs`, `RemoveRowIs`, `AnswerRowIs` and
`AddSubsectionDisturbs` show to be such. Putting together, unfolding, deleting and
planting are closures; `ClosureIs` (the least set that has the start and from which no
step leads out) stands for all of them, so that `LastingShown` and `ShownKnown` are two
inductions along what is there and what is called. `RepairedIs`: after the repair of the
text no section lacks an answerset below any of its super section, so the page does not
stumble (`StumblesIs`). `WrittenPlansAssumption`: sections form a tree, answersets are
below answersets of the super section, and none is missing to begin with, as `Plan.save`
leaves a new plan. The admin refuses only that a section is its own super section; a
longer loop, which `add_children` would follow forever, is left out.

`PagesProofs.tla`, for any number of sections and questions, any tree and any flags:
`AskedWhereStored`, `PagesSpec => []AskedInOwnSection`, and `WalkStaysStraight`,
`PagesSpec => WalkIsStraight`. `PageInv` says that the answerset a page shows exists,
and that a question is shown in an answerset of its section in the templates the
property is about; `WalkInv` adds that sections are numbered after their super section,
that one at most is optional, and that of two answersets the first is not skipped.
`PrevAnswerSet` walks backwards by recursion; `BackIs` shows that it takes
its steps (`RowBefore`) as long as rows come before rows, and `HigherUpIs`,
`FirstSubsectionIsNext` and `RanksOrder` that the tree is passed through in order. The
attempt found what the run could not, its sections being too few: without the condition
of `WalkIsStraight` that no repeating section is skipped, the property is false of Prev
(see Pages above).

In the same module, for any number of sections, designers and requests:
`MovesArrive`, `PositionsSpec => []MoveDoesAsAsked`, and `OnlyMovesReorder`,
`PositionsSpec => OrderLeftAlone`. The order depth first is defined without recursion,
by the line of sections above each (`Line`): of two sections that are found, one is
above the other, or their lines fork at two siblings, whose positions decide
(`ComesBefore`). This is a strict total order although sections may be their own super
section through others, such sections not being found (`ReachedIsNoLoop`,
`PrecedesIsTransitive`, `PrecedesIsTotal`), and a finite set has one sequence that rises
(`InOrderSorts`, `OrderIsUnique`). `FlatReorderPlaces` says that removing and inserting
is to shift those passed by one, `MovedAmongSiblings` that a section that takes a
sibling's place in the flat list of the whole template takes it among the siblings.
`PositionInv` says of a request that nobody overtook what of its order still holds after
each of the four updates (`TurnHolds`): among others, that the numbers it is about to give
are free. What is overtaken is bound by nothing but the types and the unique positions.

The assumptions are those the modules name (`TreeAssumption`, `KindAssumption`,
`NullAssumption`, ...): NULLs are not keys, the kinds of requests are the kinds
there are, the tree of sections is a tree.

Every safety invariant and action property that a run finds to hold is proved; the
type invariants of PlanStatus, Answers and Sharing and `TreeConsistent` for two workers
are proved for every instance and not run again. Only model-checked is what is out of
the prover's reach: `MarksSettle` (liveness under fairness).

## 5. The plan

Done, in this order: `AnswerSets`, `PlanStatus`, `Flow`, `Answers` with
`AnswerStore`, `Sharing`, `QuestionTypes`, `Positions`, `Imports`, `Rdadcs`, `Pages`,
`TemplateTransfer`, `CannedTexts`, `Summaries`, `PlanTransfer`; proofs about all of
them. Left: who is shown which plan, the query sets of views and API against `may_view`
and `may_edit`.

## 6. What is not modelled

* Templates: cloning copies the unique `uuid`, so it raises `IntegrityError` for
  every template that has one (`docs/howtos/creating_templates.rst:90` tells to use
  it); what would follow is not reachable.
* External entries: a cache filled by a command that reads one page after another
  and drops the first (`eestore/client.py:98-109`); the entries are never
  refreshed. Questions only see a list of keys (`QuestionTypes.ChangeList`).
* The event log is append-only and decides nothing. The API is read-only but for
  the imports, which are those of `Imports`, `TemplateTransfer` and `PlanTransfer`.
* Login backends, settings, themes and the site front are configuration; forms and
  lists of the admin are Django's, except for positions and the section flags.
* Headings, framing texts, the order of a page, generated HTML and PDF are wording.
* The database below READ COMMITTED: two statements of one transaction are one
  step, unless a module says otherwise.

## 7. Running

    tlc -workers 2 -config AnswerSets_edit.cfg MCAnswerSets
    tlapm AnswerSetsProofs.tla

and so for each run in `PROJECT.json` and for `PlanStatusProofs`, `FlowProofs`,
`AnswersProofs`, `SharingProofs`, `ImportsProofs`, `QuestionProofs` and `PagesProofs`.
The runs take up to four minutes,
the proofs up to twenty.

`PROJECT.json` lists the runs with their properties, the mutant of the model that
breaks each property (operators whose comment begins with "Mutant" are used by
those only), the source lines of every definition, the hazards and the theorems.
