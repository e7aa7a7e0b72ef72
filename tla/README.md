# A verification project for the research project API

The repository is an AdonisJS/Lucid API (TypeScript, PostgreSQL, BullMQ) with which a university
manages research projects: ideas, calls for proposals, proposals and registrations, the outline
("thuyết minh") and its reviews, the contract, execution, final evaluation and liquidation, plus
publications, KPI hours, profiles, accounts, imports and reports.

This directory models the parts in which several people and processes move shared state: ideas and
the councils that score them, proposals and their selection, the registrations for catalogue tasks,
the life of an outline from its blind review to the published assignment decision, the execution of
the project with its progress reports and adjustments up to the liquidation of its contract, the call
for proposals with its mail broadcast, and publications with the hours their authors are given for
them. TLC checks the models on small instances, TLAPS proves the main invariants for every value of
the constants.

Contents: [how the code runs](#how-the-code-runs), [inventory](#inventory), [plan](#plan),
[models](#models), [runs](#runs), [fairness](#fairness), [proofs](#proofs),
[disagreements](#disagreements-shown-by-a-run), [observations](#observations-not-shown-by-a-run),
[not modelled](#what-is-not-modelled).

## How the code runs

A request is a chain of awaited queries in one Node process: it reads rows, checks guards on what it
read, assigns columns and saves them. Lucid's `save` writes the dirty columns only. There is no row
lock, no version column that is compared, and few transactions (`db.transaction` in the contract
signature, the acceptance of payments, purchases and settlements, the approval of adjustments and
calls, the replacement of budget lines, and two forms), and in nearly all of them the row that the
guard looked at was read before the transaction began. Three consequences shape the models:

- two requests interleave at every await, and the later save wins column by column;
- a request that saves several rows can stop between them (process restart, failed query);
- a guard is a statement about the past.

Besides requests there are a BullMQ worker for the mail of a call (`commands/cfp_email_worker.ts`),
reminder jobs, and command line tools.

One action of a model is one whole request unless its module says otherwise. `OutlineReviewRaces`
and `CfpBroadcast` cut at the awaits; `BudgetLedger` and `FinalCase` cut the acceptance by the
finance office at its transaction; `OutlineApproval`, `TaskRegistration`, `Selection`, `Ideas` and
`Publications` cut a request at each of its saves; `Adjustment` cuts between the reads and the save,
and after the transaction; `Progress` cuts a reminder between its mail and its mark.

## Inventory

For each part: the state it keeps; its operations; what it touches; what is hard; what makes it
correct. "M" marks the parts that are modelled, whole or in part.

**Preparation of outlines** (`project_outline_service`, `project_outlines_controller`).
State: `project_outlines`, members, budget form, audit. Operations: create from a proposal or an
assignment, edit, submit, withdraw. Feeds the blind review and the appraisal sessions. Hard: one
status column written by ten services. Correct: a filed outline does not change under its readers.
(Submit and withdraw are in M `OutlineReview`.)

**Blind review, M** (`project_outline_review_service`, `project_outline_score_service`).
State: review assignments, score sheets, the average on the outline. Operations: assign, replace,
save draft, submit sheet, reopen sheet, withdraw, aggregate on the last sheet. Hard: two last sheets
at once, sheets reopened or replaced while an average is computed, a stop between sheet and average.
Correct: blind until complete; the average is that of the sheets in force; no reviewer of their own
project.

**Appraisal sessions and minutes, M** (`project_outline_appraisal_service`,
`project_outline_defense_service`, `project_outline_minutes_service`).
State: sessions, links to outlines, councils, ballots, minutes items. Operations: create, update,
sign, publish, cancel, confirm the meeting, ballots, save, finalize and reopen minutes. Touches the
status of every linked outline. Hard: an outline in two sessions, reopening after decisions, partial
closing. Correct: closed minutes stand on all ballots, no outline is stranded, a signed decision
keeps its minutes.

**Minutes, revision and final approval, M** (`project_outline_minutes_service`,
`project_outline_revision_service`, `project_outline_final_approval_service`).
State: status and gate of the outline, versions, baseline and submitted version, deadline, signature.
Operations: conclusion, baseline, new text, submission, PKH, secretary, chair, return, extension,
BGH approval and rejection, publication. Hard: repeated revisions, minutes reopened at any stage,
stops between two saves. Correct: BGH decides on the text that was confirmed; a signed decision
stands; a project starts only on one.

**Outline budget confirmation** (`project_outline_budget_service`). Legacy: nothing sets the status
it waits for any more.

**Contract, M** (`project_contract_service`, `project_contract_flow_service`,
`project_budget_service`). State: contract row, budget lines, `execution_status`. Operations: draft,
edit, submit, confirm or return, sign, publish, sign by the investigator. Correct: what is signed is
what was confirmed.

**Vouchers and budget ledger, M** (`project_payment_service`, `project_procurement_service`,
`module56_common`). State: payment requests, purchases, budget entries. Operations: save, submit,
accept, return, reopen, close at three offices. Hard: acceptance in flight twice, vouchers under way
while the project is being settled. Correct: one ledger entry for each voucher done.

**Final evaluation, settlement, liquidation, M** (`project_final_service`, `module56_rules`).
State: the final case, evaluation sheets, settlement entries, liquidation record. Operations:
dossier, council, sheets, minutes and reopening, explanation and its two confirmations, settlement
and its variance, liquidation through four signatures. Hard: long sequences that come back to an
earlier stage. Correct: accepted before settled, settled once, signed as printed.

**Progress reports, M** (`project_progress_service`), **adjustments, M** (`project_adjustment_service`),
**achievements** (`project_achievement_service`, only read). State: periods, reports, days already
reminded of; adjustment requests, the outline they rewrite. Operations: plan, report, remind; save,
submit, PKH, head of PKH, BGH. Approving an adjustment rewrites outline, budget lines and contract
appendix in one transaction and moves the periods afterwards, one by one. Hard: one open adjustment
is read before it is written (`project_adjustment_service.ts:77`), four desks read the same row, a
refresh runs outside the transaction, a reminder is mailed before it is marked. Correct: appendices
form a chain, a second extension was confirmed, periods follow the plan in force, no reminder twice.

**Ideas, M** (`ideas_controller`), **council sessions and scoring, M** (`council_sessions_controller`,
`idea_council_scores_controller`), **ideas turned into proposals, M** (`idea_to_proposal_service`).
State: one status per idea, its council result, score rows per member and idea, session status, the
draft proposal and its link. Hard: closing works on idea after idea (`council_sessions_controller.ts:194`)
and saves the session last (232), setting `idea.status` without looking at it; an approval saves
proposal, link and status in turn and may run twice (`source_idea_id` is unique, so a second creation
fails). Correct: a verdict follows from every member's sheet, an order has its proposal.

**Calls for proposals, M** (`call_for_proposal_service`, `mail_service`, `email_log_service`, queue
and worker). State: calls, submission periods, job rows, mail logs, the BullMQ queue. Operations:
draft to publication, broadcast, resume, extend, close. Hard: processes die anywhere, entries are
delivered again, the SMTP server answers late. Correct: what is published was approved; everybody is
mailed; what is known to be sent is not sent again.

**Proposals, M** (`project_proposals_controller`), **selection sessions, M**
(`proposal_selection_sessions_controller`). State: a long approval chain on `project_proposals`,
sessions with items and results. Operations: write, submit, unit, PKH, attach to a call; create,
vote, minutes, BGH, correct. Hard: a session decides proposal after proposal, mails, then saves itself
(`:456`), and may stop and be repeated or returned; proposals move between calls. Correct: a locked
session has decided all of its proposals, a mailed result stands, everybody decided is mailed.

**Registrations for catalogue tasks, M** (`proposal_registration_service`,
`proposal_registration_review_service`). State: competing registrations of a task, its assignment,
the outline opened for it. Hard: approving one refuses the others row by row (`:242`); the assignment
creates an outline, an assignment and marks the task in separate saves (`:288`), and a retry is
refused once the assignment is there. Correct: the assigned person is the only one accepted, the
outline is theirs, what was mailed stands.

**Publications, M** (`publications_controller`, `publication_authors_controller`, their `admin/`
counterparts, `publication_author_validator`). State: a publication, its owner, its rows of authors.
Operations: declare, give to another owner, delete, replace the list of authors. Hard: a list is
replaced by single deletes and saves under a unique constraint, by two people at once. Correct: the
owner is on the list the owner saved.

**KPI engine, M** (`kpi_engine_service`, `kpi_engine/*`, `kpis_controller`). State: rules; results are
computed on demand or cached per year. Hard: the same hours are computed in three places, with
different roundings, from rows that may be half saved. Correct: the hours of a publication are
divided, never multiplied, and the places agree.

**Profiles**, **accounts and permissions**, **notifications and audit log**, **document and contract
templates**, **imports**, **catalogues**, **dashboards and reports**, **maintenance commands**: forms,
lookups, layouts and batch jobs. They guard or present the state above and decide nothing about it.

**Backup and restore** (`backup_service`, `backup_lock`). State: a flag in the memory of the process.
Hard: requests in flight and the worker are not stopped, a failure in the middle leaves a half
restored database. Correct: one restore at a time, no request in between.

### How they interact

`project_outlines.status` is the shared variable of Module 4: preparation, blind review, sessions,
minutes, revision, approval and contract all write it. `execution_status` is that of Module 5 and 6:
the contract starts it, the final case moves it, vouchers read it. `project_budget_entries` joins
vouchers, settlement and liquidation. `active_defense_session_id` joins outlines and sessions.
`project_proposals.status` joins proposals, selection sessions, calls and registrations; an idea and
its draft proposal name each other. The rows of a publication's authors are all that the KPI engine
reads of it, besides what it declares. The services call each other directly (minutes call the
revision and the approval, approval calls the contract, the contract opens the progress periods, an
adjustment refreshes them); only the broadcast goes through a queue.

## Plan

The order is by what goes wrong at the highest cost. Done:

1. `OutlineReview`, `OutlineReviewRaces` with proofs. 2. `Appraisal` with proofs.
3. `Contract`, `BudgetLedger`, `FinalCase`, composed in `Execution`, against `ProjectClosing`, with
   proofs. 4. `CallForProposal`, composed with its mail in `CfpBroadcast`, with proofs.
5. `OutlineApproval` with proofs, one request at a time with stops between saves.
6. `TaskRegistration` with proofs. 7. `Ideas` with proofs, with councils and the draft proposals.
8. `Selection` with proofs, proposals and sessions of several calls together.
9. `Progress`, extended by `Adjustment` with proofs. 10. `KpiHours`, extended by `Publications`,
   with proofs.

Left, in this order:

- Concurrent requests in `OutlineApproval` (chair and secretary, reopening and signature), and a
  refinement between it and `Appraisal`: the one's view of an outline and the other's.
- The two-save gaps of `FinalCase` and `Contract`.
- `Adjustment` composed into `Execution`: budget lines and end date change under vouchers and the
  final case. `generateCode` of proposals under two requests.

The runs are kept to a dozen and their properties to forty, so that the whole set is rerun in
minutes: a new component takes the place of the shallowest properties of the old ones. Those that
were proved remain as theorems.

## Models

| module | models | state (code) |
|---|---|---|
| `OutlineReview` | blind review of one outline | `status`, assignment rows `st`/`reviewer`/`late`, sheets `sheet`/`total`, the three review columns `review`, the team `members`, the state of the defence `session` |
| `OutlineReviewRaces` | the same handlers between their awaits | `req`: what each request in flight has read; `lost`: a request was cut off |
| `Appraisal` | sessions, outlines, councils, ballots, minutes | columns of outlines and sessions, `links`, `ballots`, `minutes` |
| `OutlineApproval` | one outline from conclusion to contract draft | `outline` (its status), `council` (the session), gate, text, versions and pointers, signature; `left`: the save a request still owes; `losses`, `passed`: history |
| `ExecutionStatus`, `Contract` | contract | status, confirmation, publication; `agreed`: history |
| `BudgetLedger` | vouchers and ledger | status per voucher, entries per voucher, `desk`: what an officer has read |
| `FinalCase` | final evaluation to liquidation | the columns of the final case; `acked`, `signedRecord`: history |
| `Execution` | the three above, sharing `exec` and the ledger | |
| `ProjectClosing` | what the final evaluation promises | phase, answered, accounts |
| `CallForProposal` | a call | status, period; `agreed`: history |
| `CfpBroadcast` | its mail | job rows, mail logs, queue entries, broadcasts and their program counters, inboxes |
| `TaskRegistration` | registrations for tasks, assignment, the outline handed over | `reg`, `assigned`, `catalog`, `outline`; `req`: what a request of PKH has read and still owes; `told`, `lost`: history |
| `Selection` | proposals and the sessions that decide them | `status`, `call`, `session`, `approval`: the approval of BGH in flight; `told`, `edited`, `lost`: history |
| `Progress` | periods, reports, reminders | `due`, report status, days reminded of, `job`: the reminder run; `mailed`, `unmarked`: history |
| `Adjustment` | adjustments, extending `Progress` | `rows`, `outline`, `req` per desk; `applied`, `contract`: history |
| `Ideas` | ideas, council sessions, sheets, draft proposals | `ideaStatus`, `verdict`, `meeting` (the sessions), `sheet`, `proposal`, `link`, requests in flight; `dropped`: history |
| `KpiHours` | hours of a publication | none: pure operators |
| `Publications` | a publication and its rows of authors, extending `KpiHours` | `owner`, `authors`, `req`: what each saving request still owes; `settled`: history |

`MC*` modules give the constants their values; `*Proofs` modules hold the theorems. Operators named
in a "Mutant:" comment are wrong variants of the one below them; they are not part of `Next`.

**OutlineReview.** One action per request: `Update`, `Submit` and `Withdraw` of the owner;
`AssignReviewers` (which may fail in the middle of its loop and keep the rows so far),
`ReplaceReviewer`, `ReopenSheet` and `ExtendDeadline` of the office; `OpenTask`, `SaveDraft` and
`SubmitSheet`, with its aggregation, of a reviewer; `DeadlinePasses` for the clock; and
`CreateSession`, `PublishSession` and `CancelSession` only as far as they close the review. The
average is rounded half up to hundredths as in the code. An external reviewer has a name but no
account.

**OutlineReviewRaces.** Extends `OutlineReview`. A slot holds a request with the rows it has read.
Handlers listed in `Ops` are cut at their awaits, the others stay whole. `MayCrash` lets a request
vanish between two queries.

**Appraisal.** Sessions and outlines are symmetric sets; a request names any of them. Closing applies
the conclusions of the items, reopening takes back what is not decided. `Relink` lets the office put
an outline into a draft session that the list does not offer: the code allows it (`updateDraft` does
not check), and `OneLiveSession` and what hangs on it hold only without.

**OutlineApproval.** Follows one outline, alone on its session. A text is a number, a version a record
of kind, text and parent. `baseline` and `submitted` are indexes, as the ids are in the code.
`Finalize` closes the session; `ApplyResult`, `Enqueue`, `FreezeBaseline` and `OpenRevision` are the
later saves of that request, and `LoseRequest` may end it between any two. Reopening and submission
are cut the same way. `passed` is a history variable: the versions PKH and the chair let through
last. The clock moves a deadline from far to near to past.

**Contract, BudgetLedger, FinalCase, Execution.** A voucher is a constant with a line and an amount;
its status walks through the offices. An officer's acceptance is two steps: read and check, then the
transaction, which reads nothing again. `FinalCase` has one action per request and the same two steps
for the acceptance of a settlement. `Execution` conjoins them: `exec` and the ledger are shared, each
request belongs to one of the three. `Early` allows a dossier to be saved before the contract is
signed, which the code allows too.

**ProjectClosing** is the abstract specification: a verdict that was answered stands, accounts are
closed once, a stopped project stays stopped. `Execution` maps `exec` to its phases and TLC checks,
and TLAPS proves, that every step is a step of it or a stutter.

**CallForProposal and CfpBroadcast.** A deployment (`Confs`) says whether there is a queue, whether
the API may send itself, and which addresses are allowed. A broadcast runs await by await: open the
row, push the in-app notice, read who was sent, sweep old pending rows, and for each address write
the log, send, save. Processes die between any two, queries fail, the server takes a mail after the
time limit, BullMQ delivers an entry again.

**TaskRegistration.** People register, withdraw and are confirmed or sent back by their unit;
`chapThuan` (accept one, refuse the rest), `dongDangKy` (close, refuse all) and `phanCong` (assign)
are requests of PKH: `Begin` reads the registrations, `Continue` performs one save or mail after the
other, `Lose` drops what is left. In between everybody else goes on, also the proposer, who may open
and file the outline of the task that is being given away. `Clerks` is the number of such requests
at a time.

**Selection.** The intake (`Store` to `Withdraw`) is one action per request, as are the session's
requests; `bghApprove` reads the session once, then decides and mails proposal after proposal and
locks the session last, and may stop anywhere; approving again works on what was read again. Approvals
of different sessions overlap when `Overlap` is set; the run has one at a time. Calls open and
close, and `Attach` and `Detach` move a proposal between calls that are being prepared.
`edited` marks the proposals an ADMIN corrected by hand, for which only ADMIN is mailed.

**Progress and Adjustment.** A plan gives each slot a due date, no date, or no milestone; without
milestones there is one period in the middle. A desk is a client: `pkhAct`, `leadConfirm`, `bghAct` and
the investigator's save read a row and the outline, and write later the columns that differ from
what they read. `Approve` is the transaction; `refresh` then sets period after period, from the plan
it was given. The reminder run reads its periods, mails one, marks it, and may stop between.

**Ideas.** Sessions name ideas and members; a member's sheet is a draft, then submitted. `close`
checks and reads every sheet, then saves verdict and status of idea after idea, and the session
last. An approval looks for the draft proposal, creates it if there is none, links it and sets the
status. Two requests are in flight at a time and either may stop. A sheet's score is its weighted
mean; `Scores` lie on both sides of the threshold 7.

**KpiHours.** The operators follow `publication_strategy`: base hours by kind of rule, the factors a
and c, who counts as main author, which row is taken for a person, the share by roles or by
percentages, the division for several affiliations, the fifth more for women. Hours are whole
hundredths and what lies between two roundings is an exact fraction. `TeacherHours`, `ReportHours` and
`PageHours` are the three places that show hours; they differ in the cache of rules, in the works
they look at, and in where they round.

**Publications.** `Begin` is a PUT of a list by the owner or by the office: the owner's list is first
prepared (the owner's entries become one, a single unlinked author is the owner) and checked. Then
each row that is left out is deleted, then each entry saved (`Entries` are what a list can hold).
The unique constraint on
(publication, place) refuses a save and ends the request; so does a stop. What was done stays. Two
requests run at a time. What the publication declares is not state: the properties of the hours
quantify over every declaration in `Works`, at every point of every save.

## Runs

| run | cfg | question | instance | result |
|---|---|---|---|---|
| `outline_review` | `OutlineReview` | whole requests in every order | 3 accounts, 1 external, 3 rows, panels of 2, totals on both sides of the threshold | holds |
| `races_submit` | `RacesSubmit` | last sheets at once, with stops; liveness | 2 slots, panels up to 3 | holds |
| `appraisal` | `Appraisal` | sessions and outlines in every order | 2 outlines, 2 sessions | holds |
| `outline_approval` | `OutlineApproval` | revisions, reopenings and lost requests in every order | 2 texts, 4 versions, 2 losses | holds |
| `execution` | `Execution` | contract, vouchers and final case together | advance, payment, purchase; 2 lines; 2 panels; one officer | holds |
| `execution_double` | `ExecutionDouble` | is a voucher booked once? | two officers | violated |
| `cfp_broadcast` | `CfpBroadcast` | broadcasts under faults; liveness | 2 addresses, 4 deployments, 1 resume | holds |
| `task_registration` | `TaskRegistration` | acceptance, closing and assignment under stops; liveness | 1 task, 3 people, one of them its proposer, 1 clerk | holds |
| `selection` | `Selection` | approvals that stop, return and repeat; moves between calls | 2 proposals, 2 calls | holds |
| `adjustment` | `Adjustment` | four desks at once, refreshes and reminders | 2 requests, 1 milestone, 3 days | holds |
| `ideas` | `Ideas` | closings and approvals at once, with stops | 1 idea, 2 sessions, 2 members, 2 requests | holds |
| `publications` | `Publications` | lists saved at once, with stops; hours at every point | 2 people, lists of 1 to 3 authors, 3 of them sent, 6 declarations | holds |

What the properties say is written above each in its module. Those worth knowing:

- `BlindUntilComplete`, `AverageOfTheSheets`, `IndependentReviewers`: no order of replacing, reopening
  and late drafts shows a score early, keeps an old average, or lets a reviewer judge their own
  project.
- `VerdictMatchesAverage`, `NoSubmissionForgotten`, `FullPanelEventuallyAggregated`: the same under
  submissions at once. The last two excuse the case that a request was lost (`lost`).
- `ResultMatchesMinutes`, `DefendedHasSession`, `OneLiveSession`, `BallotsComplete`, `DecisionStands`:
  outlines and sessions agree after any cancelling, closing and reopening.
- `RevisedAsConfirmed`, `GateMatchesStatus`, `AnswersOneBaseline`, `DecisionStands`: what BGH decides
  on was confirmed as it is, is compared with one baseline, and stays.
- `SignedAsConfirmed`, `PaidOnce`, `AcceptedProperly`, `VarianceAcknowledged`, `ClosesAsPromised`: the
  money and the papers of a project agree.
- `CleanJobReachedAll`, `ResumeSkipsSent`, `EveryoneIsTried`: the logs of the mail do not lie and
  nobody is forgotten unless something failed for good.
- `AssignedIsAccepted`, `OutlineFollowsTask`, `ToldStands`, `EveryDecisionIsTold`,
  `AssignmentCompletes`: whatever arrives or stops while a task is given away, one person gets it,
  with the outline, and nobody was told otherwise.
- `LockedIsComplete`, `ToldStands`, `DecisionsAreTold`: half-done approvals, returns and moves leave no
  proposal of a locked session undecided, contradict no mail and forget nobody.
- `AppendicesChain`, `SecondExtensionConfirmed`, `DueDatesFollowPlan`, `RemindedOnce`: each appendix
  starts where the one before it ended, confirmations that were taken back do not count, and periods
  and reminders follow the plan in force.
- `VerdictFollowsSheets`, `OrderHasProposal`: a verdict rests on a sheet of every member whichever
  closing wrote it, and an order names its draft proposal.
- `OwnerHasOwnShare`, `HoursAreShared`, `PagesAgree`: the owner is on the list the owner saved alone; the
  hours paid out for a work, with women's fifth taken off, are at most its hours plus half a
  hundredth each, also from half-saved lists, and nothing if the work is not counted; a person's
  page, the reports and the work's page give
  the same hours, the last up to a hundredth. `HoursAreShared` excludes two situations in which it
  is false, `Borrowed` and `Unpaid` (see [observations](#observations-not-shown-by-a-run)).

Deadlock is checked in `selection` and `task_registration`, where something can always happen;
elsewhere `CHECK_DEADLOCK FALSE`: a case that is closed, rejected or published has nothing left to
do, and bounds end the others.

### Bounds, and why they are enough

- Three review rows let a reviewer be replaced, and the replacement complete a panel of two, with a
  row to spare. Totals 4999 and 5000 lie on the two sides of the threshold, and their mean is
  rounded onto it. In `races_submit` two slots let two last sheets read before either is saved, and a
  panel of three leaves one already in.
- Two sessions and two outlines suffice for every property of `Appraisal`: each relates two sessions,
  two outlines, or one of each. The proofs hold for any number.
- Two texts tell "the text changed" from "it did not"; four versions are a baseline and three
  submissions: one returned, one after reopened minutes, one lost. Two losses let a lost request be
  repaired by one that is lost too. The proofs need none of the bounds.
- One advance, one payment and one purchase cover the three ways to a ledger entry; two lines let a
  variance hide in a sum; two panels let a council be changed after its sheets.
- Two addresses let a broadcast stop between them; one resume and one redelivery give up to three
  broadcasts at once. BullMQ is configured for three attempts; two are used, so that the limit is
  reached. Each deployment has its own number of faults.
- One task suffices for `TaskRegistration`: requests touch one task each. Three people are the
  proposer, one who is accepted and one who is refused. Two proposals and two calls let a session
  stop between two decisions and a proposal change sessions; one call goes through the unit.
- Two requests let a second extension come; one milestone, none, or one without a date are the ways
  a period gets its due date; three days let a due date move across the reminder's day. One desk per
  role is one way to have at most one request of each in flight, which is what the theorems assume.
- Two sessions let an idea be judged twice, two members leave a sheet open; scores 6 and 8 have their
  mean on the threshold. Sessions treat their ideas alike, so one idea shows what a repeated or
  doubled closing does to it; a second one, left undecided when a closing stops, is not in the run.
- Two people, one of them a woman, are owner and co-author, or new owner; a third author is a
  stranger. The lists cover: an unlinked single author, roles with percentages, one person twice, and
  nobody main. Three lists let one be cut off by two others. Six declarations are the ways of counting,
  one of them outside the period.

## Fairness

Safety runs assume none. `FairRacesSpec`: a request that has begun goes on (the event loop resumes
an await whose query answered); stops are allowed in that run and disable what is left of the
request, and the property excuses what they cut off (`lost`). `FairSpec` of `TaskRegistration` is
the same for the requests of PKH (`WF` of `Continue`, one for each clerk). `FairSpec` of the
broadcast: the dispatch, the worker's take and the steps of a broadcast go on; a send ends within
the 25 seconds `mail_service` allows, an entry is handed out because BullMQ's worker polls. Nothing
is assumed about people: nobody is obliged to submit, resume or approve. Deaths and failed queries
of the broadcast are bounded, and its liveness property excuses the runs in which one of them stops
a broadcast for good (`lost`).

## Proofs

Theorems hold for every value of the constants that satisfies the modules' `ASSUME`s, so for any
number of outlines, sessions, rows, vouchers, addresses, workers and losses.

- `OutlineProofs`, blind review: `IInv` is `TypeOK`, `RowMatchesSheet`, `IndependentReviewers`,
  `BlindUntilComplete` and `AverageOfTheSheets` with two facts more: rows beyond the counter are
  untouched (`RowHistory`), and an average is there as soon as it can be (`AlwaysAggregated`). From
  it: `TypeCorrect`, `BlindReview`, `Independence`, `RowAndSheetAgree`, `Aggregation`,
  `AverageInForce`.
- `OutlineProofs`, submissions at once, for any number of slots: `Sequence` (a row whose sheet is
  being handed in stays in force, and nobody hands in before the review is open) and
  `SomebodyWillAggregate`: when the panel is complete, there is an average, or some request has still to
  read the sheets, or has read them and saw no average. Without a lost request this gives
  `NoneForgotten`, since a request that is idle does none of that; `VerdictOfTheAverage` is inductive
  beside it.
- `OutlineProofs`, approval: `Lives` (status, gate, session, conclusion, signature and the save left
  over agree), `Version` (the text under review is that of the version handed in, and it is the
  version PKH let through) and `Base` (there is one baseline as soon as a version needs it, unless
  a request was lost). All four properties of the run are proved.
- `AppraisalProofs`: `Ballots` (a session that was closed has every ballot) is inductive whatever
  outlines the office names, and gives `TypeCorrect` and `MinutesStandOnAllBallots`. `Lives` says for
  each status of an outline where its session is (`NoneInv`, `PublishedInv`, `FinalInv`,
  `ActiveInv`, `SignedInv`, `ResultInv`, beside `OneLiveSession`). It is inductive when the office
  names outlines that the list offers: `SessionsAreDisjoint`, `NoOutlineIsStranded`,
  `ResultsFollowMinutes`, `SignatureLocksMinutes` and `DecisionsStand` assume `Relink = FALSE`. The
  request itself does not check this (see [observations](#observations-not-shown-by-a-run)).
- `ExecutionProofs`: six invariants beside the type invariant, one for each concern (`ContractInv`,
  `AcceptInv`, `RecordInv`, `MoneyInv`, `VarianceInv`, `ClosingInv`); `JudgedByItsCouncil` is
  inductive as it stands. Each can be proved apart from the others, or on top of one of them, since
  contract, ledger and final case meet only in `exec` and in the ledger. Three hypotheses say what
  other officers leave alone, for any number of them: `OwnVoucher` (a voucher one officer is accepting,
  no other reads or returns), `OwnSettlement` (the same of the settlement form) and `LedgerRests`
  (nothing is booked while the form is being accepted). `PaidOnce` needs the first, the refinement the
  second and `~Early`, `VarianceAcknowledged` the second and the third; one officer satisfies all
  three (`OneOfficerSuffices`). `execution_double` shows that the first is needed. The types and the
  other properties have none.
- `CfpBroadcastProofs`: `Own` (a row of a broadcast that has not come to it is not there yet, the one
  it is at is pending or swept, and a mail it takes for sent has arrived), `Accounts` (an address
  without a mail is still to come unless something failed) and `History` (what the broadcasts that
  were over when a new one read the logs had sent is no longer to come). From them:
  `SentMailsArrived`, `CleanJobsReachAll`, `ResumedCallsSkipTheSent`; `CallsAreAsApproved` needs none.
- `TaskRegistrationProofs`: `Settled` (assignment, acceptance, catalogue and outline of a task agree),
  `InFlight` (what a request half-way has read is still so), `Stands` and `AllTold` (what was mailed).
  Hypothesis `OnePerTask`: no two requests in flight are about one task; there may be any number of
  them on different tasks. Two on one task break it: an acceptance and a closing that both read the
  task in its first state overwrite each other. The types need no hypothesis.
- `ProposalProofs`, ideas: `DraftsKnown` (an idea is linked to the proposal it has or to nothing, and a
  request that is drafting one still knows it) holds of every idea of which no draft was deleted, and
  gives `OrdersHaveProposals`. `CouncilInv` gives `VerdictsFollowSheets`: only members of an open
  session score its ideas (`SheetsOfMembers`), a verdict and what a closing is about to store agree
  with the sheets (`VerdictsFit`, `ClosingsFit`), and these change no more since all are in, so any
  number of closings, repeated or at once, store the same.
- `ProposalProofs`, selection: `InSession` (a proposal leaves HOP_LE only by a decision, so what is in
  a session is valid or decided), `InApproval` (what an approval has no more to decide is decided, and
  it holds a vote for the rest) and `DecisionsAreTold` are inductive together, however approvals
  overlap. `ToldStands` needs `Fresh` (what an approval has left is still valid) and with it the
  hypothesis `OwnProposals`: no proposal has still to be decided by two approvals at once. One
  approval at a time, as in the run, satisfies it (`OneApprovalSuffices`).
- `AdjustmentProofs`: `Seat` (what each desk has read of a row holds until it writes), `Reads`, `RowsInv`
  (one open request), `ChainInv`, `DueInv` and `ReminderInv`. Hypothesis `OnePerRole`: no role has two
  requests in flight, however many desks it has; two saves of the investigator at once do open two
  rows. The types and `RemindedOnce` need no hypothesis.
- `PublicationsProofs`: `RowsTyped` (finitely many rows, of different ids), `Alone` and `OwnerComes` (a
  list the owner sends alone names the owner, in an entry still to be saved or in a row) give
  `OwnersHaveTheirShare`. `AllPagesAgree` is about every declaration and rests on lemmas that follow
  the calculation from the weight of a row to its hours. `HoursDivided` first gives each person the
  row their hours come from (`TheirRow`) and shows that no two share one; then shares by percentages
  or by roles add up to at most the whole, over a common denominator. The sums are those of the
  community modules. That they can be taken in any order and compared term by term is proved in the
  module, by an induction over the parts of a finite set (`AllParts`) stated for a set of parts: the
  induction theorems of the library take an operator, which these provers cannot instantiate.

In each, the properties themselves are not inductive: they speak of a late status, and what makes
them true was established several requests before. The strengthenings carry it along, and were
checked by TLC before they were proved.

Some theorems state properties that no run repeats: `RowMatchesSheet`, `FullPanelIsAggregated`,
`SignedMinutesStayLocked`, `JudgedByItsCouncil`, `SignedAsPrinted`, `SentArrived`,
`PublishedAsApproved`, `StartedOnApproval`.

Only model-checked are the three liveness properties, `FullPanelEventuallyAggregated`,
`EveryoneIsTried` and `AssignmentCompletes`: liveness under fairness and ENABLED are out of the
prover's reach. Of the first, `SomebodyWillAggregate` is the safety half: there always is a request
whose turn will bring the average. Every invariant and action property of a run is a theorem; the
hypotheses are those named above (`Relink = FALSE`, `~Early`, `OwnVoucher`,
`OwnSettlement`, `LedgerRests`, `OnePerTask`, `OwnProposals`, `OnePerRole`). Each holds in
every behaviour of the run its theorem belongs to; beyond it, the theorem speaks of every instance,
as far as its behaviours satisfy the hypothesis.

## Disagreements shown by a run

- `execution_double`: two accepting requests book a voucher twice (`project_payment_service.ts:177`).

PROJECT.json quotes the line of the documents that it disagrees with.

## Observations not shown by a run

Found while reading; none is checked, and each says what a later model has to decide. Services are
abbreviated to their last words.

Blind review.
- `replaceReviewer` reads a row, checks, and cancels it; a sheet submitted between these leaves a
  submitted sheet on a cancelled row. A draft saved by a request that read before the submission
  lands on the locked sheet. Two last sheets send the office two notices.
- The panel is read before the average is saved: a reviewer replaced in between leaves an average
  while the new panel is incomplete. `OutlineReviewRaces` can express these interleavings (not the
  notices), but no run puts an office request and a submission side by side: `races_submit` has
  submissions only.
- A stop between sheet and average leaves a full panel without one: submitting again answers at once,
  before it would aggregate (`score_service.ts:333`). `NoSubmissionForgotten` excuses it.
- `withdraw` reads the reviewers before it saves (`project_outlines_controller.ts:492`) and may meet
  an assignment.

Appraisal.
- `publish` sets every linked outline to BAOVE_PENDING without looking at its status
  (`appraisal_service.ts:773`), so one that its owner withdrew to draft is called to its defence,
  although 474 refuses such an outline when the session is made. A decided one is safe
  (`DecisionStands`).
- People may sit in two sessions at one time: a conflict is looked for when the council is proposed,
  and neither the time nor the links are looked at again.
- The list offers outlines of cancelled sessions that `createSession` refuses. `updateDraft` links
  whatever outline it is given, also one that lives in another session (`Relink`).
- `finalize` counts the ballots again only for the outlines its request names; the others keep the
  counts of their last draft. Once the time of the meeting is past no ballot is taken
  (`appraisal_service.ts:948`), so minutes that lack one cannot be closed.

Minutes to approval.
- A second "revise" after reopened minutes keeps the old baseline (`revision_service.ts:278`; the
  comment at 269 speaks of the text at the time of the conclusion). When minutes are reopened in the
  middle of a revision and then pass the outline, BGH gets the draft text while the dossier shows the
  version handed in last.
- With two requests at once: the secretary and the chair leave an outline that waits for BGH with
  the gate of the chair, and its page says that BGH cannot approve it
  (`final_approval_service.ts:215`); reopening minutes over a signature loses it
  (`minutes_service.ts:452`); a confirmation of the chair that read before the signature overwrites
  the status; approval and rejection both land.
- When closing is lost between two outlines of a session, and one of the first is signed before it is
  repaired, the minutes can no longer be reopened for the others. A lost `openRevisionPeriod` leaves
  the old deadline and no baseline.

Contract to liquidation.
- A dossier saved before the contract is signed starts the final evaluation, and the signature then
  takes `execution_status` back (`Early`; `prompts/module-5-6.md:188` knows no status of execution
  before the signature).
- `submitLiquidation` has no guard on the status of the record. A draft of the dossier keeps returned
  vouchers from being submitted again (`project_payment_service.ts:61`).
- Minutes, explanation and settlement are each followed by a second save, of the outline, that may
  not happen. Clauses of a contract are saved after the document was rendered from what was read.

- A voucher under way when the liquidation record is printed is booked afterwards, and the record
  shows less than the ledger (`prompts/module-5-6.md:249` says what it is to show).

Calls.
- The in-app notice of a call is pushed again by every resume (`call_for_proposal_service.ts:483`).
- A death between the job row and the in-app push leaves a broadcast that no resume pushes again
  (`call_for_proposal_service.ts:484`). A redelivered entry opens a second row and leaves the first
  as running. Since the broadcast catches its errors, the queue's attempts are used only when a
  worker dies (`:563`).
- An extension saves period and call one after the other (`:593`). Mails go out after the call was
  closed (`:573`), publication replaces the number given at approval, the rule of ten days is checked
  at submission only, and a task can be moved away from a published call (`:839`).
- Without SMTP a job is done with the in-app notices alone.

Registrations for tasks (`review_service` is `proposal_registration_review_service`).
- Two clerks at once break `AssignedIsAccepted`. A stop after the assignment row leaves a task that is
  never DA_GIAO: the retry is refused and nobody is told (`review_service.ts:288`).
- A closed task still takes registrations (`proposal_registration_service.ts:138`), which nobody can
  decide (`review_service.ts:315`). The message at 326 says one may first "chấp thuận đơn khác";
  `chapThuan` refuses that once one is accepted.
- `phanCong` rewrites owner, team and budget of an outline that was already filed. ADMIN's edit and the
  approval of BGH may take `can_write_outline` from a task that is given away. Correcting a reason while
  `phanCong` runs mails another reason than the one saved.

Selection (`selection` is `proposal_selection_sessions_controller`).
- Results entered after the minutes were saved go to BGH under minutes that show others
  (`selection.ts:269`, 285, 592). Minutes are accepted while BGH has the session, and at the same
  moment as its approval they can leave MINUTES_SAVED on a locked session for good.
- A proposal that becomes valid after the session of its call exists enters none. `ganNhiemVu` can put
  a valid one into a second session. A submission from YEU_CAU_BS goes back to the unit; an update can
  move a proposal past it. A proposal judged valid while PKH rejects it can block a session.
- Such a proposal, in two sessions that BGH approves at the same moment, is decided and mailed by
  both (`selection.ts:461` looks at what was read): with `Overlap` set, TLC breaks `ToldStands`.
- ADMIN's correction mails ADMIN only. The adjustment round (DIEU_CHINH) is legacy.
- `project_proposal.ts:239`: a code is the last one plus one, read, then written, by two requests.

Adjustments and progress (`adjustment_service`, `progress_service`).
- Two saves of the investigator at once open two rows, each of them a "first" extension
  (`adjustment_service.ts:77`; `prompts/module-5-6.md:136`). BGH's approval does not look at the
  execution status, and replaces budget lines whatever was spent.
- The refresh also moves periods whose report is in (`prompts/module-5-6.md:333` speaks of those not
  yet handed in); an extension does not move undated milestones that fell on the old end; new
  milestones get no period and removed ones keep theirs.
- Days already reminded of are kept when a due date moves (`prompts/module-5-6.md:202` counts days
  before the due date); a day on which the process is down is skipped; two reminder processes at
  once mail twice.
- A confirmation of the head of PKH that is in flight while PKH returns the request and the
  investigator rewrites it counts for the new version. A return of PKH racing BGH's acceptance could
  reopen an approved row.

Ideas.
- An idea in two sessions, or a session closed again after a stop, takes back a leader's approval:
  APPROVED_FOR_ORDER becomes PROPOSED_FOR_ORDER or REJECTED, with its draft proposal left; and it
  revives a rejected idea (`prompts/05-ideas.md:76`: "REJECTED | Từ chối (kết thúc)").
- Two computations of one verdict: `close` compares the unrounded mean of the sheets with 7.0
  (`council_sessions_controller.ts:204`); the result pages round the mean to hundredths first and then
  compare (`idea_council_scores_controller.ts`, near 239), and the idea stores the rounded one. For
  6.99 and 7.00 the page says 7.00 and "propose", while the idea is rejected for not reaching 7.0. With
  four or more members a floating sum of sheets whose mean is exactly 7.00 can fall below.
- A rejection is accepted from any status, also APPROVED_FOR_ORDER, and leaves the draft
  (`ideas_controller.ts:415`); an approval racing it ends approved. `councilResult` overrides any status.
- A draft score that was read before the member's submission may land on the submitted sheet
  (`idea_council_scores_controller.ts:70`). Stale saves of two clerks may put a decided idea back.
  Nothing sets REVIEWING. The counters of members and ideas are read, changed and written back. A
  deleted draft proposal leaves its link on the idea.

Publications and hours.
- Exchanging the places of two authors always meets the unique constraint and stops half-way, after
  the deletes. The owner's own row never takes a new place, so a list that gives its old place to
  another row fails too.
- `Unpaid`: when percentages add up to 100, a row without one still gets B/p, so that more than B is
  paid. `Borrowed`: an owner without a row borrows the share of the first top author; if that row is
  linked to somebody, it is paid twice.
- A rule in points of the HĐGSNN on a type outside sections 1 to 5 is divided by percentages where
  there is no cache of rules and by roles where there is one; `KpiAssumption` excludes it.
- The page of a publication without an owner, opened without a profile, shows 0 for everybody. Hours
  of a project go to its owner whole, where `prompts/kpi-engine.md:117` divides them.
- `kpi_results` of people who are on no publication any more are never computed again, and are shown
  to clerks (`review_service.ts:153`). A renewed request for correction racing the owner's update
  leaves CORRECTED with a reason; an approval is not undone by later edits.

Backups.
- The lock of a restore is in the memory of one process (`backup_service.ts:217`).

## What is not modelled

Within the modelled parts:

- *Who* may call: permissions are guards on the actor, and the models take the actor to be one who
  may. Where the person matters (a reviewer of their own project, a council of its own members) it is
  a constant.
- *Documents*: files, notes, wording, layout and decision numbers. What a document prints and a later
  step relies on is kept as a value (the amounts of a contract, the figures of the record).
- *Time*: a deadline is far, near or past; a meeting is ahead or past. `Progress` counts days;
  reminders elsewhere are left out.
- `Appraisal`: the older flow of one outline (`confirmSession`, `saveMinutes` and `finalize` of
  `project_outline_defense_service`). `OutlineApproval`: requests at the same time, and the deadline
  that is copied to the session.
- `BudgetLedger`: planned amounts and the flag of an overrun, which inform and refuse nothing; manual
  entries. `FinalCase`: drafts of an explanation, quorum, assets, the profiles written at the end.
- `CfpBroadcast`: a deployment without SMTP; extension, attached tasks, numbering and rendering.
- `TaskRegistration`: the correction of a reason, members, files, budgets. `Selection`: deadlines of a
  supplement, members of proposals and sessions, the adjustment round. `Progress`: what a report says,
  the figures beside it, reminders of an explanation. `Adjustment`: reasons and evidence.
- `Ideas`: editing a draft, counters, criteria and weights of a sheet; requests that save once are one
  action (a stale save of a move touches neither verdict nor draft), and adding ideas or members while
  the session opens. `KpiHours`: points, warnings, projects, the sum over a period, layout; percentages
  are whole, names are unique among profiles. `Publications`: review status, content, dates, the
  display string; the read and the save of a row are one step, profiles of administrators and entries
  that leave their profile out do not occur.

Whole parts:

- *one owner, one document*: the preparation of outlines (creation, members, budget form), profiles;
- *nothing to check*: catalogues, templates, accounts, dashboards, achievements, notifications, audit,
  which hold records of one owner or only read;
- *legacy*: the budget confirmation of an outline, which nothing reaches;
- *outside*: imports and maintenance commands run by hand, and backups, which are `pg_dump`,
  `pg_restore` and `zip` around a flag.
