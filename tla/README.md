# A TLA+ development for hell-ui

`hell-ui` is an Angular component library (`packages/angular`) with the tooling
that releases it (`tools/`). Most of the library is templates and class recipes
over inputs. The part that is hard to get right is small and spread out:
asynchronous loading that is superseded, timers that outlive what they were
armed for, attributes of one document that several overlays own together,
queues of promises that components abandon, a focus that several timers want to
move. The tooling is harder than it looks where it writes to GitLab, which
outlives every job, indexes late and loses answers. This directory models both
in TLA+, checks them with TLC on small instances, and proves the safety
properties that matter most with TLAPS for every value of the constants.

Paths below are relative to `packages/angular/` unless they start with `tools/`,
`docs/` or `.gitlab/`, which are relative to the repository.

1. [The system](#1-the-system) 2. [Plan](#2-plan) 3. [The modules and the
code](#3-the-modules-and-the-code) 4. [The runs](#4-the-runs) 5.
[Fairness](#5-fairness) 6. [The proofs](#6-the-proofs) 7. [Where the code and
its documentation disagree](#7-where-the-code-and-its-documentation-disagree) 8.
[What is not modelled](#8-what-is-not-modelled)

## 1. The system

JavaScript runs one turn at a time. Nothing is preempted; what interleaves is
turns: DOM events, promise continuations, timers, animation frames, Angular
effects and destroy callbacks. A model's atomic step is therefore the code
between two points where another turn can start, and most properties ask what a
turn finds when the state it was started for is gone. The release tools are
processes on different machines: a model's step is one request to GitLab, and
the properties ask what is left when a process dies, or its answer is lost,
between two of them.

### Components with behaviour over time

| Component | State | Operations | Talks to | Hard behaviour | What makes it correct |
|---|---|---|---|---|---|
| **PDF runtime** `features/pdf-viewer/pdf-viewer.runtime.ts` | session, active document, load task, load token, print session, thumbnail queue and token | bootstrap, loadDocument, renderThumbs, print, cleanup | the component (calls), pdf.js through an adapter (promises), iframes and timers | every method awaits; calls overlap; destruction at any await | no document leaks, stale loads never publish, one render per canvas, every print frame removed |
| **PDF viewer** `features/pdf-viewer/pdf-viewer.ts` | page count, rail open, canvases | source effect, thumbnail effect, destroy | the runtime | effects fire before bootstrap and between awaits | count belongs to the document |
| **Dialog modality** `dialog/dialog-scope.ts` | counts per scope root and per document, saved attributes, cleared set | engage and release a root, page blockers, aria-hidden upkeep | every dialog; ng-primitives' dialog manager over the same attributes | opening and closing in any order, exit animations, a `scoped` input that flips | attributes are a function of the open set; the page gets its own back |
| **Toast stack** `toast/toast-internal.ts`, `toast/toast-stack.runtime.ts` | toasts, countdowns, exit timers, paused, expanded, exit snapshots | create, update, dismiss, pause, resume, enter, leave, render, destroy | consumers (service), the pointer and focus, timers | pause and resume against timers that are due; regions that vanish under the pointer | countdowns exact over pauses; a held stack is paused; nothing stays for ever |
| **Search resource** `core/search-resource.ts` over `internal/core/async-resource-lifecycle.ts` | observed inputs, debounce timer, active controller, results | query and item changes, dispatch, answer, refresh, cancel, clearResults, reset, destroy | a source (promise or observable), an effect | late answers, a clear in the debounce window, explicit refresh against the effect | latest wins; a clear stays clear; rest shows the current inputs |
| **Prompts** `confirm/confirm.ts` | modal queue, presented entry, anchored view, pending promises, destroy callbacks | ask (modal, anchored), choose, dismiss, displace, caller destroyed | callers (promises), ng-primitives' dialogs and overlays | callers die while queued, presented or leaving; exits are asynchronous and may fail | every request answered once, with what the user picked; nobody waits behind a dead entry |
| **Audio transcript** `audio-player/audio-player.ts`, `features/audio-transcript/audio-transcript.ts` | strip, playing, recognizer, captured stream, scrub timer | media events, effect, start, stop, error, end, destroy | the browser's SpeechRecognition and media capture | a stopped recognizer still reports; the timer and `onend` start without the effect | one listener, no leaked capture, follows playback |
| **Floating dismissal** `internal/core/floating-dismissal.ts`, `floating-scope.ts` | active surface, pointer-inside flag and timer, scopes | pointer, click, focus, Escape, focus exit | omnibar and the audio player's captions; popover, menu, select and filter builder register scopes with it | focus exits decided in a microtask; nested surfaces | one event dismisses at most the surfaces it is outside of |
| **Popover, tooltip, menu** | open state (ng-primitives), hover timers | show, hide, async close decision | floating dismissal | a decision that resolves after a reopen | a stale decision closes nothing |
| **Filter builder** `features/filter-builder/` | filters, editor session, picker value, focus timers | open, commit, cancel, remove, clear | popover promises, host value | session promises resolve late; host replaces filters under an editor | a stale session moves no focus and writes no filter |
| **Dialpad** `features/dialpad/dialpad.ts` | caret, pending edits, pointer and focus flags | key, delete, paste, host echo | host value, focus | host echoes late, rewrites, or never | caret follows the echoed edit; queue bounded |
| **Omnibar** `omnibar/` | query, active item, results | type, move, commit | search resource | results replaced under the active item | commit acts on what is shown |
| **Table shell and utilities** `table-tanstack/`, `table/` | focus cell, sizes, window, selection anchor | move, resize, scroll, select range | TanStack, ResizeObserver, virtualizer | rows come and go under focus and anchor | focus stays in the table; sizes within bounds |
| **App shell** `app-shell/` | open panels, trapped panel, restore target and generation, staged actions | open, close, click, tab, host calls, breakpoint, register | the host (bindings, handlers), timers, frames, a document capture listener | three timers and a frame per restore, guarded by a generation; one click crosses two listeners, a handler and a microtask | only the newest restore moves focus; a rejected close gives it back |
| **Master-detail** `master-detail/` | pane, focus request counter | navigate, back, breakpoint | router, a microtask after the effect | panes come and go under the request | only the newest request moves focus |
| **Toolbar** `toolbar/` | widths, overflow set, roving item | measure, resolve, focus | ResizeObserver, frames | measurement of items already replaced | every item exactly once, priorities kept |
| **Resizable** `resizable/`, `internal/core/resize-behavior.ts` | panel sizes | drag, key, reset | pointer | distribution over neighbours at minima and maxima | sizes sum to the whole, within bounds |
| **Date and time pickers and inputs** | view, selection, draft, digit buffer and timer | move, pick, type, commit | host value, Intl | drafts against host writes; digits against the timeout | what is committed was typed or picked and is allowed |
| **Number input, pagination, file picker, chips** | value, hold timers; page; drag depth; focused chip | step; go; drop; remove | host value, pointer | bounds and off-by-one; removal applied late | in range, focus not lost |
| **Code editor** `features/code-editor/` | editor view, compartments | create, reconfigure, destroy | CodeMirror, lazy loading | extensions resolve after destruction | no stale configuration |
| **Release pipeline** `tools/release/gitlab-release-projection.mjs`, `registry-consumer-probe.mjs`, `.gitlab/ci/release.yml` | the tag, its rule, the packages, the release; per pipeline the jobs' status | gates, approval, publish (preflight, upload, confirm), consumer probe, projection (lookup, read, create, reread), rerun | the registry and the releases API, maintainers, other pipelines of the version | an upload is indexed late; answers get lost; jobs die and are rerun; tags move | one upload per version; a green projection names it, and stays true |
| **Release drift sweep and restoration** `tools/release/gitlab-release-drift.mjs` | what a command has read; its plan | read, compare, report; plan, write, verify | the same world, while pipelines write it | reads are not a snapshot; a restoration stops half-way | no false alarm; running it again completes |
| **Main policy restoration** `tools/policy/main-policy.mjs`, `restore-main-policy.mjs`, `gitlab-api.mjs` | what a command has read; the requests it still has to send | read, plan, send, fail, verify | project settings, protection rules, labels; other maintainers | a rule is replaced by delete and create, with a gap between | a gap is closed at once or reported; a rerun heals |

### Components without it

Controls over ng-primitives (radio, checkbox, switch, slider, toggle, tabs,
accordion, select and combobox lists) bind one directive to one value. Display
components (avatar, breadcrumbs, button, card, icon, ...), part-style pipelines,
labels, DOM helpers, test harnesses, the docs app and the build tools keep no
state whose order matters. `PROJECT.json` lists each with its sources and the
reason it is left out.

## 2. Plan

The order is by how much can go wrong that a test would hardly reach.

| # | Module | Models | Composition and abstraction | State |
|---|---|---|---|---|
| 1 | `PdfRuntime` | document loads | base of 2 | checked, proved |
| 2 | `PdfThumbs` | thumbnail batches | EXTENDS `PdfRuntime`, joint next-state relation | checked, proved |
| 3 | `PdfPrint` | print sessions | independent of 1 and 2 (shares only the runtime's disposal) | checked, proved |
| 4 | `DialogModality` | shared document attributes | implements `DialogContract` | checked, proved |
| 5 | `ToastStack` | timers and pausing | stack and renderer in one module | checked, proved |
| 6 | `SearchResource` | debounced dispatch | implements `LatestWins` | checked, proved |
| 7 | `Prompts` | confirm queues | modal queue and anchored manager | checked, proved |
| 8 | `AudioTranscript` | recognition | player and runtime | checked, proved |
| 9 | `FilterEditor` | editor sessions of the filter builder | independent | checked, proved |
| 10 | `DialpadEcho` | pending edits against the host's echoes | independent | checked, proved |
| 11 | `AppShell` | mobile panels and their focus | independent | checked, proved |
| 12 | `GitlabRelease` | tag pipelines of one version | base of 13 | checked, proved |
| 13 | `ReleaseDrift`, `ReleaseRuns` | the sweep and the restoration | EXTENDS `GitlabRelease`; `ReleaseRuns` gives each question its bounds | checked, proved |
| 14 | `MainPolicy` | restoring the policy of `main` | independent | checked, proved |
| 15 | `SideBySide` | 3, 8, 9, 10, 11 and 14 in one run | six parts that share nothing | checked, proved |
| 16 | `FloatingDismissal`, `OmnibarList` | one event against nested surfaces; the active item over results | contract: an event closes exactly the surfaces it is outside of; the list composes `SearchResource` | next |
| 17 | `ResizePanels`, `ToolbarOverflow`, `PageWindow`, `SearchRanking` | pure algorithms | each against a reference definition over bounded inputs | next |
| 18 | `MasterDetailFocus`, `TimeDigits`, `NumberHold` | timers with a guard | one shared pattern (generation or handle) | next |
| 19 | `TableFocus` | roving focus, selection ranges, column sizes | operators and one state machine | later |

Every safety and action property of modules 1 to 15 has its theorem (section 6).
Theorems still worth proving come with the modules that are next: that an event
reaches each nested surface at most once, and the bounds of the resize and
overflow operators.

Rules all modules keep: one action per handler, including every call in it that
changes state; no RECURSIVE operator in a module with proofs; bounds only in
guards and only under a named constant; a definition marked *Fault* is a bug the
code does not have, kept next to the definition it would replace and used by no
specification.

## 3. The modules and the code

### PdfRuntime

`loadDocument` is cut at its awaits: `LoadSource` (the component's effect up to
the await on `cancelActiveLoadTask`), `CancelSettles`, `TaskCreated` or
`TaskRefused`, then `DocumentArrives`, `StaleDocumentArrives` or `LoadRejects`.
`pc[l]` says where the call `l` stands and `awaits[l]` whose task it waits to be
destroyed. Loads are numbered by call, so "newer" is `<`. `loadToken` is the
code's counter, spent by requests and by the two cleanups.

Two facts of the event loop are part of the model. A call that found no task to
destroy continues in a *microtask*: before any other event, and in the order of
the calls (`Idle`, `MayResume`). A task given to `destroy()` may never settle,
so its promise carries no fairness.

`open` holds the documents handed over and not destroyed, `shown` the one the
pdf.js viewer is attached to. After `Destroy`, a bootstrap that was still
awaiting stores a session in the dead runtime: the model keeps that.

### PdfThumbs

Extends `PdfRuntime` and interleaves with all its steps, because a batch rereads
`session`, `doc` and `loadToken` after every render. `rail` says which canvases
are mounted; a canvas is one DOM element and is mounted once. `ChangeSource` and
`LeavePage` are the base's `LoadSource` and `Destroy` with what they do to the
rail: a reset page count unmounts it in the same change detection. The component's
effect is cut in two, since it runs when a signal it read has changed
(`AskThumbs`, which hands over nothing when it finds no document) and calls
`renderThumbs` in a microtask (`RenderThumbs`), before which a load may have
moved on. `StartBatch` is the entry of `renderThumbBatch`, `SkipCanvas`,
`DrawCanvas`, `DrawLands`, `DrawFails` and `StopBatch` its loop. `marker` is
`renderedThumbs`, which says for which token a canvas was painted, `picture` what
is really on it: a document's page, `Failed` or, where the adapter found no 2D
context and returned, `NoContext`.

### PdfPrint

`print` is cut at its two awaits. `frames` are the hidden iframes that exist,
`printCleanup` the one session the runtime remembers, `timer` the sessions with
a pending cleanup. A runtime that is disposed between the two awaits prints all
the same.

### DialogModality and DialogContract

One action per transition of one dialog: `Open`, `Close`, `DestroyOverlay` (the
end of the exit animation), `BecomeScoped` and `BecomePageModal` (the `scoped`
input), `Attach` and `Detach` (the body gains or loses an element), `Settle`
(the microtask that applies aria-hidden). `engaged`, `saved` and `inert` are
kept per root; `inert` stands for all properties saved and restored together
with it (overflow, padding, position). `modality` is the document record:
counts, focus-trap marker, aria-hidden per element and the `cleared` set. The
map of ng-primitives' `NgpDialogManager`, which hides the page when its first
dialog opens and restores it when its last one closes, is external. A pass
reaches the elements that are in the body then: one taken out while a dialog is
rendered keeps what the last pass gave it, and may be back too late for the pass
that restores. `strayed` remembers these elements, and the promises about
aria-hidden are about the others. `MCDialogModality` adds the symmetry of
dialogs and of roots, which no action and no property tells apart.

`DialogContract` states the promise without counts: what each dialog holds, and
attributes that are a function of it. `FollowsContract` is the refinement.

### ToastStack

Toast ids grow and every operation keeps the order, so a phase per toast stands
for the list. A timer is a record of state, what remains and how long it has
run; `Tick` moves all running ones. A timer may fire at any moment after it is
due, so pause and resume meet timers that are late.

`focused` is the element that has the focus: a control of a toast, which its
action, `dismissible` and template give it (`controls`, changed by `Update`), the
region, its viewport while that scrolls, or the Dismiss-all button. `drawn` holds
those the last render drew. `Render` is the renderer's effect and its template: it
resumes an emptied stack, takes the exit snapshots, and removes elements, with the
focus if one of them has it; whether the browser then sends a `focusout` is left
open. Whether the viewport scrolls depends on heights the model does not keep, so
that is open too, and `Resize` renders again. `shown` and
`place` are history variables for the countdown and the exit positions.
Destroying the service leaves the list alone, as in the code.

### SearchResource and LatestWins

A dispatch is one snapshot of the inputs. `EffectIgnores` and `EffectDispatches`
are the two outcomes of the effect, with or without debounce; `TimerFires`,
`Answer`, `Refresh`, `Cancel`, `ClearResults`, `Reset` and `Destroy` are the
other operations. The code compares a controller and a generation number; the
generation never changes alone while a dispatch is active, so the controller's
identity stands for both. A local search answers in a microtask; letting it
answer at any later time only adds behaviours. `refresh` after `destroy` still
runs, as in the code.

`LatestWins` has no timer and no controller: dispatches start in order, one is
wanted, only it publishes, and the view is a function of the wanted one and the
last outcome.

### Prompts

Requests are numbered in the order of asking; `anchored` marks those that took
the anchored form. `queue` and `openRef` are the modal queue, `view` is what the
dialog or overlay of a request does (none, opening, open, closing, gone),
`closed` the value its dialog was first closed with and `answer` what its promise
resolved to. Code that runs in one turn but through several entries is
split by two variables that block everything else: `pumping` (pump is on the
stack) and `pending` (destroy callbacks Angular has still to call). A dialog
reference honours the first close only. An anchored prompt hides first and
settles later, and either can fail. The countdown of a request is one tick.

### AudioTranscript

`rt` is the record of the transcript runtime: current recognizer, whose stream
is captured, which streams still have running tracks, which recognizers listen
and which were stopped and have still to report. `OnError(r)` and `OnEnd(r)`
take any recognizer that may still report, current or not, and act on whoever is
current, as the handlers do. The effect re-runs only for the signals it read on
its last run, up to the first that was false (`Reads...`): recognition started
by the scrub timer is not seen by it. The microtask that restarts after a native
seek runs before any other turn and is part of that step.

### FilterEditor

A popover's engine stands at `closed`, `opening`, `open` or `exiting`, and every
step after the synchronous one is an action of its own: `ShowSettles`,
`HideSettles(h)`, `Exit(s)`, the one focus timer (`FocusTimer`; a new one
replaces the old) and a focus-out timer per exit of the focus
(`FocusOutTimer(o)`). `BeginCreate`, `PressToken`, `ClickToken`, `Commit`,
`Cancel`, `ClearAll` and `TokenKey` are the handlers, `MoveFocus` and `Dismiss`
the user, `SetValue` and `SetOffered` the host. `session` numbers are
`nextEditorSession`, compared where the code compares them. Every field takes
one filter, so a filter is named by its field. A token that goes takes its
panel, its pending exit and the focus on it along (`Removed`), whoever removes
it; the Clear button goes with the last. `BeginCreate` may find its panel still
opening from the session before: the earlier `show()` then answers nobody.
`left` and `owed` are history: what the user did since the live session began,
and whether the focus has to come back.

### DialpadEcho

The host owns the number: an edit is appended to `flight` when it is published
and bound by `HostEchoes(k)`, which may skip earlier ones; `HostWrites` binds a
number the dialpad never published. `pending` is `pendingEdits`, cut to `Limit`
at its oldest end, and `EditOf` finds in it the edit a bound number answers.
`strays` counts the edits in flight that are older than a number which answered
none: they may rightly be taken for foreign.

### AppShell

`shell` is a record of the shell's private fields and the document's focus, since
most operations compute the next from the last through several helpers, which
are operators from record to record (`Toggle`, `Set`, `ClosePanels`, `Complete`,
`Capture`, `Redirect`, `Teardown`, `Enabled`) with the code's names and order.
`RunEffect` is the effect that enables and tears down the trap. A click is one
turn through the capture listener, the control's own handler (`Handle`: a toggle
of the shell, or what a host's button calls) and the host listener; `Clicked`
puts the microtask where the browser does, after the first listener if the user
clicked, after the last if a script did, which is what the finding of section 7
is about. `Retry` and `LastRetry` stand for the three timers and the frame of
one restoration, whose generation is current; tasks of an older generation do
nothing. The sidenav may be unregistered or replaced by another element, the
secondary panel stays; the host's `remote` button is outside the shell.

### GitlabRelease

The world (`tag`, `ruleLive`, `packages`, `uploads`, `release`) outlives the
pipelines. `job` is the status of each job; the two that write, publish and
projection, share the resource group and stand at `act[p].step`, one action per
request: `PublishPreflight`, `PublishUpload(taken, answered)` (the registry
takes the upload or not, and the job learns it or not), `PublishConfirm` (one of
`Attempts` reads), `ProjectLookup`, `ProjectRead`, `ProjectCreate`,
`ProjectReread`. The gating jobs decide at once from what they are handed.
`JobDies` kills a writing job between any two requests, `Rerun` sets a finished
job back, a green gate too as long as its pipeline has not published, `Index` is
the registry catching up, and the maintainer's actions change the world behind
the pipelines' backs. A record's title and text are one value per commit, so
`text # commit` is an edited or foreign text.

### ReleaseDrift and ReleaseRuns

`ReleaseDrift` extends `GitlabRelease` with two commands, each reading releases,
tags and packages one request at a time: `Audit` compares, `Plan` derives what
to write (`RestorationPlan`), `RestoreText`, `RestoreDrop` and `RestoreAdd`
write one request each, carried out or not, answered or not, and `RestoreVerify`
reads back. `AddLink` and `RemoveLink` are a maintainer's hand on the links.
`ReleaseRuns` only gives each question its bounds: two pipelines without the
commands, one beside the sweep, one beside the restoration.

### MainPolicy

An item (the settings, the branch rule, the tag rule, a label) is exact,
drifted, missing or ambiguous. A command reads the four one by one (`Read`),
turns what it saw into requests (`Repair`, `RestorePlan`) and sends them in order:
`Send`, `Refused`, `AnswerLost`; the first failure drops the rest and names a
rule it has just deleted (`Orphaned`). `gap` and `told` are history: who left a
rule missing, and whether someone was told. Several commands and hand edits
interleave at every request.

### SideBySide

`PdfPrint`, `MainPolicy`, `FilterEditor`, `DialpadEcho`, `AppShell` and
`AudioTranscript` share neither state nor calls. Composing them freely would
multiply their states and show nothing, so a behaviour of `SideBySide` is a
behaviour of one of them, chosen by `part` in the initial state.

## 4. The runs

The largest runs, `toast_stack` and `releases`, have almost 900 000 states, the
others a few hundred thousand or less; each finishes within five minutes on two
cores. Deadlock is not checked where the system may really stop: everything
destroyed, everything settled, or the bound on requests used up. Type invariants
are proved where there is a proof module (section 6) and not repeated in the
runs.

| Run | Bounds | Checks |
|---|---|---|
| `pdf_thumbs` | 2 loads, 3 batches, 2 canvases | the open documents are the active one; one render at a time; a row shows the document whose pages the rail counts; no mounted row is forgotten, and none whose render failed counts as painted; documents publish in order; the newest load settles; the queue drains |
| `dialog_modality` | 3 dialogs, 2 roots, 1 late element, dialogs and roots interchangeable | nothing open, nothing changed; the page is hidden or exposed as the open dialogs say; the contract |
| `toast_stack` | 2 toasts, durations 0 and 2, 1 patch, 1 control on the first toast beside the stack's own three | countdowns exact; a held stack is paused; only a render that takes the focused element strands the stack; toasts go |
| `search_resource` | 2 queries, 2 collections, 3 changes | cleared stays empty; rest shows current inputs; `LatestWins`; changes settle |
| `prompts` | 2 callers, 3 requests, 2 actions | nobody is stuck in the queue; the answer is the pick; no focus for destroyed callers; ended prompts are answered |
| `side_by_side`, transcript | 3 recognizers not yet ended, delay of 2 ticks | one listener and one capture; recognition stops with playback; a player that should be heard is, unless a recognizer failed |
| ... prints | 3 prints | a session loses its owner only to an overlapping print |
| ... policy | 2 commands, 2 hand edits, 1 failing request | a gap is closed next or was reported; running again heals |
| ... filter | 2 fields, 2 sessions, 1 host change | no promise, timer or exit of an earlier editor ends a live session; the focus comes back |
| ... dialpad | 1 digit, numbers up to 2, 3 edits in flight | an echo is recognised however late it is bound |
| ... shell | 3 actions of the user and host | a late restoration steals no focus; a panel asked to close closes or gets the focus back |
| `releases`, two pipelines | 3 commits of which 2 can be released, 2 reads, 1 rerun, 1 maintainer write | a confirmed version is listed; a green projection is exact; only approved pipelines write; a confirmation ends the uploads; approved pipelines conclude |
| ... sweep | 1 pipeline, 2 commits, 1 maintainer write | no false alarm |
| ... restoration | 1 pipeline, 2 maintainer writes, 1 failing request, 2 links | running it again completes it |

Why the bounds suffice to make the interesting cases happen:

* Two loads are one publishing and one superseding it at any of its awaits; a
  third is needed only for the finding `pdf_newest_survives`, whose run has it,
  and the proofs cover any number. Thumbnails need a reload, an overtaken batch
  and one after it, since the effect can ask again while two are queued; three
  prints give an overlap and a later print that meets its leftovers.
* Three dialogs on two roots are two on one root and one on the other, or a
  page blocker between two scoped ones; one late element is enough to differ
  from those present at the baseline.
* Two toasts are one being removed and one left behind, and the fewest that show
  Dismiss all; one control, on the first of them (`MCToastStack`), is one that the
  focus is on and that a patch or a removal takes away, beside a toast that stays.
  A duration of two ticks is one that can be paused in the middle, zero keeps a
  toast for ever.
* Three input changes reach a dispatch superseded by one that is cleared before
  a third answers.
* Three requests are one presented, one waiting and one displacing or waiting
  behind it, from two callers one of which may die.
* Three recognizers are the current one and two that still report. A tick is
  100 ms, half of the scrub delay.
* Two restoring commands overlap at every request, and a second hand edit can
  undo what the first run repaired.
* Two editor sessions are the one that left promises and timers behind and the
  one they must not end; one host change takes the token or the field away
  under either.
* Three edits in flight fill a queue of limit three: the oldest echo arrives
  last, alone, or never.
* Three moves open a panel, ask for its end and let the user or the host act
  while the restoration is still being tried.
* Two pipelines are a push and its retag, or a dry run and the release; one
  commit that cannot be released is what the gate is for. Two reads are one that
  is too early and one that is too late. One rerun repeats a job whose answer was
  lost.

Five further runs each check one statement of the repository that the code does
not keep; see section 7.

Each property has a mutant in `PROJECT.json`: a definition of the code's model
replaced by a plausible bug of that code, under which TLC finds the property
violated.

## 5. Fairness

Safety properties use none. Liveness assumes only what the platform owes:

* `PdfRuntime!AdapterAnswers`: promises of pdf.js settle, except those of a task
  that was destroyed. Nobody has to change the source or destroy the viewer.
* `PdfThumbs!FairThumbSpec`: microtasks run and renders settle.
* `ToastStack!Fairness`: timers fire, change detection runs, time passes.
  Pointers and focus owe nothing, so `ToastsExpire` excepts a stack that is held
  again and again.
* `SearchResource!Spec`: the effect runs, the debounce timer fires, and a wanted
  dispatch is answered with success or failure. A dispatch nobody wants may stay
  unanswered.
* `Prompts!Fairness`: synchronous code finishes, exit animations end, the
  promise of `hideImmediate` settles. Nothing makes a user answer, which is why
  `EndedPromptsAnswered` speaks of prompts whose view has ended.
* `FilterEditor!FilterFairness`: the focus timer fires, promises of `hide`
  settle, exits end.
* `AppShell!ShellFairness`: the effect runs, the last check and the last retry
  happen, and a request to close expires after its 0 ms timer. No user and no
  host has to act, so `RejectedCloseReturnsFocus` rests on the timers alone.
* `MainPolicy!FairSpec`: a command goes on, and is run again while the project
  drifts, as its documentation asks. Failures are bounded by their number, hand
  edits likewise.
* `GitlabRelease!FairSpec`: a job that runs goes on, and a job whose needs are
  green is started when the group is free. Neither the registry nor a maintainer
  owes anything, and an attempt may always fail.
* `ReleaseDrift!FairDriftSpec`: a restoration reads on and is run again, and its
  requests are not refused for ever. In `ReleaseRuns` and `SideBySide` this and
  the policy command's fairness are bound to the behaviours that have them.

All are weak fairness: each of these actions stays enabled until it is taken or
made unnecessary.

## 6. The proofs

Each proof module `<M>Proofs` extends `<M>`. `PdfRuntimeProofs` also extends
`PdfThumbs`; `SideBySideProofs` is about the transcript and the five parts beside
it, and `ReleaseRunsProofs` about the pipelines, the two commands and their
composition. The argument is the same in all: an inductive invariant (`IInv`,
or one per part), the initial predicate implies it, one step per action of the
next-state relation preserves it, and the theorems are its consequences. TLC finds
each of these invariants to hold on its run's instance.

Constants carry the assumptions named in the modules (`..Assumption`), and
nothing else is assumed. Most say that numbers are naturals, delays positive, and
special values no members of the sets they extend (`NoneAssumption`: no release
is told from every release). Three say more:

* `FieldAssumption`: the create popover is the popover of no field. In the code it
  is an element of its own.
* `EchoAssumption`: no more edits of the dialpad are on their way to the host than
  the dialpad remembers (`MaxFlight <= Limit`). The code remembers 32 and by
  design takes the echo of an older edit for a host's own number; without the
  assumption the property is false of the code, with it the theorem holds for every
  length of number and every limit.
* `CommitAssumption`: the commits that pass the gate are commits.

| Module | Theorems | Why the properties alone are not inductive |
|---|---|---|
| `PdfRuntimeProofs` | `TypeCorrect`, `NoDocumentLeaks`, `PublishIsSafe`, `NothingAfterDestroy`, `LoadsPublishInOrder`, `CountBelongsToDocument`, `RendersAreSerial`, `MarkersAreTrue`, `RowsAreOfDocument`, `RowsAreTried` | `TokensCounted` and `CallsInOrder` say how tokens are spent, so that at most one load is current (`OneCurrentLoad`) and none after destruction; the count is right because the component's reset and the runtime's publication meet in the order of the microtasks; for the thumbnails, that only the batch that runs has a render outstanding, and that a marker is written after its picture; for the rows (`RailInv`), that rows stand only while a page count does and that what is drawn into one was read since (`RowsInv`), and that a row without its turn is in the newest batch's hands, in those of the effect or of its microtask (`RowsHaveTurns`) |
| `DialogModalityProofs` | `TypeCorrect`, `CountsAreExact`, `RootsAreRestored`, `TrapIsRestored`, `ImplementsContract`, `NothingIsLeftBehind`, `PageFollows` | counts are the sizes of the sets of holders; one transition moves one dialog, so each size moves by one exactly where the code counts (`CountChange`, `HoldersMove`). For aria-hidden, `AriaInv` says element by element that ng-primitives' map or the `cleared` set can give the page's own value back, and which of them at each phase (`PassByElement`, `PassCarries`, `SyncCarries`) |
| `ToastStackProofs` | `TypeCorrect`, `TimersAreMatched`, `CountdownsAreExact`, `HeldIsPaused`, `StrandingNeedsLostFocus` | destruction clears timers but not toasts, so `TimersHaveToasts` is stated one way and its converse only before destruction; `PauseIsTotal` ties timers to the pause; a step that leaves the stack held by nobody and paused is examined action by action |
| `SearchResourceProofs` | `TypeCorrect`, `LiveIsActive`, `ClearedIsEmpty`, `RestIsCurrent`, `ImplementsLatestWins` | `ShownIsDerived`, `InOrder`, `OneSignal` and `AskedForObserved` tie results, order, controller and inputs together |
| `PromptsProofs` | `TypeCorrect`, `NobodyIsStuck`, `AnswersAreKept`, `OneAnchored`, `NoCallbackLeaks`, `FocusStays` | `QueueInv` says that the queue is exactly the unanswered modal requests without repetition and that the presented one is its head; lemmas on sequences say what removing and appending keep |
| `SideBySideProofs`, the transcript | `TypeCorrect`, `NothingListensUnowned`, `RecognitionStops`, `RecognitionRecovers`, `TranscriptBeside` | the four invariants are inductive together; lemmas say what stopping, starting and ending return |
| the prints | `OrphansNeedOverlap` | where a call of `print` stands is all the argument needs; the rest is which action can take an owner away |
| the policy | `PolicyGapIsTold` | `NoSilentGap` of `MainPolicyProofs`, with the two modules' operators shown equal |
| the dialpad | `EchoesAreRecognised` | `EchoesRemembered` says that the last numbers of `pending` are, in order, those the host may still echo, so that an echo is found by counting from the end, and dropping the ones before it keeps this |
| the filter builder | `SessionsEndByTheirUser` | `EditorTypes`: what a former session left behind has a smaller number; `EditorKept`: no exit and no focus timer leads out of a live create session, and each focus-out timer of it was armed by its user |
| the shell | `RestorationsYield` | `Yields`: a pending restoration has no trap beside it, and nothing to restore once the user has acted; lemmas say that each of the shell's operators keeps this, for handlers compose them |
| `ReleaseRunsProofs`, the pipelines | `TypeCorrect`, `GroupIsExclusive`, `PublishedMeansListed`, `ProjectionsAreExact`, `WritesAreApproved`, `ConfirmationEndsUploads` | `OneInGroup` makes a job's reads last until its next request; `Approved` carries the gates to every write; `LookedUp` ties the package a projection has chosen to the registry as it still is; `NoLateUpload` says that nobody is about to upload a confirmed version |
| beside the commands | `AlarmsAreTrue`, `PublicationBesideCommands`, `WritesAreApprovedBeside`, `ConfirmationEndsUploadsBeside`, `RunsAreDriftRuns` | a sweep's reads are not a snapshot: `ReleasedOnce` says that a release that exists was made for the one package there will be, `SeenStays` that what a command read of it is still so, `OneCommit` and `SweepAgrees` that tag, pipelines, release and what was read name one commit. `PlanHarmless` is needed because the restoration writes to the same world: without a maintainer's edit it has nothing to write but the text that is there |
| `MainPolicyProofs` | `TypeCorrect`, `DeletionsAreFollowed`, `NoSilentGap` | `PlansArePaired` says that every deletion in a plan is followed by the creation of the same rule; `GapIsRemembered` that a gap's owner is at that creation, has told, or lost an answer |

Two theorems are refinements: every behaviour of `DialogModality` is one of
`DialogContract` (role and attributes map to themselves, the counts disappear),
and every behaviour of `SearchResource` one of `LatestWins` (the wanted dispatch
is the controller; debouncing and clearing are stutters or withdrawals).

Two more carry theorems over to what the runs check: `TranscriptBeside` says that
the composition's behaviours keep the transcript's three safety properties,
`RunsAreDriftRuns` that the bounds of `ReleaseRuns` only remove behaviours of
`ReleaseDrift`.

Only model-checked: the liveness properties (`NewestLoadSettles`, `QueueDrains`,
`ToastsExpire`, `ChangesSettle`, `EndedPromptsAnswered`, `RerunHeals`,
`FocusComesBack`, `RejectedCloseReturnsFocus`, `ApprovedConcludes`,
`RestorationCompletes`). They rest on fairness, and the prover has no rule for
it or for ENABLED.

Recursive functions over data are not used in modules with proofs: what a
recursive definition computes for every input would need the library's induction
theorems, whose operator parameters the installed provers cannot instantiate.

## 7. Where the code and its documentation disagree

Each is a run that checks the documented statement and finds it violated.

* **A superseded load destroys its successor** (`pdf_newest_survives`).
  `loadDocument` clears the active document after awaiting
  `cancelActiveLoadTask`, without comparing its token (`pdf-viewer.runtime.ts`
  393). With one load in flight, a second one waits for its cancellation; a
  third finds no task to cancel, loads and publishes; the second then resumes
  and clears it. The port says stale loads are ignored.
* **A dialog that turns page-blocking does not hide the page**
  (`dialog_flip_exposes`). `disconnectScope` releases the scope before
  the page is retained, so for a moment nothing is open: `cleared` is emptied and
  the page restored, and the blocked phase that follows finds nothing to hide
  again.
* **A toast jumps back during another's exit** (`toast_exit_jump`). The exit
  snapshot counts toasts that are already leaving; the layout of the remaining
  ones does not.
* **Recognition restarts in the middle of a scrub** (`audio_scrub_restarts`).
  The first step of a scrub stops recognition and arms a 200 ms timer; later
  steps see no recognition running and return before re-arming it.

* **A host button that toggles the sidenav cannot close it**
  (`shell_native_toggle`). The shell's capture listener completes an outside
  click in a microtask, "after every consumer handler" as the comment says
  (`app-shell/app-shell.ts` 521). When a user clicks, the browser runs
  microtasks between listeners: the sidenav is closed first, and the button's
  own `toggleSidenav()` then opens it again. The test that promises otherwise
  (`app-shell/app-shell.spec.ts` 683) clicks from script, where the microtask
  waits for all listeners.

Noticed while modelling, with no property of their own:

* A load that became stale while its task was being created still reports its
  error: that await is outside the `try` (`pdf-viewer.runtime.ts` 395).
* A batch takes the load token once (560) but rereads the document at every
  canvas, so in the runtime taken alone a batch could mark canvases painted from
  the old document with the new token. Within the viewer it cannot: the reload
  resets the page count, which unmounts the rail before the batch's next turn.
  `RowsShowDocument` says so, and is false without that reset.
* Of two overlapping prints, the failure of the first cleans the session of the
  second, since both use `printCleanup` (505); `OrphansComeFromOverlap` confines
  the leak to overlaps.
* A page blocker opened during a scoped dialog's exit animation finds
  ng-primitives' map already filled, and its values outlive the dialogs
  (`dialog-scope.ts` 203 against 179). The aria-hidden promises therefore exclude
  behaviours in which an open dialog has flipped.
* The stack stays paused, held by nobody, if a render removes the element that
  holds the focus and the browser sends no `focusout` (`toast-internal.ts` 364):
  with its toast, by a patch of `action`, `dismissible` or the template (112), as
  Dismiss all when one live toast is left (`toast/toast.ts` 368), or as the viewport
  that no longer scrolls (262). `StrandedByLostFocusOnly` says that this is the
  only way. The next pointer or focus that comes and goes resumes it.
* The restart conditions of the transcript leave out `allowSpeechTranscript`. If
  the host withdraws the feature within the scrub delay, the timer starts a
  recognizer that the effect, which then reads nothing else, never stops;
  `StopsWithPlayback` therefore requires the feature to be allowed.
* A recognizer that was stopped may deliver a last result after the seek that
  stopped it, into the transcript that was just cleared; and its error stops its
  successor, which is the `failed` of `HeardUnlessFailed`.
* Pressing a token while a create editor is live starts the edit session
  (`features/filter-builder/filter-builder.renderer.ts` 605) and leaves the
  create popover open beside it.
* `closeMobilePanels()` called by the host between a rejected close and its 0 ms
  timer drops the pending return of the focus, and a focus the host moves by
  script within 150 ms of a close is overridden by the restoration's retries:
  only what the user does ends it. `owed` and `acted` therefore count the host's
  calls and the user's actions.
* A rerun after a lost upload answer, before the registry has indexed that
  upload, uploads a second time, though
  `tools/release/gitlab-release-projection.mjs` 565 says a held version is never
  published twice; the code admits as much at 357, and the projection then
  refuses the ambiguous version. `ConfirmedEndsUploads` starts from a
  confirmation for this reason.
* A policy deletion whose answer is lost leaves the ref unprotected and unnamed,
  the exception `lost` of `GapIsTold`; and an early request that fails for good
  keeps every later one from being sent.
* Read, not modelled: a popover adopts the scope of a child panel only if its
  parent scope is a `HellFloatingScopeRegistry` (`popover/popover.ts` 298), which
  the omnibar's controller is not, so a menu in a popover in an omnibar counts
  as outside the omnibar; `docs/architecture/angular-aria-parity-audit.md` 73
  asks for nesting of any depth. An asynchronous `closeOnOutsideClick` decision
  compares only `open()`, so one asked of an earlier opening can close a later
  one.

## 8. What is not modelled

Within the modelled components:

* texts, labels, colours, pixel offsets, aria names and focus-visible styles;
* in the PDF runtime: zoom anchoring, gestures, page history, search, links, and
  what a cleanup during `createViewer` leaves behind (`pdf-viewer.runtime.ts`
  362, a hazard without a property: the model keeps the session, but pdf.js's
  side of it is external);
* in dialogs: close guards and initial focus; in the toasts' run: several controls
  of one toast and controls of two, which the proofs allow;
* in prompts: request validation, which throws before anything is written, focus
  frames, and requests made by a destroy callback while it runs;
* in the audio player: positions (a seek moved or did not), volume and rate, the
  transcript's texts and the copied flag;
* in the filter builder: what the popover engine reports of itself while it opens.
  A field picked again while the first `show()` still waits gives the new session
  no focus step of its own, and a step that was pending, asked for by the user
  before, may then lead out of its editor; `OnlyItsUserEndsIt` excuses that case.
  Left out are `disabled`, the query text, and the keyboard origin for
  which the popover engine restores the focus on its own;
* in the dialpad: the keyboard's focus range, held keys, flashes, and a limit
  smaller than the edits in flight (the code's is 32; beyond it an echo is taken
  for a host's write by design);
* in the app shell: the collapsed state of the desktop layout, which none of the
  modelled operations reads, and the shell's destruction;
* in the release tools: packing and auditing the tarball, the peer contract, the
  parsing of manifests, change notes and the policy file, all sequential and
  before any write; labels that belong to the group; the rerun of a green gate
  once its pipeline has published, which takes no started job back and does not
  hold the projection, whose only need is the publication; and the package
  lookup's single page of 100 (`gitlab-release-projection.mjs` 627, a hazard
  without a property: a registry of that size is out of a small instance's
  reach).

Components not modelled yet are in the plan of section 2; those that keep no
state worth a model are in section 1 and in `PROJECT.json`. The modelled lines
are a small share of the repository's, and most of the rest is of a kind no model
would say anything about: templates and class recipes over inputs, directives
that bind one ng-primitives directive to one value, the documentation app, its
examples and search index, and scripts that read the repository and report.
Modelling them would restate assignments.

External code is modelled from how this repository uses it: pdf.js through its
adapter, ng-primitives' dialog manager, popovers and overlays, GitLab's registry,
releases and protection rules, the browser's timers, microtasks, focus and speech
recognition.
