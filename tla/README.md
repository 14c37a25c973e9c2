# Resolvate: a TLA+ model of its tickets, topics, deliveries and panel actions

Resolvate connects customers, who write to a Telegram bot or through a website's
backend, with operators in a closed Telegram forum group. Each customer has a ticket,
each ticket a forum topic, and everything that must reach Telegram goes through a
durable outbox in a SQL database. The program is one asyncio process
(docs/TECHNICAL.md:9, 93). Its hard part is not the transport but the handling of
state across awaits, crashes and Telegram calls whose result may never be known.

This directory models that part in five components, checks each with TLC and proves
every safety property of the passing runs with TLAPS. Paths below are relative to
`src/src/resolvate/` unless they begin with `docs/`.

## 1. Inventory

### Components

| Component | State it keeps | Operations | Talks to |
| --- | --- | --- | --- |
| Ticket ingress (`ticket_ingress_service.py`) | `tickets`, `ticket_messages` | accept a customer message, accept an operator reply | inserts outbox and reconciliation rows in the same transaction |
| Delivery outbox (`outbox_repository.py`) | `delivery_outbox`: status, attempts, claim, target topic | claim due rows, mark delivered / cancelled / retry, release stale claims, release unstarted claims | called by the delivery worker |
| Delivery worker (`delivery.py`) | jobs in flight (memory) | loop: release stale, claim, run the batch; one job per row | Telegram, topic manager, blocklist |
| Ticket topics (`ticket_topic_service.py`) | `topic_id`, `topic_provisioning_token` of a ticket | three kinds of claim, attach, abort, invalidate, reset, retarget deliveries | the database only |
| Topic manager (`telegram_topic_manager.py`, `telegram_locks.py`) | a lock per ticket (memory) | ensure a topic, synchronise its title, replace a deleted one, recover at startup | Telegram, ticket topics |
| Reconciliation (`reconciliation.py`, `durable_work.py`) | `reconciliation_outbox` | enqueue (one topic row per ticket), claim, finish, retry, release stale | topic manager, panel service |
| Lifecycle (`ticket_lifecycle_service.py`) | ticket status, close cycle, blocks, ratings | close, close all, reopen, block, unblock, rate | outbox, reconciliation |
| Panel actions (`panel_*.py`, `remnawave.py`) | `operator_actions`, reissue notices in `notification_outbox` | reserve, run, complete, recover after a crash, reconcile, resolve by hand | Remnawave API, outboxes |
| Telegram ingress (`telegram_ingress.py`) | `inbound_updates` | store, claim by order, replay, retry, purge | the aiogram dispatcher, strictly one update at a time |
| Telegram handlers (`telegram_*_handlers.py`, `telegram_adapter.py`) | none | private messages, operator commands | all services |
| Web and operator APIs (`web_support_service.py`, `web_api_*.py`, `api*.py`) | stored responses of idempotent requests | messages, tickets, ratings, operator commands | services; never Telegram |
| Notification webhook (`notification_webhook.py`) | `notification_outbox` | claim, post, retry | a customer's HTTP server |
| Quick responses (`quick_replies.py`, `telegram_quick_replies.py`) | `quick_responses`, expiry timers | validate, publish, edit, expire, delete | Telegram |
| Media, limits, system topics, statistics | files, windows, settings | store, admit, create | - |
| Supervision (`__main__.py`, `runtime_*.py`) | process life | start in order, stop in order, health | all workers |

Interaction is through rows of the database (a request commits a row, a worker finds
it), through the in-memory lock of a ticket, and through Telegram, which is neither
transactional nor idempotent. Requests of the APIs run concurrently with the workers
and take no in-memory lock.

### What is hard here

`PROJECT.json` lists each hazard at its line. In groups:

* **Interleavings at awaits**: a ticket is read, the task waits for a lock, the
  limiter or Telegram, and acts on what it read. Meanwhile API requests close and
  reopen, people delete topics, other tasks create them.
* **Unknown results**: a topic may exist although the call failed; a message may
  have been copied although the answer was lost.
* **Crashes between two durable steps**: claims outlive the task that made them.
* **Order and liveness**: one row that waits for a topic holds back the whole ticket.
* **Locks that are not what they look like**: the private message handler locks the
  Telegram user id (`telegram_user_handlers.py:117`), the other tasks lock the ticket
  id (`service_types.py:43`). The two never exclude each other.

### What makes each component correct

* Outbox: order inside a ticket; nothing settled is sent again; every message settles;
  one job per row; bounded attempts.
* Topics: a claim stays without a task only after a failure, never after a close, a
  competing claim or a refused attachment; a bound topic is not deleted or unbound while it
  exists; an uncertain creation waits for a person; a message gets a topic; a finished
  reconciliation means the title is right.
* Panel actions: a command reaches the panel at most once; what is recorded of it is
  true, as far as a comparison of dates can tell; two gifts never compare each other's dates; the notice to the customer and the
  event to the owner follow the outcome; nothing stays unknown without a person told.
* Commands on a ticket: each takes effect once however often it is handled; the answer
  to a client is what was committed; the history agrees with the ticket; a close is rated
  once; a chat is handled in order; a message never ends up in a closed ticket; nothing
  is queued about a blocked customer, whose messages reopen nothing.
* Quick responses: a text is not removed before its copy is there; a response has one
  copy; a deleted one never comes back; each ends up where its state says.
* Webhook: the events of a ticket are posted in order, and each comes to an end.

## 2. Modules

| Module | What it is |
| --- | --- |
| `OrderedDelivery` | abstract: a queue per ticket whose head is copied, then delivered or dropped |
| `DeliveryOutbox` | the outbox table, its producers, the delivery worker; implements `OrderedDelivery` |
| `DeliveryOutboxProofs` | theorems about `DeliveryOutbox` |
| `TopicProvisioning` | how a ticket gets, keeps and replaces its topic |
| `TopicProvisioningProofs` | theorems about `TopicProvisioning` |
| `PanelAction` | operator commands on the Remnawave panel, their jobs, notices and webhook events |
| `PanelActionProofs` | theorems about `PanelAction` |
| `CommandJournal` | abstract: tables that commands extend, one commit under each key |
| `TicketCommands` | updates, API requests and their idempotency on one ticket; implements `CommandJournal` |
| `TicketCommandsProofs` | theorems about `TicketCommands`: the journal, idempotency, answers, reopening |
| `TicketOrderProofs` | theorems about `TicketCommands`: order of updates, ratings, blocks, history |
| `QuickResponses` | the catalogue of quick responses in its forum topic |
| `QuickResponsesProofs` | theorems about `QuickResponses`: types, tombstones |
| `QuickCopiesProofs` | theorem about `QuickResponses`: one copy of a response |
| `QuickCleanupProofs` | theorem about `QuickResponses`: the copy before the cleanup |
| `MC...` | one per component: instances for TLC |

The components meet at rows, and each module sees of the others what the code sees:

* `DeliveryOutbox` sees a topic being bound, unbound and replaced (`AttachTopic`,
  `InvalidateTopic`, `RecoverTopic`) and does not ask how; `TopicProvisioning` sees one
  bit, `waiting`, of the outbox and does ask how. `EveryMessageSettles` excuses a ticket
  that waits for a topic, and `MessageGetsTopic` in the other module is what that excuse
  rests on.
* `TicketCommands` decides whether a command inserts a delivery and under which lock;
  `DeliveryOutbox` takes the insertion as `Accept` and says what becomes of it.
* `PanelAction` orders the topic job of a ticket behind the panel jobs of the ticket;
  `TopicProvisioning` has that one job and the work it does. The notice of an action is
  the insertion without a row lock that `DeliveryOutbox` has as `BeginInsert`.
* `PanelAction` takes from the ingress that one command is handled at a time, which
  `TicketCommands` models, with the replay after a failure (`Abandon` and `Restart`
  there).

### DeliveryOutbox

| Code | Model |
| --- | --- |
| `delivery_outbox` columns | `status`, `created`, `attempts`, `owner` (claim_token), `thread` (target_thread_id), `context` (payload flag `prepare_reopened_context`), `overdue` (claimed_at behind the threshold) |
| jobs of the worker | `batch` (the token of the last claim), `stage` (the await each job is at), `found` |
| `accept_customer_message`, `accept_operator_reply`, web messages | `Accept`: atomic, since they hold the row of the ticket (SELECT FOR UPDATE) |
| `reconcile_durable_action` (panel notice) | `BeginInsert`, `CommitInsert`: no lock, the read and the commit are apart |
| `claim_due_deliveries` | `Claim`, with any subset of the claimable rows up to the limit |
| `release_stale_deliveries`, `release_delivery_claims` | `ReleaseStale`, `ReleaseUnstarted` |
| `_deliver` | `CheckRecipient` ... `Retarget`, one action per step between two awaits |
| `_transition_delivery` (UPDATE under the claim) | `Transition` |
| `shutdown_runtime`, process death | `Stop`, `Exit`, `Crash`, `Restart` |

`TicketOf`, `Inbound`, `Reopening`, `Unserialized` say which rows the producers may
insert. `Unserialized` are the rows inserted without the row lock of the ticket. On
SQLite `FOR UPDATE` is ignored, so there every producer that does not otherwise
serialize belongs to this set. `Undisturbed` are the rows such an insertion cannot harm:
those of a ticket without one, and a row that is alone in its ticket and does not go to
the topic. `OrderedDelivery` is implemented for them, whatever is inserted elsewhere.

Abstractions: `next_attempt_at` is not kept, a claim may take any claimable rows (a
row not taken is a row not yet due); ties of created_at are broken by the order of
insertion; `recover_missing_topic` is atomic here, because `TopicProvisioning` takes
it apart; contents, direction and kinds other than inbound or outbound are dropped;
rows that address a system topic are left out, and so are alerts.

### TopicProvisioning

One ticket, four tasks (`Actors`): `ingress` replays Telegram updates, one at a time;
`job` is the reconciliation worker; `delivery` the delivery worker that meets a deleted
or reopened topic; `startup` the recovery before the workers run.

| Code | Model |
| --- | --- |
| ticket row | `channel`, `status`, `topic`, `token` (topic_provisioning_token, here the actor that owns it) |
| outbox | `waiting`: some row waits for a topic |
| reconciliation row of the ticket | `job`, `tries` |
| Telegram | `made`, `live`, `marked` (title shows a closed ticket) |
| coroutine of an actor | `task[a]`: the await it is at, the ticket as last read, the kind of claim, the topic created |
| `_ensure_topic` | `Ensure`, `Claim`, `Reread`, `CreateTopic`, `CreationUnknown`, `Attach`, `Attached`, `AttachAgain`, `AttachRefused`, `Cleanup`, `Ensured` |
| `_sync_ticket_topic` | `Sync`, `Unbind` |
| `recover_missing_topic` | `MissingTopic`, `Replace` |
| `close`, `reopen` from an API | `Close`, `Reopen`: no in-memory lock, at any moment |
| `/retrytopic`, `/bindtopic`, `/synctopics` | `RetryTopic`, `BindTopic` .. `BindAbort`, `SyncTopics` |
| a read or write of ticket or job that raises | `TransactionFails` (at the steps `InTransaction`), `AttachLost` for the attachment |
| process | `Crash`, `Boot`, `Ready` |

`unreviewed`, `asked` and `retried` are history variables: a claim was left behind for an
administrator to look at; a message found no topic and nothing stood in its way; an
administrator was told that the next message creates a topic.

Three things leave a claim behind: a creation with an unknown result, which the log
records (`telegram_topic_manager.py:420`); a crash; and a failed
transaction of the task that made the claim, above all the read after the claim
(line 340), which stands outside the `try`. Nothing reports the last two but the list of
open claims at the next start (`__main__.py:217`). `ClaimNotForgotten` is about everything
else. The last two count against `MaxFaults`.

Abstractions: one ticket and its one reconciliation row; a token is named by the actor
that made it, which is exact because an actor has one claim at a time and the only way
to meet an older one of its own is a crash; customer cards are a possible exception
after attachment (`Raise` in `Attach`); blocked customers, duplicate messages and
texts do not reach this code; the second attempt of the startup recovery
(`telegram_topic_manager.py:185`) is for a close that nothing can issue that early,
since the API and the workers start later (`__main__.py:277`).

### PanelAction

Commands of operators on the panel of a VPN service, which knows no idempotency keys:
a request is sent at most once, and when its answer is lost the outcome is read back.

| Code | Model |
| --- | --- |
| `operator_actions` | `kind`, `result`, `verdict` (who settled it), `before` (the value read before the request) |
| `reconciliation_outbox` | `job[a]` for an action, `job[t]` for the topic of a ticket; `rank` is the order of the rows of a ticket |
| `notification_outbox` | `event`; `told` is the link the owner of the service is told |
| message to the customer about an action | `notices` |
| the panel | `request` (unsent, flying, landed, dropped), `issued`, `panel` |
| handler of a command, reconciliation worker, webhook worker | `command`, `run`, `post`, with `seen` what they read of the panel |
| `_reserve_action`, lookup, `_queue_durable_reconciliation`, the call, the record | `Reserve`, `Lookup`, `QueueEvidence`, `Mutate`, `RecordCompleted` / `RecordFailed` / `RecordUnknown`; `Fail`, `LookupFails`, `Abandon` are the ways out |
| the request on its way | `Land`, `Drop`, at any moment after it was sent |
| `reconcile_durable_action` | `BeginJob`, `Look`, `LookFails`, `WriteOutcome`, `WriteFails` |
| the queue of `durable_work.py` | `ClaimJobs`, `FinishJob`, `RetryJob`, `ReleaseStaleJob`, `WorkOnTopic`, `EnqueueTopicJob` |
| `/resolvepanel` | `CheckResolution`, `CommitResolution` |
| `notification_webhook.py` | `ClaimEvents`, `PostEvent`, `ReleaseStaleEvent` |
| `purge_expired_terminal_work` | `PurgeEvent`, `PurgeJob` |
| `recover_interrupted_actions` after a death | `Restart` |
| customers, payments and other people in the panel | `OtherChange`, `OtherValues` |

A link and keys are version numbers, the list of devices is its length, and an expiry date
is counted in lengths of a gift. Others move a date by the length of a gift, by another
one, or back. The code takes a gift for applied when the date is exactly the one expected,
and for not applied when it is the old one
(`panel_reconciliation_service.py:619-625`); it cannot tell who moved the date.
`drift` is the history of that: by how much anybody else has moved the date since the gift
read it (`now`), and what this was when the worker last read it (`read`). A gift that was
lost is recorded as completed if the others together moved the date by exactly its length
(`MovedAlike`), and one that landed as not applied if they took exactly this length off
(`TakenBack`). `CompletedIsTrue`, `NotAppliedIsTrue` and `GiftsDoNotOverlap` except these
two cases by name and nothing else. One assumption is about the panel: when the last of
`RECONCILE_ATTEMPTS` reads the panel, after the timeout of the request and several
delays, the request is not on its way any more (`Look`). The reconciliation has nothing
else to base "not applied" on.

### TicketCommands

One ticket and four commands on it. A Telegram update is stored (`Arrive`), claimed in the
order of its chat (`Claim`), carried out and recorded (`Finish`, `Fail`, `FinishFails`,
`ReleaseStale`); it is carried out from the start again when its outcome is not
recorded. A request of an API looks for an answer under its key (`Look`), and both then
read (`Read`) and commit once. `Crash` ends whatever is under way.

| Code | Model |
| --- | --- |
| ticket row, `ticket_messages`, `ticket_lifecycle_events`, `delivery_outbox` | `ticket`, `messages`, `events`, `outbox` |
| audit rows and unique keys, stored answers | `done`, by key |
| `inbound_updates` | `inbound` |
| a handler or request | `stage`, `seen` (what it read), `answer` |
| `accept_customer_message`, `accept_operator_reply`, `accept_web_message`, `send_operator_message` | `AcceptCustomer`, `AcceptReply`, `AcceptWebMessage`, `SendMessage` |
| `close`, `close_all`, `reopen`, `block_ticket`, `unblock_ticket`, notes, `enqueue_rating`, web ratings | `CloseTicket`, `CloseClosed`, `CloseAll`, `ReopenTicket`, `Block`, `Unblock`, `AddNote`, `Rate`, `WebRate` |
| unique violations and what is made of them | `Collides`: `Skip`, `Raise`, `Duplicate` |

`plan` holds the scenario: which commands meet, on which channel, in what state the
ticket is, and `rowLocks`, the database. PostgreSQL blocks at `FOR UPDATE`, so a
locking command decides on the ticket as it is at its commit (`View`). SQLite ignores
the clause and begins a transaction at the first write, so there every command decides
on what it read before. The unique keys and the conditions of the updates hold on both.
`MessageReopens` and `BlockedIsSilent` are claimed for PostgreSQL only; on SQLite
neither holds. `Block` inserts a row and answers "changed" only if the row it read was not
there, so that on SQLite an unblock in between leaves the ticket unblocked.

`CommandJournal` is what is left when updates, attempts, answers and races are taken away:
`Commit` uses a fresh key and extends the tables by at most one message, one event and one
delivery of that key; status and cycle change together with the history, and what is sent
is a message of the ticket. Its variables are the tables of `TicketCommands` themselves.

### QuickResponses

Three kinds of tasks, await by await: the ingress worker (`Begin` and what follows, for the
update at the head of `inbox`), one expiration task for each invalid response
(`Wake`, `RemoveSource`, `DropRow`) and the refresh (`Start`, `Tick`, `Probe`, `Recover`,
`Discard`, `Instruct`, `Cleanup`, `Restore`, `EndRound`). Handler and refresh share the
publication of a response (`Edit`, `SendCopy`, `Record`, `Clean`, `Complete`) under the
lock of its record (`RecordFree`); the handler rejects (`Withdraw`, `SavePending`,
`Warn`) and deletes (`Erase`, `ClearPublication`).

| Code | Model |
| --- | --- |
| `quick_responses` | `rows`: state, number of the copy, whether it is in the present form, deadline, warning |
| `system_settings` | `instructed`, `topic` |
| updates of the topic | `inbox`, `handled`, `attempts` |
| Telegram | `source` (messages of operators), `copies`, `sent`, `alive` (the topic is there) |
| coroutines | `task`, `timer` |
| people | `Arrive`, `RemoveByHand`, `DeleteTopic` |
| failure | `CallFails` (Telegram refused), `AnswerLost` (it did not, but the answer is lost), `CleanFails`, `EraseFails`, `RemoveFails`, `Crash` |

Abstractions: a response is valid or not, its text is no part of the model; deleting the
warning and clearing its number are one step, and so are creating the topic and saving
its number; the message with the instruction, the cleanup of older formats, pinning and
tags are left out; an instruction that meets a deleted topic goes to `Recover` at once.

## 3. Runs

| Run | Instance | Shows |
| --- | --- | --- |
| `delivery_safety` | two tickets, three rows, batch of 2, 2 attempts, 2 topics, one fault | `TypeOK`, `InFlightOwnsClaim`, `TicketFIFO`, `NoStrandedWaiter` hold (2.8 million states) |
| `delivery_settles` | one ticket, a message that reopens it and a reply, blocklist, one fault, fairness | `AttemptBudget`, `ContextBeforeMessage`, `KeepsPromise`, `EveryMessageSettles` hold |
| `delivery_stranded` | the inbound row is unserialized | `NoStrandedWaiter` is violated |
| `delivery_overtaking` | the same | `TicketFIFO` is violated |
| `topic_safety` | both channels, 2 topics, 1 close, 1 bind, 1 fault | `TypeOK`, `ClaimNotForgotten`, `CleanupSparesBound`, `UnbindsOnlyDeleted` hold (2.8 million states) |
| `topic_fair` | Telegram, 2 topics, 1 close, no bind, 1 fault, fairness | `DoneMeansInSync`, `MessageGetsTopic` hold |
| `topic_uncertain` | Telegram, 2 topics, 1 close, no fault | `NoAutomaticRetry` is violated |
| `topic_web` | web, no close, bind or fault, fairness | `NextMessageCreatesTopic` is violated |
| `panel_settles` | two commands of one ticket: two gifts or two links with one fault or one other change, keys and devices with one of each; fairness | `TypeOK`, `NotAppliedIsTrue`, `CompletedIsTrue`, `GiftsDoNotOverlap`, `EventFollowsAction`, `OneNotice`, `SentOnce`, `WebhookInOrder`, `UnknownSettles`, `TopicJobServed`, `EventSettles` hold |
| `panel_purge` | a link and keys, one purge, rows older than the retention period | `ResolvableByHand` is violated |
| `tickets_commands` | twelve scenarios of four commands on both databases, up to two faults, fairness | `TypeOK`, `KeepsJournal`, `AnswersHold`, `HistoryMatchesTicket`, `RatedOncePerClose`, `ChatOrder`, `DeliveredIsDone`, `MessageReopens`, `BlockedIsSilent`, `UpdatesSettle` hold |
| `quick_catalogue` | two responses, eleven scenarios of up to four updates with failures, a crash, a deleted topic or a removal by hand; fairness | `TypeOK`, `OneCopy`, `CopyBeforeCleanup`, `TombstoneHolds`, `Settles` hold |

The third row of `delivery_safety` is the panel notice of the second ticket, the
ticket's only message: unserialized, yet harmless while it is alone. This keeps
`BeginInsert` in the passing runs without the two defects below.

### Bounds

`MaxThreads` / `MaxTopics` = 2 allow one replacement of a deleted topic, the longest
causal chain the code has (a job meets one deleted topic, is moved to the new one);
2 attempts give a first attempt, a retry and an exhaustion; a batch of 2 with two
tickets makes jobs run side by side; 2 tokens suffice because a token is fresh when no
row carries it, and at most one abandoned claim and one new one exist together;
`MaxFaults` = 1 puts a crash, stop or failed transaction at every point. `MaxCloses` and
`MaxBinds` bound the callers, not the program. In `topic_fair` fewer transactions fail than
a reconciliation has attempts, without which `MessageGetsTopic` could not hold: a job that
fails every time gives up.

`PanelAction`: two commands of one ticket are the smallest case in which one can disturb
the other, directly or through the order of jobs and events; the code compares nothing
across tickets but the batch. `ReconcileAttempts` = `MaxAttempts` = 2 give an attempt that
looks again and a last one; `MaxPosts` = 1 is the shortest way to an event that is given
up. `faults` bounds crashes and failed transactions, `others` changes by others and
purges, so that each falls at every point once. `TicketCommands`: `MaxAttempts` = 2 is a
failure and a giving up. Four commands hold the longest chain the code decides on, a
close, a message that reopens, the second close and a rating of the first.
`QuickResponses`: `MaxAttempts` = 3 leaves room for a failure and a crash before a message
is given up; two responses share the refresh, the topic and the queue. The scenarios
name their own bounds. The proofs do without all of these.

`CHECK_DEADLOCK FALSE` where a finite number of commands or rows comes to an end:
`delivery_safety`, `panel_settles`, `panel_purge`, `tickets_commands`, `quick_catalogue`. In
the other instances some actor can always act.

### Fairness

`DeliveryOutbox`: the worker loop and each of its jobs take their next step, a claim
ages, a supervisor restarts the process (the compose files say `restart`), a producer
ends its transaction. A claim of a particular row is strongly fair: the delay before a
retry is at most 60 seconds (`delivery.py:473`) or what Telegram asks for, rows are
claimed in the order of creation, and each batch is finite. Nothing is assumed of those
who bind topics, of Telegram's answers or of operators.

`TopicProvisioning`: a coroutine under way goes on (`WF` on `Continue`), asyncio locks
are granted in the order of the requests (hence `SF` on `Enter("job")`), the worker
polls, startup proceeds. `MessageGetsTopic` therefore allows for a creation that ends
without a result; it does not assume that Telegram ever succeeds.

`PanelAction`: the panel carries a request out or drops it; the handler, the two workers
and their loops take their next step, since every call has a timeout; both workers poll.
Nothing is assumed of operators, of `/resolvepanel`, of a restart or of the answers.
`UnknownSettles` therefore ends, at the worst, with an inconclusive verdict a person is
told of, and `TopicJobServed` excuses a ticket whose handler died with its action
reserved: only a restart settles that action, and the job behind it waits until then.

`TicketCommands`: the ingress worker claims, carries out and records, and releases what it
lost. Clients owe nothing, not even the rest of a request.

`QuickResponses`: the loops of the two workers and the expiration tasks take their next
step; people, failures and crashes are not fair.

### What the violations mean

* `delivery_stranded`, `delivery_overtaking`: `reconcile_durable_action` reads the
  ticket without its row lock (`panel_reconciliation_service.py:726`) and inserts at
  785. With `topic_id` NULL at the read and an attachment before the commit, the notice
  is stored as waiting for a topic that is already there, no later attachment releases
  it, and each later message of the ticket waits behind it. With any read, its time
  stamp may precede a row that is claimed first. The other producers lock the ticket.
* `topic_uncertain`: closing a ticket cancels any claim, also one that records an
  uncertain creation, and enqueues a reconciliation which creates a topic; the
  documentation says that this waits for a person (docs/TECHNICAL.md:44).
* `topic_web`: the promise of `/retrytopic` (`telegram_operator_handlers.py:424`) holds
  for Telegram messages, whose handler ensures a topic, and not for web messages.
* `panel_purge`: the purge removes the event of a new link after 30 days although its
  action is unresolved (`durable_work.py:337`). Either answer of `/resolvepanel` needs
  that row (`panel_reconciliation_service.py:172`, `276`) and is refused without it, so that
  the ticket takes no further panel command (docs/TECHNICAL.md:188-190).

### Observations without a run of their own

Where the code does not give what one might expect, a property names the exception. Each
of these was seen in a counterexample to the property without it:

* `AnswersHold`: a close, reopen, block or unblock that is sent twice under one key at the
  same time may get "unchanged" instead of the stored answer (docs/OPERATIONS.md:99-101;
  `ticket_lifecycle_service.py:70-75`, `404-408`, `711-716`).
* `DoneMeansInSync` holds without `/bindtopic` only: the bind sets the title outside the
  lock from the ticket as attached (`telegram_operator_handlers.py:469`), and a close in
  between that is reconciled first is overwritten.
* `BlockedIsSilent`: the rating buttons of Telegram ask for no block.
* `CompletedIsTrue`, `NotAppliedIsTrue`, `GiftsDoNotOverlap`: a payment, or a second gift
  that lands late, of exactly the length of a gift whose answer was lost is taken for the
  gift, and what takes this length off hides it
  (`panel_reconciliation_service.py:619-625`). The date may then move twice, or a gift be
  given again.
* `ClaimNotForgotten`, `MessageGetsTopic`: a database error at the read after the claim
  (`telegram_topic_manager.py:340`) leaves the claim without a task and without the record
  that line 420 makes of an unknown creation; the ticket then waits for `/retrytopic` or a
  close, although nothing was created.
* `OneCopy`, `CopyBeforeCleanup`: an answer lost or a crash between sending a copy and
  recording it leaves a copy whose button finds no row (`telegram_quick_replies.py:216`);
  a message handled while the topic is replaced is published twice; after a message was
  given up, a rejection and the refresh may between them remove message and copy.
* `Settles`: a failure while the responses are restored into a new topic leaves the rest
  unrestored until a restart (`telegram_quick_replies.py:549-557`, `605-607`, against
  docs/TECHNICAL.md:103-105); an edit that became invalid after its message was removed
  fails until it is given up, and its row waits for a restart.

## 4. Proofs

All theorems are checked for every value of the constants that satisfies the assumption
of the module: `OutboxAssumption`, `ProvisioningAssumption`, `PanelAssumption`,
`CommandsAssumption` or `ResponsesAssumption`. These give the types of the parameters, and
that the sets the code counts are finite.

**DeliveryOutboxProofs.** `TypeCorrect` holds for all producers, one step per action.
`UndisturbedTickets` assumes nothing more either: in every ticket that no insertion without
its row lock disturbs (`Undisturbed`), `TicketFIFO`, `InFlightOwnsClaim` and
`NoStrandedWaiter` hold row by row (`InOrder`, `OwnsClaim`, `NotStranded`), whatever is
inserted elsewhere. Where all rows are such, as in `delivery_safety`, these are the
properties themselves: `DeliveryIsFIFO`, `JobsOwnTheirClaims`, `NobodyStranded`. The
violations above show why the first and the third need that, and the second rests on the
first. The common inductive invariant is `Order`, which speaks of undisturbed rows where it
speaks of order and claims:

* `StampsOrdered`: the rows of a ticket have distinct time stamps, none ahead of the
  clock of the ticket, so that a new row is stamped after all others;
* `ClaimedAtHead`: a claimed row, with a job or without, has no unfinished row before it;
* `OverdueClaimed`: only claimed rows are overdue, so that the stale release, which
  needs idle jobs, hits nothing else;
* `TopicRows`: only rows to a topic wait for one or meet a deleted one;
* `Owned` and `ReleasedInTime`: what is to be shown, but for the order.

What disturbs one row of a ticket disturbs them all (`SiblingsAlike`), so that a step on a
row elsewhere leaves all of this alone. `TicketFIFO` is not inductive: it speaks of rows with a job, while a claim can outlive
its job. `InFlightOwnsClaim` is not either: a job that found its topic deleted moves all
rows of the ticket, and takes no claim from another job only because a ticket has at most
one claimed row (`OneClaimPerTicket`), which in turn follows from `ClaimedAtHead`. The
other lemmas treat the ways a row changes: outcomes (`TransitionKeepsOrder`,
`DeliverKeepsOrder`), release with a new topic (`AttachKeepsOrder`), and steps that add
nothing to the queue (`HeadPreserved`).

Three more results rest on invariants of their own:

* `AttemptsAreBounded`, for all producers: a row that is in the hands of no job has an
  attempt to spare, up to the faults that happened (`Spare`), because only a fault (a crash
  or a lost commit) leaves a claim behind, which keeps the attempt it was counted with, and a job that gives its row back looks at the count first. The worker that
  stops gives back the attempts of a whole batch, which is right only because the jobs of a
  batch start together (`StartedTogether`). Both are part of the invariant `Budget`.
* `ContextFirst`, for all producers: only `RefreshContext` clears the flag before a send
  (`Refresh`).
* `OutboxKeepsPromise`, for all producers: every step of the outbox is a step of
  `OrderedDelivery` over the undisturbed rows or a stutter, under the mapping the runs
  use. `Accept` enqueues, a send that Telegram took
  copies, a recorded outcome delivers or drops, all else stutters. The invariant `Kept` is
  `Order` and `Answered`: a job that goes to record success has had its message copied.
  That the row delivered is the head of the queue is `ClaimedAtHead` again.

**TopicProvisioningProofs.** Four invariants, each for one theorem:

* `Claims`, for `ClaimsStand`: a bound ticket has no claim (`BoundUnclaimed`); a claim
  whose owner is about to reread belongs to a ticket that is not closed, unless it was
  made for a closed one (`OpenClaim`), so that the early return after the reread never
  abandons a claim; a task that ends in a failed transaction while it owns the claim sets
  `unreviewed` (`FailsGoes`); startup recovery is over before anything else begins
  (`StartupFirst`); a bind runs in the ingress task only and never creates a topic
  (`BindIsIngress`); what a task attaches or removes has been created (`OwnsCreated`).
* `Cleanups`, for `CleanupIsSafe`: `Claims`, with the lock of the ticket held by every
  task inside but the handler of private messages (`LockHeld`), and no topic in the hands of two tasks
  (`OwnDistinct`). This is where the lock `/bindtopic` takes is needed: without it the
  topic to be removed can be bound first (the mutant `BindUnlocked`).
* `Verdicts`, for `TopicKeptWhileAlive`: every topic a task has in view has been created,
  and those it holds for deleted do not exist. Topic numbers are not reused, so the
  verdict stays true however old it is. `TopicTaken` says which steps unbind.

* `Titles`, for `DoneIsInSync`, which assumes `MaxBinds = 0`: `Cleanups` and `Verdicts`;
  a task that changes the title decided on a ticket nobody has closed or reopened since,
  or the reconciliation row is pending again (`ReadUnderLock`); the handler of private
  messages leaves the title open (`HandlerOpens`). The second holds since a close and a
  reopening put the row back to pending in their own commit.

**PanelActionProofs.** The common invariant `IInv` is `TypeOK`, the two properties about
the truth of a record, and

* `Alone`: one command at work, and one unresolved action in a ticket;
* `Progress`: what the stage of a command, the state of its request, its result and its
  job say about each other; in particular, a request that was sent has a job on record,
  which is what recovery at startup goes by;
* `Values`: what was read before, what was issued and what the panel shows now. Links and
  keys only grow (`ShownGrows`), so the comparison made by the reconciliation never takes a
  change for none;
* `Dates`: while a gift is unresolved the panel shows the date it has read, plus the gift
  once it has landed, plus what everybody else has moved the date by. No other gift of the
  ticket can be among the unresolved (`Alone`); one that was settled before it landed counts
  as somebody else. So a comparison goes wrong in the two cases the properties name only.

`AtMostOneRequest`, `NotAppliedTrue`, `CompletedTrue`, `GiftsApart` and `NoticeOnce` follow.
`EventFollows` assumes `~ Neglect`, that no undelivered event is older than the retention
period; `panel_purge` shows that it needs it. Under the same assumption
`ResolvableUnlessPurged` proves the very property that `panel_purge` finds violated, so that
the purge is its only cause. `PostedInOrder` does not need it: whatever is
removed, the receiver never sees an old link after a newer one, nor one link for two
actions. The common invariant `EventInv` adds `Follows` (the event, for each result of its
action, a removed one included), `Ranks` (an event that awaits its payload is the last of
its ticket), `PostedFirst` (whatever is being posted is claimed, so that it is not removed,
and has no unsettled event before it) and `LinksGrow` (what an earlier event tells is no
newer than the link read before a later action).

**TicketCommandsProofs.** Every command ends in one commit (`Apply`) under a key nobody
used before, or leaves the tables alone; the lemmas say so once, and the invariant speaks
of keys only. `IInv` is `Types`, `OneWorking` (one update in hand), `RowsHaveKeys` and
`RowsDiffer` (every row was written under a used key, and no two of a kind under one), and
`AnswersHold`. `OnceOnly` and `TruthfulAnswers` follow; `NeverInClosed` is about a single
step from a state with `IInv`. `JournalKept` is the refinement of `CommandJournal`: each way
to end a command is accounted for (`CommitStepEnds`), with what it does to the ticket in the
history (`InHistory`) and what it sends in the ticket (`InTicket`). `EffectOnce`, which
`OnceOnly` proves, follows from the journal and has no run of its own.

**TicketOrderProofs** adds five invariants to `IInv`, each for one theorem. Four of them
assume what the program gives its keys and channels; `MCTicketCommands` assumes the same
of its scenarios, so that TLC checks that they are such.

* `InTurn`, for `ChatsKeepOrder`, assumes `OwnKeys`: the key of an update is made of its
  chat and message (`telegram_message_utils.py:100`), so that it is used by this update
  only. An update in hand has its row processing, updates arrive in their order, and a
  row becomes processing only after all earlier ones of its chat are over (`Turn`).
* `CarriedOut`, for `DeliveredWasDone`: what was said of a delivered update holds from the
  commit of its handler, and a block seen at any time was given by a command (`BlockGiven`).
* `Ratings`, for `RatedOnce`, assumes `RatingKeys`: buttons of one cycle share a key
  (`telegram_user_handlers.py:65`), and only web tickets are rated by the web API, where
  the constraint on the cycle takes the place of the key. What a command read is no later
  than the ticket, so a cycle that is rated has ended.
* `Blocks`, for `BlockedStaysSilent`, assumes `BlockedByUpdate`: an API blocks web tickets
  only (`web_api_routes.py:350`). The handler of a Telegram customer reads the blocklist
  before it locks the row (`AcceptCustomer`), which is safe because the block is then
  an update too and there is one worker (`OneWorking`). An API that blocks Telegram
  customers would break it.
* `Contact`, for `HistoryTold`, assumes `OneChannel`: a customer has one ticket in each
  channel, and a message goes to the ticket of its own. A command that is no first message
  has a ticket, and a first message in hand that found none is still the first, so that the
  creation is the first turn of the history on either database. The new event of a commit
  says what becomes of the ticket (`Tells`), and `HistoryGrows` is what that means for
  the turns that were there. The property speaks of positions in the history, since a
  sequence without the ratings would be a recursive definition, about which nothing can
  be proved here.

**QuickResponsesProofs.** `IInv` is `Types`; `GoodRows` (a row is pending exactly while it has
a deadline); `Messages`, `Topics`, `Queue` (copies, topics and updates bear numbers already
given out); and `Held`: while a response is published or rejected no other task works on
it, since publication holds the lock of the record and there is one ingress worker. A
response in the hands of a task is therefore not a tombstone, which is what
`TombstonesStay` needs: without `Held` the refresh could record a copy of a response
whose button was pressed meanwhile.

**QuickCopiesProofs.** `OneCopyEach`: without failures, crashes and deleted topics (`Quiet`)
a response has one copy at most. The two tasks that publish take turns at a row: the
refresh has one in hand that the ingress worker is about to publish only while that worker
waits for its lock (`Alternate`). Whoever is about to send finds no copy, and whoever
records knows the number of the only one (`PublishesOne`); otherwise the row bears the
number of its copy (`OneOf`).

**QuickCleanupProofs.** `CopyFirst`: while no update can be given up, the message of a valid
response is removed only when its copy is there, whatever fails otherwise. Its invariant
`Kept` follows the copies and the message:

* `Owned`: a number belongs to one response, wherever it is written down, so that nobody
  deletes the copy of another;
* `Sources`: a message that is gone stays gone, and a row in its present form has lost its;
* `Trying` and `Pursued`: a valid response whose message is still there is the update the
  ingress worker has in hand, with a try left for each failure that can still come, so that
  neither the expiration nor a rejection takes it up;
* `Backed`: whoever is about to remove the message has a copy, unless people removed it;
* `Believed`, `Budget`, `Copies`: what the refresh believes of topic and rows, the faults
  that are left, the numbers that are given out.

The first half of the module says of each step what it does to a row, a message, a timer,
the topic, the copies and the queue, one aspect at a time.

**Model-checked only.** All liveness under fairness (`EveryMessageSettles`,
`MessageGetsTopic`, `UnknownSettles`, `TopicJobServed`, `EventSettles`, `UpdatesSettle`,
`Settles`), which is beyond the prover. Every other property of a passing run has a theorem.
The hypotheses that remain are of two kinds: what the program gives its keys and channels
(`TicketOrderProofs`), and conditions without which a run or an observation above shows the
property false: all rows undisturbed (outbox), `MaxBinds = 0` (`DoneIsInSync`), `~ Neglect`
(`EventFollows`, `ResolvableUnlessPurged`).

## 5. Not modelled, and why

* Media storage, archive and its cleanup tool: file input and output around one row; the
  cleanup is a process of its own over the file system (`media_cleanup.py:70`).
* Rate limits (`user_message_limits.py`, the web limits): small sequential algorithms over
  clocks; what they admit arrives in the models at any moment.
* The statistics panel (a message edited with counts) and, of the system topics, the crash
  between creating one and saving its number (`telegram_system_topics.py:85`), which the code
  leaves as a second topic.
* Alerts, customer cards, edits of operators, service messages, uploads of the web API,
  the listing of tickets and the cursor of a polling client
  (`web_support_service.py:588`: a panel notice commits with an earlier time stamp than a
  row already listed).
* Authorization, schemas, formatting, signing: no state.
* Database, migrations, configuration and health: the atomicity and durability of a
  transaction, the lock pool of asyncio and Telegram's side are taken as given, as `src/`
  uses them. `retry_sqlite_locks` repeats a transaction that had no effect, which is
  invisible; the one repetition that follows a commit, that of `attach_topic`, is modelled
  (`AttachAgain`).

Known and accepted in the models, with no property of their own: a deleted topic whose
replacement another task has claimed uses up the attempts of a delivery
(`delivery.py:403`); the blocklist is read before a reply is prepared (`delivery.py:268`);
`release_stale_inbound_updates` does not look at the number of attempts.

## 6. Plan

Done: the five components above, with their runs and proofs. Next: several tickets in
`TopicProvisioning`, for the uniqueness of a topic's number.

## 7. Running

    tlc -workers 2 -config DeliveryOutbox_safety.cfg MCDeliveryOutbox
    tlc -workers 2 -config TopicProvisioning_safety.cfg MCTopicProvisioning
    tlc -workers 2 -config PanelAction_settles.cfg MCPanelAction
    tlc -workers 2 -config TicketCommands_commands.cfg MCTicketCommands
    tlc -workers 2 -config QuickResponses_catalogue.cfg MCQuickResponses
    tlapm DeliveryOutboxProofs.tla

and likewise for the other configurations and proof modules. Each run ends within four
minutes on two cores, each proof module within ten.
