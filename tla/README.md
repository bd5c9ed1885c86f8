# Graphein in TLA+

Graphein is the server and web client of a school's printing shop. A client
fills a *draft* with files, sends it as an *order*, a merchant takes the order
through its stages, and background tasks clear what is left behind. This
directory holds specifications of that system, TLC runs that check them on
small instances, and proofs that TLAPS checks for all instances. Every action
is translated from the source: the Rust server (`src/app`, `src/common`) and the
React client (`src/web`). The table in `PROJECT.json` under `map` names the lines.

- [Inventory](#inventory) — the parts of the system and what is hard in them
- [Modules](#modules) — which module models what, and how
- [Runs](#runs) — what is checked, with which bounds and which fairness
- [Proofs](#proofs) — what holds for every instance, and why
- [Not modelled](#not-modelled)
- [Disagreements found](#disagreements-found)
- [Plan](#plan)

## Inventory

The server is one tokio process (axum handlers and four daemons), one thread
(thumbnails), a PostgreSQL database and a Cloudflare R2 bucket to which
browsers upload directly. The server keeps drafts, sessions, OAuth states and
the order-number counter in memory. The client is a Next.js application: pages
are rendered on a server of its own, which asks the backend with the browser's
cookie; after that the tab talks to the backend through react-query.

| Component | State | Operations | Interacts through |
|---|---|---|---|
| Draft store (`common/src/state/drafts.rs`, handlers in `app/src/routes/orders.rs`) | a concurrent map from user to draft (id, time, files), an atomic counter | insert, exists, add_file, get_order, get_created_at, remove_file, clear, build, next_queue, clear_expired | entry locks held across awaits; the bucket; hands built orders to the database |
| Placed orders (`orders.rs` of routes and database) | rows of `orders`, `order_status_updates`, `files` | create_new, status advance with `FOR UPDATE`, cancellation, price | row locks; read by lists, pages and the event stream |
| Daily Orders Flusher (`daemons.rs`) | `settings.latest_orders_flushed_at`, its cut-off and its selection | sleep to midnight, SELECT, UPDATE of many rows, deletion of objects, commit | row locks against every handler; the bucket |
| Draft Orders Cleaner (`daemons.rs`, `drafts.rs`) | its cut-off and its list of keys | clear_expired once a minute | entry locks; the bucket |
| Order numbers (`drafts.rs`) | the counter | next_queue, conversion to a letter and three digits | builds of all users |
| Bucket (`bucket.rs`) | objects, presigned URLs, a cache of download URLs | exists, presign, delete, thumbnails | browsers upload by URL without the server |
| Sessions (`auth/sessions.rs`, `extract.rs`, `main.rs`) | a map from id to session; the table `sessions` while the server is down | issue, get, remove, set_onboard, commit at shutdown, load at start | every handler; shutdown order in `main.rs` |
| OAuth and onboarding (`routes/auth.rs`, `routes/user.rs`, `database/users.rs`) | a list of states with nonces, rows of `users` | init, finish, onboard, cleaner of states | Google; sessions; the sign-in window of the client |
| Routing between pages (`web/pages`, `_app.tsx`, `useUserContext`) | the tab's page, the user in its query cache, the cookie | getServerSideProps of every page, hydration, signing in and out | sessions; rows of users |
| Order page (`web/pages/order/new`, `web/components/orders`) | stage, files, dialogs, requests; the local storage | drop, remove, configure, send, discard, time out, start over, reload | the draft store over HTTP, several requests at once |
| Ranges of a file (`ConfigOrder`, `FileRangeConfig`, `isValidRange`) | a list of ranges with their texts, papers and copies | add, delete, type, choose | decide whether the order page leads on to the review |
| Merchant's order view (`web/components/merchant`) | the query of the order on display, a dialog, mutations | choose, fetch, open, confirm, answer | the status handler; everybody else who changes orders |
| Order lists (`request.rs`, `database/orders.rs`, `order/history.tsx`) | the pages of an infinite query | a page by (time, id) and its key, load more, refetch, hydrate | rows of `orders` |
| Thumbnailer (`state/thumbnailer.rs`, `daemons.rs`) | a channel of ten, the list of what was done | request, process, stop | a handler waits on the channel; the bucket; shutdown |
| Papers and settings (`routes/opts.rs`, `database/papers.rs`, `settings.rs`) | papers, variants, opening hours | create, update, delete, unset the old default | drafts and lists refer to them; opening hours gate `post_orders` |
| Presentation, configuration, responses, scripts | none of their own | showing, parsing, inserting rows | — |

**What is hard, and what makes each part correct.**

- *Draft store.* `build` and the removal of a file hold the entry of the map
  across calls to the bucket; `add_file` and `get_created_at` do not; the
  handlers test the order id in one call and work in the next; the insertion is
  a read and a write; the counter is a load and a store. Requests of one user
  run at once, connections drop at any await, the build can panic half way, and
  the cleaner runs between all of it. Correct means: what is sent is the order
  that was named, whole, once, with its objects in the bucket; no lock is
  leaked; a draft that expired goes away.
- *Placed orders.* Two merchants press the button at once; the client cancels,
  in two statements outside a transaction, while a merchant reads and writes;
  the flusher selects orders without locking them and rejects them later.
  Correct means: the status a reader sees is in the log, a price that was set
  stays, an order that left the way to pickup does not return, and it all looks
  like single atomic operations.
- *Flusher.* It locks many rows one by one, deletes objects before it commits,
  sleeps for hours between taking its cut-off and using it, and dies for good at
  the first error. Correct means: stale reviews end, newer files survive, no
  lock outlives it.
- *Order numbers.* `u16` arithmetic with a wraparound and a truncation to `u8`.
- *Sessions.* A flag is copied from a row into a session at sign-in, at
  onboarding and at a restart, in several steps each, any of which may be the last;
  sessions are written only at a graceful shutdown, while requests still drain, and
  the table is emptied after the load. Correct means: no flag without its row, no
  flag that gets lost on the way, no signed-out session that comes back.
- *Routing.* Pages decide where a user belongs by the row, the server by the
  session's flag, the client by its cache, and all three change at different
  times. Correct means: a page never has the record of somebody it is not for,
  and redirects never run in circles.
- *Order page.* Four places know of a file: the page, the local storage, the
  server's draft and the bucket. Uploads start together and finish in any order;
  answers come to a page that has gone on, or that has another draft by now; the
  browser's history leads to any stage. Correct means: no stage shows a draft that
  is not ready for it, what is saved is what is shown, and a draft is forgotten only
  when it is over, or by an answer that was about another.
- *Ranges.* A flag is computed at each edit and trusted later. Correct means that
  it is true of the present text, and that the papers of the ranges agree.
- *Merchant's view.* Dialogs keep what was true when they opened, mutations and
  fetches answer in any order. Correct means: a price reaches the order it was
  typed for, and the view neither falls back nor misses the merchant's own step.
- *Order lists.* A page and its count are two statements; keys are cut to
  milliseconds; a page rendered by Next.js replaces pages fetched by the tab.
  Correct means: newest first, nothing twice, nothing missing.

The complete list of hazards, each at its line and with the properties that
cover it, is in `PROJECT.json`.

## Modules

| Module | Models |
|---|---|
| `OrderStatus` | the statuses and the match that advances them |
| `OrderBook` | **abstract**: the orders table as atomic operations |
| `Orders` | **detailed**: handlers and flusher, statement by statement, on row locks |
| `DraftBook` | **abstract**: drafts, built and placed orders with their ids and files, one step per operation |
| `OrderNumber` | the arithmetic of `next_queue` and of the order number |
| `DraftOrders` | **detailed**: the draft store, its handlers, the bucket, the cleaner and the clock, await by await |
| `DraftApi` | the same handlers for one user, each in one step, or two when an order is built: what the order page meets |
| `OrderPage` | the order page with local storage, dialogs and requests, composed with `DraftApi` |
| `FileRanges` | the ranges of one file on the configuration stage, and the validator |
| `Sessions` | sessions, sign-in, onboarding, and how they are carried over a restart |
| `WebSession` | the tabs: pages, redirects, cache, sign-in window, composed with `Sessions` |
| `OrderViews` | the merchant's view of orders next to everything that changes them |
| `OrderHistory` | the client's list of finished orders, from the SQL to the infinite query |
| `MCOrders`, `MCDraftOrders` | symmetry sets for TLC; the other runs check their module directly |
| `OrderBookProofs`, `OrdersProofs`, `DraftOrdersProofs`, `SessionsProofs`, `OrderPageProofs`, `FileRangesProofs`, `OrderHistoryProofs`, `OrderViewsProofs` | theorems; `SessionsProofs` is about `WebSession` as well, which extends `Sessions` |

How they compose: `Orders` instantiates `OrderBook` (`Book == INSTANCE OrderBook
WITH ...`); the three table variables are mapped to themselves and locks and
program counters are forgotten. `DraftOrders` instantiates `DraftBook` in the same
way: what the book has of drafts and orders is computed from the store, the
handlers and the database, and locks, URLs, bucket and clock are forgotten.
`DraftOrders` extends `OrderNumber`, `OrderPage`
extends `DraftApi`, `WebSession` extends `Sessions`, `OrderViews` extends
`OrderStatus`. `Orders!Place` is what `DraftOrders!Persist` looks like from the
tables; `DraftApi!Build` is `DraftOrders!BuildBegin` up to the entry's end without
interference, and `DraftApi!Place` is `Persist`.

### Orders

A worker runs one request at a time. `pc` says where it stands:
`BeginAdvance` → `LockRow` (`SELECT ... FOR UPDATE` returned) or `Refuse` →
`CommitAdvance`, and `BeginCancel` → `UpdateCancelled` → `RecordCancel`, the
latter two committed on their own because `delete_orders_id` opens no
transaction. Statements that no other transaction can see before the commit are
folded into the commit. `Abort` is a statement that fails or a client that goes
away, at any point.

The flusher is `FlushLoop` (takes the cut-off `cut`, sleeps or not),
`Midnight`, `FlushSelect` (no lock), `FlushLockRow` one row at a time (the many-row
`UPDATE`), `FlushPurge` (the bucket; a part of what was asked, because errors may
come after some deletions), `FlushCommit`, and `FlushFail` anywhere a `?` can
return. Time is reduced to what the comparisons tell apart:

- `today`: orders whose drafts were created since midnight. The row carries the
  draft's time, so an order placed just after midnight may belong to yesterday;
  `Place` leaves that open. The SELECT compares with the opening time of the
  day, which merchants may move, so of today's orders it may spare any set.
- `cut`: the orders whose files are older than the top of the loop. Files carry
  the time at which their transaction began, so a transaction that was open at
  that moment may be among them although it commits later (`begun`).
- `lastFlush`: whether `latest_orders_flushed_at` is of today. It is taken just
  before the commit, which may be on the other side of midnight.

Row locks follow PostgreSQL at READ COMMITTED: `FOR UPDATE` and `UPDATE` wait for
each other, the foreign key of the log's `INSERT` waits for `FOR UPDATE` but not
for an `UPDATE` that leaves the key alone.

### DraftOrders

A task runs one handler. One action is the work between two awaits; `task[t].pc`
names what comes next:

| Handler | Path |
|---|---|
| `post_orders` | `CreateRead` → `CreateInsert` |
| `post_orders_id_files` | `AddBegin` (exists) → `AddFile` or `AddRefused` → `Presign` or `PresignFails` |
| `delete_orders_id_files_id` | `RemoveBegin` → `FindFile` (takes the entry) or `FindRefused` → `DeleteObject` (bucket; lets go) → `RemoveFile` |
| `delete_orders_id` | `Discard`, when the user has a draft |
| `post_orders_id_build` | `BuildBegin` → `Validate` (takes the entry) or `BuildRefused` → `MatchFiles`, `PanicUnmatched` or `CheckRefused` → `TakeNumber` → `Persist` |

`lock[u]` is the entry of the concurrent map that a handler keeps across an
await. The map really locks a whole bucket of entries; that couples users who
happen to share one, so the model, which locks per user, allows every
interleaving the map allows and more. `Disconnect` drops a handler at an await:
axum does so when the client goes away. `TakeNumber` has no await before it
(`next_queue`'s load is in `MatchFiles`, its store here, and the threads of other
users' builds may run between them), so a handler cannot be dropped there.

The loop over the request in `build` is `OnTop`: it reverses the draft's files
and pops one for each requested file as long as it is the one on top.
`PanicUnmatched` is the `unwrap` of a `None`: the handler unwinds, the entry is
released, and the draft stays reversed and shortened.

Files and drafts are numbered in order of creation. A presigned URL is the time
it ends at; `Upload` needs only the URL, as the bucket does. Deletions may or may
not delete: `delete_file` and `delete_files` give keys that start with a slash
while uploads use the key as stored, and what R2 makes of that, or of an error
after a part, is not decided by this code. A deletion that takes place does so
before its handler lets go of the entry.

`DraftBook` says what this comes to for a user. Its `open` are the drafts, `built`
the orders that builds at `persist` hold in memory, `placed` the rows; `spent` are
the ids that are not new any more (`SpentIds`: generated, and not just waiting in a
handler to be inserted), `filed` the same for files. A user without a draft opens
one of an id that is not spent; a file that is not filed is bound to one draft; a
draft is edited in place, dropped, or built, and then it is gone; a built order is
placed or lost; a restart empties `open` and `built`, and gives no id back. In
`DraftOrders` a build takes four steps and its handler checks the draft's name in one
and takes the draft in another, and yet each step is one of the book's, or changes
nothing the book has. That a loser of a race wastes its id, and a failed bind its
file, is `Waste`.

### DraftApi and OrderPage

`DraftApi` is the side of the server that one page meets: each handler on drafts
is an operator of a request and its answer (`Create`, `Bind`, `Put`, `Unbind`,
`Discard`, `Build`), next to the cleaner and the clock. Building an order takes two,
`Build` and `Place`: the draft is gone (`drafts.rs:287`) while the transaction that
inserts the order is still under way (`orders.rs:253-255`), and other requests of the
page find no draft in between. Of an order that is placed only its name is kept, as
nothing here reads its status. The other races inside a handler are `DraftOrders`';
here races are between requests.

`OrderPage` is one tab. An action is what React runs for one event: the handler,
the state it sets, and the effects that follow (`SetFiles` is an assignment to
the files *with* the effects that save them and enable the button, `Enter` and
`Go` are a change of stage with its effect). A request is a record in
`requests` that says who takes its answer (`by`); when the page goes, the
mutations live on but nobody takes what they would have set. The server handles a
request in one step (`Respond`), which leaves its answer in the record, and the page
takes it in another (`Take`), by which time it may be at another stage, closed or
started over; answers overtake each other as they like. The URL of a bound file is
answered with its upload and nothing else, so the record becomes that upload at once;
answers that the page does nothing about are not kept (`Heeded`). The user drops, removes and
configures files, opens and confirms dialogs, presses the arrow, goes through the
browser's history or the address bar, and reloads; the time runs out (`Tick`,
`Timeout`); a request, its handler or its answer is lost (`Lose`). A request equal to
one that is under way counts once. `Guard` holds the
effects of the configuration and the review that turn the user back; the
properties say that with them no stage shows what is not ready for it.

`at` is the stage in the address, `nav` a `router.push` under way, `storage` the
four keys of the local storage, `ready` the state behind the button, `dialog`
what is open with the values it captured. The ranges of a file are one of three:
none, invalid, valid. `FileRanges` has their detail.

### FileRanges

The ranges of one file: `Add`, `Delete`, `ChooseType` (all pages or a text),
`Type` and `Erase`, `ChooseVariant`, `More`, `Fewer` and `TypeCopies`, each as the button or field is enabled for
it. A text is a sequence of tokens; `isValidRange` follows the validator's steps (a
global match of a regular expression, removal of matches and commas, a set of
the pages), written with a recursive function (`Scan`, from each position on). The reference `IsSeries` splits the
text at its commas instead; `FlagIsTrue` compares. Where the validator throws (an
ascending span too long for an array), the edit is not taken.

### Sessions and WebSession

`Sessions` keeps for every id the entry of the store, the row of the table, and
the POST under way. Sign-in is `AskGoogle` → `ReadUser` → `Issue` (or
`DropFlow`), onboarding `CheckOnboard` → `WriteOnboard` → `MarkSession`, or
`FailOnboard` before any of the last two (the UPDATE is its own transaction,
`user.rs:98-123`, and a client that goes away ends the handler at its next await,
`user.rs:129`), the process `Commit` → `Exit` → `Load` → `Truncate`, with a
`Crash` at any point. `ReadUser` and `Issue` are apart because a user may be
onboarded between them. `signedOut` and `marked` are history variables: they record
what the properties talk about and no guard reads them. `marked` has the sessions
that ever said "onboarded", as long as the store or the table has them.

`WebSession` adds the tabs: the page on display, the user in the query cache, the
cookie, a navigation in progress and the page it waits for, the sign-in window
and its message. Each page's `getServerSideProps` is an operator of the user that
the backend reports (`FromLanding`, `FromOnboard`, `FromGlance`, ...);
`ServeRedirect`, `ServeProps` and `ServeError` are its three ends. A tab uses the
server's operations unchanged (`OpenGoogle` is `AskGoogle`, `SubmitOnboard` is
`CheckOnboard`, `Onboarded` is `MarkSession`, and `OnboardFailed` is what the tab sees
of `FailOnboard`, or of a success whose answer is lost), so each
step of the composition is a step of the server or leaves it alone.
`WebImplementsServer` proves it.

### OrderViews

One merchant's dashboard: `Choose` mounts the view of an order (the key is its
id, so what was typed for another is gone), `OpenDialog` makes a dialog whose
content is not rendered again, `TypePrice` enters a price, `Confirm` or `Reject`
starts a mutation in a slot of `calls`. The server takes it when it likes (`Serve`, or `Fail`), and the
page takes the answer (`Answered`), which closes whatever dialog is open and
invalidates the query (`Invalidate`: a fetch under way is dropped for a new one).
`Elsewhere` is everybody else who changes the order. A price is named for the
order it was typed for, so that a price in the wrong place shows.

### OrderHistory

`Rows` is the SQL of one page with its comparison against the key, `PageKey` the
key cut to milliseconds, `Read` the two statements as two steps (`FetchRows`,
`FetchPage`) between which orders finish (`Finish`). The page collects them:
`LoadMore`, `Refetch` of all pages one by one, `FetchFails`, and `Visit` →
`ServeProps` → `Arrive`, by which Next.js puts a page of its own in the place of
what the tab had.

### Variants

Each property has a control run: a definition is replaced by a *variant*, the
form a plausible mistake in the code would give it (a lock that is not taken, a
test that is left out, a cache that is written where it should be fetched anew),
and TLC must then find the property violated. The variants stand before the
definitions they replace and are named in `PROJECT.json` under `mutants`; no
specification uses them.

## Runs

| Run | Instance | Checks |
|---|---|---|
| `order_tables` (`MCOrders.cfg`) | 1 order, 3 workers, 2 prices, logs of at most 4 entries before another cancellation, 1 restart | types, `StatusIsLogged`, `LocksHaveOwners`, `FilesOutliveRound`, `PriceIsFinal`, `NoRevival`, and that `Orders` implements `OrderBook` |
| `order_rows` (`MCOrdersRows.cfg`) | 2 orders, 1 worker, logs of at most 2, fair | the many-row `UPDATE`: the refinement again, `RequestsEnd`, `StaleReviewsEnd` |
| `final_status` (`MCOrdersFinal.cfg`) | 1 order, 2 workers | **violated**: error 4005's "any further" |
| `drafts` (`MCDraftOrders.cfg`) | 2 users, 2 tasks, 2 drafts, 2 files, limit 2, a counter that wraps at 1, 1 restart | types, `LocksHeldByTasks`, `NoFileShared`, `BuildPlacesNamed`, `NoEditWhileHeld`, and that `DraftOrders` implements `DraftBook` |
| `drafts_clock` (`MCDraftOrdersClock.cfg`) | 1 user, 2 tasks, 2 drafts, 1 file, lifetime 1, clock to 2, fair | expiry: `SentFilesUploaded`, `UrlWithinDraft`, `ClearedUrlsExpired`, `RequestsEnd`, `ExpiredDraftsGo` |
| `infallible_pop` (`MCDraftOrdersPop.cfg`) | 1 user, 1 task, 2 files | **violated**: "Infallible" |
| `order_numbers` (`MCDraftOrdersNumbers.cfg`) | 2 users, 2 tasks, the real bound 25974 | **violated**: "unique number" |
| `order_history` (`OrderHistory.cfg`) | 4 orders, pages of 2, 2 instants to a millisecond | `NewestFirst`, `NothingSkipped` |
| `order_page` (`OrderPage.cfg`) | 1 file, limit 1, 2 drafts, lifetime 1, clock to 2, 2 requests or answers at a time, ranges none or valid | `NoUploadPastUpload`, `ReviewIsComplete`, `ReadyToReview`, `SavedIsShown`, `ForgottenIsOver` |
| `file_ranges` (`FileRanges.cfg`) | 2 papers, pages 1, 2 and 9, arrays of at most 5, 3 ranges of up to 5 tokens together, 2 copies | types, `OnePaper`, `AllPagesAlone`, `FlagIsTrue` |
| `web_session` (`WebSession.cfg`) | a student and a merchant, 1 tab, 2 sessions or 1 session and 1 end of the server | `OnboardedIsRecorded`, `OnboardedForGood`, `SignedOutStaysOut`, `RightPage`, `MovesEnd` |
| `order_views` (`OrderViews.cfg`) | 1 order and another to turn to, 2 calls in flight | `OwnStepSeen`, `PriceOfItsOrder`, `SeenInOrder` |

All runs check for deadlock.

**Why these bounds.** Orders do not share anything but the flusher, so one order
with three workers shows what two merchants and the owner can do to it, together
with the flusher, and two orders show what the flusher does between the first
and the last row it locks. Four log entries reach `completed`, and one beyond
it (a cancellation or a rejection of a completed order). In the draft store users
share only the counter and the tasks; two handlers of one user are what a race
needs, and the second user makes them race for the counter. Two files at a limit
of two make a full draft, a request in the wrong order, one that lists a file
twice and one that leaves a file out. Two drafts let an old handler meet a
successor of its draft. The clock runs past the lifetime, so that URLs end, the
minute between the URL's end and the cleaner passes, and the cleaner comes.

On the order page two drafts let late answers meet a successor; two requests at a
time, with those that are answered but not yet taken, are enough for one to overtake
the other; the clock runs from the first draft until the second is made, so that
the first can run out at any point and the second can follow at any time; a longer
list of drafts (`MaxDrafts`) lets more of them run out, and the proofs are for any; one
file that has not been uploaded is enough to make a stage wrong. Deleting the only range of a file is how
the button has to go off again; invalid ranges would do the same with half as
many states again (2.8 million instead of 1.9), and the five properties hold there
too; the proofs cover it, any number of files and all `Configs`. Three
ranges leave two when the first
goes, and five tokens write two spans that overlap, a span and a page, a span
the wrong way round and a stray hyphen; page 9 is further from page 1 than an
array may be long. The history of four orders has two pages, or three when one
finishes while they are read, and two orders of one millisecond are only excluded
because one client makes one draft at a time. In `web_session`, two sessions of
one user let one lag behind the other, and one session with an end of the server
is what a sign-out or an onboarding has to survive; the proofs cover the rest
(two tabs and any number of ends). In `order_views` two calls let a double click
and an answer for an order that was left race with the view; `Other` stands for
all orders that are not followed in detail.

Bounds that only keep the state space finite are constants named `Max...` and
occur in guards (`MaxHistory`, `MaxRestarts`, `MaxDrafts`, `MaxFiles`, `MaxNow`,
`MaxRequests`, `MaxRanges`, `MaxTokens`, `MaxIds`, `MaxEvents`, `MaxOrders`);
`MaxQueueSeq`, `MaxFileLimit`, `MaxCopies`, `PageSize` and `ArrayLimit` are limits
the code or JavaScript has.

**Fairness.** `Orders!FairSpec` assumes strong fairness of what a request does by
itself (`Answer`) and of the flusher's steps: PostgreSQL grants row locks in the
order of arrival, so a request that finds its row free again and again gets it.
`DraftOrders!FairSpec` assumes it of handlers and of the cleaner: the map queues
those who wait for an entry. Midnight and the clock are weakly fair, as time
passes. `WebSpec` assumes weak fairness of `Loading` for each tab: Next.js answers
and the browser shows what it is sent. Nothing is assumed of users (they need not
send, upload, click or stay), of the backend behind Next.js, of failures, or of
restarts. `ExpiredDraftsGo` depends on the clock's bound only in that the clock
stops after it; the cleaner goes on.

## Proofs

| Theorem | For every value of the constants |
|---|---|
| `BookIsTyped`, `BookLogAdvances`, `BookStatusIsLogged`, `BookPriceIsFinal`, `BookNoRevival` (`OrderBookProofs`) | the atomic book keeps its types and its four promises |
| `OrdersTyped`, `AdvanceReadsCurrent`, `NoLeakedLock`, `FilesSurvive` (`OrdersProofs`) | types, and the three invariants about locks and files |
| `NoCircleOfWaits` | who waits for a row waits for one who does not wait, or for the flusher, and that one for such as do not |
| `OrdersImplementBook` | every behaviour of `Orders` is one of `OrderBook` |
| `OrdersLogAdvances`, `OrdersStatusIsLogged`, `OrdersPriceIsFinal`, `OrdersNoRevival` | the book's promises, carried over by the refinement |
| `DraftsTyped`, `EntriesHeld`, `HeldDraftsStay` (`DraftOrdersProofs`) | types of the draft store, entries held by the handlers that took them, and no edit of a held draft |
| `StoreHolds` | the inductive invariant of the draft store |
| `StoreImplementsBook` | every behaviour of `DraftOrders` is one of `DraftBook` |
| `BookHoldsOnce`, `BookNeverReturns`, `BookIsTraceable`, `StoreKeepsBook` | the draft book's three promises (`OneHolder`, `NoReturn`, `Traceable`), and that by the refinement the store keeps them |
| `NamedIsBuilt`, `IdsSettleOnce`, `FilesNotShared`, `SentStaysUploaded`, `UrlsEndWithDraft`, `ClearsAfterUrls` | what is built is what the path named; ids and files have one place; sent files stay in the bucket; URLs end with their draft and before its files are cleared |
| `NumbersAreReadable`, `NumbersAreInOrder`, `OrderNumberInjective` | for every bound of the counter up to 26 * 999: the numbers of sent orders are readable, a build that finds the counter as it loaded it gives the next one, and different counters look different |
| `SessionsTyped`, `FlagsAreBacked`, `OnboardedStays`, `SignOutIsForGood` (`SessionsProofs`) | types, and the three promises of the server's sessions over any number of restarts and crashes |
| `WebImplementsServer` | every behaviour of `WebSession` is, for the server, one of `Sessions` |
| `WebFlagsAreBacked`, `WebOnboardedStays`, `WebSignOutIsForGood` | the server's promises behind any number of tabs |
| `WebTyped`, `PagesFitTheirUser` | types of the tabs, and `RightPage`, in any number of tabs |
| `RedirectsNear` | each redirect of a page that loads lowers the number of redirects before it, which is two at most |
| `TypeCorrect`, `OnlyUploadsPastUpload`, `ReviewsAreComplete`, `ReadyMeansValid`, `SavedIsWhatIsShown`, `NothingElseForgets` (`OrderPageProofs`) | types and all properties of the order page, for any files, limit, drafts and number of requests under way |
| `RangesTyped`, `RangesOnOnePaper`, `AllPagesByItself` (`FileRangesProofs`) | types with their bounds, one paper for all ranges, "all pages" alone, after any edits |
| `ValidIsSeries`, `FlagsAreTrue` | the validator accepts the series of pages and ascending spans without repetition and nothing else, and `FlagIsTrue`, for texts of any length |
| `ListsAreChains`, `ListIsSorted`, `ListHasNoHoles` (`OrderHistoryProofs`) | `NewestFirst` and `NothingSkipped`, for any number of orders, size of a page and fineness of the clock |
| `PricesReachTheirOrder`, `OwnStepsAreSeen`, `ViewsMoveForward` (`OrderViewsProofs`) | the three promises of the merchant's view, for any orders and any number of calls in flight |

**The argument for `Orders`.** The promises of the book hold of atomic operations
for simple reasons; what is hard is that the statements of `Orders` amount to
atomic operations. That needs to know, at the moment an advance commits, that the
status it read is still there, and at the moment the flusher commits, that the
orders it selected are placed. Neither is inductive alone. The invariant `IInv` of
`OrdersProofs` is the conjunction of

- `TypeOK`;
- `RequestInv`: a request in progress has an order; one in `write` holds the
  row, has read the current status, and that status can be advanced; one past
  `BeginCancel` works on a placed order;
- `FlusherInv`: the flusher has victims only while it locks or has purged, all
  of them placed, and after the purge it holds all their rows;
- `HolderInv`: a held row has a holder in the right place (`LocksHaveOwners`);
- `FilesInv`: the files of placed orders outside `cut` are stored.

`SeenIsCurrent`, `LocksHaveOwners` and `FilesOutliveRound` are consequences, and so is
`WaitsAreShort`, the safe half of `RequestsEnd`: a request that holds a row waits for none,
so only the flusher, which holds many, both holds and waits.
One lemma for each conjunct shows that every action keeps it (`TypeStep`,
`RequestStep`, `FlusherStep`, `HolderStep`, `FilesStep`); `BookStep` shows that,
under `IInv`, each step is a step of the book or leaves the tables alone. The theorems
about the book then follow, because `ImplementsBook` is `Book!Spec`.

`LogAdvances` of the book needs a strengthening as well: `LogBehindStatus`, that
the log of an order on its way has got no further than its status. A price that
was set is final because a priced order has left review (`PricedIsAccepted`).

**The argument for `DraftOrders`.** `TypeOK` needs `LocalsInv`: a handler at work
has a user, and at the steps that use a file or a new draft's id it has one. The
lemmas before it say what the operations on a draft's files (bind, remove, reverse and
pop) do to a sequence: they add nothing that was not there and nothing twice.
`LocksHeldByTasks` is inductive together with the types; one lemma for each way in
which a step may change handlers and entries (`HeldOnFinish`, `HeldOnBegin`,
`HeldOnGo`, `HeldOnTake`, `HeldOnDrop`) and the actions sorted among them.
`NoEditWhileHeld` follows: all that edit a draft find the entry free, but for the
panic and the end of a build, and these hold the entry themselves and let it go in
the same step.

The other properties of the store are conjuncts or consequences of one invariant,
`StoreInv`, since none of them is inductive alone. What carries it is that an id or
a file which nobody has used yet (`NewDrafts`, `NewFiles`: not generated, or
generated by a handler that has not inserted it) is nowhere else, and that nothing
becomes new again (`FreshInv`, `NewOnce`). Then

- `IdsInv`: two users' drafts, and a draft and a sent order, have different ids, and
  so have handlers about to insert or persist;
- `FilesInv`: a file is in one draft or sent order and there once, and the objects
  that the cleaner is about to delete are of none;
- `BuildInv`: what a build holds past `validate` is the draft that the path named: the
  request lists files that were returned to the user before it began, so a draft that
  has one of them is the draft of that time, and since the request is not empty,
  neither is the order that comes of it;
- `ObjectsInv`: at `number`, and when sent, the files are in the bucket, and a removal
  that deletes an object holds the draft that has the file;
- `TimesInv`: URLs end with their drafts, and the cleaner's time is not in the future.

Before the step lemmas (`FreshStep` to `TimesStep`) stand lemmas that say how a
variable may move in any step and by whose hand: `TaskMoves`, `DraftMoves`,
`SentMoves`, `KnownMoves`, `UrlMoves`, `KeysMove`, `BucketMoves`. With them a step of
the invariant is a few cases instead of thirty actions.

`StoreImplementsBook` then needs one lemma for each thing a step may do to the book:
nothing but wasting new ids and files (`OthersStay`), `Opens`, `Binds`, `Shrinks`, `Drops`, `Builds`,
`PlacesOrLoses`, and the restart; `BookStep` sorts the actions among them. It rests on
`FreshInv`, for the guards `i \notin spent` and `f \notin filed`, and on `IdsInv`, by which
the entries of different users, and those of builds and rows, are different records, so
that taking one out of a set leaves the others in it. A build's order has some of its
draft's files, and at least one, by the lemmas on reverse and pop and by `BuildInv`.

What the book promises is stated in `DraftBook` and proved from the book's steps alone,
in the instance that `DraftOrders` has of it. `OneHolder`
(a user has one draft; an id or a file is of one draft or order, which is in one of
the three sets) is not inductive without `BookInv`, which adds that every id and
file in use is spent or filed, so that a new one meets none. `NoReturn` and `Traceable`
are about steps and follow from it. `StoreKeepsBook` carries the three over to the
store, where neither a test of a name that goes stale nor a lost race may break them.

Of the counter, `OrderNumberArithmetic` says that on the numbers `next_queue` hands
out no subtraction wraps and no cut loses anything; the rest is arithmetic on
quotient and remainder.

**The argument for `Sessions`.** A flag that says "onboarded" is in three places:
the session, a sign-in that has read the row, and a POST that has written it.
`FlagsRecorded` says that each is backed by the row, and that a POST is its
session's user's; then the load from the table, which joins the users' rows, keeps
it. `SignedOutStaysOut` alone is not inductive, since the table might bring a
session back: `GoneForGood` adds that it is not in the table either, and
`NothingEarly` that the table is empty while the server is up, which is what the
TRUNCATE is for, and that ids not given out are nowhere. `OnboardedForGood` needs
`KeptFlags`: what is kept of a marked session, in the store or in the table, is of a
user whose row says onboarded, so that a load, which takes the flag from the row, marks
it again. The other direction does not hold: a row may be ahead of its sessions for good,
also of the one that onboarded (see below).

**The argument for `WebSession`.** Every action of the composition either contains
one of the server's or leaves the server's variables alone, but for the actions
that work on *the tab's* session: `Onboarded` marks `cookie[t]`, which must be an
id. `Waiting` says that a tab that waits for an answer has a cookie; with it each
step is a `ServerNext` step or a stutter, and the theorems of `SessionsProofs`
carry over.

`RightPage` needs to know what props on their way will show. `PagesInv` says that they
are of the page the router goes to, which let their user in (`AnswerFits`), that a page
and the cached user fit or the tab is leaving the page (`PageFits`), and that merchants
are onboarded, on which pages rely that ask for nothing else.

`RedirectsNear` is the half of `MovesEnd` that a proof reaches. `Away` counts the
redirects that a tab has before it while its user stays as it is. `SecondPageKeeps`
goes through the pages and the users there are: whoever is sent to a second page is
kept there, so the count is two at most. A router that turns to another page while it
waits for one either follows a redirect, and the count falls, or takes the end
of a sign-in, an onboarding or a sign-out (`TurnsAreRedirects`). So redirects that never
end would need users who never stop changing. That the pages are served at
all is fairness, and stays with the run.

**The argument for `OrderPage`.** The four invariants hold together only. A reload
enters any stage with what was saved, so what is saved must be good for that stage;
what is saved follows what is shown, so what is shown must be; and what is shown
changes by answers to requests that were made at an earlier stage, or by a page that
has gone. `ShownInv` ties what is shown to the stored stage, `StorageInv` ties what is
stored to the page, and `RequestInv` says which requests find the page when they are
answered: one whose answer removes a file was made by the page that is there, which
has files. `ForgottenIsOver` is about steps, and answers come late: `NamesInv` says
that the names of drafts, in the local storage, in requests and in answers, are not
newer than the server's last, so that a draft which a discard or a build has ended
(`Over`) does not come back under its name. An answer about the draft that is stored
then finds the server without it. `Array.filter` is written as `Filter`, by the places that are kept, since
the provers know `SelectSeq` only by a recursive definition; `FilterProperties` and
`FilterAll` say what it returns.

**The argument for `OrderHistory`.** `KeysSeparate` turns the assumption on the times
into the only facts the rest uses: older orders were made before a newer one was, and
before its key. `RowsProperties` says what the statement returns: rows newest first,
and whatever it leaves out is older than all of them, in which case there are more
finished orders than rows. A list of pages is a `Chain` if each page begins where the
key before it cut and whatever was finished with the first page is listed or older than
the last key; rows that were read but not counted yet are on their way to be the next
page (`Continues`), whatever finishes in between (`MoreFinish`). Three lists must be
chains: the one that is shown, the one a fetch collects and the page from Next.js. The
properties speak of pages and rows in place of one flat list, which would need an
induction over the pages.

**The argument for `FileRanges`.** `TypeOK`, `OnePaper` and `AllPagesAlone` are
inductive together: when the first range goes, the next was on its paper, and
another paper can be chosen only while there is one range.

`FlagIsTrue` is about the validator. It scans the text from the left by a recursive
function, the reference splits it at the commas, and they must agree on texts of
any length. The induction schemes of the library take an operator; `FromTheEnd` does
without: of a *set* of positions it shows that it has all of them, by the least natural
number that would be missing (`LeastNatural`, from the well-founded order of the
naturals). By it `Scan` exists (`ScanExists`, `ScanDef`) and has local facts instead of
a recursion (`ScanFinds`, `StartsProperties`): a match begins at a page, and at every page
that no hyphen precedes, but not at the end of a span that was found. Two more
lemmas tie matches to pieces between commas (`ItemsArePieces`, `PiecesAreItems`), and
`ValidIsSeries` follows. It holds of texts in which no two pages stand next to each other
(`Separated`): digits typed one after the other are one number. So the invariant
`FlagInv` says of every range but "all pages" that its text is `Separated`, and of each
that its flag is right, and every edit keeps both.

**The argument for `OrderViews`.** Statuses have a `Rank` that no step lowers. The
invariant orders everything that was read: what is in the cache is not further than
what a fetch has read (`ViewBehind`) nor than the order itself, an answer to
a step and what the view was told are not further than the order (`AnswersBehind`,
`ToldBehind`), and a view that was told of a step and shows less has a fetch under
way that asks again. `PricesMatch` says that a price in a dialog, in a call or on
an order is the one for it, and `NothingUnplaced` that nothing was read of an order
before it was placed.

Assumptions: `OrdersAssumption`, `DraftAssumption`, `QueueAssumption`,
`SessionsAssumption`, `WebAssumption`, `ApiAssumption`, `PageAssumption`,
`HistoryAssumption`, `RangesAssumption` and `ViewsAssumption`: the special values
differ from the ordinary ones, the bounds are natural numbers, limits are not 0, the
default paper is a paper, and the counter's bound lies within 26 * 999 (in
`OrderNumber`, which `DraftOrders` extends). TLC evaluates them on the runs.

**Only model-checked:** liveness (`RequestsEnd`, `StaleReviewsEnd`,
`ExpiredDraftsGo`, `MovesEnd`), since the prover handles neither `ENABLED` nor
fairness here. Every invariant and action property of the passing runs is proved.
**Only proved:** `RedirectsComeNearer`, `WaitsAreShort` and the promises of the draft book,
for which the runs `web_session`, `order_rows` and `drafts` check `MovesEnd`, `RequestsEnd`
and the refinement; `NumbersAreReadable` and `NumbersAreInOrder`, whose
interesting numbers lie beyond what a run can reach; `LogAdvances` and
`SeenIsCurrent`, which the refinement checked in `order_tables` needs anyway; and
`SettledOnce`, that ids of drafts and orders do not meet, which the run `drafts` checks in
the form of the book: its `Open` wants an id that is not spent.

## Not modelled

- *Papers, bindings, opening hours.* Nothing in the web client calls the handlers
  that edit them (`management.tsx` is a mock-up that sends nothing). Two concurrent
  edits can leave two default papers and one edit can leave none; the page takes
  the first by name, and `FileRanges` assumes that there is one, because
  `ConfigOrder` throws otherwise. Opening hours only let through fewer `post_orders`;
  that merchants move them is part of the flusher's choice in `Orders`.
- *Thumbnailer.* A picture depends on it and nothing else. Rendering belongs to a
  library; the only state is a bounded channel. That its death makes `stop_all`
  panic at shutdown is a `Crash` of `Sessions`.
- *The merchant's paginated list and `reverse`.* The client calls neither.
- *Presentation, configuration, responses, scripts.* No state of their own.
  `add_merchant` is where `Sessions` takes its merchants from.
- *Handlers that only read*, except where what they read matters later (`exists`,
  `get_created_at`, the order on the merchant's view, the history). The event stream
  tells the client to read again; the merchant's view is read at any time anyway.
- *The cache of download URLs*, thumbnails, and the sizes of uploads.
- *`PATCH` of a profile*, which changes fields no other part looks at.
- *Ownership checks.* Every handler takes the user from the session; users name only
  ids that were returned to them, except in `DraftApi!Discard`.
- *Notes, colours, orientation and sides of a range* are set as the copies are.
- *Exact times in `Orders`*, and the order of log entries by time.

## Disagreements found

Three are runs that end in a violation:

1. `error.rs:57` says of an order that was completed, rejected or cancelled that
   its status cannot be updated any further. `delete_orders_id` reads no status:
   a cancellation turns a completed order into a cancelled one (run
   `final_status`). The flusher can do the same to an order that left review while
   it waited for another row.
2. `drafts.rs:249` calls an `unwrap` infallible. It fails for a request that
   lists one file of the draft twice (the shortest trace of run `infallible_pop`), and
   for one that lists the files in another order than they were bound in, which the
   page can send because it starts several uploads at once.
3. `OrderCard.tsx:34` calls the order number unique. Two users who send at once
   can get the same one (run `order_numbers`), because the counter is read and
   written in two steps.

Others were met while modelling. The models do what the code does, and the
properties are stated so that they hold of it:

- *Reject never works.* `DELETE /orders/{id}` is for clients only
  (`routes/orders.rs:55`), so the merchant's button (`DetailedViewHeader.tsx:126`)
  always gets a 403, and the branch of the handler for merchants is dead.
- *Accept sends the price that was typed before the dialog opened*: on the first
  opening none, so the order is accepted without a price. The dialog's buttons are
  not rendered again either, so they never look busy and a double click advances the
  order twice. `POST /status` advances from whatever status there is.
- *Sign-in button.* It calls its callback with `true` and `false`, `index.tsx:65`
  passes a toggle; after a blocked window the button stays busy.
- *A draft's time.* `POST /orders` returns the draft there is with its old time,
  and the page counts 15 minutes from the answer. `build` reads no clock. Start over
  from the upload stage pushes the address that is shown already, and the page then
  loads for ever.
- *Ranges.* The button leads on to the review only with valid ranges, but the
  review itself only asks that there are some: the browser's history leads there
  with invalid ones, and from there they can be sent; a blank text, or one of commas only, counts as valid; a span like
  1-5000000000 makes the validator throw; the limit on the number of ranges is not
  enforced by the page, and two ranges with the same text violate a UNIQUE
  constraint (`2_tables.sql:147`) after the draft was taken apart, so the order is
  lost.
- *Late answers.* When the user starts over while a request is under way, the page
  takes the request's answer for one about the draft it has now. The success of a send
  (`[stage].tsx:128-140`), the 204 of a `DELETE` (182-189) and the id that `POST
  /orders` gave before (80-98) all make it forget a newer draft, which the server
  keeps until it expires. A send gives time for it: the draft is gone
  (`drafts.rs:287`) before its transaction ends (`orders.rs:253-255`), so `POST
  /orders` makes a new one meanwhile. `ForgottenIsOver` therefore says that a draft
  is only forgotten when it is over, when the timeout dialog offers to start over, or
  when such an answer comes late.
- *Deleting.* A `DELETE` of a draft that comes late discards the draft that followed
  it (`orders.rs:270`). An upload that failed stays bound on the server, where the
  page can no longer remove it.
- *Onboarding cut off.* `post_user_onboard` commits its `UPDATE` on its own
  (`user.rs:105-118`) and then awaits the store before it marks the session
  (`user.rs:129`). A client that goes away in between, or an `UPDATE` whose answer is
  lost, leaves the row onboarded and the flag of the same session not: the pages
  send the user home and the server answers that they have to onboard, until they
  sign in again, submit once more from a form that is still open, or a restart loads
  the flag from the row.
- *Sessions.* The answer to a sign-out removes a cookie of another path
  (`auth.rs:86`), so the cookie stays; a sign-out between the commit and the exit is
  undone by the restart (`main.rs:123`); a user who was onboarded on another device
  is refused by `requires_onboarding` until they sign in again (`middleware.rs:31`);
  a page that needs a user, reached with an empty user in the cache, throws before
  it is hydrated; a failed sign-out leaves its button busy.
- *History.* A full last page still has a key, so one more, empty, page is offered;
  a "load more" from an earlier visit replaces a newer first page. In reverse, which
  nobody asks for, the key that is cut to milliseconds repeats the last order.
- *Crashes of pages.* `paperVariants.find(...)!` throws when a variant is gone.

## Plan

Done: the order book, the orders with the flusher, the draft store, the counter, the
sessions, the routes between pages, the order page, the ranges, the merchant's view
and the history, with the proofs above; and the two refinements, of the order book and
of the draft book.

Next, in this order:

1. A composition of `DraftOrders` and `Orders`, where `Persist` is `Place`.
2. Papers, once the management page sends what it shows.
