# A formal model of studentbazaar-be

TLA+ modules, model-checking configurations and machine-checked proofs for the
back end of Student Bazaar: NestJS 9 with MikroORM 5.7 over MySQL, pictures in
an Azure container, chat over Socket.IO. Source paths below are relative to
`src/src/modules/`.

## The system

One Node process serves HTTP requests and socket events. Handlers share nothing
in memory: every request has its own `EntityManager`, and what requests share is
the database, the image container and the socket rooms. Node runs one
continuation at a time, so two handlers interleave at their `await`s and nowhere
else. Every statement or flush is atomic (a flush is one transaction); what a
handler loaded before an `await` may be stale after it. `UPDATE` and `DELETE` by
id affect no row, silently, if the row is gone.

| Component | Code | State | Operations | What is hard |
|---|---|---|---|---|
| registration, verification, login gate | `auth/auth.service.ts`, `auth/auth.controller.ts`, `user/user.service.ts` | tables `user`, `email_verification` | sign up, resend, verify, log in up to the gate, activate | check-then-insert without unique indexes; a verification row is written several awaits after its user, and found by email again; failures in between; every mail goes to one hard-coded address |
| sessions | `auth/auth.service.ts` | table `refresh_token` | log in from the signing on, refresh, log out | an upsert nobody awaits; update and delete by an id read earlier; bcrypt reads 72 bytes |
| chat | `chat/chat.gateway.ts`, `chat.service.ts`, `chat.controller.ts` | tables `conversation`, `conversation_participant`, `message`; rooms | find or create a conversation, send, mark as read, emit | lookup-then-create; receivers from a collection in memory; crossing read marks |
| item listing | `item/item.service.ts`, `item.controller.ts` | table `item` | list by cursor | two statements per page; the list changes between pages |
| item update and delete | `item/item.service.ts`, `item.controller.ts` | table `item` | change the status, delete | a flush writes the difference to what was loaded; the owner is looked up by a name that need not be unique |
| pictures | `item/item.service.ts`, `azure-blob-storage/` | container, tables `azure_storage_blob`, `item_image` | create an item with pictures, upload pictures | parallel tasks, `Promise.all`, an un-awaited flush, writes to two stores |
| favourites | `item/item.service.ts` | table `user_favorite_item` | toggle | load, then insert or delete one row; the item may go in between |
| categories | `item/category.service.ts`, `../utils/nest-children-entities.util.ts` | table `item_category`, never written | all nested, one with its children, the subtree for a listing | rows come in any order; the recursive query relies on there being no cycle |
| conditions, market | `item/condition.service.ts`, `market/` | read-only tables | lookups | - |
| profile | `user/user.service.ts`, `user/me.controller.ts` | table `user` | update | a write by id, of columns nothing else writes |
| mail, Google OAuth2 | `email/`, `google-oauth2/` | a token file that nothing reads | send, store the token | a floating promise |
| socket adapter, guards, bootstrap, migrations | `chat/chat.adapter.ts`, `auth/guards/`, `main.ts` | none | authenticate, wire up | - |

How they meet: sign-up (`Account`) makes the users that sessions, chat and items
refer to; the gate decides who gets to the signing of tokens, where `Session`
starts; chat and items take an authenticated user as given, which is why they
are modules of their own, with the set of users a constant. An item begins in
`Upload`, is changed and deleted in `Items`, and is seen by others in `Listing`,
whose filter by category is the subtree of `Categories`.

## What makes each component correct

- **Account**: two users share an email or a name only if their sign-ups
  overlapped (`DuplicatesOnlyFromOverlap`); a user without a verification row
  has had a link of its own used, or is one of three named exceptions (`Gated`), and
  so has whoever gets an access token (`TokensAreEarned`); a link that verified
  is dead (`UsedLinksAreDead`); for whoever signs up a link is made and sent out, to
  the one address the code sends everything to (`LinksGoOut`). What one would want
  of verification on top of that, that the link reaches the user it is for and so
  shows that the address is the user's, does not hold of this code and is no
  property: see "The address of the mails" below.
- **Session**: a logged-out row never comes back (`LoggedOutStaysOut`), only
  logins open sessions (`OnlyLoginsOpen`), and
  all of it implements "at most one session per user, opened by a login, closed by
  a logout, never reopened" (`ImplementsOpenSessions`).
- **Chat**: a pair gets a second conversation only from overlapping creations
  (`DuplicatesOnlyFromOverlap`); messages land where they were addressed
  (`RoutedToPair`) and reach those concerned (`ByIdReachesBoth`); read pointers
  stay in their conversation (`PointerInConversation`); what is saved is emitted
  (`SavedIsEmitted`); and all of it implements a plain log of pairs
  (`ImplementsPairLog`).
- **Listing**: nothing is shown twice (`NothingTwice`), nothing that was there all
  along is missed but cursor rows (`MissedOnlyAsCursor`), every page lies below all
  that came before it (`PagesDescend`), and so paging ends (`PagingEnds`).
- **Upload**: items show pictures that were stored (`PicturesAreStored`) and whose
  thumbnails were made, though perhaps refused (`ThumbnailsMissOnlyByStatus`), a
  refused request leaves no rows (`RejectedLeaveNoRows`), and leftovers come only
  from requests that failed (`LeaksOnlyFromFailures`); seen from outside, items appear
  at once with all their pictures and keep them (`ImplementsGallery`).
- **Items**: every toggle carried out counts, but for those that crossed
  (`TogglesFlip`), and the database refuses one only in such a race
  (`RefusedOnlyInRaces`); an item has the status its owner was last answered, unless
  two updates raced (`StatusAsTold`); nobody changes or deletes another's item,
  namesakes of the owner excepted (`OwnersDecide`); and although handlers write from
  what they loaded, the tables change as by atomic changes (`ImplementsBoard`).
- **Categories**: nesting loses and repeats nothing in any order of the rows
  (`NestingIsComplete`), a listing of a category covers its subtree, each category
  once (`SubtreeOnce`), no step of a request is for nothing (`EveryStepCounts`), and
  every request is answered (`AnswerComes`).

## Modules

Conventions shared by all: a request in flight is a record `req[r]` with a
program counter and the values the handler has read; `Requests` is a set of slots,
its size the number of handlers that overlap. One action is everything a handler
does from one `await` to the next, the checks it makes there being its guards. A
request rejected on its first read changes nothing and is no action. Tables are
sequences or functions of rows; ids count from 1 as AUTO_INCREMENT does. History
variables are declared apart and read by properties only. Definitions marked
`\* mutant` beside a definition are plausible wrong versions of it, used to see
that a property would notice; no specification uses them.

- **`Account`** - `users`, `ev` (`email_verification`), `links` (tokens generated),
  `holders` (unexpired access tokens), `req`. Sign-up is `CheckEmail`,
  `CheckName`, `InsertUser`, `FindNewUser`, `UpsertLink`, `Mail`; a resend enters
  at its lookup; verification is `FindLink`, `Verify` (one transaction) or
  `ExpireLink`; login is `FindLogin`, `Gate`; activation `FindAccount`,
  `Activate`. `Fail` is a statement that throws, `Crash` a restart. The password
  check and the university domain are choices of the request. A link records the
  address it was sent to (`to`): `Mail` sends it to `Recipient`, the constant that
  stands for the address written in `auth.service.ts:197`, never to the user's
  `email`. Whoever reads that mail may present the link (`FindLink`). History: `lost`
  and `unsent` (users and links whose handler a fault cut short before the link was
  stored, or sent).
- **`Session`** - `row` (`refresh_token`), `issued`, `floating` (upserts sent but
  not answered), `held`, `access`. `Login` signs and sends the upsert, `Store` is
  its arrival at any later time; `FindSession`, `Rotate` is a refresh; `FindOwn`,
  `Delete` a logout. `Matches` is bcrypt on 72 bytes: the prefix two tokens of one
  user have in common, so it compares users. `CalmSpec` is without faults.
- **`OpenSessions`** - what sessions promise. `Session` maps `open` to the ids of its
  rows and `closed` to the ids that answered logouts had found. Logins that find a
  row, refreshes, expiry and faults are invisible there; of two logouts that found
  one row, one is visible.
- **`Chat`** - `conversations` with their participant rows and read pointers,
  `messages`, `events` (emissions and their rooms). `LookUp` or `LookUpNone` and
  `Create`, or `Open` by id; `Save`; `FindRow`, `Mark`; `Emit`. `Create` leaves the
  participants collection of the new entity empty in memory, as the code does.
- **`PairLog`** - what chat promises: a log of messages, each between two users,
  never rewritten, each delivered once at most, to its sender and to no stranger.
  `Chat` maps `log` to its messages with their participants and `delivered` to the
  rooms its message events reached.
- **`Listing`** - `items` by id, and one client with its `cursor`, the `answer`
  being read and what it was `shown`. `Select` and `Count` are the two statements
  of `findAndCount`, in either order, `TurnPage` and `LastPage` the two answers;
  `CreateItem`, `UpdateItem`, `DeleteItem` happen in between. All filters of the
  query are one predicate, "listed".
- **`Upload`** - `files` with the state of their tasks, `container`, `blobs`,
  `images`, `itemCount`, `req`. A file has what became of its thumbnail: none yet,
  stored, or refused by a status that `uploadImage` tests where it has no effect. `Post` starts one task per file; a task is
  `StoreOriginal` or `RefuseOriginal`, then `UploadThumbnail`, or `Throw`; `Collect` and
  `Reject` are the two ends of `Promise.all`; `FlushBlobs` and `InsertItem` the two
  flushes, the first of which nobody awaits and the second of which is queued
  behind it. `FailItem` and `Crash` are faults. `POST items/images` ends after the
  blobs.
- **`Gallery`** - what posting pictures promises: an item appears with all its pictures
  at once and shows no others, no picture twice, only pictures that were kept, and none
  of a post that was refused. `Upload` maps `gallery` to the pictures of each item,
  `kept` to the files with rows, `refused` to those `Promise.all` rejected; what happens
  in the container is invisible.
- **`Items`** - `items` by id, `favorites` (pairs), the `name` of each user, `req` with
  what was loaded: the status, the user's favourites. A toggle is `FindForToggle`,
  `LoadFavorites`, then `AddFavorite` or `RemoveFavorite`: MikroORM writes a changed
  collection as the rows that were added or removed. An update is `FindForUpdate`,
  with the comparison of the owner, and `Update`, which writes nothing if the status
  is the one loaded. A deletion is `FindForDelete`, `CheckOwner` (by name: any user of
  that name may be found) and `Delete`, with the cascade of the foreign key. History:
  `flipped` (toggles carried out, modulo 2), `told` (the status of the last update
  carried out), `crossed` and `raced` (pairs and items of which two handlers had
  loaded before either wrote).
- **`Board`** - what the handlers of existing items promise, each as one atomic change:
  an item keeps its owner, nothing happens to it once it is removed, its favourites go
  with it for good, users mark and unmark one favourite at a time. `Items` maps its two
  tables to it; loads and checks are invisible. That only owners change an item is not
  in it: that is `OwnersDecide`, with its namesakes.
- **`Categories`** - `parent` is the table, any forest over the rows 1..N in the order
  in which they are returned. One request: `FindAll`, the two loops `Store` and `Link`
  (`shelf` is the children of each category, and the result at 0; `Link` throws if
  the parent is not `stored`); or `FindOne` and the children; or `SelectRoot` and
  `Expand`, the rounds of the recursive query (`frontier` is the rows of the last
  round, `rows` how often the result has each category).
- **`MC*`** - instances for TLC: symmetry sets.
- **`*_proofs`** - theorems, see below.

## Runs

| Run | Question | Bounds |
|---|---|---|
| `Account_overlap` | safety of overlapping sign-ups, resends, verifications, logins, activations, with faults and expiry; no sign-up is forgotten before its link is sent | 2 users, 2 emails, 2 names, 2 requests at a time, resends below 1 link |
| `Session_race` | logins, refreshes, logouts, floating upserts, crashes; refinement of `OpenSessions` | 2 users, 2 requests, 3 tokens |
| `Session_current` | does only the current refresh token refresh? **No** | 1 user, 1 request, 3 tokens, no faults |
| `Chat_pair` | finding, creating, sending with faults; refinement of `PairLog` | 2 users, 2 requests, 2 messages, 2 conversations |
| `Chat_live` | read pointers; saved messages are emitted | 2 users, 2 messages, 1 read, no faults |
| `Chat_receivers` | do messages reach all receivers? **No** | one message |
| `Chat_unread` | has a sender read its own newest message? **No** | two messages of one sender |
| `Listing_pages` | nothing twice, nothing missed but cursors, pages descend, paging ends | pages of 2, 5 items ever |
| `Listing_end` | does the end of a listing mean no more items? **No** | pages of 1, 3 items ever |
| `Upload_posts` | rows, bytes, thumbnails and items after refusals, throws and crashes; refinement of `Gallery` | 2 requests, up to 2 files each, 3 in all, 2 file names |
| `Items_race` | toggles, updates and deletions overlapping, with faults and crashes; refinement of `Board` | 2 users, 2 names, 2 statuses, 2 items, 3 requests at a time, 5 in all |
| `Categories_reads` | nesting, children and subtree; every step counts and every request is answered | every forest of 5 categories in every order |

Why the bounds are enough. The races are between two handlers over one row: two
users (a victim and another), two requests at a time, and one more token, link or
conversation than a single handler needs make every pair of handlers overlap at
every pair of awaits. Five items at pages of two make three pages with items
deleted, hidden and inserted above and below the cursor. Three files in two posts
make two files of one request compete with each other and with another request for
one name. Three requests at a time let a deletion fall between two crossing toggles,
and five in all let a favourite be turned over again after a race; two names make
namesakes and strangers. Five categories make chains of five, siblings at every
depth and several trees, with children before and after their parents in the rows.
Every bound is a constant in a guard of the action that would exceed it;
`MaxLinks` and `MaxConversations` bound what starts, not what is in flight. The
theorems lift every one of these bounds.

`CHECK_DEADLOCK FALSE` stands in runs whose bounds use up all work (no id is ever
freed: after the last token, message, file or request nothing is left to do; in
`Categories`, once the one request is answered).

Symmetry is used in runs of invariants and action properties only. `Chat_pair`
also checks refinement under symmetry: `PairLog` and the mapping are symmetric in
the users, and its specification states no fairness; the same holds of `Session_race`
and `OpenSessions`, `Upload_posts` and `Gallery`, `Items_race` and `Board`.

### What the violations show

Each is a statement of a comment that the code does not keep:

1. `auth.service.ts:278`, "Check if refresh token is the current refresh token of
   user", and `:261`, "remove the old refresh token and create a new one":
   `bcrypt.compare` reads 72 bytes, and those of a JWT end before `iat`. In the
   counterexample the row's hash has been replaced, and the token it replaced still
   refreshes. Every unexpired token of a user does, as long as the user has a row; the
   TODO at `:302` ("if refresh token was used twice") stands in the branch that such a
   token never reaches. A client that lost the answer of a refresh lives on this: were
   whole tokens compared, it would be logged out.
2. `chat.gateway.ts:78`, "to all message receivers": the participants of a
   conversation just created are not in memory, the first message of a pair reaches
   its sender only.
3. `chat.gateway.ts:70`, "sender automatically read the message": of two messages in
   flight the older mark may be written last.
4. `item.service.ts:204`, "no more items": the row popped to be the cursor is on no
   page, because the next page starts strictly below it.

Two more comments say more than the code does, and passing runs show by how much:
`auth.service.ts:125`, "the email address has not yet been registered" (the check and
the insert are separate statements, and no index makes emails unique:
`DuplicatesOnlyFromOverlap` says that overlapping sign-ups are the only way to a
duplicate), and `azure-blob-storage/blob-client.service.ts:25`, null "if any upload
failed": a thumbnail refused by its status is not noticed, one that throws is
(`ThumbnailsMissOnlyByStatus`).

The passing properties are stated around these, with their exceptions by name:
`SharesEmail`, `MidSignup` and `lost` in `Gated`, the cursors in
`MissedOnlyAsCursor`, the conversation found by id in `ByIdReachesBoth`, `crossed` and
`raced` in `Items`.

### The address of the mails

`sendVerificationEmail(emailAddress)` looks the user up by `emailAddress`, stores a
link for it, and sends that link `to: 'tnguyen09@qub.ac.uk'` (`auth.service.ts:190-205`),
whoever the user is. `Account` does the same: the `to` of every link that was sent is
`Recipient`, which the runs take to be no user's address. So in this code

- no user is sent its own link, unless it has that one address;
- a verified user is one whose link the reader of that mailbox used, and
  `Gated` and `TokensAreEarned` say no more than that;
- `LinksGoOut` and its theorem say that a link of every user is sent out, and nothing
  about where it should go. They are about the handler: the link is made for the new
  user, not lost between the insert and the mail, whatever other handlers do.

No run asks whether links reach their users: the answer is in one line of the source.
A comparison of `to` with the user's email would fail at the first mail.

### Fairness

`Chat_live` assumes weak fairness of each handler's continuation
(`Proceed(r)`): the driver answers every statement and Node runs the continuation.
It excludes faults, as a handler that throws emits nothing. `Account` is checked for
safety only, faults included: `LinksGoOut` names the handler that owes a link, and a
theorem counts the steps that handler has left. Nothing is
assumed of clients: no request has to be made. `Listing_pages` assumes weak fairness
of `Handle`, the client that turns pages and the statements that answer it; items
keep changing at will. `Categories_reads` assumes weak fairness of the one request,
whose steps are loops in memory and rounds of one query.

## Proofs

All for every value of the constants (every set of users, requests and names, every
page size, every bound), from the assumptions the modules name: `None` is
no email, name or mail address, `NoUser` no user, the bounds are natural numbers, the page size is positive. Each module
has an inductive invariant made of named parts, with a lemma or a step per action.

- **`Account_proofs`** - `Typing` proves `TypeOK` with `Refs`, what a request's fields
  refer to at each program counter, without which no action can be typed.
  `DuplicatesNeedOverlap` adds `ChecksHold`: a sign-up past a check knows that no
  row up to the one it saw has its email or name. `GateHolds` is inductive with the
  types; `TokensEarned` follows step by step from it. `UsedLinksDie` adds that a
  verification in flight with its row still there knows whose link it has.
  `NobodyIsForgotten` proves `LinksGoOut`, faults included: what is settled stays
  settled, each step of a handler that owes a link settles it or still owes it, and a
  fault moves the debt to `lost` or `unsent`; the lookup of `createEmailToken` always
  finds somebody, so no sign-up is stuck there. `DebtorsAlwaysAdvance` adds that no step
  of anyone takes the link out of that handler's hands, and that each step of its own
  has fewer left (three at most) or settles it: a link is kept back only by a handler
  that never moves again. Both speak of links sent to `Recipient`, as `Mail` does.
- **`Session_proofs`** - one invariant, `Safe`: types, `Owners` (whose tokens rows and
  requests hold), `FreshIds` (the id a floating upsert may insert has never been a
  row's id), `LoggedOutStaysOut`. `FreshIds` is what makes a late upsert unable to
  revive an ended row. `Implements` takes each step from a `Safe` state: the `Store` that
  finds no row is a `Login` of `OpenSessions`, whose id is fresh by `FreshIds`; the
  `Delete` that finds its row is a `Logout`; a `Delete` that does not has found a row
  another logout already ended (`Closing`).
- **`Chat_proofs`** - `Safe`: types, `Sound` (what a handler relies on about the
  conversation and message it holds), `Once` (no two handlers emit one message),
  `SendersBelong`, `EventsBelong`, and the four invariants. `Implements`: `Save` maps to
  `Post`, `Emit` of a message to `Deliver`, every other step to a stutter.
- **`Listing_proofs`** - lemmas on `ORDER BY id DESC LIMIT n` (at most n rows, the
  highest, all if there are no more than n), then `Safe`: what was shown lies above
  the cursor (`Above`), a stable item below it is still to come (`Ahead`), and how
  rows and count relate when nothing changed between them (`Agree`).

- **`Upload_proofs`** - `Safe`: types, `Named` (a blob holds a file uploaded under its
  name), `FileOK` (rows are of files that came through and were not rejected; a task
  still running belongs to a request in flight or a rejected one), `RequestOK` (what
  each program counter says of the tasks and rows of the request's files), `Apart` (no
  file is held twice) and `LeaksOnlyFromFailures` itself. `Apart` is needed because one
  request's `Reject` or `InsertItem` must not disturb what another still holds.
- **`Items_proofs`** - `Safe`: types with the foreign keys, `Ref` (the owner's check of an
  update, and the name check of a deletion, still hold when it writes), `Fresh` (what a
  request has loaded is still what the tables hold, unless its pair is in `crossed` or
  its item in `raced`), `TogglesFlip` and `StatusAsTold`. `Fresh` is what makes them
  inductive: a handler that writes marks every other that had loaded.
- **`Categories_proofs`** - `IInv`: types, that the table is a forest, `Nesting` (each shelf
  holds, in their order, the children among the rows the loop has passed, and the second
  loop starts with every row stored) and `Growing` (the rows found lie in every set that
  has the root and the children of its own; only children of the frontier are missing,
  and none of them was found yet). No row is found twice because a row has one parent
  and the table no cycle. No induction on depth is needed: the subtree is defined by
  closed sets.

`Chat` and `Session` implement their abstract specifications by the arguments above;
the other two refinements:

- **`Upload_proofs`, `Implements`** - from `Safe` before the step. A flush of blob
  rows is a `Keep`, and no file of a refused post gets a row by `FileOK` and `RequestOK`; a
  `Reject` is a `Refuse`, of files without rows by the same; `InsertItem` is a
  `Publish`, whose pictures have rows and are on no item yet by `RequestOK`, and which
  leaves earlier items alone because its rows of `item_image` are all of the new one.
- **`Items_proofs`, `Implements`** - the late write of a toggle is a `Star` or an `Unstar`
  whatever happened since the load: the insert of `AddFavorite` goes through only if the
  item is there, `RemoveFavorite` of a row that is gone is invisible. An update or a
  deletion of an item that is gone affects no row.

Two theorems are the safety half of liveness, of the specification without faults:

- **`Chat_proofs`, `NothingIsForgotten`** - every saved message has been emitted, or the
  handler that saved it holds it between `Save` and `Emit`; and `FindRow`, the one step
  there that can stop a handler, finds the row of the sender. What separates this from
  `SavedIsEmitted` is again the handler's next steps, which `SendersAlwaysAdvance` counts.

Two more are the reasons why the loops end: `PagesGoDown` (with `Falling`: cursors and
what is shown lie above the page being read) and `StepsCount`, a step of a request of
`Categories` reaches a later stage or strictly shrinks `Ahead`.

Model-checked only: the leads-to properties themselves (`SavedIsEmitted`,
`PagingEnds`, `AnswerComes`). Each would follow from the theorems above,
weak fairness of the handler and the fact that its next step is enabled; `ENABLED` and
leads-to under fairness are beyond the provers used. The four disagreements are
counterexamples, which are TLC's to find.

## Not modelled

- Paging by limit and offset, unread and conversation lists, items by id: single
  read-only requests. Unread enters `Chat` as the predicate of the query.
- The flag `isFavorite` and the lists and counts of favourites: single reads of the
  table that `Items` keeps.
- Profile updates: a flush writes the columns that changed, and those of the profile
  (campus, pickup point, name, text) no other operation writes.
- A listing request without a limit (`me/items` makes one): it gets all rows and no
  cursor, so there are no pages; `Limit` is a positive number.
- Conditions, market, universities: lookups of tables nobody writes.
- The socket adapter and guards: one check of a token, without shared state. That an
  access token stays valid until it expires, whatever happens to the user's session,
  is in `Account` (`Authenticated`, from `holders`) and `Session` (`access`).
- The OAuth2 token file is written and never read (`email/email.service.ts` takes the
  token from the configuration). Migrations run before the server starts; the keys
  they make, and do not make, are what the tables of the models obey.
- Deleting an item with its pictures: the rows of `item_image` were loaded with it and
  go in the same flush (`Cascade.REMOVE`), and nothing adds a picture to an item that
  exists; blobs and their rows stay, which `deleteItem` does not touch. `Upload` follows
  items to their creation only.

## Plan

To prove next: that the properties of `Account` come from an abstract specification of
the gate, as those of `Chat`, `Session`, `Upload` and `Items` do from theirs; and for
`Session`, that a floating upsert is the only thing a login still owes after its answer.

To model next are parts whose state only one operation writes: the profile
(`updateUser`, whose campus must be one of the university of the user's email), and
listing by limit and offset, a single request whose pages shift with every change of
the list. Should the code get an update of pictures of an existing item, `Upload` and
`Items` have to be composed; until then they share no table that both write but `item`,
by insert in the one and by id in the other.
