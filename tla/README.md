# Formal model of ZhuoStack

TLA+ models of the parts of ZhuoStack (a NestJS API over PostgreSQL and Redis,
and a Next.js client) whose correctness depends on the order in which
concurrent handlers, commands, clicks and failures happen. TLC checks small
instances; TLAPS proves the main safety properties for every value of the
constants.

Run a configuration with `tlc -workers 2 -config SessionSafety.cfg MCSession.tla`
and a proof with `tlapm SessionProofs.tla`. `PROJECT.json` lists the components
with their status, the runs, for each definition the source lines it stands for,
the hazards with their lines and the properties that cover them, and for each
property a mutant of the code that breaks it.

## 1. The system

The API is stateless: any number of instances share one Redis and one database.
A handler is an async function, so between two of its commands any other
handler, of the same or another instance, may run. Redis commands, Lua scripts
and single SQL statements are atomic; sequences of them are not. Critical Redis
operations throw a 503 on failure (`redis.service.ts:75-79`); nothing is rolled
back. `ioredis` sends unfulfilled commands again after a reconnect
(`redis.service.ts:20-50`), so one logical write can take effect twice. The web
client runs on one event loop per browser tab; tabs share cookies and local
storage, and an answer arrives when the page that asked may show something else.

| Component | State it keeps | What is hard | What makes it correct |
|---|---|---|---|
| Sessions: `auth.service.ts`, `session.service.ts`, `jwt.strategy.ts` | Redis: `token:active`, `auth:refresh`, `online:user`, `kicked:user`, `token:blacklist` per user; the user row | every command is its own step; renewals and logins race revocations; failures half way; resent commands; time to live | a refresh token is exchanged once; a logout is final; no online record comes back; a deleted account is forgotten |
| Login guard: `auth.service.ts:67-215,449`, `system-jobs.service.ts:148-190` | `captcha:<id>`, `login:attempts:<email>`, `login:lock:<email>` | many logins pass the lock before one counts; INCR and EXPIRE are two commands; a job deletes counters | a captcha is used once; guesses per period are bounded |
| Rate limiting: `redis-throttler.storage.ts` | a counter and a block per client and route | two lives that end independently; a count whose answer is lost | a bounded rate, and no block for what was not done |
| Files: `file.service.ts`, `file-storage.service.ts` | rows of `SysFile`, objects of a local, OSS or COS storage | no transaction spans row and object; batches that fail in part | no bytes without a row after a removal; rows and bytes agree when nobody works on them |
| Upload handlers: `file.controller.ts:78-214` | temporary files | a save that is not awaited; an `unlink` that fails | a temporary file is gone at the answer unless its own `unlink` failed, and not too early |
| Notifications: `notification/*` | announcements, messages, per-user reads, a cached unread count | checks and writes in two statements; a fill of the cache against its invalidation; retention | the count agrees with the rows; a revocation is final; what a user read stays read |
| Push: `notification.gateway.ts`, `use-notification.ts`, the drawer and its store | the gateway's subjects; the tab's EventSource and list | two ends that notice a break at different times; a list filled from two sides | streams belong to open connections; events reach their addressee; the list follows the server, but for deletions, which are not pushed, and second publications |
| Master data: dict, menu, dept services | rows and `cache:` keys; the menu and department trees | a reader fills a key after a writer cleared it; checks on a tree that moves | no write forgets a cached key; no department or user hangs below a department that is gone; the menu tree stays whole where no stale dialog moved a menu |
| User administration: `user.service.ts` | user rows, role and post links | two administrators demote each other | an administrator remains (by role: a user row has no status) |
| Web API client: `api-client.ts`, auth and progress stores | `refreshPromise`, `isRedirecting`, the progress counter, the sign-in state | several 401s at once, retries that fail, tabs that rotate each other's cookies | a token is presented once; sign-out only when the session ended; the bar ends |
| Page tabs: `tabs-store.ts`, `page-tabs.tsx`, `route-progress-bar.tsx` | the tabs, the active one, the navigation under way | a tab is closed while another page is loading | the active tab is the page on display |
| Edit dialogs: role, user and menu pages, `file-upload.tsx` | the form, its requests and uploads in flight | an answer that belongs to a dialog closed meanwhile | a form holds what was loaded for its row |

How they interact: the web client calls the API and reacts to a 401 with one
shared renewal; the guards call `JwtStrategy.validate` before each handler;
`UserService` and `MonitorService` call `AuthService.revokeUserSessions`;
`AuthService.login` passes the login guard and then establishes a session; the
upload handlers call `FileService`; `NotificationService` writes rows, then emits
events that the gateway pushes to the tabs; the clean-up jobs touch keys of the
login guard and rows of the notifications; the pages edit rows that other
administrators edit too.

## 2. The modules

| Module | What it models | Checked from | Proofs |
|---|---|---|---|
| `SessionRegister` | abstract: who may make requests and who may renew | `MCSession` | `SessionProofs` |
| `Session` | the sessions of one account, command by command; refines `SessionRegister` | `MCSession` | `SessionProofs` |
| `LoginGuard` | captcha, failure counter and lock of one e-mail, and the clean-up job | `MCLoginGuard` | `LoginGuardProofs` |
| `Throttler` | the rate limit of one client on one route | `MCLoginGuard` | `LoginGuardProofs` |
| `FileStore` | rows and objects under upload, edit, removal and batch removal | `MCFileStore` | `FileStoreProofs` |
| `Upload` | the temporary files of `upload` and `uploadImage` against their saves | `MCFileStore` | `FileStoreProofs` |
| `Menus` | the menu tree, the dialogs that edit it, and the sidebar made from it | `MCFileStore` | `MenusProofs` |
| `EditDialogs` | the dialogs of the role and user pages over rows others edit too | `MCFileStore` | `AdministrationProofs` |
| `Inbox` | abstract: what a user opened and dismissed is remembered | `MCNotification` | `NotificationProofs` |
| `Notification` | the service and its clean-up job, statement by statement; refines `Inbox` | `MCNotification` | `NotificationProofs` |
| `Stream` | gateway, event stream, and the list in one tab | `MCNotification` | `NotificationProofs` |
| `WebClient` | the interceptors, the progress counter and the sign-in state in the tabs of a browser | `MCWebClient` | `WebClientProofs` |
| `Tabs` | the tab store against the router, and the navigations in the progress bar | `MCWebClient` | `WebClientProofs` |
| `Dictionary` | dictionaries with their cache | `MCAdministration` | `AdministrationProofs` |
| `Departments` | the department tree and the users in it | `MCAdministration` | `AdministrationProofs` |
| `Accounts` | roles under serializable transactions | `MCAdministration` | `AdministrationProofs` |
| `DataInduction` | lemmas: induction over numbers, and that a recursion has a solution | | itself |

The `MC` modules take several modules that share no variable. Their
specifications are unions, not products: each module takes its steps while the
others are in an initial state. Where two of them do touch each other in the
code, both model the point of contact: `Upload`'s `PutFile` and `SaveRecord` are
`FileStore`'s `Put` and `CreateRecord`; `WebClient`'s server does with a pair of
cookies what `Session` proves of a session; `Stream`'s `Create`, `CheckStatus`,
`Store` and `Delete` are the statements of `Notification` that change what is listed; any set of menus can be granted in `Menus`, which is
what `EditDialogs` saves.

Common conventions: one action per command, statement, answer or click, in the
order of the handlers; variables commented as *history* are read by no guard and
record what a property needs to know of the past. Abstractions worth knowing,
module by module:

**Session.** One account: every key carries the user's id and nothing compares two
users. A *session* is what one call of `establishSession` issues, a jti and a refresh
hash. `BeginX` is the arrival, then `Unkick`, `SetRefresh`/`Rotate` (the compare-and-set
script), `SetActive`, `SetOnline`, `Respond` for the issuing operations; `CheckUser` ...
`RefreshOnline` for `JwtStrategy.validate`; `DelActive`, `DelRefresh`, `DelOnline`,
`SetKicked`, `BlacklistToken`, `Return` for a revocation, whose DELs run in that order on
one connection but are not atomic. With `Resend` a write may take effect, lose its reply
and be sent again; with `Lossy` a request may end after any command. Expiry may
happen at any time. A session id is reserved when the request arrives and used
again only when nothing refers to it, which bounds the state space. Chosen
freely: whether the typed password is right, whether `remove` is refused for the
last administrator, whether this instance refreshed the online record lately.

**LoginGuard.** One e-mail; a captcha is its Redis slot. `known` says whether the e-mail is a
user's and may toggle. `wrong` counts the wrong passwords compared since the last
reset, `lost` the failures that a fault left uncounted, counted without the lock
they called for, or that the clean-up job deleted. A resent INCR counts twice and its
reply is never 1, so it sets no TTL. The job reads a TTL and deletes later.

**Throttler.** Time passes in ticks, and a key lives for a number of them. The script is one
step; its answer may be lost (`LoseCount`), which counts a request in vain.

**FileStore.** A file is one id with one storage key. A removal hides all rows of the
batch, deletes the objects concurrently, deletes the rows of the successful ones and
shows the others again. Any call may fail; with `Lost` a failed call may have taken
effect; with `Crashes` an instance may stop. `torn`, `abandoned` and `shelved` mark
the files that met a fault, whose hidden rows could not be deleted, or that an edit
set to INACTIVE, which no request finds again. Owner checks, names and digests are left out.

**Upload.** `handler` is what the request handler waits for, `save` what the save it
started waits for. `upload` awaits the save in its `try` block; `uploadImage` returns the promise
without `await` (`file.controller.ts:202`), so its `finally` block unlinks beside it. A save that
rejects while the handler is unlinking has no handler attached; the repository has no
`unhandledRejection` listener and Node stops the process: all uploads end. An `unlink` that fails
other than by `ENOENT` is thrown again (`file.controller.ts:153-155`, `210-212`): the request is answered with that
error and its file stays. `left` names these requests; for a picture whose save still runs,
the save is then awaited by nobody (`gone`), and stops the process if it rejects.

**Menus.** Nothing on the server keeps a menu from moving below itself; the page leaves the
menu and its descendants out of the places it offers, in the tree it was loaded with.
A desk is an administrator's open dialog, or a removal past its check; it takes its
view of the tree when it opens. "顶级菜单" (top level) is sent as no field, which
the service takes for no change (`ParentSent`). What a recursion or a loop of the code reaches
is the least set closed under its step: `Grown` for `buildTree`, which starts at the top and
so never enters a cycle; `Upwards` for the `while` loop of `getUserMenus`, whose test for ids
that are there already also ends it in a cycle.
`UserMenus` applies it to the granted ids one after the other.

**EditDialogs.** One of the two pages is open. Opening a dialog asks for the row's links; nothing
ties the answer to the dialog on screen when it comes. `sure` is what the administrator
clicked and chose, as long as he waited for every answer; after an impatient click it
is unknown. The role page opens its dialog with the answer, the user page at once. A
stored picture calls the `onChange` of the render in which it was chosen, which brings
back the form of that moment. A new user's links are not sent.

**Notification.** One user: reads, messages and the count carry his id. `getUnreadCount` reads three
numbers in three statements and stores the sum; `late` marks fills whose numbers have
changed since, `stale` a cached count that was written late or lost its invalidation.

**Stream.** Both ends of a connection learn of a break late. A broadcast follows the write it reports,
and that follows the check of the status: `job` says which request is where. So two
administrators can publish one draft and push it twice, or publish over a revocation; `again` names the
announcements to which that has happened. Deletions (`removeAnnouncement`, the clean-up job, the owner of a
message in another tab) push nothing, so an open tab keeps what is gone until its next load.
`updateAnnouncement` changes texts only and pushes nothing. The list is a number of copies per notification; what
the user hides or deletes in this tab and lists longer than one page are left out.

**WebClient.** What an answer triggers up to the next await is one step. A *generation* is the
pair of cookies one login or renewal issues; the server accepts one at a time. Calls and
renewals may be lost at any point (`LoseCall`, `LoseRefresh`); a call of a live session may be
refused with a 401 because the server cannot decrypt the password it carries
(`CannotDecrypt`, `rsa-key.service.ts:118`), which the interceptor takes for an expired
session. `crossed` records that one of the named ways to lose a live session has happened.

**Tabs.** A navigation takes a while and the next one replaces it. A tab is its page.

**Dictionary, Departments, Accounts.** Statement by statement. A cached copy is fresh or old; a
write makes copies old that are cached or on their way to the cache. `Outdate` separates the
keys a write makes wrong from those it is excused from deleting (`missed`), and every write names
the latter: none for `create`; for `update` and `remove` the data of a code that another request has given the
dictionary since (`GivenAnotherCode`); for the entries the other dictionary they are or were in
(`Uncleared`). That last one needs no race: `UpdateDictDataDto` takes a `dictId`, and `updateData` clears only the
dictionary it found the entry in (`dict.service.ts:261`), so the one it moves the entry to shows its old content until
its keys expire. (The page creates and removes entries; only the API edits them.) A copy that a writer has overtaken is excused only
when it is stored after the last deletion of its key. A foreign key is
set to null when the row it names goes. A transaction whose reads another one has
overtaken fails (`isolationLevel: Serializable`). Menus and departments keep their caches
in the same way as dictionaries.

## 3. The runs

| Run | Instance | What it shows |
|---|---|---|
| `SessionSafety` | 2 requests, 3 sessions; register, login, refresh, kick, password change and reset; faults, resends | `SessionInv`, `OneRotation`, `LogoutIsFinal`, `RefreshChainEnds`, `NoGhostOnline`, refinement `ImplementsRegister` |
| `SessionLiveness` | 2 requests, 2 sessions; faults; fairness; no symmetry | `DeletedIsForgotten` |
| `LoginGuardSafety` | 2 logins, 2 captchas, limit 2, 5 counts, 2 lost failures; the limiter with 2 requests in 3 ticks | `GuardInv`, `CaptchaOnce`, `GuessesAreBounded`, `RateIsBounded`, `BlockIsEarned` |
| `FileStoreSafety` | 3 requests, 2 files, crashes and lost replies; 3 uploads; 3 menus, 2 desks; 2 rows with 2 links, 2 requests for links | `NoBytesWithoutRow`, `Settled`, `TempFilesAreRemoved`, `FilesOutliveTheirSave`, `TreeIsWhole`, `SidebarIsComplete`, `FormIsOwn` |
| `NotificationSafety` | 2 requests, 1 announcement, 1 message; 2 connections, 2 accounts, 2 senders, 1 notification | `NotificationInv`, `CountIsCurrent`, `StaysRevoked`, `AllAreRead`, refinement `ImplementsInbox`, `StreamsRegistered`, `EventsAreOwn`, `ListFollows` |
| `WebClientSafety` | 1 tab, 2 calls, 3 generations, faults; 4 pages | `WebInv`, `BarEnds`, `RetriesAreRenewed`, `NoTokenReuse`, `LiveSessionKept`, `CallsSettle`, `TabsKept`, `ActiveIsShown` |
| `AdministrationSafety` | 2 requests at a time; 2 dictionaries, 2 codes, 1 entry; 2 departments, 2 names, 1 user; 3 accounts | `CacheIsCurrent`, `NothingDangles`, `SiblingsDiffer`, `RemovalIsChecked`, `AdministratorsRemain` |
| `SessionRevocationRace` | 2 requests, 2 sessions | refutes `RevocationIsComplete` |
| `UploadImage` | 1 upload | refutes `PicturesOutliveTheirSave` |
| `StreamHeartbeat` | 1 connection | refutes `HeartbeatKept` |
| `RouteProgress` | 3 pages | refutes `RouteEndsProgress` |
| `NewUserDialog` | 1 row, 2 links | refutes `NewRowsAreAsFilledIn` |

**Bounds and why they suffice.** Two requests are enough for every race of two
handlers; each Session property compares at most two sessions, and the third lets a
renewed session be replaced while its own renewal is in flight. `Offered` and
`MaxPassword` bound the operations and the password versions. The guard's limit is 2, so
that counts below and at the limit happen; `MaxCount` 5 lets the counter pass the limit by
resends and races; the bound of `GuessesAreBounded` is tight. The limiter's counter lives 3
ticks and so does a block, so one can outlive the other; `MaxLate` counts the requests in vain. Three
requests let two removals of one file meet an edit; two files make a batch that fails in
part. Three menus make a cycle of two with something below it, two desks a dialog that
another one overtakes. Two rows and two requests in flight let an answer meet a later
dialog; one picture and one save are under way at a time. One announcement and one
message are enough for a count of two kinds. In `Stream` two senders publish one draft twice, or publish over a
revocation; one notification is enough, as nothing relates the events of two but their order on the wire, and
`ListFollows` speaks of each by itself. In `WebClient` two calls share a renewal or
miss each other's. TLC has one tab: what is proved, `LiveSessionKept` with it, holds for any number of them, while
`CallsSettle` is checked without another tab that replaces the cookies. Three pages beside the dashboard let tabs be closed left and right of the active
one; `MaxMarks` bounds the navigations counted in the bar. Three accounts let two administrators
remove each other and leave one.

Only `FileStoreSafety` allows deadlock: ids are used once, so a small instance can come to
rest with all files deleted or all menus in a cycle, which the page cannot open.

**Fairness.** `SessionLiveness`: each running handler takes its next step (the event loop resumes
it when the reply arrived or failed), and Redis expires `token:active`, `auth:refresh` and
`online:user`, which are always written with a TTL. No request has to arrive, nothing has to
fail, and neither the kick mark nor a blacklist entry has to expire. Without the expiry the
property fails: a login that read the user row before the deletion writes its keys
after it. `WebClientSafety`, for `CallsSettle`: a call or a renewal that is out is answered or lost
(axios gives up after ten seconds, `api-client.ts:65-73`), and what an answer has made due
runs. The user does nothing he does not want to.

### Where the code and its comments or texts disagree

Five claims are refuted; `PROJECT.json` quotes them with their lines.

1. *All current sessions are revoked* (`auth.service.ts:479`). A renewal that has
   exchanged its token activates its session after the revocation. The session
   that logged out itself stays out (`LogoutIsFinal`), and its chain cannot be renewed
   (`RefreshChainEnds`): what survives lives at most as long as one access token.
2. *The picture is saved from the temporary file* (`file.service.ts:317`). `uploadImage` unlinks it
   while it is still to be read.
3. *A heartbeat every 30 seconds keeps the connection* (`notification.gateway.ts:49`). It ends with the first
   event pushed.
4. *When the route has changed, the navigation's progress ends* (`route-progress-bar.tsx:13`). Two clicks
   are counted twice and taken off once.
5. *Fill in the user's information to create the account* (`user/page.tsx:316`). Department and role are
   offered and not sent.

## 4. What is proved

Every safety property that a passing run checks is also a theorem. TLAPS checks the
theorems for any sets and bounds that satisfy the modules' `ASSUME`s:
`None` and its like are outside the sets they stand beside, bounds are naturals, switches
Booleans; `Request` of the guard, `Account`, `Tab` and `Call` are finite; the guard's limit is at
least 2 (the code's is 5); `Menu` is finite, a block lasts at least as long as a counter. Each
property is derived from an inductive invariant, but `SidebarIsComplete`, which holds of any rows.

**SessionProofs** (`SessionInv`). `LogoutIsFinal` is not inductive alone: between `DelActive` and `Return`
another request could write the same session again. `MintsAreNew` says that what a request is
about to write is in nobody's hands, `TokensWereDelivered` that what is presented is; so
`SetActive` never writes a session that is ending. `RefreshChainEnds` needs in addition that only `Rotate`
continues a chain and requires the stored token to be of it. `OneRotation` needs that an
exchanged token is not the stored one. From it: types, the four properties, and the
refinement of `SessionRegister`.

**LoginGuardProofs** (`GuardInv`). An accounting argument: while there is no lock, each wrong guess is
counted below the limit, owed by a request in flight or lost; when the lock is set, the
requests that passed it before are disjoint from those that owe, so together they are at
most `Cardinality(Request)`. The limiter (`ThrottlerInv`): a counter has seen, of what was let through,
all since it started and less than the limit before, so any `Ttl` ticks see less than the limit
twice; a counter above the limit is outlived by the block, so a block does not begin twice
with the same requests. `Within` sums a window of ticks; how one more request and one more
tick change the sum is proved by induction.

**FileStoreProofs** (`FileInv`). Nobody else touches a file before it has a row; deleted bytes do not
come back, as keys are used once; for each half-finished state a request answers for it.
`UploadInv`: types, where the handler of a plain upload is while its save runs, and that a request
in `left` has been answered.

**NotificationProofs** (`NotificationInv`). A fill that is not late holds numbers that are still right
(cardinalities of sets that change by one element); who is about to publish found a
draft; what `markAllAsRead` owes is read or in its list. From it the three properties and the
refinement of `Inbox`. For the push stream (`StreamInv`): subjects are the open connections; the events on the wire are for the account
logged in; who is past a check found a draft or a published announcement (`EventsAreOnce`); the list plus what is on
its way equals the server's list, but for what was deleted or published again.

**AdministrationProofs** (`DeptInv`, `DictInv`, `AdministratorsRemain`, `DialogsInv`). The foreign keys keep
departments and users from naming a department that is gone (cycles they do not exclude, see section 5), and what a request has looked at still holds unless another write has
overtaken it; each key a write makes old is among those it goes on to delete or
is excused by name (`RowKeysCover` for rows), and a change of the code leaves no earlier promise unkept;
two transactions that read the same administrators cannot both commit; while the
administrator waits, every request and picture in flight is for his row.

**WebClientProofs** (`WebInv`). `RenewalsAreAwaited`: a renewal in flight and its waiting calls come and go
together. `PairsAreNew`: cookies on their way are in no jar, no call and no page's memory, so
what is repeated has new ones (`RetriesAreRenewed`). `PresentedIsReplaced`: the jar holds what a page
has presented only while that renewal is under way (`NoTokenReuse`). `BarEnds` by the
cardinality of `Outstanding`. `LiveSessionKept` is an action property; its invariant `LiveInv` says, as long
as none of the named causes has occurred, what an answer on its way proves of the
server's session now: a refused call, that the access token has expired or its cookies are void; a
refused repetition or renewal, that they are void (`AnswerTells`, `RenewalTells`). For that one
renewal at a time is under way (`OneRenewal`), and while a call is repeated the jar holds the
cookies it carries and no others are on their way (`RetriesHaveTheJar`). (TLC checked it with
two tabs of one call, and with one tab of two, before it was proved; the run checks the property.)
The tabs (`TabsInv`): what filtering a list of tabs leaves is proved by induction over the list.

**MenusProofs** (`MenusInv`). The rows' parents are rows or the top; a dialog that no move has overtaken
offers no place below its menu (`OptionsAreElsewhere`); every cycle holds a menu moved by an
overtaken dialog (`CyclesAreOvertaken`). A move changes the ways up only through the menu it moves, so a
new cycle passes it, and it would have to be below its new place before. From a menu that is
not in the tree the way up ends in a cycle, as there are finitely many. `SidebarIsComplete`: after `n`
granted ids, every id but the granted ones still to come has its parent among the ids
(`Completed`), although each walk stops early; a way through a finite set, each
element once, is all of it.

**DataInduction.** The library's induction theorems take the property as an operator; here it is a set,
and a recursion is given by the functions it is made of. With these lemmas recursive functions are
within reach: `Within`, `Filtered` and `UserMenus`.

Only model-checked: the liveness properties `DeletedIsForgotten` and `CallsSettle`, out of the
prover's reach, and the refuted claims.

## 5. Not modelled, and why

- **Presentation.** Wording, formatting, filters, paging, expanding trees, generated API code, dialogs
  that edit one field. The list pages ask again after their own command and may show what
  somebody else has changed until they do; a selected file that another administrator
  removed makes the server refuse the whole batch (`file.service.ts:502`), which the user can only
  see by unticking it. The department page offers a department's own descendants as its parent;
  `DeptService` takes them, as `Departments` does.
- **Last writer wins.** Two administrators who save the same row overwrite each other; no claim of the
  repository says otherwise. `WriteElsewhere` of `EditDialogs` makes it happen.
- **Decisions without state.** DTO validation, the permission and role guards, CSRF and CORS.
  (`PermissionsGuard` counts active roles only, `getUserMenus` also disabled ones.)
- **Cryptography.** JWT, bcrypt, RSA. The key pair is fixed at start in production; the public key
  cached by a page shows in `CannotDecrypt` only.
- **I/O and logs.** Server metrics, health checks, the AI proxy, operation and login logs, job logs: nothing
  reads them back to decide. Starting and stopping a job is an in-process switch.
- **Database constraints.** Uniqueness of e-mails, codes and names of roles and posts is kept by unique
  indexes; the removal checks of roles and posts follow the pattern of `Departments`.
- **The seed script and deployment files** run before the system does.

Three hazards are listed without a property: the unread count is computed from all reads of announcements, those of
revoked ones too (`notification.service.ts:201`), so a new announcement may not be counted; a failure counter that never got a TTL because
the instance stopped between INCR and EXPIRE (`redis.service.ts:191`), which only the clean-up job ends, and a local file removed between the
answer's header and the opening of its stream (`file.service.ts:476`), which ends that one download.
