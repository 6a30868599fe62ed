# Verification of Products.SQLUserWizard

TLA+ modules that model the parts of `src/src/Products/SQLUserWizard` in which
several requests, two kinds of storage and the clock meet; TLC configurations
that check them on small instances; TLAPS proofs of what matters most for
every value of the constants. File names without a directory below are those
of that package.

## The system

The product puts a folder of a Zope application under SQL-backed users: a
wizard installs a Pluggable Auth Service (PAS) with a SQL plugin, a session
helper, a login controller, an administration page and the Z SQL Methods they
call. An optional extension adds invitations. Two stores meet everywhere:

- **SQL**, reached through Z SQL Methods. Every call is one statement. With a
  connector that stays outside the Zope transaction (OpenODBCDA) a statement
  outside an explicit transaction is committed at once and survives the failure
  of the request; with an adapter that joins the transaction it is committed
  with the request.
- **ZODB**, for sessions, login attempts, used codes and the installed objects.
  A request reads it as of its start; its changes are committed together at its
  end, merged key by key for BTrees, or conflict and are lost.

### Inventory

| Component | State | Operations | Hard behaviour | What makes it correct |
|---|---|---|---|---|
| Session helper (`sessions.py`) | `_sessions`, `_attempts`, `_used_codes` BTrees | issue, revoke, `_record`, extract/resetCredentials | concurrent requests with one cookie; expiry; a record is bound to row *values* | an accepted cookie stands for someone who proved the present password and second factor |
| Login controller (`login.py`) | none of its own | `index_html`, `enroll`, `logout` | several statements with other writers in between; fallback store | the same, through chains of login and enrollment |
| Self-service 2FA (`admin.py` `my_2fa`) | none of its own | reset, confirm, disable | reads and writes back the requirement; codes not consumed | only an administrator lifts "Require 2FA" |
| Authenticator codes (`totp.py`, `sessions.py`) | used codes with an expiry | verify, consume | clock against retention; requests that overlap | a code is accepted once |
| User administration (`admin.py`, `sqladmin.py`) | users, profiles, roles, user_roles tables | save user, delete user, save role, own profile | saves of several statements that stop half-way or meet; forms older than what they change; MySQL's upsert | no half-saved state lets anybody in; no id keeps what an earlier user had; roles come from forms |
| Invitation API (`provisioning.py`, `invitation_sql.py`) | pas_invitations, invitation roles | create, inspect, list, complete, rotate, revoke, record/deliver | claims, expiry, locks, rollback, connector kinds | an invitation makes one account, once, with its present secret |
| Attempt limiters (`sessions.py`, `provisioning.py`) | ZODB BTree; per-process ordered dict | allow, check | windows, capacity, aborted requests, time read before the lock | a bound on attempts in any stretch of time |
| Installation (`installer.py`, `schema.py`, `invitation_install.py`, `wizard.py`) | PAS objects, manifest, SQL schema | install/repair, enable invitations | DDL that outlives a rollback; catalogue check against creation | no foreign table is adopted, no custom SQL overwritten |
| Startup upgrade (`upgrade.py`) | manifest revision, `_sqluw_upgrade_error` | upgrade_tree, upgrade_folder | a failing folder must not stop the others | a folder is upgraded or blocked, never half of each |
| SQL templates (`dialects.py`, `config.py`) | none | text of each statement | dialects differ in upsert | the same effect on every database |
| Request protection (`security.py`) | browser CSRF cookie | csrf_field, require_post, safe_redirect | | POST with the browser's token only |
| Profile fields (`profile_fields.py`) | definitions (ZODB), JSON column | define, remove, collect, dump | definitions that change under an open form; read, merge, write back | stored values change only to what was entered |
| PAS scripts, passwords, pages (`pas.py`, `password.py`, `qrcode.py`, `styles.py`, `browser.py`, `compat.py`, `invitation_examples.py`) | none | adapters, encodings, rendering | | |

The components meet as follows. PAS asks the session helper for credentials and
then the SQL plugin to authenticate them; both call `_record`, which reads the
users table. The login controller and `my_2fa` read and write the users table
and then issue a session bound to a fingerprint of the row. The administrator
writes the same rows at any time. A completed invitation inserts a row there
and calls `save_sql_user` like the administrator. Installation and upgrade
create the objects the others are.

## Modules

| Module | Models |
|---|---|
| `SessionAuth` | sessions, login, enrollment, 2FA page, administrator, fallback store |
| `TotpReplay` | acceptance and replay of authenticator codes in time |
| `InvitationLedger` | abstract: what invitations promise |
| `Invitations` | the invitation API on its SQL contract; implements `InvitationLedger` |
| `UserAdmin` | users, roles and profiles in all four tables, profile fields, repair's seeding |
| `FixedWindows` | abstract: what an attempt limiter promises |
| `AttemptLimits` | the two attempt limiters, in process memory and in ZODB; implements `FixedWindows` |
| `SetupLedger` | abstract: what installation and upgrade promise of the folders |
| `Installation` | install, repair, enabling invitations, startup upgrade of all folders; implements `SetupLedger` |
| `MC*` | instances and symmetry for TLC |
| `*_proofs` | inductive invariants and theorems |

In every module the local state of a request is a record in `req`, whose `pc`
names the statement or commit it executes next; a comment above each action
names the code. Definitions marked "Mutant" are deliberately wrong variants of
the definition below them. They are used by no specification; putting one in
the place of its original makes the property it belongs to fail.

### SessionAuth

`rows` is the users table, `fallback` the ZODB fallback store, `sessions` the
BTree of the helper, `expired` the tokens whose time has passed. One action is
one SQL statement of a request (`LoginSql`, `LoginRequire`, `EnrollRead`,
`EnrollWrite`, `TwoFactorRead`, `TwoFactorPolicy`, `TwoFactorWrite`, `Refetch`)
or of `save_sql_user` (`AdminCreate`/`AdminUpdate`, `AdminPassword`,
`AdminTwoFactor`), or the ZODB commit of a request (`Issue`). `Abort` and
`AdminFail` end a request anywhere, keeping the statements done so far.
`history` remembers for each token what its holder has presented, along the
chain of requests that led to it; `overlapped` remembers the requests during
which another actor wrote their user's row. Both are only read by properties
and by the history of later tokens.

Abstractions: a stored password is a model value, and whoever presents it knows
the password. A salted encoding is new each time; a plain one (`password.py:16`)
may be an earlier one again (`Encodings`, with `Plain` for the values that are
passwords as entered). The fallback store takes any value (`FallbackPassword`):
a new one from ZODB's password form, or the stored value of a parent folder's
user, which repair copies as it is (`installer.py:348-395`, `570-591`), together
with the login, which need not be the user id. That import is one step, for one
user; the search through parent folders is left out. The fingerprint is the
tuple it digests; a code is named by its secret; normalising a secret is the
identity on secrets already normalised; there is one administrator at a time;
expiry may happen at any moment; a request takes its ZODB view with its first
statement, since an older view only loses its commit. Attempt limits and
capacity only prevent requests and are covered by requests that do not start.
The statements are atomic and visible at once, as with OpenODBCDA; adapters at
READ COMMITTED add no protection to the sequences of reads and writes that the
findings show. The MySQL upsert that fires on a duplicate login is in
`UserAdmin`, not here.

- `AuthenticatedKnowsPassword`, `AuthenticatedHasSecondFactor`: an accepted
  cookie stands for someone who has proved the password, and the second factor,
  that the row holds *now*; through renames, swaps of logins, deletion and
  re-creation of a user id, half-finished administrator forms. The exception,
  another writer in the middle of a request of the chain, is the hole the run
  `oldpassword` shows to be real.
- `PasswordChangeRevokes`: no session outlives a change of the password behind
  it, whatever the new password is, and a password that has not been stored
  before lets no session in. One that *returns* does: after plain `h1`, `h2`,
  `h1`, or an import of an earlier value, a session stamped with `h1` is accepted
  again, by the change itself. The run contains both cases; sessions are bound to
  values, not to versions of the row (see `revival` below).
- `RequirementKept`: a user's own request never lifts "Require 2FA", with the
  same exception (the written-back value may be stale).
- `ExchangedOnce`: a cookie is exchanged for at most one newer session.

### TotpReplay

`Verify` is the arithmetic of `verify_totp_code` on counters of periods;
`_consume_otp` works on the request's view of the BTree (`Consume`), and the
commit merges it (`Commit`). `my_2fa` verifies but does not consume.
`CodeAcceptedOnce` holds because a code is remembered for 120 s and accepted
for 90 s: that leaves a request 30 s between verification and commit. The
constant `Stall` names this assumption; with `Stall = 2` half-minutes TLC finds
a code accepted twice, so it is tight.

### Invitations

`inv` and `users` are the committed tables. A completion keeps its uncommitted
writes in `req`; the rows it has written are locked (`RowFree`, `AccountFree`,
`RoleFree`) until it ends, and a statement that waits for a lock evaluates its
WHERE clause on the row it then finds (READ COMMITTED). `autocommit` is chosen
at the start and covers both kinds of connector: rotation and revocation commit
with their statement, or with their request. A failed check anywhere, or
`Abort`, rolls everything back. Profiles, e-mail and the delivery columns are
left out: no condition of the modelled operations reads them. An administrator's
save or deletion is one step here; `UserAdmin` and `SessionAuth` have its
statements.

The refinement mapping to `InvitationLedger` reads the status of an invitation
off its row, in the order accepted, revoked, open, and the existing accounts
off the users table. The ledger accepts an invitation together with a new
account or not at all.

- `LedgerSpec`: the refinement.
- `CompletedWithCurrentSecret`: no account for a secret that a rotation has
  replaced, whichever came first to the row.
- `RevocationAnswer`: "revoked" is final and "not revoked" means accepted,
  although the answer is read after the update has been committed.
- `AcceptedInTime`: the acceptance is before the expiry, although the claim
  compares an older time.
- `NoCircularWait`: no set of requests waits in a circle for each other's locks
  (`Blocks` says what each statement waits for). `complete_invitation` saves its
  roles sorted (`provisioning.py:84`); saved as they are listed, two completions
  with two shared roles can wait for each other.
- `EveryRequestEnds`: with two shared roles completions end.

### UserAdmin

`rows` (the login of each user), `profiles` (the JSON column), `assigned` and
`catalogue` are the tables users, profiles, user_roles and roles; `definitions`
is the list of profile fields in ZODB. A request of `req` is a user form
(`manage_main`), a user's own profile page, a deletion or a repair. A form is
opened (`OpenUserForm`, `OpenProfileForm`) with the enabled roles and active
fields of that moment, and sent at any later one (`SubmitUser`,
`SubmitProfile`). From then on one action is one statement: `UpdateUser` or
`UpsertUser`, `ClearRoles`, `SaveRole` and `AssignRole` for each role,
`SaveProfile`, `CollectData` (which reads the old values and may refuse the new
ones) and `WriteData`; `DeleteRoles`, `DeleteProfile`, `DeleteUser`. `Fail` ends
a request before any statement and keeps what it has written, since `manage_main`
catches the error. `BeginRepair`, `SeedRole` and `CheckInitial` seed the roles
and save the first user. Where `OnAnyKey` is true the upsert is MySQL's:
`UpsertOther` is the insertion with a taken login, which rewrites another user's
row and gives the new id none. A completed invitation, a transaction of its own
(`Invitations`), is one step, `Complete`.

Left out: passwords and 2FA columns (`SessionAuth`), titles, the built-in
profile texts, lengths and formats of values; of the field types only select
refuses a value. The first half of `save_sql_user`, which checks the identity and
the password, only prevents requests. The statements commit one by one, as with
OpenODBCDA; a joined adapter shows fewer states.

The history variables say which requests *meet*, that is, write one user at the
same time (`alone`, `tangled`), which roles have been asked for since they were last
cleared (`granted`), whether the latest save ran alone to its end (`whole`), and
which roles of an open form have been disabled since (`stale`). Only
properties and other history read them.

- `NoOrphans`: at whatever statement a save or deletion fails, an id without a
  user has no roles and no profile for the next user of that id to inherit. It
  holds because the row is written first and deleted last; two requests that
  meet on an id break it, which is why `tangled` ids are left out.
- `RolesFromForms`: a user holds no role that nobody has asked for since the
  clearing, and all of them if the save ran alone to its end. Two saves that
  meet may leave the union of what they asked for.
- `RoleStaysDisabled`: `save_sql_role` enables whatever a form sends
  (`sqladmin.py:171`). What protects a disabled role is that forms do not offer
  it; a form opened before it was disabled, a repair that seeds the standard
  roles and an invitation do enable it, for everybody who holds it.
- `KeptUnlessEntered`: deactivating a field, or saving another one, loses
  nothing. A form rendered while a field was inactive sends no entry for it;
  saved after the field is activated, it stores an empty value over the old one
  (`profile_fields.py:85`). The code cannot tell this from an emptied field, and
  neither does the property.

"Repair preserves existing initial-user credentials, roles and 2FA settings"
(`docs/upgrade.md:85`) holds of a user that exists when `CheckInitial` looks. One
of that id created between that look and `SubmitUser` is saved over
(`installer.py:751`); the model contains the case, and no property excludes it.

### AttemptLimits

`place` is chosen at the start: a table in process memory behind a lock
(`_AttemptLimiter`, the completion of invitations) or a BTree in ZODB
(`_allow_attempt`, logins). Both count the attempts of a key in a window that
begins with the first of them. `Arrive` is the moment a request reads the time,
which is *before* the lock in one and before the commit in the other; `Check`
and `Commit` are the moments its attempt counts. The table in memory removes
expired entries from its front and stops at the first that is still good, so
each entry carries the set of keys `ahead` of it. A refused ZODB request keeps
nothing of what it purged, which no later request can tell, since each purges
for itself. An aborted one takes its attempt with it; its caller got an error
and no answer, and that attempt is not counted as made. Keys stand for their
hashes. The clock is assumed not to go backwards, and a request to have its
attempt counted within `Stall` of reading the time.

The refinement mapping to `FixedWindows` forgets requests, views, queues and the
history inside an entry: a key has one window, whose end is fixed when it opens
and follows from a time at most `Stall` old; every allowed attempt is counted in
an open window or opens one; a window is closed only after its end. Which
expired entries a limiter drops, and when, is its own affair there.

- `WindowsSpec`: the refinement. A lost update, two attempts of one key counted
  as one, an entry dropped before its time, or an attempt that moves the end of
  its window, would break it.
- `TableBound`: the capacity bounds the table of a process. That of ZODB is
  checked by each request against its own view (`sessions.py:53`), and insertions
  of different keys merge, so it may exceed the capacity, by no more than the
  requests under way less one.
- `BurstBound`: any `2 * Limit` consecutive attempts of a key span at least
  `Window - Stall`. The bound is twice the limit less one, and no better: a
  window begun by a single early attempt may end just after a burst, and a new
  one begins. `docs/upgrade.md:123` speaks of ten attempts in five minutes; up
  to nineteen can fall into a stretch that straddles two windows.
- `RefusalJustified`: a key is refused for its count only if its own attempts
  reached the limit recently, and for capacity only if that many keys have been
  active recently, although an entry in memory may outlive its time behind one
  that a slow request has inserted before it.

### Installation

`folders` holds the installed objects of each folder as committed in ZODB,
reduced to what the code asks of them: the manifest (mode, revision, recorded
tables), whether the Z SQL Methods are as generated, altered or incomplete,
those for invitations likewise, the login page (see below),
whether the cookie helper is the session helper, whether the SQL plugin
authenticates, and `_sqluw_upgrade_error`. `tables` says who created each table
of the database. A table is created for good by its statement (`CreateTable`,
or `FindsTable` where "if not exists" finds one); the objects of a request are
committed together at its end (`Commit`), if nobody has written them since.
`Fail` is an error, a conflict or an abort at any moment before. `BeginInstall`
and `BeginEnable` are the checks, among them the one look at the catalogue,
together with the request's view of ZODB.

What the code takes for a customised login page is decided by a marker
(`installer.py:912-917`), which the generated page itself contains
(`installer.py:1007-1011`). A page with a marker is generated anew by repair and
upgrade, and an ordinary edit leaves the marker where it is: the form "edited". A
page from which the edit took the marker is kept (`Customized`): "guarded" has its
token, "plain" a form that can be patched, "opaque" none that can be recognised.
`EditByHand` makes any of the four. The information page says so
(`installer.py:1278-1282`); `README.md:160` ("repair preserves customized
templates") and `docs/upgrade.md:79` do not mention the marker.

SQL is "lacking" when one of the fifteen methods that `upgrade.py:63-70` asks for
is missing, which blocks the upgrade; repair creates any missing method.

At startup (`Boot`, `Visit`, `CommitUpgrade`) the folders are walked with the
database to themselves. `Outcomes` is what a folder can become: the six edits of
`upgrade_folder`, of which any may raise; after an error the savepoint is rolled
back and the folder blocked. An unreadable folder hides those below it
(`closed`). `LoseUpgrade` is an error outside a folder's upgrade or in the
commit: Zope then serves the folders as they were. `Stop` ends Zope and all
requests anywhere. `EditByHand` and `OtherTable` are what managers and other
applications do meanwhile. `raced` and `appeared` remember the tables that
appeared between a request's check and its own CREATE.

Left out: the contents of the tables (seeded roles, the first user), the import
of fallback users (its effect on a stored password is in `SessionAuth`), the
wizard's own attributes and the page that runs it; two versions of an object are
told apart by value, so a write that restores the value another request has read
is no conflict here. Setups on an existing database ("retired") are neither
upgraded nor repaired. With adapters that undo DDL with the transaction fewer
tables are left behind than here.

- `RuntimeWhole`: a folder has the new runtime and its manifest, or neither,
  and a blocked folder has no SQL login.
- `OldLoginOff`: a folder that fails stops neither the walk nor the blocking of
  others; once the upgrade is committed the old runtime authenticates nowhere
  the walk could reach.
- `TablesOwn`, `InvitationTablesOwn`: what another folder or application had made
  when the manager asked is never taken over, including what another folder's
  failed attempt has left. The leftovers of a folder's own attempt are refused as
  well (`CheckInstallation`), but they count as its own in these properties.
- `CustomKept`: SQL edited by hand survives, and so does a login page without its
  marker, whenever the edit comes. A page that is edited and still has its marker
  is overwritten, by the upgrade or by a repair that has seen the edit, never by a
  repair that was under way when the page was still unedited. Repair lets a customised page without a
  token stand, and clears the folder's error nevertheless.
- `RecordKept`: repair, enabling and upgrade never drop each other's part of
  the manifest.
- `SetupSpec`: the folders implement `SetupLedger`, to which a folder is one of
  absent, retired, old, blocked (old and switched off) or new (`PhaseOf`), with
  the tables it records. A request that sets up a folder makes it new and an
  upgrade moves its folders at once, or neither happens; a blocked folder never
  gets its old login back, whatever is lost or stopped; recorded tables exist.

## Runs

| Run | Instance | Shows |
|---|---|---|
| `identity` | 2 users, 1 login (also of 1 fallback user), 2 passwords that may return, 1 secret, 2 tokens, 1 request, 3 forms (2 with a secret) | `TypeOK`, `AuthenticatedKnowsPassword`, `AuthenticatedHasSecondFactor`, `PasswordChangeRevokes`, `RequirementKept` |
| `exchange` | 1 user, 3 tokens, 2 requests, 1 form | `ExchangedOnce` |
| `revival` | 1 user, 1 token, 3 forms | violation of `InvalidatedStaysInvalid` |
| `oldpassword` | 1 user, 2 passwords, 1 secret, 2 tokens, 1 request, 2 forms | violation of `NoSessionFromOldPassword` |
| `once` | 1 login, 2 codes, 3 requests, clock to 6 half-minutes | `TypeOK`, `CodeAcceptedOnce` |
| `reuse` | the same | violation of `ReuseRejected` |
| `ledger` | 2 invitations, secrets, users, 3 requests, clock to 2, lifetime 1 | `TypeOK`, the three invariants, `LedgerSpec` |
| `administration` | 2 users, 2 logins, 2 roles (1 seeded), 1 field with 1 value, 2 requests, 2 pieces of work, MySQL's upsert | `TypeOK`, `NoOrphans`, `RolesFromForms`, `RoleStaysDisabled`, `KeptUnlessEntered` |
| `attempts` | 4 keys, 2 requests, limit 2, capacity 2, window 3, stall 1, clock to 5, 5 attempts | `TypeOK`, `BurstBound`, `TableBound`, `RefusalJustified`, `WindowsSpec`, for both places |
| `installation` | a site and a folder in it, 4 tables, 3 namings, 1 for invitations, 6 kinds of older folders, 2 requests, 1 stop, 3 pieces of work (2 with a stop) | `TypeOK` and the seven properties above |
| `takeover` | the same folders, fresh | violation of `NoTakeover` |
| `ends` | 2 invitations, users, logins, roles, 2 requests | `NoCircularWait`; `EveryRequestEnds` under `FairSpec` |

Why the bounds are enough to be interesting: handing a login or an id on to
another user takes two users and three forms (create, delete, create); a chain
login, enrollment or reset, new session takes two tokens; a double exchange
takes two requests and a parent token with two children; a password that returns
takes three forms too. Two of the runs explore their last form or change only in
some behaviours, by a CONSTRAINT, since all of them together do not fit a run:
in `identity` the third form where no secret has come up (`FormsExplored`), in
`installation` the third piece of work where Zope has not been stopped
(`ChangesExplored`). What that leaves out rests on the theorems. Renaming a user
takes a second login, which multiplies `identity` beyond what a run can do (over
twelve million states); that case rests on the theorems, which hold for any
number of logins. Two requests on two users let two saves, a save and a deletion
or a save and a repair cross at every pair of statements, or leave another user
alone; each counts as a piece of work, as do a role form, a field edit and an
invitation, so every one of these also falls between any two statements of one
request. Two codes whose windows overlap, and a clock that passes both windows
and the retention of the first, cover every order of acceptance, forgetting and
a late commit; a third request is the one that could profit. Two secrets allow
one rotation of one invitation, or two invitations; three requests allow a
completion, a rotation and a revocation of one row. With lifetime 1 and clock 2
every step of a completion may fall on either side of the expiry. With limit 2 a
burst of four attempts fits into two windows of length 3 before clock 5, and a
third key meets a full table; two requests of a third and a fourth key take the
ZODB table from one entry to three, one more than its capacity. Namings that
overlap with each other and with the one for invitations make two requests of
two folders, or of one, meet at every table; the six kinds of older folders take
every branch of the upgrade, one of them with an edited page that still has its
marker; a stop between two starts allows an upgrade after an upgrade that was
lost or has blocked a folder, and three pieces of work a repair, an enabling and
an edit by hand that cross, or an edit, a repair that begins, and another edit.
Sets of model values that the specification treats alike are symmetry sets in
safety runs; keys and threads of the limiters too; roles are numbers and are
not, and the liveness run uses no symmetry. The bounds `EditLimit`,
`MaxAttempts`, `MaxTime`, `MaxStops` and `MaxWork` stop an instance; requests of
`TotpReplay` and `Invitations` are served once. That is why deadlock is not
checked in these runs: an instance in which all is done has no step left. A
circle of waiting requests would be a stop of the system itself and is what
`NoCircularWait` and `EveryRequestEnds` exclude.

Fairness: `FairSpec` asks weak fairness of each request's `Progress`: a
publisher thread goes on with the request it serves, and the database grants a
lock that stays free. Nothing is assumed about starting or aborting requests,
the administrator or the clock. Requests are finite in number, so a lock cannot
be taken away for ever by others, and weak fairness suffices.

### Disagreements with the documentation

- `revival`: `docs/upgrade.md:119` says that changes invalidate sessions. They do
  while the changed values last; restoring them (disabling and enabling a user)
  makes an old cookie good again (`sessions.py:102`). So does an earlier password
  that is stored again, plain (`password.py:16`) or imported (`installer.py:585`).
- `oldpassword`: the same sentence. A session whose request was under way during
  the change is stamped with the row read *after* it (`login.py:162`, `login.py:83`,
  `admin.py:410`), and stays.
- `takeover`: `docs/upgrade.md:109` says that the wizard does not adopt tables. It
  looks once, at the start (`installer.py:104`), and then creates each table "if
  not exists" (`dialects.py:419`): one that appears in between is adopted. The
  invitation tables are created without that clause and never are.
- `reuse`: `docs/upgrade.md:123` says that reuse of an accepted code is rejected
  for two minutes. `my_2fa` neither asks nor remembers (`admin.py:359`).

## Proofs

The `_proofs` modules prove, for every value of the constants that satisfies
the modules' assumptions and for any number of requests, tokens, users, codes
and invitations:

- `SessionAuth_proofs`: `TypeSafety`, `KnowsPassword`, `HasSecondFactor`. The
  two properties are not inductive: a request that will issue a session must
  already carry what it has proved. The invariant ties the password and the
  code a request carries to the row it has read, for as long as nobody else
  writes the row, and the stamp of each session to what its history says; a
  stamp equal to the fingerprint of today's row then gives the property, also
  where the row was deleted and created anew, or a password has returned: a stamp
  that is equal again names the password its holder has presented.
- `TotpReplay_proofs`: `ReplayRejected`, from
  `Validity + Stall <= Retention`. The invariant says that an accepted code is
  in the BTree until the time at which it could last be committed, and that a
  request whose view lacks it will conflict.
- `Invitations_proofs`: `CurrentSecret`, `RevocationFinal`, `NeverTooLate` and
  `ImplementsLedger`. The invariant says what each stage of a request knows of
  the row it has locked (`ServedWell`) and that two requests never hold the
  same row or the same account (`ExclusiveWith`); each of the four follows from
  it, the refinement step by step.
- `InvitationLocks_proofs`: `NeverCircular` and `OnlyHoldersBlock`, for any
  number of requests and roles. The invariant adds that the roles a completion
  has saved are smaller than those it has yet to save (`InOrder`). The argument
  is an order of locks: who waits for a row waits for a request that is past its
  claim, who waits for an account waits for one that saves roles or commits, and
  who waits for a role waits for one whose own next role is larger, or that
  waits for nothing. In a set of requests that all wait, those that wait for
  roles would have no largest role. `Roles` is assumed finite for this, as the
  catalogue is. `OnlyHoldersBlock` shows that `NoCircularWait` speaks of all the
  waiting there is: whoever waits for nobody can take its step.
- `AttemptLimits_proofs`: `BurstsBounded` and `RefusalsJustified`, for every
  limit, capacity, window and stall. The invariant says that an entry has
  counted exactly the latest attempts of its key, so the attempt that opened it
  is known, and bounds its expiry by that attempt (`EntryOK`); that a key
  without an entry has rested for `Window - Stall` (`Rested`); that whatever stands
  ahead of an entry was opened no later than it (`AheadOK`); and that the
  view of a waiting request is backed by attempts already made (`ViewOK`).
- `AttemptTables_proofs`: `ImplementsWindows` and `TablesBounded`. The refinement
  needs the invariant above for its two critical facts: that a commit without a
  conflict counts on the very entry its view held, and that what is dropped has
  expired. For the size of the ZODB table the invariant counts beside its entries
  the requests whose view still lets them add one (`Adding`): the sum is at most
  `Capacity + |Requests| - 1`. A step by which one more may add one has seen a
  table that is not full; an insertion moves one from the requests to the table.
  `Requests` is assumed finite and not empty.
- `Installation_proofs`: `WholeSafety`, `OldLoginSafety`, `TablesSafety`,
  `InvitationTablesSafety`, `CustomSafety` and `RecordSafety`, for any tree of
  folders, tables, namings and requests. The invariant says of each table a
  request is to record that it is the folder's, was taken over in a race, or is
  still to be created and absent or known to have appeared (`InstallInv`,
  `EnableInv`), and that the request has seen no edit of the SQL by hand; a commit without
  conflict carries that over to the folder (`CommitFacts`), and a login page it
  generates anew is the one it has seen (`CommitHasSeen`). Of the walk it says
  that each folder it could reach is seen or to be visited, that those seen no
  longer authenticate with the old runtime, and that the folders not yet
  committed keep all that `CustomKept` and `RecordKept` are about (`StartInv`).
  `ImplementsSetups` adds `SetupInv`: what the walk has prepared for a folder is a
  phase further or the same (`Forward`), a table known to have appeared in a race
  exists, and a request that goes on has found its folder managed or empty.
  `NeverSwitchedBack` follows from the refinement alone: an action property of the
  ledger is one of the implementation.
- `UserAdmin_proofs`: `TypeSafety`, `OrphansSafety`, `RolesSafety`,
  `DisabledSafety` and `KeptSafety`. None of the properties is inductive, since a
  request's later statements rely on its earlier ones. The invariant says that
  two requests that write one user both know it (`Apart`), and that a request
  that has met nobody may count on what it has done: while it saves the row is
  there, while it deletes the roles and then the profile are gone (`RowsOK`),
  what it has not yet assigned is all that is missing (`RolesOK`), and the old
  values it has merged are still those stored (`DataOK`). Whenever such a request
  ends or fails it leaves `OrphanOK` and `HoldsOK` behind.

`SessionAuth_proofs` also proves `OneSuccessor` (a cookie with a successor has
no record any more, and nothing gives it one again), `ChangeRevokes` (a session
accepted before a change has the old password in its stamp, so the changed row
differs from it; the stamp of every session is among the passwords stored so
far, so a new one differs from all stamps) and `RequirementSafety` (a request on
whose row nobody has written holds the requirement it will write back). Type
correctness is proved for all six components.

Only model-checked: `EveryRequestEnds` (liveness under fairness is beyond the
prover, as are `ENABLED`, induction over recursively defined data and RECURSIVE
operators). Its safety half is proved: `NeverCircular` and `OnlyHoldersBlock`
together say that whenever requests wait, some request they wait for, directly
or in turn, can go on.

## Plan

1. Done, each with its proofs: `SessionAuth`, `TotpReplay`, `Invitations`
   refining `InvitationLedger`, `AttemptLimits` refining `FixedWindows`,
   `Installation` refining `SetupLedger`, `UserAdmin`.
2. Left for proofs: that `FixedWindows` by itself bounds the bursts of a key, so
   that the bound follows from the refinement, as `NeverSwitchedBack` does from
   that of `SetupLedger`; an abstract specification of the sessions.
3. Left: the import of fallback users and their roles from parent folders
   (`installer.py:307-612`), a fold over the folders in which a later one
   overwrites the users of an earlier one.
4. Left: bounded checks of the redirect and token rules of `security.py` against
   reference definitions.

## Not modelled

HTML, CSS, QR codes, browser views and product registration have no state that
changes after start. The cryptography of passwords, tokens and codes is assumed
to work. E-mail delivery is an external effect that nothing reads back. The
CSRF check and redirects concern a single request. The import of fallback users
from parent folders writes only the ZODB user folder of the installation, in the
one transaction of its request; what it does to a stored password is in
`SessionAuth`, the rest is in the plan. The
example pages for invitations only call the API. Attempt limits are not composed
with the logins they limit: a refused login is one that does not start.
