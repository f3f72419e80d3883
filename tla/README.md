# FWCloud-API: specifications, model checking and proofs

FWCloud-API is the server of FWCloud, a manager of Linux firewalls: a REST API in
TypeScript that keeps firewalls, rules, routes, VPNs and their objects in MySQL,
compiles them into scripts and installs them over SSH or through an agent. It is one
Node process. JavaScript runs to the next `await` undisturbed; between two awaits any
other request, timer or cron job may run. Most code reads with one SQL statement and
writes with a later one, without a transaction. That is where this project looks: a
test calls one handler at a time, and these models let several of them, restarts and
failures of single steps meet anywhere. The compiler is the exception: it runs alone, and
there the difficulty is in the data.

Paths below are relative to the repository's `src`; `PROJECT.json` maps every definition
to the lines that it models.

## 1. Inventory

| Component | State it keeps | Operations | Hard behaviour | Correct when |
|---|---|---|---|---|
| FWCloud lock (`models/fwcloud/FwCloud.ts`, `middleware/LockValidation.ts`) | `locked`, `locked_by` of a row | lock, unlock, force, implicit lock before every change, timeout check | test and set in two statements; the holder's life is in a session file | one session changes a FWCloud; a dead session's lock can be taken |
| Sessions and authorization (`middleware/Session.ts`, `Authorization.ts`, `models/user/User.ts`) | session files, `keepalive_ts` | login, logout, expiry, saving at the end of the answer | the keepalive is refreshed in memory and saved late; the store's reaper | a session that has gone holds nothing and stays away |
| Routes and routing rules (`models/routing`) | order and group of each row | create, update, move, copy, remove, move items | move = three reads, arithmetic, save of the whole table, renumbering | orders 1..n, groups in one piece, a move moves only the selection |
| DHCP, HAProxy, Keepalived rules (`models/system`) | order and group | as routes; Keepalived saves one rule after the other | removal leaves a gap; last order by count or by maximum | no two rules share an order |
| Backups (`backups`, `controllers/backups`) | directories, a mutex, `maintenance_mode`, live data | create, remove, retention, export, import, restore | parallel tasks, child processes, cron against requests, restarts | a listed backup is whole; a restore brings everything back |
| Policy rules and groups (`models/policy`, `routes/policy`) | `rule_order` per firewall and type, groups, special rules | create, update, copy, move, delete, group, ungroup, dissolve | a gap found by one statement, made by a second, filled by a third | catch-all last; a rule changes its place only by its own request |
| Firewall status (`models/firewall`, `compiler`, `routes/policy`) | bits compile and install, the script file | every change sets both; compile and install clear one each | a change during a compilation or an installation | a clear bit means that the script, or the firewall, has the rules of now |
| Compilers (`compiler/policy`) | the commands of a script | compile each rule by position | several conditions in a position need chains; negation, ports, marks, blocks | a packet meets the action of the first rule that it matches |
| Objects in rules (`models/policy/PolicyRuleTo*.ts`, `models/ipobj`, `models/interface`, `middleware/restricted.js`) | objects, interfaces, groups, positions of rules | use, move, take out, remove, group | searches before a removal, no foreign keys behind them | nothing in use is removed; a position is not emptied behind the user's back |
| OpenVPN history and audit log archives (`models/vpn/openvpn`, `models/audit`) | rows, a file and zip per day, a mutex | archive, retention | append, then delete; unzip, then zip | every row is in the table or in an archive |
| Route and routing groups, tables | membership | create, update, remove | an update that is not awaited | no empty groups, no orphans |
| Snapshots and FWClouds (`snapshots`, `models/fwcloud`) | directories per FWCloud | create, restore, remove | restore in five steps without going back | one FWCloud after a restore |
| Confirmation token | a column of the user | ask, confirm | two sessions of one user | a change is confirmed by its own session |
| VPN and PKI, tree, users, exporter, iptables-save import, agent and SSH, AI assistant, updates, installers, CLI, migrations, plumbing | rows and files | CRUD and I/O | see `hazards` in `PROJECT.json` | |

Interaction. A request passes, in this order: maintenance, session, authorization
(expiry), confirmation token, access control (the user's FWClouds), LockValidation, the
restricted checks, its handler (`Application.ts` 190-211). The lock is what keeps the
handlers of two sessions apart; nothing keeps two requests of one session apart, which
is why rules, status and objects are modelled with overlapping requests although the lock
exists. The status bits tie the rules to the compiler: a middleware sets them before the
handler that changes a rule runs, a compilation reads the rules and clears one, an
installation sends what the compilation wrote and clears the other.
Backups cross everything: a restore replaces the database and the data directories
under `maintenance_mode`, which stops requests but not cron jobs nor requests that are
already past the middleware. No handler for unhandled rejections is installed, so one
ends the process.

## 2. Plan

Written:

1. `FwCloudLock`, over the abstract `FwCloudOwnership`: every change of the system
   depends on it.
2. `RuleMoves` (pure arithmetic), `RuleOrder` (the steps, five kinds of rules), over the
   abstract `RuleList`: what a firewall does depends on the order.
3. `Backup`: what is left when all else fails.
4. `PolicyRules` (the rules of a chain and their groups) and `FirewallStatus`, which
   extends it with compilations and installations.
5. `PolicyCompile` over `Netfilter`: what a script means.
6. `HistoryArchive`: OpenVPN history and audit log.
7. `ObjectUsage`: rules, objects and the restricted checks.
8. The proof modules: `FwCloudLockProofs` (the lock and that it implements
   `FwCloudOwnership`), `RuleListProofs` (the moves, `RuleOrder`, and that it implements
   `RuleList`), `BackupProofs`, `FirewallStatusProofs` (with `PolicyRules`),
   `HistoryArchiveProofs`, `ObjectUsageProofs`, and `PolicyCompileProofs` over `FoldLaws`,
   the laws of the folds of the community modules.

Not written, in the order of their weight:

9. `Snapshots` and the life of a FWCloud; `ConfirmationToken`; two restores at a time
   in `Backup`.
10. Groups of routes and of system rules as requests of their own.
11. Proofs of what these would state. Of the present modules every safety property but
    `MarksMatching` has its theorem (section 6).

## 3. Modules

### `FwCloudLock` and `FwCloudOwnership`

State: `locked` and `lockedBy` (columns of table `fwcloud`), `access` (table
`user__fwcloud`), `file` (the session store: each session unborn, live, stale = keepalive
passed, or absent) and `req`, the requests in flight, each with the point it has reached.
One action per stretch of code between two awaits:

* `Receive*` are the routes as `Authorization` and access control let them through;
  `ReleaseOne`, `ReleaseDone`, `Destroy` give back the locks of an expired session, one
  FWCloud of its user after the other, and remove its file (`User.disableLockFwcloudAccess`,
  `Authorization.handle`);
* `AllowFwcloudAccess`, `DisableFwcloudAccess` are an administrator's `PUT /user/fwcloud` and
  `/user/fwcloud/del`, at any time: `/user` is not under `LockValidation`, so access may go
  while the FWCloud is locked;
* `ValidateLock` is `LockValidation`'s reading of `getFwcloudAccess`; a request whose access has
  gone since the access control runs its handler without a lock (point `runUnlocked`);
* `CheckSelect` .. `CheckClear` are `checkFwcloudLockTimeout`: row, existence of the
  holder's file, its content, unlock;
* `LockSelect`, `LockClaim`, `Who*` are `updateFwcloudLock`: the test, the set, and the
  look-up of the holder for the refusal;
* `RunHandler`, `Unlock`, `UnlockAll`, `ForceSelect`, `ForceUpdate`, `Respond` the rest.

Nothing in the model keeps requests apart or short: they overlap anywhere in the lock code,
of one session or of several, and outlast `keepalive_ms`. The code breaks the lock in some of
these cases, and four history variables name them, step by step, so that the properties can
speak of all others:

* `withdrawn`, the access that users have lost at some time;
* `shared`, the sessions with several requests in flight, until all are answered;
* `overtaken`, the requests that have read the row (or found its holder dead) and still rely on
  it when another request writes it (or the holder comes back);
* `disturbed`, the FWClouds that an overtaken request is about to write, or an administrator is
  about to seize, until nobody is busy there.

`FwCloudOwnership` is the promise: an owner or none, acquired when free, given back,
reclaimed from the dead, seized by an administrator; nothing is promised while a FWCloud is
contested. The refinement reads `owner` off the row, `alive` off the files and `contested` off
`overtaken`.

`CheckFileGone` is the file that goes away between `pathExists` and `readFile`: an
unhandled rejection, hence the end of the process with every request in flight. The
model does that; no property forbids it.

### `RuleMoves`, `RuleOrder`, `RuleList`

`RuleMoves` is what `moveAbove`, `moveBelow` and the renumbering UPDATE compute on a
table (identifier -> order and group). `RuleOrder` has one action per await of the
services and repositories: create (last order, insert, then update and move), update
(load, validate, save, reorder items, save), move (`LookAtDest`, `Pick`, `Affected`,
`Dest`, save, `RefreshIds`, `Refresh`), copy, remove and bulk remove, moving an item
between rules. `Reload` and `Write` are TypeORM's `save`: rows are read again, differences
written, and entities whose row has gone are inserted anew. That library is external to the
repository and is modelled as its callers use it.

`kind` is chosen in `Init` and says whose repository moves the rules: routes, routing
rules, DHCP, HAProxy or Keepalived rules. They differ in whether a failed creation is undone,
in how a new rule finds its order (`StoreInsert`: the system kinds count or take
the maximum), in what is validated between the insert and the move, in whether removal
renumbers (`LeavesGaps`: the system kinds do not, outside groups), and in Keepalived's
two saves when an address moves between rules (`later`). Only routes are looked at in groups:
the system kinds move onto grouped rules by other arithmetic (section 5).

An update accepts another `firewallId` (DHCP, HAProxy, Keepalived) or a `routingTableId` of
another firewall (routing rules), and saves the rule there with the order it had. `Leave` is the
save that takes a rule out of the list, `MoveIn` one that brings a rule in at any order. Of a
request on another firewall's list only this last step is looked at, and requests in flight that
read by its id a rule that has left take it as removed. `unsettled` is history: such a step
has happened and the orders have not all been refreshed since.

`RuleList` is what a user sees: the rules of a list and which of them is shown before
which; rules are added at its end, deleted, and a selection moved next to another rule while
all others keep their places; an update that names another firewall unsettles the list, and a
refresh of all the orders settles it. The refinement reads "before" off the orders.

Bounds: `MaxId` rows ever made, `MaxSelection` rules in a request, `MaxOps` requests
where two overlap. `Scattered` says whether a selection may have gaps or contain its
destination. `alone` remembers that nothing has overlapped a request; no action reads it.

### `Backup`

State: `dirs` (for each directory: metadata, `db.sql`, `db.sql.zip`, each data directory,
absent, partial or whole), `jobs` (the creation and its two parallel tasks), `mutex`,
`live` (database and data directories in use), `tmp` (how much of each unpacked dump has been
written) and `writing` (the dumps whose stream is still open), `restore` and `maintenance`.
Identifiers come from a clock that only grows.

* Creation: `Create` (tryAcquire), `Command` (directory, metadata, two tasks),
  `DumpStart`/`DumpEnd` (mysqldump), `CopyStart`/`CopyEnd` per data directory,
  `ZipStart`/`ZipEnd`. `Fails` is the catch: the directory removed, the mutex released;
  the other task goes on, as `Promise.all` lets it.
* `Destroy`, `Retention` (by count, then by age), `Import` (export and import: a copy
  under a new identifier).
* Restore: `RestoreCall` sets maintenance; unpack, then database and data directories in
  parallel, remove the unpacked dump, migrate. `Unzip` is over when the zip has been read
  (`utils/zip.ts:51`); `Flush`, at any later time, is the end of the writing. An error in any step ends the sequence
  and maintenance, not the other task.
* `Crash`: the process and its children end (one systemd unit), files and database stay.

`clean` and `sound` are history. `clean` marks creations that neither a restart cut short
nor a restore or a half restored system disturbed; `sound` marks restores of a whole
backup that nobody removed meanwhile and whose dump was written to the end when it was loaded.
Outside these the code makes no difference between
a whole and an incomplete backup, so a property without them would say what the code
does not do: the metadata file is written first, and a backup cut short by a restart
stays in the list (`hazards`).

### `PolicyRules` and `FirewallStatus`

`PolicyRules` is one chain of one firewall: rows with `rule_order` and group, and the
catch-all rule (`CatchAll`, the row with `special = 2`). Orders are never renumbered; a rule
is put somewhere by making a gap.

* `Reorder`, `Insert` are `insertPolicy_r` after `reorderAfterRuleOrder` (create at a
  place, or below the catch-all's place);
* `Check`, `Write` the update, with the order and the group that the client sent;
* `PasteOn`, `ReadRule`, `ReadGap`, `MakeGap`, `Insert`/`Write` are copy and move: for every
  rule selected the destination is read, the free order computed (`GapAfter`, `GapBelow`),
  the rules beyond it shifted, and the rule written;
* `GroupOf`, `Members`, `Drop` remove the group a moved or deleted rule has emptied;
  `SaveGroup`, `Assign`, `Unassign`, `Dissolve` are the requests on groups.

`FirewallStatus` extends it: `ReceiveChange` is a request that changes rules and the
middleware that sets both bits before its handler runs; `CompileOpen` truncates the
script, `CompileRead` reads the rules, `CompileEnd` writes, `CompileClear` clears the bit,
`CompileFails` leaves what there is; `InstallSend`, `InstallClear` likewise. `calm` and
`kept` are history: no change overlapped the last compilation, or installation.

### `Netfilter` and `PolicyCompile`

`Netfilter` is the packet filter of the destination firewall, external to the repository:
chains in tables, rules with a set of conditions and a target, `Accepted` (what a
command is refused for), loading command by command or block by block, and the walk of a
packet through the chains. `Unreadable` says which conditions nft cannot read: a header of IPv4
in a table of IPv6, a map that no command defines, an escape that the shell should have taken out;
`Together` which commands share a block: those of a table for iptables-restore, rules of one chain
for nft. `PolicyCompile` is `PolicyCompiler.compile` and
`PolicyCompilerTools`: one step compiles one rule. `CompileRulePositions` turns objects
into conditions (version filter, multiport groups, protocols), each with the form of its text
where that decides whether it can be read; `Ordered` sorts the
positions; `Generate` spreads conditions over chains when a position has several, or
several negated; `AddLog`, `AddAccounting`, `AddMark` (`Marking`, `Marks`), `StripOut`,
`NatCheck`, `EndConditions` are the rest. The loops of the code are folds over lists, each
with its step as an operator (`SameIp`, `Group`, `Swap`, `Position`, `Command`, `Try`), and the
walk of a packet is a recursive function: none of them is a RECURSIVE operator, so that
`PolicyCompileProofs` can speak of them. `Meant` and `Promise` say, without chains, what a rule and a
policy should do to a packet, and are written from the meaning of the positions.

### `HistoryArchive`

State: `table`, `sql` and `zip` of each day (absent, torn, or the INSERTs they hold, batch
by batch), `made` (the birth of the zip, which the retention reads), `job` (the run that
has the mutex), `stream` (what unzip has still to write into the file of each day). `Start` .. `Close` are
`archiveHistory` await by await: count, look for today's zip, unzip, unlink, select a
batch, append, delete, zip. `Retain` is the daily removal, `CannotUnzip` and
`HalfDone` are what failures do to files, `Fault` the end of the process or an error. OpenVPN
history and audit log share the code up to what they catch. `Unzip` is over when the zip has been
read; `Flush`, at any later time, writes the file to its end, over what was appended
meanwhile, as `utils/zip.ts` allows. `cut` and `repeated` are history: the rows that only an
unwritten file has when its zip is removed, or that are appended to one; and those of a batch
appended whose deletion failed.

### `ObjectUsage`

State: the tables `ipobj`, `interface`, `interface__ipobj`, `ipobj_g`, `ipobj__ipobjg`,
and the positions of rules (`uses`: objects, `listed`: interfaces). Every check and every
search is a step. A request is a list of steps still to do (`todo`), which `Demand` and the
`Receive*` actions fill as the route and its middleware do, and `Proceed`, `Refuse`, `Fail`
consume; a step is a label and the item it is about. A step may put others before the rest,
where the code loops over what it has just read: deleting a host puts one `unlink` for each of
its interfaces, and each of these the removal of the interface's addresses and of the
interface; taking the last member out of a group puts the search for the group. Removal: the searches of `restricted.js` and the models (`Found`), then
row after row (`DeleteHostInterface`, `DeleteIpobj`, ...), where a foreign key may stop it
(`AnswerError`). Which searches are made, and which rows they look at, goes by the type and the
host that the client states (`ReceiveErase`, `ReceiveDelete`, the type `other` for any that is
not the object's). `misled`, `crossed` and `suspect` are history: removals with another type or host
than the object's; requests that are misled, or overlapped one they may clash with; and uses put by a
request that overlapped a removal, or of what a misled removal took. Identifiers are `max + 1`, as the code computes them.

## 4. Runs

| Run | Setting | Shows |
|---|---|---|
| `lock_overlap` | 2 sessions of 2 users, one of them an administrator's, 1 FWCloud, 2 requests that overlap anywhere; access given and taken at any time | `LeavesNothingLocked`, `RunnerHolds`, `GoneForEver`, `ImplementsOwnership` |
| `lock_reclaim` | 2 sessions of one user, 1 FWCloud, 2 requests, access given and taken, fair | `DeadHolderReclaimed` |
| `lock_race` | 2 sessions of one user, no administrator | violates `OthersOnlyRead` |
| `order_serial` | five kinds, up to 2 rules to begin with, 4 ever, one group of routes, one request at a time, selections of up to 2, updates to and from other firewalls | `ConsecutiveAtRest`, `DistinctAtRest`, `GroupsTogether`, `MovedNextToDestination`, `ImplementsRuleList` |
| `order_overlap` | routes and Keepalived rules, up to 2 at the start and ever, 2 requests overlap, 3 operations | `AloneRepairs` |
| `backup_any` | 2 backups, one data directory, retention of one copy | `ListedIsWhole`, `SettledIsFrozen`, `RestoreGivesAll`, `MutexFreed` |
| `rules_status` | a catch-all and one more rule, 4 ever, one group, 2 requests overlap, 3 operations, selections of up to 2, with compilations and installations | `CatchAllLast`, `OthersKeepOrder`, `PlacedBeside`, `EmptiedGroupGoes`, `CompiledIsCurrent`, `InstalledIsCurrent` |
| `policy_compile` | iptables and nft, by command and in blocks; IPv4: every filling of up to three positions of a forwarding rule, NAT rules, pairs of rules among eleven; IPv6: forwarding rules with services and sources, NAT rules, pairs; every packet | `MeansPolicy`, `MarksMatching` |
| `compile_blocks` | the same for iptables in blocks | violates `MarksForwarded` |
| `history_archive` | 3 rows, 3 days, batches of one row, retention of one day, 2 faults, files written at any time after unzipping | `NothingLost`, `OnceAtRest`, `ExpiredLeaves` |
| `usage_any` | an IPv4 and an IPv6 rule, an interface of a firewall and two of a host, one group, 4 identifiers, 2 requests, 3 operations, removals with the right type and host and with others | `NoDangling`, `RemovalsComplete`, `StaysFilled` |
| `usage_group` | the same | violates `GroupsStayFilled` |

Each module's type invariant is checked in its broadest run.

Why the bounds are enough. The lock's hazards are between a holder and a rival, or between two
requests of the holder: two sessions with two requests give every pair of points in the code,
and every hazard of the list is reached with them (`lock_race`, and each history variable
becomes true). FWClouds meet only in logout and expiry, which go over all of them; that more
of them, and a third session to which the lock passes on during a rival's check, change nothing
is what the theorems say. A move is decided by the relative
place of four rules: one selected, one between, the destination and one beyond; two
selected rules show the counting. Three overlapping operations are one that breaks, one
that overlaps it and one that repairs; with no route at the start the first two can be
creates that tie, with two they can be a removal during a move. One data directory stands
for the four of the code in `backup_any`, because the loop treats them alike and what
matters is the dump next to a copy, before and after it. Two backups are one that settles
and one that is made, imported or removed meanwhile. In `rules_status` a rule next to the
catch-all meets it in the smallest chain, and two selected rules of three make the second
gap where the first one was; the second request brings its own gap in between. In
`policy_compile` three filled positions are what it takes to have one chain, one negated
position and one without either, in every order; the limit of ports is 2 instead of 15, so that
three ports overflow it and a range fills it. In `history_archive` three days are one run, the
run of the next day that finds what the first one left, and the day on which the
retention removes its zip; with batches of one row two batches share a file. In `usage_any`
three operations are a use, a removal and what overlaps them, and four identifiers let one
be given again. Requests are interchangeable and so under symmetry in runs without
liveness properties.

Deadlock is not checked: a system that nobody asks anything stops, and a bounded one stops
at its bound.

Fairness. `Serve(r)` (lock, order) and `Work(i)` (backup) are weakly fair: Node runs every
callback, MySQL answers or fails, child processes end, and failing is one of the ways the
actions may go. In `HistoryArchive` so are `Run` and `Flush` (what unzip writes reaches the disk in
the end), and `Start` and `Midnight`: days pass, and the
OpenVPN archive is started by cron every day (the audit archive only by a request, so its
`ExpiredLeaves` holds as long as someone asks). Nothing is assumed of clients, of expiry
or of crashes. `DeadHolderReclaimed` needs rivals that keep asking, and says so in its
premise. Status, rules, compilation and objects have safety properties only.

## 5. What the runs found

* `lock_race`: two sessions select the free row before either updates it
  (`models/fwcloud/FwCloud.ts:709`); both are told that they have the lock and both run
  changing handlers. `utils/error_table.js:88` promises that others can only read.
* `compile_blocks`: the marks of a forwarding rule are compiled for FORWARD and again for
  PREROUTING (`compiler/policy/PolicyCompilerTools.ts:923`) with the same names of chains;
  when a rule needs chains of its own, the block creates a chain twice and iptables-restore
  refuses all of it.
* `usage_group`: before an address of a host is removed, the search among the groups that rules use
  counts every address of the host (`models/policy/PolicyRuleToIPObj.ts:1776`), although its
  comment says "with the same IP version of the rule": an IPv4 rule may be left with a group
  whose host has only IPv6.

Behaviour of the code that the models reach and that the properties except by name:

* Lock: a timeout check unlocks by id a row that has changed hands, or whose holder has come
  back, since its file was read (`FwCloud.ts:559`), and two claims write on the same reading
  (`overtaken`, `disturbed`); a second request of a session that logs out or expires locks again
  what was given back, or saves the destroyed session with its answer (`shared`). Access withdrawn
  while a FWCloud is locked (`routes/user/user.js:569`) leaves the lock in place, and expiry, which
  goes over the FWClouds that the user has now (`User.ts:372`), does not give it back
  (`withdrawn`): it stays until somebody else asks for it. A request whose access is withdrawn
  between access control and `LockValidation` goes on with `next()` and runs its handler
  without any lock (`LockValidation.ts:53`). A forced lock tells the session selected before
  the UPDATE (`FwCloud.ts:873`), which is not the one that loses the lock when another request
  gets in between: the two steps are in the model, the event changes no state, and no property
  is stated of it. When the holder logs out between the SELECT and `pathExists`
  (`FwCloud.ts:738`), no branch settles the promise and the request is never answered; the
  process is ended by `CheckFileGone`.
* Routes: a backward move shifts only what lies before the first rule selected
  (`route.repository.ts:143`), so a selection with a gap ties with a rule that stays; a route
  removed during a move is inserted again by its save; two creates get the same order
  (repaired by the next move). Outside the model's reach: a group emptied by moving or
  removing its last route stays; removing a group does not await the update of its routes
  (`route-group.service.ts:115`).
* Rules that change their firewall: an update may name another firewall
  (`dhcp_r.service.ts:484`, `haproxy_r.service.ts:381`, `keepalived_r.service.ts:408`) or a
  routing table of another (`routing-rule.service.ts:304`), and keeps the order of the old
  list: one request alone ties two rules of the new one, or leaves a gap in the old one
  (`unsettled`), until the next operation that refreshes all the orders.
* DHCP, HAProxy, Keepalived: removal of a rule outside groups leaves a gap for good; within
  groups, which are not modelled, a move below a grouped rule writes orders only when it goes
  forward in the same group, and emptied groups stay. Keepalived's version check is
  `some(async ...)`, always true (`keepalived_r.service.ts:190`).
* Backups: when the dump fails, the directory is destroyed while the copy goes on
  and makes it again without metadata (`backup.ts:276`): not listed, never removed; a
  restore whose backup retention removes under it; a restore that loads the first part of its
  dump while the rest is being unpacked, and goes on to the end without an error
  (`utils/zip.ts:51`); an incomplete backup after a restart
  that counts as a copy.
* Policy rules: a client that edits the catch-all rule and sends the order it saw puts it back
  above newer rules (`OrderOfLast = TRUE` violates `CatchAllLast`); a rule taken out of its group with
  `pasteOffset` 0 leaves the emptied group behind, against the comment at `rule.js:413`,
  because the second argument of `findOne` is dropped (`rule.js:422`); deleting the last rule
  of a group leaves it too; several rules pasted below another come out reversed; taking
  rules out of a group is answered after the first of them (`group.js:161`).
* Status: install right after a change, then compile, leaves both bits clear with the old
  script installed; a change during a compilation is forgotten; a failed compilation leaves a
  truncated script.
* Compilation: a packet that satisfies two objects of one position is counted or logged more
  than once by ACCOUNTING; a special rule loses its own condition when its positions need
  chains; a position whose objects are all of the other IP version matches anything; in blocks
  one rejected command loses its block. For nft: `ip protocol` and `icmp` are written into
  tables of ip6 too, where they are refused (`PolicyCompilerTools.ts:426`, 568, 587); the CrowdSec
  rule looks the source and the destination up in a map that no command defines (183); the
  escapes of TCP flags stay in a block, where no shell takes them out (`PolicyScript.ts:494`); and
  `meta mark set mark` saves no mark with the connection (933), from which the automatic rules
  of the script bring it back. What is logged is limited, by 60 a minute or one a second: the
  model hands packets to the limited log (`LIMITLOG`), and nothing is said of what is written.
* Archives: the zip is removed before the file unzipped from it has been written, and what is
  appended meanwhile is written over: if the process ends, or the file is removed, those rows
  are lost (`cut`); a failure between append and delete leaves a batch in both the archive and the
  table, to be archived again (`repeated`); a file left over from an earlier day is neither zipped
  nor retired; a torn zip fails every run of that day.
* Objects: a rule may name an object removed while it was put in; the identifier goes to the
  next object; a removal goes by the type, or the host, that the client states
  (`restricted.js:154`, 179), finds nothing when it is not the object's, and takes an object in use
  (`misled`); an interface removed from a host is checked without regard to the IP version,
  so a host may keep nothing for a rule; of a group only the number of its members counts,
  whatever their version (`usage_group`); moving an object between rules checks neither version nor
  emptiness.

## 6. Proofs

All are checked by TLAPS, for any sets and numbers that satisfy the named assumptions.

* `FwCloudLockProofs!TypesAlways`, `NothingStaysLocked`, `RunnerAlwaysHolds`, `GoneStaysGone`:
  `TypeOK`, `LeavesNothingLocked`, `RunnerHolds` and `GoneForEver`, for any number of users, sessions,
  FWClouds and requests, overlapping as they like, with administrators that force and withdraw. No
  assumption but those on the constants. The invariant `Inv` has one part for what each request
  relies on: `Known` (it was let through for an existing session and FWCloud that the user had
  once), `UpToDate` (unless it is overtaken, the row and the holder's file are as it read
  them), `Warned` (an overtaken request that is about to write, and a seizure, have disturbed the
  FWCloud), `Alone` and `Present` (two requests of a session, or one whose session has gone, make it
  shared), `Holding` (a live handler whose FWCloud is undisturbed and session not shared holds
  the lock) and `Leaving` (a release that is going over the FWClouds has still to visit every one its
  session holds, but those whose access was withdrawn).
* `FwCloudLockProofs!LockImplementsOwnership`: `FwCloudLock` implements `FwCloudOwnership`. From
  `Inv` each step is a begin, an end, an acquisition, a release, a reclaim from a dead
  session, a seizure, a stutter, or, of a FWCloud with an overtaken request, an overrun.
* `RuleListProofs!TypeCorrect`: the rows, what requests have read and what they are about
  to write keep their types, for all five kinds and any overlap. `TypeOK` bounds identifiers
  by `MaxId`, a bound of the model; `Types` bounds them by `nextId` instead, so that no
  request ever holds an identifier that has not been given.
* `RuleListProofs!LoneRequestRepairs`: however requests overlapped before, a move, copy or
  removal that runs alone leaves the orders 1, 2, ..., n, also after updates that moved rules between
  firewalls. `AloneInv` adds that nobody is
  beside a request that is still alone (`Solitude`) and that its refresh is about all rules
  of the table (`RefreshesAll`); the lemma `RenumberAll` does the rest, whatever ties and gaps
  the table has.
* `RuleListProofs!OneAtATimeConsecutive`, `OneAtATimeDistinct`: with one request at a time
  (`OneAtATime`, as in run `order_serial`) the orders at rest are 1..n, or at least distinct for
  the kinds that leave gaps; selections of any shape. Both say it of a list that no update has
  unsettled since the last refresh of all the orders, because the code does leave ties and gaps there
  (section 5); `CalmInv` is `SerialInv` under that condition, and the refresh restores it
  whatever it finds. `SerialInv` says at each point of a
  request what its memory and the table have in common (`InOrder`): what a save compares with
  is what the table holds, an insert's order is the table's last, and only between a save and
  its refresh may the orders be wrong.
* `RuleListProofs!MoveKeepsOrdersDistinct`: in a table of any size, moving a selection above
  or below a rule outside it leaves no two rules with the same order, if no rule that stays
  has an order in the span of the selection (`WellPrepared`; the orders themselves may have
  gaps). The lemmas compare, pair by pair, a moved rule with a moved one, a moved with one
  that stays, and two that stay, by direction. The condition is necessary (section 5).
* `RuleListProofs!OneAtATimeNextToDestination`, `OneAtATimeGrouped`: with one request at a time
  and selections without a rule that stays in between (`~Scattered`), a moved selection is next
  to its destination and the rules of a group are next to each other, in tables of any size.
  `PlaceInv` adds to `SerialInv` what a move relies on (`Placed`): its selection is still a
  block of the table and its destination outside (`Chosen`), and after the save the block
  stands beside the destination (`Landed`), which the refresh keeps.
* `RuleListProofs!OneAtATimeImplementsList`: under the same two assumptions `RuleOrder`
  implements `RuleList`. An insert or a copy is `AddLast`, the save of a move is `Move`, a
  deletion is `Delete` or finds nothing, a refresh and everything else stutters; a rule that comes
  from another firewall unsettles the list, and the next refresh of all the orders makes a list of
  it again (`Settle`). `ListInv` is `PlaceInv` and that each deletion is about one rule (`RemovesOne`).
* `FirewallStatusProofs!CatchAllStaysLast`: the catch-all stays below every rule of its chain, for any
  number of rules, groups and overlapping requests, if clients do not send its order
  (`~OrderOfLast`). The invariant `IInv` is `TypeOK`, `CatchAllStands` and, for each request,
  `Sound`: the order that a request has read and has yet to write is below the catch-all's.
  What makes this stable under interference is `Sinks`: the catch-all's order only grows. One
  lemma per action proves `Keeps(r)` (types, `Sinks`, soundness of the request itself), and
  `KeepsIsEnough` gives the soundness of the others.
* `FirewallStatusProofs!OthersAlwaysKeepOrder`: gaps reorder nobody; only a step that writes a
  rule's order changes its place among the others.
* `FirewallStatusProofs!StatusTypes`, `CompiledStaysCurrent`, `InstalledStaysCurrent`: the bits
  tell the truth where nothing overlapped. `StatusInv` adds to `IInv` that requests of the two
  kinds stay apart (`AllApart`: a request on groups never changes the content of the script),
  and that while calm (`CalmInv`, `KeptInv`) a compilation or installation that runs has no
  change beside it and holds what the rules say.
* `FirewallStatusProofs!PastesBeside`: a rule that is moved or copied without overlap
  shares its order with no other and has no other between it and the rule that it was pasted
  on, in chains of any length and whatever gaps and ties earlier requests left. `PlacingInv`
  follows the request: it is alone (`Solitude`), the place read for the gap has its destination
  next to it (`Gap`), and making the gap keeps that, since it shifts all rules from that
  place on. `EmptiedGroupsGo`, whatever overlaps: a move above or below another
  rule ends with the group it left gone or with a rule in it.
* `HistoryArchiveProofs!NothingIsEverLost`, `ArchiveTypes`: every row ever recorded is in the
  table or can be read in a file, for any number of rows, days and batches, whatever fails and
  however late files are written; but for the rows in `cut`. `NothingLost` says nothing of a run in
  the middle, so `Phase` says at each point what the day's file and zip hold, and `FilesInv`
  that a file adds nothing to a zip that is whole but rows in `cut`, that nothing counts in a
  file that is still being written, and that no zip is older than its day: that is why the
  retention never reaches the day of a run.
* `HistoryArchiveProofs!NothingTwice`: no row is archived twice, nor both in the table and in an
  archive once a run is over, whatever has failed; but for the rows in `repeated`. `OnceInv` adds
  that any two INSERTs, of one day or of two, hold different rows, none of them in the table but the
  batch about to be deleted (`Apart`), and, while nothing has failed, that nothing is torn and no
  file lies beside its zip but that of the run (`Tidy`).
* `BackupProofs!BackupTypes`, `WholeAlways`, `FrozenAlways`, `GivesAllAlways`: for any number
  of backups and data directories, a settled backup is whole and never written again, and a
  restore of a whole one, whose dump was unpacked to the end when it was loaded, brought back
  everything when it comes to the migrations. The difficulty
  is the tasks that an error leaves behind. `JobInv` has one condition for each creation: a
  creation under way has the mutex; a task left behind finds its directory gone, or made
  again without metadata; and while nothing disturbs the creation, `Progress` relates what
  the two tasks have done to what the directory holds. `RestoreInv` is the same for a
  restore. `Works(i)` states once what a step of a task may do (its own job and directory, the
  mutex at most released), so that one lemma, `WorkKeeps`, gives every other creation and the
  restore; each request, the retention and the crash have their own.
* `ObjectUsageProofs!UsageTypes`, `NothingDangles`, `RemovalsEnd`: for any number of objects,
  rules and overlapping requests, the tables keep their foreign keys; no rule names
  an object that has gone unless the request that put it there crossed a removal or the client named
  another type or host than the object's when it had it removed; and a
  removal that met no other request, and was not misled so, is not stopped by a foreign key. The invariant `UsageInv`
  is about the steps that a request has left: `Guarded(steps, labels, search, good)` says
  that each step with one of the labels comes after a search of its item, or that its item is
  good already, and a search that finds nothing makes its item good. `Fit` lists what each
  kind of step relies on: an insert on the object's existence (`Seen`), a deletion on nobody
  using the item (`Searched`), and, for a removal that met nobody, on what each foreign key
  could hold (`Sure`, `Unhosted`). What is good stays good: one lemma per kind of goodness
  (`CleanGrows`, `KeysGrow`, `PresentGrows`), which is where `crossed` comes in, and one per
  step says that it keeps the guards of the steps after it.
* `ObjectUsageProofs!FilledStays`: while a removal goes on that met no other request and was not
  misled, no step takes the last address of a rule's version from an interface or host that the
  rule uses, nor the last member, of whatever version, from its groups; only of a host an interface
  may go as long as another has an address (`StaysFilled`). That a group keeps what its rule can use
  is not so (`usage_group`). `FilledInv` adds the
  same kind of guards for what the searches for the last address and the last member
  establish (`Spares`): a host's own interfaces have only that host (`OneHost`), so that they
  are out of all rules with it (`Quiet`); an address is not the last of its interface or host
  for a rule (`InterfaceSpares`, `HostSpares`), and the deletion is the first step after these
  searches that touches a table (`First`), which is why what they found still holds.

* `PolicyCompileProofs!PolicyAlwaysMeant`: `Spec => []MeansPolicy`, for any policy of either
  version of IP, any objects and limit of ports, compiled for iptables or nft and loaded command by
  command or in blocks, where the firewall can read the commands (or iptables takes them one by
  one). What has been installed gives every packet the verdict of the rules that mean it, counts it
  and hands it to the limited log. The argument has four parts.
  - *Lists.* `FoldLaws` has the laws of `FoldLeft` and of recursive functions over lists
    (`FoldAppend`, `FoldTrace`, `RecursionWorks`: a function whose definition
    uses only its values at arguments of a smaller measure exists). Their operator is a constant,
    given by `INSTANCE`, and their only hypothesis is that the natural numbers are well
    ordered (`NatWellOrdered`, from the library's theorem). With them: grouped ports allow
    what their objects allow, sorting and putting negated positions last loses no position, and
    dropping empty positions loses no condition.
  - *Netfilter.* `Flow` is what a list of commands of one chain does with a packet, without
    any filter they are loaded into. `Sound` says of a script that each of its commands is
    taken where it stands: its chain exists, so does what it jumps to, and nothing is
    created twice. `LoadedHolds`: a sound script, loaded command by command or in blocks, gives
    the filter that holds its commands chain by chain. `WalkIs`: the walk through such a
    filter is the `Flow`, since every jump goes to a chain of higher rank (`Ranked`), so no walk
    goes round in a circle.
  - *Rules.* `GenerateIs` is the induction over the positions of a rule: after each, the packets
    that have come as far as the chain under construction are those that meet a
    condition of every position seen so far (or none, where it is negated). Together with the lists
    this is `Meant` (`MeantIs`). `RuleBlock` adds logging, accounting, translated protocols and
    marks: the commands of a rule are sound after those of other rules, and do what `Means` says.
  - *The compiler.* `PolicyInv` says that the script written so far is that of the rules
    before `next`, and what is installed keeps the promise; `WrittenNext` is one step of
    `CompileRule`, and `PromiseKept` goes from the script to the packets.

  `MeansPolicy` has two premises, both about what the code does otherwise (section 5).
  `SpecialsAlone`: stateful and CrowdSec rules have their own condition only in the end of a
  command line, so they are considered without other conditions. `Readable`: the firewall refuses no
  command for what it says; of scripts with ICMP or grouped ports for nft in IPv6, CrowdSec
  for nft, TCP flags in blocks for nft, or two protocols in one command in blocks for iptables the
  theorem says nothing. Command by command iptables only misses the refused command, and the
  theorem covers that. What was counted and logged is compared in order and number too, except for
  packets that meet two conditions of one position of an accounting rule (`CountedOnce`), which
  the code counts once for each.

The theorems on rules and status are stated of `StatusSpec`, so they hold with compilations and
installations in between.

Only model-checked: the liveness properties `DeadHolderReclaimed`, `MutexFreed` and
`ExpiredLeaves`, which need `ENABLED` and fairness, outside the prover's reach; and
`MarksMatching`. The marks of a forwarding rule are compiled twice into chains of the same
names (section 5), so their commands are not `Sound` and each chain has its conditions twice: that
this is harmless needs an induction over positions of its own, which is not written.
The theorems about the places of routes and other ordered rules exclude overlapping requests
(`OneAtATime`), and the others name what they except by history variables, because the code
breaks them there (section 5).

## 7. Not modelled

What each component leaves out, and why, is in `components` of `PROJECT.json`. In the parts
modelled:

* Lock and sessions: credentials and two-factor codes; creation and deletion of FWClouds; the event
  that tells a session that it has lost its lock.
* Rules of the five kinds: their items and validity (an outcome chosen freely); groups as
  requests of their own, and groups of system rules; bulk updates.
* Backups: the command line, which is another process with a mutex of its own; a second
  restore during a restore; the `tmp` copies an export makes (a user may keep the file for any
  time, which the model has by importing at any time).
* Policy rules: content, hiding and bulk flags, copies to another firewall, more than
  one chain. Status: the bits set by objects, routes and VPNs; clusters.
* Compilation: VyOS, the code of hook scripts, comments and options of the script, how many packets
  a log limit lets through, the text of translated addresses (an IPv6 one with a port is written
  without brackets), names of interfaces with characters that `addMark`'s search for `-o` does not
  know, the automatic rules that bring marks back, the compilers of routing, DHCP, HAProxy,
  Keepalived and VPN.
* Archives: recording of rows, the configuration file in the data directory (its presence
  makes the retention fail for good, `openvpn.service.ts:396`), escaping of values.
* Objects: creation of hosts, interfaces and groups, updates, order in a position, moves
  between two positions of interfaces, users of objects other than rules and groups.

Not modelled at all: I/O (agent, SSH, updater, AI assistant), data conversion without
concurrency (export and import of FWClouds, iptables-save, the tree), plumbing and generated
or vendored code.
