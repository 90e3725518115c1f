# A TLA+ model of setdns

`setdns` changes the DNS of a machine for a while: `SetDns::apply` puts a
configuration in force and returns a handle, `close` (or the drop of the handle)
takes it back. The state it changes is not in the program. It is in files, in
the registry, in `systemd-resolved`; it is shared with other programs; and it is
still there when the program dies. The modules here say what becomes of that
state when system calls of several programs interleave, fail, or are not made
because the process is gone.

Paths below are relative to the repository; `l.` numbers are lines.

## 1. The system

| part | source | state it keeps | operations | model |
|---|---|---|---|---|
| handle | `src/lib.rs` | `Option<platform::SetDns>` | apply, close, drop | `Apply`, `Close`, `Forget` of every back end |
| configuration | `src/config.rs` | none | normalize | `Domains` |
| Linux selection | `src/platform/linux/mod.rs` | which back end a handle uses | apply, close | `LinuxDns` |
| Linux resolv.conf | `linux/resolv_conf.rs` | `/etc/resolv.conf`, `.setdns.bak`, `.setdns.tmp` | apply, cleanup_residual, close | `ResolvConf` |
| Linux links | `linux/resolved.rs` | settings of a link in systemd-resolved | five D-Bus calls | `LinuxDns` |
| macOS split DNS | `macos/resolver.rs` | a file for each domain in `/etc/resolver` | apply, cleanup_owner, close | `MacResolver` |
| macOS global DNS | `macos/global.rs` | SystemConfiguration preferences, the snapshot in memory | apply, close | `MacGlobal` |
| macOS cache flush, selection | `macos/state.rs`, `macos/mod.rs` | which back end a handle uses | apply, close, two commands | `MacGlobal` |
| Windows back end | `windows/mod.rs` | interface and rules of a handle | apply, close | `WindowsDns` |
| Windows interface | `windows/interface.rs` | `NameServer` of each family, snapshots in memory | read, set, restore | `WindowsDns` |
| Windows NRPT | `windows/nrpt.rs` | rule keys, a list of rules for each owner | apply, cleanup_owner, close | `Nrpt` |
| other platforms | `platform/unsupported.rs` | none | refuses | not modelled |
| errors | `src/error.rs` | none | | not modelled: models keep that a call fails |
| test-runner, server | `test-runner/src/test_dns.rs` | a socket, counters by name | one loop | `TestDns` |
| test-runner, scenario | `test-runner/src`, the rest | a plan of names, attempts | one run to an exit code | `Scenario` |

**How they interact.** A call goes straight down: `SetDns::apply` normalizes,
selects a back end and runs it to its end on the caller's thread. There are no
threads, queues or callbacks in the library; only the integration test has a
task beside its main thread. Programs interact only through the
system's state: by the fixed paths `BACKUP` and `TEMP`, by the directory
`/etc/resolver`, by the registry keys, by a link's settings. What keeps them
apart is the *owner mark*, a string each program chooses and writes into what it
installs. The next run of a program finds by it what the last one left.

**What is hard.**

- Checks and changes are separate system calls with nothing locked, so that two
  programs can both pass a check.
- Every call can fail, and most of them after others have already changed
  something.
- A process can die at any system call, or exit without dropping its handle; the
  README of the crate names `mem::forget` as a way to use it (l. 52).
- Others edit the same files, and files can be symbolic links or bind mounts
  (the `EBUSY` fallback).
- Restoring is done from a copy: on disk (resolv.conf), in memory (Windows
  interface, macOS global), or not at all (links).

**What makes each part correct.**

- *resolv.conf*: the user's configuration is complete in `resolv.conf` or in
  `BACKUP` at every instant; a live handle is in force; a successful close
  restores; a program that comes back repairs what it left; what
  systemd-resolved manages and what others wrote is not touched.
- *links*: a handle's link is wholly its own; a successful close reverts it.
- *macOS split*, *NRPT*: files or rules of others are kept; a handle's own are
  in force; close removes them all; apply removes what earlier runs left.
- *Windows*: a failed apply leaves the interface as it was; nested handles
  restore each other's values; a close that succeeds has restored.
- *macOS global*: a commit changes one service's servers and nothing else; each
  service has what its topmost handle wants, or what the user had; the cache is
  flushed after every change.
- *integration test*: it ends; "pass" means that the names went where they should;
  "assertion failed" means that they did not.
- *configuration*: exactly the documented owners and well-formed suffixes are accepted, and the result
  is the set of outermost ones whatever the order of the input.

## 2. The modules

| module | lines of code it stands for | what it is |
|---|---|---|
| `UndoLog` | | abstract: an override of a file under an undo log of one entry |
| `ResolvConf` | `resolv_conf.rs`, `lib.rs` | one action for each system call |
| `ResolvConfInv` | | the inductive invariants `IInv` and `OverlapInv` |
| `ResolvConfProofs` | | theorems about `ResolvConf` |
| `LinuxDns` | `linux/mod.rs`, `resolved.rs` | one action for each D-Bus call |
| `MacResolver` | `resolver.rs` | one action for each system call |
| `Nrpt` | `nrpt.rs` | one action for each registry call |
| `WindowsDns` | `windows/mod.rs`, `interface.rs` | one action for each registry or API call |
| `MacGlobal` | `global.rs`, `macos/mod.rs`, `state.rs` | one action for each call on the preferences |
| `Domains` | `config.rs` l. 47-170 | the checks, and one action for each turn of the loop |
| `TestDns` | `test_dns.rs`, `system_dns.rs` | one action for each step of the server's loop |
| `Scenario` | `scenario.rs`, `verifier.rs`, `main.rs`, `env_guard.rs` | extends `TestDns` with the test that asks it |
| `LinuxDnsProofs`, `MacResolverProofs`, `NrptProofs`, `WindowsDnsProofs`, `MacGlobalProofs` | | theorems about the module of that name |
| `DomainsProofs` | | theorems about `Domains`, and about its labels and its sort |
| `ScenarioProofs` | | theorems about `Scenario` and its `TestDns` |
| `...MC` | | instances for TLC |

`LinuxDns` composes the two Linux ways and keeps of resolv.conf only who is in
force there; `WindowsDns` composes interface and rules and keeps of the rules
only whether they are installed; `MacGlobal` composes the two macOS ways and keeps
of `/etc/resolver` only the cache flush at the end. The details of those are `ResolvConf`, `Nrpt`
and `MacResolver`. `UndoLog` is the abstract specification of `ResolvConf`.

**State.** A *slot* `h \in Handle` stands for one `SetDns` value and the thread
that uses it. `pc[h]` is the next system call of the call that runs in it, or
`"idle"` (no handle), `"live"` (a handle), `"dead"` (the process died in a call).
After an error, a close, a forget or a crash the slot can apply again, so that it
also plays the next run of the program. The other per-slot variables are the
locals of the Rust functions (`cfg`, `buf`, `fd`; `rule_ids`; `snapshots`; ...).
Other variables are the system's state.

**Actions.** Each is one system call with the control that follows it up to the
next one: guards are the code's conditions, and each early return is a disjunct.
`Step(h)` is the disjunction of those of one slot. Mishaps are actions beside it:
`IoError` (or a failing disjunct of a call), `Crash`, `Forget`, `ExternalEdit`
and `Environment`. The history variable `happened` is the set of mishaps there
have been: one run has them all, and a property that holds only without some of
them says which in its premise.

**Slips.** Each module has a section of slips: variants of its actions with a
plausible bug, used by no specification. Each property is violated when one of
them takes the place of its original, which shows that it depends on the code.

## 3. resolv.conf

`apply` is: probe the link and the content (`ProbeLink`, `ProbeStub`), read and
maybe undo one's own residue (`CleanupResidual`, `RequireBackup`, `Rename`,
`SyncDir`), refuse a stale backup (`CheckStale`), copy (`CopyOpen`, `Write`,
`Fsync`), write `TEMP` (`TempOpen`, `Write`, `Fsync`), `Rename`, `SyncDir`.
`close` is `CloseReads`, `RequireBackup`, `Rename`, `SyncDir`. On a mount point
`Rename` goes to the copy, and `Remove` ends it. Variable `job` says which of the
four file moves a shared action belongs to.

Abstractions: a file's content is one of a user's contents, one that setdns
rendered (owner and servers), or `Torn`; `fs::copy`'s open and read are one
step; a file is written by one write; `exists()` does not fail; a user's content
never begins with a header of setdns. Open files follow renames and unlinks by
`fd`. After a power loss an unsynced directory entry may be gone; that is not
modelled. The early return for a configuration with domains (l. 47) changes
nothing and is left out; `LinuxDns` never sends one here.

| run | regime | properties |
|---|---|---|
| `ResolvConfSerial` | calls do not overlap, any marks, edits between calls, every mishap | `TypeOK`, `UserConfigKept`, `IInv`, `CloseRestores` (and the refinement by theorem, section 10) |
| `ResolvConfOverlap` | marks of their own; a close may overlap anything, applies do not overlap each other | `LiveActive`, `IdleMeansRestored`, `ImplementsUndoLog`, `CloseSucceeds`, `FailedApplyLeavesNothing`, `ResolvedKept` |
| `ResolvConfReclaim` | one program, crashes and forgets, fairness | `OwnedIsReclaimed` |
| `ResolvConfRace` | applies overlap | violates `IdleMeansRestored` |
| `ResolvConfStaleBackup` | one program, crashes, fairness | violates `BackupIsReclaimed` |

Bounds: two slots and two marks, because what one program can do to another
needs one of each, and a third would find `BACKUP` and `resolv.conf` in no state
that two cannot make: both are single files. One server value, since servers are
never compared. Two ordinary user contents tell the original from a later edit,
and `stub` is a file of resolved's. All kinds of links and both kinds of mounts
occur, except in the runs with liveness and the race, which leave out the mount
point because there the property is known not to hold (section 9).

Fairness (`FairSpec`): weak fairness of `Step(h)`, since the calls are
straight-line blocking code, and of `Apply(h)` and `Close(h)`: the crate's README
asks the program to drop its handle at the end of a scope and to be run again
after a crash. Both liveness properties are conditional on `CrashesCease`, since
a program that dies for ever in each apply can promise nothing.

## 4. Links

`LinuxDns` has `Select` for the choice, which reads `resolved` and `managed`, both
changed by `Environment` at any time, then the calls `SetLinkDNS`,
`SetLinkDomains`, `SetLinkDefaultRoute`, `Flush`, and for close `RevertLink` and
`FlushReverted`. Each may fail; an error leaves what was set. The value of a
setting is the slot that made it; whether the route is on is not kept. A link's
settings are taken to survive restarts of systemd-resolved. `interface_index` and
the proxy come before the first D-Bus call and fail like it.
`LinuxDnsFaults` has two programs with links of their own and either none.

## 5. macOS split DNS

`MacResolver` goes through `read_dir`, `scan` and `scan_remove` for
`cleanup_owner`; `check`, `check_temp`, `create`, `write`, `rename` for each
domain; `close_read` and `close_remove` for each domain of a close, which keeps
the first error and goes on, and ends with `cleanup_owner`. A file is known by
the owner in its header, or is `Foreign` or `Empty`. The order of domains and
entries is left open; `read_dir` is taken at once, whereas the kernel may show an
entry made meanwhile or not; an apply with more than `MAXNS` servers is refused
before anything and left out.

`MacResolverOverlap`: two programs with marks and domains of their own, one with
one or two domains, and every overlap. One edit of an administrator between calls
bounds the runs; it can hit any domain at any such time, and the properties
speak of a single call, or of a state without edits, so that a second one shows
nothing new.

## 6. Windows

`Nrpt`: cleanup by the list of the owner's key (`OpenState`, `ReadIds`,
`RemoveListed`), or by tags if the list cannot be read (`ListRules`,
`RemoveTagged`), then `RemoveState`; `CreateRule` and `TagRule` for each chunk of
fifty names, `CreateState`, `SetIds`; `RollBack`; `CloseRules`, `CloseState`. The
values of a rule before its tag are one step with it, for nothing in the code
reads them. New identifiers are those used nowhere. `Room` and `Spare` bound the
number in use: an apply is called, and a crash or forget happens, only while
enough are left. In `NrptMishaps` leaked rules use them up in the end, so that
run does not check deadlock. Five identifiers let one program leak a rule or two
while the other has two chunks. The set of rules is symmetric. Mishaps are told apart by
what they leave: `"io"` is an error in an apply, `"close"` one in a close, `"crash"` a
death between an apply's first rule and its list, and `"forget"` a death anywhere
else or a handle that is forgotten. `LeftRulesExplained` is the property about what is
left behind: after the second and the fourth, each rule that no handle and no call
answers for is on its owner's list, where the next apply finds it
(`ForgottenRulesRemoved`).

`WindowsDns`: `ReadSnapshot` and `SetFamily` for each family, `ApplyRules`;
`RestoreFamily` for each family after an error; `Close` and `CloseRules`. Handles
are nested (`Nested`): calls are serial, and handles close in reverse order. Every
call may fail, and `happened` names the failures that nobody hears of
(`"misread"`: an error of reading taken for "no value"; `"remove"`: an error of
removing that is only logged) or that leave a family unrestored. Crashes and
edits are not modelled: snapshots are in memory, and the crate's README (l. 54)
promises nothing after one. `TypeOK` also says that no loop is without a family
in turn. `WindowsDnsFaults` has two handles, each with any
set of families, and a user value or none. `NestedCloseRestores` asks that a close
which reports success has put back every value there was, whatever else failed;
where there was none, an error of `remove_value` may leave the handle's.

## 7. macOS global DNS

`MacGlobal`: an apply opens a session (a copy of the preferences), finds the
service of the device, or the primary one without a device or for a `utun` without
a service, and reads its DNS entry (`ApplyGlobal`); then `Lock`, `Set` (in the
session), `Commit` (to disk), `ApplyChanges` (in force), `Unlock`, `Flush`. Close
is the same from `CloseGlobal` on, with the entry that apply read. A configuration
with domains is `ApplyResolver` and `CloseResolver` up to the flush.

The session is read before the lock is taken. What makes this safe is not in the
code: configd refuses `SCPreferencesLock` to a session older than the preferences
on disk (`stale`, `Outdate`, external). With that refusal a commit is exact
(`OthersCommitsKept`, `CloseRestores`); with a session that is synchronized under
the lock instead, and the entry not read again, it is not (slip
`LockAndSynchronize`). The price is that another program's commit between session
and lock makes the call fail; a close then leaves its servers and says so.

`MacGlobalNested` has two programs and two services, `s2` of which other programs
edit or remove; devices of either service, a tunnel without one, or none; every
overlap of calls; handles of one service closed in reverse order; every call may
fail. Disabled services count as no services, and the entry of a service is its
servers and one value for all other keys. Bound: errors end with the first one
that leaves something behind (`"left"`), because `TopmostInForce` says nothing
after it. It is the constant `ErrorsEnd`, and the theorems hold without it. Such an
error is one of: `ApplyChanges` fails after `Commit` did not;
`Unlock` fails; close fails; a process dies with a handle. Each is returned to the
caller except the last.

## 8. Domains and the integration test

A string is its bytes, any of 0 to 255, since `is_child_suffix` indexes them. The
reference in the properties is in terms of labels instead: `Splitting` reads the
bytes from left to right, and `Covers` compares lists of labels from the end.
`sort_unstable_by` is any sorted rearrangement (`Parse`); `CheckOwner`,
`CheckServers` and `ParseInvalid` are the ways to an error. `DomainsAll` takes every string of up to
four bytes over `*`, `.`, `A`, `a`, every pair of strings of up to two, and every
list of up to three of thirteen names chosen so that each is a child, a mere byte
suffix, a sibling, a wildcard or another spelling of another one: the order of
the sort, equal names in both forms and grandparents need three. Owners are given
by length and bytes, on both sides of each limit, and a few strings have bytes that
are not ASCII. `parse_dns_name` of the crate `addr` is external: `IsDnsName` may be
any predicate on strings, in the run that no label is longer than two bytes. The
loop ends, so the run does not check deadlock.

`TestDns` is the server's loop: `Receive` counts a query, `AnswerOverlay` answers
it, or `Forward` counts it again and the parents are asked one after the other
(`AskParent`, `Timeout`, `GiveUp`), while other queries wait in the socket.
`ParentAnswers` and `Echo` are the environment: an answer may come late, or never, and
one for a socket that was closed is lost; of the questions given up, up to `Late` may
still be answered. A parent in `LeadsBack` is a server that follows the system's DNS: it
may hand a question to this very server, where it waits in the socket like a query
of the resolver's, any number of times. `Scenario` is `run` of `scenario.rs`: `Refuse` or
`Start`, `Apply`, the cases of the plan one by one (`AskServer` or `AskOthers`,
`Deliver` or `LookupTimesOut`, `NextCase`), `TryAgain`, `Close`, the same for the
restore assertions, `Finish`. The back end may send *any* set of names to the
server (`target`), and after close may still do so; the resolver takes that up at
some time (`Settle`), may send a query twice (`AskAgain`), and gives up when it
likes. It caches nothing, neither answers nor their absence.

The plan has one name of each kind: overlay (of which the code has two), forwarded
in all modes, forwarded in global mode only, and static (two in the code; the one
in a split domain here). Counters are zero or not. One lookup is one query, where
`getaddrinfo` sends two. Malformed packets, queries without a question and
errors of `send_to` are left out.

`ScenarioRuns`: both modes, with and without a TUN device, two attempts of the twenty,
two sends of a query, a socket of one packet beside the query in the loop, and one late
answer: an attempt after another one, a query behind another one, and a packet lost
all happen. The lists of parents are none, a server that is asked twice, the stub, and
a server that leads back (`other`); the last one only in global mode and without a
device (`MCSpec`), because what comes back multiplies the states. The theorems have none of
these bounds. The test ends, so deadlock is not checked; `RunEnds` says that it does,
whatever comes back and although the server may then ask for ever, under weak
fairness of the test's own steps, among which a lookup that ends by its timeout.

`PassIsEarned` and `NoFalseAlarm` say what the exit code is worth. A pass proves
the overlay and the forwarded names; of what must *not* go to the server (outside
names in split mode, the overlay after close) it proves nothing if a lookup timed
out in the attempt that passed, since an error counts as "not the overlay"
(`verifier.rs` l. 38) and as "not counted" (`scenario.rs` l. 316). With a TUN device
the device is dropped before the restoration is looked at (`scenario.rs` l. 235), so
that a back end that restores nothing always passes there by such a timeout.
`validate_parent_dns` knows the server's own address and the two stubs only: another
local forwarder that follows the system's DNS is accepted, and leads back.
`EchoIsUnnoticed` says that this is the only way for a question of the server to
become a query of its own. What a pass and a failed assertion are worth does not depend
on it: both are proved for parents that lead back.

## 9. What the checks show

The properties of the passing runs hold. Two runs show where the code does not
do what the repository says of it:

- `ResolvConfRace`: two applies both find no `BACKUP` (`resolv_conf.rs` l. 57), and
  the second copies the first one's file to it. After both handles are closed
  `resolv.conf` is a file of setdns.
- `ResolvConfStaleBackup`: `BACKUP` carries no mark. A crash between the copy and
  the rename leaves it beside a `resolv.conf` without a header, and every later
  apply returns `StaleBackup` (l. 58).

The regimes of the passing runs are what the code needs to be correct. Outside of
them, one constant away in the same modules:

- *Shared marks.* A second apply with a live handle's mark takes its file for
  residue (`resolv_conf.rs` l. 56): `OwnersOf <- AnyOwner` in `ResolvConfOverlap`
  violates `LiveActive`. In NRPT marks that differ only in case share one key, and
  `config.rs` l. 83 accepts both: `KeyOf <- SharedKey` in `NrptMishaps` violates
  `OthersRulesKept` and `LeftRulesExplained`.
- *Rules of a crash.* The list of rules is written after the rules. When the process
  dies between, or the registry fails while an apply writes a rule or a cleanup
  removes some (`nrpt.rs` l. 43, l. 136), the rules stay: the next run finds no key or a list
  without them, and does not look for tags (l. 123). `LeftRulesExplained` names these
  mishaps; `ForgottenRulesRemoved` without its premise is violated.
- *Edits during a call.* The header is read before the rename (l. 75-83):
  with `Edits = "anytime"` a configuration written between is overwritten, and one
  written between copy and rename is lost.
- *Symbolic links.* Apply copies through the link and renames over it; close puts
  back a regular file.
- *Mount points.* A crash in the copy of the fallback leaves a torn
  `resolv.conf` without a header beside `BACKUP`, and every later apply is refused:
  `MountKinds = {TRUE}` in `ResolvConfReclaim` violates `OwnedIsReclaimed`. The user's configuration is in
  `BACKUP` even then (`UserConfigKept`).
- *Shared links and shared domains.* Nothing ties a link to a handle; two
  overlapping applies for one domain both find its file absent. With one link for
  both slots `LiveInForce` of `LinuxDns` fails, with one domain `OthersFilesKept` of
  `MacResolver`.
- *An empty temporary file* in `/etc/resolver`, left by a crash, has no header: no
  cleanup removes it, and its domain is refused with `NotOwned`.
- *Half of a link's settings.* An apply that fails after `SetLinkDNS` returns no handle
  and reverts nothing (`resolved.rs` l. 91).
- *Previous settings of a link* made by others over D-Bus are reverted, not
  restored.
- *Handles closed in the order they were made* (Windows interface, macOS service):
  the second one puts the first one's servers back: `Nested = FALSE` in
  `WindowsDnsFaults` or in `MacGlobalNested` violates `TopmostInForce`.
- *An unreadable `NameServer`* is taken for none and deleted by close
  (`interface.rs` l. 293).
- *A `NameServer` that cannot be removed*: the error of `remove_value` is only logged
  (l. 304), and close reports success with the handle's servers in force.
- *A commit of another program between session and lock* (macOS) makes apply or close
  fail with `LockFailed`; after a close the servers stay.

## 10. What is proved

The theorems hold for any number of slots (programs and handles), any owners,
domains, links, services, servers and user values, within the assumptions on
constants that each module names. Where a theorem needs more, that is a named
hypothesis of its statement, and one under which the runs check the property too.

| theorem | states | hypothesis |
|---|---|---|
| `ResolvConfProofs!TypeCorrect` | `TypeOK` | |
| `ResolvConfProofs!SerialInvariant` | `IInv` | serial calls, edits between them |
| `ResolvConfProofs!SerialUserConfigKept` | `UserConfigKept` | the same |
| `ResolvConfProofs!SerialCloseRestores` | `CloseRestores` | the same |
| `ResolvConfProofs!SerialImplementsUndoLog` | `ImplementsUndoLog` | the same |
| `ResolvConfProofs!OverlapInvariant` | `OverlapInv` | `ClosesOverlap` |
| `ResolvConfProofs!OverlapUserConfigKept` | `UserConfigKept` | `ClosesOverlap` |
| `ResolvConfProofs!OverlapLiveActive` | `LiveActive` | `ClosesOverlap` |
| `ResolvConfProofs!OverlapCloseSucceeds` | `CloseSucceeds` | `ClosesOverlap` |
| `ResolvConfProofs!OverlapImplementsUndoLog` | `ImplementsUndoLog` | `ClosesOverlap` |
| `ResolvConfProofs!OverlapIdleMeansRestored` | `IdleMeansRestored` | `ClosesOverlap` |
| `ResolvConfProofs!OverlapFailedApplyLeavesNothing` | `FailedApplyLeavesNothing` | `ClosesOverlap` |
| `ResolvConfProofs!OverlapResolvedKept` | `ResolvedKept` | `ClosesOverlap` |
| `ResolvConfProofs!UndoLogRecoverable` | `UndoLog` keeps the original in force or saved | |
| `LinkLiveInForce` | `LiveInForce` | `LinksOfTheirOwn` |
| `LinkCloseOkReverts` | `CloseOkReverts` | `LinksOfTheirOwn` |
| `MacResolverTypeCorrect` | `TypeOK` | |
| `MacResolverOthersFilesKept` | `OthersFilesKept` | `ApartPrograms` |
| `MacResolverCloseLeavesNothing` | `CloseLeavesNothing` | `ApartPrograms` |
| `MacResolverCloseSucceeds` | `CloseSucceeds` | `ApartPrograms` |
| `MacResolverApplyCleansUp` | `ApplyCleansUp` | `ApartPrograms` |
| `NrptTypeCorrect` | `TypeOK` | |
| `NrptOthersRulesKept` | `OthersRulesKept` | `OwnersOfTheirOwn` |
| `NrptLeftRulesExplained` | `LeftRulesExplained` | `OwnersOfTheirOwn` |
| `NrptForgottenRulesRemoved` | `ForgottenRulesRemoved` | `OwnersOfTheirOwn` |
| `NrptCloseSucceeds` | `CloseSucceeds` | `OwnersOfTheirOwn` |
| `WindowsTypeCorrect` | `TypeOK` | |
| `WindowsLeftRulesAreReported` | `LeftRulesAreReported` | |
| `WindowsCloseRestores` | `NestedCloseRestores` | `Nested` |
| `WindowsTopmostInForce` | `TopmostInForce` | `Nested` |
| `MacGlobalTypeCorrect` | `TypeOK` | |
| `MacGlobalOthersCommitsKept` | `OthersCommitsKept` | |
| `MacGlobalCloseRestores` | `CloseRestores` | |
| `MacGlobalAnswersAreFresh` | `AnswersAreFresh` | |
| `MacGlobalTopmostInForce` | `TopmostInForce` | `Nested` |
| `ScenarioTypeCorrect` | `TypeOK` | |
| `ServerAnswersMatch` | `AnswersMatch` | |
| `ServerEchoIsUnnoticed` | `EchoIsUnnoticed` | |
| `ScenarioPassIsEarned` | `PassIsEarned` | |
| `ScenarioNoFalseAlarm` | `NoFalseAlarm` | |
| `NormalizeRejectsMalformed` | `RejectsMalformed` | |
| `NormalizeOutermostKept` | `OutermostKept` | |
| `SortOrderIsTotal` | `Before` is a strict total order of suffixes | |
| `SortSucceeds` | a sorted rearrangement of any list exists, so `Parse` can take place | |

The hypotheses say what the crate asks of programs: an owner mark, and a link or
domains, that no other program uses (`LinksOfTheirOwn`: no two slots name one
link, but many may name none; `OwnersOfTheirOwn`: no two slots share an owner, no
two owners a registry key; `ApartPrograms`: no shared owner, no shared domain;
`ClosesOverlap`: no shared mark, one apply at a time, edits of others between calls), or
handles closed in the reverse of the order they were made in (`Nested`). Section 9
tells what happens without each of them.

**resolv.conf, serial calls.** These are `Overlap = "none"` and `Edits # "anytime"`, with
every mishap, link and mount. `UserConfigKept` is not inductive. A rename of
`BACKUP` over `resolv.conf` keeps it only if `BACKUP` is complete, which depends on
what the slot did before. `IInv` says so for each of the four moves: while a copy
to `BACKUP` runs, `resolv.conf` is the user's; from its `fsync` until the end of
the install `BACKUP` is; a restore starts only where `resolv.conf` has the owner's
header, and so is not the user's, and therefore `BACKUP` is; once the copy of the
fallback is written both are equal until `BACKUP` is removed. Two parts make it
inductive. `Kept` asks that `BACKUP` *exists* where it is relied on, since a user
without a `resolv.conf` makes "`BACKUP` equals the user's configuration" true of an
absent file, from which nothing could be restored; no override is made in that
state, because the copy fails. And `OneCall` with `Descriptors` says that only the
running call has a file open, so that no late write reaches a renamed file. A
crash or an error ends the move and leaves the files, for which `Kept` is enough:
what the next call does depends on the header and on `BACKUP` only. The refinement
shows each system call to be a step of `UndoLog`, or to leave its variables alone.

**resolv.conf, closes that overlap.** Any number of closes run beside each other and
beside one apply, and any of them may fail or die at any system call. `OneCall`
is gone; in its place `OverlapInv` has `OneMove`: at most one slot is between the
first and the last step of a file move. It is inductive because of what the files
say of it. A restore starts where `resolv.conf` carries the slot's own mark, and
no other slot has that mark (`OwnMark`), so that no second restore can start; it
ends by taking the mark away. An apply past `CheckStale` has found no `BACKUP`; a
handle has one (`Holds`), and so have a restore and an install, so that while
the apply works no handle is there to be closed. `Installs` and
`PutsBack` are stronger than their serial counterparts (the file is `Torn` while the
fallback copies, so that nobody's header is in it) and weaker after the last
change (`sync_dir`), when another slot may already be at work.

Three properties need something beside it. `Explained`: as long as nothing has
gone wrong, a `resolv.conf` that is not the user's, a `BACKUP` and a `TEMP` each
belong to some slot; hence `IdleMeansRestored`, and `FailedApplyLeavesNothing`, where
the only slot there is has just given up. `Spared`: what an apply has seen in its two probes
stays so while it runs, since nobody else puts the link or the stub back;
`BACKUP` is never resolved's, and no override is left on one of its links; hence
`ResolvedKept`. The refinement is the same lemma as for serial calls
(`NextIsUndo`), which asks only that each slot before its last step is in one of
the four moves.

**Links.** `LinkInv` has for each slot which settings of its link it has made by
the step its call is at (`Made`). A step of one slot disturbs no other, because
their links differ (`Apart`, `Frame`); systemd-resolved coming and going changes
none of it.

**macOS split DNS.** `OthersFilesKept` is about two steps: the look at a file and
the removal or the rename after it. `Knows` carries what the look has found to
the step that relies on it, and says that a scan has still to come to every
file of its owner. It is stable because other slots write only their own domains'
files, and an administrator edits only while no call runs. `CloseSucceeds` needs
`KeptInv` besides: the files of a handle stay its own until close comes to them.

**NRPT.** `RulesInv` says that the identifiers a slot holds carry its owner's tag
or are gone, and that what stands on a list does too (`Lists`). The difficult case
is a list that is stale: it names rules that are gone, and an identifier is only
fresh if no list names it, so that a later owner is never given one. `TidyInv`
adds, as long as the registry works in apply and no process dies with rules on no
list, that an owner's list is exactly the rules of its handle. A handle that is
forgotten, a close that fails half-way and a process that dies in it all leave that
list behind, from which `LeftRulesExplained` follows.

**Windows interface.** In `NestedInv` each call in progress, and each handle, has
in `snapshots` what was there when its apply was called, and a restore has put back
the families it has gone through. This gives `NestedCloseRestores` whatever fails.
`TopmostInForce` needs what each handle found in terms of those below it:
`Chain` says that the `i`-th handle of the history found what the first `i - 1`
show, and the interface shows what all of them do. A close of the topmost one then
leaves what the rest show (`StackInv`), and so does an apply that fails half-way.

**macOS global DNS.** `SlotsInv` has two ideas. The lock is held by the one slot
between `SCPreferencesLock` and `SCPreferencesUnlock` (`Phase`). And a session
that is not stale is the preferences on disk up to the slot's own change
(`InStep`); whoever commits makes the sessions of all others stale. The exactness
of commits and closes follows without any hypothesis on how programs choose
services or close handles. `InForce` is the counterpart of `Chain` with calls that
overlap: on the history of commits, each handle has found what those below it on
its service show; the disk shows the latest; and a close that may still commit is
the latest of its service (`OnTop`), since a commit after its session was made
has made that session stale.

**Integration test.** `TestInv` relates the runner, the resolver and the server: a
query on its way, open with a parent or answered is for a name the back end has
configured, and is the resolver's or was handed back by a parent that validation
cannot tell (`Serves`, which gives `AnswersMatch` and, with `ValidParents`,
`EchoIsUnnoticed`); the answer of a lookup that nothing hindered tells where
its name goes, and the server has counted it (`Tells`); and a phase that is over has
shown what its cases stand for (`Learns`). The theorems are of `Spec`, without fairness, and so
hold of the fair specification that `ScenarioRuns` checks.

**Configuration.** `IsDnsName` is any predicate, and `Inputs` any set of
configurations of the shape `DomainsAssumption` gives. Three bridges lead from
bytes to labels. `LabelsOfEnd` and `LabelsTellTheEnd` give `CoversByBytes`: for
valid names, the equality or `IsChildSuffix` of the code is `Covers`, where the
byte before the parent must be a dot. `ValidMeansPlain` and `WildcardLabels` give
`WellFormedIsValid`: `ValidDomain` after `Stripped` is `WellFormed`. `LabelCounts`
says that a proper child has more labels, so that the sort puts it behind its
parents. `NormalizeInv` then is about the loop: what is pending is sorted and none of
it comes before what is kept; each suffix of the configuration is pending or stood
for by one that is kept (`StandsFor`); of those kept none covers another. At the
end nothing is pending, and what is kept is `Outermost`. That the order is needed
shows in `CoalesceStep`: a suffix that covers one kept earlier would have come
before it. The lemmas that go byte by byte are inductions over the natural numbers; as
the library's induction rules take an operator, `Induction` restates one for the
set of the numbers a claim holds of, from its theorem on minimal elements (`WFMin`).

In each module there is one step lemma for each action or group of actions, and
the theorems follow from them by `PTL`. The invariants of the proofs were checked by TLC on the module's run before
they were proved; only `IInv` stays in a run, since its mutant has something of its
own to say.

*Only model-checked*, and why:

- liveness (`OwnedIsReclaimed`, `BackupIsReclaimed`, `RunEnds`): fairness and
  `ENABLED` are out of the prover's reach;
- that resolv.conf survives programs that overlap outside `ClosesOverlap`: it does
  not (`ResolvConfRace`, section 9).

Operators were rewritten so that they could be reasoned about, with the same
meaning: `Without` of `WindowsDns` and of `MacGlobal` cut a handle out of the
history by `SubSeq`; in `Domains`, labels are built by a recursive function, dots are
counted by `Cardinality`, and the sort is a rearrangement. Three assumptions say what the values already were:
in `Nrpt` that no owner is one of the two marks of a rule without one, in
`MacResolver` that the kinds of files differ, in `MacGlobal` that a user's entry is
one of the entries (`Dns`).

## 11. Plan

Done: every component but those of section 12, each with a run, and theorems about
every component module. Every safety property of a passing run is stated by one.

What could follow: the fallback path of `resolv.conf` on a mount point with a power
loss between two writes, for which a model of the file system below the system calls
is needed; and more than one query in a lookup of the integration test.

## 12. Not modelled

- `error.rs`: an enum and its texts. `platform/mod.rs`, `unsupported.rs`: conditional
  compilation, and a back end that refuses.
- Power loss below the file system's interface: after one an unsynced directory
  entry may be gone (`resolv_conf.rs` l. 193).
- Text formats (`render_resolv_conf`, `resolver_content`, GUIDs, DNS packets), error
  messages and logging.
