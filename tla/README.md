# TLA+ models of sssd-oidc

sssd-oidc is an NSS and a PAM module that serve users and groups of a SCIM
directory and log users in with the OIDC device flow.  This directory holds TLA+
models of its core, their TLC configurations, and TLAPS proofs.  `PROJECT.json`
lists the runs, the source lines each definition models, the mutants that show that
each property can fail, the hazards, the findings and the theorems.

Run a model with `tlc -config MCServiceSole.cfg MCService` and a proof with
`tlapm SoleClientProofs.tla`.

## Inventory

| Component | Keeps | Operations | Talks to | Hard because |
|---|---|---|---|---|
| Identifier mapping, `src/src/mapping.rs` | nothing | `id_to_uid`, `resolve_id` | asks the cache who owns a slot | u32 sums at range and word ends; probing relies on rows that may go away |
| Cache, `src/src/cache.rs` | tables `uid_cache`, `gid_cache`, `group_members` in a SQLite file | resolve, store, get, purge | one connection per process, one file for all | methods of several autocommit statements; `INSERT OR REPLACE` deletes conflicting rows; TTL |
| Service, `src/src/service.rs` | a SCIM client, a cache | lookups by name and number, lists, `check_user_active`, `lookup_groups_for_user` | directory first, then cache | every step may fail; stale rows decide offline |
| SCIM client, `src/src/scim.rs` | nothing | get by name, paginated lists | the directory, over HTTP | the directory changes between pages |
| OIDC client, `src/src/oidc.rs` | discovered endpoints | discovery, device flow, ID token validation | the identity provider | deadline, `slow_down`, late and lost answers |
| NSS module, `src/crates/nss_oidc` | once-only state, service mutex, two enumeration cursors | passwd and group lookups, enumeration, `initgroups` | Service; SCIM directly for lists | threads share cursors; lists are fetched outside the lock, lookups inside; buffers and arrays of the caller run full |
| PAM module, `src/crates/pam_oidc` | once-only service and OIDC client | authenticate, acct_mgmt, chauthtok | OIDC client, Service, the PAM conversation | a failed initialisation is kept for ever |
| Configuration, `src/src/config.rs` | nothing | load, check the token file | the file system | who may start depends on checks in two files; the ranges are not validated |
| Logging, mock identity provider | - | write; canned answers for tests | - | - |

What makes the parts correct: a uid is never shared; a user keeps its uid and has
the same one everywhere; memberships belong to groups and are complete; what the
directory said last decides about access, and a denial takes effect; every call and
every login ends; a list contains what the directory contains, and an enumeration
what the list contains; a caller's buffer and array are filled if and only if there is
room; a process goes ahead only if its token file is private.

## Modules

    IdMapping ---- UidAllocator ---- Fleet
        |               ^ refinement
        +--- CacheDb ---+- Service          Pagination      DeviceFlow ---- PamLogin
    NssBuffer, Startup ---- Nss
    IdMappingProofs, UidAllocatorProofs, ServiceProofs <- SoleClientProofs,
    PaginationProofs, DeviceFlowProofs <- PamLoginProofs, NssProofs

* **IdMapping**: the arithmetic of `mapping.rs`.  The hash is a parameter, sums wrap
  at `Word` (2^32 in the code; overflow checks are off in release builds).
* **UidAllocator**: the abstract promise.  An identifier is resolved and recorded in
  one atomic step (`Assign`) and loses its slot only by a purge (`Forget`).
* **Fleet**: two allocators with the same parameters and no channel.
* **CacheDb**: what each SQL statement does to a table.  A table is a function from
  primary keys to rows.  A row has an age, capped at the TTL, in place of
  `cached_at`; all queries compare only that difference.  The bundled SQLite has
  foreign keys on, so deleted groups take their members along and a member of a
  missing group is refused.
* **Service**: any number of clients (processes with their own connection and a mutex,
  so one call at a time each), the shared database, and the directory.  One step is
  one SCIM request or one SQL statement with the computation up to the next, which
  is the granularity at which processes interleave, fail and exit.  `pc[c]` says which
  statement comes next, `job[c]` holds the locals of the call, `ret` the answer of the
  last step.  `reported` is a history variable, `gid_ext` a history field.
  Statements may fail (`DbFail`), requests may fail (`ScimFailed`), processes may
  exit anywhere (`Exit`) and start again with the purge.
* **Pagination**: `paginate_list` against a directory that is edited between pages
  and a server that may send short pages, or pages without `totalResults`, which count as
  the last (`scim.rs:81` reads a missing total as 0).  A total that is given is the true
  one at that moment.
* **DeviceFlow**: `authenticate_device_flow` with its clock, the provider and the
  person.  Points in time are kept as seconds left.  The provider may answer at any
  time with anything that fits the state of the code, and may be late or lost.
* **PamLogin**: one PAM process around that flow: the once-only OIDC client and service
  (`OIDC_CLIENT`, `SERVICE`; a failed start is kept), `authenticate` with the device flow,
  the ID token and the subject match, `acct_mgmt` and `chauthtok`.  `pam` says where the
  call is, `token` whom the token is made out to, `returned` is the answer of the last
  step, and `approver` a history variable.  Discovery and token validation either
  succeed or fail.  The service gives any answer it can give; what its answers depend on
  is the subject of `Service`.

* **NssBuffer**: how `fill_passwd_buf` and `fill_group_buf` lay an entry out in the
  caller's buffer, as offsets, next to what the entry needs (`PasswdNeeds`,
  `GroupNeeds`).
* **Startup**: `Config::load` and `Cache::open` on the files of a host, with the cache in
  a file or in memory (`db_path = ":memory:"`, whose check `cache.rs:45` skips).  A file is
  a kind, an owner and permission bits; what the kernel lets a user read is external.  The
  token file is checked and then read by its path; the model takes both as one step, so a
  file exchanged in between is outside it.
* **Nss**: the threads of one process.  `STATE_` is the `OnceLock` (the first caller
  initialises, a failure is kept), `svc` the service mutex, `ENUM` the two
  enumerations; `at[t]` says where a thread is, `call[t]` in which function, `work[t]`
  and `array[t]` hold the locals of `set*ent` and `initgroups_dyn`.  `fetched` and `given`
  are history variables.  A step of a thread ends where it waits: for a list, for the
  mutex or for the service.  The service and the lists are known by what they may
  return, which `Service` and `Pagination` are about.  The C library's own lock keeps
  `set*ent`, `get*ent_r` and `end*ent` of one database from overlapping.  The array of
  `initgroups` is empty at first or holds the primary group and maybe another; its caller,
  SSSD's proxy provider, doubles it after TryAgain.

Definitions named as mutants in their comments (`store_user_ignore`, ...) are not used
by the specifications.  They are the altered forms named in `PROJECT.json`.

## Runs

| Run | Shows |
|---|---|
| `allocator` | resolution returns the nearest slot that is not another's, uniqueness, and re-resolution only moves an identifier towards its home slot; five identifiers, four slots, three on one home slot |
| `fleet_colliding` (violation) | two servers disagree after one collision |
| `shared_groups` | two processes on one database, failing statements, a restart: no membership is without its group |
| `shared_users` | two processes check an account and list all users, one uid for two users, failing statements: calls return, and a deactivated name is granted only finitely often although a list fetched earlier is stored later; one process denies offline, the other uses cached rows |
| `sole_users` | one process with two restarts, three users for two slots, a changing directory: resolved uids are free, cached uids are returned until the first restart, exhaustion is real, and the whole implements `UidAllocator` |
| `one_process` | access to a name is granted only through an account that bore the name and was not inactive when last reported; a cached group keeps its gid, although groups collide and expire; groups are stored whole or the call fails |
| `purge_hole`, `resolve_race`, `primary_gid` (violations) | see below |
| `pagination` | no entry twice without insertions, none missed without removals if every page gives the total |
| `pam_login` | number and spacing of polls, a late token counts, every PAM call ends, and success needs an approval of this login's own code by the right person |
| `nss` | two threads enumerate, look up and ask for groups, on hosts in good and in bad order: enumerations are exact, buffers and arrays are used up to the last byte and no further, groups come once, the mutex is released, and a process gets started only with a private token file of its own and, if its cache is a file, only as root with a private one |

Disagreements between code and comments, each a violation run with a finding:
a collision makes servers disagree (README), a purge makes a cached user move
(`mapping.rs:18`), two processes hand out one uid and the later store deletes the
other's row (`cache.rs:153`), and the gid of a user without groups is not reserved
(`cache.rs:168`).  Three more comments do not describe the code; the models follow
the code, and no run is spent on them: `initgroups_dyn` is said to grow the array "via
`*size`" (`nss_oidc/src/ffi.rs:95`) and only reports TryAgain; the service mutex is said to
be held for cache and mapping operations only (`nss_oidc/src/state.rs:14`), which is so in
`setpwent` and `setgrent` while every lookup holds it during its requests; and the token
file "must be owned by root" (`config.rs:65`), its check "also requires root ownership"
(`config.rs:209`), but only of a process that is root itself.  For a process of another user
the check of the cache file makes up for this, except with `db_path = ":memory:"`: then a
token file of its own is enough, and the end-to-end tests start the module that way
(`crates/e2e/tests/common/mod.rs:49`).  `ReadyIsPrivate` states what holds in either case.

`one_process` runs with one process, without failing statements, without restarts and with a
gid range that cannot fill.  With two processes an older report may be stored after a
newer denial; and otherwise `check_user_active` may learn that an account is inactive and
not get to store it (`service.rs:172`): the old active row then decides a later offline
check under `cached_status`, until it expires (`DeactivationTakesEffect`).

`GrantedAsReported` is about accounts, not about names.  When a name is denied because the
directory no longer knows it (`service.rs:177`) or because it now belongs to an inactive
account, nothing is reported about its previous owner; while that account's row is fresh, an
offline check may find it under the name (`cache.rs:259`, `login` is not unique) and grant
access.  Only the TTL bounds this.

### Bounds

Ranges have two or three slots and all identifiers have the last slot as home, so
two users already collide and wrap, and three exhaust a range of two.  Ranges above
half the word are excluded by assumption: there the probe's sum wraps before it is
reduced and `resolve_id` skips slots.  The TTL is
one tick: a row is fresh, then expired, and ages beyond the TTL are never told apart,
so a longer TTL adds only waiting.  Two clients suffice for the races, which are
between one store and one probe; the second one may start, and purge, at any moment
of the first one's calls.  `MaxRestarts` is the only bound in a guard.
Pagination has four entries, pages of two and at most three pages, so short pages,
a shift in either direction and the page limit all occur.  PamLogin runs with the
code's 5 and 10 seconds, intervals below and above the minimum (0 and 7 s), and
lifetimes of 0, 15 and 32 s: over at once, a multiple of the interval, and long enough
for two `slow_down`s.  Two logins and three subjects give a subject that is the login
name, one that is the account's identifier, and one that is somebody else's.
Nss runs two threads with four workloads: both enumerate one database, one enumerates while
the other begins with the other database, one enumerates while the other looks up, and one
asks for groups while the other looks up.
Buffers are exactly as large as an entry needs, one byte too small, and in between; entries
include one without members, whose strings end at an aligned offset, and one with an
empty string.  Arrays of one to three places meet answers of up to three groups with
repetitions, and change between attempts.  The hosts combine root and another user with
files that are missing, open, somebody else's or no files, and with a cache in memory.
Clients and directory entries are interchangeable model values (symmetry) where no
temporal property is checked.

### Fairness

`Service!FairSpec`: time passes, and a client in the middle of a call goes on, because
HTTP requests have a global timeout and SQLite a busy timeout, so each ends with an
answer or an error.  Nothing obliges clients to ask, directories to change, or
processes to start.  `PamLogin!PamFairSpec`: time passes and a call in progress goes on
(`thread::sleep` returns, a request times out after 10 s, and the service answers, which
is `CallsReturn`).  Neither the person nor the provider has to act.
`Nss!FairSpec`: a call in progress goes on, thread by thread, for the same reasons.  It is
weak fairness, so a thread may wait for the mutex for ever while others take it:
Rust's mutex promises no more, and `MutexReleased` claims only that each holder lets go.

## Proofs

For every value of the constants that meets the stated assumptions (ranges inside
the word, at most half of it long; resources of the declared form):

* **IdMappingProofs**: the candidates of the probe loop lie in the range, start at the
  home slot and reach every slot; `resolve_id` returns the first that is not another's
  and fails only if all are.  The key fact is `CandidateExact`: below half the word
  no sum wraps.
* **UidAllocatorProofs**: types, uniqueness and `MovesTowardsHome`, for which every held
  slot must be known to be on its identifier's probe path; `AllocatorNearestSlot`; and `AllocatorAtHome`: without
  collisions every identifier sits at home, on any server.
* **ServiceProofs**: type correctness (the invariant says for each place which fields of
  the job are meaningful) and members with groups, for any number of clients.  That uids
  and gids are unique in the tables is a lemma on the way (`UniqueAlways`): it is what
  `INSERT OR REPLACE` does, at the price of deleting rows, and says nothing of the probes.
  `ServiceStepsRunOut` is the variant behind `CallsReturn`: each step on a call ends it,
  takes one of the resources still to be stored, gets to a later place, or turns a loop
  whose counter is bounded, and no other client, edit or tick sets it back, whatever it does
  to the tables in between.  With a directory of finitely many resources a call so has
  finitely many steps; that they are taken is fairness.
* **SoleClientProofs**: for one client, `ProbeInv`, the loop invariant of `resolve_uid`
  carried through `resolve_gid` to the store: all slots passed are still taken and the
  one found still is not.  From it `ResolvedUidFree`, `ExhaustedOnlyWhenFull` and, by the
  uniqueness of the least stop, the refinement of `UidAllocator`
  (`SoleRefinesAllocator`), all for any number of restarts.  Before the first restart
  the purge meets an empty table (`PurgeInv`), the chain of taken slots is inductive
  (`ProbeChain`), and so cached ids are returned (`SoleStableUntilRestart`).  The same
  argument in the gid range, where the loop invariant also says that the slot found is no
  other group's (`GidProbeInv`), gives `SoleGroupsStableUntilRestart`.
  `SoleGroupStoredWhole`: once `store_group` has written the row of the group it stays, with
  the gid resolved, and after k members exactly the first k displayed ones are in the table
  (`GroupInv`); failing statements and restarts are allowed.
  `SoleGrantedAsReported`: the reports that a client has not stored yet are the last ones
  about their users, and a row says what the last report said, name and activity, unless
  that report is among those still to be stored (`ReportInv`).  The theorem carries the hypothesis
  `ReportsKept`: no client exits, fails or runs out of ids between getting a report and
  storing it.  This is the hazard at `service.rs:172` and not a convenience of the proof:
  with `DbFails` or with one restart TLC finds a violation.  `SoleNeverExhausted` discharges the part about running out: the
  probe loops visit the whole range (`GidProbeInv` is the loop invariant of `resolve_gid`),
  and by the pigeonhole principle a range with more slots than competitors has a free one
  (`RoomForAll`).  Together they give `SoleGrantedAsReportedUnlessFailing`, which has the
  setting of the run `one_process` as hypotheses and nothing about behaviours.
* **DeviceFlowProofs**: the inductive invariant relates the time since the flow began
  to the polls sent and the present sleep (`BudgetInv`), and the interval to the
  `slow_down`s received.  It gives `PollBudget`, `PollSpacing` and `TokenNotDropped`.
* **PamLoginProofs**: every PAM step is a step of the device flow or leaves it alone
  (`PamImplementsFlow`), so those results hold in PAM processes too.  `TokenInv` follows
  the token from the approval to the subject check: an approved code has an approver, and
  the token in flight and the one received are made out to that person.  It gives
  `SuccessNeedsApproval`.  `PamStepsRunOut` is the variant behind `PamCallEnds`: by
  `PollBudget` a device code is good for at most `life` polls, and each step of the call
  uses one up or gets to a later part of it.
* **NssProofs**: for any threads, lists, buffers and arrays.  Types, which include that
  exactly the threads using the service hold its mutex.  `Cursor` relates the cursor of an
  enumeration to what was given out and gives `EnumerationExact`.  `ArrayInv` says that
  the array, what is left to do and the primary group cover the answer and that nothing is
  in the array twice; it gives `ArrayNotOverrun` and `GroupsExact`, across attempts.
  `OutcomePrivate` is the arithmetic of the permission bits behind `ReadyIsPrivate`: a user
  other than root cannot read another's token file that passes the check, nor a cache file
  of root's with mode 0600, and cannot change any other mode.  `NssFilledIfItFits` rests on `PasswdFilledIfItFits` and
  `GroupFilledIfItFits`; the second is an induction over the members: a fold exists as a
  function on sets of indices (`FoldExists`), its prefixes obey the recurrence one would
  write as a loop (`FoldWrite`, `FoldSum`), and the offset after k members is the sum of
  what they take, or the mark of a buffer that was too small (`GroupStrings`).  The
  induction is over sets of naturals (`SetInduction`, from well-foundedness), because the
  provers cannot instantiate an induction principle for predicates.  `HolderGetsNearer` is
  the variant behind `MutexReleased`: a holder of the mutex comes nearer to letting it go
  with each of its steps.  That the holder goes on at all is fairness, and stays with TLC.
* **PaginationProofs**: positions from the next index on are what is still to come.  If
  nothing was inserted, nothing fetched is among them (`TwiceInv`); if nothing was removed,
  everything not fetched is (`MissedInv`); and the length of what was fetched is the index
  less one, so the test `all.len() >= total` means that nothing is to come, if the total is
  given.

Only model-checked: liveness (`CallsReturn`, `DeactivationTakesEffect`, `PamCallEnds`,
`MutexReleased`), since the prover does not handle fairness and ENABLED; for all but the second the proofs
give the variant, so that TLC decides only whether the steps are taken.  Every safety
property of a passing run is a theorem; those named `Sole...` are for one process with the
database to itself, which is also how they are run.

## Not modelled

murmur3 (any hash is allowed), the text of users (lengths in NssBuffer, nothing else),
filter escaping, JSON and TOML, the text logged, the mock identity provider of the tests,
the contents of the discovery document and of JWTs, the wall clock being set back, the
PAM conversation (its failures are ignored by the code), threads in a PAM process, and
the requests by id and `is_online`, which nothing calls.  A poisoned mutex is left out: a
panic ends the process at the `extern "C"` boundary.  A client in Service stands for a
process, without its threads, whose steps interleave no more freely than two clients'.
Startup leaves groups out: a token file the group may read is refused, and a cache file
is given mode 0600 or refused.
`get_groups_for_member` also reads the members of each group it found and drops them;
that read is folded into the step before it.

## Plan

1. `PamLogin` composed with `Service`: subject match and account check are two lookups
   by name, between which the directory and the cache may change.
2. Membership answers: what `initgroups` returns online and offline, and what a reader
   sees during another process's `store_group`.
3. Configuration edges: zero ranges, overlapping uid and gid ranges.
4. Proofs: `SameUidEverywhere` for distinct homes, stated for two servers
   (`AllocatorAtHome` says it of each).
