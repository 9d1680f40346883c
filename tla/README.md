# A verification project for Sweetcomb

Sweetcomb is a plugin of the sysrepo daemon (`sysrepo-plugind`) that turns
commits on YANG models (ietf-interfaces, ietf-ip, ietf-nat,
openconfig-interfaces) into operations on VPP, through VOM, a C++ library that
keeps a database of the objects it configured. The TLA+ modules here model the
code under `src/plugins/`; TLC checks them on small instances, and TLAPS proves
for every instance each safety property that the passing runs check, including
that the interface and NAT callbacks implement an abstract promise about
commits. Liveness is left to TLC.

## 1. Inventory

| Component | State it keeps | Operations | Talks to |
|---|---|---|---|
| Life cycle and health check (`sc_plugins.c`) | `vpp_pid_start`, the VAPI connection, `private_ctx` | `sr_plugin_init_cb`, `sr_plugin_cleanup_cb`, `sr_plugin_health_check_cb`, `get_vpp_pid` | called by the daemon; calls VOM's HW and OM, the registry |
| Model registry (`sc_init.c/.h`) | two linked lists with an `is_called` flag per element | constructors, destructors, `sc_call_all_init_function`, `sc_call_all_exit_function` | calls the models' init functions, which subscribe with sysrepo |
| ietf-interfaces (`ietf_interface.cpp`) | locals of one call; VOM objects under the interface name | `ietf_interface_create_cb` | called by sysrepo per commit; OM::write, OM::remove |
| ietf-ip addresses (`ietf_interface.cpp`) | locals of one call; VOM bindings under `l3_<if>_<prefix>` | `ietf_interface_ipv46_address_change_cb`, `parse_interface_ipv46_address`, `ipv46_config_add_remove` | same |
| ietf-nat (`ietf_nat.cpp`) | `static_mapping_table`; VOM objects under the mapping index | `nat_mapping_table_config_cb`, `nat_static_builder` | same |
| openconfig-interfaces (`openconfig_interfaces.cpp`) | as ietf-interfaces, same VOM keys | `oc_interfaces_config_cb` | same |
| State callbacks (all models, `vpp-oper/`) | none | build a bounded array from a dump of VPP | called by sysrepo per request |
| Utilities (`sys_util.h/.cpp`) | none | `netmask_to_plen`, `utils::prefix`, `foreach_change` | used by the models |

What makes it hard. VPP, the daemon and the clients are separate: VPP may die
between any two steps of the plugin, the daemon may die and lose its VOM
database while VPP and the RUNNING datastore survive, and sysrepo calls
callbacks from its own thread while the daemon's timer runs the health check.
A commit arrives leaf by leaf and may be refused half way by VPP or aborted
afterwards by another subscriber; what a removal does in VPP nobody asks. After
a restart of VPP the connection leads to a dead process until the health check
makes a new one, and requests may come in between. Several local variables are read without
having been initialised. `PROJECT.json` lists each of these hazards at its line.

What correct means, per component:

- life cycle: a VPP that the health check lets pass is the one the plugin is
  connected to and has the configuration; after the last crash it gets it back;
- registry: each init function runs once, a failure of one costs no other its
  subscriptions, every walk ends, and the lists never name unloaded code;
- configuration callbacks: an accepted commit is in effect, a refused one is
  not, and nothing else changes;
- state callbacks: no write past the array, and an interface that is there, and
  that the connection reaches, all along is in the answer.

## 2. Plan

Done, in this order: `ScPlugins` with its proofs, `ScInit`, `IetfInterface`,
`SysUtil`, `IetfAddress`, `IetfNat` with its first proof; then `CommitPromise`
and the refinements of it, `Interfaces` (the two models of interfaces together,
with restarts of VPP), commits of several addresses, `VppPid`, `StateCallbacks`;
then the proofs of the refinements and of `ReadsAtomically` and `InBounds`; then
the proofs of all remaining invariants and of `QuietScanClean`.

Next, proofs: that the scan of `VppPid` implements the one-step reading of the
pid in `ScPlugins`, as a refinement; what a commit of several edits of
interfaces does to the last of them.

## 3. Modules

| Module | Models | Checked by | Proved in |
|---|---|---|---|
| `ScPlugins` | life cycle and health check | `MCScPlugins` | `ScPluginsProofs` |
| `ScInit` | model registry | `MCScInit` | `ScInitProofs` |
| `VppPid` | the scan of `/proc` in `get_vpp_pid` | `MCVppPid` | `VppPidProofs` |
| `CommitPromise` | abstract: what a configuration callback promises | as a property of `Interfaces` and `IetfNat` | `InterfacesProofs`, `IetfNatProofs` |
| `IetfInterface` | the steps of `ietf_interface_create_cb` | `MCInterfaces` | `InterfacesProofs` |
| `Interfaces` | composition: `ietf_interface_create_cb`, `oc_interfaces_config_cb`, sysrepo's commits, restarts of VPP | `MCInterfaces` | `InterfacesProofs` |
| `IetfAddress` | `ietf_interface_ipv46_address_change_cb` in a commit | `MCIetfAddress` | `IetfAddressProofs` |
| `IetfNat` | `nat_mapping_table_config_cb` in a commit | `MCIetfNat` | `IetfNatProofs` |
| `StateCallbacks` | the four state callbacks and the dump command | `MCStateCallbacks` | `StateCallbacksProofs` |
| `SysUtil` | `netmask_to_plen` | `MCIetfAddress` | `IetfAddressProofs` |

### ScPlugins

`pc` walks through the statements of `sr_plugin_init_cb` ("connect",
"populate", "subscribe", "get_pid") and of `sr_plugin_health_check_cb`
("hc_compare", "hc_connect", "hc_replay"), with "idle" between health checks,
"failed" after an initialisation error and "down" when no process runs. Each is
a step of its own because VPP can die between any two. `conn` is the VPP process
the connection leads to; it keeps naming a process that died, as a socket does.
VPP processes are numbered, and the number is the pid. `om` holds the objects
VOM would replay, `boot` the ones owned by the key of `OM::populate("boot")`,
`vppObjs` what the live VPP has, `running` the RUNNING datastore. `WriteObject`
and `RemoveObject` are the configuration callbacks as the life cycle sees them;
they run whenever the callbacks are subscribed, also in the middle of a health
check, because sysrepo's thread is another one. A write that fails changes
nothing here: VOM does not replay an object that never reached VPP. The replay
itself reports no outcome: a live VPP is taken to accept every object of it
(`ReplayObject`). A retry of the initialisation calls `HW::init()` and
`OM::init()` again, which are taken to leave connection and database as they are
(`Retry`).

`get_vpp_pid()` is one step with the outcomes its code can return: the pid, or
`-ESRCH`, or another negated errno left behind by `fopen()`. `VppPid` shows when
that is right.

The history variable `raced` says that VPP died after the connection was made
and before `sr_plugin_init_cb` read the reference pid, its last step. In that
window the code cannot notice a restart, and the properties exclude it by name.

### ScInit

The two lists are sequences, newest first. `p` is the walk's pointer as the rest
of the list, and `cur` the model whose init function runs. Subscriptions are
counted per model (5 for ietf-interfaces, 3 for ietf-nat, 2 for
openconfig-interfaces, as in their init functions). A subscription may fail at
any point, and after the walk `get_vpp_pid()` may find no VPP; the daemon then
calls the initialisation again in the same process. No init function calls
another one: the macro for that has no user.

### VppPid

The scan entry by entry: `readdir()` (`ReadDir`), `fopen()` and `fread()` of the
cmdline (`EntryFails`, `EntryEmpty`, `EntryVpp`, `EntryOther`), the end of the
directory (`EndOfDir`). Processes start and exit between any two steps, so an
entry may be gone when it is opened, and a VPP may start behind the reader or
exit after it was found. `errno` is kept as the code keeps it: set by any failing
call, also one before the scan, and cleared only after an entry that could be
read. If it is set at the end the stream is not closed (`open`), and after
`MaxOpen` of those `opendir()` and `fopen()` fail.

`during` collects the pids VPP has had since the call began: `ReadsAtomically`
says that the scan is as good as a read at one moment, which is how `ScPlugins`
models it.

### IetfInterface, Interfaces and CommitPromise

`IetfInterface` has one step per change of the iterator and one per exit after
the loop. `pos` is the position of the iterator in the edits of the commit;
`flags` holds the locals `create`, `remove` and `modify` that are true. The code
never initialises them: when they are read, after the loop (`ReadLocals`), any
subset of `GarbageFlags` joins the ones the loop has set, and the builder's state
is chosen if no leaf gave it. `vom` is the state VOM's objects hold; devices are
also held by "boot" and never leave. A creation may carry the leaf `enabled` of
the container `ipv4` (kind "create_ipv4"), which the code takes for the
interface's own. VPP may refuse any write. An error after the
loop frees values that the loop has freed: the daemon may crash (`LateError`).

`Interfaces` puts the rest of the system around these steps. The body of
`oc_interfaces_config_cb` is the same but for three places: it returns
`SR_ERR_OK` when it gets no iterator (`OcCommit`), it dereferences the new value
before the switch, so that a deletion crashes (`OcChangeDeleted`), and there is
only one leaf called enabled below its subtree. Both work on the same `vom` and
`vpp`, each from a RUNNING datastore of its own. sysrepo then applies or aborts
the commit. At any step VPP may be restarted and VOM replayed to it
(`VppRestart`), also between the change of a VOM object and its write. `asked`
is a history variable: by device, what the last accepted commit of either model
asked for, or "unknown" after a commit for which nothing can be promised.

`CommitPromise` is the abstract specification: a commit is begun, accepted or
refused, and ended; VPP changes only in the step that accepts it, and only in
the devices it names. The refinement mapping of `Interfaces` takes `pc` to the
stage (`loop` and `finish` are "verify", `verified` is "accepted", everything
after an error, an abort or a crash "refused"), `Named` to the named devices and
`vpp` to their state. `IetfNat` maps all of its mappings to one device.

### IetfAddress

One step per change, at the position `pos` of the iterator as in
`IetfInterface`: parse it into the locals (`new`, `old`, with the flags `create`
and `del` as the field `acts`), then remove and add with whatever the locals
hold. Because the code acts after every change, an address is first bound
with the length left over, 0 in a fresh call, and then with its own; the deletion
repeats the same two steps. Whether VPP accepts the intermediate binding is left
open, like any other. Whether a removal reaches VPP is left open too, since the
code does not look at the result: the history variable `lost` has the bindings
that VPP still has for that reason. A length is given as `prefix-length` or as
`netmask`, which goes through `NetmaskToPlen`; the properties compare what VPP
has with the length the client gave (`Binding`) and except the netmasks that the
conversion gets wrong by name (`Exact`), which the run `address_netmask` shows. IPv4 and IPv6 run the same code and are not
told apart. The locals live as long as the call, so of several edits in one
commit the later ones act with what the earlier ones left. The history variables
say for which behaviours the properties are meant: `kept` ends with a commit of
several edits that mixes additions and deletions on different interfaces or in
which an operation failed, and with one that was refused or aborted after it had
taken a binding away; `clean` with any commit of several edits or with a trace.

### IetfNat

`pos` is the position of the iterator. The builder holds the leaves seen in the
whole commit, `xindex` the last index (0 while it is uninitialised). `vom` is
the set of keys with the pairs they hold; VPP has a pair as long as a key holds
it, so two indices can share one. When the last key goes, the pair leaves VPP
if the removal gets there, which the code does not look at: it erases the entry
of the table in any case (`RemoveKey`), and `lost` has the pairs that stay. `Build`
always takes the source pair, because `prefix::empty()` formats the prefix and a
formatted prefix is never empty. After the loop the iterator has been freed, and
the error path frees it again: from there on an error either refuses the commit
or crashes the daemon. With `remove` true by chance and no index in the changes,
the mapping of an arbitrary index is removed.

### StateCallbacks

A call goes through its checks on entry (`Call`), the allocation, the dump and
the filling of the array, in the order of the callback it stands for: ietf dumps
and then allocates, openconfig allocates and then dumps. The details of a dump
arrive one by one, and VPP may die in between, which ends the wait with an error
the callbacks do not look at. `conn` is the connection: when VPP dies it is stale
and stays so although a new VPP runs (`VppStarts`), until the health check, on
the daemon's timer, closes it (`Disconnect`) and connects again (`Connect`). A
dump over a stale connection brings nothing, and while the connection is closed
it is not issued at all (`NotIssued`). `steady` has the interfaces VPP has had
and the connection has reached since the request. What VPP's name filter lets
through is the parameter `Matches`, of which only is assumed that a name matches
itself: openconfig takes the first detail whatever its name. Without a name in
the path the string may be made from a null pointer, which crashes. `alloc` and `cnt` count values, `about` the
interfaces the answer is about. openconfig dereferences the first detail of a
dump that may be empty: garbage or a crash.

### SysUtil

`NetmaskToPlen` counts the shifts of the loop of `netmask_to_plen` on the 32-bit
integer that `inet_pton` stores (as the set of its one bits, little-endian).
`MCIetfAddress` assumes, and TLC evaluates, that this is the length of the mask
rounded up to whole bytes for all 33 contiguous masks: 255.255.255.128 gives 32,
not 25. `IetfAddressProofs` proves the same (`PlenWholeBytes`).

### Outside the repository

sysrepo (delivery of changes, verify, then apply or abort, retry of the
initialisation, clients), VOM (objects live as long as a key owns them,
`populate`, `replay`) and VPP are modelled by what the code expects of them and
are marked external in the map.

## 4. Runs

| Run | Expect | What it shows |
|---|---|---|
| `life` | pass | With three VPP processes, two daemon starts and two objects: `HealthyMeansConfigured`, `RunningRestored`, the inductive invariant `IInv`, and `Recovers` |
| `life_second_crash` | violation | "VPP has not crashed" is said of a VPP that died: a check that began while VPP was down saves the error number, and the next one finds the same number |
| `life_daemon_restart` | violation | the replay does not restore RUNNING after a restart of the daemon |
| `registry` | pass | every order of construction, failures at every subscription, no VPP at the end, retries: `CalledOnce`, `ReadyComplete` (no model but those that failed lacks a subscription), `RegistryExact`, `InitReturns` |
| `interface_models` | pass | commits of one or two edits of both models of interfaces, all values of the uninitialised flags, a restart of VPP at any step: at rest a device is as the last accepted commit asked and VOM would replay that (`AcceptedInVpp`); both callbacks refine `CommitPromise` (`KeepsPromise`) |
| `interface_abort` | violation | an aborted commit stays in VPP |
| `address_commit` | pass | over sequences of commits of one or two edits RUNNING is bound in VPP with the length the client gave (`RunningBound`); after commits of one edit VPP has no binding that RUNNING does not ask for, but those whose removal did not reach it (`NothingLeftOver`) |
| `address_netmask` | violation | netmask 255.255.255.128 is accepted and becomes length 32: the comment of `netmask_to_plen` says "Convert netmask to prefix length" |
| `address_modify` | violation | a changed prefix length is accepted without effect |
| `nat_commit` | pass | `TableInVpp` at every moment, through garbage flags, refusals, crashes and commits of two edits; RUNNING, table and VPP equal at rest but for removals that did not reach VPP (`RunningMapped`, `TableExact`); the callback refines `CommitPromise` (`KeepsPromise`) |
| `pid_scan` | pass | with processes that start and exit during the scan and descriptors that run out: `ReadsAtomically`, `QuietScanClean` (a pid or `-ESRCH`, and the stream closed, when no process exits), `ScanReturns` |
| `state_reads` | pass | all four callbacks, VPP dying and the connection stale, closed and made again at any step: `InBounds`, `SteadyAnswered` |

Bounds. Three VPP processes are what the longest scenario needs: the one the
plugin starts with, one that comes and goes during a health check, and a
successor. Two daemon starts let one life follow another. A commit has at most
two edits, the fewest that make one leak into the other; the sequence of
commits is unbounded. One device and one name that is no device tell all guards
of the interface callbacks apart, and one restart of VPP falls on every step.
Lengths 16 and 25 are a whole number of bytes and not: prefix length 25 and
netmask 16 in `address_commit`, netmasks 16 and 25 in `address_netmask`.
The addresses are two on one interface, one of them also on a second interface
and on one VOM does not know: two edits of a commit meet on one interface, on
two, and one of them fails. TLC follows a behaviour of `address_commit` as long
as `kept` holds, beyond which neither property says anything, with at most two
bindings lost at a time, those of one deletion (`WhileKept`). After a commit of
several edits only `RunningBound` speaks, which is about bindings that are
missing, and there a behaviour ends with the first commit in which a removal did
not reach VPP: such a removal takes none away.
Four pids, the daemon's the second, have a process on either side of it
and a VPP before and after; four descriptors run out after a few leaks. Two
indices and one pair let indices share a pair; the pair of a
destination mapping, (0.0.0.0, 0.0.0.0), is the other one. Three interfaces, two of
which a name filter does not tell apart, make dumps of any length up to three. No symmetry is used.

Deadlock is not checked in the runs of `ScPlugins` and `ScInit`: starts are
bounded, so the daemon may stay down for good, and an unloaded plugin does
nothing more.

Fairness. `FairSpec` of `ScPlugins` assumes that VPP and the daemon are started
again (they are services), that the daemon retries a failed initialisation, and
that the plugin's own statements are executed, the health check being called by
a timer for ever. Crashes and commits are never promised. `Recovers` excludes
what the code cannot mend: a daemon that stays down, an initialisation that
fails for ever, the window `raced`. `FairSpec` of `ScInit` assumes that the
statements of the walk are executed, `Spec` of `VppPid` that those of the scan
are; that other processes start or exit is never assumed.

Behaviours met while modelling that the passing properties exclude by their
conditions, and that no run demonstrates yet:

- a VPP restarted in the window before `vpp_pid_start` is read is taken for the
  old one (`raced`);
- after a daemon restart, populated objects are also owned by "boot" and stay
  in VPP when they are deleted;
- a retried initialisation passes over the init function that failed and
  succeeds without its subscriptions (`failed` in `ReadyComplete`);
- of two interfaces created in one commit only the last is configured
  (`Apply` of `Interfaces` forgets what was asked);
- the leaf `enabled` of the container `ipv4` sets the admin state of the
  interface, also in the commit that creates it (kinds "ipv4", "create_ipv4");
- an openconfig commit without an iterator is accepted and not carried out, and
  a deletion in openconfig crashes the daemon;
- a deletion in ietf-interfaces crashes when the uninitialised `modify` is true;
- a refused modification stays in VOM, whose object was changed before the
  write, and a later replay sends it;
- with several addresses in one commit a failure is forgotten when a later
  operation succeeds, the second address is first bound with the length of the
  first, and an addition leaks to the interface of a later deletion;
- a NAT mapping given by destination addresses becomes (0.0.0.0, 0.0.0.0), for
  `utils::prefix::empty()` is never true, although the comment at
  `ietf_nat.cpp:75-77` lists such a pair as valid (`Build` of `IetfNat`;
  `RunningMapped` is about source mappings);
- an aborted or refused commit of addresses or mappings leaves traces in VPP
  (`kept`, `clean`);
- a deletion of an address or a mapping that does not reach VPP is accepted, and
  no key of VOM holds what stays there (`lost`);
- a scan of `/proc` during which a process exits may return `-ENOENT` and leave
  the stream open, while the comments say "-ESRH value if process was not found"
  and "an error has occured in readir"; when the descriptors are used up a VPP
  that runs is taken for crashed;
- the state of an interface that openconfig is asked for and VPP does not have
  is made of garbage, or the daemon crashes; so it is for an interface that VPP
  has, while the connection still leads to the process before it or is closed;
- a pair of two internal addresses, which the comment of `nat_static_builder`
  calls invalid, is accepted.

## 5. Proofs

`ScPluginsProofs` proves, for every set of objects and all bounds, from
`BoundsAssumption` (the bounds are natural numbers) alone:

- `Invariance`: `Spec => []IInv`;
- `TypeCorrect`, `HealthySound`, `RunningRestoredSound`: `TypeOK`,
  `HealthyMeansConfigured` and `RunningRestored` are invariants.

The properties speak of one moment, the early return of a health check, and are
far from inductive. `IInv` adds three parts. `PidsOrdered` says that the saved
pid is never newer than the connection: the code saves the pid read *before*
connecting, so an error makes it replay once more rather than miss a crash, and
a saved pid equal to the live one squeezes the connection between them.
`Configured` says what the connected VPP holds at each stage: everything of VOM
outside a replay, everything but `todo` inside one. `RunningInVom` says that a
daemon in its first life has all of RUNNING in VOM. Each part has a lemma with
one step per action (`TypeStep`, `PidsStep`, `ConfiguredStep`, `RunningStep`).
TLC checks `IInv` first, in the run `life`.

`ScInitProofs` proves `CalledOnceSound`, `ReadySound`, `RegistrySound` and
`RegistryTypes` for any models and any number of subscriptions, from
`ScInitAssumption` (every model makes at least one subscription) alone. They
follow from one inductive invariant, `RegistryInv` (`RegistryInvariance`): the
lists are in step with the loaded code (`Lists`); the flag `is_called` and the
count of calls say the same (`Flags`); the function in progress has its flag set
(`Current`) and still has subscriptions to make, and one that was not called has
none (`Subscribed`); what the walk has not reached is ahead of it (`Ahead`), so
that a walk that ends, first or retry, has called everything; and a called model
is complete, in progress or has failed (`Returned`). The destructor is
`RemoveFirst` of the community modules; what it leaves of a list without
repetitions is a lemma of its own.

`VppPidProofs`, from `VppPidAssumption` (the daemon's own pid is one of the pids,
and there are at least two descriptors):

- `ScanSound`, `Spec => []ReadsAtomically`. The property is about the moment of
  the return; the invariant `ScanInv` adds what the scan knows on the way: the
  pid VPP has now is among those recorded (`Recorded`), and a VPP that has been
  there all along is still ahead of the reader, or the reader is at its entry, or
  the descriptors are used up (`Ahead`). `readdir()` returns the first entry
  behind the reader, so it cannot pass over that VPP; that there is a first one
  (`FirstEntry`) rests on the well-foundedness of the natural numbers;
- `QuietScanSound`, `Spec => QuietScanClean`, an action property: a scan that no
  exiting process disturbs ends with a pid or `-ESRCH`. `errno` may be set from
  before the call, and what clears it is the daemon's own entry, which is always
  there to be read (`ClearPastSelf`, with `EntryThere` and `StreamOpen`);
- `ScanTypes`, `Spec => []TypeOK`.

`InterfacesProofs`, from `IetfInterfaceAssumption` (devices are names, the empty
string is not one, bounds are natural numbers) and `MaxBootsAssumption`:

- `InterfacesKeepPromise`, `Spec => KeepsPromise`. It needs an invariant,
  `NamedInv`: the device that `OM::write` changes is found in the locals, the
  builder or the interface pointed to, and that it is one the commit names follows
  only from where the locals come from. So the invariant says that the iterator is
  at a change of an edit (`PosInRange`) and that the locals name interfaces of the
  commit (`LocalsNamed`); `ChangesShape` says what the changes of an edit are,
  `NamedStep` shows the invariant preserved and `PromiseStep` that each step is one
  of the abstract specification;
- `InterfacesTypes`, `Spec => []TypeOK`;
- `AcceptedInVppSound`, `Spec => []AcceptedInVpp`, for any number of edits per
  commit and restarts of VPP. The property is about rest; `AskedInv` says how it
  survives a commit. What the commit found is what was asked for (`BeforeAsked`),
  which settles every commit that fails without a trace. A device the commit does
  not name stays settled (`OthersSettled`), by `NamedInv`. For the device of a
  single edit the invariant follows the locals change by change
  (`OneEditLocals`): a creation has name, flag and state when the loop is over, a
  modification the interface and its state, and the other edits have neither a type
  in the builder nor an interface, so that whatever the uninitialised `create` and
  `modify` are the call ends in an error, in a crash, or without a write
  (`WriteOfOne`). Then VPP and VOM have the state asked for (`OneEditDone`).

`IetfAddressProofs`, from `IetfAddressAssumption` (no address is empty, lengths are
at most 32, the bound is a natural number):

- `AddressTypes`, `Spec => []TypeOK`, for all kinds of edits;
- `RunningBoundSound` and `NothingLeftOverSound`: `RunningBound` and
  `NothingLeftOver` are invariants as long as clients only add and delete
  addresses. That hypothesis, `"modify" \notin Kinds`, is the condition of the run
  `address_commit` too, and it is needed: a modification is accepted without
  effect (run `address_modify`). `BoundInv` follows the shared locals through a
  commit of any number of edits: the address removed is one that some deletion of
  the commit named (`OldDeleted`), so a binding that goes belongs to a deleted entry
  if the edits are of one kind or on one interface; the address added is that of
  the addition at hand (`NewAdded`). A length that is `Exact` is written as given
  (`WrittenExact`). `CleanInv` adds for commits of one edit which bindings it has
  made or asked to take away at each position (`TraceOfOne`); what it asked to
  take away is gone or in `lost`.

`IetfNatProofs`, from `IetfNatAssumption` (indices are positive, 0.0.0.0 is no
address of a client):

- `TableSound`, `Spec => []TableInVpp`. The invariant adds only that `table` is
  a function on the indices; the cases of interest are the removal of a key,
  after which a pair of another index is still held (`RemoveKeyKeeps`), and a
  write to an index that had a pair already;
- `NatKeepsPromise`, `Spec => KeepsPromise`: the callback implements
  `CommitPromise`. No invariant is needed: every action is a step of the abstract
  specification or leaves its variables alone (`PromiseStep`);
- `NatTypes`, `Spec => []TypeOK`;
- `RunningMappedSound` and `TableExactSound`. `BooksInv` says that at the start of
  a commit RUNNING, the table, VOM and, but for `lost`, VPP are equal (`Exact`,
  which is kept by the addition of an index and by its removal, whether or not
  VPP takes it: `ExactAdd`, `ExactRemove`), what the
  locals hold while the changes of one edit are read (`LocalsTrack`), and that an
  accepted commit of one edit has made them equal to the candidate (`BooksKept`).

`StateCallbacksProofs`, from `StateCallbacksAssumption` (there are finitely many
interfaces, and the name of one matches itself):

- `BoundsSound`, `Spec => []InBounds`. The invariant `RoomInv` says that no detail
  is under way once the last message of a dump is there, nor while ietf sizes and
  fills its array (`DumpComplete`), and that the array has the size that the dump
  about to be walked needs (`RoomMade`);
- `SteadySound`, `Spec => []SteadyAnswered`. `SteadyInv` says where an interface
  that stays in reach is: on its way, in the dump or in the answer, by callback
  and stage; the connection is live as long as there is one (`Underway`);
- `CallbackTypes`, `Spec => []TypeOK`, which is inductive.

The inductive invariants were checked by TLC on the instances of the runs before
they were proved; only `IInv` is part of a run.

Only model-checked: liveness (`Recovers`, `InitReturns`, `ScanReturns`), which is
out of the prover's reach. Every other property of a passing run is proved.

## 6. Not modelled

- The replay object by object together with the callbacks change by change: each
  is detailed in one module (`ScPlugins`, `Interfaces`) and one step in the other.
- One commit that changes several models: sysrepo calls the callbacks by
  priority (ietf-interfaces 100, openconfig-interfaces 98, and so on); the models
  here have one callback per commit, and stand for the others by the abort.
- Reuse of a pid by a later VPP: `ScPlugins` numbers VPP processes.
- Two NAT instances that use the same index: the code does not tell them apart.
- An interface created without the leaf `enabled`, whose state is then the
  uninitialised one of the builder: it depends on whether sysrepo reports
  defaults as changes.
- IPv6 and masks that are not contiguous in `netmask_to_plen`; parsing and
  printing of `utils::prefix`.
- Objects that VPP refuses when they are replayed: `OM::replay()` says nothing of
  them.
- `SR_OP_MOVED`, the default branch of the interface callbacks: no list of these
  models is ordered by the user.
- `sc_call_init_function` and `sc_call_exit_function`: nothing calls them.
- Build files, packaging, the test scripts and the command line tool.
