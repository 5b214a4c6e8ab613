# TLA+ model of hass-sungrow-modbus

This project models the Sungrow SH-T integration: the guarded write layer of the
library (`sungrow_inverter`), its setup and polls, the cache both work on, and
the Home Assistant integration around them (`custom_components/sungrow`): config
entries, coordinators, services, entities and statistics. TLC checks the modules
on small instances; TLAPS proves thirty-two invariants and action properties, which is
all the passing runs check, and one refinement for every value of the constants.

Paths below are relative to `src/`. `LIB` is
`packages/sungrow-sht-modbus/src/sungrow_inverter`, `INT` is
`custom_components/sungrow`.

## The system

| Component | State | Operations | Interacts with |
|---|---|---|---|
| Guarded write layer, `LIB/control.py` | the lock, the time of the last EMS write | `apply`, `set_pv_limitation`, `set_export_limit`, `start`, `stop`, `plan`, `effective_mode` | reads and writes the registers through the cache component below |
| Inverter cache, `LIB/inverter.py` | one cached value per field, one freshness mark per component, the block maps | `async_update_settings`, `async_update_realtime`, `async_refresh`, `last_refresh`, `invalidate`, setup and probe | polled by the coordinators; read by everything |
| Retrying unit, `LIB/retry.py` | tries of each request, a retry counter | every Modbus function | wraps the link for the two above |
| Coordinators, `INT/coordinator.py` | the last report, `last_update_success`, a timeout counter | poll, `async_apply_snapshot`, `async_mark_failed` | the settings poll takes the lock of the guarded layer, the realtime poll does not |
| Control runner, services and buttons, `INT/control.py`, `services.py`, `button.py` | one shielded task per service | the five services and their buttons | calls the guarded layer, re-reads outside its lock, publishes to the coordinator |
| Raw control entities, `INT/entity.py`, `number.py`, `switch.py`, `select.py` | none of their own | `async_write` | share the lock and the cache of the guarded layer |
| Fields and components, `LIB/fields.py`, `LIB/enums.py`, `LIB/components/` | register tables | decoding and encoding | |
| Sensors, `INT/sensor.py`, `INT/binary_sensor.py` | the statistic sensors hold their last total | one value per description | the coordinators |
| Config flow and entry setup, `INT/config_flow.py`, `INT/__init__.py` | the entries, each with the serial and the address of an inverter | user, reconfigure and options flows, set-up, unloading | probe the inverter, share connections between entries |
| Diagnostics, `INT/diagnostics.py` | | the register dump | reads every component under the control lock |
| Errors, helpers, scripts | | mapping, formatting, command lines | |

### What is hard in it

* Several tasks meet at one inverter: services, buttons, raw entities, the
  settings poll (one lock), and the realtime poll and the re-reads after a
  failed call (no lock).
* Every exchange may be answered, refused, or unanswered *with the value landed
  or not*; the inverter may answer a write it does not take; a gateway may
  answer 0 for a register it does not forward.
* A plan is up to six ordered writes. It may stop after any of them, and what
  the battery does then depends on the order.
* Steps are skipped when the cache already holds their target. The cache is
  trusted by age and by marks that failures must take away.
* A failed read-back is planned a second time, and the two attempts are merged
  into one report.
* What entities show comes from the cache, by way of a report of which
  components were read; failed calls must not leave a stale value on display.
* A device may refuse a read that spans a hole in the register map, and the
  component is then planned anew while another task reads it. Setup is a dozen
  reads, any of which may fail, on an object that is or is not used again.
* A link may stay open and answer nothing; two polls and the dump share it.
* Several dialogues may find one inverter, and inverters change address.

### What makes each component correct

* Guarded layer: calls never overlap and always end; every prefix of a plan is
  safe; *verified* and *nothing to write* are true of the inverter.
* Cache: a freshness mark means the cache holds what the inverter answers.
* Runner: a merged report never overstates; a shutdown follows a restore.
* Coordinator: an available entity shows a value the inverter gave and still has.
* Raw entities: their write leaves no mark the guarded layer may not plan on.
* Retrying unit: one answered exchange is one write taken; bounded tries.
* Setup: what it keeps is what the device serves, whatever failed on the way; a
  poll after a failed setup starts from a usable state.
* Polls: everything served is shown in the end, and a silent link is opened anew.
* Entities: there is an available one for every value the device serves.
* Statistic sensors: the total never drifts, vanishes or falls by a quirk.
* Entries: one for each inverter, at its address.

## Modules

| Module | Models | Extends |
|---|---|---|
| `BatteryPlan` | the pure part of `LIB/control.py`: plans, skipping, verification, `effective_mode` | |
| `BatteryControl` | the calls as processes, the lock, the cache and its marks, the settings poll, the running state | `BatteryPlan` |
| `BatteryControlProofs` | theorems about `BatteryControl`: the cache, what calls report, the order they write in | `BatteryControl`, `TLAPS` |
| `ControlRun` | services as sequences of calls, the second planning, the re-read outside the lock, the coordinator | `BatteryControl` |
| `ControlRunProofs` | theorems about `ControlRun` | `ControlRun`, `BatteryControlProofs` |
| `RawWrite` | the raw control entities next to the services | `ControlRun` |
| `RawWriteProofs` | theorems about `RawWrite` | `RawWrite`, `ControlRunProofs` |
| `Exchange` | what the modules above take one request to the inverter to be | |
| `RetryingUnit` | `LIB/retry.py`: the tries of a request, shown to be one `Exchange` | |
| `RetryingUnitProofs` | theorems about `RetryingUnit` | `RetryingUnit`, `TLAPS` |
| `ExportLimit` | `set_export_limit`: the limit in two registers, one call at a time | |
| `ExportLimitProofs` | theorems about `ExportLimit` | `ExportLimit`, `TLAPS` |
| `InverterPoll` | setup, the two polls, narrowing, stuck links and the register dump | |
| `InverterPollProofs` | theorems about `InverterPoll` | `InverterPoll`, `TLAPS` |
| `Entities` | every entity description: whether it gets an entity, and when that is available | `InverterPoll` |
| `ConfigEntries` | config flows, set-up and unloading of entries on shared connections | |
| `ConfigEntriesProofs` | theorems about `ConfigEntries` | `ConfigEntries`, `TLAPS` |
| `TotalSensor` | the statistic sensors over polls, dumps and restarts | |
| `TotalSensorProofs` | theorems about `TotalSensor` | `TotalSensor`, `TLAPS` |
| `MCBatteryControl`, `MCControlRun`, `MCRawWrite`, `MCInverterPoll`, `MCConfigEntries` | the small instances (the others need none) | |

### BatteryPlan

A register is named by its field. Its value is a number of watts at register
resolution, a member of an enumeration, or a boolean; `None` is Python's. A *view*
is a function from fields to values, so that the same operators read the wire and
the cache. `Plan(r, view)` is `_plan` (and the one-step plan of
`set_pv_limitation`), `Satisfied` is `_satisfied`, `Doubted` is `_doubted`,
`FinalSteps` is the dictionary of last targets a read-back is compared with, and
`EffectiveMode` is `effective_mode`. The capability checks of the models and the
logging are left out.

### BatteryControl

`wire` and `powered` are the inverter; `cache`, `refreshed`, `seen` and `inGrace`
are what the library believes (last-polled values, freshness marks, the
last-polled running state, "an EMS write of ours was answered less than
`grace_s` ago"); `lock` and `waiters` are the `asyncio.Lock` with its first-come
first-served queue; the rest are the local variables of each call.

An action runs from one await to the next:

| Action | Code |
|---|---|
| `Call`, `Acquire` | a call is made, gets the lock, and finds what is stale (`_ensure_fresh`) |
| `ReadAnswered`, `ReadFailed` | one component of `_async_poll` is read or fails |
| `FreshenRaised`, `ReadBackRaised`, `PollEnds` | a read raises or ends with failures |
| `MakePlan`, `RefusePower` | `_plan`, or `PowerOutOfRangeError` |
| `WriteAnswered`, `WriteRejected`, `WriteUnanswered` | the next step that is not skipped; failures go through `_execute`'s `invalidate` |
| `StartReadBack`, `EndUnread`, `Verify`, `Mismatch` | the end of `_execute_steps` |
| `Command` | `start`, `stop` |
| `Poll`, `PollRunningState`, `GraceEnds` | the settings poll (under the lock), the realtime poll (not), the clock |

How old a mark is depends on the clock alone, so `Acquire` lets any set of marks
be too old. Skipping a step takes no await, so one action goes to the next step
to be written. A refused write may have landed as well as an unanswered one: the
retrying unit repeats a write that timed out, and only the last try's refusal is
reported.

### ControlRun

Each caller runs a service, a sequence of requests; `stop_inverter` is the
sequence of a restore and a stop. `CallStep` takes a step of the call, and in the
step that ends it does what `_async_run` does before its next await: publish
(`ApplySnapshot`), start a re-read (`Reread`), or fail. The re-read is a sequence
of reads *outside* the lock (`RereadAnswered`, `RereadFailed`, `RereadRaised`),
in the order of `sorted(names)`; after the last one the components are published
and the call is planned again (`PlanAgain`), raised or returned, in the same step.
`shown` and `success` are the coordinator's report and `last_update_success`;
`Available` is what entities go by. `SkipPoll` is the poll that finds the lock
taken. A poll may raise at a component it reads after these two (`PollFails`). The
register dump of the diagnostics (`StartDump`, `DumpEnds`) is the poller's process with
`dumping`: it reads and marks under the lock as the poll does, but the coordinator is
not told, and a poll that comes due meanwhile is skipped.

### RawWrite

Some callers are raw entities. Their write holds the lock for the write and the
read-back (`RawAcquire`, `RawWritten`, `RawWriteFailed`, `RawReadBack`,
`RawUnread`). It is not shielded, so it may be cancelled inside the lock
(`RawCancelled`). The constant `Faults` says which of "a write without an answer
landed" and "the caller is cancelled" may happen.

### Exchange and RetryingUnit

`BatteryControl` and `RawWrite` write a register in one step, which may land
whether it is answered or not. `RetryingUnit` is what happens in that step: each
task has a request under way, in a try (`Answered`, `Fails`), in the pause
before the next one (`TryAgain`), or cancelled (`Cancelled`); any try may land.
Requests of other tasks go out in the pauses; only the control lock, modelled
here by what it does to writes (`MayWrite`), keeps a second write out.
`Exchange` says what the others rely on: between its start and its end an open
write may be taken, an answered one has been, none is after it closed. The delay
between tries is a pause of no particular length; the error classes are kept
apart by how `should_retry` and `_call` treat them.

### ExportLimit

`wire` holds the watts, the ratio (in tenths of a percent, `None` when the unit
has none) and the enable. `mirrors` says which of the two kinds of unit the
docstring of `set_export_limit` describes it is: one whose watts and ratio follow
each other, or one where the ratio wins; `Cap` is the power the registers let
out. A mirroring unit rounds or cuts off when it converts, as it likes (`RatioOf`,
`WattsOf`). Python's `round` takes a value half-way between two tenths up or down as
the nearest binary fraction has it, always the same way for the same limit: `HalfUp`
names the limits it takes up. `CallUnread` could not read the
registers; `Call` plans from the registers
(the cache is fresh under the lock, which is `FreshMatchesWire`), `Skip`, `Write`
and `WriteFails` take its steps, `ReadBack` verifies.

### InverterPoll

`served` is the device: each component it serves in merged reads, only in reads
that span no hole, or not at all; the firmware block may be blank and the
identity that of another model. `present`, `narrowed` and `setUp` are the
`SungrowInverter`; `entry`, `timeouts`, `data` and `success` are the two
coordinators and how far the set-up of the entry is; `todo`, `asked` and `updated`
are what each task (the two polls and the dump) has under way. `todo` is a set: setup,
polls and dump each read their blocks in one `Order`, and the current one is the
`Foremost` of what is left. Values are left out.

| Action | Code |
|---|---|
| `BeginSetup`, `SetupAnswered`, `SetupRefused`, `SetupUnread` | `_async_setup`, a read at a time; it ends in the first realtime poll |
| `BeginPoll`, `SkipPoll`, `BeginDump` | a poll is due, is due while the dump has the lock, diagnostics are asked for |
| `PollAnswered`, `Narrow`, `PollRefused`, `PollBusy`, `PollTimedOut`, `ConnectionLost` | one read of `_async_poll` |
| `LinkSticks` | nothing on the link is answered any more |

The step that ends a poll is also what `_async_update_data` does with it: report,
count a timeout, drop the link (`Raised`, `Report`), or, in a first refresh, take
the set-up of the entry further or fail it (`NotReady`). A read remembers the map
it was planned on, so that a refusal may come after another task has narrowed the
component: such a read is not tried again. Dropping the link cuts the reads of the
other tasks.

### Entities

A description is its platform, the components it names, its coordinator, and what
must be there for the entity to exist. The tables of the six platform modules are
sets of descriptions; those that differ in the field they read only are one.
`AddEntities` takes place in the step in which the second first refresh returns:
the platforms are set up once, from what the device object holds then.
`StandsFor` maps the inverter's thirteen polled components to the four of the instance,
each to one of the same poll, the optional ones to the optional one; so every description
of every platform is checked, and one that named a component of the other poll, or of
the wrong kind, would be found.

### ConfigEntries

`at` is the inverter that answers at each address; it changes as routers see fit
(`Move`). An entry has a serial, an address and a state; `spaced` are the
connections with a message spacing. A flow awaits the probe of an address; after
the answer the user flow creates an entry (`Create`) or updates the one the serial
has (`FoundAgain`), and the reconfigure flow checks the serial (`Reconfigure`). What
follows the probe takes no await, so it is one action. `BeginSetup`, `Load`,
`SetupFails`, `Unload` are `async_setup_entry` and `async_unload_entry`.

### TotalSensor

One counter, its cached value, what the coordinator lists, and the value shown and
stored. Polls update, miss or raise after reading it, or are skipped; what a control call
publishes of other components is told to this entity, too; the register dump reads it and
tells no coordinator; a restart drops the device and may or may not store the state.
`Held` is the dip of at most one percent that `_process_data` ignores. The code
multiplies by 0.99 in floating point, where the boundary itself may fall either way;
the model compares `99 * last` with `100 * value`.

## Runs

| Run | Instance | Checks |
|---|---|---|
| `apply` | 1 caller, every battery mode, 24 register files | `TypeOK`; the order properties `NoReversalAtNewPower`, `ForcedStartsAsAsked`, `LimitsStayWhileForced`, `FencesAfterRestoring`: every prefix of a plan is safe |
| `race` | 2 callers and the poll, forced charge, fencing and PV limitation, ignored writes | `OneCallAtATime`, `FreshMatchesWire`, `UnchangedIsInForce`, `VerifiedIsInForce` |
| `others` | 1 caller and the poll, the other calls and the ways out of a forced mode, EMS mode not forwarded | `CallsEnd`, `DoubtedModeIsLeft` (liveness) |
| `services` | 1 caller, the poll and the dump; a shutdown and a fence without read-back, from a forced discharge, EMS writes may be ignored | `ShownIsTrue`, `VerifiedRunIsInForce`, `StopFindsSelfConsumption`, `ServicesEnd` (liveness) |
| `raw` | 1 service caller, 1 number entity on the register the service fences, all faults | `RawTypeOK` (with `RunTypeOK` and the lock discipline), `MarksAreTrue` |
| `retry` | 2 tasks, 2 values, 4 tries | `UnitTypeOK`, `RetryOverwritesNothing`, `RequestsEnd` (liveness), `ImplementsExchange` (refinement) |
| `export` | an 8000 W unit that mirrors or not, any register contents, limits at the resolution of the ratio, at the rating and beyond the range | `LimitInForce`, `NeverMismatch`, `RepeatWritesNothing`, `EnablingAppliesTarget`, `CapStaysBelow` |
| `polls` | 3 devices, 2 realtime and 2 slow components, one of them optional, every entity description mapped onto them, 2 faults | `PollTypeOK` (with the lock discipline), `SetupSettles`, `OnlySilenceCounts`, `StuckLinkRecovers`, `ServedIsShown`, `EntitiesAreShown` (the last three liveness) |
| `entries` | 2 entries, 2 flows, inverters on shared and on other links, 2 moves | `EntryTypeOK`, `OneEntryEach`, `EntryFindsItsInverter`, `SpacingFollowsEntries` |
| `totals` | readings around one percent of 100, and a reset, 4 changes, 3 faults | `TotalTypeOK`, `HeldIsClose`, `TotalIsKept`, `OnlyResetsLower` |

Two runs end in a violation that TLC finds, each of a statement of the code's own
documentation (`findings` in `PROJECT.json` quotes them):

| Run | The documentation's statement | What happens |
|---|---|---|
| `unverified_reversal` | reversing a forced mode goes through a STOP (`LIB/control.py:187`) | after a call with `verify=False` the fresh mark of an old cache hides the running direction, and the new power is written while the old direction is forced |
| `stop_race` | a later start does not resume a forced mode (`INT/control.py:221`) | restore and stop are two holds of the lock; a forced mode slips in between |

### Disagreements

Further places where the modelled code and its documentation differ. They are not
runs; where a property would meet one, its exception is stated in the property, or,
for `ShownIsTrue`, in the bound of its run.

* `INT/control.py:65` says that what is published is something the inverter
  answered. A re-read outside the lock (line 143) publishes after its last read, so
  with two services a value older than another call's unanswered write comes back
  over that call's mark-failed. `ShownIsTrue` holds for one caller next to the poll,
  which is what `services` has.
* `LIB/inverter.py:385` says that a write without an answer makes the next guarded
  call re-read. `async_write` (`INT/entity.py:91`) invalidates only after a failed
  read-back; after an unanswered or cancelled raw write the next service may skip a
  write it needs. `MarksAreTrue` has these writes as its exception (`unsettled`).
* `LIB/control.py:186` says that leaving a forced mode writes the EMS mode first;
  only `self_consumption` does, `no_charge` and `no_discharge` restore the other
  limit before.
* `INT/coordinator.py:156` says that after a poll that failed outright only what was
  read comes back; a poll skipped because the lock is taken (line 90) returns the
  old report as a success, and everything it lists comes back. `ShownIsTrue` shows
  that what comes back is still right.
* `INT/coordinator.py:44` counts "polls where nothing answered"; a poll that lost its
  connection half-way, after components had answered, counts as well (line 99).
  `OnlySilenceCounts` therefore speaks of polls that showed nothing.
* `LIB/inverter.py:97` says that after a refused merged block the narrow map still
  works; a read under way when another task narrows the component is refused and not
  tried again. The next poll is: `ServedIsShown`.
* The message spacing is "never 0" (`INT/const.py:39`); with
  two entries on one host and port, unloading one sets the spacing of both to 0
  (`INT/__init__.py:80`). `SpacingFollowsEntries` has this as its exception
  (`released`).
* `exists` says "whether this inverter serves the value" (`INT/entity.py:39`). For the
  active power limit it asks whether the first settings poll has *read* it
  (`INT/number.py:157`, `switch.py:47`): an inverter that serves it has no such
  entities until the next set-up if that one read failed. `EntitiesAreShown` has them
  as its exception.
* "A value derived from several components names them all" (`INT/entity.py:35`); the
  battery mode sensor (`INT/sensor.py:350`) is also derived from the running state of
  `flows`, which the other coordinator polls, and does not name it.

### Bounds

* Registers: `Full = 2`, `Fence = 1`, powers 1 and 2. Plans only compare powers
  with `Full`, `Fence` and one another, so one value below, at and above each is
  all they distinguish. `Fence = Full` is excluded: a restored limit would count
  as fenced. No rating comes near it, but the option `battery_max_power_w` may be set
  to 10 W (`INT/config_flow.py:235`), the default fence, and then nothing the limits
  say tells restored from fenced. `Charge(3)` is a power out of range.
* Two callers and the poll: every race in the code is between two holders of the
  lock, or one holder and one reader outside it. The runs with one caller have
  the poll as the second process. `apply` has one because order within a plan
  does not depend on other callers while the lock is held (`OneCallAtATime`).
* `retry` has the 4 tries the integration asks for (`INT/__init__.py:86`); the
  theorems cover any number.
* `export`: one tenth of a percent of 8000 W is 8 W, so 50 and 70 W lie on either side
  of a step, 60 and 68 W half-way between two (Python takes 60 up and 68 down); 8500 W
  is above the rating and in range, 9000 W out of it. `Ratios` are those around 68 W,
  none, half and all. The theorems cover every limit, either rounding and any ratios.
* `polls`: two components to a poll are the fewest that tell a first read, where a
  timeout ends the poll, from a later one; two faults allow a failure and another one
  in its aftermath, and `LinkSticks` with one more. The three devices between them
  serve a component in each way. Refusals are not faults and come without end.
* `entries`: two flows for a race, two entries for a shared link, two moves for an
  inverter that leaves its address to another one.
* `totals`: 98, 99 and 100 are below, at and above the boundary of one percent; 200
  and 0 are growth and a reset. The theorems cover all readings.
* Nothing else counts: callers call again for ever, and no run has a step bound.
* `apply` does not let the inverter ignore writes: an order of writes means
  nothing when a write is not taken. `race`, `services` and `raw` do.

### Fairness

`FairSpec` and `FairRunSpec` assume weak fairness of the steps of a call that is
under way, and of the poll's. Every exchange ends with an answer or an error
because the link and the retrying unit time out, and asyncio runs every ready
task; the lock is served in order. Nothing is assumed of the outcome of an
exchange, of calls being made, of the poll being due, or of the grace period
ending. `CallsEnd` therefore also says that no order of failures keeps the lock.
`RetryingUnit`'s `FairSpec` assumes that a try ends (the link times out) and a
pause does (`asyncio.sleep`).
`InverterPoll`'s `Fairness` assumes that every read under way ends, that a failed
set-up is tried again (Home Assistant's `ConfigEntryNotReady`), and that a poll comes
due again: strongly fair, because a task that is always busy between two of its turns
would otherwise never be chosen, and for the settings poll because only dumps that
a user asks for keep it from the lock. Nothing is assumed of answers; that faults end
is `MaxFaults`.

## Proofs

`BatteryControlProofs` proves, for any sets of callers and requests, any register
contents, any powers and any assignment of ignored and unserved fields:

* `TypeCorrect`: `Spec => []TypeOK`. The inductive invariant is `TypeOK` itself;
  the lemmas about plans (every plan of a typed request on a typed view is a
  sequence of steps, indices of the remaining steps are in its domain) carry the
  argument.
* `MutualExclusion`: `Spec => []OneCallAtATime`, inductive together with `TypeOK`:
  only `Acquire` enters the lock, when nobody has it, and every way a call ends
  goes through `End`.
* `CacheCoherence`: `FreshMatchesWire` is an invariant when every request
  verifies. It is not inductive: a write changes the wire under a mark. What
  carries it is that a field the call has written is recorded in `written`, that
  only the holder of the lock has a non-empty `written`, and that a call with
  something written leaves the lock only after a complete read-back (which read
  every component of its plan) or by `Fail`, which takes the marks of all the
  components of its plan. The assumption on requests is needed:
  `unverified_reversal` is what happens without it.

It also proves what a call reports and the order it writes in, for the same constants;
every one of these theorems relates the plan of a call, a sequence of up to six steps,
to what the registers hold in the middle of it.

* `VerifiedRight` (`VerifiedIsInForce`): for calls that are read back or not, whatever
  the inverter ignores or leaves unanswered. The inductive invariant `CallsInv` says
  that a call in its read-back executes the plan of its request on some view, and that
  what the read-back has read is cached as it was answered; `Verify` compares the two.
* `UnchangedRight` (`UnchangedIsInForce`): when every call is read back. A call that
  skips its whole plan has compared each step with the cache, whose components it
  `Needed` are marked (`MarkedInv`); the rest is `FreshMatchesWire`.
* `ReversalStopsFirst`, `ForcedStartsRight`, `LimitsStay`, `RestoresFirst`
  (`NoReversalAtNewPower`, `ForcedStartsAsAsked`, `LimitsStayWhileForced`,
  `FencesAfterRestoring`), for calls that are read back and an inverter that takes its
  writes. `LandedInv`, the heart of the invariant, says that a step the writer has
  passed, written or skipped, is in force until a later one on the same field. It is
  not inductive alone: a skipped step was compared with the cache, so it needs
  `FreshMatchesWire`, and a step on a field written before is never skipped on the
  strength of the old value (`RepeatedStep`). The order is then a matter of the shapes
  of plans (`ForcePlanShape` and its like), which the order properties tell apart.

The hypotheses are those of the runs: `Fence < Full` because with `Fence = Full` a
restored limit reads as a fenced one; `Unserved = {}` because a register that is not
forwarded answers 0 whatever it holds; read back, because of `unverified_reversal`;
`MayIgnore = {}` because an order of writes says nothing when a write is not taken.

`ControlRunProofs` proves, for any services, of any callers where nothing else is said:

* `RunTypes`: the bookkeeping of a service (`RunTypeOK`), from `RunInv` and what
  `CallInv` says of the call. A re-read always has a component left, all of them among
  those it is to publish.
* `ShownTrue` (`ShownIsTrue`), for one caller, whatever is ignored, unserved, lost or
  refused and whether or not calls are read back. The heart of the invariant is
  `TrustInv`: a component that is shown, or that may come back on display without
  another read (`Trusted`: what a re-read under way is to publish, what a second attempt
  takes over from the first), has in the cache what the inverter would answer, except
  for a field written and not read since (`Suspect`). A second attempt relies on the
  re-read before it, which covers everything the first one wrote (`AttemptInv`); what a
  poll has read stays true until it reports (`PolledInv`). Between two services nothing
  is suspect. With two callers it is false: the first of the places listed under
  Disagreements.
* `VerifiedRunRight` (`VerifiedRunIsInForce`), where every register is served and a
  restored limit is not a fenced one (`Fence < Full`). With calls that are all read back
  it holds for any number of callers: the arguments of `VerifiedRight` and
  `UnchangedRight`, which here must survive reads outside the lock. With one caller it
  needs no such thing: a second attempt that has nothing to write is right because of
  `TrustInv`, not because of the marks.
* `StopRight` (`StopFindsSelfConsumption`), for one caller whose every stop directly
  follows a restore that is read back (`RestoreBeforeStop`, `INT/control.py:216`), whose
  forced modes are read back and whose EMS word is served. The restore may find nothing
  to write, so the invariant must say when the cache may be believed: `EmsInv`, a marked
  EMS mode that differs from a register outside self-consumption was written by a forced
  call still under way. `StopInv` carries the result from the end of the restore to the
  stop, and `OrderedInv` and `ReturnInv` say that the restore cannot be left out or
  returned from unverified. Each hypothesis is needed. A second caller can force the
  battery between the two (`stop_race`). A forced mode that is not read back
  (`verify` is an option of the service, `INT/services.py:94`) may leave a mark on what
  it overwrote, and the restore then sees no reason to write.

`RawWriteProofs` proves, for any callers, entities, services and faults:

* `RawTypes` (`RawTypeOK`): one lock for calls, the poll and entities, cancelled and
  failed writes included.
* `MarksStayTrue` (`MarksAreTrue`), when every call is read back. The invariant carries
  the argument of `CacheCoherence` through the entities: a component with a mark that
  is not true is `Covered`, by the call that holds the lock with something written, by
  the entity that does, or by `unsettled`.

`ExportLimitProofs` proves all five properties of `ExportLimit`, for a nominal power that
is unknown or a kilowatt at least (`KilowattUnit`; `LIB/models.py` starts at 3 kW):
`LimitTakesForce` (`LimitInForce`), `RoundingNeverMismatches` (`NeverMismatch`),
`RepeatsAreUnchanged` (`RepeatWritesNothing`), `NoStaleLimitEnabled`
(`EnablingAppliesTarget`) and `NoPrefixLetsOutMore` (`CapStaysBelow`). They rest on
arithmetic that no run can settle: for every limit and rating, a ratio an inverter
derives from the watts, and watts it derives from a ratio, however it rounds, stay
within the tolerance of one tenth (`RatioOfAgrees`, `WattsOfAgrees`). Below a kilowatt
they do not, a watt is then more than a tenth of a percent. The inductive invariant
`ExportInv` says what the registers hold after each step of a plan.

`RetryingUnitProofs` proves, for any tasks, values and policy:

* `UnitTypes`: `Spec => []UnitTypeOK`, the bound on the tries included.
* `RetriesAreIdempotent`: `Spec => []RetryOverwritesNothing`. It needs that two
  writes never overlap, pauses included, which is the second half of the
  inductive invariant `RetryInv`.
* `RetryingUnitIsOneExchange`: `Spec => ImplementsExchange`. A request opens the
  exchange; a failed try that is repeated takes the write or is a stutter; the
  start of the next try is a stutter; an answer, the last failure and a
  cancellation close it.

`TotalSensorProofs` proves, for any set of natural readings and any bounds:
`TotalTypes`, `DipsNeverAddUp` (`HeldIsClose`), `TotalSurvives` (`TotalIsKept`) and
`FallsAreResets` (`OnlyResetsLower`). The inductive invariant `TotalInv` is the first
three and that a listed component was read; dips do not add up because a held value is
compared with the one shown, never with the last one read.

`ConfigEntriesProofs` proves, for any entries, flows, inverters and addresses:
`EntryTypes`, `OneEntryPerInverter`, `EntriesFindInverters` and `SpacingFollows`. The
inductive invariant `EntryInv` is the conjunction of the four with the domains of the
functions. What lets one argument serve every flow is `FlowsJoin`: whatever a flow
does, it changes flows only, or it gives an address to the one entry (`Joins`) that
has, or gets, the serial answering there.

`InverterPollProofs` proves, for any lists of components, any devices and any number of
faults:

* `SilenceIsCounted` (`OnlySilenceCounts`), from an invariant that bounds both counts.
* `TurnsAreTaken` (`PollTypeOK`): setup, polls and dump take their turns, and the
  settings poll and the dump never hold the lock together.
* `SetupFindsWhatIsServed` (`SetupSettles`). The invariant `PollInv` has, for a setup under
  way (`FoundInv`), that the optional blocks it has passed are kept exactly when the
  device serves them; a setup that failed half-way has only dropped what is not served,
  so the next one may start from what is left. Passed means before the current block in
  `Order`; that there is a foremost block of those left is the well-foundedness of the
  numbers.

Constants are assumed to be what the code makes sure of: `Fence <= Full`
(`_limits` raises otherwise), `None` is no register value, no set of components and no
set of blocks, the poll is not a caller, requests and registers have their types, the
component lists are not empty, only the firmware block is ever blank and only the
identity foreign.

Only model-checked: all liveness, which is outside the prover's reach, as is `ENABLED`.
Most of the invariants above were first checked by TLC on the instances of the runs,
and on larger ones where they fit.

## Abstractions and what is not modelled

* A component is read in one step, and in any order under the lock. In the code a
  component is a few blocks; between them the lock keeps writers away, except for
  the re-reads outside it, where a component may mix two moments.
* A write lands when it is answered or given up, never later: the link answers
  requests in order.
* The program is the sole writer of the registers.
* Services are made after the first successful poll, raw writes of available
  entities; a cancelled service is shielded and needs no action.
* `ExportLimit` has one call at a time and no unread call; what the lock and
  the cache do for it is `BatteryControl`.
* `InverterPoll` has no values and no control calls: a guarded call is to the polls
  what the dump is, a holder of the lock that reads. A component is one block there; a
  narrowed one is read in one step, too.
* The first refreshes are not interrupted by an unload, and an entry in set-up is not
  reloaded or removed (Home Assistant holds the entry's set-up lock).
* A probe is one moment in `ConfigEntries`; in the code it reads the identity, which has
  the serial, and then the ratings. Home Assistant may also give an entry that is in
  set-up a new address, without reloading it; there this waits for the set-up.
* A dump that finds the lock taken waits in line; in `ControlRun` it begins when the lock
  is free, which allows the same orders of calls, polls and dumps.
* `ConfigEntries` lets a set-up fail at any time and a probe give up at any time; which
  error message either shows is left out.
* Not modelled: the guard that refuses an active power limit of 0 on a unit that stops
  at 0 (`INT/number.py:199`, `INT/switch.py:79`), which is about registers nothing else
  here writes; decoding and units of the measurement registers, error texts and the
  layout of diagnostics, without state; the scripts, sequential tools around the
  library (`query.py`, `survey.py`, the library's `control.py` command line), and
  `async_update`, which only they call.

## Plan

1. An abstract specification of the guarded layer, calls that take effect one at a
   time under failures, with `BatteryControl` shown to implement it.
2. The guard of the active power limit, next to a writer of its registers.
