# Verification of the Lima plug-in for the Xspress3 detector

TLA+ models of the Camera of this plug-in, TLC runs that check them on small
instances, and TLAPS proofs of their main properties for every value of the
constants. Everything is about `src/Xspress3Camera.cpp` unless another file is
named; numbers in parentheses are lines of it.

## 1. The system

| part | state | operations | works with |
|---|---|---|---|
| acquisition engine: `startAcq`, `stopAcq`, `getStatus`, `isAcqRunning`, `AcqThread`, `ReadThread`, the destructor (84-91, 143-390) | `m_status`, `m_thread_running`, `m_wait_flag`, `m_read_wait_flag`, `m_quit`, `m_abort`, `m_acq_frame_nb`, `m_read_frame_nb`, one mutex with one condition | start, stop, poll, delete; the loops of two threads | the SDK (start, pause, continue, stop, check progress), the Lima buffers (`newFrameReady`) |
| timing configuration: `setNbFrames`, `setExpTime`, `setTrigMode`, `setTimingMode`, `setTiming`, `setItfgTiming`, `setCard`, `init`/`reset` (93-131, 432-545, 1011-1014, 1451-1529, 1690-1746) | `m_trigger_mode`, `m_exp_time`, `m_nb_frames`, `m_card`; the timing registers of each card, the internal time frame generator of card 0 | each setter stores its argument, then programs the detector card by card | `SyncCtrlObj` forwards Lima's calls; `startAcq` and the threads read what was set |
| frame data: `readFrame`, `readHistogram`, `readScalers`, `correctScalerData`, `readRawHistogram`, `setUseDtc` (1126-1354) | the ring of Lima buffers, `m_use_dtc` | copy a frame in; copy a histogram or scalers out, corrected or not | written by the read thread, read by the user's thread |
| run mode, data source, playback, scope (587-627, 1363-1429, 1556-1688) | run flags and format registers in the detector | read-modify-write through the SDK | playback also sets run mode and data source |
| connection, clocks, settings (93-131, 570-585, 746-770) | SDK handle, clock registers, all registers on `restoreSettings` | `init`, `reset`, save and restore | `reset` runs it again on a live Camera |
| prepareAcq, clear mode, arm (133-141, 927-987) | `m_clear_flag`, the histogram memory | clear, arm | called by Lima before `startAcq` |
| windows, thresholds, scaling, dead time parameters, ROIs, fans, temperatures | none | one SDK call each | `formatRun` and `init` reset the ROIs |
| `Interface` (`Xspress3Interface.cpp`) | none | `reset` (a stop, then `Camera::reset`), status, number of frames acquired | Lima's control layer, the Camera |
| `SyncCtrlObj`, `DetInfoCtrlObj` | none (forwarding) | Lima's hardware interface | the Camera |
| SIP, Python, Tango script, tests | none | - | the Camera |
| Lima library, Xspress3 SDK and firmware | external | - | modelled from how `src/` uses them |

Who calls whom: Lima's control thread calls the Camera (configure, `prepareAcq`,
`startAcq`, poll, `stopAcq`). `startAcq` resets the counters, starts the
detector and wakes the acq thread. That thread paces the detector or polls its
progress, counts frames in `m_acq_frame_nb` and signals the read thread, which
copies the counted frames into Lima buffers and announces them; when all are
read it wakes the acq thread, which goes Idle. A user reads histograms and
scalers out of the same buffers at any time.

### What is hard

* Most shared state is read and written without the mutex: the counters (145,
  146, 201, 233, 341-355), the flags and the status at the end of an
  acquisition (289-291). The order of two threads decides.
* The acq thread waits for the read thread without a condition (286); wakeups
  can be lost, and a stop comes at any place.
* The read thread releases a mutex it does not own once it has read all frames
  (370, then 319), so mutual exclusion is not what it looks like.
* Any SDK call may fail: in a thread it ends the thread; in a setter it leaves
  some cards programmed and others not, and `m_card` in the middle of its walk.
* The frame data goes through a ring that the reader does not lock.
* `Interface::reset` sets the status to Idle without the mutex (123), whatever
  the threads are doing.
* Register words are read, changed and written back in separate SDK calls, and
  calls act on one card, all cards, one channel or the whole system depending on
  the call and on `m_card`; the order of the calls in `init` and `formatRun`
  decides what is left in the channels.

What makes each part correct: frames reach Lima once, in order, complete and
under their own number, and the counters tell the truth about it; Idle means
what callers take it for; calls return and a stop is honoured; the detector is
configured as the getters report, on all cards; what a user reads is of the
frame and channel asked for. The full list of hazards, each with its line and
the properties that cover it, is under `hazards` in `PROJECT.json`.

## 2. Modules

| module | what it is |
|---|---|
| `LimaCond` | the mutex and condition of a Camera, with the AutoMutex wrapper (external) |
| `Xspress3Acq` | the acquisition engine: acq thread, read thread, control thread, detector; on `LimaCond` |
| `Xspress3AcqInv` | the inductive invariant of one acquisition |
| `Xspress3AcqProofs` | type correctness and the way of a stop to Idle, for any number of acquisitions; delivery of the frames of one |
| `FrameDelivery` | the abstract specification: what Lima's control layer is promised |
| `Xspress3Delivery` | the acquisition engine as an implementation of it, and the invariants this rests on |
| `Xspress3DeliveryProofs` | mutual exclusion and the detector, for one acquisition |
| `Xspress3Series` | the inductive invariant of several acquisitions |
| `Xspress3SeriesProofs` | delivery, Idle, and the refinement, for any number of acquisitions |
| `MCAcq` | instances for TLC |
| `Xspress3Setup`, `MCSetup`, `Xspress3SetupProofs` | the timing configuration |
| `Xspress3Readback`, `MCReadback`, `Xspress3ReadbackProofs` | the frame data |
| `Xspress3Registers` | the register words of `sdk/include/xspress3.h`: fields, codes, offsets |
| `Xspress3RegistersProofs` | that a field of a register reads back what was put in it |
| `Xspress3Control`, `MCControl` | the other calls of the Camera, on `Xspress3Registers` |
| `Xspress3ControlProofs` | types, registers and memory of the control calls |
| `Xspress3ControlCallProofs` | what whole calls achieve: init, stop, loadPlayback, formatRun, the getters |

### The acquisition engine (`Xspress3Acq`)

The variables have the names of the members. `acq_pc`, `read_pc` and `ctl_pc`
are the places of the three threads; a step goes from one access to shared
state to the next, so a read-modify-write without the mutex is two steps
(`count` and `store` for `++m_acq_frame_nb`, `incr` and `store` for
`++m_read_frame_nb`). A critical section that nobody can see half-done is one
step. `completed_frames`, `frame`, `continueFlag` are the locals; `acq_reg` and
`read_reg` are the values loaded by the two increments. `frame` is the frame the
read thread is at: the buffer chosen (342), the data read into it (346) and
whether it was complete.

The detector is three variables: running, frames that ended (`hw_closed`), and
frames whose data is in memory (`hw_done`, what `checkProgress` reports). In
IntTrig frames end by `pause` and `stop`; in the other modes gates that come at
any time end them, up to `ExtraGates` more than were asked for. `delivered` is
the sequence of `newFrameReady` calls.

SDK failures (`AcqFault`, `ReadFault`, `CtlFault`) throw out of the function:
a thread dies, its AutoMutex destructor releases the mutex only if that object
remembers a lock. The caller may start again according to `Policy`: `any`
(once), `running` (the tests' loop on `isAcqRunning`), `status` (as soon as the
status is Idle), `control` (Idle and all frames announced, or stopped, which is
what Lima's control layer waits for), `finish` (the same, but an acquisition that
was stopped is the last one). With `Resets` the caller also calls
`Interface::reset`: the stop (`StopAcq`), then `Camera::reset`, whose `init` may
fail and which ends by setting the status (`ResetStatus`), without the mutex and
wherever the threads are. What `init` does to the cards is in `Xspress3Setup` and
`Xspress3Control`.

### The promise (`FrameDelivery`, `Xspress3Delivery`)

`FrameDelivery` is the device Lima believes in, without threads, mutex or
counters: it is ready or not, is asked for a number of frames, gives the frames
one after the other, each in its own buffer with its own data (and complete, if
frames end on gates), reports their number, and is ready again when all were given
and counted, or when it was stopped. `Promise` in `Xspress3Delivery` maps its
variables to those of the engine: `ready` to `Interface::getStatus` (a Paused
detector is busy), `given` to the `newFrameReady` calls, `count` to
`getNbHwAcquiredFrames` (`m_read_frame_nb`), `stopped` to `m_abort` or `m_quit`.
A reset may therefore report ready while a thread is still at work, as after any
stop; what it may not do is disturb the order or the count of the frames.

### The timing configuration (`Xspress3Setup`)

One thread calls; what a call has still to do is the sequence `todo` of SDK
calls, each with the `setCard` before it, and one step makes one of them.
Arguments are validated where the code validates them (inside `setTiming` and
`setItfgTiming`, so after earlier cards were written), and any SDK call may fail
with some of the selected cards written. `time_a` holds the register of each
card as source, TTL mode and debounce time; `first_frame`, the inversions and
`loop_io`, which `setTimingMode` never sets, are left out. Times are multiples of
2.5 ns, so both 12.5 ns (frame generator) and 20 ns (`getExposureTimeRange`) are
whole. `applied` remembers that the last thing that wrote the timing was a setter
that returned; `chosen` that the user, or a failing SDK call, left a card selected.
Negative exposure times are left out.

### The frame data (`Xspress3Readback`)

Words are named by what they measure: acquisition, frame, channel, item. The read
thread copies a channel's pixels, then its scalers, through a moving pointer
(`bptr`); the user's copy goes word by word, from offsets computed by
multiplication, with `m_use_dtc` read once. Of the correction it is modelled
which words it was calculated from and which values it touches, not the
arithmetic. `BufferOf` is Lima's mapping of frames to buffers, assumed only to
give different buffers to frames less than the ring apart. An acquisition starts
when the read thread is between frames: what happens otherwise is the subject of
`Xspress3Acq` (run Restart).

### Registers and control calls (`Xspress3Registers`, `Xspress3Control`)

A word is the set of its bits that are 1, so the code's `|`, `&` and `&~` are
union, intersection and difference. `Xspress3Registers` gives each register of
the SDK header as two functions from field names to bits: what the setting macros
write and what the getting macros read, with the codes of the fields that hold a
choice, the offsets in the register blocks and the sizes of the memories.
The tables are constants. The behaviour of the Camera depends on the run flags, the
channel control word, the format word and the clock flags only, and of the getters
`FormatAsAsked` uses those of the format word. The header has two getters that do
not match their setters (`TRIGB_RINGING` `DELAY_A` and `XTK_CORR_C` `SERVO_MASK_STRETCH` shift by 1
instead of 11) and one for two setters (`GLITCHA` has fields of 8 and of 10 bits);
the tables have them as they are, and Camera uses none of the three.

In `Xspress3Control` one thread makes the calls. A call is a sequence `todo` of SDK
calls, each with the `setCard` before it, if there is one; a step makes the first
of them, on the selected cards, the channels of its argument or the whole system,
and it may fail when it was done on some of these only. The detector counts
meanwhile (`Count`, `Drained`); a stopped card is draining until its data is in
memory. `stop()` polls until two polls were idle (`RunPoll`); a poll that was busy, or
failed, changes nothing in the call (`PollBusy`). While a card counts every poll is
busy. While one drains, the SDK's threads may be idle for a moment and busy again, so a
poll may go either way, but two idle ones in a row (`seen_idle`) are taken as the SDK's
documentation has them: nothing is left. `reg` is the word between a read and the write
after it, `mem` what the memory holds of each frame (cleared, of this run, or
left over), `saved` the settings file, `asked` and `asked_mode` what the user set
last, `split` that a card was selected alone or an SDK call failed, after which
cards may differ. A setting whose value nothing depends on is its name.

Assumed of the SDK: `xsp3_config` leaves the registers as they are;
`xsp3_histogram_clear` rejects more frames than there is memory for; an
`xsp3_histogram_*` call that fails may have reached some of the selected cards.
`xsp3_get_generation` is not tested by the code (107): an error is no generation,
and `init` goes on with another clock. `pause()` outside an acquisition leaves the
status Paused, and `restart()` does not set it back: `m_status` says so here too.

## 3. Runs

| run | what it shows | bounds |
|---|---|---|
| Once | one acquisition with a stop or a reset, an SDK failure, spurious wakeups and refused frames anywhere: order, counters, complete frames, the mutex held while counting, a stop that leads towards Idle in a bounded number of steps, and that the invariant of the proofs holds | 1-3 frames, 1 extra gate, 1 start, 1 stop or reset, 1 fault |
| Series | acquisitions do not disturb each other when the caller lets each finish, also if a frame is refused, an SDK call fails or the last one is stopped or reset; Idle means all read and, in IntTrig, the detector stopped; the promise of `FrameDelivery` is kept by all of them; the invariant of the proofs holds | 3 starts, 1-3 frames, 1 stop or reset, 1 fault |
| Live | `startAcq`, `stopAcq` and `reset` return; a stop while frames are taken, or while the last are read, ends in Idle; an unused Camera can be deleted; the promise is kept through stops, resets, refused frames and the destructor | 1-2 frames, 1 start, 1 stop or reset |
| Internal (violation) | IntTrig frames may be read before they are complete | 3 frames |
| TestLoop (violation) | the tests' loop may end before the acquisition began | 1 frame |
| Wakeup (violation) | the read thread's wakeup may be lost, the status then stays Running | 1 frame, fair threads |
| Restart (violation) | a start after a stop shares its counters with the old read thread | 2 frames, 2 starts, 1 stop |
| Setup | any sequence of the timing calls, valid or not, with SDK failures: configured as reported, all cards selected, no wrap | 2 cards, 32 bits shrunk to `UintMax` = 15 |
| SetupRange (violation) | times below the advertised maximum are rejected | as Setup |
| Readback | what a user reads is of the frame and channel asked for; without correction the scalers come as `readScalers` documents them | 2 pixels, 9 scalers, 2 channels, 2 buffers, 3 frames, 2 acquisitions |
| Control | any sequence of the other calls: read-modify-write keeps the other bits; getters report what was set; `formatRun`, `loadPlayback`, `init` and `stop` leave what they promise on all cards and channels; a cleared run counts on nothing old; a stop comes to an end, whatever its polls answer on the way | 2 cards of 1 channel, generation 3, memory for 2 frames, 3 calls after the constructor, 1 fault; fair calls and detector |
| StopPoll (violation) | a stop may return with data on its way: idle, busy, idle is enough for it | as Control, 2 calls, no fault |

Why the bounds suffice: three frames have a first, a middle and a last one,
which are the three cases of the acq thread (224-231), and let the read thread
lag by more than one; one extra gate exceeds the count the clamp (267) is for;
the third acquisition in a row follows one that itself followed another. Two
cards are one with the generator and one that follows it; `UintMax` = 15 puts an
accepted, a just accepted (70) and an advertised but rejected (90) time
within reach, a zero and a too short one. Two buffers and three frames go round
the ring. In Control two cards tell the selected card from all, a channel on the
second card tells the first from the last, three frames are more than the memory
holds, and three calls are one that makes a state, one that must keep it and one
that asks about it; a reset counts as a call and makes up to six SDK calls, at any of
which the fault can strike. `UintMax` is odd, as 2^32 - 1 is, which the limit
`2.0 * 0x7FFFFFFF` = `UINT_MAX - 1` relies on. `nb_frames` = 0 (endless) is not
modelled: 224 and 341 make it run without end.

What `stop()` achieves is in three properties. `StopReaches`, whatever card is
selected: the selected cards are told to stop before the first poll, and no card
counts when it has returned. `StopReturns`: it comes to an end, unless a card it does
not stop counts (it polls all of them, 973, and then goes on for ever; no document says
what it should do). `StopFlushes`, that no data is on its way when it has returned, is
what `sdk/include/mainpage.h` 94-95 promises after two consecutive idle polls; it is
violated, since `stop()` does not set its count back at a busy poll between two idle
ones. With the count set back it holds. Of the Xspress3 Mini the same page says that
these polls have no meaning.

The violations are disagreements between the code and what a comment, a test or
the SDK's documentation says; each is quoted under `findings` in `PROJECT.json`.

Deadlock is checked in all runs but Control and StopPoll: an idle Camera can
always be called, and a deleted one stutters (`Closed`). In these two the calls
are bounded by `MaxCalls`, after which nothing need happen.

Fairness (Live, Wakeup, Control): weak fairness of each thread's next step, of the steps
of a call that was made, and of the detector finishing the transfer of a frame.
The code's scheduling justifies it: these are threads of a preemptive system and
a detector that works. It is not assumed that anyone calls the Camera, that
external gates come, or that an SDK call fails. In Live and Wakeup spurious wakeups are
off: nothing bounds them, and with them a thread could keep taking the mutex,
which weak fairness does not exclude. In Control, for `StopReturns`, the same is assumed of the thread
that calls (it makes its next SDK call, and does not poll at a busy moment only, when
nothing counts any more) and of the data of a stopped card, which arrives (`Drained`).

A stop that comes after the last frame was counted finds the acq thread waiting at
286, and `stopAcq` does not broadcast. `LateStopHonoured` says that it is honoured
if the read thread is in its loop: it goes on reading, stop or no stop, and its
broadcast ends the wait. Three cases are outside of what the code does: a frame
that Lima refuses (the loop ends early, 354); a read thread that left its loop
before the last frame was counted and has not set its flag yet (365-373), so that
the signal for the last frame is overwritten, with or without a stop; and one that
had not started, which the stop sends back to sleep (327). In the last two both
threads wait for ever. Nor does deletion return after or during an acquisition:
the acq thread may wait at 286, where `m_quit` is not tested, or a thread may end
owning the mutex.

Each property has a mutant of a mapped definition that violates it in that run;
they stand in the modules before the definitions they replace.

## 4. Proofs

All proofs are for arbitrary constants, under the named `ASSUME` of the module.

*Acquisition.* `TypeCorrect` holds for any number of starts, stops and faults. It
has one lemma per thread. `FramesInOrder`, `ReadStaysBehind`, `CountIsDelivered`
and `FramesAreWhole` are about one acquisition (`MaxStarts <= 1`), with any number
of frames, gates, stops and faults; the run Restart shows that a second one needs
conditions on the caller. None of them is inductive alone. `SingleRunInv` adds:
before `startAcq` releases the threads neither is in its loop and both wait flags
are set (`Dormant`), which is what makes the unlocked resets at 145-146 safe; the
acq thread's count stays below the frames asked for at the places where it will be
incremented, and equals the value it has loaded; in the external modes it is
below what the detector completed; the read thread is strictly behind the count at
the places where it reads, and its locals are those of the frame it is at.
`DeliveryInv` is this invariant with the one about complete frames
(`DeliveryIsInvariant`), and TLC checks it in the run Once.

*A stop.* `StopBounds` is about any number of acquisitions, under every policy, with
faults and spurious wakeups. `StopPlaces` numbers the places between the wait for
work and Idle, and no step of a stopped acq thread leads up: it cannot come round to
a place again, so it counts at most once more (in the external modes all the
frames of one last poll), and back in its wait it stays there, since a stop also
sets the flag it waits on (`StopWaits`). This is the part of `AbortHonoured` that
needs no fairness. That each of these steps is taken, because the detector falls
idle (968) and completes the frame being counted (238), is what fairness adds; at
286 not even that is enough, see `LateStopHonoured`.
The numbers are the worst case, not times: a poll takes half a second.

*Mutex and detector.* Still about one acquisition. `CountingIsExclusive` needs to know
who owns the mutex where the code takes it for granted (`LockInv`): each thread
does, except the acq thread once it has left its loop for good and the read thread
from then on, so that the read thread's `wait()` without the mutex cannot take it
from a thread that counts. From the second acquisition on this fails: that `wait()`
then releases the mutex while the acq thread counts, which TLC shows when the
property is added to the run Series; the other properties of that run hold all
the same. `DetectorIsStopped` rests on `DetectorInv`, which follows the choice
between pause and stop (224) to the count it was made for.

*Several acquisitions.* The second start rewinds the counters (145, 146), forgets the
detector's frames and lets the threads go while nothing but the caller's patience
keeps the threads of the first away from them; the run Restart shows what happens
without it. `CallerFinishes` says what patience is enough: start once, or start
again only when the status is Idle and all frames were announced, and not after a
stop. The theorems are then about any number of acquisitions and frames, with
failing SDK calls, refused frames and a stop, reset or deletion at any point of the
last. `SeriesInv` is inductive (`SeriesInvariant`; TLC checks it in Series). At its
heart is `SettledInv`: whenever the caller is in a start, or may come to one without
asking again (`MayRestart`), both threads are settled, that is, only a start, the
signal of a counted frame or the destructor gets them going again (`AcqSettled`,
`ReadSettled`). The lemmas are: a settled thread stays settled under every step of
either thread and touches neither counter nor frame (`SettledStays`); and a caller
that is told it may start finds both settled (`ToldSettled`). The latter rests on
`FinishInv`: nothing but the read thread's last broadcast, or the destructor, ends
the wait at 286, that broadcast comes with the read thread past its loop, and the
status becomes Idle only after it. Hence the assumption that wait() does not return
by itself, which the code makes too: it tests no condition there. Once the threads
are settled the lemmas about the counters, frames and detector of one acquisition
apply again: `SeriesInOrder`, `SeriesStaysBehind`, `SeriesCounts`, `SeriesWhole`,
`SeriesStopsDetector`, `IdleIsAllRead`. Who owns the mutex plays no part, as it must
not: see `CountingIsExclusive`.

*Refinement.* `KeepsPromise`, under the same assumptions: every step of the engine is
a step of `FrameDelivery` or leaves its variables alone. There is a lemma for each
thread. That `GetReady` happens only when all was given and counted is `FinishInv`;
that `Give` appends the next frame with its own buffer and data is `ReadInv` with
`CountMatchesDelivered` and `WholeInv`; that `Ask`, `Begin` and `LetGo` find the
device ready is `SettledInv`.

*Timing.* `SetupTypeCorrect`; from it `ExposureIsProgrammed`: the bound tested
before the conversion implies that the modulus does nothing. `CardsStaySelected`
rests on `SelectInv`: what a call has still to do is either a walk (it ends by
selecting all cards, and everything before that is valid by construction) or it
selects nothing and all cards are selected already. `ReportedIsConfigured`
(`ConfigInv`): the cards before the one the walk is at are written, and the frame
generator is given what had just been stored; so after the last card the registers
say what the getters report.

*Frame data.* `ReadbackInv` says where `bptr` is in terms of the channel
(`Layout`), that all items before it are in the places the readers compute
(`Written`), that frames whose buffer is not reused are intact, and that what a
call has copied so far is good as long as it is undisturbed (`UserInv`).
`ReadbackTypeCorrect` (no write outside the frame), `KeptFramesIntact` and
`ReadersReturnTheFrame` follow, for any dimensions and ring length. The arithmetic
of rows is in lemmas of its own (`Rows`, `PlaceType`, `PlacesDiffer`).
`AvailableAfterAnnouncement` follows from the exact difference between the two
counts, and `ScalersLaidOut` from what a call without correction has copied so far
(`UncorrectedInv`): where the dead time goes is settled when `m_use_dtc` is read.

*Control calls.* For any cards, channels and number of calls. `ControlInv` has three
parts: the types of what a call changes (`Progress`) and of what the SDK keeps
(`Contents`), and that what a call has still to do is well formed, where a write of
a channel control word or of run flags comes right after the read of the same one,
with the word held between the two only (`TodoInv`). `ControlTypeCorrect` and
`OtherBitsKept` follow. `FramesAreOwn` needs only the types: `OwnCounts` is
inductive with them. What a whole call achieves needs more: `CallInv` says that
the SDK calls it has still to make are the end of the sequence it began with
(`Shape`), and, for each of `stop`, the walk of `init` over the cards,
`loadPlayback`, the setters of the cards and the getters, what the SDK calls already
made have done. Where nothing is left, this is what the call promised:
`StopReachesCards`, `CardsAreAlike`, `InitIsWhole`, `LoadedPlays`, `AnswersAreSet`. The
conditions on the selected card and on failed SDK calls are in the properties; that of
`stop` needs none (`StopInv`).

*Register words.* `Encode` takes the bits of a number, `Decode` is a CHOOSE, so that
a field reads back what was put in it has to be proved: a number below 256 is the
sum of its bits, hence two that agree on the bits of a field of 2, 3, 4 or 8 bits
are equal (`ReadsBack`, for any place of the field and any number that fits).
`FormatIsAsked` puts it to use: `FormatCallInv` says which of its one or two SDK
calls `formatRun` has still to make and what those made have done (the word in the
channels, no ROI anywhere), and `FormatDecoded` that the four getters read from that
word the codes of the arguments, for all arguments `formatRun` accepts.

*Only model-checked:* the liveness properties (liveness under fairness and ENABLED
are beyond the proof system). No module declares a RECURSIVE operator; what
recursion over data computes for every input could not be proved and would stay
with TLC. Every invariant and every action property without fairness that a passing
run checks is a theorem.

## 5. Not modelled

* SIP bindings, the Python module, the Tango script: declarations without
  behaviour.
* The getters, which keep no state (but `getDataSource`, `getRunMode` and those of
  the timing, which properties are about); temperatures; the values of the dead
  time (that `xsp3_get_trigger_b` is not tested, 1226, is therefore listed as a
  hazard without a property).
* `nb_frames` = 0; channel -1 of the readers (`Xspress3Camera.h:217`), which
  addresses memory before the frame; negative times: outside what the data types
  of the models hold, and no property would say more than that they are wrong.
* C++ lifetime: a constructor that throws with its threads running.
* `init` of a reset interleaved with the SDK calls of the threads through `m_card`:
  the engine has one detector, not cards.
* What the clock chips, the DMA and the event lists do; the DMA and data module
  headers of the SDK describe interfaces that Camera does not use.

Disagreements between code and documentation that no run shows, because each is
local: `formatRun`'s documentation of `adc_bits` (1537-1544) lists
other values than the code accepts (1577); the documentation of the time sources
and TTL modes (1434-1445) differs from the codes of the header;
`getFanTemperatures` asks the cards before the selected one. With the correction on,
`correctScalerData` fills the scalers through a pointer of its own, so `readScalers`
stores the dead time and the factor over scalers 0 and 1 (1234-1235) and leaves unset
the "scalar 9" and "scalar 10" of its comment (1187-1188); `AppendDeadTime` is
modelled so, and `ScalersAsCommented` is about the calls without correction.

## 6. Plan

Done: `LimaCond`, `Xspress3Acq` with `Interface::reset`, `Xspress3Setup`,
`Xspress3Readback`, `Xspress3Registers`, `Xspress3Control`, `FrameDelivery` and the
refinement, and the proofs above, of every safety property the passing runs check.

Next: cards in the detector of `Xspress3Acq`, to compose a reset with the threads.
