# Verification of the MFM disk emulator and reader

This directory holds TLA+ models of the programs of this repository, the TLC
runs that check them, and proofs checked by TLAPS. The repository holds two
tools for a BeagleBone with an MFM (ST-506) interface board:

- `emu/`: `mfm_emu` emulates one or two disk drives for an original disk
  controller. Two PRUs (small real-time cores) serve the interface; two threads
  on the ARM move cylinders between an image file and DDR memory.
- `mfm/`: `mfm_read`, `mfm_write`, `mfm_util` and helpers read and write a real
  disk and convert images; they share the file format and PRU code with `emu/`.

The emulator is the concurrent part: five processors and threads, no locks, and
words of memory and registers that each rely on the other side to be in the
right place of its program. It was modelled first. The disk reader is the other
program with threads and a PRU, and with retries on top; the writing of emulator
images and the decoders that read them are two descriptions of the same forty
track formats that have to agree.

## Inventory

| Component | Source | State it keeps | Operations | Modelled in |
|---|---|---|---|---|
| ARM threads of the emulator | `emu/mfm_emu.c`, `mfm/emu_tran_file.c` | track buffer with `get`, `put` and a semaphore; `cyl[]`, `new_cyl[]`; the image file | `emu_proc`, `emu_proc_write`, `update_buffer`, `send_PRU_cyl_data`, `shutdown` | `EmuThreads` |
| PRU access of the ARM | `mfm/pru_setup.c` | command word, events | `pru_exec_cmd`, `pru_shutdown`; mapping and loading are device access | actions of `EmuThreads`, `EmuSeek` |
| PRU 0, seek and select | `emu/prucode0.p` | `CUR_CYL`, `LAST_ARM_CYL`, `WAITING_CMD`, output lines | wait for command, select, head change, step, seek end, exit | `EmuSeek` |
| PRU 0 and PRU 1, data | `emu/prucode0.p`, `emu/prucode1.p` | states and offsets in scratchpad registers, the shared queue, `TRACK_BIT` | read, write, break off a read, exit | `EmuXfer` |
| PRU 1, DMA and rotation time; index | same | DMA addresses, cycle counter | `start_dma`, `find_buf_loc`, `check_rotation`, `set_index` | not modelled: real time, address arithmetic |
| Start-up and command line | `emu/mfm_emu.c`, `emu/parse_cmdline.c` | `DRIVE_PARAMS` | option parsing, memory set-up | not modelled |
| Emulator image writer | `mfm/mfm_util.c`, tables of `mfm/inc/mfm_decoder.h` | place in the track, used sectors, start of the next track | `ext2emu`, `process_track`, `process_field`, `inc_sector` | `TrackFormats`, `SectorSlots`, `Ext2Emu` |
| Emulation and transition files | `mfm/emu_tran_file.c`, `copy_emu.c` | headers, file position | read and write of tracks, delta codec | as an array of tracks in `EmuThreads`, as counts of deltas in `DeltasRead` |
| Disk reader, deltas | `mfm/deltas_read.c`, `mfm/prucode0.p` | `num_deltas`, `streaming`, `deltas_sem`, write pointer and status of the PRU | `deltas_start_read`, `delta_proc`, `deltas_get_count`, `read_track` | `DeltasRead` |
| Disk reader, drive | `mfm/drive_read.c`, `drive.c`, `drive_operations.p`, `mfm_decoder.c` | sector list of the track, `current_cyl`, retry counters, emulation image, statistics | `drive_read_disk`, `drive_step`, `mfm_decode_track`, `update_stats` | `DiskRead`, over `BestReads` |
| Reading from files | `mfm/drive_file.c`, `deltas_read_file.c` | file position | the reader with an image for a drive | not modelled: no threads, no retries |
| Disk writer | `mfm/mfm_write.c`, `drive_write.c`, `mfm_write?.p` | as the reader | write track | not modelled |
| Sector decoders | `mfm/*_mfm_decoder.c`, `inc/mfm_decoder.h` | state of the decoder, `SECTOR_STATUS` list | tracks to sectors | `MfmDecoder`, `SectorDecoders`, composed with the writer in `FormatRoundTrip` |
| CRC and ECC | `mfm/crc_ecc.c` | none | CRC, ECC span correction | what a check value covers: `Ext2Emu`, `SectorDecoders` |
| Analysis | `mfm/analyze.c`, `crc_reverse.c`, `find_crc_info.cpp` | none | heuristic search | not modelled: no state, numeric search |
| Power-fail monitor | `powerfail/` | ADC history | poll, shut down | not modelled: one actor, numeric |
| Scripts, device tree, RLL contribution | `util/`, `contrib/` | - | - | not modelled: configuration |

How the parts of the emulator interact:

- *Seek.* The controller pulses the step line. PRU 0 counts the pulses in
  `CUR_CYL`, and when none has come for a while stores `LAST_ARM_CYL`, sets
  `WAITING_CMD` and interrupts the ARM. The read thread files the dirty tracks
  of the old cylinder in the track buffer, copies the new cylinder to DDR memory
  (file, overlaid by what is still in the track buffer), and writes `CMD_START`.
- *Read.* PRU 1 turns DDR words into PWM words in a queue in shared RAM, PRU 0
  feeds them to the PWM unit; a zero marks the end of the track.
- *Write.* When the write gate goes on the queue changes direction; PRU 1 stores
  the data in DDR memory and sets the dirty bit.
- *Track buffer.* The read thread fills entries, the write thread writes them to
  the image, a semaphore counts them.
- *Stop.* `shutdown()` sets `PRU0_EXIT`, PRU 0 asks the read thread to end with
  cylinder -1, the read thread ends the write thread with an entry of its own,
  and `pru_shutdown()` waits for both PRUs.

How the parts of the reader interact:

- *Deltas.* The main thread sends a read command; PRU 0 captures transition times
  into DDR memory and moves a write pointer. The delta thread copies them on and
  tells the decoder how many there are with two plain integers; at the end it
  appends the track to the transitions file.
- *Decoding.* The main thread decodes while deltas arrive. A sector is written to
  the extracted file when it is better than what an earlier read gave; the list
  of sectors decides whether the track is read again.
- *Retries.* Between reads the heads may step away and back. A header of another
  cylinder makes the reader correct the heads by the difference.
- *Image.* The words of the track are collected next to the decoding; the best
  read and a merge of several are kept, and one of them goes to the emulation
  image when the next track begins.

`ext2emu` goes the other way: extracted file to emulator image, with the layout
of the format as data. `TrackFormats` is shared by it and the decoders.

What is hard in the emulator: a write, a seek and a file write may be under way for the same
track; interrupts of PRU 0 coalesce and are cleared by two calls; the
controller may step, deselect or stop writing at any time; a stop may come in
the middle of each of these. Correct means: the controller reads what it last
wrote; a drive that says seek complete shows the cylinder its heads are on; no
request is lost; nothing waits for ever; a stop ends, with every write in the
image. In the reader: the count of deltas and the end of the read are seen in
different steps of three parties; a track is merged from several reads, some of
them of another cylinder, some with the data of one sector behind the header of
another; `current_cyl` is where the heads should be, not where they are; image
and statistics lag the list they are made from by a track. Correct means: no
delta missed, the best read of each sector kept, in its own place, and said so.
In the formats: every field, bit list, gap and check must agree between a table
and a program, at the ends of their ranges too. `PROJECT.json` lists the hazards line by line with the properties that
watch them.

## Modules

### TrackStore and EmuThreads: no write is lost

`TrackStore` is what the emulator promises, with no threads and no buffers: a
map from tracks to the data last written, the cylinder each drive presents, and
the image that a normal exit leaves.

`EmuThreads` is `emu/mfm_emu.c`. `rpc` and `wpc` are the places in `emu_proc()`
and `emu_proc_write()`; each action is one access to something another party
changes: one read of a word of a PRU, one read or write of a track of the file,
one store of `put`, one semaphore call. A `pwrite()` of a track takes two steps
with the track `Torn` in between, so the read thread can read any mixture. The
track buffer is the array of the code with its indices, including that an entry
is copied before `update_buffer()` looks for room. The PRUs appear as a small
program (`PruTakeStart`, `PruSeek`, `PruWrite`, ...) that changes DDR data only
between taking `CMD_START` and the next interrupt. That contract is not
assumed in the air: it is what `ServesWhileArmWaits` and `WritesStayHome` of
`EmuSeek` check of the PRU code.

The refinement mapping at the end of the module says where the latest data of a
track is: in DDR memory if its cylinder is loaded, else in the last entry of the
track buffer for it, else in the file. `ImplementsTrackStore` is the
specification of `TrackStore` under that mapping.

Action properties and invariants: `SemMatchesBuffer` ties the semaphore, the two
threads' places and the two indices together; `HeldEntryStable` says that no
step changes the entry the write thread holds.

### EmuSeek: the right cylinder, and every wait ends

`EmuSeek` is PRU 0 (the REVC board) with its polling loops: `prupc` names the
loop, an action is one exit from it. The lines of the controller are variables,
so several may have changed when PRU 0 looks, and any of the exits may be the
one taken. `emu_proc()` is there again, at the level of cylinders: `ddrCyl` is
the cylinder in the buffer of a drive, `Partial` while it is filled, and `dirty`
the cylinders at which data was written since the last flush. PRU 1 is an
immediate acknowledge of `STATE_READ_DONE`; `EmuXfer` has the real one.

What the controller may do is a set of constants: change select or head before
seek complete, turn back during a seek, step past the last cylinder, give long
pulses. With all of them FALSE it is the disciplined controller for which the
code was written.

### EmuXfer: two PRUs and a queue that changes direction

`EmuXfer` has both PRUs with their states, offsets and registers, and the
controller's lines. A word of the queue is tagged with the place it comes from
or is meant for, so that a lost, repeated, stale or misplaced word shows.
`SHARED_PWM_READ_MASK` and `SHARED_DELTAS_WRITE_MASK` become `ReadSlots` and
`WriteSlots`; the rotation time is any word of the track.

The code relies on real time in four places. They are operators with names, and
stand in the guards: `FillIsSlow` (the queue is full only after PRU 0 has seen
`TRACK_BIT`), `WordReady` and `RoomForDelta` (the producer and the consumer keep
up: no underrun and no overrun, which the code counts but does not recover
from), and `ReadOver` (a read broken off has ended when the seek is over). What
holds, holds under these.

### DeltasRead, MfmDecoder, BestReads and DiskRead: the best of several reads

`DeltasRead` is the protocol of `deltas_read.c` between main thread, delta thread
and PRU 0, in counts of deltas: one action per access to the command word, the
write pointer, the semaphore, `streaming` and `num_deltas`, with an interrupt
(`shutdown()` of `mfm_read.c`) at any point and each status a read can end with.

`MfmDecoder` is what all formats share of `mfm_decoder.c`: the check of a header
against the track (`mfm_check_header_values`), when a read of a sector replaces
the last one (`Better`, in `mfm_write_sector`), alternate tracks, and the arrays
of `--ignore_seek_errors`.

`DiskRead` is `drive_read_disk()` over these two. A disk gives each track the
cylinder in its headers and the sectors that always read badly; beyond that,
`MaxFaults` times a read of a sector goes wrong in one of the ways of `Faulty`, a
step is one too short or too long (`slip`), or a read gets no index. A delta of
`DeltasRead` is one sector here, so the decoder runs beside the capture. `drive`
keeps the place of the heads apart from `current_cyl`; `Pulses` says what a step
of 0 does on PRU 0. `r` is the decoder and its files, `emu` the words of the
emulation image, and `last` what `update_stats()` remembers of the track before.

`BestReads` is the promise: a store in which each sector only gets better.
`ImplementsBestReads` says that the extracted file is one, under the mapping
`Held` from file offsets to sectors. `FollowsDeltas` says that the reader uses
the delta thread as `DeltasRead` has it.

### TrackFormats, SectorSlots, Ext2Emu, SectorDecoders and FormatRoundTrip

`TrackFormats` is the layout tables and `CONTROLLER` rows of `mfm_decoder.h` that
have a layout, as data: gaps, parts, fields with their offsets and bit lists. The
row in use is part of `drive_params`, so the other modules do not name the table.
`SectorSlots` is the interleave: which sector comes next. `Ext2Emu` walks a layout as `process_track()` does
and builds each part as `process_field()` does: the one bits it sets, the regions
that hold image data, and the check values. Data of the image is not spelled out;
a block is its number. A check value is its type, polynomial, mask, inversion and
the bytes it was computed over. So a check over the wrong bytes, of a part built
in the wrong order, or inverted on one side only, shows; arithmetic of a CRC does not.

`SectorDecoders` are the decoders of these formats: where a part is found (run of
zeros, sync, mark), which state that leads to, what the header says and what
status a sector gets. `FormatRoundTrip` writes a track and reads it back with the
decoder of the same controller, in the order of the loops of both programs. Beside the round
trip it states what each side owes the other whatever the layout: `SectorsPlaced` of the
track that is written, and `StaysOnTrack` of what the decoder writes to the extracted file.

## Runs

All runs use two workers. Each takes less than 2 minutes, `DiskRead` about 3.

| Run | Question | Result |
|---|---|---|
| `EmuThreads` | Do the threads, the buffer and the file implement the store? One drive, two cylinders, one track, three entries, six steps of the controller | holds, 1.1 million states |
| `EmuThreadsLive` | Does the reader always get room, and does a stop flush and close? Two drives, two entries (a flush of one drive fills the buffer) | holds, 0.25 million states |
| `EmuSeek` | With a disciplined controller: cylinder shown, contract of the read thread, writes filed under their cylinder, track zero, seeks served, stop completes. Two drives, three cylinders, five operations | holds |
| `EmuSeekAnyLines` | With any controller and a stop at any time: no request is lost, PRU 0 halts only after the read thread is done | holds |
| `EmuSeekReselect`, `EmuSeekPastEnd`, `EmuSeekStop` | The comments of the code, for a controller that is not disciplined | violated, see below |
| `EmuXfer` | Words in order, writes where they belong, one producer, stops acknowledged. Two tracks, three words and an end mark in a queue of three, four operations | holds, 1 million states |
| `EmuXferStale`, `EmuXferStuck` | The same of the read after a write, and with lines that change during a write | violated, see below |
| `DiskRead` | Is the extracted file the store of the best reads; do list, image and statistics agree with it; is a sound track always read in full; is every delta decoded; does it end? Four jobs: a sector that never reads, a cylinder with headers of another, the same with `ignore_seek_errors`, recovery with a lost data mark; two or three cylinders of two sectors, two retries, two faults | holds, 0.5 million states |
| `FormatRoundTrip` | Does every block come back at its place with a true status, do layouts fit, is each sector there once, do the parts lie after each other, is no block of another track written? Every format with a layout but one, twice: interleave 3 and 2 at the largest cylinder and head, and interleave 1 with two sectors marked bad | holds |

Why the bounds are enough: the faults these properties look for need one entry
in each of the states full, empty, wrapped and held (three entries), one seek
that overlaps a request and one more (three cylinders, five operations), a
second drive for what is indexed by drive, and a queue that wraps in the middle
of a track (three places for a lap of four). In `DiskRead` a lost sector needs
two reads that differ and a third that could undo the merge (two retries); a
misplaced one needs a second sector behind a lost mark or a second cylinder under
the heads; two faults let a bad seek meet a bad read; corrections of two lengths
make three ranks. The third cylinder is there for a track after the one whose
headers sent the heads away, and a drive has one cylinder more than is read. In `FormatRoundTrip` the only number that matters is the end
of each range; interleave 3 shares a factor with most numbers of sectors. Every property has a mutant in
`PROJECT.json`, a plausible mistake in the code that the run finds under the
same bounds. In `EmuXfer` the two queues have the same size so that a short
write wraps; `EmuXferStale` and `EmuXferStuck` use different sizes as the code
does.

`CHECK_DEADLOCK FALSE` is in every configuration because the system does stop:
after a shutdown, and when the controller has used its operations.

Fairness. Each ARM thread is scheduled (weak fairness of `ReadThread` and
`WriteThread`), a PRU is a processor of its own that polls without end (weak
fairness of `Pru0`, `Pru1`, `PruProgram`), and `shutdown()` runs once begun.
The controller and the user are never forced to act, except that a step pulse
which began ends (`StepRises`, and in `EmuXfer` the pulse ends with the step)
and that a write gate is turned off. In `DiskRead` the main thread, the delta
thread and PRU 0 run (`WF_vars(Reader)`, `WF_deltaVars(Process)`,
`WF_vars(DeltaThread)`, `WF_vars(PruRead)`), all being polls or blocking calls of
running threads, and PRU 0 stops at the second index at the latest; faults and
the interrupt are never forced. `FormatRoundTrip` is sequential and checks
nothing that needs fairness.

## What the violations show

- `EmuSeekReselect`: a drive that is deselected after a second step and selected
  again before the ARM has answered shows the cylinder it left.
  `handle_start` sends the second request but leaves `WAITING_CMD` clear.
- `EmuSeekPastEnd`: `CUR_CYL` is over the limit between a pulse and the end of
  the seek; the read thread that serves an earlier request can read it and the
  program ends in `exit(1)`.
- `EmuSeekStop`: PRU 0 that leaves for `EXIT` during a request acknowledges a
  command that the ARM has still to write; `shutdown()` never returns. The same
  hang exists for a stop before the first `CMD_START` (`EarlyExit = TRUE`).
- `EmuXferStale`: PRU 1 does not reset its offset after a write, PRU 0 does. The
  places in between still hold deltas of the write and go to the PWM unit.
- `EmuXferStuck`: after a write PRU 1 waits for `STATE_READ` only. A step or a
  head change that PRU 0 sees first makes the two wait for each other.

Observed while modelling, and not made runs:

- With `ReversesSeek = TRUE`, `ServesCurrentCylinder` fails in a second way:
  `LAST_ARM_CYL` is saved at the interrupt but the ARM reads `CUR_CYL` later; a
  head that has moved away and back in between hides what was loaded.
- With `LongLaterPulses = TRUE`, a long pulse after shorter ones leaves
  `waitstephigh2` for `step_restart` without a request, although `CUR_CYL` moved.
- `DisabledAfterHalt` fails with `LineChangesDuringSeek` or `LongLaterPulses`: an
  interrupt of an earlier request can then satisfy the wait of `pru_shutdown()`.
- The counters of underruns and overruns do not see the word of an end mark: the
  branch to `end_track` comes before the comparison, and an overrun by the zero
  that ends a write would leave both PRUs waiting.
- `get_select_head` compares the head with `NUM_HEAD` of the drive selected
  before, as `DRIVE_DATA` is set after the call.
- `buffer_count` is not checked: 1 blocks the read thread for ever, 0 divides by
  zero.

In the formats:

- `CORVUS_OMNI`: the layout adds up to 10678 bytes, the row gives the track 10418:
  `ext2emu` ends with "Track overflow" (`LayoutsFit` names it). `DTC_520_512B`,
  `SEAGATE_ST11M` and `NORTHSTAR_ADVANTAGE` leave the end of the track unfilled.
- `SHUGART_1610` writes cylinder bits 10 to 8 where the decoder does not look for
  them, `MYARC_HFDC` likewise for bit 10, so cylinders from 256 and 1024 on do
  not come back; a head above 7 of `SHUGART_1610` sets a flag.
- `SHUGART_CD9963` uses the five byte header of `SHUGART_1610`, but its row says
  six: nothing written can be read, and `FormatRoundTrip` leaves it out (`NotReadable`).
- The layout of `SAGA_FOX` holds one part more than its row has sectors.
- `CORVUS_H`, `IMS_A820` and `CROMEMCO` check header and data together: a sector
  marked bad loses its header too (`Lost`).
- `mfm_remap_track()` does not clear its buffer: a sector of a skewed Xebec track
  that was not found is written with what was on the stack (`Junk`).
- `parse_mark_bad()` does not clear its table: `--mark_bad` relies on the memory
  being zero for every sector that is not listed. The model takes it as zero.

In the reader:

- A drive in recovery mode takes micro steps instead of steps, the seek correction
  of `drive_read.c:203` too: heads over the wrong cylinder stay there. With
  `ignore_seek_errors` there is no correction by design. `CleanTrackRead` leaves
  both out; and where retries are 0 beyond `noretry_cyl` nothing corrects a lost place.
- A warning status (delta overflow) that `pru_exec_cmd()` sees before the delta
  thread does ends the program, although the delta thread only reports it.
- With `ignore_seek_errors`, `sector_crc` takes the CRC of a read that is then
  rejected, so a second read with the content that was rejected is no conflict any more.
- After a missed data mark and an unreadable next header, the words of the next
  sector are written to the emulation image with the bad one, and the good read of
  that sector in the same or another attempt is not taken again: the image loses a
  sector the extracted file has. `EmuHoldsBest` excludes such tracks (`spilt`).
- The image may keep a longer ECC correction than the file: both weigh 9.

## Proofs

`EmuThreadsProofs` proves for every number of drives, cylinders, heads, buffer
entries and controller steps, from `SizesAssumption` and `DataAssumption` only:

- `TypeCorrect`: `Spec => []TypeOK`. `TypeOK` is not inductive. That the read
  thread never indexes with cylinder -1 rests on its leaving the loop once it
  has seen -1 (`ReaderInv`), and that `LAST_ARM_CYL` is a cylinder on PRU 0
  storing -1 only after it has stopped to answer (`PruInv`). The inductive
  invariant is `TypeInv == TypeOK /\ ReaderInv /\ PruInv`.
- `SemaphoreCorrect`: `Spec => []SemMatchesBuffer`, by induction relative to
  `TypeInv`, with lemmas about the distance between two indices that wrap.
- `HeldEntryIsStable`: `Spec => HeldEntryStable`. A step that writes an entry
  writes entry `put`; `put = get` only if nothing is published, and then, by the
  semaphore invariant, the write thread holds nothing.

It also proves `ThreadsImplementStore`: `Spec => ImplementsTrackStore`, the
step simulation of the store by the threads, from the same assumptions. What the
store holds for a track is its DDR buffer while its cylinder is loaded, else `Stored`:
the last entry of the track buffer for it, else the file. The inductive invariant
`RefineInv` has a part for each reason why a step cannot lose a track:

- `TurnInv`: data is served (and written) only while the read thread waits for the
  event that ends the serving; `LoadInv`: every drive has a cylinder by then.
- `DirtyInv`, `CleanInv`: a track of a loaded cylinder that is not `Stored` has its dirty
  bit set, or is among the bits the read thread has collected and not yet passed to
  `update_buffer()`. When a cylinder is replaced nothing is pending, so leaving it
  changes nothing.
- `FetchInv`: the entries from `getHold` to `put`, laid over what was read from the file,
  give `Stored`, although the write thread goes on writing and releasing entries
  meanwhile: the hold is at or behind `get`, and an entry laid over once too often is
  followed by the later ones.
- `WriteInv`: an entry is released only when the file has its data, so a release
  leaves `Stored` (`DropOldest`).
- `MarkerInv`: the exit marker is the last entry, so the files are closed when nothing
  else is buffered.

`Dist` measures how far a slot is behind `put` in the ring; the lemmas on it
(`DistInjective`, `NearestExists`, `DropOldest`, `StepAhead`, `AddNewest`) say how the
window of used slots and the entry nearest to `put` change when an entry is put or
released. Every action is then a `Write`, `Leave`, `Seek` or `Close` of the store, or leaves
it alone (`HiddenStep`).

`DeltasReadProofs` proves `ReadsEveryDelta`: `DeltaSpec => []ReadsWhole`, for any
tracks and any number of deltas (`DeltasAssumption`). `ReadsWhole` speaks of the
idle main thread only. Its inductive invariant `IInv` says for each place of the
three parties who holds the one count of the semaphore, that `streaming` is
cleared only by the delta thread for the read it was started for, and only after
it has copied the write pointer once more after seeing the command finished. An
interrupt or a failed read breaks this, but then no other read is started.

`DiskReadProofs` proves `ReaderImplementsDeltas` (`Spec => FollowsDeltas`) with one
step per action of the reader; the only state of the reader it needs is that the
track is one of the job's (`TrackInv`, from `JobsAssumption`). With it
`DiskReadsWhole` carries the result to every disk, option and fault.

It also proves, for every job, disk, bound of faults and set of correction lengths,
`TypeAlways`, `FileMatchesAlways` (`Spec => []FileMatchesStatus`) and `BestReadsKept`
(`Spec => ImplementsBestReads`, the step simulation of `BestReads`). The inductive
invariant `ReaderInv` joins the types of the decoder and of the retries with `HoldInv`:

- `ListOf`: the list of the track being read and the file say the same of each sector;
- `AheadOf`: nothing of the tracks still to come is in the file;
- `GoodOf`: with `ignore_seek_errors`, where the list may be of several cylinders,
  `sector_good` and the file agree.

A header that passes without an error names the track the reader is on (`Headed`), and
no two sectors share a place in the file (`OffsetsDiffer`), so a sector lands in its own
place. What `mfm_write_sector` takes (`Taken`, `NotTaken`) is at least as good as what
is there (`BetterRead`), and every other sector stays (`DataHeld`). The assumptions say
what the model asks of a job: sectors numbered from 0, as many as deltas, headers that
are looked at (`OptionsAssumption`; `--ignore_header_mismatch` is not covered), a header
number for each cylinder (`DisksAssumption`), a place for each sector that a track or a
header can name (`PlacesAssumption`), corrections shorter than the ECC
(`SpansAssumption`).

`DiskImageProofs` goes on from `ReaderInv`, with no further assumption, to what is made
of a track after it has been left. `EmuHoldsBestAlways` (`Spec => []EmuHoldsBest`): a
track of the emulation image has each sector as well as the extracted file (with the
exception of `spilt` tracks that the property makes). `update_emu_track_words()` chooses
between the best single read and the track put together from several by comparing two
sums of weights, so the proof has to say what a sum tells about its parts. The inductive
invariant `ImageInv` has a part for each thing that is kept:

- `LastInv`, `ListInv`: the list that `update_stats()` remembers is that of this track or
  of the one before, and says what the file has of it, since a track that has been left
  is not written to any more (`HeldElsewhere`);
- `SeenInv`, `FirstInv`: the words of the present read are as good as its weights, and
  those of a first read as good as the file;
- `BestInv`: the best read has weights, none greater than what the file has, with the sum
  that is remembered; `FixedInv`: the track put together is as good as the file;
- `WholeInv`: a decoder that has ended a read has had all sectors.

At the choice (`ChosenTell`), the best read weighs no more sector by sector than the list;
if its sum is not less, the two are the same sector by sector (`TotalSame`). `Total` is a
recursive function. The induction that is needed of it is done without an induction
theorem: a set of numbers where it fails would have a least one (`LeastNumber`, from the
well-foundedness of the natural numbers), and there the step before gives a contradiction.

`StatsTellAlways` (`Spec => []StatsTell`) rests on `StatsInv` on top of it: the sums count the
sectors of the tracks before `Uncounted`, as the file has them. A sector counts once as
good, corrected or bad by the flags of the list (`FlagsSay`, `ListCounts`); leaving a track
moves `Uncounted` on by one track (`EarlierGrows`, `NextTally`); what is decoded later is
not in one that was counted (`ReadIsUncounted`). A disk with no sectors is a case of its own.

`CleanTrackReadAlways` (`Spec => [](TrueHeaders => CleanTrackRead)`) is about finding the
track again: the reader steps by a counter of its own, and a slip makes it wrong. The
hypothesis `TrueHeaders` says that each cylinder of the disk has its own headers, one of
them legible, and that the reader was given no list of sector numbers. `SteadyInv` holds
for every disk in its first three parts, and for disks of `TrueHeaders` and tracks without
a fault of their own in the others:

- `CurrentInv`, `AloneInv`, `ActiveInv`: the counter never passes the track, except
  by the seek away that a retry makes; where there is one cylinder only it is right;
  recovery is not entered by itself;
- `OverInv`: over the right cylinder each sector of a sound track is read well; over
  another the first legible header sets `seek_difference` to the distance;
- `ArmInv`: so from the second try on the heads are over the track, or as far from it
  as the seek away takes them;
- `EndInv`: and what ends the track has no bad sector.

`SectorSlotsProofs` proves `InterleaveComplete`: `SlotSpec => []EverySectorOnce` for
every number of sectors and interleave (no run checks it by itself: `SectorsPlaced`, of
which it is the part about the slots, does). The invariant ties the list of used
sectors to the order written; that the search finds a sector rests on counting
(fewer used than there are). `FormatRoundTripProofs` proves that every step of
writing and reading is a step of `SectorSlots` or leaves it alone
(`WriterFollowsSlots`, from `InterleaveAssumption`), whence `EveryTrackComplete`, for
any rows and layouts in `Jobs`.

The other theorems of `FormatRoundTripProofs` are about the tracks themselves. They ask
of a job that its controller has a row other than `SHUGART_CD9963`, that it has a head
and names a cylinder and a head (`GeometryAssumption`), and that the sizes in its layout
are natural numbers (`LayoutAssumption`); which numbers, and in which order gaps, parts and
fields come, is left open.

- `SectorsPlacedAlways`. `WriterInv` says of a track that is being written that each part ends
  where the next begins or before, the last before `start` (`PartsInv`), that the sector
  changes only at a part that ends one (`SameSector`), and that the n-th part that ends a
  sector has the n-th of `order`, the sequence of `SectorSlots` (`InOrder`), of which
  `InterleaveComplete` says the rest. The slots do not know the parts and the parts do
  not know the interleave: counting the parts that end a sector (`Rank`) joins them.
- `TypeCorrect`. That `special_list_ndx` never passes `mark_list`: a part's marks
  fit after every field (`PutFieldMarks`), an induction over its fields by way of the
  least field where it fails. That each of the branches of the decoders finds a cylinder and
  a head in any eleven bytes (`DecodedOK`), so also in those of a part it was not made
  for. With both, `ReaderInv`: the reader works on a written track, at a part of it, in a
  known state.
- `StaysOnTrackAlways`. `HomeInv` says that after a header the sector that is kept is `Settled`:
  on the track and in range, or marked as bad, out of range or to be ignored. Each mark
  only adds to the status (`MarkSettled`), so this is still so when the data comes, and
  what is then written is in `TrackBlocks` (`OffsetInside`). The headers of
  `ADAPTEC_4000_18SECTOR_512B` have a block number only, which is checked against nothing
  but a rough upper bound, so the property leaves this format out.

`EmuXferProofs` is about the two PRUs, for any number of tracks and words, any sizes
of the queues (`QueueAssumption`) and a controller that may change its lines during
a write. `HandshakeCorrect` proves `HandshakeInv`: what each PRU publishes tells where
it is (`Published0`, `Published1`), which places of one go with which of the other
(`Together`), and that PRU 1 is at the track PRU 0 selected (`SameTrack`) and has
marked it (`Marked`). `OneProducerAlways` and `DirtyAlwaysCovers` follow.
`WritesAlwaysLand` needs the contents of the queue: between the two offsets the first
delta is for the word PRU 1 is at (`FirstPending`), each is for the word after the one
before (`InTurn`), and `TRACK_BIT` is the word after the last (`LastPending`). The
lemmas `BetweenGrows`, `BetweenShrinks` and `BetweenIsRun` say what a queue that wraps
holds. `TypeCorrect` and `ReadsInOrderAlways` need the contents of the queue of a read.
Their inductive invariant is `TransferInv`:

- what is not a delta is a word of the track PRU 1 is at (`ItemsOK`), each word is
  followed by the next of the turn (`ReadInTurn`), the last is the one before the word
  PRU 1 is at (`LastRead`), and `TRACK_BIT` is not ahead of the first (`FirstRead`);
- a read that starts again after a write may still have deltas of the write in the
  queue (`StaleWrite`). They are in front of the words (`StaleFirst`) and move only
  `TRACK_BIT`, which stays behind the first word;
- a read that follows no write has no deltas, and `TRACK_BIT` is exact (`Fresh`).

All four timing guards are needed: `ReadOver` for the handshake, `RoomForDelta` for what
the queue of a write holds, `FillIsSlow` and `WordReady` for that of a read.

`EmuSeekProofs` is about PRU 0 and the read thread, for any number of drives and
cylinders and any history of the lines. The controller's habits are constants, so
each theorem names the ones it needs in its ASSUME:

- `TypeCorrect` and `HaltAfterAckAlways` need none: any controller, a stop at any time.
- `ServesWhileArmWaitsAlways` needs lines that stay during a seek and short later
  pulses. Its invariant `TurnInv` says whose turn it is: a request is under way
  exactly while the read thread is at work or is about to be, only a seek has one,
  and seek complete is off meanwhile, which is what keeps the controller's hands off.
- `DisabledAfterHaltAlways` and `TrackZeroTruthfulAlways` need the same, and hold for a
  stop at any time. `StopInv`: once PRU 0 has left its loops no interrupt of a seek is
  pending, so the event `pru_shutdown` waits for is the last one. `ZeroInv`: a drive that
  is not seeking is at `LAST_ARM_CYL`, and the line tells whether that is cylinder 0.
- `ServesCurrentCylinderAlways`, `WritesStayHomeAlways` and `ArmReadsCylinderAlways`
  need in addition a seek that keeps its direction and ends on the disk. The read
  thread may read `CUR_CYL` in the middle of further steps, so it may load neither
  the cylinder it was asked for nor the one the heads end on. `SeekInv` says that
  what it read lies between the two; PRU 0 shows the data only when the two are the
  same. `BufferInv` and `DirtyInv` carry this to the buffers and the dirty bits.

That a controller which reselects or steps past the end breaks this is no weakness of the
argument: `EmuSeekReselect` and `EmuSeekPastEnd` show what happens then.

Each invariant was checked by TLC first.

Only model-checked, and why:

- `CleanTrackRead` of `DiskRead` on disks with misleading headers. The theorem
  `CleanTrackReadAlways` is about the disks of `TrueHeaders`; the run also has a disk
  where one cylinder has the headers of another. With several each
  correction may lead to the next of them: TLC finds that on a disk with the headers
  0, 2, 4, 3, 4 on its cylinders, one slip of a step and three retries, the last read
  of cylinder 3 ends with the heads on cylinder 1.
- `LayoutsFit`, `RoundTrip` and `StatusTells` of `FormatRoundTrip`: facts about the data of the tables in `TrackFormats`, false for arbitrary layouts. TLC checks
  every row there is, so nothing is left to a bound.
- Liveness (`Finishes`, `ShutdownReturns` and the like), which with `ENABLED` is beyond the
  prover.

## Plan

In this order, each with its properties, mutants and, where named, proofs:

1. `CleanTrackRead` for disks where one cylinder has the headers of another: which
   corrections lead from it to a cylinder with headers of its own.
2. The codec of the transitions file (16 bit words and escapes) and the headers of
   both files, against a reference definition.
3. `exit()` in a thread of the emulator: the handler that joins the thread which
   runs it.

## Not modelled

- CRC and ECC arithmetic, PLL and bit timing of the decoders, analysis: numeric
  work on long bit strings or on measured times, out of TLC's reach at any size
  that shows something; the models keep what it decides (good, bad, corrected by
  so many bits, found or not found).
- Decoders of formats without a layout in `mfm_decoder.h`: nothing writes a track
  for them, so there is no reference for what they should read.
- `fix_ext_alt_tracks()` after the last track: one pass over the file.
- Capture without decoding (`deltas_wait_read_finished`), reading from files, and
  the disk writer: loops with one command per track, no retry and no second
  thread that looks at the data.
- `start_dma`, `find_buf_loc`, `check_rotation`, `set_index` of PRU 1 and 0:
  addresses in DDR memory and cycle counts; the words and places they stand for
  are in `EmuXfer`.
- Power-fail monitor: a loop of one actor over a measured voltage.
- Command lines, memory mapping, board detection, scripts, device tree and the RLL
  contribution: configuration and device access.
