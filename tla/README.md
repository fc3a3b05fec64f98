# pico_image in TLA+

`pico_image` (`src/pico_image`) makes an image of a fast radio burst: it reads
raw visibility files that a correlator wrote slice by slice and in turns, keeps
the records and channels the dispersed burst crosses, calibrates them with
what was observed off the burst, drops outliers, grids the rest with FINUFFT,
deconvolves with Hogbom CLEAN and writes FITS files. This directory holds
TLA+ modules of the parts that have control worth checking, configurations
that model-check them with TLC, and proofs checked by TLAPS.

    tlc -config MCGather.cfg MCGather        # one run per line of the table below
    tlapm GatherProofs.tla                   # proofs, one call per *Proofs module

## 1. The system

    svfits parameter file, antenna table
              |
         configuration ----- window of the burst (update_burst)
              |                         |
         raw files  --> record selection (per file: start_rec, n_rec)
              |                         |
              v                         v
      +-- gathering: for each file, slice, record ------------------+
      |   read_slice -> make_bandpass -> per record: channel range  |
      |       -> parallel-for over baselines: decode, calibrate,    |
      |          test, append to the two shared bags                |
      |   after each slice: global_clip_samples on what it added    |
      +-------------------------------------------------------------+
              |  dirty bag, psf bag (index-aligned)
         gridder (FINUFFT: sort, spread, FFT), twice
              |
            CLEAN --> product writer (5 files)

| Part | Source | State | Operations |
|------|--------|-------|------------|
| gathering loop | `pipeline.cpp` 95-412 | loop counters, slice buffer, bandpass, two shared bags, diagnostic counters, one local pair of bags per thread | read, calibrate, parallel-for, append, clip |
| global clip | `grid.cpp` 43-122 | the two bags, read and write positions | statistics, compaction in place, resize |
| record selection | `pipeline.cpp` 42-66, `dm.cpp` 65-118 | burst time and width; per file `start_rec`, `n_rec`; the walking clock | update_burst, locate, walk |
| channel track | `dm.cpp` 30-59 | none between records; the track is its sequence of results | range of a record |
| off-source calibration | `calib.cpp` | `Bandpass`: `abp`, `off_src`, flags of -1 | make_bandpass, apply_calib |
| raw file reader | `raw_io.cpp` | descriptors, time anchors | open, read_slice, close |
| Hogbom CLEAN | `clean.cpp` | residual, components | iterate, restore |
| gridder | `grid.cpp` 13-41, 126-195 | bags, grids | push_sample, run_finufft_dirty |
| run life cycle | `main.cpp`, `pipeline.cpp` | stage, images, return codes | stages in order |
| product writer | `fits_out.cpp` | files on disk | remove, create, fill |
| configuration parser | `config.cpp` | `Config` | load |
| antenna and sampler table | `antsamp.cpp` | antennas, samplers, baselines | load, rebuild_baselines |
| UVFITS debug dump | `dump_vis.cpp` | groups written, pairing key | one serial pass |
| uvw geometry | `uvw.cpp` | none | trigonometry |
| half-float decoder | `half.hpp` | none | decode |
| imgtest, plotting | `imgtest.cpp`, `plot_imgtest.py` | none | development drivers |
| FINUFFT, type 1 in 2D | `finufft/include/finufft/` `spread.hpp`, `spreadinterp.hpp`, `execute.hpp` | histograms, offsets and permutation of the sort; fine grid, a subgrid per thread | sort, spread, merge, shuffle |
| SuperNOVAS | vendored | none | one rotation, called by `uvw.cpp` |

How they interact: calls only, in one process. The shared state that matters is
the two bags, which the OpenMP threads of one parallel-for append to under a
critical section and the clip compacts between slices; in FINUFFT, the arrays of
the parallel sort and the fine grid; the slice buffer `rbuf`, overwritten by each read; and the `Bandpass` object, which lives for a
file and is rebuilt for each of its slices. Nothing is persisted but the
product files.

### What is hard here, and what makes each part correct

- **Gathering.** Threads append to two bags that must stay paired, with a clip
  that assumes they are and that no thread is still at work; a read can fail
  half way through a buffer that is used again. Correct: the bags are aligned
  at every point where something relies on it; whatever the schedule, a slice
  contributes exactly its own samples, read completely and calibrated by its
  own bandpass; earlier slices are never touched; a file that ends early costs
  its own remaining slices and nothing else.
- **Clip.** Compaction in place of eight arrays: a write that overtakes the
  read, an array left behind, a scope that starts too early. Correct: what it
  returns is what a filter would, prefix untouched, pairing kept.
- **From the burst to its channels.** The window (`update_burst`), the record
  walk, the slices read and the channel range of a record are computed apart,
  from two forms of the dispersion law, for files that own every n-th slice.
  Correct: every record with a channel to image is selected; every channel the
  burst crosses is imaged, from records it may be in, and once.
- **Antennas and dump.** Rows of a record are identified by their place in a list
  built from the order of samplers and a mask; the dump pairs rows of two bands
  by a key, up to a limit that has to end five nested loops. Correct: the mask
  removes whole antennas and nothing else; a pair has the same antennas in the
  same sense; the dump is what is imaged.
- **Calibration.** Flagged channels are filled from neighbours in two passes,
  four combinations of two switches with returns in between. Correct: filled
  from the right channel, each switch decides its own half.
- **Reader.** Short reads, interrupts, errors, ends of file; files in any
  order. Correct: a read that succeeds returned the slice asked for; the time
  given to a file depends on its contents, not its place in the list.
- **Sort and spread.** A parallel counting sort whose threads share arrays with
  barriers as the only protection; private subgrids that overlap and wrap, merged
  into one grid. Correct: a stable permutation without races; every sample
  once in every cell of its kernel; every call returns.
- **Image.** Sign of u, wrapping, sense of the transform, mode order, centre of
  CLEAN and reference pixel are decided in four files. Correct: a source
  appears where the header says, as the PSF moved to it.
- **CLEAN.** Shifted PSF beyond the edges, peaks of either sign, stopping.
  Correct: dirty = residual + model * PSF after every iteration.
- **Run and products.** Failing stages, five writes of which each may fail, a
  kill anywhere. Correct: exit 0 means five new products; failures damage no
  more than they must.

The full list of hazards, with lines, is in `PROJECT.json`.

## 2. Modules

| Module | Models | State and actions in the code's terms |
|--------|--------|----------------------------------------|
| `RobustStats` | median, MAD, outlier test | operators on functions from indices to amplitudes; statistics are kept doubled or fourfold so that means of two integers stay integers |
| `GlobalClip` | `global_clip_samples` | one action per loop step; `dirty` is the array `dirty.c`, `beside` the other seven arrays of the two bags, each with a length and an order of its own; `given` is a history variable |
| `GatherParams` | inputs of the gathering loop | constants: selected records, tracks, baselines, contents, switches |
| `GatherSpec` | what gathering promises | a set of samples that grows by a whole slice at a time |
| `Gather` | the gathering loop of `run_pipeline` | main thread by loop, one process per OpenMP thread; the load and the store of a diagnostic counter are separate steps, and so are the two appends of the critical section |
| `ChannelTrack` | `burst_chans_for_record` | `BurstChans(t)`, an operator |
| `RecordSelect` | `update_burst`, `compute_record_ranges` | `UpdateBurst`; `Locate`, `Walk`, `Store` are the two branches, the loop body and its end |
| `Selection` | the two above under the loops over files and slices | `OpenFile`, `ImageSlice`, `NextFile`; `seen` counts the records a channel was imaged from |
| `Bandpass` | `make_bandpass` | one cross baseline; one action per channel of each pass |
| `RawIO` | `open_raw_set`, `read_slice`, `close_raw_set` | one action per file opened, anchored, and per outcome of `pread` |
| `AntTable` | `load_antsamp`, `rebuild_baselines` | one action per line read; the baseline list is an operator of samplers and mask |
| `DumpVis` | `dump_uvfits` | pairing, then the five nested loops with an action per turn and per way out of each, one group at a time |
| `BinSort` | FINUFFT's `indexSort` | one action per thread and phase, one per point placed; barriers |
| `Spread` | FINUFFT's `spreadSorted` | subproblems taken by threads, a load and a store per row of the grid |
| `Image` | `push_sample`, `to_finufft_coords`, `run_finufft_dirty`, mode order, CRPIX | a sample pushed, coordinates converted, two images made; `npix` is a variable, so that a run has sizes of both parities |
| `HalfFloat` | `half_to_float` | the bit arithmetic and the definition of the format |
| `Clean` | `hogbom_clean`, model image | one action per minor cycle |
| `Sums` | - | the sum of a function over a finite set, which `Clean` and `Image` share |
| `Pipeline` | `main`, `run_pipeline`, `run_finufft_dirty`, `write_fits_images` | one action per stage and per step of a file write |
| `*Proofs` | theorems, and the lemmas they rest on (section 4) | - |
| `MC*` | instances for TLC | - |

Composition: `Gather` and `GatherSpec` share `GatherParams`; both use the
outlier test of `RobustStats`, with which `GlobalClip` is shown to compute the
same filter (`ReturnsClipped`), so the clip is one step in `Gather` and many in
`GlobalClip`. `Gather!BySlice` instantiates `GatherSpec` with a refinement
mapping. `Selection` extends `RecordSelect`, which extends `ChannelTrack`:
window, walk and range together. `DumpVis` extends `AntTable`, and `Spread`
extends `BinSort`: what the one produces the other consumes. `Image` takes the
mode order of FINUFFT together with what `grid.cpp` feeds it and what
`fits_out.cpp` and `clean.cpp` make of the result. `Pipeline` has gathering and
CLEAN as one stage each.

Definitions introduced by `Variant:` comments (for example `NoWait`,
`RowsGoOn`, `WrapUnfixed`) are not used by the specifications. Each is a slip the
code invites; substituting it for the definition it varies must break the
property named beside it in `PROJECT.json`, which is how we know that the
property says something about the code.

### Abstractions

- A sample is a record of where it came from (time of its (u, v), slice it was
  read from, whether that read was complete, slice whose bandpass calibrated
  it, baseline, channel) and its amplitude. Values of u, v and phases are
  functions of these and are left out.
- `BAD` is the amplitude of a sample that the keep test drops. The decoder of
  `half.hpp` turns every bit pattern into a finite number, so with it the
  `isfinite` tests of `pipeline.cpp:321` and `calib.cpp:98` do not fire on raw
  data; they are modelled as they stand.
- Arithmetic is exact: ticks for times, squares compared instead of roots
  (`ChannelTrack`), delays at the band's edges in whole ticks (`RecordSelect`),
  pixels in grains of which every gain and PSF product divides evenly (`Clean`), phases in
  sixths or quarters of a turn, for which twice a cosine is an integer
  (`Image`). Rounding of doubles is not modelled anywhere.
- In `Selection` a slice is read and used in one step: the interleavings and the
  half-filled buffer are `Gather`'s subject.
- In `GlobalClip` an element is the identity of the sample it belongs to, in
  `dirty.c` with its amplitude. A survivor's eight assignments are one step.
- In `DumpVis` a group is which samples it joins; their values are left out.
- In `AntTable` a line is what the parser tells apart, a name a value.
- In `Spread` places are half units of the grid and the kernel is 1 on its
  support. Strengths are any naturals; in the run point p has 4^p, so that a cell
  shows which points it got and how often. A row of the subgrid is added in one
  load and one store, which loses as much without the lock as cell by cell; under
  `omp atomic` in one step.
- In `Image` weights are 1 and one point source of unit flux is observed.
- In `Gather` an idle thread may take any baseline not yet taken, a superset of
  OpenMP's schedules; wait for the team is the implicit barrier.
- In `Bandpass` the mean of a channel is represented by the set of records it
  is the mean of; one amplitude per channel stands for the mean's modulus.
- In `RawIO` an offset counts words of four bytes and a slice has three.

## 3. Runs

| Run | Configuration | Question and bounds |
|-----|---------------|---------------------|
| `clip` | `MCGlobalClip.cfg` | Is the in-place compaction a filter, in all eight arrays? Every bag of up to five samples over four amplitudes (equal, close, far), every scope. Five give odd and even counts, ties at the cut, mad = 0, runs of outliers at either end. |
| `gather` | `MCGather.cfg` | Do the threads gather what `GatherSpec` says, do counters that are loaded and stored without a lock add up, and does it end? Three threads; three files, one with nothing selected; a window that starts and ends inside a slice; a record off the track; a self-pair and three cross baselines, so a thread can be overtaken twice; contents with an outlier, a dropped sample, and a first slice that is wider than the others (a clip over the whole bag would then differ). Any read may fail. |
| `select` | `MCSelection.cfg` | Do window, walk, slices and channel ranges agree? Two files, both orders, three records of two ticks per slice; six channels over an octave in each sideband; every arrival tick of two rounds of the files; dispersions from none through one channel per record to many records per channel; pulses from none to several records; timed at the top or the bottom of the band; with and without `UPDATE_BURST`. |
| `bandpass` | `MCBandpass.cfg` | Are flags filled correctly? Four channels: the least in which a fill can chain and a carry-back can skip; three records: the least with one between two burst records; all combinations of bad records and bad channels. |
| `raw` | `MCRawIO.cfg` | Does a successful read return its slice? Two files, lengths ending in the header, inside and at the end of a slice; two reads, so the second can follow a failure that half filled the buffer. |
| `dump` | `MCDumpVis.cfg` | Is the dump what is imaged? Samplers in the same and in opposite orders, doubled, unknown, without a section; a second antenna of the same name; masks that keep all, two, three or one antenna; limits that cut in a row, at the end of a row with others left, and nowhere; files and slices left when they do; any read may fail. |
| `spread` | `MCSpread.cfg` | Do threads race, and does the grid hold the sum? Up to four points, so that a bin can be shared by the chunks of two threads, on a 4 x 4 grid (the least `spreadcheck` allows for a kernel of two) with six bins; up to three threads; densities and thresholds on both sides of each of the code's choices. |
| `image` | `MCImage.cfg` | Does the source appear where the header says? Images of 5 x 5 and 6 x 6 on a fine grid of 8, seven values of u and of v up to a turn and a half per cell, every two samples; sources in the centre, on either axis and in a corner. |
| `clean` | `MCClean.cfg` | Does CLEAN conserve flux? All 3 x 2 images over three values, PSFs with sidelobes of either sign in three directions (beyond the image edges for most peaks), three iterations. |
| `pipeline` | `MCPipeline.cfg` | What does the exit status promise? No bounds: the module is finite. |
| `raw_no_index` | `MCRawIONoIdx.cfg` | Violated; see section 6. |
| `pipeline_peak` | `MCPipelinePeak.cfg` | Violated; see section 6. |

`MCImage` also states `HalfsDecoded`, that every one of the 65536 half-floats
is decoded to the finite number it stands for, as an assumption TLC evaluates.

All runs set `CHECK_DEADLOCK FALSE`: each of these computations ends, and its
last state has no successor.

### Fairness

`Gather!FairSpec` assumes weak fairness of the main thread and of each thread
of the team. The code justifies it: OpenMP threads are scheduled by the
operating system, none waits for anything but the critical section, and the
only thread inside it does a finite number of insertions. Weak fairness is
enough because entering the section competes with finitely many entries per
record. `Spread!Spec` assumes weak fairness of each thread of the sort's and of the
spreader's team, for the same reason; there the barriers must let everybody
through. `RawIO!FairSpec` assumes that a read in progress does not return EINTR
for ever: the program installs no handler and sets no timer. Nothing is
assumed about read errors or about files being complete.

### What the runs show

- The dirty and psf bags are aligned whenever no thread is between its two
  appends; the clip, next read and end of gathering never meet a thread at work.
- Whatever the interleaving, gathering implements `GatherSpec`: per slice, the
  finite cross-correlation samples on the track of its selected records, read
  from that slice, calibrated by that slice, less that slice's outliers. A
  failed read ends its file only.
- `compute_record_ranges` selects a superset of the burst's records. The clock
  of its walk falls behind by one record at each slice edge (`dm.cpp:106`
  jumps from the *start* of a slice's last record by `slice_interval -
  t_slice`, one record short). `NeverAhead` is the reason this is harmless:
  an early clock selects too much, never too little; the channel range then
  empties the extra records.
- With `UPDATE_BURST`, no record outside the selection has a channel range, so
  the window is not too narrow for the ranges; each channel the burst crosses
  is imaged in some record, without intrinsic width in exactly one. This holds
  for bursts whose delay at the top of the band exceeds the pulse and a
  record, and which arrive after the observation began (`InTime`); other tracks
  have records without a frequency, which the code leaves out.
- A channel that the burst sweeps through within one record is in that record's
  range (`SweptImaged`). A range lacks a channel the burst is in only where the
  burst is inside that channel at an end of the record, or the track has no
  frequency yet when the record begins (section 6).
- The in-place clip moves the eight arrays alike: whatever it drops, an index
  still names one sample in all of them.
- The mask takes whole antennas out of the baseline list, and no row of a pair of
  enabled antennas with it (`OneRowPerPair`). The dump never joins a row with the
  conjugate of its twin, and holds what is imaged of the baselines that both
  bands list alike, up to its limit, whichever of the loops that is met in.
- The threads of FINUFFT's sort never touch the same element at once when one of
  them writes it; the order is the serial one; the fine grid holds every
  sample once in each cell of its kernel, periodic in both dimensions.
- Sign of u, wrapping, transform, mode order, PSF centre and `CRPIX` agree: the
  source has its flux at the pixel that the header places on it, for an odd
  `NPIX` half a cell off on both axes and always to the same side, and the dirty
  image is the PSF moved there, which is what CLEAN subtracts. FINUFFT is
  handed points in [-pi, pi) only, however long the baseline (`PointsInRange`).
- The exit status is 0 only if all five products are from this run, and a run
  that finds no sample leaves the products of an earlier one.

## 4. Proofs

Each theorem holds for every value of the module's constants that satisfies the
named assumptions; the run of the module shows the same on a small instance.
Every safety property of a passing run, invariant or action property, is
proved. A proof module covers several parts where they share lemmas: `ClipProofs`
the clip and the calibration, `RunProofs` the reader and the run, `ImagingProofs`
CLEAN and the image.

| Theorem | States |
|---------|--------|
| `ClipProofs`, of `GlobalClip` | |
| `ClipTypes`, `ClipAligned`, `ClipPrefix`, `ClipCompacts` | `Spec => []` of `TypeOK`, `Aligned`, `PrefixKept`, `Compacted`: bags of any length, any amplitudes and threshold |
| `ClipReturnsClipped` | what the clip returns is what a filter would, early returns included |
| `GatherProofs` | any files, baselines, contents, tracks and number of threads |
| `GatherTypes`, `GatherAligned` | `Spec => []` of `TypeOK`, `Aligned` |
| `GatherContents`, `GatherNoDuplicates` | what has been gathered of a slice at any moment; no sample twice |
| `GatherCounts` | `DiagnosticCountsGridded`: the counters, loaded and stored without a lock, add up to what is gridded |
| `GatherKeepsEarlier` | the action property `EarlierSlicesKept` |
| `GatherImplements` | `Spec => BySlice!Spec`: the threads implement `GatherSpec` |
| `SpreadProofs` | any number of points, bins and threads; any strengths, kernel width, grid and limits |
| `SortInvariant`, `SortRaceFree`, `SortStable` | `NoSortRace` and `StableByBin` of FINUFFT's sort, with the inductive invariant |
| `SpreadInvariant`, `SpreadHoldsSum` | `SpreadIsSum`: the grid returned is the periodic sum, whether additions are locked or atomic |
| `SelectionProofs` | any band, dispersion, pulse, number of files and of records per slice |
| `WalkNeverAhead`, `WindowCovered` | `NeverAhead`, `CoversWindow` |
| `WindowIsEnough` | `NoRangeOutsideWindow`: the two forms of the dispersion law agree |
| `ImagedInBurst`, `SweptChannelsImaged` | `OnlyBurstChannels`, `SweptImaged` |
| `ImagedAtMostOnce`, `EveryChannelImaged` | `ImagedOnce`, `BurstImaged` |
| `ClipProofs`, of `Bandpass` | any records, channels and flags |
| `BandpassInvariant`, `BandpassTypes`, `BandpassFilled`, `BandpassSwitches` | the fill starts from an unflagged channel; `FilledFromBelow`, `SwitchesIndependent` |
| `RunProofs`, of `RawIO` | any files and lengths, any split of a read |
| `RawInvariant`, `RawTypes`, `RawAnchored`, `RawReads` | a read stays inside the buffer; `AnchoredByContent`; with an index word in the files, `ReadsTheSlice` |
| `RunProofs`, of `Pipeline` | |
| `RunInvariant`, `RunSuccessIsComplete`, `RunKeepsOld`, `RunCutAtOnePlace` | `SuccessIsComplete`, `OldKeptUntilImaged`, `CutAtOnePlace` |
| `ImagingProofs`, of `Clean` | any image, PSF, gain 1/`Unit`, threshold and number of iterations |
| `CleanInvariant`, `CleanConserves` | `Conserved`: dirty = residual + model * PSF after every iteration |
| `CleanReducesPeak` | the action property `PeakReduced`, for a PSF of unit peak |
| `ImagingProofs`, of `Image` | any image, even or odd, any fine grid, samples and source |
| `ImageInvariant`, `CoordinatesInRange` | `PointsInRange` |
| `PsfPeakAtCentre`, `SourceLooksLikePsf` | `PsfCentred`; `DirtyIsMovedPsf` wherever the source is |
| `SourceWhereHeaderSays` | `SkyMatchesWcs`: a source in the field has its full flux where the header says |
| `DumpProofs`, of `AntTable` and `DumpVis` | any header file, masks, selection, tracks and limit |
| `DumpInvariant`, `OneRowForEachPair` | `OneRowPerPair`: rows are one to one with pairs of samplers |
| `TwinsOfOnePair`, `DumpHoldsImaged` | `TwinsAgree`, `DumpIsWhatIsImaged` |

`RobustStatsProofs` holds the lemmas that several of them use: order statistics,
the listing of a finite set in order, the least number of a set. Each inductive invariant was an invariant of the module's run
before it was proved.

### Assumptions

TLC evaluates every assumption on the runs. Most say only what kind of value a
constant is (`ClipAssumption`, `GatherAssumption`, `RawAssumption`,
`BandpassAssumption`, `BinSortAssumption`, `SelectAssumption`, `AntAssumption`).
These say more:

- `GatherAssumption`: `BAD` is not an amplitude; tracks exist for the selected
  records; the baselines of a record are finite in number. `DiskAssumption`: the
  channels of a selected record's track are amplitudes or samples to drop.
- `GatherCounts` has the hypothesis that a clip that may drop samples has a
  `THRESH` of at least one. The configuration accepts any number; below one a
  clip could drop every sample, after which `bag0 = 0` would no longer mean that
  nothing has been clipped, and the counters, which a clip does not reduce,
  would exceed the bag.
- `BandAssumption`, `TickAssumption`: the band has a positive width, and the
  delays at its ends and at the burst's reference frequency are whole ticks.
  This is the exact arithmetic of the model (doubles in the code) and is what
  lets the form of the law in `update_burst` be compared with the one in
  `burst_chans_for_record`.
- `SpreadAssumption`: the grid is at least twice the kernel in both dimensions,
  which FINUFFT's `spreadcheck` demands (the proof needs only that the kernel is
  narrower than the grid); strengths are naturals, where the code adds complex doubles.
- `LayoutAssumption`: the files of an observation carry embedded indices that
  are a permutation of the first `NFile` slices, by which `raw_io.cpp:108`
  places them. `RawAnchored` proves that `open_raw_set` places files by these
  indices and not by their order.
- `CleanAssumption`: the unit of a pixel's value, `Grain`, is refined by `Unit`
  squared per iteration, which makes the model's division exact where the code
  multiplies doubles. It restricts neither image nor PSF.
- `CleanReducesPeak` has the hypothesis `UnitPeaks`, the peak of 1 at the centre
  that `clean.hpp` requires of its caller; section 6, item 2 shows when the
  caller does not keep to it.
- `ImageAssumption`: `Turn` is 4 or 6, for which twice a cosine is an integer: (u, v)
  are whole fourths or sixths of a turn per cell. The possible sizes of the image
  (`Sizes`) and that of the fine grid, the samples and their number are free; a
  source is at a whole number of cells from the centre.
- `DumpAssumption`: fewer than 256 antennas, which the key `(a0 << 8) | a1` needs
  (`MaxAnts` is 32 in the code); every selected record has a track.
- `RawReads` has the hypothesis `HaveIdx`; without it the property is false, see
  section 6, item 1.

### Arguments

**Clip.** None of the four invariants is inductive alone. `IInv` conjoins them
with `UnreadIntact`. The survivor at `src + 1` is moved to `keep + 1`: to know
that what lands there is the sample the caller gave (`Compacted`), it must not
have been overwritten (`UnreadIntact`), which needs `keep <= src`; that
`keep + 1` is its rank among the survivors needs the cardinality of the
survivors examined so far, one larger per survivor (a lemma); that what the
other seven arrays move with it belongs to it is `Aligned`, which compares
each of them, length and elements, with `dirty.c`; and the prefix survives
because `begin <= keep`. `ReturnsClipped` adds what each `pc` says of the
statistics computed so far, and the lemmas that a median and a MAD of finitely
many naturals exist and are naturals.

**Gather.** `IInv` conjoins `TypeOK`, `TeamJoined`, `Aligned` and `InWindow`.
`TeamJoined` (outside a parallel-for no thread is at work) is what the barrier
gives, a lemma and not a result.
`InWindow` (a parallel-for runs on a selected record of a listed file) is
needed for types: it is what makes the track of the record defined and the
local bag a finite sequence. `Aligned` says more than "equal when quiet": a
thread inside the critical section accounts for exactly the difference, and it
is alone there. Then `AppendDirty` needs that nobody is inside,
`AppendPsf` closes the difference, and the clip, which reindexes both bags by
the same function, runs outside the parallel-for, where `TeamJoined` says that
nobody is inside.

For the refinement, `ContentInv` says what is where: the bag's part of this slice
and the local bags not yet appended are disjoint, without repetition, and
together are the calibrated samples of the records finished and of the
baselines taken in this one. It holds whichever thread took which
baseline and in whatever order they append, so at the end of a slice the bag's
part is the set `GatherSpec` adds, in some order; `OutliersRenumbered` (which
amplitudes are outliers does not depend on how they are indexed) then makes the
clip of the sequence the clip of the set. Every other step is a stutter of
`GatherSpec`, and a failed read or the end of a file is its step that gives
up what is left of that file. `NoDuplicates` follows from `ContentInv` and from
samples of different slices being different.

`DiagnosticCountsGridded` is a sum over baselines. `FoldIsCount` shows that the
fold is the number of pairs of a baseline and a unit it has counted, by the
smallest set of baselines on which they would differ; `CountInv` then says
that these pairs are as many as the samples in the bag and in the local bags counted
and not yet appended (`Waiting`). A thread stores what it loaded and the size of
its local bag, which adds that size only if nobody has stored in between:
`CountersOwned` says that threads between load and store are at different
counters, which still hold what was loaded. Between records no local bag waits. A clip with a threshold of at
least one keeps the amplitudes at the median, so a bag that has been
clipped is not empty and `bag0 > 0` from then on.

**Sort.** An element of the shared arrays is a count of points: in each phase the
histogram of a thread, then the prefix sums, then the slots still to be
filled. `Histograms`, `Offsets` and `Placed` state each as the cardinality of
the set of points counted, and `Phased` states what the barriers give: no two
threads are in phases that share an array, but for the placing, where each
writes the slots that its own offsets name. That these are disjoint is
`RankApart`, and that together they are all slots is `RankOnto` (a map of a
finite set into one of its size that is injective is onto). The two prefix
scans are recursive functions; `SumIs` shows that a function that satisfies the
recurrence is the scan, by the least index at which they would differ, so no
induction on a property is needed. `NoSortRace` and `StableByBin` follow
from the placing.

**Spreading.** `SumInv` says that a busy thread owns a subproblem that no other
has and has merged the first `dy` rows of it, that the other subproblems are
merged whole or not at all, and that each cell holds the strengths of the
points in the rows merged so far (`Merged`). A step then adds one row, and
the new sum is the old one plus that row's only if the row brings points that
are not there yet: points of different subproblems differ because the sorted
order has each point once (`SubPartition`, from the sort's invariant), and a
point meets a cell in one row only because the kernel is narrower than the grid
(`WrapXMod`, `WrapYMod`: the wrapping of the code, by counting columns at either
end and by a running row number, is the remainder). With the lock a row is
added in two steps; `Locked` says that the thread between them is alone inside
and that the grid still is what it loaded. A sum is compared as the size of a
set of pairs of a point and a unit of its strength (`SumOverSize`), again by
the smallest counterexample. At the end all rows are merged, and the points of
all rows over a cell are those whose kernel covers it (`MergedAll`).

**Selection.** `SweptImaged` needs no pass over the files: the range of a record has
every channel whose far edge the burst crosses while the record lasts, once
the two ends are in order. `WalkInv` says that the walk's clock stands at or before the true time
of its record, and equals it until a slice edge has been crossed; every record
it leaves out then ended before the window or begins after it. `RangeInv` and
`SeenInv` say what the pass over the files has imaged: `ImagedIff` shows that
with no intrinsic width a record images channel `c` exactly if the burst crosses the far edge
of `c` while the record is observed. Records partition time, also across
files (`LayoutAssumption`), so a channel is imaged at most once, and once if the
crossing lies in the observation.

**Bandpass.** `BaseInv` and `BandInv` say phase by phase which channels have been
averaged, filled and carried back, and that what is filled is what a search for
the nearest measured channel below would find; the two switches occur in
different conjuncts, which is `SwitchesIndependent`.

**CLEAN.** Sums over pixels are folds; `TotalChange` (a function changed at one
index has a sum changed by as much) and `TotalBound` are shown with partial sums over
subsets, by the smallest subset on which they would fail. `CleanInv` adds to
`TypeOK` and `Conserved` that with k iterations left each pixel is a multiple of
`Grain[k]` (`Whole`). Without it `Conserved` is not inductive: an iteration divides
twice, by the gain and by the unit of the PSF, and what a remainder loses
would be missing from the sum. With it the component's flux times the PSF, shifted and
cut at the edges, is exactly what leaves the residual, and the model image
changes at one pixel (`ModelGrows`; the model is a recursive function of the
components, compared with that of one component less by the least index at
which they would differ).

**Image.** `Twins` says that psf sample i has the coordinates of dirty sample i, and
`Phased` that its phase is that of the source at its coordinates, but for whole
turns: conversion reverses u and wraps both, which adds such turns
(`WrapsTurns`) and ends in [-pi, pi) whatever the sign (`WrapInRange`). `ModeFrequency` shows that the mode order and the fine grid give
output p of an axis the frequency `p - npix \div 2`. At the pixel of the source,
and for the PSF at the centre, the phases cancel: each sample contributes 2
(`PixelInPhase`), and nowhere more (`PixelBound`). `SkyIs` computes the place that
the header gives that pixel, for both parities: CRPIX is half a pixel more than
the mode's for an odd size. The dirty image is the PSF
moved because the terms of both sums are the same, sample by sample.

**Table and dump.** Both are loops that push into a vector; `Lists(f, X)` says that
what was pushed is the elements of a set, each once. `ListsFlat` lifts it over
`FlattenSeq`, a recursive function, for sets that have nothing in common, and
gives the baseline list, in order by band. `RowsOfTwo` maps the rows of two
antennas to the pairs of their samplers, swapping those listed the other way
round, and shows it one to one and onto; `NoRowMasked`, that an antenna without its
bit in the mask has none. `DumpInv` conjoins four parts besides the pairing:
`TableInv`; `WalkInv`, which says where the five loops are and that slices read are
behind them or at hand; `LimitInv`, that there is room for a group until the limit
is met and that afterwards no loop over rows or channels goes on; and
`CollectInv`. The last relates the groups to `Made`, the groups of the slices read
(`All`) that the loops have passed (`Passed`): without the limit they are listed,
each once, and with it some of them are, each once. Storing a group adds one
element to `Made` (`GroupStored`), leaving a loop with nothing left adds none, and
once capped every way out passes groups that were not stored, which only
enlarges `Made`. `Paired` says that the map from keys finds a twin exactly if
there is one (a key determines the two antennas in order). At the end every loop
is behind, `Made` is `All`, and without the limit that is what is imaged.

**Reader.** `ReadInv`: what is in the buffer at position `got` came from the
position `got` words after the slice's start, and what is beyond is whatever
was there before. `AnchorInv`: an anchor is a function of the file's header and
index alone. **Run.** `StageInv` lists, per stage, what the return codes so far
imply for each of the five files.

### Only model-checked

- Liveness: `Terminates`, `ReadReturns`, `SpreadReturns` need fairness and ENABLED,
  which the prover does not handle.
- `HalfsDecoded`, a statement about 65536 values that TLC evaluates.
- The two properties of section 6 that fail.

## 5. Not modelled, and why

- `config.cpp`: text to fields without state; its result is the constants of
  the modules.
- `uvw.cpp`, the beam fit and the restored image of `clean.cpp`, header keywords
  other than the reference pixel: trigonometry, least squares and convolution
  in doubles, which TLC has not; nothing in them branches on shared state.
- `apply_calib`: one subtraction and one division per sample; `Gather` keeps
  which bandpass a sample was calibrated with.
- `imgtest.cpp`, plots: development drivers, not part of a run.
- FINUFFT beyond the sort, the spreading and the mode order of a type 1
  transform in 2D: kernel polynomials and FFT are numerics, and types 2 and 3,
  dimensions 1 and 3, the GPU library and the language wrappers are never called.
- SuperNOVAS: one rotation is called. Its tables and theory are numerics.

The repository carries both libraries in full, and they are some 95 in a hundred
of its lines; `pico_image` itself is under 4000. That is why the lines modelled
are a small share of the whole although every component of `pico_image` with
control of its own is in a module.

## 6. Disagreements between code and documentation

Shown by a run:

1. `raw_io.cpp:185-188`: `read_slice` skips the index word even with
   `HAVE_IDX=0`, where files have none (`raw_io.cpp:11`); a successful read is
   then off by one word (`raw_no_index`).
2. `pipeline.cpp:457`: tests `run_finufft_dirty(...) < 0`, but FINUFFT's codes
   are positive; an all-zero PSF reaches CLEAN, which requires peak 1, and the
   run can exit 0 (`pipeline_peak`).

Noticed while modelling, without a run that fails:

- `calib.cpp:70`: the burst span of a channel is tested strictly, so the first
  channel of each record's imaged range is also averaged into what is
  subtracted from it; `calib.hpp:26-27` says those records do not contain the
  burst. `calib.cpp:64-67` takes the strict test from svfits on purpose, so no
  property is stated of it.
- `fits_out.cpp:37`: the reference pixel `n/2.0 + 1` is half a pixel off the mode
  that `grid.cpp` centres on when `NPIX` is odd, which `config.cpp:106` accepts,
  while `grid.cpp:126-127` says that the image matches the WCS. `SkyMatchesWcs`
  states the offset, the same for every source (`OddShift`).
- `config.hpp:46` defaults `ANTMASK` to 0xFFFFFFFF, the top-level README (lines
  63-75) to 0x3FFFFFFF. With two slots of one antenna name, samplers go to the
  first, and the bit of the second selects nothing.
- `antsamp.cpp:81-83`: a sampler line of an unknown antenna or band is left out
  without a message, and rows after it move up; the number in the line does
  not decide the order.
- `dump_vis.hpp:8` describes `PICO_DUMP_CLIP`, which nothing reads. A limit of
  zero or less still writes one group.
- `pipeline.cpp:181` says uvw is taken at the record's midpoint; `trec` is its
  start.
- `pipeline.cpp:329` counts "only samples actually gridded" in the DC
  diagnostic, but with `do_flag` on the clip removes samples afterwards.
- `dm.hpp:18` promises the channels expected to contain the burst; when the
  burst stays inside one channel for a whole record the half-open range is
  empty (that nothing crossed whole is lost by it is `SweptImaged`), and so it is when the record's first moment precedes the time at which
  the track has any frequency.
- `clean.cpp:4` speaks of wrapping; the shifted PSF is cut at the edges.
- With a noise floor of zero CLEAN's stop test (`peak < floor`) never holds:
  components of zero flux are added until the iterations are used up.
- The top-level `README.md:48` gives `CLEAN_THRESH` as 0.0 Jy; `config.hpp:75` has
  3.0, in sigma. `README.md:59` describes one FITS file with four HDUs; five files
  are written.
- `calib.cpp:7` lists a MAD flagger that is not in the file. `dump_vis.cpp:10`
  says the dump "IS what pico would image"; it leaves out what has no RR/LL
  partner. `dm.hpp:12` and `dm.cpp:14` give K as 4.148808e-3; `dm.cpp:25` uses
  4.15e-3.
- Files that could not be read are left out and the run exits 0.

## 7. Plan

The components with control are modelled, and every safety property that a run
checks is proved. What is left to model is small: the configuration's line syntax,
which `AntTable` has the like of, and the beam fit's choice of pixels. Exact
arithmetic stands between these models and the code's doubles; bounds on
rounding in CLEAN and in the sums of the gridder would be the next step.
